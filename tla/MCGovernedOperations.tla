------------------------ MODULE MCGovernedOperations ------------------------
(* Small instances of GovernedOperations for TLC. *)
EXTENDS GovernedOperations, TLC

CONSTANTS ToolRequest, UploadRequest, FixtureRequest

MCKindOf == [r \in Request |-> IF r = UploadRequest THEN "upload"
                               ELSE IF r = FixtureRequest THEN "fixture" ELSE "tool"]

Symmetry == Permutations(Operation) \cup Permutations(Approver) \cup Permutations(Handler)
=============================================================================
