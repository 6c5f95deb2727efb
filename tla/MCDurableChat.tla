--------------------------- MODULE MCDurableChat ---------------------------
\* Symmetry for TLC.
EXTENDS DurableChat, TLC

MCSymmetry == Permutations(Turns) \cup Permutations(Uploads) \cup Permutations(Conversations)
                \cup Permutations(Workspaces)
=============================================================================
