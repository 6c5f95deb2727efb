--------------------------- MODULE MCMemberships ---------------------------
EXTENDS Memberships, TLC

MCGrantSets == {{"roles"}, {"members", "roles"}}
MCChanges == {[role |-> "admin", status |-> "same"], [role |-> "member", status |-> "active"],
              [role |-> "same", status |-> "suspended"], [role |-> "same", status |-> "revoked"]}
MCSymmetry == Permutations(Handler) \cup Permutations(Member \ {Founder})
=============================================================================
