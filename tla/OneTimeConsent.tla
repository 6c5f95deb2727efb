--------------------------- MODULE OneTimeConsent ---------------------------
(***************************************************************************)
(* What an approval is worth, with no clocks, leases, handlers, gateway or *)
(* database: a protected action is asked for; only if it was approved, and *)
(* while it is still open, can the approval be spent; spending it buys at  *)
(* most one effect on the outside world, and success is reported only for  *)
(* an effect that happened.  GovernedOperations implements it for every    *)
(* operation.                                                              *)
(***************************************************************************)
EXTENDS Naturals

VARIABLES phase, effects, reported

consentVars == <<phase, effects, reported>>

Init == phase = "absent" /\ effects = 0 /\ reported = FALSE

Move(from, to) == phase \in from /\ phase' = to /\ UNCHANGED <<effects, reported>>

Ask == Move({"absent"}, "pending")

Grant == Move({"pending"}, "granted")

\* Denied, expired, cancelled, or abandoned before it was spent.
Close == Move({"pending", "granted"}, "closed")

Spend == Move({"granted"}, "spent")

Act ==
    /\ phase = "spent"
    /\ effects = 0
    /\ effects' = 1
    /\ UNCHANGED <<phase, reported>>

Report ==
    /\ effects = 1
    /\ reported' = TRUE
    /\ UNCHANGED <<phase, effects>>

Next == Ask \/ Grant \/ Close \/ Spend \/ Act \/ Report

Spec == Init /\ [][Next]_consentVars
=============================================================================
