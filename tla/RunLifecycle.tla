---------------------------- MODULE RunLifecycle ----------------------------
(***************************************************************************)
(* What a scheduled run promises its owner, without clocks, leases, tokens *)
(* or processes: a run is queued once, begins only once somebody has       *)
(* claimed it, starts at most one agent turn, goes back to the queue at    *)
(* most once and only before its turn, and stays as it ended.  Schedules   *)
(* implements it for every occurrence.                                     *)
(***************************************************************************)
EXTENDS Naturals

VARIABLES state, turns, deferred

lifeVars == <<state, turns, deferred>>

Ends == {"succeeded", "failed", "skipped"}

Init == state = "none" /\ turns = 0 /\ deferred = FALSE

\* Queued by the cron expression or by hand; or skipped because of an overlap.
Queue ==
    /\ state = "none"
    /\ state' \in {"queued", "claimed", "skipped"}
    /\ UNCHANGED <<turns, deferred>>

Claim ==
    /\ state = "queued"
    /\ state' = "claimed"
    /\ UNCHANGED <<turns, deferred>>

\* A claimed run begins to execute, a deferred one only when it was claimed again.
Begin ==
    /\ state = "claimed"
    /\ turns = 0
    /\ state' = "running"
    /\ UNCHANGED <<turns, deferred>>

\* The turn starts; the schedule may have been deleted since the run began.
StartTurn ==
    /\ state \in {"running", "gone"}
    /\ turns = 0
    /\ turns' = 1
    /\ UNCHANGED <<state, deferred>>

\* The workspace is in transition: wait once.
Defer ==
    /\ state = "running"
    /\ turns = 0
    /\ ~deferred
    /\ state' = "queued"
    /\ deferred' = TRUE
    /\ UNCHANGED turns

\* Only a run whose turn started succeeds.
Finish ==
    /\ state = "running"
    /\ state' \in Ends
    /\ state' = "succeeded" => turns = 1
    /\ UNCHANGED <<turns, deferred>>

Delete ==
    /\ state # "gone"
    /\ state' = "gone"
    /\ deferred' = FALSE
    /\ UNCHANGED turns

Next == Queue \/ Claim \/ Begin \/ StartTurn \/ Defer \/ Finish \/ Delete

Safety == Init /\ [][Next]_lifeVars
=============================================================================
