------------------------------ MODULE Schedules ------------------------------
(***************************************************************************)
(* Scheduled agent runs: the tables schedules and schedule_runs with the   *)
(* transactions of PostgresScheduleStore (packages/workspace-store/src/    *)
(* schedules.ts), the ScheduleService of Control that edits schedules and  *)
(* executes leased runs (apps/control-api/src/schedules.ts), and the       *)
(* worker that polls and dispatches (apps/scheduler-worker/src/server.ts). *)
(*                                                                         *)
(* A database transaction is one action.  What the code does in several    *)
(* steps is several actions: an edit reads the schedule and writes it      *)
(* later, a dispatch is a message, an execution runs through phases.       *)
(***************************************************************************)
EXTENDS Integers, FiniteSets

CONSTANTS
    Schedule,     \* schedule identifiers, never reused
    Cron,         \* cron expressions, each stood for by its period in ticks
    Editor,       \* concurrent PATCH requests on schedules
    MaxTime,      \* bound: the clock stops here
    MaxManual,    \* bound: runs queued by hand
    ClaimLimit,   \* CLAIM_LIMIT: rows one poll takes
    LeaseTime,    \* CLAIM_LEASE_MS
    RetryDelay,   \* workspaceTransitionRetryMs
    ReapAfter,    \* the 20 minutes after which a running row is given up
    TurnTimeout,  \* agentTurnTimeoutMs of the agent chat client
    AccessBound   \* longest time from beginScheduleRun to the start of the turn

ASSUME ScheduleConstants ==
    /\ Cron \subseteq Nat \ {0}
    /\ {MaxTime, MaxManual, ClaimLimit, LeaseTime, RetryDelay, ReapAfter, TurnTimeout, AccessBound} \subseteq Nat

\* A turn ends, by its timeout, before its run is given up: 15 minutes of turn
\* and the access checks fit in the 20 minutes of the reaper.
ASSUME TurnFitsInReapDelay == AccessBound + TurnTimeout <= ReapAfter

Times == 0 .. MaxTime
Never == -1                        \* SQL NULL of a timestamp
Occurrences == Schedule \X Times   \* UNIQUE (schedule_id, scheduled_for)

NextAt(period, after) == (after \div period + 1) * period

VARIABLES
    now,
    suspended,    \* platform_tenant_lifecycle: the tenant is suspended or closed
    schedules,    \* the table schedules
    runs,         \* the table schedule_runs, by its unique key
    edits,        \* edits[e]: the record an editor has read, or NoEdit
    rewound,      \* history: schedules put back to a next occurrence that another edit had replaced
    dispatches,   \* execute requests under way from a worker to Control
    executions,   \* executions under way in Control
    turns,        \* history: agent turns started for an occurrence
    polledAt      \* history: when a poll queued an occurrence, or Never

tables == <<schedules, runs>>
vars == <<now, suspended, schedules, runs, edits, rewound, dispatches, executions, turns, polledAt>>

Terminal == {"succeeded", "failed", "skipped"}
ActiveStates == {"claimed", "running"}
RunStates == {"none"} \cup ActiveStates \cup Terminal
Live == {"enabled", "paused"}

Unscheduled(s) == [state |-> s, next |-> Never, cron |-> 0]
ScheduleRow == [state : Live, next : {Never} \cup Nat, cron : Cron]
                   \cup {Unscheduled("absent"), Unscheduled("deleted")}
\* overtaken: history, another edit has changed the next occurrence since this one read it
Edit == [state : Live, next : {Never} \cup Nat, cron : Cron, schedule : Schedule, overtaken : BOOLEAN]
Execution == [occ : Occurrences, token : Nat, since : Times, deferred : BOOLEAN,
              phase : {"access", "turn", "transition"} \cup Terminal]
Run == [state : RunStates, token : Nat, claims : Nat,
        leaseUntil : {Never} \cup Nat, started : {Never} \cup Nat, deferred : BOOLEAN]

NoRun == [state |-> "none", token |-> 0, claims |-> 0,
          leaseUntil |-> Never, started |-> Never, deferred |-> FALSE]
NoEdit == [state |-> "absent", next |-> Never, cron |-> 0, schedule |-> "none", overtaken |-> FALSE]

QueuedRun == [NoRun EXCEPT !.state = "claimed"]
\* The lease is cleared; started_at of a row that has ended is never read again.
Ended(r, s) == [NoRun EXCEPT !.state = s, !.deferred = r.deferred]

Init ==
    /\ now = 0
    /\ suspended = FALSE
    /\ schedules = [s \in Schedule |-> Unscheduled("absent")]
    /\ runs = [o \in Occurrences |-> NoRun]
    /\ edits = [e \in Editor |-> NoEdit]
    /\ rewound = {}
    /\ dispatches = {}
    /\ executions = {}
    /\ turns = [o \in Occurrences |-> 0]
    /\ polledAt = [o \in Occurrences |-> Never]

-----------------------------------------------------------------------------
(* Editing schedules *)

Exists(s) == schedules[s].state \in Live

CreateSchedule(s, state, cron) ==
    /\ schedules[s].state = "absent"
    /\ schedules' = [schedules EXCEPT ![s] =
          [state |-> state, cron |-> cron,
           next |-> IF state = "enabled" THEN NextAt(cron, now) ELSE Never]]
    /\ UNCHANGED <<now, suspended, runs, edits, rewound, dispatches, executions, turns, polledAt>>

\* update: getSchedule, and an await before the row is written
ReadForUpdate(e, s) ==
    /\ edits[e] = NoEdit
    /\ Exists(s)
    /\ edits' = [edits EXCEPT ![e] = [state |-> schedules[s].state, next |-> schedules[s].next,
                                      cron |-> schedules[s].cron, schedule |-> s,
                                      overtaken |-> FALSE]]
    /\ UNCHANGED <<now, suspended, schedules, runs, rewound, dispatches, executions, turns, polledAt>>

Patched(old, new, unset) == IF new = unset THEN old ELSE new

\* The timing changes, or the record read has no next occurrence to keep.
Recomputes(read, patch) == patch.state # "kept" \/ patch.cron # 0 \/ read.next = Never

PlannedFromRead(read, patch) ==
    IF Patched(read.state, patch.state, "kept") = "paused" THEN Never
    ELSE IF Recomputes(read, patch) THEN NextAt(Patched(read.cron, patch.cron, 0), read.next)
         ELSE read.next

\* The nextRunAt an update writes: from the patch and the record read before.
PlannedNext(read, patch) ==
    IF Patched(read.state, patch.state, "kept") = "paused" THEN Never
    ELSE IF Recomputes(read, patch) THEN NextAt(Patched(read.cron, patch.cron, 0), now)
         ELSE read.next

\* The update puts back the next occurrence it read, over what another edit wrote since.
Rewinds(read, patch) ==
    /\ read.overtaken
    /\ Patched(read.state, patch.state, "kept") = "enabled"
    /\ ~Recomputes(read, patch)

\* The update changes the next occurrence under another edit of the schedule.
Overtakes(e, patch, f) ==
    /\ edits[f] # NoEdit
    /\ edits[f].schedule = edits[e].schedule
    /\ PlannedNext(edits[e], patch) # schedules[edits[e].schedule].next

\* Only the columns of the patch and next_run_at are written; no version is compared.
WriteUpdate(e, patch) ==
    /\ edits[e] # NoEdit
    /\ LET s == edits[e].schedule
       IN  /\ schedules' = IF Exists(s)
                           THEN [schedules EXCEPT
                                   ![s] = [state |-> Patched(@.state, patch.state, "kept"),
                                           next |-> PlannedNext(edits[e], patch),
                                           cron |-> Patched(@.cron, patch.cron, 0)]]
                           ELSE schedules
           /\ edits' = [f \in Editor |->
                 CASE f = e -> NoEdit
                   [] f # e /\ Overtakes(e, patch, f) -> [edits[f] EXCEPT !.overtaken = TRUE]
                   [] OTHER -> edits[f]]
           /\ rewound' = IF Exists(s) /\ Rewinds(edits[e], patch) THEN rewound \cup {s} ELSE rewound
    /\ UNCHANGED <<now, suspended, runs, dispatches, executions, turns, polledAt>>

\* deleteSchedule, or the tombstone of its workspace: the runs go with it.
DeleteSchedule(s) ==
    /\ Exists(s)
    /\ schedules' = [schedules EXCEPT ![s] = Unscheduled("deleted")]
    /\ runs' = [o \in Occurrences |-> IF o[1] = s THEN NoRun ELSE runs[o]]
    /\ polledAt' = [o \in Occurrences |-> IF o[1] = s THEN Never ELSE polledAt[o]]
    /\ UNCHANGED <<now, suspended, edits, rewound, dispatches, executions, turns>>

ManualRuns == {o \in Occurrences : runs[o].state # "none" /\ polledAt[o] = Never}

\* runNow: an unconditional insert for this instant
RunNow(s) ==
    /\ Exists(s)
    /\ runs[<<s, now>>].state = "none"
    /\ Cardinality(ManualRuns) < MaxManual
    /\ runs' = [runs EXCEPT ![<<s, now>>] = QueuedRun]
    /\ UNCHANGED <<now, suspended, schedules, edits, rewound, dispatches, executions, turns, polledAt>>

-----------------------------------------------------------------------------
(* claimDueScheduleRuns and the dispatch by the worker *)

OverdueAtOnce(r) == r.state = "running" /\ r.started < now
Overdue(r) == r.state = "running" /\ r.started < now - ReapAfter

NoReaper(rs) == rs
Reap(rs) == [o \in Occurrences |-> IF Overdue(rs[o]) THEN Ended(rs[o], "failed") ELSE rs[o]]

DueSchedules == {s \in Schedule : /\ ~suspended
                                  /\ schedules[s].state = "enabled"
                                  /\ schedules[s].next # Never
                                  /\ schedules[s].next <= now}

HasClaimedRun(rs, s) == \E t \in Times : rs[<<s, t>>].state = "claimed"
HasActiveRun(rs, s) == \E t \in Times : rs[<<s, t>>].state \in ActiveStates

\* ON CONFLICT DO NOTHING: an occurrence that has a row keeps it.
QueueDue(rs, due) ==
    [o \in Occurrences |->
        IF o[1] \in due /\ o[2] = schedules[o[1]].next /\ rs[o].state = "none"
        THEN IF HasActiveRun(rs, o[1]) THEN Ended(QueuedRun, "skipped") ELSE QueuedRun
        ELSE rs[o]]

Claimable(rs) == {o \in Occurrences : /\ ~suspended
                                      /\ rs[o].state = "claimed"
                                      /\ rs[o].leaseUntil < now}

GrantLease(r) == [r EXCEPT !.token = r.claims + 1, !.claims = r.claims + 1, !.leaseUntil = now + LeaseTime]

CatchUp(s) == NextAt(schedules[s].cron, schedules[s].next)
AdvancedNext(s) == NextAt(schedules[s].cron, now)

\* One poll, one transaction.  Which rows a poll takes is open: rows that
\* another poll has locked are skipped, and LIMIT bounds their number.
Poll(due, claim) ==
    LET queued == QueueDue(Reap(runs), due)
    IN  /\ due \subseteq DueSchedules
        /\ claim \subseteq Claimable(queued)
        /\ Cardinality(due) <= ClaimLimit
        /\ Cardinality(claim) <= ClaimLimit
        /\ runs' = [o \in Occurrences |-> IF o \in claim THEN GrantLease(queued[o]) ELSE queued[o]]
        /\ schedules' = [s \in Schedule |->
              IF s \in due THEN [schedules[s] EXCEPT !.next = AdvancedNext(s)]
              ELSE schedules[s]]
        /\ dispatches' = dispatches \cup {[occ |-> o, token |-> queued[o].claims + 1] : o \in claim}
        /\ polledAt' = [o \in Occurrences |-> IF runs[o].state = "none" /\ queued[o].state # "none"
                                              THEN now ELSE polledAt[o]]
        /\ UNCHANGED <<now, suspended, edits, rewound, executions, turns>>

\* The request never arrives: a crashed worker, or Control out of reach.
LoseDispatch(d) ==
    /\ d \in dispatches
    /\ dispatches' = dispatches \ {d}
    /\ UNCHANGED <<now, suspended, schedules, runs, edits, rewound, executions, turns, polledAt>>

-----------------------------------------------------------------------------
(* Executing a leased run in Control *)

LeaseTimeValid(r, token) == r.state = "claimed" /\ r.leaseUntil >= now /\ ~suspended
LeaseValid(r, token) ==
    /\ r.state = "claimed"
    /\ r.token = token
    /\ r.leaseUntil >= now
    /\ ~suspended

\* executeClaimed: beginScheduleRun, then execute with the row it returned
Begin(d) ==
    LET r == runs[d.occ]
    IN  /\ d \in dispatches
        /\ dispatches' = dispatches \ {d}
        /\ IF LeaseValid(r, d.token)
           THEN /\ runs' = [runs EXCEPT ![d.occ].state = "running", ![d.occ].started = now]
                /\ executions' = executions \cup
                      {[occ |-> d.occ, token |-> d.token, phase |-> "access",
                        since |-> now, deferred |-> r.deferred]}
           ELSE UNCHANGED <<runs, executions>>
        /\ UNCHANGED <<now, suspended, schedules, edits, rewound, turns, polledAt>>

\* since: when the access checks began, or when the turn started
Move(x, phase) ==
    executions' = (executions \ {x}) \cup
        {[x EXCEPT !.phase = phase, !.since = IF phase = "turn" THEN now ELSE 0]}

\* resolveAccess refuses: the workspace is in transition, is unavailable, or
\* any other check before the turn fails.
RefuseAccess(x, outcome) ==
    /\ x \in executions
    /\ x.phase = "access"
    /\ outcome \in {"transition", "skipped", "failed"}
    /\ Move(x, outcome)
    /\ UNCHANGED <<now, suspended, schedules, runs, edits, rewound, dispatches, turns, polledAt>>

\* The agent turn of the run starts.
StartTurn(x) ==
    /\ x \in executions
    /\ x.phase = "access"
    /\ Move(x, "turn")
    /\ turns' = [turns EXCEPT ![x.occ] = @ + 1]
    /\ UNCHANGED <<now, suspended, schedules, runs, edits, rewound, dispatches, polledAt>>

\* The turn completes, or fails, is cancelled, needs input or times out.
EndTurn(x, outcome) ==
    /\ x \in executions
    /\ x.phase = "turn"
    /\ outcome \in {"succeeded", "failed"}
    /\ Move(x, outcome)
    /\ UNCHANGED <<now, suspended, schedules, runs, edits, rewound, dispatches, turns, polledAt>>

Deferred(r) == [r EXCEPT !.state = "claimed", !.token = 0, !.started = Never,
                         !.leaseUntil = now + RetryDelay, !.deferred = TRUE]

RunAfterAnyError(r, x) ==
    IF r.state = "running" /\ x.phase = "failed" /\ ~x.deferred THEN Deferred(r) ELSE Ended(r, x.phase)
RunAfterUnfenced(r, x) == IF x.phase = "transition" THEN Deferred(r) ELSE Ended(r, x.phase)
RunAfterVerbatim(r, x) == IF r.state # "running" THEN r ELSE Ended(r, x.phase)

\* finishScheduleRun and deferScheduleRun: only a running row is changed.
RunAfter(r, x) ==
    IF r.state # "running" THEN r
    ELSE IF x.phase = "transition"
         THEN IF x.deferred THEN Ended(r, "failed")
              ELSE Deferred(r)
         ELSE Ended(r, x.phase)

Settle(x) ==
    /\ x \in executions
    /\ x.phase \notin {"access", "turn"}
    /\ runs' = [runs EXCEPT ![x.occ] = RunAfter(@, x)]
    /\ executions' = executions \ {x}
    /\ UNCHANGED <<now, suspended, schedules, edits, rewound, dispatches, turns, polledAt>>

\* The write of the result fails: after a success the catch block writes a
\* failure instead, after anything else the execution ends without a write.
SettleError(x) ==
    /\ x \in executions
    /\ x.phase \notin {"access", "turn"}
    /\ IF x.phase = "succeeded" THEN Move(x, "failed") ELSE executions' = executions \ {x}
    /\ UNCHANGED <<now, suspended, schedules, runs, edits, rewound, dispatches, turns, polledAt>>

ControlCrash ==
    /\ executions # {}
    /\ executions' = {}
    /\ UNCHANGED <<now, suspended, schedules, runs, edits, rewound, dispatches, turns, polledAt>>

-----------------------------------------------------------------------------
(* The environment *)

SetSuspended ==
    /\ suspended' = ~suspended
    /\ UNCHANGED <<now, schedules, runs, edits, rewound, dispatches, executions, turns, polledAt>>

\* Time does not pass the timeouts Control enforces on an execution.
Tick ==
    /\ now < MaxTime
    /\ \A x \in executions : /\ x.phase = "access" => now < x.since + AccessBound
                             /\ x.phase = "turn" => now < x.since + TurnTimeout
    /\ now' = now + 1
    /\ UNCHANGED <<suspended, schedules, runs, edits, rewound, dispatches, executions, turns, polledAt>>

\* What a patch can set that matters for nextRunAt; a title sets neither.
Patches == [state : Live \cup {"kept"}, cron : Cron \cup {0}]

\* One of the polls that the timers of the workers start
SomePoll ==
    \E due \in SUBSET DueSchedules :
        \E claim \in SUBSET Claimable(QueueDue(Reap(runs), due)) : Poll(due, claim)

\* The next step of an execution, other than its end by a crash
Execute(x) ==
    \/ \E outcome \in {"transition", "skipped", "failed"} : RefuseAccess(x, outcome)
    \/ StartTurn(x)
    \/ \E outcome \in {"succeeded", "failed"} : EndTurn(x, outcome)
    \/ Settle(x)
    \/ SettleError(x)

Next ==
    \/ \E s \in Schedule, state \in Live, cron \in Cron : CreateSchedule(s, state, cron)
    \/ \E e \in Editor, s \in Schedule : ReadForUpdate(e, s)
    \/ \E e \in Editor, patch \in Patches : WriteUpdate(e, patch)
    \/ \E s \in Schedule : DeleteSchedule(s)
    \/ \E s \in Schedule : RunNow(s)
    \/ SomePoll
    \/ \E d \in dispatches : LoseDispatch(d)
    \/ \E d \in dispatches : Begin(d)
    \/ \E x \in executions : Execute(x)
    \/ ControlCrash
    \/ SetSuspended
    \/ Tick

Spec == Init /\ [][Next]_vars

\* The clock advances, workers poll on a timer, and each execution moves on,
\* since Control bounds its calls by timeouts.  Nothing is assumed of
\* requests: dispatches may all be lost, and Control may crash at any time.
Fairness ==
    /\ WF_vars(Tick)
    /\ WF_vars(SomePoll)
    /\ \A o \in Occurrences : WF_vars(\E x \in executions : x.occ = o /\ Execute(x))

FairSpec == Spec /\ Fairness

-----------------------------------------------------------------------------
(* Properties *)

\* The values every variable takes.
TypeOK ==
    /\ now \in Times
    /\ suspended \in BOOLEAN
    /\ schedules \in [Schedule -> ScheduleRow]
    /\ runs \in [Occurrences -> Run]
    /\ edits \in [Editor -> Edit \cup {NoEdit}]
    /\ rewound \subseteq Schedule
    /\ dispatches \subseteq [occ : Occurrences, token : Nat]
    /\ executions \subseteq Execution
    /\ turns \in [Occurrences -> Nat]
    /\ polledAt \in [Occurrences -> {Never} \cup Times]

\* An occurrence starts at most one agent turn, however often its lease
\* lapses, its dispatch is lost or delayed, Control crashes, or a transition
\* of the workspace sends it back to the queue.
OneTurnPerOccurrence == \A o \in Occurrences : turns[o] <= 1

\* The row of a turn that is under way is running: the reaper never gives up
\* a turn that Control still drives, and no second execution can begin.
TurnOwnsRun ==
    \A x \in executions : x.phase = "turn" /\ Exists(x.occ[1]) => runs[x.occ].state = "running"

\* Two occurrences that the cron expression queued never have their turns
\* under way together: an occurrence due while another is active is skipped,
\* and an occurrence that is no longer active has no turn left.
NoOverlappingCronTurns ==
    \A x, y \in executions :
        /\ x.phase = "turn" /\ y.phase = "turn"
        /\ x.occ[1] = y.occ[1]
        /\ polledAt[x.occ] # Never /\ polledAt[y.occ] # Never
        => x = y

\* Why a run has one turn.  Rows exist only for schedules that exist.
RowsHaveSchedule ==
    \A o \in Occurrences : ~Exists(o[1]) => runs[o] = NoRun

\* Executions exist only for schedules that existed, and one for an occurrence.
OneExecution ==
    /\ \A x \in executions : schedules[x.occ[1]].state # "absent"
    /\ \A x, y \in executions : x.occ = y.occ => x = y

\* Before and during its turn an execution is within its timeouts, and then
\* its row is running since it began; later the row is running or given up.
Timely(x) ==
    /\ runs[x.occ].state \in {"running", "failed"}
    /\ x.phase = "access" => /\ runs[x.occ].state = "running"
                             /\ x.since = runs[x.occ].started
                             /\ now <= x.since + AccessBound
    /\ x.phase = "turn" => /\ runs[x.occ].state = "running"
                           /\ x.since <= runs[x.occ].started + AccessBound
                           /\ now <= x.since + TurnTimeout

ExecutionsAreTimely == \A x \in executions : Exists(x.occ[1]) => Timely(x)

\* A run that is not yet begun, or is sent back, has had no turn.
TurnsSoFar ==
    /\ \A o \in Occurrences : turns[o] <= 1
    /\ \A o \in Occurrences : schedules[o[1]].state # "deleted" /\ runs[o].state \in {"none", "claimed"}
                                 => turns[o] = 0
    /\ \A x \in executions : x.phase \in {"access", "transition"} => turns[x.occ] = 0

TurnInv == TypeOK /\ RowsHaveSchedule /\ OneExecution /\ ExecutionsAreTimely /\ TurnsSoFar

\* An occurrence of s due by the time of the poll that queued an earlier one is never queued.
Skips(s) ==
    \A t, u \in Times :
        polledAt[<<s, t>>] # Never /\ polledAt[<<s, u>>] # Never /\ t < u => polledAt[<<s, t>>] < u

\* Downtime skips: missed occurrences are not caught up, however polls and edits interleave.  The
\* one exception is a schedule where an edit put back the next occurrence it had read although
\* another edit was written in between: a PATCH compares no version of the row.
MissedOccurrencesSkipped == \A s \in Schedule \ rewound : Skips(s)

\* The comment of the poll without that exception: the next occurrence is counted from the poll,
\* so that downtime is a skip and not a queue of occurrences to catch up.
DowntimeIsSkipped == \A s \in Schedule : Skips(s)

\* A run whose execution died with Control does not stay running: it is given
\* up once its delay has passed, so it cannot block its schedule for ever.
\* (Runs begun too late for the delay to pass before MaxTime are left out.)
AbandonedRunsEnd ==
    \A o \in Occurrences :
        runs[o].state = "running" /\ runs[o].started < MaxTime - ReapAfter ~> runs[o].state # "running"

\* Each occurrence follows the life of a run that RunLifecycle promises: a run that is not
\* leased, and a deferred one before its retry delay, is in the queue and does not begin, not
\* even on a request that outlived its lease.
LifeState(o) ==
    CASE schedules[o[1]].state = "deleted" -> "gone"
      [] schedules[o[1]].state # "deleted" /\ runs[o].state = "claimed" /\ runs[o].token = 0 -> "queued"
      [] OTHER -> runs[o].state
Life(o) == INSTANCE RunLifecycle WITH state <- LifeState(o), turns <- turns[o],
                                      deferred <- runs[o].deferred
RunsFollowLifecycle ==
    /\ \A o \in Occurrences : Life(o)!Init
    /\ [][\A o \in Occurrences : [Life(o)!Next]_(Life(o)!lifeVars)]_vars
=============================================================================
