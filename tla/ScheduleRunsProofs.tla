-------------------------- MODULE ScheduleRunsProofs --------------------------
(***************************************************************************)
(* What polls and edits promise of the occurrences of one schedule, and    *)
(* that every occurrence lives the life of a run that RunLifecycle         *)
(* promises, for every value of the constants.                             *)
(***************************************************************************)
EXTENDS SchedulesProofs

\* A poll notes the occurrences it queues: each is the next one of its schedule, and becomes
\* active only when no other occurrence of the schedule is.  It makes no other row active.
LEMMA PollQueues ==
    ASSUME TypeOK, NEW due, NEW claim, Poll(due, claim), NEW o \in Occurrences
    PROVE  /\ polledAt'[o] = IF runs[o].state = "none" /\ runs'[o].state # "none" THEN now ELSE polledAt[o]
           /\ runs[o].state = "none" /\ runs'[o].state # "none"
                => o[1] \in due /\ o[2] = schedules[o[1]].next
           /\ runs[o].state = "none" /\ runs'[o].state \in ActiveStates => ~HasActiveRun(Reap(runs), o[1])
           /\ runs[o].state # "none" => runs'[o].state # "none"
           /\ runs[o].state # "none" /\ runs'[o].state \in ActiveStates
                => runs[o].state \in ActiveStates /\ Reap(runs)[o].state \in ActiveStates
           /\ o[1] \in due /\ o[2] = schedules[o[1]].next => runs'[o].state # "none"
<1> DEFINE rs == Reap(runs)
           queued == QueueDue(rs, due)
<1>1. runs'[o] = IF o \in claim THEN GrantLease(queued[o]) ELSE queued[o]
  BY DEF Poll
<1>2. /\ \A r : Ended(r, "failed").state = "failed" /\ Ended(r, "skipped").state = "skipped"
      /\ QueuedRun.state = "claimed"
  BY DEF Ended, QueuedRun, NoRun
<1>3. rs[o] = IF Overdue(runs[o]) THEN Ended(runs[o], "failed") ELSE runs[o]
  BY DEF Reap
<1>4. Overdue(runs[o]) => runs[o].state = "running"
  BY DEF Overdue
<1>5. queued[o] \in Run
  <2>1. rs \in [Occurrences -> Run]
    BY RowTypes DEF TypeOK, Reap, Terminal
  <2> QED
    BY <2>1 DEF QueueDue, Run, RunStates, Terminal, ActiveStates, Ended, QueuedRun, NoRun, Never
<1>6. runs'[o].state = queued[o].state
  BY <1>1, <1>5 DEF GrantLease, Run
<1>7. polledAt'[o] = IF runs[o].state = "none" /\ queued[o].state # "none" THEN now ELSE polledAt[o]
  BY DEF Poll
<1>8. queued[o] = IF o[1] \in due /\ o[2] = schedules[o[1]].next /\ rs[o].state = "none"
                  THEN IF HasActiveRun(rs, o[1]) THEN Ended(QueuedRun, "skipped") ELSE QueuedRun
                  ELSE rs[o]
  BY DEF QueueDue
<1> HIDE DEF rs, queued
<1>9. CASE runs[o].state = "none"
  BY <1>2, <1>3, <1>4, <1>6, <1>7, <1>8, <1>9 DEF rs, ActiveStates
<1>10. CASE runs[o].state # "none"
  BY <1>2, <1>3, <1>4, <1>6, <1>7, <1>8, <1>10 DEF rs, ActiveStates
<1> QED
  BY <1>9, <1>10

\* No other step notes a poll, takes a row away from an occurrence that keeps its note, or
\* makes active a row that had ended.
LEMMA OtherRows ==
    ASSUME TurnInv, [Next]_vars, ~SomePoll, NEW o \in Occurrences
    PROVE  /\ polledAt'[o] # Never => polledAt'[o] = polledAt[o]
           /\ polledAt'[o] # Never /\ runs'[o].state = "none" => runs[o].state = "none"
           /\ runs'[o].state \in ActiveStates => runs[o].state \in ActiveStates \cup {"none"}
           /\ runs'[o].state = "none" => runs[o].state = "none" \/ ~Exists(o[1])'
<1> USE DEF TurnInv
<1>1. CASE UNCHANGED <<runs, polledAt>>
  BY <1>1
<1>2. ASSUME NEW s \in Schedule, DeleteSchedule(s)
      PROVE  \/ runs'[o] = runs[o] /\ polledAt'[o] = polledAt[o]
             \/ polledAt'[o] = Never /\ runs'[o].state = "none" /\ ~Exists(o[1])'
  <2>1. NoRun.state = "none"
    BY DEF NoRun
  <2>2. ~Exists(s)'
    BY <1>2 DEF DeleteSchedule, TypeOK, Unscheduled, Exists, Live
  <2> QED
    BY <1>2, <2>1, <2>2 DEF DeleteSchedule
<1>3. ASSUME NEW s \in Schedule, RunNow(s)
      PROVE  /\ UNCHANGED polledAt
             /\ runs'[o] = runs[o] \/ (runs[o].state = "none" /\ runs'[o].state = "claimed")
  <2>1. QueuedRun.state = "claimed"
    BY DEF QueuedRun, NoRun
  <2> QED
    BY <1>3, <2>1 DEF RunNow, TypeOK
<1>4. ASSUME NEW d \in dispatches, Begin(d)
      PROVE  /\ UNCHANGED polledAt
             /\ runs'[o] = runs[o] \/ (runs[o].state = "claimed" /\ runs'[o].state = "running")
  <2>1. d.occ \in Occurrences /\ runs[d.occ] \in Run
    BY DEF TypeOK
  <2> QED
    BY <1>4, <2>1 DEF Begin, TypeOK, Run, LeaseValid
<1>5. ASSUME NEW x \in executions, Settle(x)
      PROVE  /\ UNCHANGED polledAt
             /\ runs'[o] = runs[o] \/ (runs[o].state = "running" /\ runs'[o].state # "none")
  <2>1. x.occ \in Occurrences /\ runs[x.occ] \in Run /\ x.phase \in {"transition"} \cup Terminal
    BY <1>5 DEF TypeOK, Execution, Settle
  <2>2. \A r \in Run : r.state # "running" => RunAfter(r, x) = r
    BY DEF RunAfter
  <2>3. \A r \in Run : r.state = "running" => RunAfter(r, x).state # "none"
    BY <2>1 DEF RunAfter, Ended, Deferred, NoRun, Terminal, Run
  <2> QED
    BY <1>5, <2>1, <2>2, <2>3 DEF Settle, TypeOK
<1>6. ASSUME NEW x \in executions, Execute(x), ~Settle(x)
      PROVE  UNCHANGED <<runs, polledAt>>
  BY <1>6 DEF Execute, RefuseAccess, StartTurn, EndTurn, SettleError
<1>7. \/ UNCHANGED <<runs, polledAt>>
      \/ \E s \in Schedule : DeleteSchedule(s)
      \/ \E s \in Schedule : RunNow(s)
      \/ \E d \in dispatches : Begin(d)
      \/ \E x \in executions : Settle(x)
  BY <1>6 DEF Next, CreateSchedule, ReadForUpdate, WriteUpdate, LoseDispatch, ControlCrash, SetSuspended, Tick, vars
<1> QED
  BY <1>1, <1>2, <1>3, <1>4, <1>5, <1>7 DEF ActiveStates

-----------------------------------------------------------------------------
\* An occurrence that a poll noted has a row, and of those of one schedule one is active.
PolledHaveRows == \A o \in Occurrences : polledAt[o] # Never => runs[o].state # "none"

OneActiveCronRun ==
    \A s \in Schedule, t, u \in Times :
        /\ polledAt[<<s, t>>] # Never /\ polledAt[<<s, u>>] # Never
        /\ runs[<<s, t>>].state \in ActiveStates /\ runs[<<s, u>>].state \in ActiveStates
        => t = u

CronInv == TurnInv /\ PolledHaveRows /\ OneActiveCronRun

\* At first nothing is noted.
LEMMA CronInvInit == Init => CronInv
  BY TurnInvInit DEF Init, CronInv, PolledHaveRows, OneActiveCronRun, Occurrences

\* The invariant is inductive.
LEMMA CronInvStep == CronInv /\ [Next]_vars => CronInv'
<1> SUFFICES ASSUME CronInv, [Next]_vars PROVE CronInv'
  OBVIOUS
<1>0. TurnInv' /\ TypeOK
  BY TurnInvStep DEF CronInv, TurnInv
<1>1. ASSUME NEW due, NEW claim, Poll(due, claim)
      PROVE  PolledHaveRows' /\ OneActiveCronRun'
  <2>1. PolledHaveRows'
    BY <1>0, <1>1, PollQueues DEF CronInv, PolledHaveRows
  <2>2. ASSUME NEW s \in Schedule, NEW t \in Times, NEW u \in Times,
               polledAt'[<<s, t>>] # Never, polledAt'[<<s, u>>] # Never,
               runs'[<<s, t>>].state \in ActiveStates, runs'[<<s, u>>].state \in ActiveStates
        PROVE  t = u
    <3> DEFINE new(v) == runs[<<s, v>>].state = "none"
    <3>1. ASSUME NEW v \in Times
          PROVE  <<s, v>> \in Occurrences /\ <<s, v>>[1] = s /\ <<s, v>>[2] = v
      BY DEF Occurrences
    <3>2. ASSUME NEW v \in Times, runs'[<<s, v>>].state \in ActiveStates, new(v)
          PROVE  v = schedules[s].next /\ ~HasActiveRun(Reap(runs), s)
      BY <1>0, <1>1, <3>1, <3>2, PollQueues DEF ActiveStates
    <3>3. ASSUME NEW v \in Times, runs'[<<s, v>>].state \in ActiveStates, ~new(v)
          PROVE  HasActiveRun(Reap(runs), s) /\ runs[<<s, v>>].state \in ActiveStates
                 /\ polledAt'[<<s, v>>] = polledAt[<<s, v>>]
      <4>1. Reap(runs)[<<s, v>>].state \in ActiveStates /\ runs[<<s, v>>].state \in ActiveStates
            /\ polledAt'[<<s, v>>] = polledAt[<<s, v>>]
        BY <1>0, <1>1, <3>1, <3>3, PollQueues
      <4> QED
        BY <4>1 DEF HasActiveRun
    <3>4. CASE new(t) /\ new(u)
      BY <2>2, <3>2, <3>4
    <3>5. CASE ~new(t) /\ ~new(u)
      BY <2>2, <3>3, <3>5 DEF CronInv, OneActiveCronRun
    <3>6. ~(new(t) /\ ~new(u)) /\ ~(new(u) /\ ~new(t))
      BY <2>2, <3>2, <3>3
    <3> QED
      BY <3>4, <3>5, <3>6
  <2> QED
    BY <2>1, <2>2 DEF OneActiveCronRun
<1>2. ASSUME ~SomePoll
      PROVE  PolledHaveRows' /\ OneActiveCronRun'
  <2>1. \A o \in Occurrences :
           /\ polledAt'[o] # Never => polledAt'[o] = polledAt[o]
           /\ polledAt'[o] # Never /\ runs'[o].state = "none" => runs[o].state = "none"
           /\ runs'[o].state \in ActiveStates => runs[o].state \in ActiveStates \cup {"none"}
    BY <1>2, OtherRows DEF CronInv
  <2>2. PolledHaveRows'
    BY <2>1 DEF CronInv, PolledHaveRows
  <2>3. ASSUME NEW s \in Schedule, NEW t \in Times,
               polledAt'[<<s, t>>] # Never, runs'[<<s, t>>].state \in ActiveStates
        PROVE  polledAt[<<s, t>>] # Never /\ runs[<<s, t>>].state \in ActiveStates
    BY <2>1, <2>3 DEF CronInv, PolledHaveRows, Occurrences
  <2>4. OneActiveCronRun'
    BY <2>3 DEF CronInv, OneActiveCronRun
  <2> QED
    BY <2>2, <2>4
<1> QED
  BY <1>0, <1>1, <1>2 DEF CronInv, SomePoll

\* A schedule never has two turns of its cron expression under way: each turn holds a
\* running row, and a poll queues an occurrence as active only while no other one is.
THEOREM CronTurnsDoNotOverlap == Spec => []NoOverlappingCronTurns
<1>1. ASSUME CronInv PROVE NoOverlappingCronTurns
  <2> USE <1>1 DEF CronInv, TurnInv
  <2> SUFFICES ASSUME NEW x \in executions, NEW y \in executions,
                      x.phase = "turn", y.phase = "turn", x.occ[1] = y.occ[1],
                      polledAt[x.occ] # Never, polledAt[y.occ] # Never
               PROVE  x = y
    BY DEF NoOverlappingCronTurns
  <2>1. \A z \in executions : z.occ \in Occurrences /\ z.occ = <<z.occ[1], z.occ[2]>>
                              /\ z.occ[1] \in Schedule /\ z.occ[2] \in Times
    BY DEF TypeOK, Execution, Occurrences
  <2>2. ASSUME NEW z \in executions, z.phase = "turn", polledAt[z.occ] # Never
        PROVE  runs[z.occ].state \in ActiveStates
    <3>1. Exists(z.occ[1])
      <4>1. runs[z.occ].state # "none" /\ NoRun.state = "none"
        BY <2>1, <2>2 DEF PolledHaveRows, NoRun
      <4> QED
        BY <2>1, <4>1 DEF RowsHaveSchedule
    <3> QED
      BY <2>2, <3>1 DEF ExecutionsAreTimely, Timely, ActiveStates
  <2>3. x.occ = y.occ
    BY <2>1, <2>2 DEF OneActiveCronRun
  <2> QED
    BY <2>3 DEF OneExecution
<1> QED
  BY <1>1, CronInvInit, CronInvStep, PTL DEF Spec

-----------------------------------------------------------------------------
\* The next occurrence of a cron expression is after the time it is counted from.
LEMMA NextAtAfter ==
    ASSUME NEW period \in Cron, NEW after \in Nat
    PROVE  NextAt(period, after) \in Nat /\ NextAt(period, after) > after
<1>1. period \in Nat /\ period > 0
  BY ScheduleConstants
<1> DEFINE q == after \div period
<1>2. q \in Nat /\ after < q * period + period
  BY <1>1
<1>3. (q + 1) * period = q * period + period
  BY <1>1, <1>2
<1>4. (q + 1) * period \in Nat
  BY <1>1, <1>2
<1> QED
  BY <1>2, <1>3, <1>4 DEF NextAt

\* A poll notes an occurrence that is due, at its own time.
PolledWhenDue == \A o \in Occurrences : polledAt[o] # Never => o[2] <= polledAt[o] /\ polledAt[o] <= now

HasRow(rs, s, n) == n \in Times /\ rs[<<s, n>>].state # "none"

\* The next occurrence has its row already or lies after every poll that noted one, unless an
\* overtaken edit put it back.
NextIsFresh ==
    \A s \in Schedule \ rewound : Exists(s) =>
        LET n == schedules[s].next
        IN  n = Never \/ HasRow(runs, s, n) \/ \A t \in Times : polledAt[<<s, t>>] < n

\* A schedule that an editor has read was created.
ReadsExisted == \A e \in Editor : edits[e] # NoEdit => schedules[edits[e].schedule].state # "absent"

\* The next occurrence an editor has read is still the next one, or has its row already, unless
\* another edit has changed it since.
ReadIsCurrent ==
    \A e \in Editor : edits[e] # NoEdit /\ ~edits[e].overtaken /\ Exists(edits[e].schedule) =>
        LET s == edits[e].schedule
            n == edits[e].next
        IN  n = Never \/ n = schedules[s].next \/ HasRow(runs, s, n)

SkipInv == CronInv /\ ReadsExisted /\ PolledWhenDue /\ NextIsFresh /\ ReadIsCurrent /\ MissedOccurrencesSkipped

\* At first there is no schedule.
LEMMA SkipInvInit == Init => SkipInv
<1> SUFFICES ASSUME Init PROVE SkipInv
  OBVIOUS
<1>1. \A s \in Schedule : ~Exists(s)
  BY DEF Init, Exists, Unscheduled, Live
<1>2. \A s \in Schedule, t \in Times : polledAt[<<s, t>>] = Never
  BY DEF Init, Occurrences
<1>3. ReadIsCurrent /\ ReadsExisted
  BY DEF Init, ReadIsCurrent, ReadsExisted
<1> QED
  BY <1>1, <1>2, <1>3, CronInvInit DEF Init, SkipInv, PolledWhenDue, NextIsFresh,
    MissedOccurrencesSkipped, Skips

\* What the types say of a schedule that exists, of a note and of a record that was read.
LEMMA NextTypes ==
    ASSUME TypeOK
    PROVE  /\ now \in Nat /\ now \in Times
           /\ \A s \in Schedule : Exists(s) => schedules[s].cron \in Cron /\ schedules[s].next \in {Never} \cup Nat
           /\ \A s \in Schedule, t \in Times :
                 <<s, t>> \in Occurrences /\ polledAt[<<s, t>>] \in {Never} \cup Nat /\ t \in Nat
           /\ \A e \in Editor : edits[e] # NoEdit => edits[e] \in Edit
<1>1. now \in Nat /\ now \in Times
  BY ScheduleConstants DEF TypeOK, Times
<1>2. \A s \in Schedule : Exists(s) => schedules[s].cron \in Cron /\ schedules[s].next \in {Never} \cup Nat
  BY DEF TypeOK, ScheduleRow, Unscheduled, Exists, Live
<1>3. \A s \in Schedule, t \in Times :
         <<s, t>> \in Occurrences /\ polledAt[<<s, t>>] \in {Never} \cup Nat /\ t \in Nat
  BY ScheduleConstants DEF TypeOK, Occurrences, Times
<1>4. \A e \in Editor : edits[e] # NoEdit => edits[e] \in Edit
  BY DEF TypeOK
<1> QED
  BY <1>1, <1>2, <1>3, <1>4

\* Created schedules stay created, and an editor reads one that exists.
LEMMA ReadsExistedStep ==
    ASSUME TypeOK, ReadsExisted, [Next]_vars
    PROVE  ReadsExisted'
<1>1. CASE UNCHANGED edits /\ \A s \in Schedule : schedules'[s].state = "absent" => schedules[s].state = "absent"
  BY <1>1, NextTypes DEF ReadsExisted, Edit
<1>2. ASSUME NEW e \in Editor, NEW s \in Schedule, ReadForUpdate(e, s)
      PROVE  ReadsExisted'
  BY <1>2 DEF ReadForUpdate, ReadsExisted, TypeOK, Exists, Live
<1>3. ASSUME NEW e \in Editor, NEW patch \in Patches, WriteUpdate(e, patch)
      PROVE  ReadsExisted'
  <2>1. \A s \in Schedule : schedules'[s].state = "absent" => schedules[s].state = "absent"
    BY <1>3 DEF WriteUpdate, TypeOK, Patches, Patched, Exists, Live
  <2>2. \A f \in Editor : edits'[f] # NoEdit => edits[f] # NoEdit /\ edits'[f].schedule = edits[f].schedule
    BY <1>3, NextTypes DEF WriteUpdate, Overtakes, Edit
  <2> QED
    BY <2>1, <2>2, NextTypes DEF ReadsExisted, Edit
<1>4. ASSUME NEW due, NEW claim, Poll(due, claim)
      PROVE  ReadsExisted'
  BY <1>1, <1>4, PollSchedules DEF Poll
<1>5. \/ UNCHANGED <<schedules, edits>>
      \/ \E s \in Schedule, state \in Live, cron \in Cron : CreateSchedule(s, state, cron)
      \/ \E e \in Editor, s \in Schedule : ReadForUpdate(e, s)
      \/ \E e \in Editor, patch \in Patches : WriteUpdate(e, patch)
      \/ \E s \in Schedule : DeleteSchedule(s)
      \/ SomePoll
  BY DEF Next, RunNow, LoseDispatch, Begin, Execute, RefuseAccess, StartTurn, EndTurn, Settle, SettleError,
         ControlCrash, SetSuspended, Tick, vars
<1>6. ASSUME NEW s \in Schedule, NEW state \in Live, NEW cron \in Cron, CreateSchedule(s, state, cron)
      PROVE  ReadsExisted'
  BY <1>1, <1>6 DEF CreateSchedule, TypeOK, Live
<1>7. ASSUME NEW s \in Schedule, DeleteSchedule(s)
      PROVE  ReadsExisted'
  BY <1>1, <1>7 DEF DeleteSchedule, TypeOK, Unscheduled
<1> QED
  BY <1>1, <1>2, <1>3, <1>4, <1>5, <1>6, <1>7 DEF SomePoll

\* Steps that note no poll, and take rows only from schedules that they delete.
LEMMA NoPollNotes ==
    ASSUME SkipInv, CronInv', ReadsExisted', [Next]_vars, ~SomePoll
    PROVE  /\ PolledWhenDue' /\ MissedOccurrencesSkipped' /\ rewound \subseteq rewound'
           /\ \A s \in Schedule, t \in Times : polledAt'[<<s, t>>] \in {Never, polledAt[<<s, t>>]}
           /\ \A s \in Schedule, n \in Nat : HasRow(runs, s, n) /\ Exists(s)' => HasRow(runs', s, n)
<1>1. \A o \in Occurrences :
        /\ polledAt'[o] # Never => polledAt'[o] = polledAt[o]
        /\ runs'[o].state = "none" => runs[o].state = "none" \/ ~Exists(o[1])'
  BY OtherRows DEF SkipInv, CronInv
<1>2. now \in Nat /\ now' \in Nat /\ now <= now'
  <2>1. now \in Nat
    BY NextTypes DEF SkipInv, CronInv, TurnInv
  <2>2. now' = now \/ now' = now + 1
    BY DEF Next, CreateSchedule, ReadForUpdate, WriteUpdate, DeleteSchedule, RunNow, SomePoll, Poll, LoseDispatch,
           Begin, Execute, RefuseAccess, StartTurn, EndTurn, Settle, SettleError, ControlCrash, SetSuspended, Tick, vars
  <2> QED
    BY <2>1, <2>2
<1>3. \A s \in Schedule, t \in Times : <<s, t>> \in Occurrences /\ polledAt[<<s, t>>] \in {Never} \cup Nat
  BY NextTypes DEF SkipInv, CronInv, TurnInv
<1>4. \A s \in Schedule, t \in Times : polledAt'[<<s, t>>] \in {Never, polledAt[<<s, t>>]}
  BY <1>1, <1>3
<1>5. \A s \in Schedule, n \in Nat : HasRow(runs, s, n) /\ Exists(s)' => HasRow(runs', s, n)
  BY <1>1, <1>3 DEF HasRow, Occurrences
<1>6. PolledWhenDue'
  <2> SUFFICES ASSUME NEW o \in Occurrences, polledAt'[o] # Never
               PROVE  o[2] <= polledAt'[o] /\ polledAt'[o] <= now'
    BY DEF PolledWhenDue
  <2>1. polledAt'[o] = polledAt[o] /\ polledAt[o] \in {Never} \cup Nat /\ o[2] \in Nat
    BY <1>1, <1>3, ScheduleConstants DEF Occurrences, Times
  <2> QED
    BY <1>2, <2>1 DEF SkipInv, PolledWhenDue
<1>7. rewound \subseteq rewound'
  BY DEF Next, CreateSchedule, ReadForUpdate, WriteUpdate, DeleteSchedule, RunNow, SomePoll, Poll, LoseDispatch,
         Begin, Execute, RefuseAccess, StartTurn, EndTurn, Settle, SettleError, ControlCrash, SetSuspended, Tick, vars
<1>8. MissedOccurrencesSkipped'
  <2> SUFFICES ASSUME NEW s \in Schedule \ rewound' PROVE Skips(s)'
    BY DEF MissedOccurrencesSkipped
  <2>1. Skips(s)
    BY <1>7 DEF SkipInv, MissedOccurrencesSkipped
  <2> QED
    BY <1>1, <1>3, <2>1 DEF Skips
<1> QED
  BY <1>4, <1>5, <1>6, <1>7, <1>8

\* Steps that leave the schedules and the records read alone.
LEMMA SkipIdle ==
    ASSUME SkipInv, CronInv', ReadsExisted', [Next]_vars, ~SomePoll, UNCHANGED <<schedules, edits>>
    PROVE  SkipInv'
<1>1. /\ PolledWhenDue' /\ MissedOccurrencesSkipped' /\ rewound \subseteq rewound'
      /\ \A s \in Schedule, t \in Times : polledAt'[<<s, t>>] \in {Never, polledAt[<<s, t>>]}
      /\ \A s \in Schedule, n \in Nat : HasRow(runs, s, n) /\ Exists(s)' => HasRow(runs', s, n)
  BY NoPollNotes
<1>2. TypeOK
  BY DEF SkipInv, CronInv, TurnInv
<1>3. \A s \in Schedule : Exists(s)' <=> Exists(s)
  BY DEF Exists
<1>4. NextIsFresh'
  <2> SUFFICES ASSUME NEW s \in Schedule \ rewound, Exists(s), schedules[s].next # Never,
                      ~HasRow(runs', s, schedules[s].next), NEW t \in Times
               PROVE  polledAt'[<<s, t>>] < schedules[s].next
    BY <1>1, <1>3 DEF NextIsFresh, HasRow
  <2>1. schedules[s].next \in Nat
    BY <1>2, NextTypes
  <2>2. ~HasRow(runs, s, schedules[s].next)
    BY <1>1, <1>3, <2>1
  <2>3. \A u \in Times : polledAt[<<s, u>>] < schedules[s].next
    BY <2>2 DEF SkipInv, NextIsFresh
  <2> QED
    BY <1>1, <2>1, <2>3 DEF Never
<1>5. ReadIsCurrent'
  <2> SUFFICES ASSUME NEW e \in Editor, edits[e] # NoEdit, ~edits[e].overtaken, Exists(edits[e].schedule)
               PROVE  \/ edits[e].next = Never \/ edits[e].next = schedules[edits[e].schedule].next
                      \/ HasRow(runs', edits[e].schedule, edits[e].next)
    BY DEF ReadIsCurrent, HasRow, Exists
  <2>1. edits[e].schedule \in Schedule /\ edits[e].next \in {Never} \cup Nat
    BY <1>2, NextTypes DEF Edit
  <2>2. \/ edits[e].next = Never \/ edits[e].next = schedules[edits[e].schedule].next
        \/ HasRow(runs, edits[e].schedule, edits[e].next)
    BY DEF SkipInv, ReadIsCurrent
  <2> QED
    BY <1>1, <1>3, <2>1, <2>2
<1> QED
  BY <1>1, <1>4, <1>5 DEF SkipInv

\* A poll notes the next occurrence, later than all it noted before, and moves on past its own time.
LEMMA SkipPoll ==
    ASSUME SkipInv, CronInv', ReadsExisted', NEW due, NEW claim, Poll(due, claim)
    PROVE  SkipInv'
<1>0. TypeOK /\ now \in Nat /\ now \in Times
  BY NextTypes DEF SkipInv, CronInv, TurnInv
<1>1. UNCHANGED <<now, edits, rewound>>
  BY DEF Poll
<1>2. \A s \in Schedule, t \in Times :
        /\ <<s, t>> \in Occurrences /\ <<s, t>>[1] = s /\ <<s, t>>[2] = t
        /\ polledAt[<<s, t>>] \in {Never} \cup Nat /\ t \in Nat
  BY <1>0, NextTypes
<1>3. \A s \in due : s \in Schedule /\ Exists(s) /\ schedules[s].next \in Nat /\ schedules[s].next <= now
                     /\ schedules[s].next \in Times
  <2> SUFFICES ASSUME NEW s \in due
               PROVE  s \in Schedule /\ Exists(s) /\ schedules[s].next \in Nat /\ schedules[s].next <= now
                      /\ schedules[s].next \in Times
    OBVIOUS
  <2>1. s \in Schedule /\ Exists(s) /\ schedules[s].next # Never /\ schedules[s].next <= now
    BY DEF Poll, DueSchedules, Exists, Live
  <2>2. schedules[s].next \in Nat
    BY <1>0, <2>1, NextTypes
  <2> QED
    BY <1>0, <2>1, <2>2, ScheduleConstants DEF Times
<1>4. \A s \in Schedule, t \in Times :
        /\ polledAt'[<<s, t>>] = IF runs[<<s, t>>].state = "none" /\ runs'[<<s, t>>].state # "none"
                                 THEN now ELSE polledAt[<<s, t>>]
        /\ runs[<<s, t>>].state = "none" /\ runs'[<<s, t>>].state # "none" => s \in due /\ t = schedules[s].next
        /\ runs[<<s, t>>].state # "none" => runs'[<<s, t>>].state # "none"
        /\ s \in due /\ t = schedules[s].next => runs'[<<s, t>>].state # "none"
  BY <1>0, <1>2, PollQueues
<1>5. \A s \in Schedule :
        /\ Exists(s)' <=> Exists(s)
        /\ s \notin due => schedules'[s].next = schedules[s].next
        /\ s \in due => schedules'[s].next \in Nat /\ schedules'[s].next > now
  <2> SUFFICES ASSUME NEW s \in Schedule
               PROVE  /\ Exists(s)' <=> Exists(s)
                      /\ s \notin due => schedules'[s].next = schedules[s].next
                      /\ s \in due => schedules'[s].next \in Nat /\ schedules'[s].next > now
    OBVIOUS
  <2>1. s \in due => schedules'[s] = [schedules[s] EXCEPT !.next = AdvancedNext(s)]
    BY DEF Poll
  <2>2. s \in due => AdvancedNext(s) \in Nat /\ AdvancedNext(s) > now
    BY <1>0, <1>3, NextTypes, NextAtAfter DEF AdvancedNext
  <2>3. s \in due => schedules[s] \in [state : Live, next : {Never} \cup Nat, cron : Cron]
    BY <1>0, <1>3 DEF TypeOK, ScheduleRow, Unscheduled, Exists, Live
  <2>4. s \notin due => schedules'[s] = schedules[s]
    BY DEF Poll
  <2> QED
    BY <1>0, <2>1, <2>2, <2>3, <2>4, PollSchedules DEF Exists
<1>6. PolledWhenDue'
  <2> SUFFICES ASSUME NEW s \in Schedule, NEW t \in Times, polledAt'[<<s, t>>] # Never
               PROVE  t <= polledAt'[<<s, t>>] /\ polledAt'[<<s, t>>] <= now
    BY <1>1 DEF PolledWhenDue, Occurrences
  <2>1. polledAt[<<s, t>>] # Never => t <= polledAt[<<s, t>>] /\ polledAt[<<s, t>>] <= now
    BY <1>2 DEF SkipInv, PolledWhenDue
  <2> QED
    BY <1>0, <1>3, <1>4, <2>1
<1>7. \A s \in due \ rewound, t \in Times :
        polledAt[<<s, t>>] # Never /\ runs[<<s, schedules[s].next>>].state = "none"
          => t <= polledAt[<<s, t>>] /\ polledAt[<<s, t>>] < schedules[s].next
  <2> SUFFICES ASSUME NEW s \in due \ rewound, NEW t \in Times,
                      polledAt[<<s, t>>] # Never, runs[<<s, schedules[s].next>>].state = "none"
               PROVE  t <= polledAt[<<s, t>>] /\ polledAt[<<s, t>>] < schedules[s].next
    OBVIOUS
  <2>1. t <= polledAt[<<s, t>>]
    BY <1>2, <1>3 DEF SkipInv, PolledWhenDue
  <2>2. schedules[s].next # Never
    BY <1>3 DEF Never
  <2> QED
    BY <1>3, <2>1, <2>2 DEF SkipInv, NextIsFresh, HasRow
<1>8. MissedOccurrencesSkipped'
  <2> SUFFICES ASSUME NEW s \in Schedule \ rewound, NEW t \in Times, NEW u \in Times,
                      polledAt'[<<s, t>>] # Never, polledAt'[<<s, u>>] # Never, t < u
               PROVE  polledAt'[<<s, t>>] < u
    BY <1>1 DEF MissedOccurrencesSkipped, Skips
  <2> DEFINE new(v) == runs[<<s, v>>].state = "none" /\ runs'[<<s, v>>].state # "none"
  <2>1. CASE ~new(t) /\ ~new(u)
    BY <1>4, <2>1 DEF SkipInv, MissedOccurrencesSkipped, Skips
  <2>2. CASE ~new(t) /\ new(u)
    <3>1. s \in due /\ u = schedules[s].next /\ polledAt'[<<s, t>>] = polledAt[<<s, t>>]
      BY <1>4, <2>2
    <3> QED
      BY <1>7, <2>2, <3>1
  <2>3. CASE new(t) /\ ~new(u)
    <3>1. s \in due /\ t = schedules[s].next /\ polledAt'[<<s, u>>] = polledAt[<<s, u>>]
      BY <1>4, <2>3
    <3>2. u <= polledAt[<<s, u>>] /\ polledAt[<<s, u>>] < t
      BY <1>7, <2>3, <3>1
    <3>3. polledAt[<<s, u>>] \in Nat /\ u \in Nat /\ t \in Nat
      BY <1>2, <3>1
    <3> QED
      BY <3>2, <3>3
  <2>4. CASE new(t) /\ new(u)
    BY <1>2, <1>4, <2>4
  <2> QED
    BY <2>1, <2>2, <2>3, <2>4
<1>9. NextIsFresh'
  <2> SUFFICES ASSUME NEW s \in Schedule \ rewound, Exists(s), schedules'[s].next # Never,
                      ~HasRow(runs', s, schedules'[s].next), NEW t \in Times
               PROVE  polledAt'[<<s, t>>] < schedules'[s].next
    BY <1>1, <1>5 DEF NextIsFresh, HasRow
  <2>1. CASE s \in due
    <3>1. polledAt'[<<s, t>>] # Never => polledAt'[<<s, t>>] <= now
      BY <1>1, <1>2, <1>6 DEF PolledWhenDue
    <3>2. polledAt'[<<s, t>>] \in {Never} \cup Nat
      BY <1>0, <1>2, <1>4
    <3> QED
      BY <1>0, <1>5, <2>1, <3>1, <3>2 DEF Never
  <2>2. CASE s \notin due
    <3>1. schedules'[s].next = schedules[s].next /\ polledAt'[<<s, t>>] = polledAt[<<s, t>>]
      BY <1>4, <1>5, <2>2
    <3>2. ~HasRow(runs, s, schedules[s].next)
      BY <1>4, <3>1 DEF HasRow
    <3> QED
      BY <3>1, <3>2 DEF SkipInv, NextIsFresh
  <2> QED
    BY <2>1, <2>2
<1>10. ReadIsCurrent'
  <2> SUFFICES ASSUME NEW e \in Editor, edits[e] # NoEdit, ~edits[e].overtaken, Exists(edits[e].schedule)'
               PROVE  \/ edits[e].next = Never \/ edits[e].next = schedules'[edits[e].schedule].next
                      \/ HasRow(runs', edits[e].schedule, edits[e].next)
    BY <1>1 DEF ReadIsCurrent, HasRow, Exists
  <2> DEFINE s == edits[e].schedule
             n == edits[e].next
  <2>1. s \in Schedule /\ n \in {Never} \cup Nat
    BY <1>0, NextTypes DEF Edit
  <2>2. n = Never \/ n = schedules[s].next \/ HasRow(runs, s, n)
    <3>1. Exists(s)
      BY <1>1, <1>5, <2>1 DEF Exists
    <3> QED
      BY <3>1 DEF SkipInv, ReadIsCurrent
  <2>3. HasRow(runs, s, n) => HasRow(runs', s, n)
    BY <1>1, <1>4, <2>1 DEF HasRow
  <2>4. n = schedules[s].next /\ s \in due => HasRow(runs', s, n)
    BY <1>1, <1>3, <1>4, <2>1 DEF HasRow
  <2> QED
    BY <1>5, <2>1, <2>2, <2>3, <2>4
<1> QED
  BY <1>6, <1>8, <1>9, <1>10 DEF SkipInv

\* Steps that change a schedule or read it: what they write or read is fresh.
LEMMA SkipEdits ==
    ASSUME SkipInv, CronInv', ReadsExisted', [Next]_vars, ~SomePoll, UNCHANGED <<now, runs, polledAt>>,
           \A s \in Schedule \ rewound' : schedules'[s].next # schedules[s].next \/ (Exists(s)' /\ ~Exists(s))
               => \/ ~Exists(s)'
                  \/ schedules'[s].next = Never
                  \/ HasRow(runs, s, schedules'[s].next)
                  \/ schedules'[s].next > now,
           ReadIsCurrent'
    PROVE  SkipInv'
<1>1. PolledWhenDue' /\ MissedOccurrencesSkipped' /\ rewound \subseteq rewound'
  BY NoPollNotes
<1>2. NextIsFresh'
  <2> SUFFICES ASSUME NEW s \in Schedule \ rewound', Exists(s)', schedules'[s].next # Never,
                      ~HasRow(runs, s, schedules'[s].next), NEW t \in Times
               PROVE  polledAt[<<s, t>>] < schedules'[s].next
    BY DEF NextIsFresh, HasRow
  <2>1. CASE Exists(s) /\ schedules'[s].next = schedules[s].next
    BY <1>1, <2>1 DEF SkipInv, NextIsFresh
  <2>2. CASE ~(Exists(s) /\ schedules'[s].next = schedules[s].next)
    <3>1. schedules'[s].next > now
      BY <2>2
    <3>2. <<s, t>> \in Occurrences /\ polledAt[<<s, t>>] \in {Never} \cup Nat /\ now \in Nat
      BY NextTypes DEF SkipInv, CronInv, TurnInv
    <3>3. polledAt[<<s, t>>] # Never => polledAt[<<s, t>>] <= now
      BY <3>2 DEF SkipInv, PolledWhenDue
    <3>4. schedules'[s].next \in Nat
      <4>1. TypeOK'
        BY DEF CronInv, TurnInv
      <4> QED
        BY <4>1 DEF TypeOK, ScheduleRow, Unscheduled, Exists, Live
    <3> QED
      BY <3>1, <3>2, <3>3, <3>4 DEF Never
  <2> QED
    BY <2>1, <2>2
<1> QED
  BY <1>1, <1>2 DEF SkipInv

\* The invariant is inductive.
LEMMA SkipInvStep == SkipInv /\ [Next]_vars => SkipInv'
<1> SUFFICES ASSUME SkipInv, [Next]_vars PROVE SkipInv'
  OBVIOUS
<1>0. CronInv' /\ ReadsExisted' /\ TypeOK /\ now \in Nat
  BY CronInvStep, ReadsExistedStep, NextTypes DEF SkipInv, CronInv, TurnInv
<1>1. CASE SomePoll
  BY <1>0, <1>1, SkipPoll DEF SomePoll
<1>2. ASSUME NEW s \in Schedule, NEW state \in Live, NEW cron \in Cron,
             CreateSchedule(s, state, cron), ~SomePoll
      PROVE  SkipInv'
  <2>1. NextAt(cron, now) > now
    BY <1>0, NextAtAfter
  <2>2. ~Exists(s)
    BY <1>2 DEF CreateSchedule, Exists, Live
  <2>3. \A t \in Schedule : schedules'[t].next # schedules[t].next \/ (Exists(t)' /\ ~Exists(t))
            => t = s /\ (schedules'[t].next = Never \/ schedules'[t].next > now)
    BY <1>0, <1>2, <2>1 DEF CreateSchedule, TypeOK, Exists
  <2>4. ReadIsCurrent'
    <3>1. UNCHANGED <<runs, edits>> /\ \A t \in Schedule : t # s => schedules'[t] = schedules[t]
      BY <1>0, <1>2 DEF CreateSchedule, TypeOK
    <3> SUFFICES ASSUME NEW e \in Editor, edits[e] # NoEdit, ~edits[e].overtaken, Exists(edits[e].schedule)'
                 PROVE  \/ edits[e].next = Never \/ edits[e].next = schedules'[edits[e].schedule].next
                        \/ HasRow(runs, edits[e].schedule, edits[e].next)
      BY <3>1 DEF ReadIsCurrent, HasRow, Exists
    <3>2. edits[e].schedule \in Schedule
      BY <1>0, NextTypes DEF Edit
    <3>3. edits[e].schedule # s
      BY <1>2 DEF SkipInv, ReadsExisted, CreateSchedule
    <3> QED
      BY <3>1, <3>2, <3>3 DEF SkipInv, ReadIsCurrent, Exists
  <2> QED
    BY <1>0, <1>2, <2>3, <2>4, SkipEdits DEF CreateSchedule
<1>3. ASSUME NEW e \in Editor, NEW s \in Schedule, ReadForUpdate(e, s), ~SomePoll
      PROVE  SkipInv'
  <2>1. UNCHANGED <<now, runs, polledAt, schedules>>
    BY <1>3 DEF ReadForUpdate
  <2>2. \A f \in Editor : f # e => edits'[f] = edits[f]
    BY <1>0, <1>3 DEF ReadForUpdate, TypeOK
  <2>3. edits'[e].schedule = s /\ edits'[e].next = schedules[s].next
    BY <1>0, <1>3 DEF ReadForUpdate, TypeOK
  <2>4. ReadIsCurrent'
    BY <2>1, <2>2, <2>3 DEF SkipInv, ReadIsCurrent, HasRow, Exists
  <2> QED
    BY <1>0, <1>3, <2>1, <2>4, SkipEdits DEF Exists
<1>4. ASSUME NEW e \in Editor, NEW patch \in Patches, WriteUpdate(e, patch), ~SomePoll
      PROVE  SkipInv'
  <2> DEFINE s == edits[e].schedule
             n == PlannedNext(edits[e], patch)
  <2>1. UNCHANGED <<now, runs, polledAt>> /\ edits[e] # NoEdit /\ edits[e] \in Edit
    BY <1>0, <1>4, NextTypes DEF WriteUpdate
  <2>2. s \in Schedule
    BY <2>1 DEF Edit
  <2>3. \A t \in Schedule : schedules'[t] # schedules[t] =>
            t = s /\ Exists(s) /\ schedules'[t].next = n
    BY <1>0, <1>4 DEF WriteUpdate, TypeOK
  <2>4. ReadIsCurrent'
    <3> SUFFICES ASSUME NEW f \in Editor, edits'[f] # NoEdit, ~edits'[f].overtaken, Exists(edits[f].schedule)'
                 PROVE  \/ edits'[f].next = Never \/ edits'[f].next = schedules'[edits'[f].schedule].next
                        \/ HasRow(runs, edits'[f].schedule, edits'[f].next)
      BY <2>1 DEF ReadIsCurrent, HasRow, Exists
    <3>1. edits'[f] = edits[f] /\ ~Overtakes(e, patch, f) /\ edits[f] # NoEdit
      <4>1. edits'[f] = CASE f = e -> NoEdit
                          [] f # e /\ Overtakes(e, patch, f) -> [edits[f] EXCEPT !.overtaken = TRUE]
                          [] OTHER -> edits[f]
        BY <1>4 DEF WriteUpdate
      <4>2. Overtakes(e, patch, f) => [edits[f] EXCEPT !.overtaken = TRUE].overtaken = TRUE
        BY <1>0, NextTypes DEF Overtakes, Edit
      <4>3. f # e
        BY <4>1
      <4> QED
        BY <4>1, <4>2, <4>3
    <3>2. edits[f].schedule \in Schedule
      BY <1>0, <3>1, NextTypes DEF Edit
    <3>3. schedules'[edits[f].schedule].next = schedules[edits[f].schedule].next /\ Exists(edits[f].schedule)
      BY <2>3, <3>1, <3>2 DEF Overtakes, Exists
    <3> QED
      BY <3>1, <3>3 DEF SkipInv, ReadIsCurrent
  <2>5. Patched(edits[e].cron, patch.cron, 0) \in Cron
    BY <2>1 DEF Patches, Patched, Edit
  <2>6. n = Never \/ n > now \/ (n = edits[e].next /\ (Rewinds(edits[e], patch) \/ ~edits[e].overtaken))
    <3>1. NextAt(Patched(edits[e].cron, patch.cron, 0), now) > now
      BY <1>0, <2>5, NextAtAfter
    <3>2. Patched(edits[e].state, patch.state, "kept") \in Live
      BY <2>1 DEF Patches, Patched, Edit
    <3> QED
      BY <3>1, <3>2 DEF PlannedNext, Rewinds, Live
  <2>7. Exists(s) /\ ~edits[e].overtaken => \/ edits[e].next = Never \/ edits[e].next = schedules[s].next
                                            \/ HasRow(runs, s, edits[e].next)
    BY <2>1 DEF SkipInv, ReadIsCurrent
  <2>8. Exists(s) /\ Rewinds(edits[e], patch) => s \in rewound'
    BY <1>4 DEF WriteUpdate
  <2>9. \A t \in Schedule : schedules'[t].next # schedules[t].next \/ (Exists(t)' /\ ~Exists(t))
            => t = s /\ Exists(s) /\ schedules'[t].next = n /\ n # schedules[s].next
    BY <2>3 DEF Exists
  <2>10. \A t \in Schedule \ rewound' : schedules'[t].next # schedules[t].next \/ (Exists(t)' /\ ~Exists(t))
            => \/ ~Exists(t)'
               \/ schedules'[t].next = Never
               \/ HasRow(runs, t, schedules'[t].next)
               \/ schedules'[t].next > now
    BY <2>6, <2>7, <2>8, <2>9
  <2> QED
    BY <1>0, <1>4, <2>1, <2>4, <2>10, SkipEdits
<1>5. ASSUME NEW s \in Schedule, DeleteSchedule(s), ~SomePoll
      PROVE  SkipInv'
  <2>1. \A t \in Schedule : Exists(t)' => t # s /\ Exists(t) /\ schedules'[t] = schedules[t]
    BY <1>0, <1>5 DEF DeleteSchedule, TypeOK, Exists, Unscheduled, Live
  <2>2. /\ PolledWhenDue' /\ MissedOccurrencesSkipped' /\ rewound \subseteq rewound'
        /\ \A t \in Schedule, u \in Times : polledAt'[<<t, u>>] \in {Never, polledAt[<<t, u>>]}
        /\ \A t \in Schedule, n \in Nat : HasRow(runs, t, n) /\ Exists(t)' => HasRow(runs', t, n)
    BY <1>0, <1>5, NoPollNotes
  <2>3. NextIsFresh'
    <3> SUFFICES ASSUME NEW t \in Schedule \ rewound, Exists(t)', schedules[t].next # Never,
                        ~HasRow(runs', t, schedules[t].next), NEW u \in Times
                 PROVE  polledAt'[<<t, u>>] < schedules[t].next
      BY <2>1, <2>2 DEF NextIsFresh, HasRow
    <3>1. Exists(t) /\ schedules[t].next \in Nat
      BY <1>0, <2>1, NextTypes
    <3>2. polledAt[<<t, u>>] < schedules[t].next
      BY <2>2, <3>1 DEF SkipInv, NextIsFresh
    <3> QED
      BY <2>2, <3>1, <3>2 DEF Never
  <2>4. ReadIsCurrent'
    <3> SUFFICES ASSUME NEW e \in Editor, edits[e] # NoEdit, ~edits[e].overtaken, Exists(edits[e].schedule)'
                 PROVE  \/ edits[e].next = Never \/ edits[e].next = schedules'[edits[e].schedule].next
                        \/ HasRow(runs', edits[e].schedule, edits[e].next)
      BY <1>5 DEF ReadIsCurrent, HasRow, Exists, DeleteSchedule
    <3>1. edits[e].schedule \in Schedule /\ edits[e].next \in {Never} \cup Nat /\ edits' = edits
      BY <1>0, <1>5, NextTypes DEF Edit, DeleteSchedule
    <3>2. Exists(edits[e].schedule) /\ schedules'[edits[e].schedule] = schedules[edits[e].schedule]
          /\ schedules'[edits[e].schedule].state \in Live
      BY <2>1, <3>1 DEF Exists
    <3>3. \/ edits[e].next = Never \/ edits[e].next = schedules[edits[e].schedule].next
          \/ HasRow(runs, edits[e].schedule, edits[e].next)
      BY <3>2 DEF SkipInv, ReadIsCurrent
    <3> QED
      BY <2>2, <3>1, <3>2, <3>3 DEF Exists
  <2> QED
    BY <1>0, <2>2, <2>3, <2>4 DEF SkipInv
<1>6. CASE UNCHANGED <<schedules, edits>> /\ ~SomePoll
  BY <1>0, <1>6, SkipIdle
<1>7. \/ SomePoll
      \/ UNCHANGED <<schedules, edits>>
      \/ \E s \in Schedule, state \in Live, cron \in Cron : CreateSchedule(s, state, cron)
      \/ \E e \in Editor, s \in Schedule : ReadForUpdate(e, s)
      \/ \E e \in Editor, patch \in Patches : WriteUpdate(e, patch)
      \/ \E s \in Schedule : DeleteSchedule(s)
  BY DEF Next, RunNow, LoseDispatch, Begin, Execute, RefuseAccess, StartTurn, EndTurn, Settle, SettleError,
         ControlCrash, SetSuspended, Tick, vars
<1> QED
  BY <1>1, <1>2, <1>3, <1>4, <1>5, <1>6, <1>7

\* However polls and any number of edits interleave, an occurrence missed by the time of a poll is
\* never queued later: downtime is not caught up run by run, unless an edit puts back a next
\* occurrence that another edit has replaced since it was read.
THEOREM MissedRunsAreSkipped == Spec => []MissedOccurrencesSkipped
<1>1. SkipInv => MissedOccurrencesSkipped
  BY DEF SkipInv
<1> QED
  BY <1>1, SkipInvInit, SkipInvStep, PTL DEF Spec

-----------------------------------------------------------------------------
\* A lease that was granted has a token, and an execution knows whether its run was deferred
\* before and, from its turn to its success, that the turn was started.
LifeInv ==
    /\ TurnInv
    /\ \A o \in Occurrences : runs[o].state = "none" => runs[o].deferred = FALSE
    /\ \A d \in dispatches : d.token > 0
    /\ \A x \in executions : /\ Exists(x.occ[1]) => x.deferred = runs[x.occ].deferred
                             /\ x.phase \in {"turn", "succeeded"} => turns[x.occ] = 1

\* What a step does to the run of an occurrence and to its turns.
LifeStep(o) == [Life(o)!Next]_(Life(o)!lifeVars)

\* What a poll does to the leases and to the deferral of a row.
LEMMA PollLeases ==
    ASSUME TypeOK, NEW due, NEW claim, Poll(due, claim), NEW o \in Occurrences
    PROVE  /\ runs[o].state = "claimed" => runs'[o].deferred = runs[o].deferred
                                           /\ (runs'[o].token = runs[o].token \/ runs'[o].token > 0)
           /\ runs[o].state = "running" => runs'[o].deferred = runs[o].deferred
           /\ runs[o].state = "none" => runs'[o] = runs[o] \/ runs'[o].deferred = FALSE
           /\ \A d \in dispatches' \ dispatches : d.token > 0
<1> DEFINE queued == QueueDue(Reap(runs), due)
<1>1. runs'[o] = IF o \in claim THEN GrantLease(queued[o]) ELSE queued[o]
  BY DEF Poll
<1>2. /\ \A r : Ended(r, "failed").deferred = r.deferred
      /\ Ended(QueuedRun, "skipped").deferred = FALSE /\ QueuedRun.deferred = FALSE
  BY DEF Ended, QueuedRun, NoRun
<1>3. /\ Reap(runs)[o] = IF Overdue(runs[o]) THEN Ended(runs[o], "failed") ELSE runs[o]
      /\ Overdue(runs[o]) => runs[o].state = "running"
      /\ Ended(runs[o], "failed").state = "failed"
  BY DEF Reap, Overdue, Ended, NoRun
<1>4. queued[o] = IF o[1] \in due /\ o[2] = schedules[o[1]].next /\ Reap(runs)[o].state = "none"
                  THEN IF HasActiveRun(Reap(runs), o[1]) THEN Ended(QueuedRun, "skipped") ELSE QueuedRun
                  ELSE Reap(runs)[o]
  BY DEF QueueDue
<1>5. queued \in [Occurrences -> Run]
  <2>1. Reap(runs) \in [Occurrences -> Run]
    BY RowTypes DEF TypeOK, Reap, Terminal
  <2> QED
    BY <2>1 DEF QueueDue, Run, RunStates, Terminal, ActiveStates, Ended, QueuedRun, NoRun, Never
<1>6. /\ GrantLease(queued[o]).deferred = queued[o].deferred
      /\ GrantLease(queued[o]).token > 0
  BY <1>5 DEF GrantLease, Run
<1>7. \A d \in dispatches' \ dispatches : d.token > 0
  <2>1. claim \subseteq Occurrences
    BY DEF Poll, Claimable
  <2>2. \A p \in claim : queued[p].claims + 1 > 0
    BY <1>5, <2>1 DEF Run
  <2> QED
    BY <2>2 DEF Poll
<1>8. o \in claim => queued[o].state = "claimed"
  BY DEF Poll, Claimable
<1> HIDE DEF queued
<1>9. CASE runs[o].state = "none"
  BY <1>1, <1>2, <1>3, <1>4, <1>6, <1>7, <1>8, <1>9
<1>10. CASE runs[o].state # "none"
  BY <1>1, <1>2, <1>3, <1>4, <1>6, <1>7, <1>8, <1>10
<1> QED
  BY <1>9, <1>10

\* Initially nothing is queued, dispatched or executed.
LEMMA LifeInvInit == Init => LifeInv
  BY TurnInvInit DEF Init, LifeInv, NoRun

\* A poll queues, claims or gives up a run.
LEMMA PollLife ==
    ASSUME LifeInv, TurnInv', NEW due, NEW claim, Poll(due, claim)
    PROVE  LifeInv' /\ \A o \in Occurrences : LifeStep(o)
<1>0. TypeOK /\ RowsHaveSchedule /\ ExecutionsAreTimely /\ (\A o \in Occurrences : o[1] \in Schedule)
  BY DEF LifeInv, TurnInv, Occurrences
<1>1. UNCHANGED <<executions, turns>> /\ \A s \in Schedule : schedules'[s].state = schedules[s].state
  BY <1>0, PollSchedules DEF Poll
<1>2. ASSUME NEW o \in Occurrences
      PROVE  /\ runs[o] \in Run /\ runs'[o] \in Run
             /\ runs[o].state \in Terminal => runs'[o] = runs[o]
             /\ runs[o].state = "running" => /\ runs'[o] = runs[o] \/ runs'[o].state = "failed"
                                             /\ runs'[o].deferred = runs[o].deferred
             /\ runs[o].state = "claimed" => /\ runs'[o].state = "claimed"
                                             /\ runs'[o].deferred = runs[o].deferred
                                             /\ runs'[o].token = runs[o].token \/ runs'[o].token > 0
             /\ runs[o].state = "none" => \/ runs'[o] = runs[o]
                                          \/ /\ Exists(o[1]) /\ runs'[o].state \in {"claimed", "skipped"}
                                             /\ runs'[o].deferred = runs[o].deferred
  <2>1. runs[o] \in Run /\ runs'[o] \in Run
    BY <1>0, PollRowTypes DEF TypeOK
  <2>2. \A r : Ended(r, "failed").state = "failed"
    BY DEF Ended, NoRun
  <2>3. runs[o].state = "none" => runs[o].deferred = FALSE
    BY DEF LifeInv
  <2> QED
    BY <1>0, <2>1, <2>2, <2>3, PollRows, PollLeases
<1>3. ASSUME NEW o \in Occurrences PROVE LifeStep(o)
  <2>0. o[1] \in Schedule /\ schedules'[o[1]].state = schedules[o[1]].state /\ turns'[o] = turns[o]
    BY <1>0, <1>1
  <2>1. CASE schedules[o[1]].state = "deleted" \/ runs'[o] = runs[o]
    <3>1. runs'[o] = runs[o]
      BY <1>0, <1>2, <2>1 DEF RowsHaveSchedule, Exists, Live, NoRun
    <3> QED
      BY <2>0, <3>1 DEF LifeStep, LifeState, Life!lifeVars
  <2>2. CASE schedules[o[1]].state # "deleted" /\ runs'[o] # runs[o]
    <3> USE <1>2, <2>0, <2>2 DEF LifeState
    <3>1. CASE runs[o].state = "none"
      <4>1. LifeState(o) = "none" /\ LifeState(o)' \in {"queued", "claimed", "skipped"}
        BY <3>1
      <4> QED
        BY <3>1, <4>1 DEF LifeStep, Life!Next, Life!Queue
    <3>2. CASE runs[o].state = "claimed"
      <4>1. runs'[o].deferred = runs[o].deferred /\ LifeState(o)' \in {"queued", "claimed"}
        BY <3>2
      <4>2. CASE LifeState(o)' = LifeState(o)
        BY <4>1, <4>2 DEF LifeStep, Life!lifeVars
      <4>3. CASE LifeState(o)' # LifeState(o)
        <5>1. runs'[o].token \in Nat
          BY DEF Run
        <5>2. LifeState(o) = "queued" /\ LifeState(o)' = "claimed"
          BY <3>2, <4>3, <5>1
        <5> QED
          BY <4>1, <5>2 DEF LifeStep, Life!Next, Life!Claim
      <4> QED
        BY <4>2, <4>3
    <3>3. CASE runs[o].state = "running"
      <4>1. LifeState(o) = "running" /\ LifeState(o)' = "failed" /\ runs'[o].deferred = runs[o].deferred
        BY <3>3
      <4> QED
        BY <4>1 DEF LifeStep, Life!Next, Life!Finish, Life!Ends
    <3>4. runs[o].state \in {"none", "claimed", "running"}
      BY DEF Run, RunStates, ActiveStates
    <3> QED
      BY <3>1, <3>2, <3>3, <3>4
  <2> QED
    BY <2>1, <2>2
<1>4. LifeInv'
  <2>1. \A o \in Occurrences : runs'[o].state = "none" => runs'[o].deferred = FALSE
    <3> SUFFICES ASSUME NEW o \in Occurrences, runs'[o].state = "none" PROVE runs'[o].deferred = FALSE
      OBVIOUS
    <3>1. runs'[o] = runs[o]
      BY <1>2 DEF Run, RunStates, ActiveStates
    <3> QED
      BY <3>1 DEF LifeInv
  <2>2. \A d \in dispatches' : d.token > 0
    <3>1. ASSUME NEW o \in Occurrences PROVE \A d \in dispatches' \ dispatches : d.token > 0
      BY <1>0, PollLeases
    <3>2. dispatches' \subseteq [occ : Occurrences, token : Nat]
      BY DEF TurnInv, TypeOK
    <3> QED
      BY <3>1, <3>2 DEF LifeInv
  <2>3. ASSUME NEW x \in executions, Exists(x.occ[1])
        PROVE  x.deferred = runs'[x.occ].deferred
    <3>1. x.occ \in Occurrences /\ runs[x.occ].state \in {"running", "failed"}
      BY <1>0, <2>3 DEF TypeOK, Execution, ExecutionsAreTimely, Timely
    <3>2. runs'[x.occ].deferred = runs[x.occ].deferred
      BY <1>2, <3>1 DEF Terminal
    <3> QED
      BY <2>3, <3>2 DEF LifeInv
  <2>4. \A x \in executions : Exists(x.occ[1])' <=> Exists(x.occ[1])
    BY <1>0, <1>1 DEF Exists, TypeOK, Execution
  <2> QED
    BY <1>1, <2>1, <2>2, <2>3, <2>4 DEF LifeInv
<1> QED
  BY <1>3, <1>4

\* Steps that change neither rows, turns nor the state of a schedule that was created.
LEMMA IdleLife ==
    ASSUME LifeInv, UNCHANGED <<runs, turns>>, NEW o \in Occurrences,
           schedules'[o[1]].state = "deleted" <=> schedules[o[1]].state = "deleted"
    PROVE  LifeStep(o)
  BY DEF LifeStep, LifeState, Life!lifeVars

\* Deleting a schedule ends the life of its runs; a run queued by hand waits for a poll.
LEMMA OwnerLife ==
    ASSUME LifeInv, TurnInv', NEW s \in Schedule, DeleteSchedule(s) \/ RunNow(s)
    PROVE  LifeInv' /\ \A o \in Occurrences : LifeStep(o)
<1>0. TypeOK /\ ExecutionsAreTimely /\ (\A o \in Occurrences : o[1] \in Schedule /\ runs[o] \in Run)
  BY DEF LifeInv, TurnInv, Occurrences, TypeOK
<1>1. CASE DeleteSchedule(s)
  <2>1. \A o \in Occurrences : /\ runs'[o] = IF o[1] = s THEN NoRun ELSE runs[o]
                               /\ schedules'[o[1]].state = IF o[1] = s THEN "deleted" ELSE schedules[o[1]].state
    BY <1>0, <1>1 DEF DeleteSchedule, TypeOK, Unscheduled
  <2>2. Exists(s) /\ UNCHANGED <<dispatches, executions, turns>>
    BY <1>1 DEF DeleteSchedule
  <2>3. NoRun.deferred = FALSE
    BY DEF NoRun
  <2>4. ASSUME NEW o \in Occurrences PROVE LifeStep(o)
    <3>1. CASE o[1] = s
      <4>1. LifeState(o) # "gone" /\ LifeState(o)' = "gone"
        BY <1>0, <2>1, <2>2, <3>1 DEF LifeState, Exists, Live, Run, RunStates, ActiveStates, Terminal
      <4> QED
        BY <2>1, <2>2, <2>3, <3>1, <4>1 DEF LifeStep, Life!Next, Life!Delete
    <3>2. CASE o[1] # s
      BY <2>1, <2>2, <3>2 DEF LifeStep, LifeState, Life!lifeVars
    <3> QED
      BY <3>1, <3>2
  <2>5. \A x \in executions : Exists(x.occ[1])' => Exists(x.occ[1]) /\ runs'[x.occ] = runs[x.occ]
    BY <1>0, <2>1 DEF Exists, TypeOK, Execution, Live
  <2> QED
    BY <2>1, <2>2, <2>3, <2>4, <2>5 DEF LifeInv
<1>2. CASE RunNow(s)
  <2>1. \A o \in Occurrences : runs'[o] = IF o = <<s, now>> THEN QueuedRun ELSE runs[o]
    BY <1>0, <1>2 DEF RunNow, TypeOK
  <2>2. Exists(s) /\ runs[<<s, now>>].state = "none" /\ UNCHANGED <<schedules, dispatches, executions, turns>>
    BY <1>2 DEF RunNow
  <2>3. QueuedRun.deferred = FALSE /\ QueuedRun.state = "claimed" /\ QueuedRun.token = 0
    BY DEF QueuedRun, NoRun
  <2>4. ASSUME NEW o \in Occurrences PROVE LifeStep(o)
    <3>1. CASE o = <<s, now>>
      <4>1. LifeState(o) = "none" /\ LifeState(o)' = "queued"
        BY <2>1, <2>2, <2>3, <3>1 DEF LifeState, Exists, Live
      <4>2. UNCHANGED <<turns[o], runs[o].deferred>>
        BY <2>1, <2>2, <2>3, <3>1 DEF LifeInv
      <4> QED
        BY <4>1, <4>2 DEF LifeStep, Life!Next, Life!Queue
    <3>2. CASE o # <<s, now>>
      BY <2>1, <2>2, <3>2 DEF LifeStep, LifeState, Life!lifeVars
    <3> QED
      BY <3>1, <3>2
  <2>5. \A x \in executions : Exists(x.occ[1]) => x.occ \in Occurrences /\ x.occ # <<s, now>>
    BY <1>0, <2>2 DEF ExecutionsAreTimely, Timely, TypeOK, Execution
  <2> QED
    BY <2>1, <2>2, <2>3, <2>4, <2>5 DEF LifeInv, Exists
<1> QED
  BY <1>1, <1>2

\* Control begins a run that was claimed, with the token of its lease, and has had no turn.
LEMMA BeginLife ==
    ASSUME LifeInv, TurnInv', NEW d \in dispatches, Begin(d)
    PROVE  LifeInv' /\ \A o \in Occurrences : LifeStep(o)
<1>0. /\ TypeOK /\ ExecutionsAreTimely /\ RowsHaveSchedule /\ TurnsSoFar
      /\ d.occ \in Occurrences /\ runs[d.occ] \in Run /\ d.token > 0 /\ d.token \in Nat
      /\ dispatches' \subseteq dispatches /\ UNCHANGED <<schedules, turns>>
  BY DEF LifeInv, TurnInv, TypeOK, Begin
<1>1. CASE ~LeaseValid(runs[d.occ], d.token)
  <2>1. UNCHANGED <<runs, executions>>
    BY <1>1 DEF Begin
  <2> QED
    BY <1>0, <2>1, IdleLife DEF LifeInv, Exists
<1>2. CASE LeaseValid(runs[d.occ], d.token)
  <2> DEFINE new == [occ |-> d.occ, token |-> d.token, phase |-> "access",
                     since |-> now, deferred |-> runs[d.occ].deferred]
  <2>1. executions' = executions \cup {new}
    BY <1>2 DEF Begin
  <2>2. runs[d.occ].state = "claimed" /\ runs[d.occ].token > 0
    BY <1>0, <1>2 DEF LeaseValid
  <2>3. \A o \in Occurrences : o # d.occ => runs'[o] = runs[o]
    BY <1>0, <1>2 DEF Begin, TypeOK
  <2>4. runs'[d.occ].state = "running" /\ runs'[d.occ].deferred = runs[d.occ].deferred
    BY <1>0, <1>2 DEF Begin, TypeOK, Run
  <2>5. Exists(d.occ[1])
    BY <1>0, <2>2 DEF RowsHaveSchedule, NoRun
  <2>6. ASSUME NEW o \in Occurrences PROVE LifeStep(o)
    <3>1. CASE o = d.occ
      <4>1. LifeState(o) = "claimed" /\ LifeState(o)' = "running"
        BY <1>0, <2>2, <2>4, <2>5, <3>1 DEF LifeState, Exists, Live
      <4>2. turns[o] = 0 /\ UNCHANGED <<turns[o], runs[o].deferred>>
        BY <1>0, <2>2, <2>4, <2>5, <3>1 DEF TurnsSoFar, Exists, Live
      <4> QED
        BY <4>1, <4>2 DEF LifeStep, Life!Next, Life!Begin
    <3>2. CASE o # d.occ
      BY <1>0, <2>3, <3>2 DEF LifeStep, LifeState, Life!lifeVars
    <3> QED
      BY <3>1, <3>2
  <2>7. \A x \in executions : Exists(x.occ[1]) => x.occ \in Occurrences /\ x.occ # d.occ
    BY <1>0, <2>2 DEF ExecutionsAreTimely, Timely, TypeOK, Execution
  <2>8. \A x \in executions' : /\ Exists(x.occ[1])' => x.deferred = runs'[x.occ].deferred
                               /\ x.phase \in {"turn", "succeeded"} => turns'[x.occ] = 1
    BY <1>0, <2>1, <2>3, <2>4, <2>7 DEF LifeInv, Exists
  <2>9. \A o \in Occurrences : runs'[o].state = "none" => runs'[o].deferred = FALSE
    BY <2>3, <2>4 DEF LifeInv
  <2> QED
    BY <1>0, <2>6, <2>8, <2>9 DEF LifeInv
<1> QED
  BY <1>1, <1>2

\* An execution starts the one turn of its run, or moves on without one.
LEMMA MoveLife ==
    ASSUME LifeInv, TurnInv', NEW x \in executions, Execute(x), ~Settle(x)
    PROVE  LifeInv' /\ \A o \in Occurrences : LifeStep(o)
<1>0. /\ TypeOK /\ ExecutionsAreTimely /\ OneExecution /\ TurnsSoFar
      /\ \A y \in executions : y \in Execution /\ y.occ \in Occurrences /\ y.occ[1] \in Schedule
  BY DEF LifeInv, TurnInv, TypeOK, Execution, Occurrences
<1>1. UNCHANGED <<schedules, runs, dispatches>>
  BY DEF Execute, RefuseAccess, StartTurn, EndTurn, SettleError
<1>2. ASSUME NEW phase, Move(x, phase)
      PROVE  \E new : /\ executions' = (executions \ {x}) \cup {new}
                      /\ new.occ = x.occ /\ new.phase = phase /\ new.deferred = x.deferred
  <2> DEFINE new == [x EXCEPT !.phase = phase, !.since = IF phase = "turn" THEN now ELSE 0]
  <2>1. new.occ = x.occ /\ new.phase = phase /\ new.deferred = x.deferred
    BY <1>0 DEF Execution
  <2> QED
    BY <1>2, <2>1 DEF Move
<1>3. CASE StartTurn(x)
  <2>1. PICK new : /\ executions' = (executions \ {x}) \cup {new}
                   /\ new.occ = x.occ /\ new.phase = "turn" /\ new.deferred = x.deferred
    BY <1>2, <1>3 DEF StartTurn
  <2>2. \A o \in Occurrences : turns'[o] = IF o = x.occ THEN turns[o] + 1 ELSE turns[o]
    BY <1>0, <1>3 DEF StartTurn, TypeOK
  <2>3. turns[x.occ] = 0 /\ x.phase = "access"
    BY <1>0, <1>3 DEF StartTurn, TurnsSoFar
  <2>4. ASSUME NEW o \in Occurrences PROVE LifeStep(o)
    <3>1. CASE o = x.occ
      <4>1. CASE Exists(o[1])
        <5>1. LifeState(o) = "running" /\ LifeState(o)' = "running"
          BY <1>0, <1>1, <2>3, <3>1, <4>1 DEF LifeState, Exists, Live, ExecutionsAreTimely, Timely
        <5> QED
          BY <1>1, <2>2, <2>3, <3>1, <5>1 DEF LifeStep, Life!Next, Life!StartTurn
      <4>2. CASE ~Exists(o[1])
        <5>1. schedules[o[1]].state = "deleted"
          BY <1>0, <3>1, <4>2 DEF OneExecution, TypeOK, ScheduleRow, Unscheduled, Exists
        <5>2. LifeState(o) = "gone" /\ LifeState(o)' = "gone"
          BY <1>1, <5>1 DEF LifeState
        <5> QED
          BY <1>1, <2>2, <2>3, <3>1, <5>2 DEF LifeStep, Life!Next, Life!StartTurn
      <4> QED
        BY <4>1, <4>2
    <3>2. CASE o # x.occ
      BY <1>1, <2>2, <3>2 DEF LifeStep, LifeState, Life!lifeVars
    <3> QED
      BY <3>1, <3>2
  <2>5. \A y \in executions \ {x} : y.occ # x.occ
    BY <1>0 DEF OneExecution
  <2>6. LifeInv'
    BY <1>0, <1>1, <2>1, <2>2, <2>3, <2>5 DEF LifeInv, Exists
  <2> QED
    BY <2>4, <2>6
<1>4. ASSUME NEW phase, Move(x, phase), UNCHANGED turns,
             phase = "turn" => FALSE, phase = "succeeded" => x.phase = "turn"
      PROVE  LifeInv' /\ \A o \in Occurrences : LifeStep(o)
  <2>1. PICK new : /\ executions' = (executions \ {x}) \cup {new}
                   /\ new.occ = x.occ /\ new.phase = phase /\ new.deferred = x.deferred
    BY <1>2, <1>4
  <2>2. LifeInv'
    BY <1>0, <1>1, <1>4, <2>1 DEF LifeInv, Exists
  <2> QED
    BY <1>1, <1>4, <2>2, IdleLife
<1>5. CASE executions' = executions \ {x} /\ UNCHANGED turns
  <2>1. LifeInv'
    BY <1>1, <1>5 DEF LifeInv, Exists
  <2> QED
    BY <1>1, <1>5, <2>1, IdleLife
<1>6. ASSUME NEW outcome \in {"transition", "skipped", "failed"}, RefuseAccess(x, outcome)
      PROVE  LifeInv' /\ \A o \in Occurrences : LifeStep(o)
  BY <1>4, <1>6 DEF RefuseAccess
<1>7. ASSUME NEW outcome \in {"succeeded", "failed"}, EndTurn(x, outcome)
      PROVE  LifeInv' /\ \A o \in Occurrences : LifeStep(o)
  BY <1>4, <1>7 DEF EndTurn
<1>8. ASSUME SettleError(x)
      PROVE  LifeInv' /\ \A o \in Occurrences : LifeStep(o)
  BY <1>4, <1>5, <1>8 DEF SettleError
<1> QED
  BY <1>3, <1>6, <1>7, <1>8 DEF Execute

\* An execution that settles finishes a running run, or sends it back once, before its turn.
LEMMA SettleLife ==
    ASSUME LifeInv, TurnInv', NEW x \in executions, Settle(x)
    PROVE  LifeInv' /\ \A o \in Occurrences : LifeStep(o)
<1>0. /\ TypeOK /\ ExecutionsAreTimely /\ RowsHaveSchedule /\ OneExecution /\ TurnsSoFar
      /\ \A y \in executions : y \in Execution /\ y.occ \in Occurrences /\ y.occ[1] \in Schedule
      /\ runs[x.occ] \in Run
  BY DEF LifeInv, TurnInv, TypeOK, Execution, Occurrences
<1>1. UNCHANGED <<schedules, turns, dispatches>> /\ executions' = executions \ {x}
  BY DEF Settle
<1>2. \A o \in Occurrences : runs'[o] = IF o = x.occ THEN RunAfter(runs[o], x) ELSE runs[o]
  BY <1>0 DEF Settle, TypeOK
<1>3. x.phase \in {"transition"} \cup Terminal
  BY <1>0 DEF Settle, Execution
<1>4. \A y \in executions \ {x} : y.occ # x.occ
  BY <1>0 DEF OneExecution
<1>5. CASE runs[x.occ].state # "running"
  <2>1. \A o \in Occurrences : runs'[o] = runs[o]
    BY <1>2, <1>5 DEF RunAfter
  <2>2. ASSUME NEW o \in Occurrences PROVE LifeStep(o)
    BY <1>1, <2>1 DEF LifeStep, LifeState, Life!lifeVars
  <2>3. LifeInv'
    BY <1>0, <1>1, <2>1 DEF LifeInv, Exists
  <2> QED
    BY <2>2, <2>3
<1>6. CASE runs[x.occ].state = "running"
  <2>1. Exists(x.occ[1]) /\ x.deferred = runs[x.occ].deferred
    BY <1>0, <1>6 DEF RowsHaveSchedule, NoRun, LifeInv
  <2>2. \/ /\ x.phase = "transition" /\ ~runs[x.occ].deferred
           /\ runs'[x.occ].state = "claimed" /\ runs'[x.occ].token = 0 /\ runs'[x.occ].deferred = TRUE
        \/ /\ runs'[x.occ].state \in Terminal /\ runs'[x.occ].deferred = runs[x.occ].deferred
           /\ runs'[x.occ].state = "succeeded" => x.phase = "succeeded"
    BY <1>0, <1>2, <1>3, <1>6, <2>1 DEF RunAfter, Ended, Deferred, NoRun, Run, Terminal
  <2>3. ASSUME NEW o \in Occurrences PROVE LifeStep(o)
    <3>1. CASE o # x.occ
      BY <1>1, <1>2, <3>1 DEF LifeStep, LifeState, Life!lifeVars
    <3>2. CASE o = x.occ /\ runs'[x.occ].state = "claimed"
      <4>1. LifeState(o) = "running" /\ LifeState(o)' = "queued" /\ ~runs[o].deferred /\ runs'[o].deferred = TRUE
        BY <1>1, <1>6, <2>1, <2>2, <3>2 DEF LifeState, Exists, Live, Terminal
      <4>2. turns[o] = 0 /\ turns'[o] = turns[o]
        BY <1>0, <1>1, <2>2, <3>2 DEF TurnsSoFar, Terminal
      <4> QED
        BY <4>1, <4>2 DEF LifeStep, Life!Next, Life!Defer
    <3>3. CASE o = x.occ /\ runs'[x.occ].state # "claimed"
      <4>1. LifeState(o) = "running" /\ LifeState(o)' = runs'[o].state /\ runs'[o].state \in Terminal
            /\ runs'[o].deferred = runs[o].deferred
        BY <1>1, <1>6, <2>1, <2>2, <3>3 DEF LifeState, Exists, Live, Terminal
      <4>2. runs'[o].state = "succeeded" => turns[o] = 1
        BY <2>2, <3>3 DEF LifeInv
      <4> QED
        BY <1>1, <4>1, <4>2 DEF LifeStep, Life!Next, Life!Finish, Life!Ends, Terminal
    <3> QED
      BY <3>1, <3>2, <3>3
  <2>4. \A o \in Occurrences : runs'[o].state = "none" => runs'[o].deferred = FALSE
    BY <1>2, <2>2 DEF LifeInv, Terminal
  <2>5. LifeInv'
    BY <1>0, <1>1, <1>2, <1>4, <2>4 DEF LifeInv, Exists
  <2> QED
    BY <2>3, <2>5
<1> QED
  BY <1>5, <1>6

\* Every step keeps the invariant and is a step of RunLifecycle, or none, for every occurrence.
LEMMA LifeInvStep == LifeInv /\ [Next]_vars => LifeInv' /\ \A o \in Occurrences : LifeStep(o)
<1> SUFFICES ASSUME LifeInv, [Next]_vars PROVE LifeInv' /\ \A o \in Occurrences : LifeStep(o)
  OBVIOUS
<1>0. TypeOK /\ TurnInv' /\ OneExecution /\ (\A o \in Occurrences : o[1] \in Schedule)
      /\ \A x \in executions : x.occ[1] \in Schedule
  BY TurnInvStep DEF LifeInv, TurnInv, TypeOK, Execution, Occurrences
<1>1. ASSUME UNCHANGED <<runs, turns>>, dispatches' \subseteq dispatches, executions' \subseteq executions,
             \A s \in Schedule : /\ schedules'[s].state = "deleted" <=> schedules[s].state = "deleted"
                                 /\ schedules'[s].state = "absent" <=> schedules[s].state = "absent"
      PROVE  LifeInv' /\ \A o \in Occurrences : LifeStep(o)
  <2>1. \A o \in Occurrences : LifeStep(o)
    BY <1>0, <1>1, IdleLife
  <2>2. \A s \in Schedule : Exists(s)' <=> Exists(s)
    <3>1. \A s \in Schedule : schedules[s].state \in Live \cup {"absent", "deleted"}
                              /\ schedules'[s].state \in Live \cup {"absent", "deleted"}
      BY <1>0 DEF TypeOK, TurnInv, ScheduleRow, Unscheduled
    <3> QED
      BY <1>1, <3>1 DEF Exists, Live
  <2>3. LifeInv'
    BY <1>0, <1>1, <2>2 DEF LifeInv
  <2> QED
    BY <2>1, <2>3
<1>2. ASSUME NEW s \in Schedule, NEW state \in Live, NEW cron \in Cron, CreateSchedule(s, state, cron)
      PROVE  LifeInv' /\ \A o \in Occurrences : LifeStep(o)
  <2>1. \A t \in Schedule : schedules'[t].state = IF t = s THEN state ELSE schedules[t].state
    BY <1>0, <1>2 DEF CreateSchedule, TypeOK
  <2>2. schedules[s].state = "absent" /\ UNCHANGED <<runs, dispatches, executions, turns>>
    BY <1>2 DEF CreateSchedule
  <2>3. \A x \in executions : Exists(x.occ[1])' <=> Exists(x.occ[1])
    BY <1>0, <2>1, <2>2 DEF Exists, OneExecution
  <2>4. LifeInv'
    BY <1>0, <2>2, <2>3 DEF LifeInv
  <2>5. \A o \in Occurrences : LifeStep(o)
    BY <1>0, <2>1, <2>2, IdleLife DEF Live
  <2> QED
    BY <2>4, <2>5
<1>3. ASSUME NEW e \in Editor, NEW patch \in Patches, WriteUpdate(e, patch)
      PROVE  LifeInv' /\ \A o \in Occurrences : LifeStep(o)
  <2>1. \A s \in Schedule : schedules'[s].state # schedules[s].state
            => schedules[s].state \in Live /\ schedules'[s].state \in Live
    BY <1>0, <1>3 DEF WriteUpdate, TypeOK, Patches, Patched, Exists
  <2>2. UNCHANGED <<runs, turns, dispatches, executions>>
    BY <1>3 DEF WriteUpdate
  <2> QED
    BY <1>1, <2>1, <2>2 DEF Live
<1>4. CASE UNCHANGED <<schedules, runs, turns>> /\ dispatches' \subseteq dispatches /\ executions' \subseteq executions
  BY <1>1, <1>4
<1>5. \/ UNCHANGED <<schedules, runs, turns>> /\ dispatches' \subseteq dispatches /\ executions' \subseteq executions
      \/ \E s \in Schedule, state \in Live, cron \in Cron : CreateSchedule(s, state, cron)
      \/ \E e \in Editor, patch \in Patches : WriteUpdate(e, patch)
      \/ \E s \in Schedule : DeleteSchedule(s) \/ RunNow(s)
      \/ SomePoll
      \/ \E d \in dispatches : Begin(d)
      \/ \E x \in executions : Execute(x)
  BY DEF Next, ReadForUpdate, LoseDispatch, ControlCrash, SetSuspended, Tick, vars
<1> QED
  BY <1>0, <1>2, <1>3, <1>4, <1>5, OwnerLife, PollLife, BeginLife, MoveLife, SettleLife DEF SomePoll

\* Every occurrence lives the life that RunLifecycle promises: it is queued once, begins only
\* after a poll claimed it, has one turn, is sent back at most once and only before its turn,
\* and stays as it ended, whatever dispatches, crashes and edits do.
THEOREM RunsLiveTheirLife == Spec => RunsFollowLifecycle
<1>1. ASSUME Init PROVE \A o \in Occurrences : Life(o)!Init
  BY <1>1 DEF Init, LifeState, Unscheduled, NoRun, Life!Init, Occurrences
<1>2. LifeInv /\ [Next]_vars => [\A o \in Occurrences : [Life(o)!Next]_(Life(o)!lifeVars)]_vars
  BY LifeInvStep DEF LifeStep
<1> QED
  BY <1>1, <1>2, LifeInvInit, LifeInvStep, PTL DEF Spec, RunsFollowLifecycle
=============================================================================
