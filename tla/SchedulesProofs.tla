--------------------------- MODULE SchedulesProofs ---------------------------
(***************************************************************************)
(* Theorems about Schedules, for every set of schedules, every cron period *)
(* and every choice of the timing constants with TurnFitsInReapDelay.      *)
(***************************************************************************)
EXTENDS Schedules, TLAPS

\* A next occurrence is a later time.
LEMMA NextAtLater ==
    ASSUME NEW period \in Cron, NEW after \in Nat
    PROVE  NextAt(period, after) \in Nat
  BY ScheduleConstants DEF NextAt

\* Ending, deferring and leasing a run give a run.
LEMMA RowTypes ==
    ASSUME TypeOK, NEW r \in Run
    PROVE  /\ now \in Nat
           /\ \A s \in Terminal : Ended(r, s) \in Run
           /\ Deferred(r) \in Run
           /\ GrantLease(r) \in Run
<1>1. now \in Nat /\ LeaseTime \in Nat /\ RetryDelay \in Nat
  BY ScheduleConstants DEF TypeOK, Times
<1>2. ASSUME NEW s \in Terminal PROVE Ended(r, s) \in Run
  BY DEF Ended, NoRun, Run, RunStates, Never
<1>3. now + RetryDelay \in Nat /\ now + LeaseTime \in Nat /\ r.claims + 1 \in Nat
  BY <1>1 DEF Run
<1>4. Deferred(r) \in Run
  BY <1>3 DEF Deferred, Run, RunStates, ActiveStates, Never
<1>5. GrantLease(r) \in Run
  BY <1>3 DEF GrantLease, Run
<1> QED
  BY <1>1, <1>2, <1>4, <1>5

\* Rows after a poll are rows.
LEMMA PollRowTypes ==
    ASSUME TypeOK, NEW due, NEW claim, Poll(due, claim)
    PROVE  runs' \in [Occurrences -> Run]
<1> DEFINE rs == Reap(runs)
           queued == QueueDue(rs, due)
<1>1. rs \in [Occurrences -> Run]
  BY RowTypes DEF TypeOK, Reap, Terminal
<1>2. queued \in [Occurrences -> Run]
  BY <1>1 DEF QueueDue, Run, RunStates, Terminal, ActiveStates, Ended, QueuedRun, NoRun, Never
<1>3. \A o \in Occurrences : GrantLease(queued[o]) \in Run
  BY <1>2, RowTypes
<1> QED
  BY <1>2, <1>3 DEF Poll

\* Every variable keeps its type.
LEMMA TypeStep == TypeOK /\ [Next]_vars => TypeOK'
<1> SUFFICES ASSUME TypeOK, [Next]_vars PROVE TypeOK'
  OBVIOUS
<1> USE ScheduleConstants
<1>1. ASSUME NEW s \in Schedule, NEW state \in Live, NEW cron \in Cron, CreateSchedule(s, state, cron)
      PROVE  TypeOK'
  <2>1. NextAt(cron, now) \in Nat
    BY NextAtLater DEF TypeOK, Times
  <2> QED
    BY <1>1, <2>1 DEF CreateSchedule, TypeOK, ScheduleRow
<1>2. ASSUME NEW e \in Editor, NEW s \in Schedule, ReadForUpdate(e, s)
      PROVE  TypeOK'
  BY <1>2 DEF ReadForUpdate, TypeOK, ScheduleRow, Unscheduled, Exists, Live, Edit
<1>3. ASSUME NEW e \in Editor, NEW patch \in Patches, WriteUpdate(e, patch)
      PROVE  TypeOK'
  <2>1. edits[e] \in Edit
    BY <1>3 DEF WriteUpdate, TypeOK
  <2>2. Patched(edits[e].cron, patch.cron, 0) \in Cron
    BY <2>1 DEF Patches, Patched, Edit
  <2>3. NextAt(Patched(edits[e].cron, patch.cron, 0), now) \in Nat
    <3>1. now \in Nat
      BY DEF TypeOK, Times
    <3> QED
      BY <2>2, <3>1, NextAtLater
  <2>4. PlannedNext(edits[e], patch) \in {Never} \cup Nat
    BY <2>1, <2>3 DEF PlannedNext, Recomputes, Edit
  <2>5. ASSUME NEW s \in Schedule, Exists(s)
        PROVE  /\ Patched(schedules[s].state, patch.state, "kept") \in Live
               /\ Patched(schedules[s].cron, patch.cron, 0) \in Cron
    BY <2>5 DEF TypeOK, ScheduleRow, Unscheduled, Exists, Live, Patches, Patched
  <2>6. schedules' \in [Schedule -> ScheduleRow]
    BY <1>3, <2>1, <2>4, <2>5 DEF WriteUpdate, TypeOK, ScheduleRow, Edit
  <2>8. rewound' \subseteq Schedule
    BY <1>3, <2>1 DEF WriteUpdate, TypeOK, Edit
  <2>7. edits' \in [Editor -> Edit \cup {NoEdit}]
    <3>1. \A f \in Editor : edits[f] # NoEdit => [edits[f] EXCEPT !.overtaken = TRUE] \in Edit
      BY DEF TypeOK, Edit
    <3> QED
      BY <1>3, <3>1 DEF WriteUpdate, TypeOK, Overtakes
  <2> QED
    BY <1>3, <2>6, <2>7, <2>8 DEF WriteUpdate, TypeOK
<1>4. ASSUME NEW s \in Schedule, DeleteSchedule(s)
      PROVE  TypeOK'
  BY <1>4 DEF DeleteSchedule, TypeOK, ScheduleRow, Run, NoRun, RunStates, Never
<1>5. ASSUME NEW s \in Schedule, RunNow(s)
      PROVE  TypeOK'
  BY <1>5 DEF RunNow, TypeOK, Run, QueuedRun, NoRun, RunStates, ActiveStates, Never
<1>6. ASSUME NEW due, NEW claim, Poll(due, claim)
      PROVE  TypeOK'
  <2> DEFINE queued == QueueDue(Reap(runs), due)
  <2>1. runs' \in [Occurrences -> Run]
    BY <1>6, PollRowTypes
  <2>2. queued \in [Occurrences -> Run]
    BY DEF QueueDue, Reap, TypeOK, Run, RunStates, Terminal, ActiveStates, Ended, QueuedRun, NoRun, Never
  <2>3. ASSUME NEW s \in due
        PROVE  s \in Schedule /\ [schedules[s] EXCEPT !.next = AdvancedNext(s)] \in ScheduleRow
    <3>1. s \in Schedule /\ schedules[s].state = "enabled"
      BY <1>6, <2>3 DEF Poll, DueSchedules
    <3>2. schedules[s] \in [state : Live, next : {Never} \cup Nat, cron : Cron]
      BY <3>1 DEF TypeOK, ScheduleRow, Unscheduled, Live
    <3>3. AdvancedNext(s) \in Nat
      <4>1. now \in Nat
        BY DEF TypeOK, Times
      <4> QED
        BY <3>2, <4>1, NextAtLater DEF AdvancedNext
    <3>4. [schedules[s] EXCEPT !.next = AdvancedNext(s)] \in [state : Live, next : {Never} \cup Nat, cron : Cron]
      BY <3>2, <3>3
    <3> QED
      BY <3>1, <3>4 DEF ScheduleRow
  <2>4. schedules' \in [Schedule -> ScheduleRow]
    BY <1>6, <2>3 DEF Poll, TypeOK
  <2>5. claim \subseteq Occurrences
    BY <1>6 DEF Poll, Claimable
  <2>6. \A o \in claim : queued[o].claims + 1 \in Nat
    BY <2>2, <2>5 DEF Run
  <2>7. dispatches' \subseteq [occ : Occurrences, token : Nat]
    BY <1>6, <2>5, <2>6 DEF Poll, TypeOK
  <2>8. polledAt' \in [Occurrences -> {Never} \cup Times]
    BY <1>6 DEF Poll, TypeOK
  <2> QED
    BY <1>6, <2>1, <2>4, <2>7, <2>8 DEF Poll, TypeOK
<1>7. ASSUME NEW d \in dispatches, LoseDispatch(d) \/ Begin(d)
      PROVE  TypeOK'
  <2>1. CASE LoseDispatch(d)
    BY <2>1 DEF LoseDispatch, TypeOK
  <2>2. CASE Begin(d)
    <3>1. d \in [occ : Occurrences, token : Nat]
      BY DEF TypeOK
    <3>2. runs[d.occ] \in Run
      BY <3>1 DEF TypeOK
    <3>3. runs' \in [Occurrences -> Run]
      BY <2>2, <3>1, <3>2 DEF Begin, TypeOK, Run, RunStates, ActiveStates, Times
    <3>4. executions' \subseteq Execution
      BY <2>2, <3>1, <3>2 DEF Begin, TypeOK, Execution, Run
    <3> QED
      BY <2>2, <3>3, <3>4 DEF Begin, TypeOK
  <2> QED
    BY <1>7, <2>1, <2>2
<1>8. ASSUME NEW x \in executions, Execute(x)
      PROVE  TypeOK'
  <2>0. x \in Execution
    BY DEF TypeOK
  <2>1. ASSUME NEW phase \in {"turn", "transition"} \cup Terminal, Move(x, phase)
        PROVE  executions' \subseteq Execution
    <3>1. (IF phase = "turn" THEN now ELSE 0) \in Times
      BY DEF TypeOK, Times
    <3>2. [x EXCEPT !.phase = phase, !.since = IF phase = "turn" THEN now ELSE 0] \in Execution
      BY <2>0, <3>1 DEF Execution
    <3> QED
      BY <2>1, <3>2 DEF Move, TypeOK
  <2>2. ASSUME NEW outcome \in {"transition", "skipped", "failed"}, RefuseAccess(x, outcome)
        PROVE  TypeOK'
    BY <2>1, <2>2 DEF RefuseAccess, TypeOK, Terminal
  <2>3. CASE StartTurn(x)
    BY <2>0, <2>1, <2>3 DEF StartTurn, TypeOK, Execution
  <2>4. ASSUME NEW outcome \in {"succeeded", "failed"}, EndTurn(x, outcome)
        PROVE  TypeOK'
    BY <2>1, <2>4 DEF EndTurn, TypeOK, Terminal
  <2>5. CASE Settle(x)
    <3>1. x.phase \in {"transition"} \cup Terminal
      BY <2>0, <2>5 DEF Settle, Execution
    <3>2. RunAfter(runs[x.occ], x) \in Run
      <4>1. runs[x.occ] \in Run
        BY <2>0 DEF TypeOK, Execution
      <4> QED
        BY <3>1, <4>1, RowTypes DEF RunAfter, Terminal
    <3> QED
      BY <2>0, <2>5, <3>2 DEF Settle, TypeOK, Execution
  <2>6. CASE SettleError(x)
    BY <2>1, <2>6 DEF SettleError, TypeOK, Terminal
  <2> QED
    BY <1>8, <2>2, <2>3, <2>4, <2>5, <2>6 DEF Execute
<1>9. CASE ControlCrash
  BY <1>9 DEF ControlCrash, TypeOK
<1>10. CASE SetSuspended
  BY <1>10 DEF SetSuspended, TypeOK
<1>11. CASE Tick
  BY <1>11 DEF Tick, TypeOK, Times
<1>12. CASE UNCHANGED vars
  BY <1>12 DEF vars, TypeOK
<1> QED
  BY <1>1, <1>2, <1>3, <1>4, <1>5, <1>6, <1>7, <1>8, <1>9, <1>10, <1>11, <1>12 DEF Next, SomePoll

\* The initial values have their types.
LEMMA InitTypes == Init => TypeOK
<1> SUFFICES ASSUME Init PROVE TypeOK
  OBVIOUS
<1>1. NoRun \in Run /\ Unscheduled("absent") \in ScheduleRow /\ 0 \in Times
  BY ScheduleConstants DEF Times, ScheduleRow, Run, NoRun, RunStates, Never
<1>2. runs \in [Occurrences -> Run] /\ turns \in [Occurrences -> Nat]
  BY <1>1 DEF Init
<1>3. edits \in [Editor -> Edit \cup {NoEdit}] /\ polledAt \in [Occurrences -> {Never} \cup Times]
  BY DEF Init
<1>4. schedules \in [Schedule -> ScheduleRow] /\ suspended \in BOOLEAN
  BY <1>1 DEF Init
<1> QED
  BY <1>1, <1>2, <1>3, <1>4 DEF Init, TypeOK

\* Type correctness: every reachable value has its type.
THEOREM TypeCorrect == Spec => []TypeOK
  BY InitTypes, TypeStep, PTL DEF Spec

-----------------------------------------------------------------------------
\* What a poll does to a row, by the state the row is in.
LEMMA PollRows ==
    ASSUME TypeOK, RowsHaveSchedule, NEW due, NEW claim, Poll(due, claim), NEW o \in Occurrences
    PROVE  /\ runs[o].state \in Terminal => runs'[o] = runs[o]
           /\ runs[o].state = "running" => runs'[o] = IF Overdue(runs[o]) THEN Ended(runs[o], "failed")
                                                                         ELSE runs[o]
           /\ runs[o].state = "claimed" => runs'[o].state = "claimed"
           /\ runs[o].state = "none" => \/ runs'[o] = runs[o]
                                        \/ Exists(o[1]) /\ runs'[o].state \in {"claimed", "skipped"}
<1> DEFINE rs == Reap(runs)
           queued == QueueDue(rs, due)
<1>1. runs'[o] = IF o \in claim THEN GrantLease(queued[o]) ELSE queued[o]
  BY DEF Poll
<1>2. o \in claim => queued[o].state = "claimed"
  BY DEF Poll, Claimable
<1>3. rs[o] = IF Overdue(runs[o]) THEN Ended(runs[o], "failed") ELSE runs[o]
  BY DEF Reap
<1>4. Overdue(runs[o]) => runs[o].state = "running"
  BY DEF Overdue
<1>5. \A r : Ended(r, "failed").state = "failed" /\ Ended(r, "skipped").state = "skipped"
  BY DEF Ended, NoRun
<1>6. QueuedRun.state = "claimed"
  BY DEF QueuedRun, NoRun
<1>7. rs[o].state # "none" => queued[o] = rs[o]
  BY DEF QueueDue
<1>8. rs[o].state = "none" => \/ queued[o] = rs[o]
                              \/ o[1] \in due /\ queued[o].state \in {"claimed", "skipped"}
  BY <1>5, <1>6 DEF QueueDue
<1>9. o[1] \in due => Exists(o[1])
  BY DEF Poll, DueSchedules, Exists, Live
<1>10. queued[o] \in Run
  <2>1. rs \in [Occurrences -> Run]
    BY RowTypes DEF TypeOK, Reap, Terminal
  <2> QED
    BY <2>1 DEF QueueDue, Run, RunStates, Terminal, ActiveStates, Ended, QueuedRun, NoRun, Never
<1>11. GrantLease(queued[o]).state = queued[o].state
  BY <1>10 DEF GrantLease, Run
<1>12. CASE runs[o].state = "none"
  BY <1>1, <1>2, <1>3, <1>4, <1>8, <1>9, <1>11, <1>12 DEF Terminal
<1>13. CASE runs[o].state = "claimed"
  BY <1>1, <1>2, <1>3, <1>4, <1>7, <1>11, <1>13 DEF Terminal
<1>14. CASE runs[o].state \notin {"none", "claimed"}
  BY <1>1, <1>2, <1>3, <1>4, <1>5, <1>7, <1>14 DEF Terminal
<1> QED
  BY <1>12, <1>13, <1>14 DEF Terminal

\* A poll leaves the states of the schedules alone.
LEMMA PollSchedules ==
    ASSUME TypeOK, NEW due, NEW claim, Poll(due, claim), NEW s \in Schedule
    PROVE  schedules'[s].state = schedules[s].state
<1>1. CASE s \in due
  <2>1. schedules[s] \in [state : Live, next : {Never} \cup Nat, cron : Cron]
    BY <1>1 DEF Poll, DueSchedules, TypeOK, ScheduleRow, Unscheduled, Live
  <2> QED
    BY <1>1, <2>1 DEF Poll
<1>2. CASE s \notin due
  BY <1>2 DEF Poll
<1> QED
  BY <1>1, <1>2

\* The reaper gives up no execution that is within its timeouts.
LEMMA LiveNotOverdue ==
    ASSUME TypeOK, ExecutionsAreTimely, NEW x \in executions, Exists(x.occ[1]), x.phase \in {"access", "turn"}
    PROVE  ~Overdue(runs[x.occ])
<1>1. x \in Execution /\ runs[x.occ] \in Run /\ now \in Nat
  BY ScheduleConstants DEF TypeOK, Execution, Times
<1>2. /\ x.since \in Nat
      /\ runs[x.occ].started \in Int
  BY <1>1, ScheduleConstants DEF Execution, Run, Times, Never
<1>3. {AccessBound, TurnTimeout, ReapAfter} \subseteq Nat
  BY ScheduleConstants
<1>4. CASE x.phase = "access"
  BY <1>1, <1>2, <1>3, <1>4, TurnFitsInReapDelay DEF ExecutionsAreTimely, Timely, Overdue
<1>5. CASE x.phase = "turn"
  BY <1>1, <1>2, <1>3, <1>5, TurnFitsInReapDelay DEF ExecutionsAreTimely, Timely, Overdue
<1> QED
  BY <1>4, <1>5

\* The initial states satisfy the invariant.
LEMMA TurnInvInit == Init => TurnInv
<1> SUFFICES ASSUME Init PROVE TurnInv
  OBVIOUS
<1>1. TypeOK
  BY InitTypes
<1>2. RowsHaveSchedule /\ OneExecution /\ ExecutionsAreTimely
  BY DEF Init, RowsHaveSchedule, OneExecution, ExecutionsAreTimely, Timely
<1>3. TurnsSoFar
  BY DEF Init, TurnsSoFar
<1> QED
  BY <1>1, <1>2, <1>3 DEF TurnInv

\* Steps that change neither rows, schedules, executions nor turns.
LEMMA IdleStep ==
    ASSUME TurnInv, TypeOK', UNCHANGED <<now, schedules, runs, executions, turns>>
    PROVE  TurnInv'
BY DEF TurnInv, RowsHaveSchedule, OneExecution, ExecutionsAreTimely, Timely, TurnsSoFar, Exists

\* Steps that edit a schedule and neither create nor delete one.
LEMMA EditStep ==
    ASSUME TurnInv, TypeOK', UNCHANGED <<now, runs, executions, turns>>,
           \A s \in Schedule : schedules'[s].state = schedules[s].state \/ {schedules[s].state, schedules'[s].state} \subseteq Live
    PROVE  TurnInv'
<1>1. \A s \in Schedule : Exists(s)' <=> Exists(s)
  BY DEF Exists, Live
<1>2. \A s \in Schedule : \A b \in {"absent", "deleted"} : schedules'[s].state = b <=> schedules[s].state = b
  BY DEF Live
<1>3. \A o \in Occurrences : o[1] \in Schedule
  BY DEF Occurrences
<1>4. \A x \in executions : x.occ[1] \in Schedule
  BY <1>3 DEF TurnInv, TypeOK, Execution
<1>5. RowsHaveSchedule'
  BY <1>1, <1>3 DEF TurnInv, RowsHaveSchedule
<1>6. OneExecution'
  BY <1>2, <1>4 DEF TurnInv, OneExecution
<1>7. ExecutionsAreTimely'
  BY <1>1, <1>4 DEF TurnInv, ExecutionsAreTimely, Timely
<1>8. TurnsSoFar'
  BY <1>2, <1>3 DEF TurnInv, TurnsSoFar
<1> QED
  BY <1>5, <1>6, <1>7, <1>8 DEF TurnInv

\* Creating, deleting and running a schedule by hand.
LEMMA OwnerStep ==
    ASSUME TurnInv, TypeOK', NEW s \in Schedule,
           \/ \E state \in Live, cron \in Cron : CreateSchedule(s, state, cron)
           \/ DeleteSchedule(s)
           \/ RunNow(s)
    PROVE  TurnInv'
<1> USE DEF TurnInv
<1>0. /\ \A o \in Occurrences : o[1] \in Schedule
      /\ \A x \in executions : x.occ \in Occurrences /\ x.occ[1] \in Schedule
  BY DEF TypeOK, Execution, Occurrences
<1>1. ASSUME NEW state \in Live, NEW cron \in Cron, CreateSchedule(s, state, cron)
      PROVE  TurnInv'
  <2>1. \A t \in Schedule : schedules'[t].state = IF t = s THEN state ELSE schedules[t].state
    BY <1>1 DEF CreateSchedule, TypeOK
  <2>2. schedules[s].state = "absent" /\ UNCHANGED <<now, runs, executions, turns>>
    BY <1>1 DEF CreateSchedule
  <2>3. RowsHaveSchedule'
    BY <1>0, <2>1, <2>2 DEF RowsHaveSchedule, Exists, Live
  <2>4. OneExecution'
    BY <1>0, <2>1, <2>2 DEF OneExecution, Live
  <2>5. ExecutionsAreTimely'
    BY <1>0, <2>1, <2>2 DEF ExecutionsAreTimely, Timely, OneExecution, Exists, Live
  <2>6. TurnsSoFar'
    BY <1>0, <2>1, <2>2 DEF TurnsSoFar, Live
  <2> QED
    BY <2>3, <2>4, <2>5, <2>6
<1>2. ASSUME DeleteSchedule(s)
      PROVE  TurnInv'
  <2>1. \A t \in Schedule : schedules'[t].state = IF t = s THEN "deleted" ELSE schedules[t].state
    BY <1>2 DEF DeleteSchedule, TypeOK, Unscheduled
  <2>2. \A o \in Occurrences : runs'[o] = IF o[1] = s THEN NoRun ELSE runs[o]
    BY <1>2 DEF DeleteSchedule
  <2>3. UNCHANGED <<now, executions, turns>>
    BY <1>2 DEF DeleteSchedule
  <2>4. RowsHaveSchedule'
    BY <1>0, <2>1, <2>2 DEF RowsHaveSchedule, Exists, Live
  <2>5. OneExecution'
    BY <1>0, <2>1, <2>3 DEF OneExecution
  <2>6. ExecutionsAreTimely'
    BY <1>0, <2>1, <2>2, <2>3 DEF ExecutionsAreTimely, Timely, Exists, Live
  <2>7. TurnsSoFar'
    BY <1>0, <2>1, <2>2, <2>3 DEF TurnsSoFar
  <2> QED
    BY <2>4, <2>5, <2>6, <2>7
<1>3. ASSUME RunNow(s)
      PROVE  TurnInv'
  <2>1. \A o \in Occurrences : runs'[o] = IF o = <<s, now>> THEN QueuedRun ELSE runs[o]
    BY <1>3 DEF RunNow, TypeOK
  <2>2. Exists(s) /\ runs[<<s, now>>].state = "none" /\ QueuedRun.state = "claimed"
    BY <1>3 DEF RunNow, QueuedRun, NoRun
  <2>3. UNCHANGED <<now, schedules, executions, turns>>
    BY <1>3 DEF RunNow
  <2>4. RowsHaveSchedule'
    BY <2>1, <2>2, <2>3 DEF RowsHaveSchedule, Exists
  <2>5. OneExecution'
    BY <2>3 DEF OneExecution
  <2>6. \A x \in executions : Exists(x.occ[1]) => x.occ # <<s, now>>
    BY <2>2 DEF ExecutionsAreTimely, Timely
  <2>7. ExecutionsAreTimely'
    BY <1>0, <2>1, <2>3, <2>6 DEF ExecutionsAreTimely, Timely, Exists
  <2>8. TurnsSoFar'
    BY <1>0, <2>1, <2>2, <2>3 DEF TurnsSoFar
  <2> QED
    BY <2>4, <2>5, <2>7, <2>8
<1> QED
  BY <1>1, <1>2, <1>3

\* A poll keeps the rows of executions and starts no turn.
LEMMA PollStep ==
    ASSUME TurnInv, TypeOK', NEW due, NEW claim, Poll(due, claim)
    PROVE  TurnInv'
<1> USE DEF TurnInv
<1>0. /\ \A o \in Occurrences : o[1] \in Schedule
      /\ \A x \in executions : x.occ \in Occurrences /\ x.occ[1] \in Schedule
  BY DEF TypeOK, Execution, Occurrences
<1>1. UNCHANGED <<now, executions, turns>>
  BY DEF Poll
<1>2. \A s \in Schedule : schedules'[s].state = schedules[s].state /\ (Exists(s)' <=> Exists(s))
  BY PollSchedules DEF Exists
<1>3. \A o \in Occurrences :
        /\ runs[o].state \in Terminal => runs'[o] = runs[o]
        /\ runs[o].state = "running" => runs'[o] = IF Overdue(runs[o]) THEN Ended(runs[o], "failed")
                                                                      ELSE runs[o]
        /\ runs[o].state = "claimed" => runs'[o].state = "claimed"
        /\ runs[o].state = "none" => \/ runs'[o] = runs[o]
                                     \/ Exists(o[1]) /\ runs'[o].state \in {"claimed", "skipped"}
  BY PollRows
<1>4. \A r : Ended(r, "failed").state = "failed"
  BY DEF Ended, NoRun
<1>5. RowsHaveSchedule'
  <2>1. NoRun.state = "none"
    BY DEF NoRun
  <2> QED
    BY <1>0, <1>2, <1>3, <2>1 DEF RowsHaveSchedule
<1>6. OneExecution'
  BY <1>0, <1>1, <1>2 DEF OneExecution
<1>7. ExecutionsAreTimely'
  <2> SUFFICES ASSUME NEW x \in executions, Exists(x.occ[1])
               PROVE  Timely(x)'
    BY <1>0, <1>1, <1>2 DEF ExecutionsAreTimely, Timely
  <2>1. runs[x.occ].state \in {"running", "failed"}
    BY DEF ExecutionsAreTimely, Timely
  <2>2. runs'[x.occ].state \in {"running", "failed"}
    BY <1>0, <1>3, <1>4, <2>1 DEF Terminal
  <2>3. x.phase \in {"access", "turn"} => runs'[x.occ] = runs[x.occ]
    BY <1>0, <1>3, LiveNotOverdue DEF ExecutionsAreTimely, Timely
  <2> QED
    BY <1>1, <2>2, <2>3 DEF ExecutionsAreTimely, Timely
<1>8. TurnsSoFar'
  <2>1. ASSUME NEW o \in Occurrences, runs'[o].state \in {"none", "claimed"}
        PROVE  runs[o].state \in {"none", "claimed"}
    <3>1. runs[o].state \in RunStates
      BY DEF TypeOK, Run
    <3> QED
      BY <1>3, <1>4, <2>1, <3>1 DEF RunStates, ActiveStates, Terminal
  <2> QED
    BY <1>0, <1>1, <1>2, <2>1 DEF TurnsSoFar
<1> QED
  BY <1>5, <1>6, <1>7, <1>8

\* Control begins to execute a run only when nothing executes it.
LEMMA BeginStep ==
    ASSUME TurnInv, TypeOK', NEW d \in dispatches, Begin(d)
    PROVE  TurnInv'
<1> USE DEF TurnInv
<1>0. /\ \A o \in Occurrences : o[1] \in Schedule
      /\ \A x \in executions : x.occ \in Occurrences /\ x.occ[1] \in Schedule
      /\ d.occ \in Occurrences /\ now \in Nat
  BY ScheduleConstants DEF TypeOK, Execution, Occurrences, Times
<1>1. CASE ~LeaseValid(runs[d.occ], d.token)
  BY <1>1, IdleStep DEF Begin
<1>2. CASE LeaseValid(runs[d.occ], d.token)
  <2> DEFINE new == [occ |-> d.occ, token |-> d.token, phase |-> "access",
                     since |-> now, deferred |-> runs[d.occ].deferred]
  <2>1. executions' = executions \cup {new} /\ UNCHANGED <<now, schedules, turns>>
    BY <1>2 DEF Begin
  <2>2. runs[d.occ].state = "claimed" /\ runs[d.occ] \in Run
    BY <1>0, <1>2 DEF LeaseValid, TypeOK
  <2>3. \A o \in Occurrences : o # d.occ => runs'[o] = runs[o]
    BY <1>2 DEF Begin, TypeOK
  <2>4. runs'[d.occ].state = "running" /\ runs'[d.occ].started = now
    BY <1>0, <1>2, <2>2 DEF Begin, TypeOK, Run
  <2>5. Exists(d.occ[1])
    <3>1. NoRun.state = "none"
      BY DEF NoRun
    <3> QED
      BY <1>0, <2>2, <3>1 DEF RowsHaveSchedule
  <2>6. \A x \in executions : x.occ # d.occ
    BY <2>2, <2>5 DEF ExecutionsAreTimely, Timely
  <2>7. turns[d.occ] = 0
    BY <1>0, <2>2, <2>5 DEF TurnsSoFar, Exists, Live
  <2>8. RowsHaveSchedule'
    BY <1>0, <2>1, <2>3, <2>5 DEF RowsHaveSchedule, Exists
  <2>9. OneExecution'
    BY <2>1, <2>5, <2>6 DEF OneExecution, Exists, Live
  <2>10. ExecutionsAreTimely'
    <3>1. ASSUME NEW x \in executions, Exists(x.occ[1]) PROVE Timely(x)'
      BY <1>0, <2>1, <2>3, <2>6, <3>1 DEF ExecutionsAreTimely, Timely
    <3>2. now <= now + AccessBound
      BY <1>0, ScheduleConstants
    <3>3. Timely(new)'
      BY <2>1, <2>4, <3>2 DEF Timely
    <3> QED
      BY <2>1, <3>1, <3>3 DEF ExecutionsAreTimely, Timely, Exists
  <2>11. TurnsSoFar'
    BY <1>0, <2>1, <2>3, <2>4, <2>7 DEF TurnsSoFar
  <2> QED
    BY <2>8, <2>9, <2>10, <2>11
<1> QED
  BY <1>1, <1>2

\* An execution that moves to another phase, or starts its turn.
LEMMA MoveStep ==
    ASSUME TurnInv, TypeOK', NEW x \in executions, Execute(x), ~Settle(x)
    PROVE  TurnInv'
<1> USE DEF TurnInv
<1>0. /\ \A o \in Occurrences : o[1] \in Schedule
      /\ \A y \in executions : y \in Execution /\ y.occ \in Occurrences /\ y.occ[1] \in Schedule
      /\ now \in Nat
  BY ScheduleConstants DEF TypeOK, Execution, Occurrences, Times
<1>1. UNCHANGED <<now, schedules, runs>>
  BY DEF Execute, RefuseAccess, StartTurn, EndTurn, SettleError
<1>2. RowsHaveSchedule'
  BY <1>1 DEF RowsHaveSchedule, Exists
<1>3. CASE executions' = executions \ {x} /\ UNCHANGED turns
  <2>1. OneExecution' /\ ExecutionsAreTimely'
    BY <1>1, <1>3 DEF OneExecution, ExecutionsAreTimely, Timely, Exists
  <2>2. TurnsSoFar'
    BY <1>1, <1>3 DEF TurnsSoFar
  <2> QED
    BY <1>2, <2>1, <2>2
<1>4. ASSUME NEW phase \in {"turn", "transition"} \cup Terminal, Move(x, phase)
      PROVE  /\ OneExecution'
             /\ \E new : /\ executions' = (executions \ {x}) \cup {new}
                         /\ new.occ = x.occ /\ new.phase = phase
                         /\ phase = "turn" => new.since = now
  <2> DEFINE new == [x EXCEPT !.phase = phase, !.since = IF phase = "turn" THEN now ELSE 0]
  <2>1. new.occ = x.occ /\ new.phase = phase /\ (phase = "turn" => new.since = now)
    BY <1>0 DEF Execution
  <2>2. executions' = (executions \ {x}) \cup {new}
    BY <1>4 DEF Move
  <2>3. \A y \in executions \ {x} : y.occ # x.occ
    BY DEF OneExecution
  <2>4. OneExecution'
    BY <1>0, <1>1, <2>1, <2>2, <2>3 DEF OneExecution
  <2> QED
    BY <2>1, <2>2, <2>4
<1>5. ASSUME NEW phase \in {"transition"} \cup Terminal, Move(x, phase), UNCHANGED turns,
             phase = "transition" => x.phase = "access"
      PROVE  TurnInv'
  <2>1. PICK new : /\ executions' = (executions \ {x}) \cup {new}
                   /\ new.occ = x.occ /\ new.phase = phase
    BY <1>4, <1>5
  <2>2. ExecutionsAreTimely'
    BY <1>1, <1>5, <2>1 DEF ExecutionsAreTimely, Timely, Exists, Terminal
  <2>3. TurnsSoFar'
    BY <1>1, <1>5, <2>1 DEF TurnsSoFar, Terminal
  <2> QED
    BY <1>2, <1>4, <1>5, <2>2, <2>3
<1>6. ASSUME NEW outcome \in {"transition", "skipped", "failed"}, RefuseAccess(x, outcome)
      PROVE  TurnInv'
  BY <1>5, <1>6 DEF RefuseAccess, Terminal
<1>7. CASE StartTurn(x)
  <2>1. PICK new : /\ executions' = (executions \ {x}) \cup {new}
                   /\ new.occ = x.occ /\ new.phase = "turn" /\ new.since = now
    BY <1>4, <1>7 DEF StartTurn
  <2>2. \A o \in Occurrences : turns'[o] = IF o = x.occ THEN turns[o] + 1 ELSE turns[o]
    BY <1>0, <1>7 DEF StartTurn, TypeOK
  <2>3. x.phase = "access" /\ turns[x.occ] = 0
    BY <1>7 DEF StartTurn, TurnsSoFar
  <2>4. \A y \in executions \ {x} : y.occ # x.occ
    BY DEF OneExecution
  <2>5. ExecutionsAreTimely'
    <3>1. ASSUME Exists(x.occ[1]) PROVE Timely(new)'
      <4>1. now <= now + TurnTimeout
        BY <1>0, ScheduleConstants
      <4> QED
        BY <1>1, <2>1, <2>3, <3>1, <4>1 DEF ExecutionsAreTimely, Timely
    <3>2. ASSUME NEW y \in executions \ {x}, Exists(y.occ[1]) PROVE Timely(y)'
      BY <1>1, <3>2 DEF ExecutionsAreTimely, Timely
    <3> QED
      BY <1>1, <2>1, <3>1, <3>2 DEF ExecutionsAreTimely, Exists
  <2>6. schedules[x.occ[1]].state = "deleted" \/ runs[x.occ].state = "running"
    BY <1>0, <2>3 DEF ExecutionsAreTimely, Timely, OneExecution, Exists, TypeOK, ScheduleRow, Unscheduled
  <2>7. TurnsSoFar'
    BY <1>0, <1>1, <2>1, <2>2, <2>3, <2>4, <2>6 DEF TurnsSoFar
  <2> QED
    BY <1>2, <1>4, <1>7, <2>5, <2>7 DEF StartTurn
<1>8. ASSUME NEW outcome \in {"succeeded", "failed"}, EndTurn(x, outcome)
      PROVE  TurnInv'
  BY <1>5, <1>8 DEF EndTurn, Terminal
<1>9. CASE SettleError(x)
  BY <1>3, <1>5, <1>9 DEF SettleError, Terminal
<1> QED
  BY <1>6, <1>7, <1>8, <1>9 DEF Execute

\* An execution that writes its result ends, and sends back no run with a turn.
LEMMA SettleStep ==
    ASSUME TurnInv, TypeOK', NEW x \in executions, Settle(x)
    PROVE  TurnInv'
<1> USE DEF TurnInv
<1>0. /\ \A o \in Occurrences : o[1] \in Schedule
      /\ \A y \in executions : y \in Execution /\ y.occ \in Occurrences /\ y.occ[1] \in Schedule
  BY DEF TypeOK, Execution, Occurrences
<1>1. UNCHANGED <<now, schedules, turns>> /\ executions' = executions \ {x}
  BY DEF Settle
<1>2. \A o \in Occurrences : runs'[o] = IF o = x.occ THEN RunAfter(runs[o], x) ELSE runs[o]
  BY <1>0 DEF Settle, TypeOK
<1>3. x.phase \in {"transition"} \cup Terminal
  BY <1>0 DEF Settle, Execution
<1>4. runs[x.occ] \in Run
  BY <1>0 DEF TypeOK
<1>5. /\ runs[x.occ].state # "running" => RunAfter(runs[x.occ], x) = runs[x.occ]
      /\ RunAfter(runs[x.occ], x).state = "none" => runs[x.occ].state = "none"
      /\ RunAfter(runs[x.occ], x).state = "claimed" => runs[x.occ].state = "claimed" \/ x.phase = "transition"
  BY <1>3, <1>4 DEF RunAfter, Ended, Deferred, NoRun, Run, Terminal
<1>6. \A y \in executions \ {x} : y.occ # x.occ
  BY DEF OneExecution
<1>7. RowsHaveSchedule'
  <2>1. NoRun.state # "running"
    BY DEF NoRun
  <2> QED
    BY <1>0, <1>1, <1>2, <1>5, <2>1 DEF RowsHaveSchedule, Exists
<1>8. OneExecution'
  BY <1>1 DEF OneExecution
<1>9. ExecutionsAreTimely'
  BY <1>0, <1>1, <1>2, <1>6 DEF ExecutionsAreTimely, Timely, Exists
<1>10. TurnsSoFar'
  BY <1>0, <1>1, <1>2, <1>5 DEF TurnsSoFar
<1> QED
  BY <1>7, <1>8, <1>9, <1>10

\* Time does not run past the timeouts.
LEMMA TickStep ==
    ASSUME TurnInv, TypeOK', Tick
    PROVE  TurnInv'
<1> USE DEF TurnInv
<1>1. UNCHANGED <<schedules, runs, executions, turns>> /\ now' = now + 1 /\ now \in Nat
  BY ScheduleConstants DEF Tick, TypeOK, Times
<1>2. ASSUME NEW x \in executions, Exists(x.occ[1]) PROVE Timely(x)'
  <2>1. /\ x.phase = "access" => now < x.since + AccessBound
        /\ x.phase = "turn" => now < x.since + TurnTimeout
    BY DEF Tick
  <2>2. x.since \in Nat /\ AccessBound \in Nat /\ TurnTimeout \in Nat
    BY ScheduleConstants DEF TypeOK, Execution, Times
  <2> QED
    BY <1>1, <1>2, <2>1, <2>2 DEF ExecutionsAreTimely, Timely
<1> QED
  BY <1>1, <1>2 DEF RowsHaveSchedule, OneExecution, ExecutionsAreTimely, TurnsSoFar, Exists

\* The invariant is inductive.
LEMMA TurnInvStep == TurnInv /\ [Next]_vars => TurnInv'
<1> SUFFICES ASSUME TurnInv, [Next]_vars PROVE TurnInv'
  OBVIOUS
<1>0. TypeOK'
  BY TypeStep DEF TurnInv
<1>1. ASSUME NEW e \in Editor, NEW s \in Schedule, ReadForUpdate(e, s)
      PROVE  TurnInv'
  BY <1>0, <1>1, IdleStep DEF ReadForUpdate
<1>2. ASSUME NEW e \in Editor, NEW patch \in Patches, WriteUpdate(e, patch)
      PROVE  TurnInv'
  <2> DEFINE s == edits[e].schedule
  <2>1. Patched(schedules[s].state, patch.state, "kept") \in Live \cup {schedules[s].state}
    BY DEF Patched, Patches
  <2>2. ASSUME NEW t \in Schedule, schedules'[t].state # schedules[t].state
        PROVE  {schedules[t].state, schedules'[t].state} \subseteq Live
    BY <1>2, <2>1, <2>2 DEF WriteUpdate, Exists, TurnInv, TypeOK
  <2> QED
    BY <1>0, <1>2, <2>2, EditStep DEF WriteUpdate
<1>3. ASSUME NEW due, NEW claim, Poll(due, claim)
      PROVE  TurnInv'
  BY <1>0, <1>3, PollStep
<1>4. ASSUME NEW d \in dispatches, LoseDispatch(d)
      PROVE  TurnInv'
  BY <1>0, <1>4, IdleStep DEF LoseDispatch
<1>5. ASSUME NEW x \in executions, Execute(x)
      PROVE  TurnInv'
  BY <1>0, <1>5, MoveStep, SettleStep
<1>6. CASE ControlCrash
  BY <1>0, <1>6 DEF ControlCrash, TurnInv, RowsHaveSchedule, OneExecution, ExecutionsAreTimely, TurnsSoFar, Exists
<1>7. CASE SetSuspended \/ UNCHANGED vars
  BY <1>0, <1>7, IdleStep DEF SetSuspended, vars
<1>8. CASE Tick
  BY <1>0, <1>8, TickStep
<1> QED
  BY <1>0, <1>1, <1>2, <1>3, <1>4, <1>5, <1>6, <1>7, <1>8, OwnerStep, BeginStep DEF Next, SomePoll

\* An occurrence starts at most one agent turn.
THEOREM OneTurn == Spec => []OneTurnPerOccurrence
<1>1. TurnInv => OneTurnPerOccurrence
  BY DEF TurnInv, TurnsSoFar, OneTurnPerOccurrence
<1> QED
  BY <1>1, TurnInvInit, TurnInvStep, PTL DEF Spec

\* The reaper never gives up a turn that Control still drives.
THEOREM LiveTurnsOwnTheirRun == Spec => []TurnOwnsRun
<1>1. TurnInv => TurnOwnsRun
  BY DEF TurnInv, ExecutionsAreTimely, Timely, TurnOwnsRun
<1> QED
  BY <1>1, TurnInvInit, TurnInvStep, PTL DEF Spec
=============================================================================
