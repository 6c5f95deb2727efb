---------------------- MODULE GovernedOperationsProofs ----------------------
(***************************************************************************)
(* Theorems about GovernedOperations, for every set of operations,         *)
(* requests, approvers and handlers, and every choice of the times.        *)
(***************************************************************************)
EXTENDS GovernedOperations, TLAPS

\* A row keeps its type when recoverOperation looks at it.
LEMMA RecoveredType ==
    ASSUME NEW o, ops[o] \in OperationRow
    PROVE  Recovered(o) \in OperationRow
  BY DEF Recovered, OperationRow, Open, Terminal

\* So does one that is opened, or gives up its key, and one that is decided.
LEMMA OpenedType ==
    ASSUME NEW row \in OperationRow, NEW r \in Request, NEW time \in Int
    PROVE  /\ [row EXCEPT !.state = "approval_required", !.request = r, !.key = r,
                           !.expiresAt = time] \in OperationRow
           /\ [row EXCEPT !.key = None] \in OperationRow
<1>1. "approval_required" \in Open
  BY DEF Open
<1>2. [row EXCEPT !.state = "approval_required", !.request = r, !.key = r,
                  !.expiresAt = time] \in OperationRow
  BY <1>1 DEF OperationRow
<1>3. [row EXCEPT !.key = None] \in OperationRow
  BY DEF OperationRow
<1> QED
  BY <1>2, <1>3

LEMMA DecidedType ==
    ASSUME NEW row \in OperationRow, NEW state \in Open \cup Terminal,
           NEW d \in Decisions \cup {"none"}, NEW a \in Approver
    PROVE  [row EXCEPT !.state = state, !.decision = d, !.decidedBy = a] \in OperationRow
  BY DEF OperationRow

\* The clock, and the times written to rows, are numbers.
LEMMA TimesAreNumbers ==
    ASSUME TypeOK
    PROVE  /\ now \in Nat /\ now + TTL \in Int
           /\ \A o \in Operation : LeaseOf(o) \in Int
  BY OperationConstants DEF TypeOK, Times, LeaseOf

\* Every variable keeps its type.
LEMMA TypeStep == TypeOK /\ [Next]_vars => TypeOK'
<1> SUFFICES ASSUME TypeOK, [Next]_vars PROVE TypeOK'
  OBVIOUS
<1> USE DEF rows, environment, gateway
<1>o. ops \in [Operation -> OperationRow]
  BY DEF TypeOK
<1>t. tasks \in [Operation -> [Approver -> TaskState]]
  BY DEF TypeOK
<1>h. handlers \in [Handler -> HandlerState]
  BY DEF TypeOK
<1>c. calls \in [Handler -> CallState]
  BY DEF TypeOK
<1>a. asks \in [Handler -> [Attempt -> AskState]]
  BY DEF TypeOK
<1>1. ASSUME NEW r \in Request, AskPolicy(r)
      PROVE  TypeOK'
  BY <1>1 DEF AskPolicy, TypeOK
<1>2. ASSUME NEW r \in Request, NEW o \in Operation, CreateOperation(r, o)
      PROVE  TypeOK'
  <2>1. now + TTL \in Int
    BY TimesAreNumbers
  <2>2. ASSUME NEW p \in Operation
        PROVE  /\ [ops[p] EXCEPT !.state = "approval_required", !.request = r,
                                 !.key = r, !.expiresAt = now + TTL] \in OperationRow
               /\ [ops[p] EXCEPT !.key = None] \in OperationRow
    <3>1. ops[p] \in OperationRow
      BY <1>o
    <3> QED
      BY <2>1, <3>1, OpenedType
  <2>3. ops' \in [Operation -> OperationRow]
    BY <1>2, <1>o, <2>2 DEF CreateOperation
  <2> QED
    BY <1>2, <2>3 DEF CreateOperation, TypeOK
<1>3. ASSUME NEW a \in Approver, NEW o \in Operation, EnsureTask(o, a) \/ Deliver(a, o)
      PROVE  TypeOK'
  <2>1. tasks' \in [Operation -> [Approver -> TaskState]]
    BY <1>3, <1>t DEF EnsureTask, Deliver, TaskState, Live
  <2> QED
    BY <1>3, <2>1 DEF EnsureTask, Deliver, TypeOK
<1>4. ASSUME NEW a \in Approver, RevokeApprover(a)
      PROVE  TypeOK'
  BY <1>4 DEF RevokeApprover, TypeOK
<1>5. ASSUME NEW h \in Handler, NEW o \in Operation, NEW a \in Approver, NEW d \in Decisions,
             Submit(h, o, a, d)
      PROVE  TypeOK'
  <2>1. handlers' \in [Handler -> HandlerState]
    BY <1>5, <1>h DEF Submit, AfterDecision, HandlerState
  <2> QED
    BY <1>5, <2>1 DEF Submit, TypeOK
<1>6. ASSUME NEW h \in Handler, NEW o \in Operation, NEW d \in Decisions, ReadFixture(h, o, d)
      PROVE  TypeOK'
  <2>1. now \in Int
    BY TimesAreNumbers
  <2>2. handlers' \in [Handler -> HandlerState]
    BY <1>6, <1>h, <2>1 DEF ReadFixture, HandlerState
  <2>3. Recovered(o) \in OperationRow
    BY RecoveredType, <1>o
  <2>4. ops' \in [Operation -> OperationRow]
    BY <1>6, <1>o, <2>3 DEF ReadFixture
  <2> QED
    BY <1>6, <2>2, <2>4 DEF ReadFixture, TypeOK
<1>7. ASSUME NEW h \in Handler, Record(h)
      PROVE  TypeOK'
  <2>1. handlers[h] \in HandlerState
    BY DEF TypeOK
  <2>2. handlers' \in [Handler -> HandlerState]
    BY <1>7, <1>h DEF Record, AfterDecision, HandlerState
  <2>3. ops' \in [Operation -> OperationRow] /\ tasks' \in [Operation -> [Approver -> TaskState]]
    <3>1. CASE UNCHANGED <<ops, tasks>>
      BY <3>1 DEF TypeOK
    <3>2. CASE /\ Recordable(h)
               /\ ops' = [ops EXCEPT ![Claimant(h)].state = Verdict(handlers[h].decision),
                                     ![Claimant(h)].decision = handlers[h].decision,
                                     ![Claimant(h)].decidedBy = handlers[h].by]
               /\ tasks' = [tasks EXCEPT ![Claimant(h)] =
                              Settled(Claimant(h), handlers[h].by, handlers[h].decision)]
      <4>1. handlers[h].by \in Approver /\ handlers[h].decision \in Decisions \cup {"none"}
        BY <2>1, <3>2 DEF Recordable, TypeOK, HandlerState
      <4>2. ops' \in [Operation -> OperationRow]
        <5>1. ASSUME NEW row \in OperationRow
              PROVE  [row EXCEPT !.state = Verdict(handlers[h].decision),
                                 !.decision = handlers[h].decision,
                                 !.decidedBy = handlers[h].by] \in OperationRow
          <6>1. Verdict(handlers[h].decision) \in Open \cup Terminal
            BY DEF Verdict, Open, Terminal
          <6> QED
            BY <4>1, <6>1, DecidedType
        <5> QED
          BY <3>2, <5>1, <1>o
      <4>3. ASSUME NEW o \in Operation
            PROVE  Settled(o, handlers[h].by, handlers[h].decision) \in [Approver -> TaskState]
        BY DEF Settled, Verdict, TypeOK, TaskState, Decided
      <4>4. tasks' \in [Operation -> [Approver -> TaskState]]
        BY <3>2, <4>3 DEF TypeOK
      <4> QED
        BY <4>2, <4>4
    <3> QED
      BY <1>7, <3>1, <3>2 DEF Record
  <2> QED
    BY <1>7, <2>2, <2>3 DEF Record, TypeOK
<1>8. ASSUME NEW h \in Handler, RecordFixture(h)
      PROVE  TypeOK'
  <2>1. handlers[h] \in HandlerState
    BY DEF TypeOK
  <2>2. handlers' \in [Handler -> HandlerState]
    BY <1>8, <1>h DEF RecordFixture, HandlerState
  <2>3. ops' \in [Operation -> OperationRow]
    BY <1>8, <2>1, <1>o DEF RecordFixture, HandlerState, OperationRow, Verdict, Open, Terminal
  <2> QED
    BY <1>8, <2>2, <2>3 DEF RecordFixture, TypeOK
<1>9. ASSUME NEW h \in Handler, NEW o \in Operation, BeginUpload(h, o)
      PROVE  TypeOK'
  <2>1. Recovered(o) \in OperationRow
    BY RecoveredType DEF TypeOK
  <2>2. ops' \in [Operation -> OperationRow]
    BY <1>9, <2>1 DEF BeginUpload, TypeOK
  <2>3. handlers' \in [Handler -> HandlerState]
    BY <1>9, <1>h DEF BeginUpload, HandlerState
  <2> QED
    BY <1>9, <2>2, <2>3 DEF BeginUpload, TypeOK
<1>10. ASSUME NEW h \in Handler, Claim(h)
       PROVE  TypeOK'
  <2>1. handlers' \in [Handler -> HandlerState]
    BY <1>10, <1>h DEF Claim, HandlerState
  <2>2. ops' \in [Operation -> OperationRow]
    BY <1>10, TimesAreNumbers, <1>o DEF Claim, OperationRow, Open
  <2> QED
    BY <1>10, <2>1, <2>2 DEF Claim, TypeOK
<1>11. ASSUME NEW h \in Handler, Start(h) \/ Answered(h)
       PROVE  TypeOK'
  <2>1. workspace.generation \in Int
    BY OperationConstants DEF TypeOK
  <2>2. handlers' \in [Handler -> HandlerState]
    BY <1>11, <2>1, <1>h DEF Start, Answered, HandlerState
  <2>3. calls' \in [Handler -> CallState]
    BY <1>11, <1>c DEF Start, Answered, CallState
  <2> QED
    BY <1>11, <2>2, <2>3 DEF Start, Answered, TypeOK
<1>12. ASSUME NEW h \in Handler, UploadEnds(h)
       PROVE  TypeOK'
  <2>1. Claimant(h) \in Operation => Recovered(Claimant(h)) \in OperationRow
    BY RecoveredType DEF TypeOK
  <2>2. ops' \in [Operation -> OperationRow]
    BY <1>12, <2>1 DEF UploadEnds, TypeOK
  <2>3. handlers' \in [Handler -> HandlerState]
    BY <1>12, <1>h DEF UploadEnds, HandlerState
  <2> QED
    BY <1>12, <2>2, <2>3 DEF UploadEnds, TypeOK
<1>13. ASSUME NEW h \in Handler, Complete(h) \/ Fail(h)
       PROVE  TypeOK'
  <2>1. ops' \in [Operation -> OperationRow]
    BY <1>13, <1>o DEF Complete, Fail, OperationRow, Terminal
  <2>2. handlers' \in [Handler -> HandlerState]
    BY <1>13, <1>h DEF Complete, Fail, HandlerState
  <2> QED
    BY <1>13, <2>1, <2>2 DEF Complete, Fail, TypeOK
<1>14. ASSUME NEW h \in Handler, CheckAccess(h) \/ AskControl(h) \/ ReadAnswer(h)
       PROVE  TypeOK'
  <2>1. calls' \in [Handler -> CallState]
    BY <1>14, <1>c DEF CheckAccess, AskControl, ReadAnswer, CallState
  <2>2. asks' \in [Handler -> [Attempt -> AskState]]
    BY <1>14, <1>a DEF CheckAccess, AskControl, ReadAnswer, AskState
  <2> QED
    BY <1>14, <2>1, <2>2 DEF CheckAccess, AskControl, ReadAnswer, TypeOK
<1>15. ASSUME NEW h \in Handler, Forward(h)
       PROVE  TypeOK'
  <2>1. calls' \in [Handler -> CallState]
    BY <1>15, <1>c DEF Forward, CallState
  <2>2. effects' \in [Operation -> Nat]
    <3>1. effects \in [Operation -> Nat] /\ effects' = [effects EXCEPT ![Claimant(h)] = @ + 1]
      BY <1>15 DEF Forward, TypeOK
    <3>2. \A o \in Operation : effects[o] + 1 \in Nat
      BY <3>1
    <3> QED
      BY <3>1, <3>2
  <2> QED
    BY <1>15, <2>1, <2>2 DEF Forward, TypeOK
<1>16. ASSUME NEW h \in Handler, NEW k \in Attempt, Authorize(h, k) \/ ClaimDispatch(h, k)
       PROVE  TypeOK'
  <2>1. asks' \in [Handler -> [Attempt -> AskState]]
    <3>1. PICK answer \in {"read", "deny", "allow"} : asks' = [asks EXCEPT ![h][k] = answer]
      BY <1>16 DEF Authorize, ClaimDispatch
    <3> QED
      BY <3>1, <1>a DEF AskState
  <2>2. CASE ops' = ops
    BY <1>16, <2>1, <2>2 DEF Authorize, ClaimDispatch, TypeOK
  <2>3. CASE ops' = [ops EXCEPT ![Claimant(h)].dispatched = TRUE]
    <3>1. ops' \in [Operation -> OperationRow]
      BY <2>3, <1>o DEF OperationRow
    <3> QED
      BY <1>16, <2>1, <3>1 DEF Authorize, ClaimDispatch, TypeOK
  <2> QED
    BY <1>16, <2>2, <2>3 DEF Authorize, ClaimDispatch
<1>17. ASSUME NEW o \in Operation, Recover(o)
       PROVE  TypeOK'
  <2>1. Recovered(o) \in OperationRow
    BY RecoveredType DEF TypeOK
  <2> QED
    BY <1>17, <2>1 DEF Recover, TypeOK
<1>18. CASE Crash
  <2>1. handlers' \in [Handler -> HandlerState]
    BY <1>18, <1>h DEF Crash, HandlerState
  <2>2. asks' \in [Handler -> [Attempt -> AskState]]
    BY <1>18, <1>a DEF Crash, AskState
  <2> QED
    BY <1>18, <2>1, <2>2 DEF Crash, TypeOK
<1>19. CASE CancelPending
  <2>1. ops' \in [Operation -> OperationRow]
    <3>1. ASSUME NEW row \in OperationRow PROVE [row EXCEPT !.state = "failed"] \in OperationRow
      <4>1. "failed" \in Terminal
        BY DEF Terminal
      <4> QED
        BY <4>1 DEF OperationRow
    <3> QED
      BY <1>19, <1>o, <3>1 DEF CancelPending
  <2>2. tasks' \in [Operation -> [Approver -> TaskState]]
    BY <1>19, <1>t DEF CancelPending, TaskState
  <2> QED
    BY <1>19, <2>1, <2>2 DEF CancelPending, TypeOK
<1>20. CASE StopWorkspace \/ StartWorkspace
  <2>1. MaxGeneration \in Nat
    BY OperationConstants
  <2>2. workspace' \in [ready : BOOLEAN, generation : 0 .. MaxGeneration]
    <3>1. workspace \in [ready : BOOLEAN, generation : 0 .. MaxGeneration]
      BY DEF TypeOK
    <3>2. CASE StopWorkspace
      BY <3>1, <3>2, <2>1 DEF StopWorkspace
    <3>3. CASE StartWorkspace
      BY <3>1, <3>3 DEF StartWorkspace
    <3> QED
      BY <1>20, <3>2, <3>3
  <2> QED
    BY <1>20, <2>2 DEF StopWorkspace, StartWorkspace, TypeOK
<1>21. CASE RevokeMember
  BY <1>21 DEF RevokeMember, TypeOK
<1>22. CASE Tick
  BY <1>22, OperationConstants DEF Tick, TypeOK, Times
<1>23. CASE UNCHANGED vars
  BY <1>23 DEF vars, TypeOK
<1> QED
  BY <1>1, <1>2, <1>3, <1>4, <1>5, <1>6, <1>7, <1>8, <1>9, <1>10, <1>11, <1>12, <1>13, <1>14,
     <1>15, <1>16, <1>17, <1>18, <1>19, <1>20, <1>21, <1>22, <1>23
     DEF Next, SomeRequest, SomeConsent, SomeDecision, SomeExecution, SomeCall

\* The initial state is typed.
LEMMA TypeInit == Init => TypeOK
<1> SUFFICES ASSUME Init PROVE TypeOK
  OBVIOUS
<1>1. ops \in [Operation -> OperationRow]
  BY DEF Init, OperationRow
<1>2. handlers \in [Handler -> HandlerState]
  BY DEF Init, HandlerState
<1>3. calls \in [Handler -> CallState] /\ asks \in [Handler -> [Attempt -> AskState]]
  BY DEF Init, CallState, AskState
<1>4. tasks \in [Operation -> [Approver -> TaskState]] /\ effects \in [Operation -> Nat]
  BY DEF Init, TaskState
<1>5. now \in Times /\ workspace \in [ready : BOOLEAN, generation : 0 .. MaxGeneration]
  BY OperationConstants DEF Init, Times
<1> QED
  BY <1>1, <1>2, <1>3, <1>4, <1>5 DEF Init, TypeOK

\* Every reachable state is typed.
THEOREM TypeCorrect == Spec => []TypeOK
  BY TypeInit, TypeStep, PTL DEF Spec
-----------------------------------------------------------------------------
(* What a step can do with a stored operation                              *)

\* The columns only some steps write.
Keeps(o, columns) == \A c \in columns : ops'[o][c] = ops[o][c]
Identity == {"request", "key"}

Decides(o) ==
    /\ ops[o].state = "approval_required"
    /\ \/ ops'[o].state = "approved" /\ ops'[o].decision = "approve"
       \/ ops'[o].state = "denied"
    /\ Keeps(o, Identity \cup {"lease", "dispatched"})

Closes(o) ==
    /\ \/ ops[o].state \in {"approval_required", "approved"} /\ ops'[o].state \in {"failed", "expired"}
       \/ ops[o].state = "executing" /\ ops'[o].state \in {"failed", "succeeded"}
    /\ Keeps(o, Identity \cup {"lease", "decision", "dispatched"})

Leases(o) ==
    /\ ops[o].state = "approved"
    /\ ops'[o].state = "executing"
    /\ ops'[o].lease \in Handler
    /\ Keeps(o, Identity \cup {"decision", "dispatched"})

Admits(o) ==
    /\ ops[o].state = "executing"
    /\ ops[o].leaseUntil > now
    /\ ops'[o].dispatched
    /\ Keeps(o, Identity \cup {"state", "lease", "decision"})

RowStep(o) == ops'[o] = ops[o] \/ Decides(o) \/ Closes(o) \/ Leases(o) \/ Admits(o)

\* recoverOperation closes an operation or leaves it alone.
LEMMA RecoveryCloses ==
    ASSUME ops \in [Operation -> OperationRow], NEW o \in Operation,
           ops' = [ops EXCEPT ![o] = Recovered(o)]
    PROVE  \A p \in Operation : RowStep(p)
  BY DEF Recovered, Pending, RowStep, Closes, Keeps, Identity, OperationRow

\* A step creates an operation, or every row makes one of the steps above.
LEMMA RowsMove ==
    ASSUME TypeOK, [Next]_vars
    PROVE  \/ \E r \in Request, o \in Operation : CreateOperation(r, o)
           \/ \A o \in Operation : RowStep(o)
<1> USE DEF rows, Keeps, Identity
<1>o. ops \in [Operation -> OperationRow]
  BY DEF TypeOK
<1>1. ASSUME NEW h \in Handler, Record(h)
      PROVE  \A o \in Operation : RowStep(o)
  BY <1>1, <1>o DEF Record, Recordable, MayConsent, Verdict, RowStep, Decides, OperationRow
<1>2. ASSUME NEW h \in Handler, RecordFixture(h)
      PROVE  \A o \in Operation : RowStep(o)
  BY <1>2, <1>o DEF RecordFixture, Verdict, RowStep, Decides, OperationRow
<1>3. ASSUME NEW o \in Operation,
             \/ \E h \in Handler, d \in Decisions : ReadFixture(h, o, d)
             \/ \E h \in Handler : BeginUpload(h, o)
             \/ Recover(o)
      PROVE  \A p \in Operation : RowStep(p)
  BY <1>3, <1>o, RecoveryCloses DEF ReadFixture, BeginUpload, Recover
<1>4. ASSUME NEW h \in Handler, UploadEnds(h)
      PROVE  \A o \in Operation : RowStep(o)
  <2>1. CASE Claimant(h) \in Operation
    BY <1>4, <1>o, <2>1, RecoveryCloses DEF UploadEnds
  <2>2. CASE Claimant(h) \notin Operation
    BY <1>4, <1>o, <2>2 DEF UploadEnds, RowStep
  <2> QED
    BY <2>1, <2>2
<1>5. ASSUME NEW h \in Handler, Claim(h)
      PROVE  \A o \in Operation : RowStep(o)
  BY <1>5, <1>o DEF Claim, Claimable, RowStep, Leases, OperationRow
<1>6. ASSUME NEW h \in Handler, Complete(h) \/ Fail(h)
      PROVE  \A o \in Operation : RowStep(o)
  BY <1>6, <1>o DEF Complete, Fail, Holds, RowStep, Closes, OperationRow
<1>7. ASSUME NEW h \in Handler, NEW k \in Attempt, ClaimDispatch(h, k)
      PROVE  \A o \in Operation : RowStep(o)
  BY <1>7, <1>o DEF ClaimDispatch, Admissible, Holds, RowStep, Admits, OperationRow
<1>8. CASE CancelPending
  BY <1>8, <1>o DEF CancelPending, Pending, RowStep, Closes, OperationRow
<1>9. CASE UNCHANGED ops
  BY <1>9 DEF RowStep
<1> QED
  <2>1. ASSUME NEW h \in Handler
        PROVE  /\ Start(h) \/ Answered(h) \/ CheckAccess(h) \/ AskControl(h) \/ ReadAnswer(h)
                    \/ Forward(h) => UNCHANGED ops
               /\ \A o \in Operation, a \in Approver, d \in Decisions : Submit(h, o, a, d) => UNCHANGED ops
               /\ \A k \in Attempt : Authorize(h, k) => UNCHANGED ops
    BY DEF Start, Answered, CheckAccess, AskControl, ReadAnswer, Forward, Submit, Authorize
  <2>2. /\ \A r \in Request : AskPolicy(r) => UNCHANGED ops
        /\ SomeConsent \/ Crash \/ RevokeMember \/ StopWorkspace \/ StartWorkspace \/ Tick
             \/ UNCHANGED vars => UNCHANGED ops
    BY DEF AskPolicy, SomeConsent, RevokeApprover, EnsureTask, Deliver, Crash, RevokeMember,
           StopWorkspace, StartWorkspace, Tick, vars
  <2> QED
    BY <1>1, <1>2, <1>3, <1>4, <1>5, <1>6, <1>7, <1>8, <1>9, <2>1, <2>2
       DEF Next, SomeRequest, SomeDecision, SomeExecution, SomeCall
-----------------------------------------------------------------------------
(* The parts of the invariant that speak of rows alone                     *)

RowInv == KeysAreHeld /\ ApprovedFirst /\ LeasedOnce

\* Creating an operation disturbs no lease and no admission.
LEMMA CreateKeeps ==
    ASSUME ops \in [Operation -> OperationRow], NEW r \in Request, NEW p \in Operation,
           CreateOperation(r, p), NEW o \in Operation
    PROVE  ops'[o].dispatched = ops[o].dispatched /\ ops'[o].lease = ops[o].lease
<1>1. CASE ops' = ops
  BY <1>1
<1>2. CASE ops' = [q \in Operation |->
                     IF q = p
                     THEN [ops[p] EXCEPT !.state = "approval_required", !.request = r,
                                         !.key = r, !.expiresAt = now + TTL]
                     ELSE IF q \in Holder(r) THEN [ops[q] EXCEPT !.key = None]
                     ELSE ops[q]]
  BY <1>2 DEF OperationRow
<1> QED
  BY <1>1, <1>2 DEF CreateOperation

\* A new operation holds the key that only replaceable rows could have held.
LEMMA RowInvCreate ==
    ASSUME TypeOK, RowInv, NEW r \in Request, NEW o \in Operation, CreateOperation(r, o)
    PROVE  RowInv'
<1>o. ops \in [Operation -> OperationRow]
  BY DEF TypeOK
<1>1. CASE ops' = ops
  BY <1>1 DEF RowInv, KeysAreHeld, ApprovedFirst, LeasedOnce, Exists
<1>2. CASE ops' # ops
  <2>1. /\ ops[o].state = "none" /\ ops[o].lease = None /\ ops[o].dispatched = FALSE
        /\ \A p \in Holder(r) : Replaceable(p)
        /\ ops' = [p \in Operation |->
                     IF p = o
                     THEN [ops[o] EXCEPT !.state = "approval_required", !.request = r,
                                         !.key = r, !.expiresAt = now + TTL]
                     ELSE IF p \in Holder(r) THEN [ops[p] EXCEPT !.key = None]
                     ELSE ops[p]]
    <3>1. ops[o].state = "none"
      BY <1>2 DEF CreateOperation, Exists
    <3>2. ops[o].lease = None /\ ops[o].dispatched = FALSE
      BY <1>o, <3>1, OperationConstants DEF RowInv, LeasedOnce, OperationRow
    <3> QED
      BY <1>2, <3>1, <3>2 DEF CreateOperation
  <2>2. \A p \in Operation \ {o} : ops[p].key = r => ops[p].state \notin Open
    BY <2>1 DEF Holder, Replaceable, Open
  <2>3. r # None
    BY OperationConstants
  <2>4. /\ ops'[o].state = "approval_required" /\ ops'[o].request = r /\ ops'[o].key = r
        /\ ops'[o].lease = None /\ ops'[o].dispatched = FALSE
    <3>1. ops'[o] = [ops[o] EXCEPT !.state = "approval_required", !.request = r,
                                   !.key = r, !.expiresAt = now + TTL]
      BY <2>1
    <3>2. ops[o] \in OperationRow
      BY <1>o
    <3>3. ops'[o].state = "approval_required" /\ ops'[o].request = r /\ ops'[o].key = r
      BY <3>1, <3>2 DEF OperationRow
    <3> QED
      BY <1>o, <2>1, <3>3, CreateKeeps
  <2>5. ASSUME NEW p \in Operation \ {o}
        PROVE  /\ ops'[p].state = ops[p].state /\ ops'[p].request = ops[p].request
               /\ ops'[p].lease = ops[p].lease /\ ops'[p].dispatched = ops[p].dispatched
               /\ ops'[p].decision = ops[p].decision
               /\ ops'[p].key = IF ops[p].key = r THEN None ELSE ops[p].key
    BY <1>o, <2>1 DEF OperationRow, Holder
  <2>6. KeysAreHeld'
    BY <2>1, <2>2, <2>3, <2>4, <2>5 DEF RowInv, KeysAreHeld, Exists, Open
  <2>7. ApprovedFirst'
    BY <2>4, <2>5 DEF RowInv, ApprovedFirst
  <2>8. LeasedOnce'
    BY <2>4, <2>5 DEF RowInv, LeasedOnce
  <2> QED
    BY <2>6, <2>7, <2>8 DEF RowInv
<1> QED
  BY <1>1, <1>2

\* Every other step of the rows keeps them too.
LEMMA RowInvMove ==
    ASSUME TypeOK, RowInv, \A o \in Operation : RowStep(o)
    PROVE  RowInv'
<1> USE DEF RowInv, RowStep, Decides, Closes, Leases, Admits, Keeps, Identity
<1>1. ASSUME NEW o \in Operation
      PROVE  /\ ops'[o].request = ops[o].request /\ ops'[o].key = ops[o].key
             /\ ops'[o].state = "none" <=> ops[o].state = "none"
             /\ ops'[o].state \in Open => ops[o].state \in Open
  BY DEF Open
<1>2. KeysAreHeld'
  BY <1>1 DEF KeysAreHeld, Exists
<1>3. ApprovedFirst'
  BY DEF ApprovedFirst
<1>4. LeasedOnce'
  BY DEF LeasedOnce
<1> QED
  BY <1>2, <1>3, <1>4

LEMMA RowInvStep == TypeOK /\ RowInv /\ [Next]_vars => RowInv'
  BY RowsMove, RowInvCreate, RowInvMove

LEMMA RowInvInit == Init => RowInv
  BY DEF Init, RowInv, KeysAreHeld, ApprovedFirst, LeasedOnce, Exists, Open

LEMMA RowInvCorrect == Spec => [](TypeOK /\ RowInv)
  BY TypeInit, TypeStep, RowInvInit, RowInvStep, PTL DEF Spec

\* Identical requests never have two operations open.
THEOREM OneOpenOperation == Spec => []OneOpenOperationPerRequest
<1>1. TypeOK /\ RowInv => OneOpenOperationPerRequest
  <2> SUFFICES ASSUME TypeOK, RowInv, NEW o \in Operation, NEW p \in Operation,
                      ops[o].state \in Open, ops[p].state \in Open,
                      ops[o].request = ops[p].request
               PROVE  o = p
    BY DEF OneOpenOperationPerRequest
  <2>1. ops[o].key = ops[p].key /\ ops[o].key \in Request
    BY DEF RowInv, KeysAreHeld, Exists, Open
  <2> QED
    BY <2>1, OperationConstants DEF RowInv, KeysAreHeld
<1> QED
  BY <1>1, RowInvCorrect, PTL

\* An operation that ended stays as it ended.
THEOREM EndsAreFinal == Spec => EndedOperationsAreFinal
<1>1. TypeOK /\ [Next]_vars =>
        [\A o \in Operation : ops[o].state \in Terminal => ops'[o].state = ops[o].state]_vars
  <2> SUFFICES ASSUME TypeOK, [Next]_vars, NEW o \in Operation, ops[o].state \in Terminal
               PROVE  ops'[o].state = ops[o].state
    OBVIOUS
  <2>1. ASSUME NEW r \in Request, NEW p \in Operation, CreateOperation(r, p)
        PROVE  ops'[o].state = ops[o].state
    BY <2>1 DEF CreateOperation, Exists, TypeOK, OperationRow, Terminal
  <2>2. ASSUME RowStep(o)
        PROVE  ops'[o].state = ops[o].state
    BY <2>2 DEF RowStep, Decides, Closes, Leases, Admits, Keeps, Identity, Terminal
  <2> QED
    BY <2>1, <2>2, RowsMove
<1> QED
  BY <1>1, TypeCorrect, PTL DEF Spec, EndedOperationsAreFinal

\* The gateway is let through for approved operations under a live lease.
THEOREM AdmissionsUnderLiveLease == Spec => AdmittedUnderLiveLease
<1>1. TypeOK /\ RowInv /\ [Next]_vars =>
        [\A o \in Operation : ~ops[o].dispatched /\ ops'[o].dispatched =>
           /\ ops[o].state = "executing"
           /\ ops[o].decision = "approve"
           /\ ops[o].leaseUntil > now]_vars
  <2> SUFFICES ASSUME TypeOK, RowInv, [Next]_vars, NEW o \in Operation,
                      ~ops[o].dispatched, ops'[o].dispatched
               PROVE  /\ ops[o].state = "executing"
                      /\ ops[o].decision = "approve"
                      /\ ops[o].leaseUntil > now
    OBVIOUS
  <2>1. ASSUME NEW r \in Request, NEW p \in Operation, CreateOperation(r, p)
        PROVE  FALSE
    <3>1. ops \in [Operation -> OperationRow]
      BY DEF TypeOK
    <3> QED
      BY <2>1, <3>1, CreateKeeps
  <2>2. CASE RowStep(o)
    BY <2>2 DEF RowStep, Decides, Closes, Leases, Admits, Keeps, Identity, RowInv, ApprovedFirst
  <2> QED
    BY <2>1, <2>2, RowsMove
<1> QED
  BY <1>1, RowInvCorrect, PTL DEF Spec, AdmittedUnderLiveLease
-----------------------------------------------------------------------------
(* Handlers, gateway calls and effects                                     *)

GatewayInv == CallsFollowHandlers /\ AdmissionsAreUnique /\ EffectsFollowAdmissions

\* What most steps do to handler h: before its call it may move, later only away.
HandlerQuiet(h) ==
    /\ handlers'[h].pc = "new" => handlers[h].pc = "new"
    /\ handlers[h].pc # "new" => handlers'[h].op = handlers[h].op
    /\ handlers'[h].pc \in BeforeCall => handlers[h].pc \in BeforeCall
    /\ handlers'[h].pc \notin {"new", "done"} => handlers'[h].op \in Operation
    /\ handlers'[h].pc \in {"uploading", "complete"} => effects[handlers'[h].op] = 1

RowQuiet(o) ==
    /\ Keeps(o, {"lease", "dispatched"})
    /\ ops'[o].state = "succeeded" => ops[o].state = "succeeded" \/ effects[o] = 1

Quiet == UNCHANGED gateway /\ (\A h \in Handler : HandlerQuiet(h)) /\ \A o \in Operation : RowQuiet(o)

\* A quiet step keeps the invariant.
LEMMA GatewayInvQuiet ==
    ASSUME TypeOK, TypeOK', GatewayInv, Quiet
    PROVE  GatewayInv'
<1> USE DEF Quiet, HandlerQuiet, RowQuiet, Keeps, gateway, GatewayInv, Claimant
<1>1. ASSUME NEW h \in Handler, handlers[h].pc = "new"
      PROVE  calls[h] = "none" /\ \A k \in Attempt : asks[h][k] = "none"
  BY <1>1 DEF CallsFollowHandlers, BeforeCall
<1>2. CallsFollowHandlers'
  BY <1>1 DEF CallsFollowHandlers
<1>3. AdmissionsAreUnique'
  BY <1>1 DEF AdmissionsAreUnique
<1>4. EffectsFollowAdmissions'
  BY <1>1 DEF EffectsFollowAdmissions
<1> QED
  BY <1>2, <1>3, <1>4

\* Steps that leave handlers and the gateway alone, and neither lease, admit
\* nor complete, are quiet.
LEMMA RowsQuiet ==
    ASSUME TypeOK, GatewayInv, UNCHANGED <<handlers, gateway>>, \A o \in Operation : RowQuiet(o)
    PROVE  Quiet
  BY DEF Quiet, HandlerQuiet, GatewayInv, CallsFollowHandlers, EffectsFollowAdmissions, Claimant

\* A handler that begins, decides, gives up or ends an execution is quiet.
LEMMA HandlersQuiet ==
    ASSUME TypeOK, GatewayInv, UNCHANGED gateway, \A o \in Operation : RowQuiet(o),
           NEW h \in Handler, \A g \in Handler \ {h} : handlers'[g] = handlers[g],
           HandlerQuiet(h)
    PROVE  Quiet
  BY DEF Quiet, HandlerQuiet, GatewayInv, CallsFollowHandlers, EffectsFollowAdmissions, Claimant

\* recoverOperation neither leases nor admits nor completes.
LEMMA RecoveryQuiet ==
    ASSUME ops \in [Operation -> OperationRow], NEW o, ops' = [ops EXCEPT ![o] = Recovered(o)]
    PROVE  \A p \in Operation : RowQuiet(p)
<1>1. CASE o \in Operation
  <2>1. /\ Recovered(o).lease = ops[o].lease
        /\ Recovered(o).dispatched = ops[o].dispatched
        /\ Recovered(o).state = "succeeded" => ops[o].state = "succeeded"
    BY <1>1 DEF Recovered, OperationRow
  <2> QED
    BY <1>1, <2>1 DEF RowQuiet, Keeps
<1>2. CASE o \notin Operation
  BY <1>2 DEF RowQuiet, Keeps
<1> QED
  BY <1>1, <1>2

\* The steps of handlers before and after their call.
LEMMA DecisionQuiet ==
    ASSUME TypeOK, GatewayInv, NEW h \in Handler,
           \/ \E o \in Operation, a \in Approver, d \in Decisions : Submit(h, o, a, d)
           \/ \E o \in Operation, d \in Decisions : ReadFixture(h, o, d)
           \/ \E o \in Operation : BeginUpload(h, o)
           \/ Record(h) \/ RecordFixture(h)
           \/ Answered(h) \/ UploadEnds(h) \/ Complete(h) \/ Fail(h)
    PROVE  Quiet
<1> USE DEF Claimant, Keeps
<1>o. ops \in [Operation -> OperationRow]
  BY DEF TypeOK
<1>h. handlers \in [Handler -> HandlerState]
  BY DEF TypeOK
<1>1. UNCHANGED gateway /\ \A g \in Handler \ {h} : handlers'[g] = handlers[g]
  <2>1. ASSUME NEW o \in Operation, NEW a \in Approver, NEW d \in Decisions, Submit(h, o, a, d)
        PROVE  UNCHANGED gateway /\ \A g \in Handler \ {h} : handlers'[g] = handlers[g]
    BY <1>h, <2>1 DEF Submit, gateway
  <2>2. ASSUME NEW o \in Operation, BeginUpload(h, o) \/ \E d \in Decisions : ReadFixture(h, o, d)
        PROVE  UNCHANGED gateway /\ \A g \in Handler \ {h} : handlers'[g] = handlers[g]
    BY <1>h, <2>2 DEF ReadFixture, BeginUpload, gateway
  <2>3. ASSUME Record(h) \/ RecordFixture(h)
        PROVE  UNCHANGED gateway /\ \A g \in Handler \ {h} : handlers'[g] = handlers[g]
    BY <1>h, <2>3 DEF Record, RecordFixture, gateway
  <2>4. ASSUME Answered(h) \/ UploadEnds(h) \/ Complete(h) \/ Fail(h)
        PROVE  UNCHANGED gateway /\ \A g \in Handler \ {h} : handlers'[g] = handlers[g]
    <3>1. CASE Answered(h) \/ UploadEnds(h)
      BY <1>h, <3>1 DEF Answered, UploadEnds, gateway
    <3>2. CASE Complete(h) \/ Fail(h)
      BY <1>h, <3>2 DEF Complete, Fail, gateway
    <3> QED
      BY <2>4, <3>1, <3>2
  <2> QED
    BY <2>1, <2>2, <2>3, <2>4
<1>2. \A o \in Operation : RowQuiet(o)
  <2>1. CASE UNCHANGED ops
    BY <2>1 DEF RowQuiet
  <2>2. CASE Record(h)
    BY <2>2, <1>o DEF Record, Verdict, RowQuiet, OperationRow, rows
  <2>3. CASE RecordFixture(h)
    BY <2>3, <1>o DEF RecordFixture, Verdict, RowQuiet, OperationRow
  <2>4. CASE Complete(h) \/ Fail(h)
    BY <2>4, <1>o DEF Complete, Fail, RowQuiet, OperationRow, GatewayInv, EffectsFollowAdmissions
  <2>5. CASE UploadEnds(h) \/ (\E o \in Operation : BeginUpload(h, o))
             \/ \E o \in Operation, d \in Decisions : ReadFixture(h, o, d)
    BY <2>5, <1>o, RecoveryQuiet DEF UploadEnds, BeginUpload, ReadFixture
  <2> QED
    BY <2>1, <2>2, <2>3, <2>4, <2>5 DEF Submit, Answered, rows
<1>3. HandlerQuiet(h)
  <2>1. ASSUME NEW o \in Operation, NEW d \in Decisions, NEW a \in Approver, Submit(h, o, a, d)
        PROVE  HandlerQuiet(h)
    <3>1. PICK pc \in {"record", "claim", "done"} :
            handlers' = [handlers EXCEPT ![h].op = o, ![h].by = a, ![h].decision = d, ![h].pc = pc]
      BY <2>1 DEF Submit, AfterDecision
    <3>2. handlers[h].pc = "new" /\ handlers[h] \in HandlerState
      BY <2>1, <1>h DEF Submit
    <3>3. handlers'[h].op = o /\ handlers'[h].pc \in {"record", "claim", "done"}
      BY <3>1, <3>2, <1>h DEF HandlerState
    <3> QED
      BY <3>2, <3>3 DEF HandlerQuiet, BeforeCall
  <2>2. ASSUME NEW o \in Operation, NEW d \in Decisions, ReadFixture(h, o, d)
        PROVE  HandlerQuiet(h)
    BY <2>2, <1>h DEF ReadFixture, HandlerQuiet, HandlerState, BeforeCall
  <2>3. ASSUME NEW o \in Operation, BeginUpload(h, o)
        PROVE  HandlerQuiet(h)
    BY <2>3, <1>h DEF BeginUpload, HandlerQuiet, HandlerState, BeforeCall
  <2>4. CASE Record(h) \/ RecordFixture(h)
    <3>1. handlers[h].op \in Operation
      BY <2>4 DEF Record, RecordFixture, GatewayInv, CallsFollowHandlers
    <3> QED
      BY <2>4, <3>1, <1>h DEF Record, RecordFixture, AfterDecision, HandlerQuiet, HandlerState, BeforeCall
  <2>5. CASE Answered(h) \/ UploadEnds(h) \/ Complete(h) \/ Fail(h)
    <3>1. handlers[h].op \in Operation
      BY <2>5 DEF Answered, UploadEnds, Complete, Fail, GatewayInv, CallsFollowHandlers
    <3>2. /\ calls[h] = "ok" => effects[handlers[h].op] = 1
          /\ handlers[h].pc = "uploading" => effects[handlers[h].op] = 1
      BY DEF GatewayInv, EffectsFollowAdmissions
    <3>3. PICK pc \in {"uploading", "complete", "fail", "done"} :
            /\ handlers' = [handlers EXCEPT ![h].pc = pc]
            /\ pc \in {"uploading", "complete"} => calls[h] = "ok" \/ handlers[h].pc = "uploading"
      BY <2>5 DEF Answered, UploadEnds, Complete, Fail
    <3>4. handlers[h].pc \notin BeforeCall
      BY <2>5 DEF Answered, UploadEnds, Complete, Fail, BeforeCall
    <3> QED
      BY <3>1, <3>2, <3>3, <3>4, <1>h DEF HandlerQuiet, HandlerState, BeforeCall
  <2> QED
    BY <2>1, <2>2, <2>3, <2>4, <2>5
<1> QED
  BY <1>1, <1>2, <1>3, HandlersQuiet

\* A claim leases an operation that was never admitted.
LEMMA GatewayInvClaim ==
    ASSUME TypeOK, TypeOK', RowInv, GatewayInv, NEW h \in Handler, Claim(h)
    PROVE  GatewayInv'
<1> USE DEF Claimant
<1>o. ops \in [Operation -> OperationRow] /\ ops' \in [Operation -> OperationRow]
  BY DEF TypeOK
<1>h. handlers \in [Handler -> HandlerState]
  BY DEF TypeOK
<1> DEFINE o == handlers[h].op
<1>1. /\ handlers[h].pc = "claim" /\ UNCHANGED <<calls, asks, effects>>
      /\ \A g \in Handler : handlers'[g].op = handlers[g].op
      /\ \A g \in Handler \ {h} : handlers'[g].pc = handlers[g].pc
      /\ handlers'[h].pc \in {"start", "done"}
  BY <1>h DEF Claim, HandlerState, gateway
<1>2. o \in Operation
  BY <1>1 DEF GatewayInv, CallsFollowHandlers
<1>3. CASE UNCHANGED ops
  BY <1>1, <1>2, <1>3 DEF GatewayInv, CallsFollowHandlers, AdmissionsAreUnique, EffectsFollowAdmissions, BeforeCall
<1>4. CASE ops' # ops
  <2>1. /\ ops[o].state = "approved" /\ ~ops[o].dispatched
        /\ ops'[o].lease = h /\ ops'[o].state = "executing"
        /\ ops'[o].dispatched = ops[o].dispatched
        /\ \A p \in Operation \ {o} : ops'[p] = ops[p]
    BY <1>4, <1>2, <1>o DEF Claim, Claimable, OperationRow, RowInv, LeasedOnce
  <2>2. CallsFollowHandlers'
    BY <1>1, <1>2, <2>1 DEF GatewayInv, CallsFollowHandlers, BeforeCall
  <2>3. AdmissionsAreUnique'
    BY <1>1, <2>1 DEF GatewayInv, AdmissionsAreUnique
  <2>4. EffectsFollowAdmissions'
    BY <1>1, <2>1 DEF GatewayInv, EffectsFollowAdmissions
  <2> QED
    BY <2>2, <2>3, <2>4 DEF GatewayInv
<1> QED
  BY <1>3, <1>4

\* A call moves on, up to the callback's question and after its answer.
LEMMA GatewayInvCall ==
    ASSUME TypeOK, TypeOK', RowInv, GatewayInv, NEW h \in Handler,
           Start(h) \/ CheckAccess(h) \/ AskControl(h) \/ ReadAnswer(h)
    PROVE  GatewayInv'
<1> USE DEF Claimant
<1>h. handlers \in [Handler -> HandlerState] /\ calls \in [Handler -> CallState]
  BY DEF TypeOK
<1>a. asks \in [Handler -> [Attempt -> AskState]] /\ asks' \in [Handler -> [Attempt -> AskState]]
  BY DEF TypeOK
<1>1. UNCHANGED <<ops, effects>> /\ \A g \in Handler : handlers'[g].op = handlers[g].op
  BY <1>h DEF Start, CheckAccess, AskControl, ReadAnswer, HandlerState, rows
<1>2. \A o \in Operation : effects[o] = 1 => ops[o].lease \in Handler
  BY DEF RowInv, LeasedOnce, GatewayInv, EffectsFollowAdmissions
<1>3. CASE Start(h)
  <2>1. /\ handlers[h].pc = "start" /\ asks' = asks
        /\ \A g \in Handler \ {h} : handlers'[g].pc = handlers[g].pc /\ calls'[g] = calls[g]
        /\ handlers'[h].pc \in {"wait", "fail"}
        /\ calls'[h] \in {"sent", calls[h]}
    BY <1>3, <1>h DEF Start, HandlerState
  <2>2. handlers[h].op \in Operation /\ calls[h] = "none" /\ \A k \in Attempt : asks[h][k] = "none"
    BY <2>1 DEF GatewayInv, CallsFollowHandlers, BeforeCall
  <2>3. CallsFollowHandlers'
    BY <1>1, <2>1, <2>2 DEF GatewayInv, CallsFollowHandlers, BeforeCall
  <2>4. AdmissionsAreUnique'
    BY <1>1, <2>1 DEF GatewayInv, AdmissionsAreUnique
  <2>5. EffectsFollowAdmissions'
    BY <1>1, <1>2, <2>1, <2>2 DEF GatewayInv, EffectsFollowAdmissions
  <2> QED
    BY <2>3, <2>4, <2>5 DEF GatewayInv
<1>4. CASE CheckAccess(h) \/ AskControl(h) \/ ReadAnswer(h)
  <2>1. /\ UNCHANGED handlers
        /\ calls[h] \in {"sent", "checked"}
        /\ calls'[h] \in {calls[h], "error", "checked", "unidentified", "admitted"}
        /\ calls'[h] = "sent" => calls[h] = "sent" /\ asks' = asks
        /\ \A g \in Handler \ {h} : calls'[g] = calls[g] /\ asks'[g] = asks[g]
    BY <1>4, <1>h, <1>a DEF CheckAccess, AskControl, ReadAnswer
  <2>2. calls'[h] = "admitted" => \E k \in Attempt : asks'[h][k] = "allow"
    BY <1>4, <1>h DEF CheckAccess, AskControl, ReadAnswer
  <2>3. \A k \in Attempt : asks'[h][k] \in {asks[h][k], "asked"}
    BY <1>4, <1>a DEF CheckAccess, AskControl, ReadAnswer
  <2>4. CallsFollowHandlers'
    BY <1>1, <2>1 DEF GatewayInv, CallsFollowHandlers, BeforeCall
  <2>5. AdmissionsAreUnique'
    BY <1>1, <2>1, <2>3 DEF GatewayInv, AdmissionsAreUnique
  <2>6. EffectsFollowAdmissions'
    BY <1>1, <1>2, <2>1, <2>2 DEF GatewayInv, EffectsFollowAdmissions
  <2> QED
    BY <2>4, <2>5, <2>6 DEF GatewayInv
<1> QED
  BY <1>3, <1>4

\* Control answers the callback; it admits an operation only once.
LEMMA GatewayInvAnswer ==
    ASSUME TypeOK, TypeOK', GatewayInv, NEW h \in Handler, NEW k \in Attempt,
           Authorize(h, k) \/ ClaimDispatch(h, k)
    PROVE  GatewayInv'
<1> USE DEF Claimant
<1>o. ops \in [Operation -> OperationRow]
  BY DEF TypeOK
<1>a. asks \in [Handler -> [Attempt -> AskState]]
  BY DEF TypeOK
<1>1. /\ UNCHANGED <<handlers, calls, effects>>
      /\ asks[h][k] # "none"
      /\ \A g \in Handler, j \in Attempt : <<g, j>> # <<h, k>> => asks'[g][j] = asks[g][j]
      /\ asks'[h][k] \in {"read", "deny", "allow"}
  BY <1>a DEF Authorize, ClaimDispatch
<1>2. CASE asks'[h][k] # "allow"
  <2>1. UNCHANGED ops
    <3>1. CASE Authorize(h, k)
      BY <3>1 DEF Authorize, rows
    <3>2. CASE ClaimDispatch(h, k)
      BY <1>2, <1>a, <3>2 DEF ClaimDispatch
    <3> QED
      BY <3>1, <3>2
  <2>2. ASSUME NEW g \in Handler, NEW j \in Attempt, asks'[g][j] = "allow"
        PROVE  asks[g][j] = "allow"
    BY <1>1, <1>2, <2>2
  <2>3. ASSUME NEW g \in Handler, calls[g] = "admitted"
        PROVE  \E j \in Attempt : asks'[g][j] = "allow"
    <3>1. PICK j \in Attempt : asks[g][j] = "allow"
      BY <2>3 DEF GatewayInv, EffectsFollowAdmissions
    <3>2. asks[h][k] # "allow"
      BY DEF Authorize, ClaimDispatch
    <3> QED
      BY <1>1, <3>1, <3>2
  <2>4. CallsFollowHandlers'
    BY <1>1, <2>1 DEF GatewayInv, CallsFollowHandlers
  <2>5. AdmissionsAreUnique'
    BY <1>1, <2>1, <2>2 DEF GatewayInv, AdmissionsAreUnique
  <2>6. EffectsFollowAdmissions'
    BY <1>1, <2>1, <2>3 DEF GatewayInv, EffectsFollowAdmissions
  <2> QED
    BY <2>4, <2>5, <2>6 DEF GatewayInv
<1>3. CASE asks'[h][k] = "allow"
  <2> DEFINE o == handlers[h].op
  <2>1. Admissible(h, o) /\ ops' = [ops EXCEPT ![o].dispatched = TRUE]
    BY <1>3, <1>a DEF Authorize, ClaimDispatch
  <2>2. o \in Operation
    BY <1>1 DEF GatewayInv, CallsFollowHandlers, BeforeCall
  <2>3. /\ ~ops[o].dispatched /\ ops[o].lease = h /\ ops'[o].dispatched
        /\ ops'[o].lease = h /\ ops'[o].state = ops[o].state
        /\ \A p \in Operation \ {o} : ops'[p] = ops[p]
    BY <1>o, <2>1, <2>2 DEF Admissible, Holds, OperationRow
  <2>4. \A j \in Attempt : asks[h][j] # "allow"
    BY <2>3 DEF GatewayInv, AdmissionsAreUnique
  <2>5. CallsFollowHandlers'
    BY <1>1, <2>2, <2>3 DEF GatewayInv, CallsFollowHandlers
  <2>6. AdmissionsAreUnique'
    BY <1>1, <1>3, <2>2, <2>3, <2>4 DEF GatewayInv, AdmissionsAreUnique
  <2>7. EffectsFollowAdmissions'
    BY <1>1, <1>3, <2>2, <2>3, <2>4 DEF GatewayInv, EffectsFollowAdmissions
  <2> QED
    BY <2>5, <2>6, <2>7 DEF GatewayInv
<1> QED
  BY <1>2, <1>3

\* The provider is called by the one admitted handler, for the first time.
LEMMA GatewayInvForward ==
    ASSUME TypeOK, TypeOK', RowInv, GatewayInv, NEW h \in Handler, Forward(h)
    PROVE  GatewayInv'
<1> USE DEF Claimant
<1> DEFINE o == handlers[h].op
<1>0. calls \in [Handler -> CallState] /\ effects \in [Operation -> Nat]
  BY DEF TypeOK
<1>1. PICK k \in Attempt : asks[h][k] = "allow"
  BY DEF Forward, GatewayInv, EffectsFollowAdmissions
<1>2. o \in Operation /\ ops[o].dispatched /\ ops[o].lease = h
  BY <1>1 DEF GatewayInv, AdmissionsAreUnique
<1>3. effects[o] = 0
  BY <1>2 DEF Forward, GatewayInv, EffectsFollowAdmissions
<1>4. /\ calls[h] = "admitted"
      /\ UNCHANGED <<ops, handlers, asks>>
      /\ effects'[o] = 1 /\ \A p \in Operation \ {o} : effects'[p] = effects[p]
      /\ calls'[h] \in {"ok", "error"} /\ \A g \in Handler \ {h} : calls'[g] = calls[g]
  BY <1>0, <1>2, <1>3 DEF Forward, rows
<1>5. CallsFollowHandlers'
  BY <1>2, <1>4 DEF GatewayInv, CallsFollowHandlers
<1>6. AdmissionsAreUnique'
  BY <1>4 DEF GatewayInv, AdmissionsAreUnique
<1>7. EffectsFollowAdmissions'
  <2>1. ASSUME NEW g \in Handler
        PROVE  /\ calls'[g] = "admitted" => \E j \in Attempt : asks'[g][j] = "allow"
               /\ calls'[g] = "ok" => effects'[handlers'[g].op] = 1
               /\ handlers'[g].pc \in {"uploading", "complete"} => effects'[handlers'[g].op] = 1
    <3>1. CASE handlers[g].pc \in {"uploading", "complete"} \/ calls[g] = "ok"
      <4>1. handlers[g].op \in Operation
        BY <3>1 DEF GatewayInv, CallsFollowHandlers
      <4> QED
        BY <1>3, <1>4, <3>1, <4>1 DEF GatewayInv, EffectsFollowAdmissions
    <3>2. CASE handlers[g].pc \notin {"uploading", "complete"} /\ calls[g] # "ok"
      BY <1>4, <3>2 DEF GatewayInv, EffectsFollowAdmissions
    <3> QED
      BY <3>1, <3>2
  <2>2. ASSUME NEW p \in Operation
        PROVE  /\ effects'[p] \in {0, 1}
               /\ effects'[p] = 1 => ops'[p].dispatched /\ calls'[ops'[p].lease] \in {"ok", "error"}
               /\ ops'[p].state = "succeeded" => effects'[p] = 1
    BY <1>2, <1>4 DEF GatewayInv, EffectsFollowAdmissions, RowInv, LeasedOnce
  <2> QED
    BY <2>1, <2>2 DEF EffectsFollowAdmissions
<1> QED
  BY <1>5, <1>6, <1>7 DEF GatewayInv

\* A crash of Control takes handlers and unanswered questions, nothing else.
LEMMA GatewayInvCrash ==
    ASSUME TypeOK, TypeOK', GatewayInv, Crash
    PROVE  GatewayInv'
<1> USE DEF Claimant
<1>1. /\ UNCHANGED <<ops, calls, effects>>
      /\ \A h \in Handler : handlers'[h].op = handlers[h].op
      /\ \A h \in Handler : handlers'[h].pc = handlers[h].pc \/ handlers'[h].pc = "done"
  BY DEF Crash, TypeOK, HandlerState, rows
<1>2. \A h \in Handler, k \in Attempt :
        /\ asks'[h][k] = "allow" <=> asks[h][k] = "allow"
        /\ asks'[h][k] = "none" <=> asks[h][k] = "none"
  BY DEF Crash
<1>3. CallsFollowHandlers'
  BY <1>1, <1>2 DEF GatewayInv, CallsFollowHandlers, BeforeCall
<1>4. AdmissionsAreUnique'
  BY <1>1, <1>2 DEF GatewayInv, AdmissionsAreUnique
<1>5. EffectsFollowAdmissions'
  BY <1>1, <1>2 DEF GatewayInv, EffectsFollowAdmissions
<1> QED
  BY <1>3, <1>4, <1>5 DEF GatewayInv

LEMMA GatewayInvStep == TypeOK /\ RowInv /\ GatewayInv /\ [Next]_vars => GatewayInv'
<1> SUFFICES ASSUME TypeOK, RowInv, GatewayInv, [Next]_vars PROVE GatewayInv'
  OBVIOUS
<1>o. ops \in [Operation -> OperationRow]
  BY DEF TypeOK
<1>0. TypeOK'
  BY TypeStep
<1>1. CASE SomeRequest
  <2>1. UNCHANGED <<handlers, gateway>>
    BY <1>1 DEF SomeRequest, AskPolicy, CreateOperation
  <2>2. \A o \in Operation : RowQuiet(o)
    <3>1. ASSUME NEW r \in Request, AskPolicy(r)
          PROVE  \A o \in Operation : RowQuiet(o)
      BY <3>1 DEF AskPolicy, rows, RowQuiet, Keeps
    <3>2. ASSUME NEW r \in Request, NEW p \in Operation, CreateOperation(r, p), NEW o \in Operation
          PROVE  RowQuiet(o)
      <4>1. ops'[o].state = "succeeded" => ops[o].state = "succeeded"
        BY <3>2, <1>o DEF CreateOperation, OperationRow
      <4> QED
        BY <3>2, <4>1, <1>o, CreateKeeps DEF RowQuiet, Keeps
    <3> QED
      BY <1>1, <3>1, <3>2 DEF SomeRequest
  <2> QED
    BY <1>0, <2>1, <2>2, RowsQuiet, GatewayInvQuiet
<1>2. CASE SomeConsent \/ RevokeMember \/ StopWorkspace \/ StartWorkspace \/ Tick \/ UNCHANGED vars
  <2>1. UNCHANGED <<ops, handlers, gateway>>
    BY <1>2 DEF SomeConsent, RevokeApprover, EnsureTask, Deliver, RevokeMember, StopWorkspace,
                StartWorkspace, Tick, vars, rows, gateway
  <2> QED
    BY <1>0, <2>1, RowsQuiet, GatewayInvQuiet DEF RowQuiet, Keeps
<1>3. CASE CancelPending \/ \E o \in Operation : Recover(o)
  <2>1. UNCHANGED <<handlers, gateway>>
    BY <1>3 DEF CancelPending, Recover
  <2>2. \A o \in Operation : RowQuiet(o)
    <3>1. CASE CancelPending
      BY <3>1, <1>o DEF CancelPending, RowQuiet, Keeps, OperationRow
    <3>2. CASE \E o \in Operation : Recover(o)
      BY <3>2, <1>o, RecoveryQuiet DEF Recover
    <3> QED
      BY <1>3, <3>1, <3>2
  <2> QED
    BY <1>0, <2>1, <2>2, RowsQuiet, GatewayInvQuiet
<1>4. CASE SomeDecision
  BY <1>0, <1>4, DecisionQuiet, GatewayInvQuiet DEF SomeDecision
<1>5. CASE SomeExecution
  BY <1>0, <1>5, DecisionQuiet, GatewayInvQuiet, GatewayInvClaim, GatewayInvCall DEF SomeExecution
<1>6. CASE SomeCall
  BY <1>0, <1>6, GatewayInvCall, GatewayInvForward, GatewayInvAnswer DEF SomeCall
<1>7. CASE Crash
  BY <1>0, <1>7, GatewayInvCrash
<1> QED
  BY <1>1, <1>2, <1>3, <1>4, <1>5, <1>6, <1>7 DEF Next

LEMMA GatewayInvInit == Init => GatewayInv
<1> SUFFICES ASSUME Init PROVE GatewayInv
  OBVIOUS
<1>1. CallsFollowHandlers
  BY OperationConstants DEF Init, CallsFollowHandlers
<1>2. AdmissionsAreUnique
  BY DEF Init, AdmissionsAreUnique
<1>3. EffectsFollowAdmissions
  BY DEF Init, EffectsFollowAdmissions
<1> QED
  BY <1>1, <1>2, <1>3 DEF GatewayInv

\* The inductive invariant holds in every reachable state.
LEMMA InvariantCorrect == Spec => []OperationInv
<1>1. TypeOK /\ RowInv /\ GatewayInv => OperationInv
  BY DEF RowInv, GatewayInv, OperationInv
<1> QED
  BY <1>1, TypeInit, TypeStep, RowInvInit, RowInvStep, GatewayInvInit, GatewayInvStep, PTL DEF Spec
-----------------------------------------------------------------------------
(* The abstract specification                                              *)

\* Every step of an operation is a step or a stutter of OneTimeConsent.
LEMMA ConsentStep ==
    ASSUME OperationInv, OperationInv', [Next]_vars, NEW o \in Operation
    PROVE  [Consent(o)!Next]_(Consent(o)!consentVars)
<1> USE DEF OperationInv
<1>o. ops \in [Operation -> OperationRow] /\ effects \in [Operation -> Nat]
  BY DEF TypeOK
<1>1. ASSUME NEW r \in Request, NEW p \in Operation, CreateOperation(r, p)
      PROVE  [Consent(o)!Next]_(Consent(o)!consentVars)
  <2>1. ops'[o].dispatched = ops[o].dispatched /\ effects' = effects
    BY <1>1, <1>o, CreateKeeps DEF CreateOperation, gateway
  <2>2. \/ ops'[o].state = ops[o].state
        \/ ops[o].state = "none" /\ ops'[o].state = "approval_required"
    <3>1. CASE ops' = ops
      BY <3>1
    <3>2. CASE ~Exists(p) /\ ops' = [q \in Operation |->
                     IF q = p
                     THEN [ops[p] EXCEPT !.state = "approval_required", !.request = r,
                                         !.key = r, !.expiresAt = now + TTL]
                     ELSE IF q \in Holder(r) THEN [ops[q] EXCEPT !.key = None]
                     ELSE ops[q]]
      BY <1>o, <3>2 DEF Exists, OperationRow
    <3> QED
      BY <1>1, <3>1, <3>2 DEF CreateOperation
  <2>3. ops[o].state = "none" => ~ops[o].dispatched
    BY DEF LeasedOnce
  <2> QED
    BY <2>1, <2>2, <2>3 DEF Consent!Next, Consent!Ask, Consent!Move, Consent!consentVars
<1>2. ASSUME NEW h \in Handler, Forward(h)
      PROVE  [Consent(o)!Next]_(Consent(o)!consentVars)
  <2>1. UNCHANGED ops /\ effects' = [effects EXCEPT ![Claimant(h)] = @ + 1]
    BY <1>2 DEF Forward, rows
  <2>2. effects[o] \in {0, 1} /\ effects'[o] \in {0, 1} /\ effects'[o] \in {effects[o], effects[o] + 1}
    BY <2>1, <1>o DEF EffectsFollowAdmissions
  <2>3. effects'[o] = 1 => ops'[o].dispatched
    BY DEF EffectsFollowAdmissions
  <2> QED
    BY <2>1, <2>2, <2>3 DEF Consent!Next, Consent!Act, Consent!consentVars
<1>3. ASSUME RowStep(o), effects'[o] = effects[o]
      PROVE  [Consent(o)!Next]_(Consent(o)!consentVars)
  <2>1. CASE ops'[o] = ops[o]
    BY <1>3, <2>1 DEF Consent!consentVars
  <2>2. CASE Decides(o)
    <3>1. ~ops[o].dispatched /\ ~ops'[o].dispatched
      BY <2>2 DEF Decides, Keeps, LeasedOnce
    <3> QED
      BY <1>3, <2>2, <3>1 DEF Decides, Consent!Next, Consent!Grant, Consent!Close, Consent!Move
  <2>3. CASE Closes(o)
    <3>1. ops'[o].dispatched = ops[o].dispatched
      BY <2>3 DEF Closes, Keeps
    <3>2. CASE ops'[o].state = "succeeded"
      <4>1. effects[o] = 1 /\ ops[o].dispatched
        BY <1>3, <3>2 DEF EffectsFollowAdmissions
      <4> QED
        BY <1>3, <3>1, <3>2, <4>1 DEF Consent!Next, Consent!Report
    <3>3. CASE ops'[o].state # "succeeded" /\ ops[o].dispatched
      BY <1>3, <2>3, <3>1, <3>3 DEF Closes, Consent!consentVars
    <3>4. CASE ops'[o].state # "succeeded" /\ ~ops[o].dispatched
      BY <1>3, <2>3, <3>1, <3>4 DEF Closes, Consent!Next, Consent!Close, Consent!Move
    <3> QED
      BY <3>2, <3>3, <3>4
  <2>4. CASE Leases(o)
    <3>1. ops'[o].dispatched = ops[o].dispatched
      BY <2>4 DEF Leases, Keeps
    <3> QED
      BY <1>3, <2>4, <3>1 DEF Leases, Consent!consentVars
  <2>5. CASE Admits(o)
    <3>1. ops'[o].state = ops[o].state /\ ops[o].state = "executing" /\ ops'[o].dispatched
      BY <2>5 DEF Admits, Keeps
    <3> QED
      BY <1>3, <3>1 DEF Consent!Next, Consent!Spend, Consent!Move, Consent!consentVars
  <2> QED
    BY <1>3, <2>1, <2>2, <2>3, <2>4, <2>5 DEF RowStep
<1>4. (\E h \in Handler : Forward(h)) \/ UNCHANGED effects
  <2>1. CASE SomeRequest \/ SomeConsent
    BY <2>1 DEF SomeRequest, SomeConsent, AskPolicy, CreateOperation, RevokeApprover, EnsureTask,
                Deliver, gateway
  <2>2. CASE SomeDecision
    <3>1. \A h \in Handler, p \in Operation, a \in Approver, d \in Decisions :
            Submit(h, p, a, d) => UNCHANGED gateway
      BY DEF Submit
    <3>2. \A h \in Handler, p \in Operation, d \in Decisions : ReadFixture(h, p, d) => UNCHANGED gateway
      BY DEF ReadFixture
    <3>3. \A h \in Handler : Record(h) \/ RecordFixture(h) => UNCHANGED gateway
      BY DEF Record, RecordFixture
    <3> QED
      BY <2>2, <3>1, <3>2, <3>3 DEF SomeDecision, gateway
  <2>3. CASE SomeExecution
    BY <2>3 DEF SomeExecution, BeginUpload, Claim, Start, Answered, UploadEnds, Complete, Fail, gateway
  <2>4. CASE SomeCall
    BY <2>4 DEF SomeCall, CheckAccess, AskControl, ReadAnswer, Authorize, ClaimDispatch
  <2>5. CASE (\E p \in Operation : Recover(p)) \/ Crash \/ RevokeMember \/ CancelPending
             \/ StopWorkspace \/ StartWorkspace \/ Tick \/ UNCHANGED vars
    BY <2>5 DEF Recover, Crash, RevokeMember, CancelPending, StopWorkspace, StartWorkspace, Tick,
                vars, gateway
  <2> QED
    BY <2>1, <2>2, <2>3, <2>4, <2>5 DEF Next
<1> QED
  BY <1>1, <1>2, <1>3, <1>4, RowsMove

\* An approval buys at most one effect, spent only while the operation is open.
THEOREM ImplementsOneTimeConsent == Spec => ConsentIsSpentOnce
<1>1. Init => \A o \in Operation : Consent(o)!Init
  BY DEF Init, Consent!Init
<1>2. OperationInv /\ OperationInv' /\ [Next]_vars =>
        [\A o \in Operation : [Consent(o)!Next]_(Consent(o)!consentVars)]_vars
  BY ConsentStep
<1> QED
  BY <1>1, <1>2, InvariantCorrect, PTL DEF Spec, ConsentIsSpentOnce
-----------------------------------------------------------------------------
(* Decisions                                                               *)

\* What a step that records no consent decision leaves of decisions and tasks.
KeepsDecisions(o) ==
    /\ ops'[o].decidedBy = ops[o].decidedBy
    /\ ops'[o].state \in {"none", "approval_required"} => ops[o].state \in {"none", "approval_required"}
    /\ ops[o].state # "approval_required" => ops'[o].decision = ops[o].decision
    /\ \A a \in Approver :
         /\ tasks'[o][a] \in Decided => tasks'[o][a] = tasks[o][a]
         /\ tasks'[o][a] \in Live => tasks[o][a] \in Live \/ ops[o].state = "approval_required"

\* The decision of an approver who was still active, in place of every open request.
RecordsDecision(h) ==
    LET o == Claimant(h)
        a == handlers[h].by
        d == handlers[h].decision
    IN /\ a \in approvers
       /\ ops[o].state = "approval_required"
       /\ ops' = [ops EXCEPT ![o].state = Verdict(d), ![o].decision = d, ![o].decidedBy = a]
       /\ tasks' = [tasks EXCEPT ![o] = Settled(o, a, d)]

\* recoverOperation touches no decision.
LEMMA RecoveryKeepsDecisions ==
    ASSUME TypeOK, NEW o \in Operation, ops' = [ops EXCEPT ![o] = Recovered(o)], UNCHANGED tasks
    PROVE  \A p \in Operation : KeepsDecisions(p)
<1>1. ops \in [Operation -> OperationRow]
  BY DEF TypeOK
<1> QED
  BY <1>1 DEF Recovered, Pending, KeepsDecisions, OperationRow

\* Creating an operation decides none.
LEMMA CreationKeepsDecisions ==
    ASSUME TypeOK, NEW r \in Request, NEW p \in Operation, CreateOperation(r, p)
    PROVE  \A o \in Operation : KeepsDecisions(o)
<1>0. ops \in [Operation -> OperationRow] /\ tasks' = tasks
  BY DEF TypeOK, CreateOperation
<1>1. CASE ops' = ops
  BY <1>0, <1>1 DEF KeepsDecisions
<1>2. CASE /\ ops[p].state = "none"
           /\ ops' = [q \in Operation |->
                     IF q = p
                     THEN [ops[p] EXCEPT !.state = "approval_required", !.request = r,
                                         !.key = r, !.expiresAt = now + TTL]
                     ELSE IF q \in Holder(r) THEN [ops[q] EXCEPT !.key = None]
                     ELSE ops[q]]
  <2> TAKE o \in Operation
  <2>1. CASE o = p
    <3>1. /\ ops'[p].decidedBy = ops[p].decidedBy /\ ops'[p].decision = ops[p].decision
          /\ ops'[p].state = "approval_required"
      BY <1>0, <1>2 DEF OperationRow
    <3> QED
      BY <1>0, <1>2, <2>1, <3>1 DEF KeepsDecisions
  <2>2. CASE o # p
    <3>1. /\ ops'[o].decidedBy = ops[o].decidedBy /\ ops'[o].decision = ops[o].decision
          /\ ops'[o].state = ops[o].state
      BY <1>0, <1>2, <2>2 DEF OperationRow
    <3> QED
      BY <1>0, <3>1 DEF KeepsDecisions
  <2> QED
    BY <2>1, <2>2
<1> QED
  BY <1>1, <1>2 DEF CreateOperation, Exists

\* A step records the decision of one handler, or no decision of an approver.
LEMMA DecisionsMove ==
    ASSUME TypeOK, [Next]_vars
    PROVE  \/ \E h \in Handler : RecordsDecision(h)
           \/ \A o \in Operation : KeepsDecisions(o)
<1>o. ops \in [Operation -> OperationRow] /\ tasks \in [Operation -> [Approver -> TaskState]]
  BY DEF TypeOK
<1>1. ASSUME NEW h \in Handler, Record(h)
      PROVE  RecordsDecision(h) \/ \A o \in Operation : KeepsDecisions(o)
  BY <1>1 DEF Record, Recordable, MayConsent, RecordsDecision, KeepsDecisions, rows
<1>2. ASSUME NEW h \in Handler, RecordFixture(h)
      PROVE  \A o \in Operation : KeepsDecisions(o)
  BY <1>2, <1>o DEF RecordFixture, Verdict, KeepsDecisions, OperationRow
<1>3. ASSUME NEW o \in Operation,
             \/ \E h \in Handler, d \in Decisions : ReadFixture(h, o, d)
             \/ \E h \in Handler : BeginUpload(h, o)
             \/ Recover(o)
      PROVE  \A p \in Operation : KeepsDecisions(p)
  BY <1>3, RecoveryKeepsDecisions DEF ReadFixture, BeginUpload, Recover
<1>4. ASSUME NEW h \in Handler, UploadEnds(h)
      PROVE  \A o \in Operation : KeepsDecisions(o)
  <2>1. CASE Claimant(h) \in Operation
    BY <1>4, <2>1, RecoveryKeepsDecisions DEF UploadEnds
  <2>2. CASE Claimant(h) \notin Operation
    BY <1>4, <1>o, <2>2 DEF UploadEnds, KeepsDecisions
  <2> QED
    BY <2>1, <2>2
<1>5. ASSUME NEW h \in Handler, Claim(h)
      PROVE  \A o \in Operation : KeepsDecisions(o)
  BY <1>5, <1>o DEF Claim, Claimable, KeepsDecisions, OperationRow
<1>6. ASSUME NEW h \in Handler, Complete(h) \/ Fail(h)
      PROVE  \A o \in Operation : KeepsDecisions(o)
  BY <1>6, <1>o DEF Complete, Fail, Holds, KeepsDecisions, OperationRow
<1>7. ASSUME NEW h \in Handler, NEW k \in Attempt, ClaimDispatch(h, k)
      PROVE  \A o \in Operation : KeepsDecisions(o)
  BY <1>7, <1>o DEF ClaimDispatch, KeepsDecisions, OperationRow
<1>8. ASSUME CancelPending
      PROVE  \A o \in Operation : KeepsDecisions(o)
  <2>1. ASSUME NEW o \in Operation
        PROVE  /\ ops'[o].decidedBy = ops[o].decidedBy /\ ops'[o].decision = ops[o].decision
               /\ ops'[o].state \in {ops[o].state, "failed"}
    BY <1>8, <1>o DEF CancelPending, OperationRow
  <2>2. ASSUME NEW o \in Operation, NEW a \in Approver
        PROVE  tasks'[o][a] \in {tasks[o][a], "failed"}
    BY <1>8 DEF CancelPending
  <2> QED
    BY <2>1, <2>2 DEF KeepsDecisions, Live, Decided
<1>9. ASSUME NEW a \in Approver, NEW o \in Operation, EnsureTask(o, a) \/ Deliver(a, o)
      PROVE  \A p \in Operation : KeepsDecisions(p)
  <2>1. ops' = ops
    BY <1>9 DEF EnsureTask, Deliver
  <2>2. ASSUME EnsureTask(o, a), NEW p \in Operation, NEW b \in Approver
        PROVE  tasks'[p][b] = tasks[p][b] \/ (tasks'[p][b] = "queued" /\ ops[p].state = "approval_required")
    BY <2>2, <1>o DEF EnsureTask, MayConsent
  <2>3. ASSUME Deliver(a, o), NEW p \in Operation, NEW b \in Approver
        PROVE  tasks'[p][b] = tasks[p][b] \/ (tasks'[p][b] \in {"expired", "delivered"} /\ tasks[p][b] \in Live)
    BY <2>3, <1>o DEF Deliver, Overdue
  <2> QED
    BY <1>9, <2>1, <2>2, <2>3 DEF KeepsDecisions, Live, Decided
<1>10. CASE UNCHANGED rows
  BY <1>10 DEF KeepsDecisions, rows
<1> QED
  <2>1. ASSUME NEW h \in Handler
        PROVE  /\ Start(h) \/ Answered(h) \/ CheckAccess(h) \/ AskControl(h) \/ ReadAnswer(h)
                    \/ Forward(h) => UNCHANGED rows
               /\ \A o \in Operation, a \in Approver, d \in Decisions : Submit(h, o, a, d) => UNCHANGED rows
               /\ \A k \in Attempt : Authorize(h, k) => UNCHANGED rows
    BY DEF Start, Answered, CheckAccess, AskControl, ReadAnswer, Forward, Submit, Authorize, rows
  <2>2. /\ \A r \in Request : AskPolicy(r) => UNCHANGED rows
        /\ \A a \in Approver : RevokeApprover(a) => UNCHANGED rows
        /\ Crash \/ RevokeMember \/ StopWorkspace \/ StartWorkspace \/ Tick \/ UNCHANGED vars => UNCHANGED rows
    BY DEF AskPolicy, RevokeApprover, Crash, RevokeMember, StopWorkspace, StartWorkspace, Tick, vars, rows
  <2> QED
    BY <1>1, <1>2, <1>3, <1>4, <1>5, <1>6, <1>7, <1>8, <1>9, <1>10, <2>1, <2>2, CreationKeepsDecisions
       DEF Next, SomeRequest, SomeConsent, SomeDecision, SomeExecution, SomeCall

\* Only a decided operation names who decided it, and its tasks agree with it.
DecisionInv ==
    /\ \A o \in Operation :
         /\ ops[o].state \in {"none", "approval_required"} => ops[o].decidedBy = None
         /\ ops[o].decidedBy = None => \A a \in Approver : tasks[o][a] \notin Decided
    /\ DecisionsConverge

\* At first nothing is decided.
LEMMA DecisionInvInit == Init => DecisionInv
  BY DEF Init, DecisionInv, DecisionsConverge, Decided

\* The invariant is inductive: one decision ends every request, and no request is made after it.
LEMMA DecisionInvStep == TypeOK /\ DecisionInv /\ [Next]_vars => DecisionInv'
<1> SUFFICES ASSUME TypeOK, DecisionInv, [Next]_vars PROVE DecisionInv'
  OBVIOUS
<1>o. ops \in [Operation -> OperationRow] /\ tasks \in [Operation -> [Approver -> TaskState]]
  BY DEF TypeOK
<1>1. ASSUME NEW h \in Handler, RecordsDecision(h)
      PROVE  DecisionInv'
  <2> DEFINE o == Claimant(h)
             a == handlers[h].by
             d == handlers[h].decision
  <2>1. a \in Approver /\ a # None
    BY <1>1, OperationConstants DEF RecordsDecision, TypeOK
  <2>2. \A p \in Operation \ {o} : ops'[p] = ops[p] /\ tasks'[p] = tasks[p]
    BY <1>1, <1>o DEF RecordsDecision
  <2>3. ASSUME o \in Operation
        PROVE  /\ ops'[o].state = Verdict(d) /\ ops'[o].decision = d /\ ops'[o].decidedBy = a
               /\ tasks'[o] = Settled(o, a, d)
               /\ \A b \in Approver : tasks[o][b] \notin Decided
    <3>1. ops[o].decidedBy = None
      BY <1>1, <2>3 DEF RecordsDecision, DecisionInv
    <3> QED
      BY <1>1, <1>o, <2>3, <3>1 DEF RecordsDecision, OperationRow, DecisionInv
  <2>4. Verdict(d) \in Decided /\ Verdict(d) \notin Live /\ Verdict(d) \notin {"none", "approval_required"}
    BY DEF Verdict, Decided, Live
  <2>5. ASSUME o \in Operation, NEW b \in Approver
        PROVE  /\ tasks'[o][b] \notin Live
               /\ tasks'[o][b] \in Decided => b = a /\ tasks'[o][b] = Verdict(d)
    BY <2>3, <2>4, <2>5 DEF Settled, Live, Decided
  <2>6. ASSUME NEW p \in Operation
        PROVE  /\ ops'[p].state \in {"none", "approval_required"} => ops'[p].decidedBy = None
               /\ ops'[p].decidedBy = None => \A b \in Approver : tasks'[p][b] \notin Decided
               /\ ops'[p].decidedBy # None => \A b \in Approver :
                    /\ tasks'[p][b] \notin Live
                    /\ tasks'[p][b] \in Decided => b = ops'[p].decidedBy /\ tasks'[p][b] = Verdict(ops'[p].decision)
    <3>1. CASE p = o
      BY <2>1, <2>3, <2>4, <2>5, <3>1
    <3>2. CASE p # o
      BY <2>2, <3>2 DEF DecisionInv, DecisionsConverge
    <3> QED
      BY <3>1, <3>2
  <2> QED
    BY <2>6 DEF DecisionInv, DecisionsConverge
<1>2. ASSUME \A o \in Operation : KeepsDecisions(o)
      PROVE  DecisionInv'
  <2>1. ASSUME NEW o \in Operation
        PROVE  /\ ops'[o].state \in {"none", "approval_required"} => ops'[o].decidedBy = None
               /\ ops'[o].decidedBy = None => \A a \in Approver : tasks'[o][a] \notin Decided
    BY <1>2 DEF KeepsDecisions, DecisionInv
  <2>2. ASSUME NEW o \in Operation, ops'[o].decidedBy # None, NEW a \in Approver
        PROVE  /\ tasks'[o][a] \notin Live
               /\ tasks'[o][a] \in Decided => a = ops'[o].decidedBy /\ tasks'[o][a] = Verdict(ops'[o].decision)
    <3>1. ops[o].decidedBy # None /\ ops[o].state # "approval_required" /\ ops'[o].decision = ops[o].decision
      BY <1>2, <2>2 DEF KeepsDecisions, DecisionInv
    <3> QED
      BY <1>2, <2>2, <3>1 DEF KeepsDecisions, DecisionInv, DecisionsConverge
  <2> QED
    BY <2>1, <2>2 DEF DecisionInv, DecisionsConverge
<1> QED
  BY <1>1, <1>2, DecisionsMove

\* Once one approver has decided, no other holds a request that could still be answered,
\* and no task records another decision, in whatever order tasks are made and decisions come.
THEOREM ApproversConverge == Spec => []DecisionsConverge
<1>1. DecisionInv => DecisionsConverge
  BY DEF DecisionInv
<1> QED
  BY <1>1, TypeInit, TypeStep, DecisionInvInit, DecisionInvStep, PTL DEF Spec

\* An approver revoked while its decision was being verified decides nothing.
THEOREM RevokedApproversAreRefused == Spec => RevokedApproversDecideNothing
<1>1. ASSUME TypeOK, [Next]_vars, NEW o \in Operation, ops[o].decidedBy = None, ops'[o].decidedBy # None
      PROVE  ops'[o].decidedBy \in approvers
  <2>1. ~KeepsDecisions(o)
    BY <1>1 DEF KeepsDecisions
  <2>2. PICK h \in Handler : RecordsDecision(h)
    BY <1>1, <2>1, DecisionsMove
  <2> QED
    BY <1>1, <2>2 DEF RecordsDecision, TypeOK, OperationRow
<1>2. TypeOK /\ [Next]_vars =>
        [\A o \in Operation : ops[o].decidedBy = None /\ ops'[o].decidedBy # None =>
             ops'[o].decidedBy \in approvers]_vars
  BY <1>1
<1> QED
  BY <1>2, TypeInit, TypeStep, PTL DEF Spec, RevokedApproversDecideNothing
=============================================================================
