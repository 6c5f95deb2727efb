------------------------- MODULE GovernedOperations -------------------------
(***************************************************************************)
(* Protected tool calls: an agent's call that needs approval becomes a row *)
(* of governed_operations; the member's approvers get signed consent tasks *)
(* for it; a decision is recorded once; the handler that claims the        *)
(* approved row executes the tool through the gateway, whose callback asks *)
(* Control to admit the dispatch before anything reaches the provider.     *)
(*   packages/workspace-store/src/index.ts      the transactions           *)
(*   apps/control-api/src/operations.ts         GovernedOperationService   *)
(*   apps/control-api/src/openvtc.ts            OpenVtcApprovalCoordinator *)
(*   apps/control-api/src/mcp-policy.ts         McpPolicyService           *)
(*   packages/litellm-adapter/src/index.ts      executeGovernedTool        *)
(*   integrations/litellm/lemmacomputer_policy_callback.py                 *)
(*                                                                         *)
(* All for one member with one workspace.  A transaction is one action;    *)
(* between its awaits a request handler of Control can be overtaken by any *)
(* other, and lost in a crash of Control.  A lease id is the handler that  *)
(* drew it: a handler serves one request.                                  *)
(***************************************************************************)
EXTENDS Integers, FiniteSets

CONSTANTS
    Operation,       \* identifiers of governed operations, one per row ever inserted
    Request,         \* idempotency keys
    KindOf,          \* KindOf[r]: what the request asks for
    Approver,        \* enrolled approvers of the member
    Handler,         \* request handlers of Control that decide or execute
    None,            \* no lease, no request, no approver: SQL NULL
    TTL,             \* operationTtlMs
    LeaseTime,       \* the 30 s of an execution lease
    UploadLease,     \* the 24 h of a resumable upload
    Attempts,        \* POLICY_ATTEMPTS of the gateway callback
    MaxTime,         \* bound: the clock stops here
    MaxGeneration,   \* bound: restarts of the workspace
    SendsInvocation  \* the execution call carries the headers the callback requires

Kinds == {"tool", "upload", "fixture"}

ASSUME OperationConstants ==
    /\ KindOf \in [Request -> Kinds]
    /\ None \notin Operation \cup Request \cup Approver \cup Handler
    /\ {TTL, LeaseTime, UploadLease, MaxTime, MaxGeneration} \subseteq Nat
    /\ Attempts \in Nat \ {0}
    /\ SendsInvocation \in BOOLEAN

Attempt == 1 .. Attempts

VARIABLES
    now,
    member,      \* the membership is active: getPrincipal finds the member
    workspace,   \* its readiness (ready or open) and access generation
    approvers,   \* openvtc_approvers: those still active
    asking,      \* requests of the agent past the policy checks, not yet stored
    ops,         \* the table governed_operations with its approval and receipt
    tasks,       \* openvtc_consent_tasks, by operation and approver
    handlers,    \* handlers of Control
    calls,       \* calls[h]: the gateway's view of the tool call of handler h
    asks,        \* asks[h][k]: attempt k of the callback to have it admitted
    effects      \* history: calls forwarded to the provider for an operation

rows == <<ops, tasks>>
environment == <<member, workspace, approvers>>
gateway == <<calls, asks, effects>>
vars == <<now, member, workspace, approvers, asking, ops, tasks, handlers, calls, asks, effects>>

Times == 0 .. MaxTime
Open == {"approval_required", "approved", "executing"}
Terminal == {"succeeded", "failed", "denied", "expired"}
Decisions == {"approve", "deny"}
Live == {"queued", "delivered"}
Decided == {"approved", "denied"}

OperationRow ==
    [state: {"none"} \cup Open \cup Terminal, request: Request \cup {None},
     key: Request \cup {None}, expiresAt: Int, decision: Decisions \cup {"none"},
     decidedBy: Approver \cup {None}, lease: Handler \cup {None}, leaseUntil: Int,
     dispatched: BOOLEAN]

HandlerState ==
    [pc: {"new", "record", "recordFixture", "claim", "start", "wait", "uploading",
          "complete", "fail", "done"},
     op: Operation \cup {None}, by: Approver \cup {None}, decision: Decisions \cup {"none"},
     at: Int, generation: Int]

TaskState == {"none"} \cup Live \cup Decided \cup {"failed", "expired"}
CallState == {"none", "sent", "checked", "admitted", "ok", "error", "unidentified"}
AskState == {"none", "asked", "read", "allow", "deny", "lost"}

Exists(o) == ops[o].state # "none"
Kind(o) == KindOf[ops[o].request]
Claimant(h) == handlers[h].op

Init ==
    /\ now = 0
    /\ member = TRUE
    /\ workspace = [ready |-> TRUE, generation |-> 0]
    /\ approvers = Approver
    /\ asking = {}
    /\ ops = [o \in Operation |->
                [state |-> "none", request |-> None, key |-> None, expiresAt |-> 0,
                 decision |-> "none", decidedBy |-> None, lease |-> None,
                 leaseUntil |-> 0, dispatched |-> FALSE]]
    /\ tasks = [o \in Operation |-> [a \in Approver |-> "none"]]
    /\ handlers = [h \in Handler |->
                     [pc |-> "new", op |-> None, by |-> None, decision |-> "none",
                      at |-> 0, generation |-> 0]]
    /\ calls = [h \in Handler |-> "none"]
    /\ asks = [h \in Handler |-> [k \in Attempt |-> "none"]]
    /\ effects = [o \in Operation |-> 0]
-----------------------------------------------------------------------------
(* The agent's protected call: authorize reads the principal and the       *)
(* workspace, then the operation is created or found.                      *)

Holder(r) == {o \in Operation : ops[o].key = r}

\* Bound: one request that needs a row is under way at a time, while a row is free.
RowsSuffice(r) == Holder(r) # {} \/ \E o \in Operation : ~Exists(o) /\ asking = {}

AskPolicy(r) ==
    /\ member
    /\ workspace.ready
    /\ RowsSuffice(r)
    /\ r \notin asking
    /\ asking' = asking \cup {r}
    /\ UNCHANGED <<now, environment, rows, handlers, gateway>>

\* Bound: no operation is created that could outlive the clock.
InTime(r) == now + TTL + (IF KindOf[r] = "upload" THEN UploadLease ELSE LeaseTime) <= MaxTime

\* Mutant: whatever is no longer waiting for its approver gives up the key.
ReplaceableOnceDecided(o) == Kind(o) = "tool" /\ ops[o].state # "approval_required"

\* replaceTerminal: only the policy callback asks for it, not the upload or
\* the local fixture, which come with the client's own idempotency key.
Replaceable(o) == Kind(o) = "tool" /\ ops[o].state \in {"denied", "failed", "expired"}

\* createGovernedOperation.  The row that holds the key is returned as it is,
\* unless it is replaced: then it keeps its history under another key.
CreateOperation(r, o) ==
    /\ r \in asking
    /\ asking' = asking \ {r}
    /\ \/ /\ \E p \in Holder(r) : ~Replaceable(p)
          /\ ops' = ops
       \/ /\ \A p \in Holder(r) : Replaceable(p)
          /\ ~Exists(o)
          /\ InTime(r)
          /\ ops' = [p \in Operation |->
                       IF p = o
                       THEN [ops[o] EXCEPT !.state = "approval_required", !.request = r,
                                           !.key = r, !.expiresAt = now + TTL]
                       ELSE IF p \in Holder(r) THEN [ops[p] EXCEPT !.key = None]
                       ELSE ops[p]]
    /\ UNCHANGED <<now, environment, tasks, handlers, gateway>>
-----------------------------------------------------------------------------
(* Consent tasks                                                           *)

MayConsent(o) == ops[o].state = "approval_required" /\ ops[o].expiresAt > now

\* createOpenVtcConsentTask: one task per operation and approver, called when
\* the operation is created, when the inbox is read and when a browser subscribes.
EnsureTask(o, a) ==
    /\ Exists(o)
    /\ MayConsent(o)
    /\ a \in approvers
    /\ tasks[o][a] = "none"
    /\ tasks' = [tasks EXCEPT ![o][a] = "queued"]
    /\ UNCHANGED <<now, environment, asking, ops, handlers, gateway>>

Overdue(o, a) == tasks[o][a] \in Live /\ ops[o].expiresAt <= now

\* deliverNextOpenVtcConsentTask: the overdue tasks of the approver expire, then
\* a live one is handed out (the oldest in the code), again if it was before.
Deliver(a, o) ==
    /\ a \in approvers
    /\ tasks[o][a] \in Live
    /\ tasks' = [p \in Operation |->
                   IF Overdue(p, a) THEN [tasks[p] EXCEPT ![a] = "expired"]
                   ELSE IF p = o THEN [tasks[p] EXCEPT ![a] = "delivered"]
                   ELSE tasks[p]]
    /\ UNCHANGED <<now, environment, asking, ops, handlers, gateway>>

RevokeApprover(a) ==
    /\ a \in approvers
    /\ approvers' = approvers \ {a}
    /\ UNCHANGED <<now, member, workspace, asking, rows, handlers, gateway>>
-----------------------------------------------------------------------------
(* Decisions                                                               *)

\* What applyOpenVtcDecision and applyApproval do with an operation whose
\* decision is recorded: execute it, unless there is nothing to execute.
AfterDecision(o, decision) ==
    IF decision = "approve" /\ ops'[o].state \notin Terminal /\ Kind(o) # "upload"
    THEN "claim" ELSE "done"

OwnDecision(h) ==
    /\ ops[Claimant(h)].decidedBy = handlers[h].by
    /\ ops[Claimant(h)].decision = handlers[h].decision

\* submitDecision up to the verification of the signed document: the task is
\* read; a task already decided by the same document is answered from the
\* operation, which resumes its execution.
Submit(h, o, a, d) ==
    /\ handlers[h].pc = "new"
    /\ a \in approvers
    /\ tasks[o][a] # "none"
    /\ UNCHANGED ops
    /\ \E replay \in BOOLEAN :
         /\ replay = (tasks[o][a] \in Decided)
         /\ replay => ops[o].decidedBy = a /\ ops[o].decision = d
         /\ handlers' = [handlers EXCEPT ![h].op = o, ![h].by = a, ![h].decision = d,
                            ![h].pc = IF replay THEN AfterDecision(o, d) ELSE "record"]
    /\ UNCHANGED <<now, environment, asking, tasks, gateway>>

\* Mutant: the approver was active when the task was read, which is enough.
RecordableOnceRead(h) ==
    /\ MayConsent(Claimant(h))
    /\ tasks[Claimant(h)][handlers[h].by] \in Live

Recordable(h) ==
    /\ handlers[h].by \in approvers
    /\ MayConsent(Claimant(h))
    /\ tasks[Claimant(h)][handlers[h].by] \in Live

\* Mutant: the decision is written as it came.
VerdictVerbatim(d) == d

Verdict(d) == IF d = "approve" THEN "approved" ELSE "denied"

\* Mutant: the other browsers keep their requests.
SettledAlone(o, a, d) == [tasks[o] EXCEPT ![a] = Verdict(d)]

\* The decided task, and the siblings of other approvers that it ends.
Settled(o, a, d) ==
    [b \in Approver |->
       IF b = a THEN Verdict(d)
       ELSE IF tasks[o][b] \in Live THEN "failed"
       ELSE tasks[o][b]]

\* recordOpenVtcDecision, and the second look of submitDecision when it finds
\* the task no longer live: the same document, recorded by a concurrent
\* handler, is answered as if this one had recorded it, if its task is the
\* one read back (the newest of the operation).
Record(h) ==
    LET o == Claimant(h)
        a == handlers[h].by
        d == handlers[h].decision
    IN /\ handlers[h].pc = "record"
       /\ \/ /\ Recordable(h)
             /\ ops' = [ops EXCEPT ![o].state = Verdict(d), ![o].decision = d,
                                   ![o].decidedBy = a]
             /\ tasks' = [tasks EXCEPT ![o] = Settled(o, a, d)]
             /\ handlers' = [handlers EXCEPT ![h].pc = AfterDecision(o, d)]
          \/ /\ ~Recordable(h)
             /\ UNCHANGED rows
             /\ \/ /\ OwnDecision(h)
                   /\ handlers' = [handlers EXCEPT ![h].pc = AfterDecision(o, d)]
                \/ handlers' = [handlers EXCEPT ![h].pc = "done"]
       /\ UNCHANGED <<now, environment, asking, gateway>>

Pending(o) == ops[o].state \in {"approval_required", "approved"}

\* Mutant: an abandoned execution goes back for another try.
RecoveredForRetry(o) ==
    IF Pending(o) /\ ops[o].expiresAt <= now THEN [ops[o] EXCEPT !.state = "expired"]
    ELSE IF ops[o].state = "executing" /\ ops[o].leaseUntil <= now
         THEN [ops[o] EXCEPT !.state = "approved", !.dispatched = FALSE]
    ELSE ops[o]

\* Mutant: only what waits for a decision or a handler is looked after.
RecoveredPending(o) ==
    IF Pending(o) /\ ops[o].expiresAt <= now THEN [ops[o] EXCEPT !.state = "expired"]
    ELSE ops[o]

\* recoverOperation, run by every read of an operation: what nobody decided or
\* executed in time expires, what was not completed under its lease failed.
Recovered(o) ==
    IF Pending(o) /\ ops[o].expiresAt <= now THEN [ops[o] EXCEPT !.state = "expired"]
    ELSE IF ops[o].state = "executing" /\ ops[o].leaseUntil <= now
         THEN [ops[o] EXCEPT !.state = "failed"]
    ELSE ops[o]

Recover(o) ==
    /\ Recovered(o) # ops[o]
    /\ ops' = [ops EXCEPT ![o] = Recovered(o)]
    /\ UNCHANGED <<now, environment, asking, tasks, handlers, gateway>>

\* decideWithFixture and applyApproval up to the record of the proof.
ReadFixture(h, o, d) ==
    LET row == Recovered(o)
        next == IF row.expiresAt <= now \/ row.state \in Terminal THEN "done"
                ELSE IF row.decision = "none" THEN "recordFixture"
                ELSE IF row.decision = d THEN "claim" ELSE "done"
    IN /\ handlers[h].pc = "new"
       /\ Exists(o)
       /\ Kind(o) = "fixture"
       /\ ops' = [ops EXCEPT ![o] = row]
       /\ handlers' = [handlers EXCEPT ![h].op = o, ![h].decision = d, ![h].at = now,
                                       ![h].pc = next]
       /\ UNCHANGED <<now, environment, asking, tasks, gateway>>

\* recordApproval, and the answer it gets when another decision came first.
RecordFixture(h) ==
    LET o == Claimant(h)
        d == handlers[h].decision
    IN /\ handlers[h].pc = "recordFixture"
       /\ IF ops[o].state = "approval_required" /\ ops[o].expiresAt > handlers[h].at
          THEN ops' = [ops EXCEPT ![o].state = Verdict(d), ![o].decision = d]
          ELSE ops' = ops
       /\ handlers' = [handlers EXCEPT ![h].pc =
                         IF d = "approve" /\ ops'[o].decision = d THEN "claim" ELSE "done"]
       /\ UNCHANGED <<now, environment, asking, tasks, gateway>>
-----------------------------------------------------------------------------
(* Execution                                                               *)

\* beginResumableUpload up to its claim: the agent that waited for approval.
BeginUpload(h, o) ==
    /\ handlers[h].pc = "new"
    /\ Exists(o)
    /\ Kind(o) = "upload"
    /\ ops' = [ops EXCEPT ![o] = Recovered(o)]
    /\ handlers' = [handlers EXCEPT ![h].op = o, ![h].pc =
                      IF ops'[o].state = "approved" THEN "claim" ELSE "done"]
    /\ UNCHANGED <<now, environment, asking, tasks, gateway>>

Claimable(o) == ops[o].state = "approved" /\ ops[o].expiresAt > now

LeaseOf(o) == now + (IF Kind(o) = "upload" THEN UploadLease ELSE LeaseTime)

\* claimExecution; who does not get the lease waits for the one who has it.
Claim(h) ==
    LET o == Claimant(h)
    IN /\ handlers[h].pc = "claim"
       /\ IF Claimable(o)
          THEN /\ ops' = [ops EXCEPT ![o].state = "executing", ![o].lease = h,
                                     ![o].leaseUntil = LeaseOf(o)]
               /\ handlers' = [handlers EXCEPT ![h].pc = "start"]
          ELSE /\ ops' = ops
               /\ handlers' = [handlers EXCEPT ![h].pc = "done"]
       /\ UNCHANGED <<now, environment, asking, tasks, gateway>>

\* activeAccessGeneration, then the execution key and the tool call; the
\* workspace may not be ready, and the gateway may refuse the key.
Start(h) ==
    /\ handlers[h].pc = "start"
    /\ \/ /\ workspace.ready
          /\ handlers' = [handlers EXCEPT ![h].pc = "wait",
                                          ![h].generation = workspace.generation]
          /\ calls' = [calls EXCEPT ![h] = "sent"]
       \/ /\ handlers' = [handlers EXCEPT ![h].pc = "fail"]
          /\ calls' = calls
    /\ UNCHANGED <<now, environment, asking, rows, asks, effects>>

\* The gateway's answer, or the adapter's time limit without one; an upload's
\* answer may hold no acceptable upload address.
Answered(h) ==
    /\ handlers[h].pc = "wait"
    /\ \/ /\ calls[h] = "ok"
          /\ handlers' = [handlers EXCEPT ![h].pc =
                            IF Kind(Claimant(h)) = "upload" THEN "uploading" ELSE "complete"]
       \/ handlers' = [handlers EXCEPT ![h].pc = "fail"]
    /\ UNCHANGED <<now, environment, asking, rows, gateway>>

\* The agent has sent the file, or could not: completeResumableUpload and
\* failResumableUpload read the operation first, which recovers it.
UploadEnds(h) ==
    LET o == Claimant(h)
    IN /\ handlers[h].pc = "uploading"
       /\ ops' = [ops EXCEPT ![o] = Recovered(o)]
       /\ \E pc \in {"complete", "fail"} : handlers' = [handlers EXCEPT ![h].pc = pc]
       /\ UNCHANGED <<now, environment, asking, tasks, gateway>>

\* Mutant: the lease id alone proves that the handler may finish the operation.
HoldsLease(h, o) == ops[o].lease = h

Holds(h, o) == ops[o].state = "executing" /\ ops[o].lease = h

\* completeExecution; its answer may be lost after the commit, or the
\* transaction may fail: execute then records a failure.
Complete(h) ==
    LET o == Claimant(h)
    IN /\ handlers[h].pc = "complete"
       /\ \/ /\ ops' = IF Holds(h, o) THEN [ops EXCEPT ![o].state = "succeeded"] ELSE ops
             /\ \E pc \in {"done", "fail"} : handlers' = [handlers EXCEPT ![h].pc = pc]
          \/ /\ ops' = ops
             /\ handlers' = [handlers EXCEPT ![h].pc = "fail"]
       /\ UNCHANGED <<now, environment, asking, tasks, gateway>>

\* failExecution
Fail(h) ==
    LET o == Claimant(h)
    IN /\ handlers[h].pc = "fail"
       /\ ops' = IF Holds(h, o) THEN [ops EXCEPT ![o].state = "failed"] ELSE ops
       /\ handlers' = [handlers EXCEPT ![h].pc = "done"]
       /\ UNCHANGED <<now, environment, asking, tasks, gateway>>

\* Control restarts.  The rows stay, the gateway and the agent's upload go on.
Crash ==
    /\ handlers' = [h \in Handler |->
                      IF handlers[h].pc \in {"new", "uploading"} THEN handlers[h]
                      ELSE [handlers[h] EXCEPT !.pc = "done"]]
    /\ asks' = [h \in Handler |-> [k \in Attempt |->
                  IF asks[h][k] \in {"asked", "read"} THEN "lost" ELSE asks[h][k]]]
    /\ UNCHANGED <<now, environment, asking, rows, calls, effects>>
-----------------------------------------------------------------------------
(* The gateway: its callback checks the key's generation and asks Control  *)
(* to admit the dispatch, a second time if the first answer does not come. *)

Unasked(h) == \A k \in Attempt : asks[h][k] = "none"
Latest(h, k) == asks[h][k] # "none" /\ \A j \in Attempt : j > k => asks[h][j] = "none"

\* async_pre_call_hook up to the request: _authorize_workspace_access, then the
\* headers that name the agent process and the invocation.
CheckAccess(h) ==
    /\ calls[h] = "sent"
    /\ LET current == workspace.ready /\ workspace.generation = handlers[h].generation
       IN calls' = [calls EXCEPT ![h] = IF ~current THEN "error"
                                        ELSE IF SendsInvocation THEN "checked"
                                        ELSE "unidentified"]
    /\ UNCHANGED <<now, environment, asking, rows, handlers, asks, effects>>

\* _request_decision: an attempt, and the next one when the answer to the last
\* does not come.  Control may still be working on the earlier one.
AskControl(h) ==
    /\ calls[h] = "checked"
    /\ \/ /\ Unasked(h)
          /\ asks' = [asks EXCEPT ![h][1] = "asked"]
          /\ calls' = calls
       \/ /\ \E k \in Attempt : k < Attempts /\ Latest(h, k) /\ asks' = [asks EXCEPT ![h][k + 1] = "asked"]
          /\ calls' = calls
       \/ /\ Latest(h, Attempts)
          /\ asks' = asks
          /\ calls' = [calls EXCEPT ![h] = "error"]
    /\ UNCHANGED <<now, environment, asking, rows, handlers, effects>>

\* McpPolicyService.authorize: the principal and the workspace are read.
Authorize(h, k) ==
    /\ asks[h][k] = "asked"
    /\ asks' = [asks EXCEPT ![h][k] = IF member /\ workspace.ready THEN "read" ELSE "deny"]
    /\ UNCHANGED <<now, environment, asking, rows, handlers, calls, effects>>

\* Mutant: a lease that has not run out is enough.
AdmissibleUnderLease(h, o) == ops[o].lease = h /\ ops[o].leaseUntil > now /\ ~ops[o].dispatched

Admissible(h, o) == Holds(h, o) /\ ops[o].leaseUntil > now /\ ~ops[o].dispatched

\* claimToolDispatch, the one admission of an operation.
ClaimDispatch(h, k) ==
    LET o == Claimant(h)
    IN /\ asks[h][k] = "read"
       /\ IF Admissible(h, o)
          THEN /\ ops' = [ops EXCEPT ![o].dispatched = TRUE]
               /\ asks' = [asks EXCEPT ![h][k] = "allow"]
          ELSE /\ ops' = ops
               /\ asks' = [asks EXCEPT ![h][k] = "deny"]
       /\ UNCHANGED <<now, environment, asking, tasks, handlers, calls, effects>>

\* The answer to the latest attempt is the one that counts.
ReadAnswer(h) ==
    /\ calls[h] = "checked"
    /\ \E k \in Attempt :
         /\ Latest(h, k)
         /\ asks[h][k] \in {"allow", "deny"}
         /\ calls' = [calls EXCEPT ![h] = IF asks[h][k] = "allow" THEN "admitted" ELSE "error"]
    /\ UNCHANGED <<now, environment, asking, rows, handlers, asks, effects>>

\* The provider acts, and says so or not.
Forward(h) ==
    /\ calls[h] = "admitted"
    /\ effects' = [effects EXCEPT ![Claimant(h)] = @ + 1]
    /\ \E outcome \in {"ok", "error"} : calls' = [calls EXCEPT ![h] = outcome]
    /\ UNCHANGED <<now, environment, asking, rows, handlers, asks>>
-----------------------------------------------------------------------------
(* The rest of the system                                                  *)

\* changeOrganizationMembership suspends or revokes; cancelPendingGovernedOperations
\* follows in a transaction of its own.
RevokeMember ==
    /\ member
    /\ member' = FALSE
    /\ UNCHANGED <<now, workspace, approvers, asking, rows, handlers, gateway>>

CancelPending ==
    /\ ~member
    /\ \E o \in Operation : Pending(o)
    /\ ops' = [o \in Operation |->
                 IF Pending(o) THEN [ops[o] EXCEPT !.state = "failed"] ELSE ops[o]]
    /\ tasks' = [o \in Operation |-> [a \in Approver |->
                   IF Pending(o) /\ tasks[o][a] \in Live \cup {"approved"} THEN "failed"
                   ELSE tasks[o][a]]]
    /\ UNCHANGED <<now, environment, asking, handlers, gateway>>

\* Stop and restart raise the access generation.
StopWorkspace ==
    /\ workspace.ready
    /\ workspace.generation < MaxGeneration
    /\ workspace' = [ready |-> FALSE, generation |-> workspace.generation + 1]
    /\ UNCHANGED <<now, member, approvers, asking, rows, handlers, gateway>>

StartWorkspace ==
    /\ ~workspace.ready
    /\ workspace' = [workspace EXCEPT !.ready = TRUE]
    /\ UNCHANGED <<now, member, approvers, asking, rows, handlers, gateway>>

Tick ==
    /\ now < MaxTime
    /\ now' = now + 1
    /\ UNCHANGED <<environment, asking, rows, handlers, gateway>>
-----------------------------------------------------------------------------
SomeRequest == \E r \in Request : AskPolicy(r) \/ \E o \in Operation : CreateOperation(r, o)

SomeConsent ==
    \E a \in Approver : RevokeApprover(a) \/ \E o \in Operation : EnsureTask(o, a) \/ Deliver(a, o)

SomeDecision ==
    \E h \in Handler :
        \/ \E o \in Operation, a \in Approver, d \in Decisions : Submit(h, o, a, d)
        \/ \E o \in Operation, d \in Decisions : ReadFixture(h, o, d)
        \/ Record(h) \/ RecordFixture(h)

SomeExecution ==
    \E h \in Handler :
        \/ \E o \in Operation : BeginUpload(h, o)
        \/ Claim(h) \/ Start(h) \/ Answered(h) \/ UploadEnds(h) \/ Complete(h) \/ Fail(h)

SomeCall ==
    \E h \in Handler :
        \/ CheckAccess(h) \/ AskControl(h) \/ ReadAnswer(h) \/ Forward(h)
        \/ \E k \in Attempt : Authorize(h, k) \/ ClaimDispatch(h, k)

Next ==
    \/ SomeRequest \/ SomeConsent \/ SomeDecision \/ SomeExecution \/ SomeCall
    \/ \E o \in Operation : Recover(o)
    \/ Crash \/ RevokeMember \/ CancelPending \/ StopWorkspace \/ StartWorkspace \/ Tick

Spec == Init /\ [][Next]_vars

\* The history page, the companion and the agent's wait tool read operations
\* again and again, and time passes.  Nothing is assumed of handlers, approvers
\* or the gateway.
Fairness == WF_vars(Tick) /\ \A o \in Operation : WF_vars(Recover(o))

FairSpec == Spec /\ Fairness
-----------------------------------------------------------------------------
(* Properties                                                              *)

\* Every variable has its type.
TypeOK ==
    /\ now \in Times
    /\ member \in BOOLEAN
    /\ workspace \in [ready: BOOLEAN, generation: 0 .. MaxGeneration]
    /\ approvers \subseteq Approver
    /\ asking \subseteq Request
    /\ ops \in [Operation -> OperationRow]
    /\ tasks \in [Operation -> [Approver -> TaskState]]
    /\ handlers \in [Handler -> HandlerState]
    /\ calls \in [Handler -> CallState]
    /\ asks \in [Handler -> [Attempt -> AskState]]
    /\ effects \in [Operation -> Nat]

\* Identical requests never have two operations open: an agent that repeats its
\* call, or two calls at once, wait for one approval and run once
\* (createGovernedOperation with replaceTerminal).
OneOpenOperationPerRequest ==
    \A o, p \in Operation :
        /\ ops[o].state \in Open /\ ops[p].state \in Open
        /\ ops[o].request = ops[p].request
        => o = p

\* The approvers of one operation converge: once one of them has decided, no
\* browser holds a request that could still be answered, and no task records
\* another decision (createOpenVtcConsentTask against recordOpenVtcDecision).
DecisionsConverge ==
    \A o \in Operation : ops[o].decidedBy # None =>
        \A a \in Approver :
            /\ tasks[o][a] \notin Live
            /\ tasks[o][a] \in Decided =>
                 a = ops[o].decidedBy /\ tasks[o][a] = Verdict(ops[o].decision)

\* An operation that ended stays as it ended, whatever handler, gateway call,
\* recovery or cancellation is still under way: a late failure does not
\* overwrite a success, a late success does not revive an expired operation.
EndedOperationsAreFinal ==
    [][\A o \in Operation : ops[o].state \in Terminal => ops'[o].state = ops[o].state]_vars

\* The gateway is let through for an approved operation that is being executed
\* under a lease still running, and for no other, however late its callback asks.
AdmittedUnderLiveLease ==
    [][\A o \in Operation : ~ops[o].dispatched /\ ops'[o].dispatched =>
          /\ ops[o].state = "executing"
          /\ ops[o].decision = "approve"
          /\ ops[o].leaseUntil > now]_vars

\* An approver revoked while its decision was being verified decides nothing
\* (recordOpenVtcDecision reads the approver again under its lock).
RevokedApproversDecideNothing ==
    [][\A o \in Operation : ops[o].decidedBy = None /\ ops'[o].decidedBy # None =>
          ops'[o].decidedBy \in approvers]_vars

\* Every operation ends, whoever crashed, as long as it is looked at.
OperationsEnd == \A o \in Operation : Exists(o) ~> ops[o].state \in Terminal

\* The execution call of an approved operation names what the callback needs to
\* put the question to Control at all.
ExecutionCallsAreIdentified == \A h \in Handler : calls[h] # "unidentified"

\* Each operation keeps the promise of OneTimeConsent.
Consent(o) == INSTANCE OneTimeConsent WITH
    phase <- IF ops[o].dispatched THEN "spent"
             ELSE IF ops[o].state = "none" THEN "absent"
             ELSE IF ops[o].state = "approval_required" THEN "pending"
             ELSE IF ops[o].state \in {"approved", "executing"} THEN "granted"
             ELSE "closed",
    effects <- effects[o],
    reported <- ops[o].state = "succeeded"

\* An approval buys at most one effect, spent only while the operation is open,
\* and success is reported only for an effect that happened.
ConsentIsSpentOnce ==
    /\ \A o \in Operation : Consent(o)!Init
    /\ [][\A o \in Operation : [Consent(o)!Next]_(Consent(o)!consentVars)]_vars
-----------------------------------------------------------------------------
(* The inductive invariant behind the proofs                               *)

\* An open operation holds the key of its request, and a key has one holder.
KeysAreHeld ==
    /\ \A o \in Operation :
         /\ ops[o].state \in Open => ops[o].key = ops[o].request
         /\ Exists(o) => ops[o].request \in Request
         /\ ops[o].key # None => Exists(o)
    /\ \A o, p \in Operation : ops[o].key # None /\ ops[o].key = ops[p].key => o = p

\* What may execute was approved.
ApprovedFirst ==
    \A o \in Operation : ops[o].state \in {"approved", "executing"} => ops[o].decision = "approve"

\* An operation is leased once, when it begins to execute, and admitted under
\* that lease.
LeasedOnce ==
    \A o \in Operation :
        /\ ops[o].state \in {"none", "approval_required", "approved"} => ops[o].lease = None
        /\ ops[o].state = "executing" => ops[o].lease \in Handler
        /\ ops[o].dispatched => ops[o].lease \in Handler
        /\ ops[o].dispatched => ops[o].state \in {"executing", "succeeded", "failed"}

\* A handler works for one operation, and makes its call after the claim.
BeforeCall == {"new", "record", "recordFixture", "claim", "start"}

CallsFollowHandlers ==
    \A h \in Handler :
        /\ handlers[h].pc \in BeforeCall =>
             calls[h] = "none" /\ \A k \in Attempt : asks[h][k] = "none"
        /\ handlers[h].pc \notin {"new", "done"} => Claimant(h) \in Operation
        /\ calls[h] # "none" => Claimant(h) \in Operation
        /\ calls[h] \in {"none", "sent"} => \A k \in Attempt : asks[h][k] = "none"
        /\ handlers[h].pc = "new" => \A o \in Operation : ops[o].lease # h

\* One attempt of one handler is let through: the one that holds the lease.
AdmissionsAreUnique ==
    \A h \in Handler, k \in Attempt : asks[h][k] = "allow" =>
        /\ Claimant(h) \in Operation
        /\ ops[Claimant(h)].dispatched
        /\ ops[Claimant(h)].lease = h
        /\ \A j \in Attempt : asks[h][j] = "allow" => j = k

\* The provider is called after the admission, once, and success needs a call.
EffectsFollowAdmissions ==
    /\ \A h \in Handler :
         /\ calls[h] = "admitted" =>
              \E k \in Attempt : asks[h][k] = "allow"
         /\ calls[h] = "ok" => effects[Claimant(h)] = 1
         /\ handlers[h].pc \in {"uploading", "complete"} =>
              effects[Claimant(h)] = 1
    /\ \A o \in Operation :
         /\ effects[o] \in {0, 1}
         /\ effects[o] = 1 => ops[o].dispatched /\ calls[ops[o].lease] \in {"ok", "error"}
         /\ ops[o].state = "succeeded" => effects[o] = 1

OperationInv ==
    /\ TypeOK
    /\ KeysAreHeld
    /\ ApprovedFirst
    /\ LeasedOnce
    /\ CallsFollowHandlers
    /\ AdmissionsAreUnique
    /\ EffectsFollowAdmissions
=============================================================================
