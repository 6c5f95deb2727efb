----------------------------- MODULE Workspaces -----------------------------
(***************************************************************************)
(* The lifecycle of one workspace: its row in Control's database, the      *)
(* requests of WorkspaceService that change it (create, restart, stop,     *)
(* suspension for a policy change, open, delete, the read that refreshes   *)
(* it and the recovery worker), the one container its node may run for it  *)
(* and the gateway keys minted for its agents.  A handler is one request   *)
(* in flight in some replica of Control: every await of the service is a   *)
(* step boundary, so any two handlers interleave there, a handler may die  *)
(* between two steps, and a request to the node that timed out may still   *)
(* be carried out later.  The module owns the row through                  *)
(* operation_token: who may move it, and what happens to runtimes and      *)
(* grants when ownership is lost, is what the properties are about.        *)
(***************************************************************************)
EXTENDS Naturals

CONSTANTS
  Handler,      \* requests in flight at once, over all replicas of Control
  Operations,   \* the service operations of this instance
  None,         \* SQL NULL: no token, no provider, no runtime, no node call
  MaxRequests,  \* bound: operations that may claim the row
  MaxCrashes,   \* bound: handlers that die
  MaxFaults,    \* bound: refused or lost calls and changes of runtime health
  MaxLate       \* bound: node calls given up on while still in flight

Claims == {"create", "restart", "recover", "stop", "suspend", "open", "delete"}

ASSUME WorkspaceAssumption ==
  /\ Operations \subseteq Claims \cup {"refresh"}
  /\ None \notin Handler \cup Nat
  /\ {MaxRequests, MaxCrashes, MaxFaults, MaxLate} \subseteq Nat

Active == {"provisioning", "restarting", "stopping"}
Serving == {"ready", "open"}
State == Active \cup Serving \cup {"not_created", "stopped", "failed"}
Health == {"ready", "provisioning", "failed", "stopped"}

VARIABLES
  ws,        \* the row of workspaces
  handler,   \* each handler's operation, place and what it read
  call,      \* the node request each handler has outstanding
  runtime,   \* the container named after the workspace, or None
  made,      \* how many containers the node has created
  keys,      \* the access generations that have live gateway keys
  last,      \* history: what members and administrators last asked for, whether an
             \* open was written after they had asked for a stop, and whether the
             \* last operation failed and left a container in the row
  requests, crashes, faults, late   \* counted against the bounds

vars == <<ws, handler, call, runtime, made, keys, last, requests, crashes, faults, late>>
budget == <<requests, crashes, faults, late>>

(* failure_code only as far as stop() reads it (cleanup); stale: not        *)
(* written for longer than the row's state allows, 5 minutes for an         *)
(* operation and 1 minute between recoveries of a failed workspace.         *)
Row == [state: State, desired: {"running", "stopped"}, provider: Nat \cup {None},
        token: Handler \cup {None}, gen: Nat, cleanup: BOOLEAN, deleted: BOOLEAN, stale: BOOLEAN]

Place == {"idle", "read", "claim", "bump", "destroy", "destroying", "grants", "make", "making",
          "finish", "undo", "undo_keys", "giveup", "revoke_keys", "launch", "mark",
          "status", "reconcile", "expire"}

(* row: the record the handler works from; gen: the generation of the       *)
(* grants it makes or revokes; id: the runtime it got; saw: the status the  *)
(* node reported; fenced: claim() is given the observed row.                *)
HandlerRow == [op: Claims \cup {"none", "refresh"}, pc: Place, row: Row, gen: Nat,
               id: Nat \cup {None}, saw: Health, fenced: BOOLEAN, gone: BOOLEAN]

NewRow == [state |-> "not_created", desired |-> "stopped", provider |-> None, token |-> None,
           gen |-> 1, cleanup |-> FALSE, deleted |-> FALSE, stale |-> FALSE]

Resting == [op |-> "none", pc |-> "idle", row |-> NewRow, gen |-> 0, id |-> None,
            saw |-> "ready", fenced |-> FALSE, gone |-> FALSE]

Init ==
  /\ ws = NewRow
  /\ handler = [h \in Handler |-> Resting]
  /\ call = [h \in Handler |-> None]
  /\ runtime = None /\ made = 0 /\ keys = {} /\ last = [asked |-> "stopped", reopened |-> FALSE, left |-> FALSE]
  /\ requests = 0 /\ crashes = 0 /\ faults = 0 /\ late = 0

-----------------------------------------------------------------------------
(* The row in the database *)

Touched(row) == [row EXCEPT !.stale = FALSE]

(* claim: what taking the row for an operation writes *)
Claimed(row, h, next) ==
  Touched([row EXCEPT !.state = next, !.token = h, !.cleanup = FALSE,
                      !.desired = IF next = "stopping" THEN "stopped" ELSE "running"])

(* The row is still the one observed: the fence of claim and of reconcile *)
Unmoved(o) ==
  /\ o.token = None /\ ws.token = None
  /\ ws.provider = o.provider /\ ws.gen = o.gen /\ ws.state = o.state

(* mutant: finish matches the row by its id only *)
OwnsAnyRow(h) == ~ws.deleted

(* finish: only the owner, and it gives the row up *)
Owns(h) == ws.token = h /\ ~ws.deleted
Finished(row, state, provider, cleanup) ==
  Touched([row EXCEPT !.state = state, !.provider = provider, !.cleanup = cleanup, !.token = None])

(* revokeAccessGrants: with the caller's token, or with none from delete *)
Bumped(row) == Touched([row EXCEPT !.gen = @ + 1])
MayBump(h) == ~ws.deleted /\ (handler[h].op = "delete" \/ ws.token = h)

(* mutant: an open takes the row from its owner *)
UpdatedReleased(row, state) ==
  Touched([row EXCEPT !.state = state, !.desired = "running", !.cleanup = FALSE, !.token = None])

(* update: unconditional; the row keeps its owner, its provider and its generation *)
Updated(row, state) == Touched([row EXCEPT !.state = state, !.desired = "running", !.cleanup = FALSE])

(* expireOperation *)
Expired(row) == Touched([row EXCEPT !.state = "failed", !.token = None, !.cleanup = FALSE, !.gen = @ + 1])
MayExpire(o) ==
  /\ o.token # None /\ ws.token = o.token /\ ws.gen = o.gen /\ ws.provider = o.provider
  /\ ws.state = o.state /\ ws.stale /\ ~ws.deleted

-----------------------------------------------------------------------------
(* Handlers *)

Idle(h) == handler[h].op = "none" /\ call[h] = None /\ ws.token # h
At(h, pc) == handler[h].pc = pc
Is(h, ops) == handler[h].op \in ops
Put(h, r) == handler' = [handler EXCEPT ![h] = r]
Goto(h, pc) == Put(h, [handler[h] EXCEPT !.pc = pc])
Rest(h) == Put(h, Resting)
Begin(h, op, pc) == Put(h, [Resting EXCEPT !.op = op, !.pc = pc, !.row = ws, !.gen = ws.gen])
Fault == faults < MaxFaults /\ faults' = faults + 1

(* A request that may claim the row arrives; refresh, and recovery of a row *)
(* somebody owns, only read and are not counted.                            *)
Admit(h, op) ==
  /\ op \in Operations /\ Idle(h)
  /\ IF op = "refresh" \/ (op = "recover" /\ ws.token # None)
     THEN UNCHANGED requests
     ELSE requests < MaxRequests /\ requests' = requests + 1
  /\ UNCHANGED <<call, runtime, made, keys, last, crashes, faults, late>>

(* mutant: a revived row counts its generations anew *)
RevivedAnew(row) == Touched([row EXCEPT !.state = "not_created", !.deleted = FALSE, !.gen = 1])

(* createOrGet revives a deleted row, keeping its generation and intent *)
Revived(row) == Touched([row EXCEPT !.state = "not_created", !.deleted = FALSE])

Create(h) ==
  /\ Admit(h, "create") /\ (ws.deleted \/ ws.state \notin Serving \cup {"provisioning", "restarting"})
  /\ ws' = IF ws.deleted THEN Revived(ws) ELSE ws
  /\ Begin(h, "create", "claim")

Restart(h) ==
  /\ Admit(h, "restart") /\ ~ws.deleted
  /\ Begin(h, "restart", "claim") /\ UNCHANGED ws

(* stop of a stopped workspace returns at once unless its grants are left *)
Stop(h) ==
  /\ Admit(h, "stop") /\ ~ws.deleted /\ (ws.state = "stopped" => ws.cleanup)
  /\ Begin(h, "stop", "claim") /\ UNCHANGED ws

(* A stopped workspace only has its gateway grants revoked *)
Suspend(h) ==
  /\ Admit(h, "suspend") /\ ~ws.deleted
  /\ Begin(h, "suspend", IF ws.state \in {"not_created", "stopped"} THEN "revoke_keys" ELSE "claim")
  /\ UNCHANGED ws

Open(h) ==
  /\ Admit(h, "open") /\ ~ws.deleted /\ ws.provider # None /\ ws.state \in Serving
  /\ Begin(h, "open", "grants") /\ UNCHANGED ws

Delete(h) ==
  /\ Admit(h, "delete") /\ ~ws.deleted
  /\ Begin(h, "delete", "bump") /\ UNCHANGED ws

Refresh(h) ==
  /\ Admit(h, "refresh") /\ ~ws.deleted
  /\ Begin(h, "refresh", "read") /\ UNCHANGED ws

(* mutant: the recovery scan leaves out rows with an operation *)
RecoverUnowned(h) ==
  /\ Admit(h, "recover") /\ ~ws.deleted /\ ws.desired = "running" /\ ws.token = None
  /\ (ws.state = "failed" => ws.stale)
  /\ Put(h, [Resting EXCEPT !.op = "recover", !.row = ws, !.gen = ws.gen, !.fenced = TRUE,
                            !.pc = IF ws.provider = None THEN "claim" ELSE "status"])
  /\ UNCHANGED ws

(* The recovery scan: rows meant to run; an owned row is only refreshed,    *)
(* and a failed one is left alone for a minute.                             *)
Recover(h) ==
  /\ Admit(h, "recover") /\ ~ws.deleted /\ ws.desired = "running"
  /\ (ws.token = None /\ ws.state = "failed" => ws.stale)
  /\ IF ws.token # None THEN Begin(h, "refresh", "read")
     ELSE Put(h, [Resting EXCEPT !.op = "recover", !.row = ws, !.gen = ws.gen, !.fenced = TRUE,
                                 !.pc = IF ws.provider = None THEN "claim" ELSE "status"])
  /\ UNCHANGED ws

Arrive(h) == Create(h) \/ Restart(h) \/ Stop(h) \/ Suspend(h) \/ Open(h) \/ Delete(h) \/ Refresh(h) \/ Recover(h)

-----------------------------------------------------------------------------
(* Taking the row, and the new generation every restart and stop begins with *)

Claimable(h) ==
  LET h0 == handler[h]
      halting == {"ready", "open", "provisioning", "restarting", "failed"}
  IN CASE h0.op = "create"  -> {"not_created", "stopped", "failed"}
       [] h0.op = "restart" -> {"ready", "open", "stopped", "failed"}
       [] h0.op = "recover" -> {"ready", "open", "stopped", "failed", "provisioning", "restarting"}
       [] h0.op = "stop"    -> IF h0.row.state = "stopped" THEN {"stopped"} ELSE halting
       [] OTHER             -> halting

Target(op) ==
  CASE op = "create" -> "provisioning" [] op \in {"restart", "recover"} -> "restarting" [] OTHER -> "stopping"

(* mutant: the claim of recovery is not fenced by what it observed *)
MayClaimUnfenced(h) == ws.state \in Claimable(h) /\ ~ws.deleted

MayClaim(h) ==
  /\ ws.state \in Claimable(h) /\ ~ws.deleted
  /\ handler[h].fenced => Unmoved(handler[h].row) /\ ws.desired = handler[h].row.desired

Claim(h) ==
  /\ At(h, "claim")
  /\ IF MayClaim(h)
     THEN /\ ws' = Claimed(ws, h, Target(handler[h].op))
          /\ Put(h, [handler[h] EXCEPT !.row = ws', !.gen = ws.gen, !.gone = ws.provider = None,
                                       !.pc = IF handler[h].op = "create" THEN "grants" ELSE "bump"])
          /\ last' = [left |-> FALSE,
                     reopened |-> Is(h, {"recover"}) /\ last.reopened,
                     asked |-> CASE Is(h, {"create", "restart"}) -> "running"
                                 [] Is(h, {"stop", "suspend"}) -> "stopped"
                                 [] OTHER -> last.asked]
     ELSE Rest(h) /\ UNCHANGED <<ws, last>>
  /\ UNCHANGED <<call, runtime, made, keys, budget>>

(* Where an operation goes once the old runtime is out of the way *)
AfterDestroy(op) == IF op \in {"restart", "recover"} THEN "grants" ELSE "revoke_keys"

(* restart makes the grants of the new generation; stop and suspend revoke  *)
(* those up to the generation they claimed.                                 *)
Bump(h) ==
  /\ At(h, "bump")
  /\ IF MayBump(h)
     THEN /\ ws' = Bumped(ws)
          /\ Put(h, [handler[h] EXCEPT
               !.gen = IF Is(h, {"restart", "recover"}) THEN ws'.gen ELSE handler[h].gen,
               !.pc = IF handler[h].row.provider # None THEN "destroy" ELSE AfterDestroy(handler[h].op)])
     ELSE Rest(h) /\ UNCHANGED ws
  /\ UNCHANGED <<call, runtime, made, keys, last, budget>>

-----------------------------------------------------------------------------
(* The node *)

(* How each operation goes on when its node call fails *)
Failed(h) ==
  CASE Is(h, {"create", "restart", "recover"}) -> Goto(h, "undo")
    [] Is(h, {"stop", "suspend"}) -> Goto(h, "giveup")
    [] OTHER -> Rest(h)

AskDestroy(h) ==
  /\ At(h, "destroy")
  /\ call' = [call EXCEPT ![h] = [op |-> "destroy", id |-> handler[h].row.provider, gen |-> 0]]
  /\ Goto(h, "destroying")
  /\ UNCHANGED <<ws, runtime, made, keys, last, budget>>

AskCreate(h) ==
  /\ At(h, "make")
  /\ call' = [call EXCEPT ![h] = [op |-> "create", id |-> None, gen |-> handler[h].gen]]
  /\ Goto(h, "making")
  /\ UNCHANGED <<ws, runtime, made, keys, last, budget>>

(* The handler still waits for the node's answer *)
Waiting(h) == handler[h].pc \in {"destroying", "making"}

(* destroy removes the container it names and does not mind its absence *)
NodeDestroys(h) ==
  /\ call[h] # None /\ call[h].op = "destroy"
  /\ runtime' = IF runtime # None /\ runtime.id = call[h].id THEN None ELSE runtime
  /\ call' = [call EXCEPT ![h] = None]
  /\ IF Waiting(h)
     THEN Put(h, [handler[h] EXCEPT !.pc = AfterDestroy(handler[h].op), !.gone = TRUE])
     ELSE UNCHANGED handler
  /\ UNCHANGED <<ws, made, keys, last, budget>>

(* mutant: create keeps a healthy container of any generation *)
KeptAnyGeneration(gen) == runtime # None /\ runtime.health = "ready"

(* create keeps a healthy container of the same generation and replaces any *)
(* other; it answers when the container has started.                        *)
Kept(gen) == runtime # None /\ runtime.gen = gen /\ runtime.health = "ready"

NodeCreates(h) ==
  /\ call[h] # None /\ call[h].op = "create"
  /\ IF Kept(call[h].gen)
     THEN UNCHANGED <<runtime, made>>
     ELSE made' = made + 1 /\ runtime' = [id |-> made', gen |-> call[h].gen, health |-> "ready"]
  /\ call' = [call EXCEPT ![h] = None]
  /\ IF Waiting(h) THEN Put(h, [handler[h] EXCEPT !.pc = "finish", !.id = runtime'.id])
     ELSE UNCHANGED handler
  /\ UNCHANGED <<ws, keys, last, budget>>

(* The node refuses; a create may fail after it cleared the old container *)
NodeRefuses(h) ==
  /\ call[h] # None /\ Fault
  /\ runtime' \in {runtime} \cup IF call[h].op = "create" /\ ~Kept(call[h].gen) THEN {None} ELSE {}
  /\ call' = [call EXCEPT ![h] = None]
  /\ IF Waiting(h) THEN Failed(h) ELSE UNCHANGED handler
  /\ UNCHANGED <<ws, made, keys, last, requests, crashes, late>>

(* Control gives up on the call; the node may still carry it out *)
TimeOut(h) ==
  /\ Waiting(h) /\ call[h] # None /\ late < MaxLate /\ late' = late + 1
  /\ Failed(h)
  /\ UNCHANGED <<ws, call, runtime, made, keys, last, requests, crashes, faults>>

(* The container's health changes by itself; a restarting one may come back *)
RuntimeChanges ==
  /\ runtime # None
  /\ \/ \E health \in {"failed", "stopped", "provisioning"} :
          runtime.health = "ready" /\ Fault /\ runtime' = [runtime EXCEPT !.health = health]
     \/ runtime.health = "provisioning" /\ runtime' = [runtime EXCEPT !.health = "ready"] /\ UNCHANGED faults
  /\ UNCHANGED <<ws, handler, call, made, keys, last, requests, crashes, late>>

-----------------------------------------------------------------------------
(* The gateway *)

(* ensureAgentGrants, or its failure *)
AfterGrants(op) == CASE op = "open" -> "launch" [] op = "refresh" -> "idle" [] OTHER -> "make"

Grant(h) ==
  /\ At(h, "grants")
  /\ \/ keys' = keys \cup {handler[h].gen} /\ UNCHANGED faults
        /\ IF Is(h, {"refresh"}) THEN Rest(h) ELSE Goto(h, AfterGrants(handler[h].op))
     \/ Fault /\ UNCHANGED keys /\ Failed(h)
  /\ UNCHANGED <<ws, call, runtime, made, last, requests, crashes, late>>

(* mutant: a cleanup revokes every generation *)
KeysAfterAll(gen) == {}

(* revokeWorkspace: the keys of every generation up to the given one *)
KeysAfter(gen) == {g \in keys : g > gen}

(* Delete revokes every key; the others those of their own generation.  A   *)
(* stop whose cleanup fails is a stop all the same and says so in the row.  *)
RevokeKeys(h) ==
  /\ At(h, "revoke_keys")
  /\ \/ /\ keys' = IF Is(h, {"delete"}) THEN {} ELSE KeysAfter(handler[h].gen)
        /\ IF Is(h, {"refresh"}) \/ (Is(h, {"suspend"}) /\ handler[h].row.token = None)
           THEN Rest(h) ELSE Goto(h, "finish")
        /\ UNCHANGED <<ws, faults>>
     \/ /\ Fault /\ UNCHANGED keys
        /\ ws' = IF Is(h, {"stop"}) /\ Owns(h) THEN Finished(ws, "stopped", None, TRUE) ELSE ws
        /\ IF Is(h, {"suspend"}) /\ handler[h].row.token # None THEN Goto(h, "giveup") ELSE Rest(h)
  /\ UNCHANGED <<call, runtime, made, last, requests, crashes, late>>

-----------------------------------------------------------------------------
(* Giving the row up *)

(* create and restart end ready with the runtime they got, stop and suspend *)
(* stopped without one, delete with a tombstone.                            *)
Finish(h) ==
  /\ At(h, "finish")
  /\ ws' = CASE Is(h, {"create", "restart", "recover"}) /\ Owns(h) ->
                  Finished(ws, "ready", handler[h].id, FALSE)
             [] Is(h, {"stop", "suspend"}) /\ Owns(h) -> Finished(ws, "stopped", None, FALSE)
             [] Is(h, {"delete"}) /\ ~ws.deleted ->
                  [Finished(ws, "stopped", None, FALSE) EXCEPT !.deleted = TRUE]
             [] OTHER -> ws
  /\ Rest(h)
  /\ UNCHANGED <<call, runtime, made, keys, last, budget>>

(* revokeFailedOperation: a new generation while the row is still owned,    *)
(* then the keys below it; their failure is ignored.                        *)
Undo(h) ==
  /\ At(h, "undo")
  /\ IF Owns(h) THEN ws' = Bumped(ws) /\ Put(h, [handler[h] EXCEPT !.gen = ws.gen, !.pc = "undo_keys"])
     ELSE UNCHANGED ws /\ Rest(h)
  /\ UNCHANGED <<call, runtime, made, keys, last, budget>>

UndoKeys(h) ==
  /\ At(h, "undo_keys")
  /\ \/ keys' = KeysAfter(handler[h].gen) /\ UNCHANGED faults
     \/ Fault /\ UNCHANGED keys
  /\ Goto(h, "giveup")
  /\ UNCHANGED <<ws, call, runtime, made, last, requests, crashes, late>>

(* The provider a failed operation leaves in the row: create and stop leave *)
(* what they found, restart none, suspend none once it was destroyed.       *)
ProviderLeft(h) ==
  CASE Is(h, {"restart", "recover"}) -> None
    [] Is(h, {"suspend"}) -> IF handler[h].gone THEN None ELSE handler[h].row.provider
    [] Is(h, {"stop"}) -> handler[h].row.provider
    [] OTHER -> ws.provider

GiveUp(h) ==
  /\ At(h, "giveup")
  /\ IF Owns(h)
     THEN /\ ws' = Finished(ws, "failed", ProviderLeft(h), FALSE)
          /\ last' = [last EXCEPT !.left = ProviderLeft(h) # None]
     ELSE UNCHANGED <<ws, last>>
  /\ Rest(h)
  /\ UNCHANGED <<call, runtime, made, keys, budget>>

-----------------------------------------------------------------------------
(* open *)

(* The node launches a healthy container of the recorded id only *)
Launch(h) ==
  /\ At(h, "launch")
  /\ IF runtime # None /\ runtime.id = handler[h].row.provider /\ runtime.health = "ready"
     THEN Goto(h, "mark") ELSE Rest(h)
  /\ UNCHANGED <<ws, call, runtime, made, keys, last, budget>>

(* The row is written whatever became of it since it was read *)
Mark(h) ==
  /\ At(h, "mark")
  /\ IF ws.deleted THEN UNCHANGED <<ws, last>>
     ELSE /\ ws' = Updated(ws, "open")
          /\ last' = [last EXCEPT !.reopened = @ \/ last.asked = "stopped"]
  /\ Rest(h)
  /\ UNCHANGED <<call, runtime, made, keys, budget>>

-----------------------------------------------------------------------------
(* current and recover *)

(* current reads the row anew; an owned one only expires *)
Read(h) ==
  /\ At(h, "read")
  /\ IF ws.deleted THEN Rest(h)
     ELSE CASE ws.token # None /\ ws.stale -> Begin(h, "refresh", "expire")
            [] ws.token = None /\ ws.provider # None /\ ws.state \in Active \cup Serving ->
                 Begin(h, "refresh", "status")
            [] OTHER -> Rest(h)
  /\ UNCHANGED <<ws, call, runtime, made, keys, last, budget>>

(* Expiry fails the operation; the grants up to its generation go with it *)
Expire(h) ==
  /\ At(h, "expire")
  /\ IF MayExpire(handler[h].row)
     THEN /\ ws' = Expired(ws) /\ Goto(h, "revoke_keys")
          /\ last' = [last EXCEPT !.left = ws.provider # None]
     ELSE UNCHANGED <<ws, last>> /\ Rest(h)
  /\ UNCHANGED <<call, runtime, made, keys, budget>>

(* mutant: a container the node does not know is reported as such *)
ReportedMissing(id) == IF runtime # None /\ runtime.id = id THEN runtime.health ELSE "not_found"

(* What the node says of the recorded container; an unknown one is stopped *)
Reported(id) == IF runtime # None /\ runtime.id = id THEN runtime.health ELSE "stopped"

(* A node that cannot be reached is no evidence, and ends the attempt *)
Status(h) ==
  /\ At(h, "status")
  /\ \/ LET saw == Reported(handler[h].row.provider)
        IN Put(h, [handler[h] EXCEPT !.saw = saw,
             !.pc = IF Is(h, {"recover"}) /\ saw \notin {"ready", "provisioning"} THEN "claim" ELSE "reconcile"])
        /\ UNCHANGED faults
     \/ Fault /\ Rest(h)
  /\ UNCHANGED <<ws, call, runtime, made, keys, last, requests, crashes, late>>

Reconciled(o, saw) ==
  Touched([ws EXCEPT !.state = IF saw = "ready" /\ o.state = "open" THEN "open" ELSE saw,
                     !.provider = IF saw = "stopped" THEN None ELSE @, !.cleanup = FALSE])

(* reconcile writes only what changed and only under its fence; current     *)
(* then renews the grants of a serving workspace, or suspends it when its   *)
(* policy drifted; recover goes on as current.                              *)
Reconcile(h) ==
  /\ At(h, "reconcile")
  /\ LET o == handler[h].row  row == Reconciled(o, handler[h].saw)
     IN IF ~ws.deleted /\ Unmoved(o)
        THEN /\ ws' = IF row.state = ws.state /\ row.provider = ws.provider THEN ws ELSE row
             /\ \/ /\ CASE Is(h, {"recover"})    -> Begin(h, "refresh", "read")
                     [] row.state \in Serving -> Goto(h, "grants")
                     [] OTHER                 -> Rest(h)
                   /\ UNCHANGED requests
                \/ /\ Is(h, {"refresh"}) /\ row.state \in Serving /\ "suspend" \in Operations
                   /\ Put(h, [handler[h] EXCEPT !.op = "suspend", !.pc = "claim", !.row = ws', !.fenced = TRUE])
                   /\ requests < MaxRequests /\ requests' = requests + 1
        ELSE Rest(h) /\ UNCHANGED <<ws, requests>>
  /\ UNCHANGED <<call, runtime, made, keys, last, crashes, faults, late>>

-----------------------------------------------------------------------------
(* The environment and the behaviours *)

(* Time passes without a write: an operation is overdue, a failed workspace *)
(* may be recovered again.                                                  *)
Age ==
  /\ ~ws.stale /\ (ws.token # None \/ ws.state = "failed") /\ ~ws.deleted
  /\ ws' = [ws EXCEPT !.stale = TRUE]
  /\ UNCHANGED <<handler, call, runtime, made, keys, last, budget>>

(* The process that runs the handler dies; what it asked the node stays asked *)
Crash(h) ==
  /\ ~At(h, "idle") /\ crashes < MaxCrashes /\ crashes' = crashes + 1
  /\ Rest(h)
  /\ UNCHANGED <<ws, call, runtime, made, keys, last, requests, faults, late>>

Step(h) ==
  \/ Claim(h) \/ Bump(h) \/ AskDestroy(h) \/ AskCreate(h) \/ Grant(h) \/ RevokeKeys(h)
  \/ Finish(h) \/ Undo(h) \/ UndoKeys(h) \/ GiveUp(h) \/ Launch(h) \/ Mark(h)
  \/ Read(h) \/ Expire(h) \/ Status(h) \/ Reconcile(h)

Node(h) == NodeDestroys(h) \/ NodeCreates(h) \/ NodeRefuses(h)

Next ==
  \/ \E h \in Handler : Arrive(h) \/ Step(h) \/ Node(h) \/ TimeOut(h) \/ Crash(h)
  \/ RuntimeChanges \/ Age

Spec == Init /\ [][Next]_vars

(* Control and the node keep running what they started, the recovery scan   *)
(* comes back every 15 seconds and time passes; nothing else is assumed of  *)
(* the members.                                                             *)
LiveSpec ==
  /\ Spec
  /\ WF_vars(Age)
  /\ WF_vars(\E h \in Handler : Recover(h))
  /\ \A h \in Handler : WF_vars(Step(h)) /\ WF_vars(Node(h))

-----------------------------------------------------------------------------
(* Properties *)

(* Every variable keeps its shape: the rows of packages/workspace-store.    *)
TypeOK ==
  /\ ws \in Row
  /\ handler \in [Handler -> HandlerRow]
  /\ call \in [Handler -> [op : {"create", "destroy"}, id : Nat \cup {None}, gen : Nat] \cup {None}]
  /\ runtime \in [id : Nat, gen : Nat, health : Health] \cup {None}
  /\ made \in Nat /\ keys \subseteq Nat
  /\ last \in [asked : {"running", "stopped"}, reopened : BOOLEAN, left : BOOLEAN]
  /\ {requests, crashes, faults, late} \subseteq Nat

(* A step of handler h *)
By(h) == handler'[h] # handler[h]

(* While a token is held, the state and the token move only by a step of    *)
(* its owner, by expiry of an overdue operation, by a stop or suspension    *)
(* that takes the row over, or by a deletion.  The exception is an open     *)
(* that is written late: it changes nothing but what the row says of the    *)
(* workspace, and then a restart may take the row as it would an open one.  *)
OwnerDecides ==
  [][ws.token # None /\ <<ws.state, ws.token>>' # <<ws.state, ws.token>> =>
       \/ By(ws.token)
       \/ ws.stale /\ ws'.state = "failed" /\ ws'.token = None
       \/ ws'.state = "stopping" /\ ws'.token \in Handler
       \/ ws'.deleted
       \/ ws'.state = "open" /\ UNCHANGED <<ws.token, ws.provider, ws.gen, ws.deleted>>
       \/ ws.state = "open" /\ ws'.state = "restarting" /\ ws'.token \in Handler]_vars

(* "The operation owner alone decides when a start/restart/stop has         *)
(* finished" (service.ts, current): the same without the exception.         *)
OwnerAloneDecides ==
  [][ws.token # None /\ ws'.state # ws.state =>
       \/ By(ws.token)
       \/ ws.stale /\ ws'.state = "failed" /\ ws'.token = None
       \/ ws'.state = "stopping" /\ ws'.token \in Handler
       \/ ws'.deleted]_vars

(* Recovery never undoes a Stop, however late its scan is answered: a       *)
(* recovery handler takes the row for a restart only while the last thing   *)
(* asked of the workspace was to run, or an open was written after it.      *)
RecoveryFollowsIntent ==
  [][\A h \in Handler : handler[h].op = "recover" /\ ws'.token = h /\ ws.token # h =>
       last.asked = "running" \/ last.reopened]_vars

(* Suspended workspaces "remain safely stopped" (workspace-guardrail-       *)
(* reconciliation.md): recovery restarts none that was last asked to stop.  *)
StoppedStayStopped ==
  [][\A h \in Handler : handler[h].op = "recover" /\ ws'.token = h /\ ws.token # h =>
       last.asked = "running"]_vars

(* A workspace shown as ready or open runs the container its row names with *)
(* the grants of the row's generation: a container of an older generation   *)
(* holds gateway keys and bridge tokens that are revoked for good.          *)
ServedRuntimeIsCurrent ==
  ws.token = None /\ ws.state \in Serving =>
    /\ ws.provider # None
    /\ runtime # None /\ runtime.id = ws.provider => runtime.gen = ws.gen

(* The same unless the last operation failed or lapsed and left a container *)
(* in the row: recovery takes that one for the workspace's own.  A finished *)
(* start, a stop, a failure and a status that arrives late never show a     *)
(* container of older grants, whichever of them lost the row.               *)
FinishedRuntimeIsCurrent == ~last.left => ServedRuntimeIsCurrent

(* "An expired/replaced operation must never revoke a replacement's grants" *)
(* (service.ts, revokeFailedOperation): a revocation that deletes the keys  *)
(* of the row's current generation is a step of the row's owner.            *)
ReplacementKeepsGrants ==
  [][ws.gen \in keys /\ ws.gen \notin keys' => \E h \in Handler : ws.token = h /\ By(h)]_vars

(* Cleanup revokes "every generation up to" one it knows, so no key and no   *)
(* container may ever carry a generation the row has not reached, whatever   *)
(* was deleted and revived meanwhile.                                        *)
RevocationsReachEverything ==
  /\ \A g \in keys : g <= ws.gen
  /\ runtime # None => runtime.gen <= ws.gen

(* An operation on a workspace meant to run does not hold the row forever,  *)
(* whatever dies: recovery expires it.                                      *)
OperationsEnd ==
  ws.token # None /\ ws.desired = "running" ~> ws.token = None \/ ws.desired = "stopped"
=============================================================================
