-------------------------- MODULE WorkspacesProofs --------------------------
(***************************************************************************)
(* Theorems about Workspaces, for every number of requests in flight and   *)
(* every bound on requests, crashes, faults and late calls.                *)
(***************************************************************************)
EXTENDS Workspaces, TLAPS

(* What the store's statements write is a row again. *)
LEMMA RowTypes ==
  ASSUME NEW row \in Row, NEW h \in Handler
  PROVE  /\ Touched(row) \in Row
         /\ \A next \in Active : Claimed(row, h, next) \in Row
         /\ \A state \in State, provider \in Nat \cup {None}, cleanup \in BOOLEAN :
              Finished(row, state, provider, cleanup) \in Row
         /\ Bumped(row) \in Row /\ Bumped(row).gen = row.gen + 1
         /\ \A state \in State : Updated(row, state) \in Row
         /\ Expired(row) \in Row /\ Expired(row).gen = row.gen + 1
         /\ Revived(row) \in Row
<1>0. row.gen \in Nat /\ row.gen + 1 \in Nat
  BY DEF Row
<1>1. Touched(row) \in Row
  BY DEF Touched, Row
<1>2. ASSUME NEW next \in Active PROVE Claimed(row, h, next) \in Row
  BY <1>2 DEF Claimed, Touched, Row, Active, State
<1>3. ASSUME NEW state \in State, NEW provider \in Nat \cup {None}, NEW cleanup \in BOOLEAN
      PROVE  Finished(row, state, provider, cleanup) \in Row
  BY DEF Finished, Touched, Row
<1>4. Bumped(row) \in Row /\ Bumped(row).gen = row.gen + 1
  <2> DEFINE g == row.gen + 1
  <2> HIDE DEF g
  <2>1. g \in Nat
    BY <1>0 DEF g
  <2>2. [[row EXCEPT !.gen = g] EXCEPT !.stale = FALSE] \in Row
    BY <2>1 DEF Row
  <2>3. [[row EXCEPT !.gen = g] EXCEPT !.stale = FALSE].gen = g
    BY DEF Row
  <2> QED
    BY <2>2, <2>3 DEF Bumped, Touched, g
<1>5. ASSUME NEW state \in State PROVE Updated(row, state) \in Row
  BY DEF Updated, Touched, Row
<1>6. Expired(row) \in Row /\ Expired(row).gen = row.gen + 1
  <2> DEFINE g == row.gen + 1
             lapsed == [row EXCEPT !.state = "failed", !.token = None, !.cleanup = FALSE, !.gen = g]
  <2> HIDE DEF g
  <2>1. g \in Nat
    BY <1>0 DEF g
  <2>2. lapsed \in Row /\ lapsed.gen = g
    BY <2>1 DEF Row, State
  <2>3. Touched(lapsed) \in Row /\ Touched(lapsed).gen = g
    BY <2>2 DEF Touched, Row
  <2> QED
    BY <2>3 DEF Expired, g
<1>7. Revived(row) \in Row
  BY DEF Revived, Touched, Row, State
<1> QED
  BY <1>1, <1>2, <1>3, <1>4, <1>5, <1>6, <1>7

LEMMA RestingType == Resting \in HandlerRow
<1>1. NewRow \in Row
  BY WorkspaceAssumption DEF NewRow, Row, State
<1> QED
  BY <1>1 DEF Resting, HandlerRow, Place, Health

(* A handler that starts on the row of this moment is a handler. *)
LEMMA HandlerTypes ==
  ASSUME TypeOK, NEW h \in Handler
  PROVE  /\ Resting \in HandlerRow
         /\ \A pc \in Place : [handler[h] EXCEPT !.pc = pc] \in HandlerRow
         /\ \A op \in Claims \cup {"none", "refresh"}, pc \in Place :
              [Resting EXCEPT !.op = op, !.pc = pc, !.row = ws, !.gen = ws.gen] \in HandlerRow
<1>2. Resting \in HandlerRow
  BY RestingType
<1>3. handler[h] \in HandlerRow
  BY DEF TypeOK
<1>4. \A pc \in Place : [handler[h] EXCEPT !.pc = pc] \in HandlerRow
  BY <1>3 DEF HandlerRow
<1>5. ws \in Row /\ ws.gen \in Nat
  BY DEF TypeOK, Row
<1>6. \A op \in Claims \cup {"none", "refresh"}, pc \in Place :
        [Resting EXCEPT !.op = op, !.pc = pc, !.row = ws, !.gen = ws.gen] \in HandlerRow
  BY <1>2, <1>5 DEF HandlerRow
<1> QED
  BY <1>2, <1>4, <1>6

(* The ways a handler moves: to a new record, to a place, to rest, to failure *)
LEMMA PutTypes ==
  ASSUME TypeOK, NEW h \in Handler
  PROVE  /\ \A r \in HandlerRow : Put(h, r) => handler' \in [Handler -> HandlerRow]
         /\ \A pc \in Place : Goto(h, pc) => handler' \in [Handler -> HandlerRow]
         /\ Rest(h) => handler' \in [Handler -> HandlerRow]
         /\ Failed(h) => handler' \in [Handler -> HandlerRow]
         /\ \A op \in Claims \cup {"none", "refresh"}, pc \in Place :
              Begin(h, op, pc) => handler' \in [Handler -> HandlerRow]
<1>1. \A r \in HandlerRow : Put(h, r) => handler' \in [Handler -> HandlerRow]
  <2> SUFFICES ASSUME NEW r \in HandlerRow, Put(h, r)
               PROVE  handler' \in [Handler -> HandlerRow]
    OBVIOUS
  <2>1. handler \in [Handler -> HandlerRow]
    BY DEF TypeOK
  <2> QED
    BY <2>1 DEF Put
<1>2. \A pc \in Place : Goto(h, pc) => handler' \in [Handler -> HandlerRow]
  BY <1>1, HandlerTypes DEF Goto
<1>3. Rest(h) => handler' \in [Handler -> HandlerRow]
  BY <1>1, HandlerTypes DEF Rest
<1>4. Failed(h) => handler' \in [Handler -> HandlerRow]
  <2>1. {"undo", "giveup"} \subseteq Place
    BY DEF Place
  <2> QED
    BY <1>2, <1>3, <2>1 DEF Failed
<1>5. \A op \in Claims \cup {"none", "refresh"}, pc \in Place :
        Begin(h, op, pc) => handler' \in [Handler -> HandlerRow]
  BY <1>1, HandlerTypes DEF Begin
<1> QED
  BY <1>1, <1>2, <1>3, <1>4, <1>5

LEMMA InitTypes == Init => TypeOK
<1> SUFFICES ASSUME Init PROVE TypeOK
  OBVIOUS
<1>1. NewRow \in Row
  BY WorkspaceAssumption DEF NewRow, Row, State
<1>2. Resting \in HandlerRow
  BY RestingType
<1> QED
  BY <1>1, <1>2 DEF Init, TypeOK

(* The requests that arrive *)
LEMMA ArriveTypes ==
  ASSUME TypeOK, NEW h \in Handler, Arrive(h)
  PROVE  TypeOK'
<1> USE WorkspaceAssumption
<1>1. PICK op \in Operations : Admit(h, op)
  BY DEF Arrive, Create, Restart, Stop, Suspend, Open, Delete, Refresh, Recover, Admit
<1>2. ws' \in Row
  BY RowTypes DEF Arrive, Create, Restart, Stop, Suspend, Open, Delete, Refresh, Recover, TypeOK
<1>3. ws' = ws \/ ws' = Revived(ws)
  BY DEF Arrive, Create, Restart, Stop, Suspend, Open, Delete, Refresh, Recover
<1>4. \E r \in HandlerRow : Put(h, r)
  <2>1. [Resting EXCEPT !.op = "recover", !.row = ws, !.gen = ws.gen, !.fenced = TRUE,
                        !.pc = IF ws.provider = None THEN "claim" ELSE "status"] \in HandlerRow
    <3>1. Resting \in HandlerRow /\ ws \in Row /\ ws.gen \in Nat
      BY HandlerTypes DEF TypeOK, Row
    <3>2. (IF ws.provider = None THEN "claim" ELSE "status") \in Place
      BY DEF Place
    <3> QED
      BY <3>1, <3>2 DEF HandlerRow, Claims
  <2>2. \A o \in Claims \cup {"refresh"}, pc \in {"claim", "revoke_keys", "grants", "bump", "read"} :
          Begin(h, o, pc) => \E r \in HandlerRow : Put(h, r)
    BY HandlerTypes DEF Begin, Place
  <2> QED
    BY <2>1, <2>2 DEF Arrive, Create, Restart, Stop, Suspend, Open, Delete, Refresh, Recover, Claims
<1>5. requests' \in Nat
  BY <1>1 DEF Admit, TypeOK
<1> QED
  BY <1>1, <1>2, <1>4, <1>5 DEF Put, Admit, TypeOK

(* Taking the row, giving it up, and expiry *)
LEMMA RowStepTypes ==
  ASSUME TypeOK, NEW h \in Handler,
         Claim(h) \/ Bump(h) \/ Finish(h) \/ Undo(h) \/ GiveUp(h) \/ Mark(h) \/ Expire(h)
  PROVE  TypeOK'
<1> USE WorkspaceAssumption
<1>0. ws \in Row /\ ws.gen \in Nat /\ handler[h] \in HandlerRow /\ ws.provider \in Nat \cup {None}
  BY DEF TypeOK, Row
<1>1. CASE Claim(h)
  <2>1. Target(handler[h].op) \in Active
    BY DEF Target, Active
  <2>2. Claimed(ws, h, Target(handler[h].op)) \in Row
    BY <1>0, <2>1, RowTypes
  <2>3. ws' \in Row
    BY <1>0, <1>1, <2>2 DEF Claim
  <2>4. handler' \in [Handler -> HandlerRow]
    <3>1. [handler[h] EXCEPT !.row = ws', !.gen = ws.gen, !.gone = ws.provider = None,
                             !.pc = IF handler[h].op = "create" THEN "grants" ELSE "bump"] \in HandlerRow
      BY <1>0, <2>3 DEF HandlerRow, Place
    <3> QED
      BY <1>1, <3>1, PutTypes DEF Claim
  <2>5. last' \in [asked : {"running", "stopped"}, reopened : BOOLEAN, left : BOOLEAN]
    <3>1. last \in [asked : {"running", "stopped"}, reopened : BOOLEAN, left : BOOLEAN]
      BY DEF TypeOK
    <3>2. \/ last' = last
          \/ \E a \in {"running", "stopped", last.asked}, r \in BOOLEAN :
               last' = [left |-> FALSE, reopened |-> r, asked |-> a]
      <4>1. last.reopened \in BOOLEAN
        BY <3>1
      <4>2. (Is(h, {"recover"}) /\ last.reopened) \in BOOLEAN
        BY <4>1, Zenon
      <4> QED
        BY <1>1, <4>2, Zenon DEF Claim
    <3>3. \A a \in {"running", "stopped", last.asked}, r \in BOOLEAN :
            [left |-> FALSE, reopened |-> r, asked |-> a] \in [asked : {"running", "stopped"}, reopened : BOOLEAN, left : BOOLEAN]
      BY <3>1
    <3> QED
      BY <3>1, <3>2, <3>3
  <2> QED
    BY <1>1, <2>3, <2>4, <2>5 DEF Claim, TypeOK, budget
<1>2. CASE Bump(h)
  <2>0. ws' = ws \/ ws' = Bumped(ws)
    BY <1>2 DEF Bump
  <2>1. ws' \in Row
    BY <1>0, <2>0, RowTypes
  <2>2. ws'.gen \in Nat /\ handler[h].gen \in Nat
    BY <1>0, <2>1 DEF Row, HandlerRow
  <2>3. \A g \in Nat, pc \in Place : [handler[h] EXCEPT !.gen = g, !.pc = pc] \in HandlerRow
    BY <1>0 DEF HandlerRow
  <2>4. {"destroy", "grants", "revoke_keys"} \subseteq Place
    BY DEF Place
  <2>5. \/ Rest(h)
        \/ \E g \in {ws'.gen, handler[h].gen}, pc \in {"destroy", "grants", "revoke_keys"} :
             Put(h, [handler[h] EXCEPT !.gen = g, !.pc = pc])
    BY <1>2 DEF Bump, AfterDestroy
  <2>6. handler' \in [Handler -> HandlerRow]
    BY <2>2, <2>3, <2>4, <2>5, PutTypes
  <2> QED
    BY <1>2, <2>1, <2>6 DEF Bump, TypeOK, budget
<1>3. CASE Finish(h)
  <2>1. handler[h].id \in Nat \cup {None}
    BY <1>0 DEF HandlerRow
  <2>2. Finished(ws, "ready", handler[h].id, FALSE) \in Row /\ Finished(ws, "stopped", None, FALSE) \in Row
    BY <1>0, <2>1, RowTypes DEF State, Serving, Active
  <2>3. [Finished(ws, "stopped", None, FALSE) EXCEPT !.deleted = TRUE] \in Row
    BY <2>2 DEF Row
  <2>4. ws' \in Row
    BY <1>0, <1>3, <2>2, <2>3 DEF Finish
  <2>5. handler' \in [Handler -> HandlerRow]
    BY <1>3, PutTypes DEF Finish
  <2> QED
    BY <1>3, <2>4, <2>5 DEF Finish, TypeOK, budget
<1>4. CASE Undo(h)
  <2>1. ws' \in Row
    BY <1>0, <1>4, RowTypes DEF Undo
  <2>2. [handler[h] EXCEPT !.gen = ws.gen, !.pc = "undo_keys"] \in HandlerRow
    BY <1>0 DEF HandlerRow, Place
  <2>3. handler' \in [Handler -> HandlerRow]
    BY <1>4, <2>2, PutTypes DEF Undo
  <2> QED
    BY <1>4, <2>1, <2>3 DEF Undo, TypeOK, budget
<1>5. CASE GiveUp(h)
  <2>1. ProviderLeft(h) \in Nat \cup {None}
    BY <1>0 DEF ProviderLeft, HandlerRow, Row
  <2>2. ws' \in Row
    <3>1. Finished(ws, "failed", ProviderLeft(h), FALSE) \in Row
      BY <1>0, <2>1, RowTypes DEF State
    <3>2. ws' \in {ws, Finished(ws, "failed", ProviderLeft(h), FALSE)}
      BY <1>5 DEF GiveUp
    <3> QED
      BY <1>0, <3>1, <3>2
  <2>3. handler' \in [Handler -> HandlerRow]
    BY <1>5, PutTypes DEF GiveUp
  <2>4. last' \in [asked : {"running", "stopped"}, reopened : BOOLEAN, left : BOOLEAN]
    BY <1>5 DEF GiveUp, TypeOK
  <2> QED
    BY <1>5, <2>2, <2>3, <2>4 DEF GiveUp, TypeOK, budget
<1>6. CASE Mark(h)
  <2>1. ws' \in Row
    BY <1>0, <1>6, RowTypes DEF Mark, State, Serving
  <2>2. handler' \in [Handler -> HandlerRow]
    BY <1>6, PutTypes DEF Mark
  <2>3. last' \in [asked : {"running", "stopped"}, reopened : BOOLEAN, left : BOOLEAN]
    BY <1>6 DEF Mark, TypeOK
  <2> QED
    BY <1>6, <2>1, <2>2, <2>3 DEF Mark, TypeOK, budget
<1>7. CASE Expire(h)
  <2>1. ws' \in Row
    BY <1>0, <1>7, RowTypes DEF Expire
  <2>2. last' \in [asked : {"running", "stopped"}, reopened : BOOLEAN, left : BOOLEAN]
    BY <1>7 DEF Expire, TypeOK
  <2>3. handler' \in [Handler -> HandlerRow]
    BY <1>7, PutTypes DEF Expire, Place
  <2> QED
    BY <1>7, <2>1, <2>2, <2>3 DEF Expire, TypeOK, budget
<1> QED
  BY <1>1, <1>2, <1>3, <1>4, <1>5, <1>6, <1>7

(* What a handler asks of the node and the gateway *)
LEMMA CallTypes ==
  ASSUME TypeOK, NEW h \in Handler,
         AskDestroy(h) \/ AskCreate(h) \/ Grant(h) \/ RevokeKeys(h) \/ UndoKeys(h) \/ Launch(h)
  PROVE  TypeOK'
<1>0. /\ handler[h].gen \in Nat /\ handler[h].row.provider \in Nat \cup {None} /\ keys \subseteq Nat
      /\ faults \in Nat
  BY DEF TypeOK, HandlerRow, Row
<1>1. CASE AskDestroy(h)
  <2>1. handler' \in [Handler -> HandlerRow]
    BY <1>1, PutTypes DEF AskDestroy, Place
  <2> QED
    BY <1>0, <1>1, <2>1 DEF AskDestroy, TypeOK, budget
<1>2. CASE AskCreate(h)
  <2>1. handler' \in [Handler -> HandlerRow]
    BY <1>2, PutTypes DEF AskCreate, Place
  <2> QED
    BY <1>0, <1>2, <2>1 DEF AskCreate, TypeOK, budget
<1>3. CASE Grant(h)
  <2>1. handler' \in [Handler -> HandlerRow]
    BY <1>3, PutTypes DEF Grant, AfterGrants, Place
  <2>2. keys' \subseteq Nat
    BY <1>0, <1>3 DEF Grant
  <2>9. faults' \in Nat
    BY <1>0, <1>3 DEF Grant, Fault
  <2> QED
    BY <1>3, <2>1, <2>2, <2>9 DEF Grant, TypeOK
<1>4. CASE RevokeKeys(h)
  <2>1. handler' \in [Handler -> HandlerRow]
    BY <1>4, PutTypes DEF RevokeKeys, Place
  <2>2. keys' \subseteq Nat
    BY <1>0, <1>4 DEF RevokeKeys, KeysAfter
  <2>9. faults' \in Nat
    <3>1. faults' = faults \/ Fault
      BY <1>4, Zenon DEF RevokeKeys
    <3> QED
      BY <1>0, <3>1 DEF Fault
  <2>3. Finished(ws, "stopped", None, TRUE) \in Row
    BY RowTypes DEF TypeOK, State
  <2>4. ws' \in Row
    BY <1>4, <2>3 DEF RevokeKeys, TypeOK
  <2> QED
    BY <1>4, <2>1, <2>2, <2>4, <2>9 DEF RevokeKeys, TypeOK
<1>5. CASE UndoKeys(h)
  <2>1. handler' \in [Handler -> HandlerRow]
    BY <1>5, PutTypes DEF UndoKeys, Place
  <2>2. keys' \subseteq Nat
    BY <1>0, <1>5 DEF UndoKeys, KeysAfter
  <2>9. faults' \in Nat
    BY <1>0, <1>5 DEF UndoKeys, Fault
  <2> QED
    BY <1>5, <2>1, <2>2, <2>9 DEF UndoKeys, TypeOK
<1>6. CASE Launch(h)
  <2>1. handler' \in [Handler -> HandlerRow]
    BY <1>6, PutTypes DEF Launch, Place
  <2> QED
    BY <1>6, <2>1 DEF Launch, TypeOK, budget
<1> QED
  BY <1>1, <1>2, <1>3, <1>4, <1>5, <1>6

(* What the node does with it *)
LEMMA NodeTypes ==
  ASSUME TypeOK, NEW h \in Handler, Node(h) \/ TimeOut(h)
  PROVE  TypeOK'
<1> USE WorkspaceAssumption
<1> DEFINE Call == [op : {"create", "destroy"}, id : Nat \cup {None}, gen : Nat]
           Runtime == [id : Nat, gen : Nat, health : Health]
<1>0. /\ call \in [Handler -> Call \cup {None}] /\ runtime \in Runtime \cup {None} /\ made \in Nat
      /\ {requests, crashes, faults, late} \subseteq Nat /\ handler[h] \in HandlerRow
      /\ handler \in [Handler -> HandlerRow]
  BY DEF TypeOK
<1>1. call[h] # None => call[h] \in Call
  BY <1>0
<1>2. CASE NodeDestroys(h)
  <2>1. \A pc \in Place : [handler[h] EXCEPT !.pc = pc, !.gone = TRUE] \in HandlerRow
    BY <1>0 DEF HandlerRow
  <2>2. handler' \in [Handler -> HandlerRow]
    BY <1>0, <1>2, <2>1, PutTypes DEF NodeDestroys, AfterDestroy, Place
  <2>3. runtime' \in Runtime \cup {None}
    BY <1>0, <1>2 DEF NodeDestroys
  <2>4. call' \in [Handler -> Call \cup {None}]
    BY <1>0, <1>2 DEF NodeDestroys
  <2> QED
    BY <1>2, <2>2, <2>3, <2>4 DEF NodeDestroys, TypeOK, budget
<1>3. CASE NodeCreates(h)
  <2>1. made' \in Nat /\ runtime' \in Runtime
    <3>1. CASE Kept(call[h].gen)
      BY <1>0, <1>3, <3>1 DEF NodeCreates, Kept
    <3>2. CASE ~Kept(call[h].gen)
      <4>1. made' \in Nat
        BY <1>0, <1>3, <3>2 DEF NodeCreates
      <4>2. call[h].gen \in Nat
        BY <1>1, <1>3 DEF NodeCreates
      <4> QED
        BY <1>3, <3>2, <4>1, <4>2 DEF NodeCreates, Health
    <3> QED
      BY <3>1, <3>2
  <2>2. runtime'.id \in Nat
    BY <2>1
  <2>3. \A id \in Nat : [handler[h] EXCEPT !.pc = "finish", !.id = id] \in HandlerRow
    BY <1>0 DEF HandlerRow, Place
  <2>4. handler' \in [Handler -> HandlerRow]
    BY <1>0, <1>3, <2>2, <2>3, PutTypes DEF NodeCreates
  <2>5. call' \in [Handler -> Call \cup {None}]
    BY <1>0, <1>3 DEF NodeCreates
  <2> QED
    BY <1>3, <2>1, <2>4, <2>5 DEF NodeCreates, TypeOK, budget
<1>4. CASE NodeRefuses(h)
  <2>1. runtime' \in Runtime \cup {None}
    BY <1>0, <1>4 DEF NodeRefuses
  <2>2. handler' \in [Handler -> HandlerRow]
    BY <1>0, <1>4, PutTypes DEF NodeRefuses
  <2>3. faults' \in Nat
    BY <1>0, <1>4 DEF NodeRefuses, Fault
  <2>4. call' \in [Handler -> Call \cup {None}]
    BY <1>0, <1>4 DEF NodeRefuses
  <2> QED
    BY <1>4, <2>1, <2>2, <2>3, <2>4 DEF NodeRefuses, TypeOK
<1>5. CASE TimeOut(h)
  <2>1. handler' \in [Handler -> HandlerRow] /\ late' \in Nat
    BY <1>0, <1>5, PutTypes DEF TimeOut
  <2> QED
    BY <1>5, <2>1 DEF TimeOut, TypeOK
<1> QED
  BY <1>2, <1>3, <1>4, <1>5 DEF Node

(* Reading the row and the status, and the environment *)
LEMMA ReadTypes ==
  ASSUME TypeOK, NEW h \in Handler, Read(h) \/ Status(h) \/ Reconcile(h) \/ Crash(h)
  PROVE  TypeOK'
<1> USE WorkspaceAssumption
<1>0. /\ ws \in Row /\ handler[h] \in HandlerRow /\ faults \in Nat /\ crashes \in Nat /\ requests \in Nat
      /\ runtime \in [id : Nat, gen : Nat, health : Health] \cup {None}
  BY DEF TypeOK
<1>1. CASE Read(h)
  <2>1. handler' \in [Handler -> HandlerRow]
    BY <1>1, PutTypes DEF Read, Place
  <2> QED
    BY <1>1, <2>1 DEF Read, TypeOK, budget
<1>2. CASE Status(h)
  <2>1. Reported(handler[h].row.provider) \in Health
    BY <1>0 DEF Reported, Health
  <2>2. \A saw \in Health, pc \in {"claim", "reconcile"} :
          [handler[h] EXCEPT !.saw = saw, !.pc = pc] \in HandlerRow
    BY <1>0 DEF HandlerRow, Place
  <2>3. handler' \in [Handler -> HandlerRow]
    BY <1>2, <2>1, <2>2, PutTypes DEF Status
  <2>4. faults' = faults \/ Fault
    BY <1>2 DEF Status
  <2>5. faults' \in Nat
    BY <1>0, <2>4 DEF Fault
  <2> QED
    BY <1>2, <2>3, <2>5 DEF Status, TypeOK
<1>3. CASE Reconcile(h)
  <2>1. handler[h].saw \in Health
    BY <1>0 DEF HandlerRow
  <2>2. Reconciled(handler[h].row, handler[h].saw) \in Row
    BY <1>0, <2>1 DEF Reconciled, Touched, Row, Health, State, Active, Serving
  <2>3. ws' \in Row
    BY <1>0, <1>3, <2>2 DEF Reconcile
  <2>4. requests' \in Nat
    <3>1. requests' = requests \/ requests' = requests + 1
      BY <1>3 DEF Reconcile
    <3> QED
      BY <1>0, <3>1
  <2>5. [handler[h] EXCEPT !.op = "suspend", !.pc = "claim", !.row = ws', !.fenced = TRUE] \in HandlerRow
    BY <1>0, <2>3 DEF HandlerRow, Place, Claims
  <2>6. handler' \in [Handler -> HandlerRow]
    BY <1>3, <2>5, PutTypes DEF Reconcile, Place
  <2> QED
    BY <1>3, <2>3, <2>4, <2>6 DEF Reconcile, TypeOK
<1>4. CASE Crash(h)
  <2>1. handler' \in [Handler -> HandlerRow] /\ crashes' \in Nat
    BY <1>0, <1>4, PutTypes DEF Crash
  <2> QED
    BY <1>4, <2>1 DEF Crash, TypeOK
<1> QED
  BY <1>1, <1>2, <1>3, <1>4

LEMMA WorldTypes ==
  ASSUME TypeOK, RuntimeChanges \/ Age
  PROVE  TypeOK'
<1>0. ws \in Row /\ faults \in Nat /\ runtime \in [id : Nat, gen : Nat, health : Health] \cup {None}
  BY DEF TypeOK
<1>1. CASE RuntimeChanges
  <2>1. \A health \in Health : [runtime EXCEPT !.health = health] \in [id : Nat, gen : Nat, health : Health]
    BY <1>0, <1>1 DEF RuntimeChanges
  <2>2. runtime' \in [id : Nat, gen : Nat, health : Health]
    BY <1>1, <2>1 DEF RuntimeChanges, Health
  <2>3. faults' \in Nat
    BY <1>0, <1>1 DEF RuntimeChanges, Fault
  <2> QED
    BY <1>1, <2>2, <2>3 DEF RuntimeChanges, TypeOK
<1>2. CASE Age
  <2>1. ws' \in Row
    BY <1>0, <1>2 DEF Age, Row
  <2> QED
    BY <1>2, <2>1 DEF Age, TypeOK, budget
<1> QED
  BY <1>1, <1>2

(* Every variable keeps its shape in every behaviour of the service.        *)
THEOREM TypeCorrect == Spec => []TypeOK
<1>1. TypeOK /\ [Next]_vars => TypeOK'
  <2> SUFFICES ASSUME TypeOK, [Next]_vars PROVE TypeOK'
    OBVIOUS
  <2>1. CASE UNCHANGED vars
    BY <2>1 DEF TypeOK, vars
  <2>2. CASE Next
    BY <2>2, ArriveTypes, RowStepTypes, CallTypes, NodeTypes, ReadTypes, WorldTypes DEF Next, Step
  <2> QED
    BY <2>1, <2>2
<1> QED
  BY InitTypes, <1>1, PTL DEF Spec

-----------------------------------------------------------------------------
(* Generations *)

(* Nothing that can make or revoke grants knows a generation the row has    *)
(* not reached.                                                             *)
Generations ==
  /\ RevocationsReachEverything
  /\ \A h \in Handler : handler[h].gen <= ws.gen
  /\ \A h \in Handler : call[h] # None => call[h].gen <= ws.gen

(* Only a new generation and expiry move the generation, and only forward.  *)
LEMMA RowGens ==
  ASSUME NEW row \in Row, NEW h \in Handler
  PROVE  /\ Touched(row).gen = row.gen
         /\ \A next : Claimed(row, h, next).gen = row.gen
         /\ \A state, provider, cleanup : Finished(row, state, provider, cleanup).gen = row.gen
         /\ \A state : Updated(row, state).gen = row.gen
         /\ Revived(row).gen = row.gen
         /\ Bumped(row).gen = row.gen + 1 /\ Expired(row).gen = row.gen + 1
<1>1. Bumped(row).gen = row.gen + 1 /\ Expired(row).gen = row.gen + 1
  BY RowTypes
<1> QED
  BY <1>1 DEF Touched, Claimed, Finished, Updated, Revived, Row

LEMMA RowMovesForward ==
  ASSUME TypeOK, Next
  PROVE  ws'.gen \in {ws.gen, ws.gen + 1} /\ ws.gen \in Nat /\ ws'.gen >= ws.gen
<1>0. ws \in Row /\ ws.gen \in Nat
  BY DEF TypeOK, Row
<1>1. ASSUME NEW h \in Handler, Arrive(h) PROVE ws'.gen = ws.gen
  BY <1>0, <1>1, RowGens DEF Arrive, Create, Restart, Stop, Suspend, Open, Delete, Refresh, Recover
<1>2. ASSUME NEW h \in Handler, Step(h) PROVE ws'.gen \in {ws.gen, ws.gen + 1}
  <2>1. CASE Claim(h)
    BY <1>0, <2>1, RowGens DEF Claim
  <2>2. CASE Bump(h)
    BY <1>0, <2>2, RowGens DEF Bump
  <2>3. CASE Undo(h)
    BY <1>0, <2>3, RowGens DEF Undo
  <2>4. CASE Expire(h)
    BY <1>0, <2>4, RowGens DEF Expire
  <2>5. CASE RevokeKeys(h)
    <3>1. ws' \in {ws, Finished(ws, "stopped", None, TRUE)}
      BY <2>5, Zenon DEF RevokeKeys
    <3>2. Finished(ws, "stopped", None, TRUE).gen = ws.gen
      BY <1>0 DEF Finished, Touched, Row
    <3> QED
      BY <1>0, <3>1, <3>2
  <2>6. CASE Finish(h)
    <3>1. ws' \in {ws, Finished(ws, "ready", handler[h].id, FALSE), Finished(ws, "stopped", None, FALSE),
                   [Finished(ws, "stopped", None, FALSE) EXCEPT !.deleted = TRUE]}
      BY <2>6 DEF Finish
    <3>2. Finished(ws, "stopped", None, FALSE) \in Row
      BY <1>0, RowTypes DEF State
    <3>3. \A r \in Row : [r EXCEPT !.deleted = TRUE].gen = r.gen
      BY DEF Row
    <3>4. Finished(ws, "stopped", None, FALSE).gen = ws.gen /\ Finished(ws, "ready", handler[h].id, FALSE).gen = ws.gen
      BY <1>0 DEF Finished, Touched, Row
    <3> QED
      BY <1>0, <3>1, <3>2, <3>3, <3>4
  <2>7. CASE GiveUp(h)
    <3>1. Finished(ws, "failed", ProviderLeft(h), FALSE).gen = ws.gen
      BY <1>0 DEF Finished, Touched, Row
    <3> QED
      BY <2>7, <3>1 DEF GiveUp
  <2>8. CASE Mark(h)
    BY <1>0, <2>8, RowGens DEF Mark
  <2>9. CASE Reconcile(h)
    <3>1. Reconciled(handler[h].row, handler[h].saw).gen = ws.gen
      BY <1>0 DEF Reconciled, Touched, Row
    <3> QED
      BY <2>9, <3>1 DEF Reconcile
  <2>10. CASE AskDestroy(h) \/ AskCreate(h) \/ Grant(h) \/ UndoKeys(h) \/ Launch(h) \/ Read(h) \/ Status(h)
    BY <2>10 DEF AskDestroy, AskCreate, Grant, UndoKeys, Launch, Read, Status
  <2> QED
    BY <1>2, <2>1, <2>2, <2>3, <2>4, <2>5, <2>6, <2>7, <2>8, <2>9, <2>10 DEF Step
<1>3. ASSUME NEW h \in Handler, Node(h) \/ TimeOut(h) \/ Crash(h) PROVE ws'.gen = ws.gen
  BY <1>3 DEF Node, NodeDestroys, NodeCreates, NodeRefuses, TimeOut, Crash
<1>4. ASSUME RuntimeChanges \/ Age PROVE ws'.gen = ws.gen
  BY <1>0, <1>4 DEF RuntimeChanges, Age, Row
<1>5. ws'.gen \in {ws.gen, ws.gen + 1}
  BY <1>1, <1>2, <1>3, <1>4 DEF Next
<1> QED
  BY <1>0, <1>5

(* The generation a handler works with is one it read from the row or made. *)
LEMMA HandlersFollow ==
  ASSUME TypeOK, Next, NEW k \in Handler
  PROVE  handler'[k].gen \in {handler[k].gen, 0, ws.gen, ws'.gen}
<1>0. /\ handler \in [Handler -> HandlerRow] /\ handler[k] \in HandlerRow
      /\ ws \in Row /\ Resting \in HandlerRow /\ Resting.gen = 0
  BY HandlerTypes DEF TypeOK, Resting
<1>1. ASSUME NEW h \in Handler, NEW r, Put(h, r)
      PROVE  handler'[k] = IF k = h THEN r ELSE handler[k]
  BY <1>0, <1>1 DEF Put
<1>2. ASSUME NEW h \in Handler, Rest(h) PROVE handler'[k].gen \in {handler[k].gen, 0}
  BY <1>0, <1>1, <1>2 DEF Rest
<1>3. ASSUME NEW h \in Handler, NEW pc, Goto(h, pc) PROVE handler'[k].gen = handler[k].gen
  BY <1>0, <1>1, <1>3 DEF Goto, HandlerRow
<1>4. ASSUME NEW h \in Handler, Failed(h) PROVE handler'[k].gen \in {handler[k].gen, 0}
  BY <1>2, <1>3, <1>4 DEF Failed
<1>5. ASSUME NEW h \in Handler, NEW op, NEW pc, Begin(h, op, pc) PROVE handler'[k].gen \in {handler[k].gen, ws.gen}
  <2>1. [Resting EXCEPT !.op = op, !.pc = pc, !.row = ws, !.gen = ws.gen].gen = ws.gen
    BY <1>0 DEF HandlerRow
  <2> QED
    BY <1>0, <1>1, <1>5, <2>1 DEF Begin
<1>6. ASSUME NEW h \in Handler, Arrive(h) PROVE handler'[k].gen \in {handler[k].gen, ws.gen}
  <2>1. CASE Recover(h)
    <3>1. [Resting EXCEPT !.op = "recover", !.row = ws, !.gen = ws.gen, !.fenced = TRUE,
                          !.pc = IF ws.provider = None THEN "claim" ELSE "status"].gen = ws.gen
      BY <1>0 DEF HandlerRow
    <3> QED
      BY <1>1, <1>5, <2>1, <3>1 DEF Recover
  <2> QED
    BY <1>5, <1>6, <2>1 DEF Arrive, Create, Restart, Stop, Suspend, Open, Delete, Refresh
<1>7. ASSUME NEW h \in Handler, Step(h) PROVE handler'[k].gen \in {handler[k].gen, 0, ws.gen, ws'.gen}
  <2>0. handler[h] \in HandlerRow
    BY <1>0
  <2>1. CASE Claim(h)
    <3>1. [handler[h] EXCEPT !.row = ws', !.gen = ws.gen, !.gone = ws.provider = None,
                             !.pc = IF handler[h].op = "create" THEN "grants" ELSE "bump"].gen = ws.gen
      BY <2>0 DEF HandlerRow
    <3> QED
      BY <1>1, <1>2, <2>1, <3>1 DEF Claim
  <2>2. CASE Bump(h)
    <3>1. \A g, pc : [handler[h] EXCEPT !.gen = g, !.pc = pc].gen = g
      BY <2>0 DEF HandlerRow
    <3>2. \/ Rest(h)
          \/ \E g \in {ws'.gen, handler[h].gen}, pc \in {"destroy", AfterDestroy(handler[h].op)} :
               Put(h, [handler[h] EXCEPT !.gen = g, !.pc = pc])
      BY <2>2 DEF Bump
    <3>3. ASSUME NEW g, NEW pc, Put(h, [handler[h] EXCEPT !.gen = g, !.pc = pc])
          PROVE  handler'[k].gen \in {handler[k].gen, g}
      <4>1. [handler[h] EXCEPT !.gen = g, !.pc = pc].gen = g
        BY <3>1
      <4> QED
        BY <1>1, <3>3, <4>1
    <3>4. CASE Rest(h)
      BY <1>2, <3>4
    <3>5. ASSUME ~Rest(h) PROVE handler'[k].gen \in {handler[k].gen, 0, ws.gen, ws'.gen}
      <4>1. PICK g \in {ws'.gen, handler[h].gen}, pc \in {"destroy", AfterDestroy(handler[h].op)} :
              Put(h, [handler[h] EXCEPT !.gen = g, !.pc = pc])
        BY <3>2, <3>5
      <4>2. CASE k = h
        BY <3>3, <4>1, <4>2
      <4>3. CASE k # h
        BY <1>1, <4>1, <4>3
      <4> QED
        BY <4>2, <4>3
    <3> QED
      BY <3>4, <3>5
  <2>3. CASE Undo(h)
    <3>1. [handler[h] EXCEPT !.gen = ws.gen, !.pc = "undo_keys"].gen = ws.gen
      BY <2>0 DEF HandlerRow
    <3> QED
      BY <1>1, <1>2, <2>3, <3>1 DEF Undo
  <2>4. CASE Status(h)
    <3>1. ASSUME NEW saw, NEW pc, Put(h, [handler[h] EXCEPT !.saw = saw, !.pc = pc])
          PROVE  handler'[k].gen = handler[k].gen
      <4>1. [handler[h] EXCEPT !.saw = saw, !.pc = pc].gen = handler[h].gen
        BY <2>0 DEF HandlerRow
      <4> QED
        BY <1>1, <3>1, <4>1
    <3> QED
      BY <1>2, <2>4, <3>1 DEF Status
  <2>5. CASE Reconcile(h)
    <3>1. [handler[h] EXCEPT !.op = "suspend", !.pc = "claim", !.row = ws', !.fenced = TRUE].gen = handler[h].gen
      BY <2>0 DEF HandlerRow
    <3> QED
      BY <1>1, <1>2, <1>3, <1>5, <2>5, <3>1 DEF Reconcile
  <2>6. CASE Grant(h)
    BY <1>2, <1>3, <1>4, <2>6 DEF Grant
  <2>7. CASE RevokeKeys(h)
    BY <1>2, <1>3, <2>7 DEF RevokeKeys
  <2>8. CASE Expire(h) \/ Launch(h)
    BY <1>2, <1>3, <2>8 DEF Expire, Launch
  <2>9. CASE Finish(h) \/ GiveUp(h) \/ Mark(h)
    BY <1>2, <2>9 DEF Finish, GiveUp, Mark
  <2>10. CASE AskDestroy(h) \/ AskCreate(h) \/ UndoKeys(h)
    BY <1>3, <2>10 DEF AskDestroy, AskCreate, UndoKeys
  <2>11. CASE Read(h)
    BY <1>2, <1>5, <2>11 DEF Read
  <2> QED
    BY <1>7, <2>1, <2>2, <2>3, <2>4, <2>5, <2>6, <2>7, <2>8, <2>9, <2>10, <2>11 DEF Step
<1>8. ASSUME NEW h \in Handler, Node(h) \/ TimeOut(h) \/ Crash(h) PROVE handler'[k].gen \in {handler[k].gen, 0}
  <2>0. handler[h] \in HandlerRow
    BY <1>0
  <2>1. CASE NodeDestroys(h)
    <3>1. [handler[h] EXCEPT !.pc = AfterDestroy(handler[h].op), !.gone = TRUE].gen = handler[h].gen
      BY <2>0 DEF HandlerRow
    <3> QED
      BY <1>1, <2>1, <3>1 DEF NodeDestroys
  <2>2. CASE NodeCreates(h)
    <3>1. [handler[h] EXCEPT !.pc = "finish", !.id = runtime'.id].gen = handler[h].gen
      BY <2>0 DEF HandlerRow
    <3> QED
      BY <1>1, <2>2, <3>1 DEF NodeCreates
  <2>3. CASE NodeRefuses(h) \/ TimeOut(h) \/ Crash(h)
    BY <1>2, <1>4, <2>3 DEF NodeRefuses, TimeOut, Crash
  <2> QED
    BY <1>8, <2>1, <2>2, <2>3 DEF Node
<1>9. ASSUME RuntimeChanges \/ Age PROVE handler' = handler
  BY <1>9 DEF RuntimeChanges, Age
<1> QED
  BY <1>6, <1>7, <1>8, <1>9 DEF Next

LEMMA GenerationsKept ==
  ASSUME TypeOK, Generations, Next
  PROVE  Generations'
<1>0. /\ ws.gen \in Nat /\ ws'.gen \in Nat /\ ws'.gen >= ws.gen
  BY RowMovesForward
<1>t. /\ handler \in [Handler -> HandlerRow] /\ keys \subseteq Nat
      /\ call \in [Handler -> [op : {"create", "destroy"}, id : Nat \cup {None}, gen : Nat] \cup {None}]
      /\ runtime \in [id : Nat, gen : Nat, health : Health] \cup {None}
      /\ \A h \in Handler : handler[h].gen \in Nat
  BY DEF TypeOK, HandlerRow
<1>1. \A k \in Handler : handler'[k].gen <= ws'.gen
  BY <1>0, <1>t, HandlersFollow DEF Generations
<1>2. \A g \in keys' : g <= ws'.gen
  <2>1. \/ keys' \subseteq keys
        \/ \E h \in Handler : keys' = keys \cup {handler[h].gen}
    <3>1. ASSUME NEW h \in Handler, Grant(h) PROVE keys' \subseteq keys \/ keys' = keys \cup {handler[h].gen}
      BY <3>1 DEF Grant
    <3>2. ASSUME NEW h \in Handler, RevokeKeys(h) \/ UndoKeys(h) PROVE keys' \subseteq keys
      BY <3>2 DEF RevokeKeys, UndoKeys, KeysAfter
    <3>3. ASSUME NEW h \in Handler, Arrive(h) PROVE keys' = keys
      BY <3>3 DEF Arrive, Create, Restart, Stop, Suspend, Open, Delete, Refresh, Recover, Admit
    <3>4. ASSUME NEW h \in Handler, Step(h), ~Grant(h), ~RevokeKeys(h), ~UndoKeys(h) PROVE keys' = keys
      BY <3>4 DEF Step, Claim, Bump, AskDestroy, AskCreate, Finish, Undo, GiveUp, Launch, Mark, Read,
                  Expire, Status, Reconcile
    <3>5. ASSUME NEW h \in Handler, Node(h) \/ TimeOut(h) \/ Crash(h) PROVE keys' = keys
      BY <3>5 DEF Node, NodeDestroys, NodeCreates, NodeRefuses, TimeOut, Crash
    <3>6. ASSUME RuntimeChanges \/ Age PROVE keys' = keys
      BY <3>6 DEF RuntimeChanges, Age
    <3> QED
      BY <3>1, <3>2, <3>3, <3>4, <3>5, <3>6 DEF Next
  <2>2. \A g \in keys : g \in Nat /\ g <= ws.gen
    BY <1>t DEF Generations, RevocationsReachEverything
  <2>3. \A h \in Handler : handler[h].gen <= ws.gen
    BY DEF Generations
  <2>4. CASE keys' \subseteq keys
    BY <1>0, <2>2, <2>4
  <2>5. ASSUME NEW h \in Handler, keys' = keys \cup {handler[h].gen} PROVE \A g \in keys' : g <= ws'.gen
    BY <1>0, <1>t, <2>2, <2>3, <2>5
  <2> QED
    BY <2>1, <2>4, <2>5
<1>3. \A k \in Handler : call'[k] # None => call'[k].gen <= ws'.gen
  <2>1. \/ call' = call
        \/ \E h \in Handler : call' = [call EXCEPT ![h] = None]
        \/ \E h \in Handler : \E op, id : \E gen \in {0, handler[h].gen} :
             call' = [call EXCEPT ![h] = [op |-> op, id |-> id, gen |-> gen]]
    <3>1. ASSUME NEW h \in Handler, Arrive(h) PROVE call' = call
      BY <3>1 DEF Arrive, Create, Restart, Stop, Suspend, Open, Delete, Refresh, Recover, Admit
    <3>2. ASSUME NEW h \in Handler, Step(h), ~AskDestroy(h), ~AskCreate(h) PROVE call' = call
      BY <3>2 DEF Step, Claim, Bump, Grant, RevokeKeys, UndoKeys, Finish, Undo, GiveUp, Launch, Mark, Read,
                  Expire, Status, Reconcile
    <3>3. ASSUME NEW h \in Handler, AskDestroy(h)
          PROVE  call' = [call EXCEPT ![h] = [op |-> "destroy", id |-> handler[h].row.provider, gen |-> 0]]
      BY <3>3 DEF AskDestroy
    <3>4. ASSUME NEW h \in Handler, AskCreate(h)
          PROVE  call' = [call EXCEPT ![h] = [op |-> "create", id |-> None, gen |-> handler[h].gen]]
      BY <3>4 DEF AskCreate
    <3>5. ASSUME NEW h \in Handler, Node(h) \/ TimeOut(h) \/ Crash(h)
          PROVE  call' = call \/ call' = [call EXCEPT ![h] = None]
      BY <3>5 DEF Node, NodeDestroys, NodeCreates, NodeRefuses, TimeOut, Crash
    <3>6. ASSUME RuntimeChanges \/ Age PROVE call' = call
      BY <3>6 DEF RuntimeChanges, Age
    <3> QED
      BY <3>1, <3>2, <3>3, <3>4, <3>5, <3>6 DEF Next
  <2>2. ASSUME NEW k \in Handler, call'[k] # None
        PROVE  call'[k].gen = 0 \/ (\E h \in Handler : call'[k].gen = handler[h].gen)
                 \/ call'[k] = call[k]
    BY <1>t, <2>1, <2>2
  <2> QED
    BY <1>0, <1>t, <2>2 DEF Generations
<1>4. runtime' # None => runtime'.gen <= ws'.gen
  <2>1. \/ runtime' \in {runtime, None}
        \/ runtime # None /\ runtime'.gen = runtime.gen
        \/ \E h \in Handler : call[h] # None /\ runtime'.gen = call[h].gen
    <3>1. ASSUME NEW h \in Handler, Arrive(h) PROVE runtime' = runtime
      BY <3>1 DEF Arrive, Create, Restart, Stop, Suspend, Open, Delete, Refresh, Recover, Admit
    <3>2. ASSUME NEW h \in Handler, Step(h) PROVE runtime' = runtime
      BY <3>2 DEF Step, Claim, Bump, Grant, RevokeKeys, UndoKeys, Finish, Undo, GiveUp, Launch, Mark, Read,
                  Expire, Status, Reconcile, AskDestroy, AskCreate
    <3>3. ASSUME NEW h \in Handler, NodeCreates(h)
          PROVE  runtime' = runtime \/ (call[h] # None /\ runtime'.gen = call[h].gen)
      BY <3>3 DEF NodeCreates
    <3>4. ASSUME NEW h \in Handler, NodeDestroys(h) \/ NodeRefuses(h) \/ TimeOut(h) \/ Crash(h)
          PROVE  runtime' \in {runtime, None}
      BY <3>4 DEF NodeDestroys, NodeRefuses, TimeOut, Crash
    <3>5. ASSUME RuntimeChanges PROVE runtime # None /\ runtime'.gen = runtime.gen
      BY <1>t, <3>5 DEF RuntimeChanges
    <3>6. ASSUME Age PROVE runtime' = runtime
      BY <3>6 DEF Age
    <3> QED
      BY <3>1, <3>2, <3>3, <3>4, <3>5, <3>6 DEF Next, Node
  <2> QED
    BY <1>0, <1>t, <2>1 DEF Generations, RevocationsReachEverything
<1> QED
  BY <1>1, <1>2, <1>3, <1>4 DEF Generations, RevocationsReachEverything

(* "Revoke every generation up to" one Control knows reaches every key and  *)
(* every container, whatever was deleted, revived, expired or answered late *)
(* in between (revokeWorkspace in packages/litellm-adapter).                *)
THEOREM RevocationsReach == Spec => []RevocationsReachEverything
<1>1. Init => Generations
  BY DEF Init, Generations, RevocationsReachEverything, NewRow, Resting
<1>2. TypeOK /\ Generations /\ [Next]_vars => Generations'
  BY GenerationsKept DEF vars, Generations, RevocationsReachEverything
<1>3. Generations => RevocationsReachEverything
  BY DEF Generations
<1> QED
  BY TypeCorrect, <1>1, <1>2, <1>3, PTL DEF Spec

-----------------------------------------------------------------------------
(* Ownership and intent.  Opening a workspace writes its row without        *)
(* holding it: a held row may say open, and a stop may be forgotten.        *)

(* A recovery is fenced by a row meant to run.                              *)
Fenced(r) == r.op = "recover" => r.fenced /\ r.row.desired = "running"

Held(row) == (row.token # None => row.state \in Active \cup {"open"}) /\ (row.deleted => row.token = None)

Ownership ==
  /\ Held(ws)
  /\ ws.desired = "running" => last.asked = "running" \/ last.reopened
  /\ \A h \in Handler : Fenced(handler[h])

(* Handlers stay fenced whichever way they move.                            *)
LEMMA PutFenced ==
  ASSUME TypeOK, \A k \in Handler : Fenced(handler[k]), NEW h \in Handler
  PROVE  /\ \A r : Fenced(r) /\ Put(h, r) => \A k \in Handler : Fenced(handler'[k])
         /\ \A pc : Goto(h, pc) => \A k \in Handler : Fenced(handler'[k])
         /\ Rest(h) => \A k \in Handler : Fenced(handler'[k])
         /\ Failed(h) => \A k \in Handler : Fenced(handler'[k])
         /\ \A op, pc : op # "recover" /\ Begin(h, op, pc)
                => \A k \in Handler : Fenced(handler'[k])
<1>0. handler \in [Handler -> HandlerRow] /\ handler[h] \in HandlerRow /\ Resting \in HandlerRow
  BY HandlerTypes DEF TypeOK
<1>1. ASSUME NEW r, Fenced(r), Put(h, r) PROVE \A k \in Handler : Fenced(handler'[k])
  <2>1. \A k \in Handler : handler'[k] = IF k = h THEN r ELSE handler[k]
    BY <1>0, <1>1 DEF Put
  <2> QED
    BY <1>1, <2>1
<1>2. ASSUME NEW pc, Goto(h, pc) PROVE \A k \in Handler : Fenced(handler'[k])
  <2>1. Fenced([handler[h] EXCEPT !.pc = pc])
    BY <1>0, <1>2 DEF Fenced, HandlerRow
  <2> QED
    BY <1>1, <1>2, <2>1 DEF Goto
<1>3. ASSUME Rest(h) PROVE \A k \in Handler : Fenced(handler'[k])
  <2>1. Fenced(Resting)
    BY DEF Fenced, Resting
  <2> QED
    BY <1>1, <1>3, <2>1 DEF Rest
<1>4. ASSUME Failed(h) PROVE \A k \in Handler : Fenced(handler'[k])
  BY <1>2, <1>3, <1>4 DEF Failed
<1>5. ASSUME NEW op, NEW pc, op # "recover", Begin(h, op, pc)
      PROVE  \A k \in Handler : Fenced(handler'[k])
  <2>1. Fenced([Resting EXCEPT !.op = op, !.pc = pc, !.row = ws, !.gen = ws.gen])
    BY <1>0, <1>5 DEF Fenced, HandlerRow
  <2> QED
    BY <1>1, <1>5, <2>1 DEF Begin
<1> QED
  BY <1>1, <1>2, <1>3, <1>4, <1>5

LEMMA FencedKept ==
  ASSUME TypeOK, \A k \in Handler : Fenced(handler[k]), Next
  PROVE  \A k \in Handler : Fenced(handler'[k])
<1>0. handler \in [Handler -> HandlerRow] /\ Resting \in HandlerRow /\ ws \in Row
  BY RestingType DEF TypeOK
<1>1. ASSUME NEW h \in Handler, Arrive(h) PROVE \A k \in Handler : Fenced(handler'[k])
  <2>1. CASE Recover(h)
    <3>1. ws.desired = "running" =>
            Fenced([Resting EXCEPT !.op = "recover", !.row = ws, !.gen = ws.gen, !.fenced = TRUE,
                                   !.pc = IF ws.provider = None THEN "claim" ELSE "status"])
      BY <1>0 DEF Fenced, HandlerRow
    <3> QED
      BY <2>1, <3>1, PutFenced DEF Recover
  <2>2. CASE Create(h) \/ Restart(h) \/ Stop(h) \/ Suspend(h) \/ Open(h) \/ Delete(h) \/ Refresh(h)
    BY <2>2, PutFenced DEF Create, Restart, Stop, Suspend, Open, Delete, Refresh
  <2> QED
    BY <1>1, <2>1, <2>2 DEF Arrive
<1>2. ASSUME NEW h \in Handler, Step(h) PROVE \A k \in Handler : Fenced(handler'[k])
  <2>0. handler[h] \in HandlerRow /\ Fenced(handler[h])
    BY <1>0
  <2>1. CASE Claim(h)
    <3>1. CASE MayClaim(h)
      <4>1. handler[h].op = "recover" => ws'.desired = "running"
        <5>1. handler[h].op = "recover" => ws' = Claimed(ws, h, "restarting")
          BY <2>1, <3>1 DEF Claim, Target
        <5> QED
          BY <1>0, <5>1 DEF Claimed, Touched, Row
      <4> DEFINE pc == IF handler[h].op = "create" THEN "grants" ELSE "bump"
      <4>2. Fenced([handler[h] EXCEPT !.row = ws', !.gen = ws.gen, !.gone = ws.provider = None, !.pc = pc])
        BY <2>0, <4>1 DEF Fenced, HandlerRow
      <4> QED
        BY <2>1, <3>1, <4>2, PutFenced DEF Claim
    <3>2. CASE ~MayClaim(h)
      BY <2>1, <3>2, PutFenced DEF Claim
    <3> QED
      BY <3>1, <3>2
  <2>2. CASE Bump(h)
    <3>1. CASE MayBump(h)
      <4> DEFINE g == IF Is(h, {"restart", "recover"}) THEN ws'.gen ELSE handler[h].gen
                 pc == IF handler[h].row.provider # None THEN "destroy" ELSE AfterDestroy(handler[h].op)
      <4>1. Fenced([handler[h] EXCEPT !.gen = g, !.pc = pc])
        <5> HIDE DEF g, pc
        <5> QED
          BY <2>0 DEF Fenced, HandlerRow
      <4>2. Put(h, [handler[h] EXCEPT !.gen = g, !.pc = pc])
        BY <2>2, <3>1 DEF Bump
      <4> QED
        BY <4>1, <4>2, PutFenced
    <3>2. CASE ~MayBump(h)
      BY <2>2, <3>2, PutFenced DEF Bump
    <3> QED
      BY <3>1, <3>2
  <2>3. CASE Undo(h)
    <3>1. Fenced([handler[h] EXCEPT !.gen = ws.gen, !.pc = "undo_keys"])
      BY <2>0 DEF Fenced, HandlerRow
    <3> QED
      BY <2>3, <3>1, PutFenced DEF Undo
  <2>4. CASE Status(h)
    <3> DEFINE saw == Reported(handler[h].row.provider)
               pc == IF Is(h, {"recover"}) /\ saw \notin {"ready", "provisioning"} THEN "claim" ELSE "reconcile"
    <3>1. Fenced([handler[h] EXCEPT !.saw = saw, !.pc = pc])
      BY <2>0 DEF Fenced, HandlerRow
    <3>2. Put(h, [handler[h] EXCEPT !.saw = saw, !.pc = pc]) \/ Rest(h)
      BY <2>4 DEF Status
    <3> QED
      BY <3>1, <3>2, PutFenced
  <2>5. CASE Reconcile(h)
    <3>1. Fenced([handler[h] EXCEPT !.op = "suspend", !.pc = "claim", !.row = ws', !.fenced = TRUE])
      BY <2>0 DEF Fenced, HandlerRow
    <3> QED
      BY <2>5, <3>1, PutFenced DEF Reconcile
  <2>6. CASE Grant(h)
    BY <2>6, PutFenced DEF Grant
  <2>7. CASE RevokeKeys(h)
    BY <2>7, PutFenced DEF RevokeKeys
  <2>8. CASE Launch(h) \/ Mark(h)
    BY <2>8, PutFenced DEF Launch, Mark
  <2>9. CASE Expire(h) \/ Finish(h) \/ GiveUp(h)
    BY <2>9, PutFenced DEF Expire, Finish, GiveUp
  <2>10. CASE AskDestroy(h) \/ AskCreate(h) \/ UndoKeys(h)
    BY <2>10, PutFenced DEF AskDestroy, AskCreate, UndoKeys
  <2>11. CASE Read(h)
    BY <2>11, PutFenced DEF Read
  <2> QED
    BY <1>2, <2>1, <2>2, <2>3, <2>4, <2>5, <2>6, <2>7, <2>8, <2>9, <2>10, <2>11 DEF Step
<1>3. ASSUME NEW h \in Handler, Node(h) \/ TimeOut(h) \/ Crash(h) PROVE \A k \in Handler : Fenced(handler'[k])
  <2>0. handler[h] \in HandlerRow /\ Fenced(handler[h])
    BY <1>0
  <2>1. CASE NodeDestroys(h)
    <3>1. Fenced([handler[h] EXCEPT !.pc = AfterDestroy(handler[h].op), !.gone = TRUE])
      BY <2>0 DEF Fenced, HandlerRow
    <3> QED
      BY <2>1, <3>1, PutFenced DEF NodeDestroys
  <2>2. CASE NodeCreates(h)
    <3>1. Fenced([handler[h] EXCEPT !.pc = "finish", !.id = runtime'.id])
      BY <2>0 DEF Fenced, HandlerRow
    <3> QED
      BY <2>2, <3>1, PutFenced DEF NodeCreates
  <2>3. CASE NodeRefuses(h) \/ TimeOut(h) \/ Crash(h)
    BY <2>3, PutFenced DEF NodeRefuses, TimeOut, Crash
  <2> QED
    BY <1>3, <2>1, <2>2, <2>3 DEF Node
<1>4. ASSUME RuntimeChanges \/ Age PROVE handler' = handler
  BY <1>4 DEF RuntimeChanges, Age
<1> QED
  BY <1>1, <1>2, <1>3, <1>4 DEF Next

(* What a step does to the row: nothing that ownership is about, a claim, a *)
(* release by the owner, a deletion, an expiry, a correction of a row       *)
(* nobody owns, or an open that is written.                                 *)
TakesRow(h) ==
  /\ At(h, "claim") /\ MayClaim(h)
  /\ ws'.token = h /\ ws'.state = Target(handler[h].op) /\ ws'.deleted = ws.deleted
  /\ ws'.desired = IF Target(handler[h].op) = "stopping" THEN "stopped" ELSE "running"
  /\ Is(h, {"create", "restart"}) => last'.asked = "running"
  /\ Is(h, {"recover"}) => last'.asked = last.asked /\ last'.reopened = last.reopened

KeepsIntent == ws'.desired = ws.desired /\ last'.asked = last.asked /\ last'.reopened = last.reopened

Opens ==
  /\ ws'.state = "open" /\ UNCHANGED <<ws.token, ws.provider, ws.gen, ws.deleted>>
  /\ last'.asked = "running" \/ last'.reopened

RowStep ==
  \/ ws'.token = ws.token /\ ws'.state = ws.state /\ ws'.deleted = ws.deleted /\ KeepsIntent
  \/ \E h \in Handler : TakesRow(h)
  \/ \E h \in Handler : ws.token = h /\ By(h) /\ ws'.token = None /\ ws'.deleted = ws.deleted /\ KeepsIntent
  \/ ws'.deleted /\ ws'.token = None /\ KeepsIntent
  \/ ws.stale /\ ws'.state = "failed" /\ ws'.token = None /\ ws'.deleted = ws.deleted /\ KeepsIntent
  \/ ws.token = None /\ ws'.token = None /\ KeepsIntent
  \/ Opens

LEMMA RowSteps ==
  ASSUME TypeOK, Ownership, Next
  PROVE  RowStep
<1>0. /\ ws \in Row /\ handler \in [Handler -> HandlerRow]
      /\ last \in [asked : {"running", "stopped"}, reopened : BOOLEAN, left : BOOLEAN]
  BY DEF TypeOK
<1>1. ASSUME NEW h \in Handler, Arrive(h) PROVE RowStep
  <2>1. last' = last /\ (ws' = ws \/ (ws.deleted /\ ws' = Revived(ws)))
    BY <1>1 DEF Arrive, Create, Restart, Stop, Suspend, Open, Delete, Refresh, Recover, Admit
  <2>2. Revived(ws).token = ws.token /\ Revived(ws).desired = ws.desired
    BY <1>0 DEF Revived, Touched, Row
  <2> QED
    BY <2>1, <2>2 DEF RowStep, KeepsIntent, Ownership, Held
<1>2. ASSUME NEW h \in Handler, NEW pc \in Place, pc # "idle", At(h, pc), Rest(h) PROVE By(h)
  BY <1>0, <1>2 DEF By, At, Rest, Put, Resting
<1>3. ASSUME NEW h \in Handler, NEW pc \in Place, pc # "giveup", At(h, pc), Goto(h, "giveup") PROVE By(h)
  <2>1. handler[h] \in HandlerRow
    BY <1>0
  <2>2. [handler[h] EXCEPT !.pc = "giveup"].pc = "giveup"
    BY <2>1 DEF HandlerRow
  <2>3. handler'[h] = [handler[h] EXCEPT !.pc = "giveup"]
    BY <1>0, <1>3 DEF Goto, Put
  <2> QED
    BY <1>3, <2>2, <2>3 DEF By, At
<1>4. ASSUME NEW state, NEW provider, NEW cleanup
      PROVE  LET done == Finished(ws, state, provider, cleanup)
             IN done.token = None /\ done.desired = ws.desired /\ done.deleted = ws.deleted
  BY <1>0 DEF Finished, Touched, Row
<1>5. ASSUME NEW h \in Handler, Step(h) PROVE RowStep
  <2>1. CASE Claim(h)
    <3>1. CASE MayClaim(h)
      <4>1. ws' = Claimed(ws, h, Target(handler[h].op))
        BY <2>1, <3>1 DEF Claim
      <4>2. /\ ws'.token = h /\ ws'.state = Target(handler[h].op) /\ ws'.deleted = ws.deleted
            /\ ws'.desired = IF Target(handler[h].op) = "stopping" THEN "stopped" ELSE "running"
        BY <1>0, <4>1 DEF Claimed, Touched, Row
      <4>3. Is(h, {"create", "restart"}) => last'.asked = "running"
        <5>1. Is(h, {"create", "restart"}) =>
                \E r : last' = [left |-> FALSE, reopened |-> r, asked |-> "running"]
          BY <2>1, <3>1 DEF Claim, Is
        <5> QED
          BY <5>1
      <4>4. Is(h, {"recover"}) => last'.asked = last.asked /\ last'.reopened = last.reopened
        BY <1>0, <2>1, <3>1 DEF Claim, Is
      <4> QED
        BY <2>1, <3>1, <4>2, <4>3, <4>4 DEF RowStep, TakesRow, Claim
    <3>2. CASE ~MayClaim(h)
      BY <2>1, <3>2 DEF Claim, RowStep, KeepsIntent
    <3> QED
      BY <3>1, <3>2
  <2>2. CASE Bump(h) \/ Undo(h)
    <3>1. Bumped(ws).token = ws.token /\ Bumped(ws).state = ws.state /\ Bumped(ws).deleted = ws.deleted
          /\ Bumped(ws).desired = ws.desired
      BY <1>0 DEF Bumped, Touched, Row
    <3>2. last' = last /\ ws' \in {ws, Bumped(ws)}
      BY <2>2 DEF Bump, Undo
    <3> QED
      BY <3>1, <3>2 DEF RowStep, KeepsIntent
  <2>3. CASE Expire(h)
    <3>1. CASE MayExpire(handler[h].row)
      <4>1. ws' = Expired(ws) /\ last' = [last EXCEPT !.left = ws.provider # None] /\ ws.stale
        BY <2>3, <3>1 DEF Expire, MayExpire
      <4>2. last'.asked = last.asked /\ last'.reopened = last.reopened
        BY <1>0, <4>1
      <4>3. ws'.state = "failed" /\ ws'.token = None /\ ws'.deleted = ws.deleted /\ ws'.desired = ws.desired
        BY <1>0, <4>1 DEF Expired, Touched, Row
      <4> QED
        BY <4>1, <4>2, <4>3 DEF RowStep, KeepsIntent
    <3>2. CASE ~MayExpire(handler[h].row)
      BY <2>3, <3>2 DEF Expire, RowStep, KeepsIntent
    <3> QED
      BY <3>1, <3>2
  <2>4. CASE RevokeKeys(h)
    <3>1. last' = last /\ (ws' = ws \/ (Owns(h) /\ ws' = Finished(ws, "stopped", None, TRUE)))
      BY <2>4, Zenon DEF RevokeKeys
    <3>2. ws' = ws \/ Rest(h)
      BY <2>4 DEF RevokeKeys, Is
    <3>3. Rest(h) => By(h)
      BY <1>2, <2>4 DEF RevokeKeys, Place
    <3>4. LET done == Finished(ws, "stopped", None, TRUE)
          IN done.token = None /\ done.desired = ws.desired /\ done.deleted = ws.deleted
      BY <1>4
    <3> QED
      BY <3>1, <3>2, <3>3, <3>4 DEF RowStep, KeepsIntent, Owns
  <2>5. CASE Finish(h)
    <3>1. last' = last /\ By(h)
      BY <1>2, <2>5 DEF Finish, Place
    <3>2. \/ ws' = ws
          \/ Owns(h) /\ (\E state, id : ws' = Finished(ws, state, id, FALSE))
          \/ ws' = [Finished(ws, "stopped", None, FALSE) EXCEPT !.deleted = TRUE]
      <4>1. CASE Is(h, {"create", "restart", "recover"}) /\ Owns(h)
        BY <2>5, <4>1 DEF Finish, Is
      <4>2. CASE Is(h, {"stop", "suspend"}) /\ Owns(h)
        BY <2>5, <4>2 DEF Finish, Is
      <4>3. CASE Is(h, {"delete"}) /\ ~ws.deleted
        BY <2>5, <4>3 DEF Finish, Is
      <4>4. CASE ~(Is(h, {"create", "restart", "recover"}) /\ Owns(h)) /\ ~(Is(h, {"stop", "suspend"}) /\ Owns(h))
                 /\ ~(Is(h, {"delete"}) /\ ~ws.deleted)
        BY <2>5, <4>4 DEF Finish
      <4> QED
        BY <4>1, <4>2, <4>3, <4>4
    <3>3. CASE ws' = ws
      BY <3>1, <3>3 DEF RowStep, KeepsIntent
    <3>4. CASE Owns(h) /\ \E state, id : ws' = Finished(ws, state, id, FALSE)
      <4>1. ws'.token = None /\ ws'.desired = ws.desired /\ ws'.deleted = ws.deleted
        BY <1>4, <3>4
      <4> QED
        BY <3>1, <3>4, <4>1 DEF RowStep, KeepsIntent, Owns
    <3>5. CASE ws' = [Finished(ws, "stopped", None, FALSE) EXCEPT !.deleted = TRUE]
      <4>1. Finished(ws, "stopped", None, FALSE) \in Row
        BY <1>0, RowTypes DEF State
      <4>2. \A row \in Row : LET gone == [row EXCEPT !.deleted = TRUE]
                            IN gone.deleted /\ gone.token = row.token /\ gone.desired = row.desired
        BY DEF Row
      <4>3. LET done == Finished(ws, "stopped", None, FALSE)
            IN done.token = None /\ done.desired = ws.desired /\ done.deleted = ws.deleted
        BY <1>4
      <4> QED
        BY <3>1, <3>5, <4>1, <4>2, <4>3 DEF RowStep, KeepsIntent
    <3> QED
      BY <3>2, <3>3, <3>4, <3>5
  <2>6. CASE GiveUp(h)
    <3>1. By(h)
      BY <1>2, <2>6 DEF GiveUp, Place
    <3>3. last'.asked = last.asked /\ last'.reopened = last.reopened
      BY <1>0, <2>6 DEF GiveUp
    <3>2. LET done == Finished(ws, "failed", ProviderLeft(h), FALSE)
          IN done.token = None /\ done.desired = ws.desired /\ done.deleted = ws.deleted
      BY <1>4
    <3> QED
      BY <2>6, <3>1, <3>2, <3>3 DEF GiveUp, RowStep, KeepsIntent, Owns
  <2>7. CASE Reconcile(h)
    <3>1. last' = last /\ (ws' = ws \/ (ws.token = None /\ ws' = Reconciled(handler[h].row, handler[h].saw)))
      BY <2>7 DEF Reconcile, Unmoved
    <3>2. LET row == Reconciled(handler[h].row, handler[h].saw)
          IN row.token = ws.token /\ row.desired = ws.desired /\ row.deleted = ws.deleted
      BY <1>0 DEF Reconciled, Touched, Row
    <3> QED
      BY <3>1, <3>2 DEF RowStep, KeepsIntent
  <2>8. CASE Mark(h)
    <3>1. CASE ws.deleted
      BY <2>8, <3>1 DEF Mark, RowStep, KeepsIntent
    <3>2. CASE ~ws.deleted
      <4>1. ws' = Updated(ws, "open") /\ last' = [last EXCEPT !.reopened = @ \/ last.asked = "stopped"]
        BY <2>8, <3>2 DEF Mark
      <4>2. ws'.state = "open" /\ UNCHANGED <<ws.token, ws.provider, ws.gen, ws.deleted>>
        BY <1>0, <4>1 DEF Updated, Touched, Row
      <4>3. last'.asked = last.asked /\ (last.asked = "stopped" => last'.reopened)
        BY <1>0, <4>1
      <4> QED
        BY <1>0, <4>2, <4>3 DEF RowStep, Opens
    <3> QED
      BY <3>1, <3>2
  <2>9. CASE AskDestroy(h) \/ AskCreate(h) \/ Grant(h) \/ UndoKeys(h) \/ Launch(h) \/ Read(h) \/ Status(h)
    BY <2>9 DEF AskDestroy, AskCreate, Grant, UndoKeys, Launch, Read, Status, RowStep, KeepsIntent
  <2> QED
    BY <1>5, <2>1, <2>2, <2>3, <2>4, <2>5, <2>6, <2>7, <2>8, <2>9 DEF Step
<1>6. ASSUME NEW h \in Handler, Node(h) \/ TimeOut(h) \/ Crash(h) PROVE RowStep
  BY <1>6 DEF Node, NodeDestroys, NodeCreates, NodeRefuses, TimeOut, Crash, RowStep, KeepsIntent
<1>7. ASSUME RuntimeChanges PROVE RowStep
  BY <1>7 DEF RuntimeChanges, RowStep, KeepsIntent
<1>8. ASSUME Age PROVE RowStep
  BY <1>0, <1>8 DEF Age, RowStep, KeepsIntent, Row
<1> QED
  BY <1>1, <1>5, <1>6, <1>7, <1>8 DEF Next

LEMMA OwnershipKept ==
  ASSUME TypeOK, Ownership, Next
  PROVE  Ownership'
<1>0. RowStep /\ (\A h \in Handler : Fenced(handler'[h]))
  BY RowSteps, FencedKept DEF Ownership
<1>t. /\ ws.desired \in {"running", "stopped"} /\ None \notin Handler
      /\ \A h \in Handler : Target(handler[h].op) \in Active
  BY WorkspaceAssumption DEF TypeOK, Row, Target, Active
<1>1. Held(ws')
  BY <1>0, <1>t DEF RowStep, TakesRow, Opens, MayClaim, Ownership, Held
<1>2. ws'.desired = "running" => last'.asked = "running" \/ last'.reopened
  <2>1. ASSUME NEW h \in Handler, TakesRow(h), ws'.desired = "running"
        PROVE  last'.asked = "running" \/ last'.reopened
    <3>1. handler[h].op \in {"create", "restart", "recover"}
      BY <2>1 DEF TakesRow, Target
    <3>2. CASE handler[h].op = "recover"
      <4>1. ws.desired = "running"
        BY <2>1, <3>2 DEF TakesRow, MayClaim, Ownership, Fenced
      <4> QED
        BY <2>1, <3>2, <4>1 DEF TakesRow, Is, Ownership
    <3> QED
      BY <2>1, <3>1, <3>2 DEF TakesRow, Is
  <2> QED
    BY <1>0, <2>1 DEF RowStep, Opens, KeepsIntent, Ownership
<1> QED
  BY <1>0, <1>1, <1>2 DEF Ownership

LEMMA OwnershipHolds == Spec => []Ownership
<1>1. Init => Ownership
  BY DEF Init, Ownership, Held, Fenced, NewRow, Resting
<1>2. TypeOK /\ Ownership /\ [Next]_vars => Ownership'
  <2>1. ASSUME Ownership, UNCHANGED vars PROVE Ownership'
    BY <2>1 DEF vars, Ownership
  <2> QED
    BY <2>1, OwnershipKept
<1> QED
  BY TypeCorrect, <1>1, <1>2, PTL DEF Spec

(* Whatever runs at once, the owner of a row alone decides when a start,    *)
(* restart or stop has finished (service.ts, current), but for expiry, a    *)
(* stop, a deletion, and an open that is written late: that one changes     *)
(* only what the row says, and a restart may take a row that says open.     *)
THEOREM OwnersDecide == Spec => OwnerDecides
<1>1. TypeOK /\ Ownership /\ [Next]_vars =>
        [ws.token # None /\ <<ws.state, ws.token>>' # <<ws.state, ws.token>> =>
           \/ By(ws.token)
           \/ ws.stale /\ ws'.state = "failed" /\ ws'.token = None
           \/ ws'.state = "stopping" /\ ws'.token \in Handler
           \/ ws'.deleted
           \/ ws'.state = "open" /\ UNCHANGED <<ws.token, ws.provider, ws.gen, ws.deleted>>
           \/ ws.state = "open" /\ ws'.state = "restarting" /\ ws'.token \in Handler]_vars
  <2> SUFFICES ASSUME TypeOK, Ownership, Next, ws.token # None,
                      ws'.state # ws.state \/ ws'.token # ws.token
               PROVE  \/ By(ws.token)
                      \/ ws.stale /\ ws'.state = "failed" /\ ws'.token = None
                      \/ ws'.state = "stopping" /\ ws'.token \in Handler
                      \/ ws'.deleted
                      \/ ws'.state = "open" /\ UNCHANGED <<ws.token, ws.provider, ws.gen, ws.deleted>>
                      \/ ws.state = "open" /\ ws'.state = "restarting" /\ ws'.token \in Handler
    BY DEF vars
  <2>1. RowStep
    BY RowSteps
  <2>2. ASSUME NEW h \in Handler, TakesRow(h)
        PROVE  \/ ws'.state = "stopping" /\ ws'.token \in Handler
               \/ ws.state = "open" /\ ws'.state = "restarting" /\ ws'.token \in Handler
    <3>1. ws.state \in Active \cup {"open"} /\ ws.state \in Claimable(h)
      BY <2>2 DEF TakesRow, MayClaim, Ownership, Held
    <3>2. handler[h].op # "recover"
      BY <2>2 DEF TakesRow, MayClaim, Unmoved, Ownership, Fenced
    <3>3. handler[h].op # "create"
      BY <3>1 DEF Claimable, Active
    <3>4. handler[h].op = "restart" => ws.state = "open"
      BY <3>1 DEF Claimable, Active
    <3> QED
      BY <2>2, <3>2, <3>3, <3>4 DEF TakesRow, Target
  <2> QED
    BY <2>1, <2>2 DEF RowStep, Opens
<1> QED
  BY TypeCorrect, OwnershipHolds, <1>1, PTL DEF Spec, OwnerDecides

(* Recovery never undoes a Stop, however late its scan is answered and      *)
(* whatever runs at once, unless an open that began before the stop is      *)
(* written after it.                                                        *)
THEOREM RecoveryFollows == Spec => RecoveryFollowsIntent
<1>1. TypeOK /\ Ownership /\ [Next]_vars =>
        [\A h \in Handler : handler[h].op = "recover" /\ ws'.token = h /\ ws.token # h =>
           last.asked = "running" \/ last.reopened]_vars
  <2> SUFFICES ASSUME TypeOK, Ownership, Next,
                      NEW h \in Handler, handler[h].op = "recover", ws'.token = h, ws.token # h
               PROVE  last.asked = "running" \/ last.reopened
    BY DEF vars
  <2>1. RowStep /\ None \notin Handler
    BY RowSteps, WorkspaceAssumption
  <2>2. TakesRow(h)
    BY <2>1 DEF RowStep, TakesRow, Opens
  <2> QED
    BY <2>2 DEF TakesRow, MayClaim, Ownership, Fenced
<1> QED
  BY TypeCorrect, OwnershipHolds, <1>1, PTL DEF Spec, RecoveryFollowsIntent

-----------------------------------------------------------------------------
(* Revocations.  A suspension may revoke by the generation it read without  *)
(* owning the row, and a deletion revokes everything (neither is in these   *)
(* theorems).                                                               *)

(* A handler about to revoke works with a generation the row has left; an   *)
(* expiry is about to leave it.                                             *)
Revokes(r) == (r.pc \in {"destroy", "destroying"} /\ r.op = "stop") \/ r.pc \in {"revoke_keys", "undo_keys"}

Behind(r, gen) ==
  /\ r.pc \in {"bump", "destroy", "destroying"} => r.op \in {"restart", "recover", "stop"}
  /\ r.pc = "claim" => r.op \in {"create", "restart", "recover", "stop"}
  /\ r.pc = "revoke_keys" => r.op \in {"stop", "refresh"}
  /\ Revokes(r) => r.gen < gen
  /\ r.pc = "expire" => r.op = "refresh" /\ r.gen = r.row.gen

(* Who has a call outstanding waits for it, or has given up on it.          *)
Awaited(r, c) ==
  c # None => \/ r.pc \in {"idle", "undo", "undo_keys", "giveup"}
              \/ r.pc = "destroying" /\ c.op = "destroy"
              \/ r.pc = "making" /\ c.op = "create"

Revokers == \A h \in Handler : Behind(handler[h], ws.gen) /\ Awaited(handler[h], call[h])

(* What the ways to move do to the handler itself                           *)
LEMMA Moves ==
  ASSUME TypeOK, NEW h \in Handler
  PROVE  /\ \A r : Put(h, r) => handler'[h] = r /\ \A k \in Handler \ {h} : handler'[k] = handler[k]
         /\ \A pc : Goto(h, pc) => /\ handler'[h].pc = pc /\ handler'[h].op = handler[h].op
                                   /\ handler'[h].gen = handler[h].gen /\ handler'[h].row = handler[h].row
                                   /\ \A k \in Handler \ {h} : handler'[k] = handler[k]
         /\ Rest(h) => handler'[h].pc = "idle" /\ \A k \in Handler \ {h} : handler'[k] = handler[k]
         /\ \A op, pc : Begin(h, op, pc) => /\ handler'[h].pc = pc /\ handler'[h].op = op
                                            /\ handler'[h].gen = ws.gen /\ handler'[h].row = ws
                                            /\ \A k \in Handler \ {h} : handler'[k] = handler[k]
<1>0. handler \in [Handler -> HandlerRow] /\ handler[h] \in HandlerRow /\ Resting \in HandlerRow
  BY RestingType DEF TypeOK
<1>1. ASSUME NEW r, Put(h, r) PROVE handler'[h] = r /\ \A k \in Handler \ {h} : handler'[k] = handler[k]
  BY <1>0, <1>1 DEF Put
<1>2. ASSUME NEW pc, Goto(h, pc)
      PROVE  /\ handler'[h].pc = pc /\ handler'[h].op = handler[h].op
             /\ handler'[h].gen = handler[h].gen /\ handler'[h].row = handler[h].row
             /\ \A k \in Handler \ {h} : handler'[k] = handler[k]
  <2>1. LET r == [handler[h] EXCEPT !.pc = pc]
        IN r.pc = pc /\ r.op = handler[h].op /\ r.gen = handler[h].gen /\ r.row = handler[h].row
    BY <1>0 DEF HandlerRow
  <2> QED
    BY <1>1, <1>2, <2>1 DEF Goto
<1>3. ASSUME Rest(h) PROVE handler'[h].pc = "idle" /\ \A k \in Handler \ {h} : handler'[k] = handler[k]
  <2>1. Resting.pc = "idle"
    BY DEF Resting
  <2> QED
    BY <1>1, <1>3, <2>1 DEF Rest
<1>4. ASSUME NEW op, NEW pc, Begin(h, op, pc)
      PROVE  /\ handler'[h].pc = pc /\ handler'[h].op = op
             /\ handler'[h].gen = ws.gen /\ handler'[h].row = ws
             /\ \A k \in Handler \ {h} : handler'[k] = handler[k]
  <2>1. LET r == [Resting EXCEPT !.op = op, !.pc = pc, !.row = ws, !.gen = ws.gen]
        IN r.pc = pc /\ r.op = op /\ r.gen = ws.gen /\ r.row = ws
    BY <1>0 DEF HandlerRow
  <2> QED
    BY <1>1, <1>4, <2>1 DEF Begin
<1> QED
  BY <1>1, <1>2, <1>3, <1>4

(* It is enough to look at the handler that moved: the row moves forward.   *)
LEMMA OthersStayBehind ==
  ASSUME TypeOK, Revokers, Next, NEW h \in Handler,
         \A k \in Handler \ {h} : handler'[k] = handler[k] /\ call'[k] = call[k],
         Behind(handler'[h], ws'.gen), Awaited(handler'[h], call'[h])
  PROVE  Revokers'
<1>1. ASSUME NEW k \in Handler PROVE handler[k].gen \in Nat
  BY DEF TypeOK, HandlerRow
<1>2. ASSUME NEW k \in Handler \ {h} PROVE Behind(handler'[k], ws'.gen) /\ Awaited(handler'[k], call'[k])
  BY <1>1, RowMovesForward DEF Revokers, Behind
<1> QED
  BY <1>2 DEF Revokers

LEMMA RevokersKept ==
  ASSUME TypeOK, Generations, Revokers, {"suspend", "delete"} \cap Operations = {}, Next
  PROVE  Revokers'
<1>0. /\ handler \in [Handler -> HandlerRow] /\ ws \in Row /\ ws.gen \in Nat /\ Resting \in HandlerRow
      /\ \A k \in Handler : handler[k].gen \in Nat /\ handler[k].gen <= ws.gen
      /\ call \in [Handler -> [op : {"create", "destroy"}, id : Nat \cup {None}, gen : Nat] \cup {None}]
  BY RestingType DEF TypeOK, Row, HandlerRow, Generations
<1>1. ASSUME NEW h \in Handler, Arrive(h) PROVE Revokers'
  <2>1. call' = call /\ call[h] = None
    BY <1>1 DEF Arrive, Create, Restart, Stop, Suspend, Open, Delete, Refresh, Recover, Admit, Idle
  <2>2. ~Suspend(h) /\ ~Delete(h)
    BY DEF Suspend, Delete, Admit
  <2>3. CASE \E op \in {"create", "restart", "stop"} : Begin(h, op, "claim")
    BY <1>0, <2>1, <2>3, OthersStayBehind, Moves DEF Behind, Revokes, Awaited
  <2>4. CASE Begin(h, "open", "grants") \/ Begin(h, "refresh", "read")
    BY <1>0, <2>1, <2>4, OthersStayBehind, Moves DEF Behind, Revokes, Awaited
  <2>5. CASE Put(h, [Resting EXCEPT !.op = "recover", !.row = ws, !.gen = ws.gen, !.fenced = TRUE,
                                    !.pc = IF ws.provider = None THEN "claim" ELSE "status"])
    <3> DEFINE r == [Resting EXCEPT !.op = "recover", !.row = ws, !.gen = ws.gen, !.fenced = TRUE,
                                    !.pc = IF ws.provider = None THEN "claim" ELSE "status"]
    <3>1. r.op = "recover" /\ r.pc \in {"claim", "status"}
      BY <1>0 DEF HandlerRow
    <3>2. handler'[h] = r /\ \A k \in Handler \ {h} : handler'[k] = handler[k]
      BY <2>5, Moves
    <3> HIDE DEF r
    <3> QED
      BY <2>1, <3>1, <3>2, OthersStayBehind DEF Behind, Revokes, Awaited
  <2> QED
    BY <1>1, <2>2, <2>3, <2>4, <2>5 DEF Arrive, Create, Restart, Stop, Open, Refresh, Recover
<1>2. ASSUME NEW h \in Handler, Step(h) PROVE Revokers'
  <2>0. /\ handler[h] \in HandlerRow /\ Behind(handler[h], ws.gen) /\ Awaited(handler[h], call[h])
        /\ handler[h].gen \in Nat /\ handler[h].gen <= ws.gen
    BY <1>0 DEF Revokers
  <2>1. CASE Claim(h)
    <3>1. call' = call /\ call[h] = None
      BY <2>0, <2>1 DEF Claim, At, Awaited
    <3>2. CASE MayClaim(h)
      <4> DEFINE r == [handler[h] EXCEPT !.row = ws', !.gen = ws.gen, !.gone = ws.provider = None,
                                         !.pc = IF handler[h].op = "create" THEN "grants" ELSE "bump"]
      <4>1. r.op = handler[h].op /\ r.pc = IF handler[h].op = "create" THEN "grants" ELSE "bump"
        BY <2>0 DEF HandlerRow
      <4>2. Put(h, r)
        BY <2>1, <3>2 DEF Claim
      <4>3. handler'[h] = r /\ \A k \in Handler \ {h} : handler'[k] = handler[k]
        BY <4>2, Moves
      <4>4. handler[h].op \in {"create", "restart", "recover", "stop"}
        BY <2>0, <2>1 DEF Claim, At, Behind
      <4> HIDE DEF r
      <4> QED
        BY <3>1, <4>1, <4>3, <4>4, OthersStayBehind DEF Behind, Revokes, Awaited
    <3>3. CASE ~MayClaim(h)
      BY <2>1, <3>1, <3>3, OthersStayBehind, Moves DEF Claim, Behind, Revokes, Awaited
    <3> QED
      BY <3>2, <3>3
  <2>2. CASE Bump(h)
    <3>1. call' = call /\ call[h] = None
      BY <2>0, <2>2 DEF Bump, At, Awaited
    <3>2. CASE MayBump(h)
      <4> DEFINE g == IF Is(h, {"restart", "recover"}) THEN ws'.gen ELSE handler[h].gen
                 pc == IF handler[h].row.provider # None THEN "destroy" ELSE AfterDestroy(handler[h].op)
                 r == [handler[h] EXCEPT !.gen = g, !.pc = pc]
      <4>1. r.op = handler[h].op /\ r.pc = pc /\ r.gen = g
        <5> HIDE DEF g, pc
        <5> QED
          BY <2>0 DEF HandlerRow
      <4>2. Put(h, r)
        BY <2>2, <3>2 DEF Bump
      <4>3. handler'[h] = r /\ \A k \in Handler \ {h} : handler'[k] = handler[k]
        BY <4>2, Moves
      <4>4. handler[h].op \in {"restart", "recover", "stop"}
        BY <2>0, <2>2 DEF Bump, At, Behind
      <4>5. ws'.gen = ws.gen + 1
        BY <1>0, <2>2, <3>2, RowGens DEF Bump
      <4>6. handler[h].op = "stop" => g < ws'.gen
        BY <2>0, <1>0, <4>5 DEF Is
      <4>7. pc \in {"destroy", AfterDestroy(handler[h].op)}
        OBVIOUS
      <4> HIDE DEF r, g, pc
      <4>8. Behind(r, ws'.gen)
        BY <4>1, <4>4, <4>6, <4>7 DEF Behind, Revokes, AfterDestroy
      <4> QED
        BY <3>1, <4>3, <4>8, OthersStayBehind DEF Awaited
    <3>3. CASE ~MayBump(h)
      BY <2>2, <3>1, <3>3, OthersStayBehind, Moves DEF Bump, Behind, Revokes, Awaited
    <3> QED
      BY <3>2, <3>3
  <2>3. CASE AskDestroy(h)
    <3>1. call'[h].op = "destroy" /\ (\A k \in Handler \ {h} : call'[k] = call[k])
      BY <1>0, <2>3 DEF AskDestroy
    <3>2. ws' = ws
      BY <2>3 DEF AskDestroy
    <3> QED
      BY <2>0, <2>3, <3>1, <3>2, OthersStayBehind, Moves DEF AskDestroy, At, Behind, Revokes, Awaited
  <2>4. CASE AskCreate(h)
    <3>1. call'[h].op = "create" /\ (\A k \in Handler \ {h} : call'[k] = call[k])
      BY <1>0, <2>4 DEF AskCreate
    <3> QED
      BY <2>4, <3>1, OthersStayBehind, Moves DEF AskCreate, Behind, Revokes, Awaited
  <2>5. CASE Grant(h)
    <3>1. call' = call /\ call[h] = None
      BY <2>0, <2>5 DEF Grant, At, Awaited
    <3>2. Rest(h) \/ \E pc \in {"launch", "idle", "make", "undo", "giveup"} : Goto(h, pc)
      BY <2>5 DEF Grant, AfterGrants, Failed
    <3> QED
      BY <3>1, <3>2, OthersStayBehind, Moves DEF Behind, Revokes, Awaited
  <2>6. CASE RevokeKeys(h)
    <3>1. call' = call /\ call[h] = None
      BY <2>0, <2>6 DEF RevokeKeys, At, Awaited
    <3>2. Rest(h) \/ Goto(h, "finish") \/ Goto(h, "giveup")
      BY <2>6 DEF RevokeKeys
    <3> QED
      BY <3>1, <3>2, OthersStayBehind, Moves DEF Behind, Revokes, Awaited
  <2>7. CASE Finish(h) \/ GiveUp(h) \/ Mark(h)
    <3>1. call' = call /\ Rest(h)
      BY <2>7 DEF Finish, GiveUp, Mark
    <3> QED
      BY <3>1, OthersStayBehind, Moves DEF Behind, Revokes, Awaited
  <2>8. CASE Undo(h)
    <3>1. call' = call
      BY <2>8 DEF Undo
    <3>2. CASE Owns(h)
      <4> DEFINE r == [handler[h] EXCEPT !.gen = ws.gen, !.pc = "undo_keys"]
      <4>1. r.pc = "undo_keys" /\ r.gen = ws.gen
        BY <2>0 DEF HandlerRow
      <4>2. handler'[h] = r /\ \A k \in Handler \ {h} : handler'[k] = handler[k]
        BY <2>8, <3>2, Moves DEF Undo
      <4>3. ws.gen < ws'.gen
        BY <1>0, <2>8, <3>2, RowGens DEF Undo
      <4> HIDE DEF r
      <4> QED
        BY <3>1, <4>1, <4>2, <4>3, OthersStayBehind DEF Behind, Revokes, Awaited
    <3>3. CASE ~Owns(h)
      BY <2>8, <3>1, <3>3, OthersStayBehind, Moves DEF Undo, Behind, Revokes, Awaited
    <3> QED
      BY <3>2, <3>3
  <2>9. CASE UndoKeys(h)
    BY <2>9, OthersStayBehind, Moves DEF UndoKeys, Behind, Revokes, Awaited
  <2>10. CASE Launch(h)
    <3>1. call' = call /\ call[h] = None
      BY <2>0, <2>10 DEF Launch, At, Awaited
    <3> QED
      BY <2>10, <3>1, OthersStayBehind, Moves DEF Launch, Behind, Revokes, Awaited
  <2>11. CASE Read(h)
    <3>1. call' = call /\ call[h] = None
      BY <2>0, <2>11 DEF Read, At, Awaited
    <3>2. Rest(h) \/ Begin(h, "refresh", "expire") \/ Begin(h, "refresh", "status")
      BY <2>11 DEF Read
    <3> QED
      BY <3>1, <3>2, OthersStayBehind, Moves DEF Behind, Revokes, Awaited
  <2>12. CASE Expire(h)
    <3>1. call' = call /\ call[h] = None
      BY <2>0, <2>12 DEF Expire, At, Awaited
    <3>2. CASE MayExpire(handler[h].row)
      <4>1. handler[h].gen = ws.gen /\ handler[h].op = "refresh"
        BY <2>0, <2>12, <3>2 DEF Expire, MayExpire, At, Behind
      <4>2. ws.gen < ws'.gen
        BY <1>0, <2>12, <3>2, RowGens DEF Expire
      <4>3. Goto(h, "revoke_keys")
        BY <2>12, <3>2 DEF Expire
      <4>4. /\ handler'[h].pc = "revoke_keys" /\ handler'[h].op = "refresh" /\ handler'[h].gen = ws.gen
            /\ \A k \in Handler \ {h} : handler'[k] = handler[k]
        BY <4>1, <4>3, Moves
      <4>5. Behind(handler'[h], ws'.gen)
        BY <4>2, <4>4 DEF Behind, Revokes
      <4> QED
        BY <3>1, <4>4, <4>5, OthersStayBehind DEF Awaited
    <3>3. CASE ~MayExpire(handler[h].row)
      BY <2>12, <3>1, <3>3, OthersStayBehind, Moves DEF Expire, Behind, Revokes, Awaited
    <3> QED
      BY <3>2, <3>3
  <2>13. CASE Status(h)
    <3>1. call' = call /\ call[h] = None
      BY <2>0, <2>13 DEF Status, At, Awaited
    <3> DEFINE saw == Reported(handler[h].row.provider)
               pc == IF Is(h, {"recover"}) /\ saw \notin {"ready", "provisioning"} THEN "claim" ELSE "reconcile"
               r == [handler[h] EXCEPT !.saw = saw, !.pc = pc]
    <3>2. Put(h, r) \/ Rest(h)
      BY <2>13 DEF Status
    <3>3. r.op = handler[h].op /\ r.pc = pc
      BY <2>0 DEF HandlerRow
    <3>4. pc = "reconcile" \/ (pc = "claim" /\ handler[h].op = "recover")
      BY DEF Is
    <3> HIDE DEF r, pc, saw
    <3>5. CASE Put(h, r)
      <4>1. handler'[h] = r /\ \A k \in Handler \ {h} : handler'[k] = handler[k]
        BY <3>5, Moves
      <4> QED
        BY <3>1, <3>3, <3>4, <4>1, OthersStayBehind DEF Behind, Revokes, Awaited
    <3>6. CASE Rest(h)
      BY <3>1, <3>6, OthersStayBehind, Moves DEF Behind, Revokes, Awaited
    <3> QED
      BY <3>2, <3>5, <3>6
  <2>14. CASE Reconcile(h)
    <3>1. call' = call /\ call[h] = None
      BY <2>0, <2>14 DEF Reconcile, At, Awaited
    <3>2. Rest(h) \/ Goto(h, "grants") \/ Begin(h, "refresh", "read")
      BY <2>14 DEF Reconcile
    <3> QED
      BY <3>1, <3>2, OthersStayBehind, Moves DEF Behind, Revokes, Awaited
  <2> QED
    BY <1>2, <2>1, <2>2, <2>3, <2>4, <2>5, <2>6, <2>7, <2>8, <2>9, <2>10, <2>11, <2>12, <2>13, <2>14 DEF Step
<1>3. ASSUME NEW h \in Handler, Node(h) \/ TimeOut(h) \/ Crash(h) PROVE Revokers'
  <2>0. /\ handler[h] \in HandlerRow /\ Behind(handler[h], ws.gen) /\ Awaited(handler[h], call[h])
        /\ handler[h].gen \in Nat
    BY <1>0 DEF Revokers
  <2>1. ws' = ws /\ (\A k \in Handler \ {h} : call'[k] = call[k]) /\ (call' = call \/ call'[h] = None)
    BY <1>0, <1>3 DEF Node, NodeDestroys, NodeCreates, NodeRefuses, TimeOut, Crash
  <2>2. CASE UNCHANGED handler
    BY <2>0, <2>1, <2>2, OthersStayBehind DEF Awaited
  <2>3. CASE Rest(h) \/ Goto(h, "undo") \/ Goto(h, "giveup")
    BY <2>1, <2>3, OthersStayBehind, Moves DEF Behind, Revokes, Awaited
  <2>4. ASSUME NodeDestroys(h), Waiting(h) PROVE Revokers'
    <3> DEFINE r == [handler[h] EXCEPT !.pc = AfterDestroy(handler[h].op), !.gone = TRUE]
    <3>1. r.op = handler[h].op /\ r.gen = handler[h].gen /\ r.pc = AfterDestroy(handler[h].op)
      BY <2>0 DEF HandlerRow
    <3>2. handler'[h] = r /\ (\A k \in Handler \ {h} : handler'[k] = handler[k])
      BY <2>4, Moves DEF NodeDestroys
    <3>3. handler[h].pc = "destroying" /\ call'[h] = None
      BY <1>0, <2>0, <2>4 DEF NodeDestroys, Waiting, Awaited
    <3>4. Behind(r, ws.gen)
      BY <2>0, <3>1, <3>3 DEF Behind, Revokes, AfterDestroy
    <3> QED
      BY <2>1, <3>2, <3>3, <3>4, OthersStayBehind DEF Awaited
  <2>5. ASSUME NodeCreates(h), Waiting(h) PROVE Revokers'
    <3> DEFINE r == [handler[h] EXCEPT !.pc = "finish", !.id = runtime'.id]
    <3>1. r.pc = "finish"
      BY <2>0 DEF HandlerRow
    <3>2. handler'[h] = r /\ (\A k \in Handler \ {h} : handler'[k] = handler[k])
      BY <2>5, Moves DEF NodeCreates
    <3>3. call'[h] = None
      BY <1>0, <2>5 DEF NodeCreates
    <3> HIDE DEF r
    <3> QED
      BY <2>1, <3>1, <3>2, <3>3, OthersStayBehind DEF Behind, Revokes, Awaited
  <2> QED
    BY <1>3, <2>2, <2>3, <2>4, <2>5 DEF Node, NodeDestroys, NodeCreates, NodeRefuses, TimeOut, Crash, Failed
<1>4. ASSUME RuntimeChanges \/ Age PROVE Revokers'
  <2>1. handler' = handler /\ call' = call /\ ws'.gen = ws.gen
    BY <1>0, <1>4 DEF RuntimeChanges, Age, Row
  <2> QED
    BY <2>1 DEF Revokers
<1> QED
  BY <1>1, <1>2, <1>3, <1>4 DEF Next

(* "An expired/replaced operation must never revoke a replacement's grants" *)
(* (service.ts, revokeFailedOperation), as long as no suspension and no     *)
(* deletion runs: what loses the row, however late, revokes below it.       *)
THEOREM ReplacementsKeepGrants ==
  ASSUME {"suspend", "delete"} \cap Operations = {}
  PROVE  Spec => ReplacementKeepsGrants
<1>1. Init => Generations /\ Revokers
  <2> SUFFICES ASSUME Init PROVE Generations /\ Revokers
    OBVIOUS
  <2>1. Generations
    BY DEF Init, Generations, RevocationsReachEverything, NewRow, Resting
  <2>2. Revokers
    BY DEF Init, Revokers, Behind, Revokes, Awaited, Resting
  <2> QED
    BY <2>1, <2>2
<1>2. TypeOK /\ Generations /\ Revokers /\ [Next]_vars => (Generations /\ Revokers)'
  <2>1. ASSUME Generations, Revokers, UNCHANGED vars PROVE (Generations /\ Revokers)'
    BY <2>1 DEF vars, Generations, RevocationsReachEverything, Revokers
  <2> QED
    BY <2>1, GenerationsKept, RevokersKept
<1>3. TypeOK /\ Revokers /\ [Next]_vars =>
        [ws.gen \in keys /\ ws.gen \notin keys' => \E h \in Handler : ws.token = h /\ By(h)]_vars
  <2> SUFFICES ASSUME TypeOK, Revokers, Next, ws.gen \in keys PROVE ws.gen \in keys'
    BY DEF vars
  <2>0. ws.gen \in Nat /\ \A h \in Handler : handler[h].gen \in Nat
    BY DEF TypeOK, Row, HandlerRow
  <2>1. ASSUME NEW h \in Handler, RevokeKeys(h) PROVE ws.gen \in keys'
    BY <2>0, <2>1 DEF RevokeKeys, KeysAfter, At, Is, Revokers, Behind, Revokes
  <2>2. ASSUME NEW h \in Handler, UndoKeys(h) PROVE ws.gen \in keys'
    BY <2>0, <2>2 DEF UndoKeys, KeysAfter, At, Revokers, Behind, Revokes
  <2>3. ASSUME NEW h \in Handler, Step(h), ~RevokeKeys(h), ~UndoKeys(h) PROVE keys \subseteq keys'
    BY <2>3 DEF Step, Claim, Bump, AskDestroy, AskCreate, Grant, Finish, Undo, GiveUp, Launch, Mark, Read,
                Expire, Status, Reconcile
  <2>4. ASSUME NEW h \in Handler, Arrive(h) \/ Node(h) \/ TimeOut(h) \/ Crash(h) PROVE keys' = keys
    BY <2>4 DEF Arrive, Create, Restart, Stop, Suspend, Open, Delete, Refresh, Recover, Admit,
                Node, NodeDestroys, NodeCreates, NodeRefuses, TimeOut, Crash
  <2>5. ASSUME RuntimeChanges \/ Age PROVE keys' = keys
    BY <2>5 DEF RuntimeChanges, Age
  <2> QED
    BY <2>1, <2>2, <2>3, <2>4, <2>5 DEF Next
<1> QED
  BY TypeCorrect, <1>1, <1>2, <1>3, PTL DEF Spec, ReplacementKeepsGrants

-----------------------------------------------------------------------------
(* What a workspace is shown with.  A deletion moves the generation of a    *)
(* row it does not hold, and opening writes one it does not hold (neither   *)
(* is in this theorem).                                                     *)

Starts == {"create", "restart", "recover"}

(* The container id, if it is there, has the grants of generation gen.      *)
Runs(id, gen) == id # None /\ id <= made /\ (runtime # None /\ runtime.id = id => runtime.gen = gen)

(* No handler opens or deletes; where each operation may be; a status is    *)
(* asked of a recorded container.                                           *)
Confined(r) ==
  /\ r.op \notin {"open", "delete"} /\ r.pc \notin {"launch", "mark"}
  /\ r.pc \in {"revoke_keys", "expire"} => r.op \notin Starts
  /\ r.pc \in {"bump", "destroy", "destroying"} => r.op # "create"
  /\ r.pc \in {"status", "reconcile"} => r.row.provider # None

(* A call that is waited for carries the generation of who waits.           *)
Expecting(r, c) ==
  c # None => \/ r.pc \in {"idle", "undo", "undo_keys", "giveup"}
              \/ r.pc = "destroying" /\ c.op = "destroy"
              \/ r.pc = "making" /\ c.op = "create" /\ c.gen = r.gen

(* The owner starts a container with the grants of the row's generation.    *)
Entitled(h, r, row) ==
  row.token = h /\ r.op \in Starts /\ r.pc \in {"destroy", "destroying", "grants", "make", "making", "finish"}
    => r.gen = row.gen

Delivered(r) == r.op \in Starts /\ r.pc = "finish" => Runs(r.id, r.gen)

Grounds ==
  \A h \in Handler : /\ Confined(handler[h]) /\ Expecting(handler[h], call[h])
                     /\ Entitled(h, handler[h], ws) /\ Delivered(handler[h])

(* A row nobody holds, serving or not, names a current container, unless    *)
(* the last operation left another one behind.                              *)
Shown ==
  ws.token = None /\ ~last.left =>
    /\ ws.state \in Serving => ws.provider # None
    /\ ws.provider # None => Runs(ws.provider, ws.gen)

Numbered == runtime # None => runtime.id <= made

ShowInv == ~ws.deleted /\ Numbered /\ Grounds /\ Shown

(* Containers never change their number or generation, and a new one has a  *)
(* new number.                                                              *)
LEMMA ContainersKept ==
  ASSUME TypeOK, Numbered, Next
  PROVE  Numbered' /\ \A id \in Nat, gen \in Nat : Runs(id, gen) => Runs(id, gen)'
<1>0. /\ runtime \in [id : Nat, gen : Nat, health : Health] \cup {None} /\ made \in Nat
      /\ call \in [Handler -> [op : {"create", "destroy"}, id : Nat \cup {None}, gen : Nat] \cup {None}]
  BY DEF TypeOK
<1>1. \/ made' = made /\ runtime' \in {runtime, None}
      \/ made' = made /\ runtime # None /\ runtime'.id = runtime.id /\ runtime'.gen = runtime.gen
      \/ made' = made + 1 /\ runtime'.id = made'
  <2>1. ASSUME NEW h \in Handler, Arrive(h) PROVE made' = made /\ runtime' = runtime
    BY <2>1 DEF Arrive, Create, Restart, Stop, Suspend, Open, Delete, Refresh, Recover, Admit
  <2>2. ASSUME NEW h \in Handler, Step(h) PROVE made' = made /\ runtime' = runtime
    BY <2>2 DEF Step, Claim, Bump, Grant, RevokeKeys, UndoKeys, Finish, Undo, GiveUp, Launch, Mark, Read,
                Expire, Status, Reconcile, AskDestroy, AskCreate
  <2>3. ASSUME NEW h \in Handler, NodeCreates(h)
        PROVE  (made' = made /\ runtime' = runtime) \/ (made' = made + 1 /\ runtime'.id = made')
    BY <2>3 DEF NodeCreates
  <2>4. ASSUME NEW h \in Handler, NodeDestroys(h) \/ NodeRefuses(h) \/ TimeOut(h) \/ Crash(h)
        PROVE  made' = made /\ runtime' \in {runtime, None}
    BY <2>4 DEF NodeDestroys, NodeRefuses, TimeOut, Crash
  <2>5. ASSUME RuntimeChanges
        PROVE  made' = made /\ runtime # None /\ runtime'.id = runtime.id /\ runtime'.gen = runtime.gen
    BY <1>0, <2>5 DEF RuntimeChanges
  <2>6. ASSUME Age PROVE made' = made /\ runtime' = runtime
    BY <2>6 DEF Age
  <2> QED
    BY <2>1, <2>2, <2>3, <2>4, <2>5, <2>6 DEF Next, Node
<1> QED
  BY <1>0, <1>1 DEF Numbered, Runs

(* What a step of handler h does to the row: nothing that matters here, it  *)
(* holds it, it finishes a start, it leaves nothing served, or the status   *)
(* of the recorded container is written.                                    *)
RowChange(h) ==
  /\ ws'.deleted = ws.deleted
  /\ \/ /\ ws'.token = ws.token /\ ws'.gen = ws.gen /\ ws'.provider = ws.provider
        /\ ws'.state = ws.state /\ last' = last
     \/ ws'.token = h
     \/ /\ ws.token = h /\ ws'.token = None /\ ws'.gen = ws.gen
        /\ handler[h].pc = "finish" /\ handler[h].op \in Starts /\ ws'.provider = handler[h].id
     \/ ws'.token = None /\ ws'.state \notin Serving /\ (last'.left \/ ws'.provider = None)
     \/ /\ ws.token = None /\ ws'.token = None /\ ws'.gen = ws.gen /\ last' = last
        /\ \/ ws'.provider = ws.provider /\ ws.provider # None
           \/ ws'.provider = None /\ ws'.state \notin Serving

Gives(row, new, state, provider) ==
  /\ new.token = None /\ new.state = state /\ new.provider = provider
  /\ new.gen = row.gen /\ new.deleted = row.deleted

(* What the statements that give up the row write *)
LEMMA Released ==
  ASSUME NEW row \in Row, NEW h \in Handler
  PROVE  /\ \A state, provider, cleanup :
              Gives(row, Finished(row, state, provider, cleanup), state, provider)
         /\ \A next : Claimed(row, h, next).token = h /\ Claimed(row, h, next).deleted = row.deleted
         /\ Bumped(row).token = row.token /\ Bumped(row).deleted = row.deleted
         /\ Expired(row).token = None /\ Expired(row).state = "failed"
         /\ Expired(row).provider = row.provider /\ Expired(row).deleted = row.deleted
<1>1. /\ Bumped(row).token = row.token /\ Bumped(row).deleted = row.deleted
      /\ Expired(row).token = None /\ Expired(row).state = "failed"
      /\ Expired(row).provider = row.provider /\ Expired(row).deleted = row.deleted
  BY DEF Bumped, Expired, Touched, Row
<1>2. \A next : Claimed(row, h, next).token = h /\ Claimed(row, h, next).deleted = row.deleted
  BY DEF Claimed, Touched, Row
<1>3. ASSUME NEW state, NEW provider, NEW cleanup
      PROVE  Gives(row, Finished(row, state, provider, cleanup), state, provider)
  BY DEF Gives, Finished, Touched, Row
<1> QED
  BY <1>1, <1>2, <1>3

LEMMA RowChanges ==
  ASSUME TypeOK, ShowInv, NEW h \in Handler,
         Arrive(h) \/ Step(h) \/ Node(h) \/ TimeOut(h) \/ Crash(h)
  PROVE  RowChange(h)
<1>0. /\ ws \in Row /\ handler[h] \in HandlerRow /\ ~ws.deleted /\ Confined(handler[h])
      /\ last \in [asked : {"running", "stopped"}, reopened : BOOLEAN, left : BOOLEAN]
  BY DEF TypeOK, ShowInv, Grounds
<1>1. CASE ws' = ws /\ last' = last
  BY <1>1 DEF RowChange
<1>2. CASE Arrive(h)
  <2>1. ws' = ws /\ last' = last
    BY <1>0, <1>2 DEF Arrive, Create, Restart, Stop, Suspend, Open, Delete, Refresh, Recover, Admit
  <2> QED
    BY <1>1, <2>1
<1>3. CASE Node(h) \/ TimeOut(h) \/ Crash(h)
  <2>1. ws' = ws /\ last' = last
    BY <1>3 DEF Node, NodeDestroys, NodeCreates, NodeRefuses, TimeOut, Crash
  <2> QED
    BY <1>1, <2>1
<1>4. CASE Claim(h)
  <2>1. (ws' = ws /\ last' = last) \/ ws' = Claimed(ws, h, Target(handler[h].op))
    BY <1>4 DEF Claim
  <2> QED
    BY <1>0, <1>1, <2>1, Released DEF RowChange
<1>5. CASE Bump(h) \/ Undo(h)
  <2>1. last' = last /\ (ws' = ws \/ (ws.token = h /\ ws' = Bumped(ws)))
    BY <1>0, <1>5 DEF Bump, MayBump, Undo, Owns, Confined
  <2> QED
    BY <1>0, <1>1, <2>1, Released DEF RowChange
<1>6. CASE Expire(h)
  <2>1. CASE MayExpire(handler[h].row)
    <3>1. ws' = Expired(ws) /\ last' = [last EXCEPT !.left = ws.provider # None]
      BY <1>6, <2>1 DEF Expire
    <3>2. ws.provider # None => last'.left
      BY <1>0, <3>1
    <3> QED
      BY <1>0, <3>1, <3>2, Released DEF RowChange, Serving
  <2>2. CASE ~MayExpire(handler[h].row)
    BY <1>1, <1>6, <2>2 DEF Expire
  <2> QED
    BY <2>1, <2>2
<1>7. CASE RevokeKeys(h)
  <2>1. last' = last /\ ws' \in {ws, Finished(ws, "stopped", None, TRUE)}
    BY <1>7, Zenon DEF RevokeKeys
  <2>2. Gives(ws, Finished(ws, "stopped", None, TRUE), "stopped", None)
    BY <1>0, Released
  <2> QED
    BY <1>1, <2>1, <2>2 DEF RowChange, Serving, Gives
<1>8. CASE Finish(h)
  <2>1. last' = last
    BY <1>8 DEF Finish
  <2>2. CASE handler[h].op \in Starts /\ Owns(h)
    <3>1. ws' = Finished(ws, "ready", handler[h].id, FALSE)
      BY <1>8, <2>2 DEF Finish, Is, Starts
    <3>2. Gives(ws, ws', "ready", handler[h].id)
      BY <1>0, <3>1, Released
    <3> QED
      BY <1>8, <2>2, <3>2 DEF RowChange, Owns, Finish, At, Gives
  <2>3. CASE ~(handler[h].op \in Starts /\ Owns(h))
    <3>1. ws' \in {ws, Finished(ws, "stopped", None, FALSE)}
      BY <1>0, <1>8, <2>3 DEF Finish, Is, Starts, Confined
    <3>2. Gives(ws, Finished(ws, "stopped", None, FALSE), "stopped", None)
      BY <1>0, Released
    <3> QED
      BY <1>1, <2>1, <3>1, <3>2 DEF RowChange, Serving, Gives
  <2> QED
    BY <2>2, <2>3
<1>9. CASE GiveUp(h)
  <2>1. CASE Owns(h)
    <3>1. /\ ws' = Finished(ws, "failed", ProviderLeft(h), FALSE)
          /\ last' = [last EXCEPT !.left = ProviderLeft(h) # None]
      BY <1>9, <2>1 DEF GiveUp
    <3>2. ProviderLeft(h) # None => last'.left
      BY <1>0, <3>1
    <3>3. Gives(ws, ws', "failed", ProviderLeft(h))
      BY <1>0, <3>1, Released
    <3> QED
      BY <3>2, <3>3 DEF RowChange, Serving, Gives
  <2>2. CASE ~Owns(h)
    BY <1>1, <1>9, <2>2 DEF GiveUp
  <2> QED
    BY <2>1, <2>2
<1>10. CASE Reconcile(h)
  <2>1. last' = last /\ (ws' = ws \/ (Unmoved(handler[h].row) /\ ws' = Reconciled(handler[h].row, handler[h].saw)))
    BY <1>10 DEF Reconcile
  <2>2. handler[h].row.provider # None
    BY <1>0, <1>10 DEF Reconcile, At, Confined
  <2>3. LET row == Reconciled(handler[h].row, handler[h].saw)
        IN  /\ row.token = ws.token /\ row.gen = ws.gen /\ row.deleted = ws.deleted
            /\ row.provider = IF handler[h].saw = "stopped" THEN None ELSE ws.provider
            /\ handler[h].saw = "stopped" => row.state = "stopped"
    BY <1>0 DEF Reconciled, Touched, Row
  <2> QED
    BY <1>1, <2>1, <2>2, <2>3 DEF RowChange, Unmoved, Serving
<1>11. CASE AskDestroy(h) \/ AskCreate(h) \/ Grant(h) \/ UndoKeys(h) \/ Launch(h) \/ Read(h) \/ Status(h)
  <2>1. ws' = ws /\ last' = last
    BY <1>11 DEF AskDestroy, AskCreate, Grant, UndoKeys, Launch, Read, Status
  <2> QED
    BY <1>1, <2>1
<1>12. ~Mark(h)
  BY <1>0 DEF Mark, At, Confined
<1> QED
  BY <1>2, <1>3, <1>4, <1>5, <1>6, <1>7, <1>8, <1>9, <1>10, <1>11, <1>12 DEF Step

LEMMA ShownKept ==
  ASSUME TypeOK, ShowInv, Next, NEW h \in Handler, RowChange(h)
  PROVE  Shown'
<1>0. /\ ws \in Row /\ handler[h] \in HandlerRow /\ Shown /\ None \notin Handler
      /\ Entitled(h, handler[h], ws) /\ Delivered(handler[h])
  BY WorkspaceAssumption DEF TypeOK, ShowInv, Grounds
<1>1. \A id \in Nat, gen \in Nat : Runs(id, gen) => Runs(id, gen)'
  BY ContainersKept DEF ShowInv
<1>2. ws.gen \in Nat /\ (ws.provider # None => ws.provider \in Nat) /\ (handler[h].id # None => handler[h].id \in Nat)
  BY <1>0 DEF Row, HandlerRow
<1>3. CASE ws'.token # None
  BY <1>3 DEF Shown
<1>4. CASE ws'.state \notin Serving /\ (last'.left \/ ws'.provider = None)
  BY <1>4 DEF Shown
<1>5. CASE ws.token = None /\ ws'.gen = ws.gen /\ ws'.provider = ws.provider /\ last' = last
           /\ (ws'.state = ws.state \/ ws.provider # None)
  <2> SUFFICES ASSUME ~last.left
               PROVE  /\ ws'.state \in Serving => ws.provider # None
                      /\ ws.provider # None => Runs(ws.provider, ws.gen)'
    BY <1>5 DEF Shown, Runs
  <2>1. ws'.state \in Serving => ws.provider # None
    BY <1>0, <1>5 DEF Shown
  <2>2. ASSUME ws.provider # None PROVE Runs(ws.provider, ws.gen)'
    <3>1. Runs(ws.provider, ws.gen)
      BY <1>0, <1>5, <2>2 DEF Shown
    <3>2. PICK id \in Nat, gen \in Nat : id = ws.provider /\ gen = ws.gen
      BY <1>2, <2>2
    <3>3. Runs(id, gen)'
      BY <1>1, <3>1, <3>2
    <3> QED
      BY <1>5, <3>2, <3>3 DEF Runs
  <2> QED
    BY <1>5, <2>1, <2>2 DEF Runs
<1>6. CASE ws.token = h /\ ws'.gen = ws.gen /\ handler[h].pc = "finish" /\ handler[h].op \in Starts
           /\ ws'.provider = handler[h].id
  <2>1. Runs(handler[h].id, ws.gen)
    BY <1>0, <1>6 DEF Entitled, Delivered
  <2>2. PICK id \in Nat, gen \in Nat : id = handler[h].id /\ gen = ws.gen
    BY <1>2, <2>1 DEF Runs
  <2>3. id # None /\ Runs(id, gen)'
    BY <1>1, <2>1, <2>2 DEF Runs
  <2> QED
    BY <1>6, <2>2, <2>3 DEF Shown, Runs
<1> QED
  BY <1>0, <1>3, <1>4, <1>5, <1>6 DEF RowChange

(* It is enough to look at the handler that moved.                          *)
LEMMA OneMoves ==
  ASSUME TypeOK, ShowInv, Next, NEW h \in Handler, RowChange(h),
         \A k \in Handler \ {h} : handler'[k] = handler[k] /\ call'[k] = call[k],
         Confined(handler'[h]), Expecting(handler'[h], call'[h]),
         Entitled(h, handler'[h], ws'), Delivered(handler[h])'
  PROVE  ShowInv'
<1>1. ASSUME NEW k \in Handler \ {h}
      PROVE  /\ Confined(handler'[k]) /\ Expecting(handler'[k], call'[k])
             /\ Entitled(k, handler'[k], ws') /\ Delivered(handler[k])'
  <2>1. /\ Confined(handler[k]) /\ Expecting(handler[k], call[k])
        /\ Entitled(k, handler[k], ws) /\ Delivered(handler[k])
    BY DEF ShowInv, Grounds
  <2>2. Entitled(k, handler[k], ws')
    <3>1. ws'.token = k => ws.token = k /\ ws'.gen = ws.gen
      BY WorkspaceAssumption DEF RowChange
    <3> QED
      BY <2>1, <3>1 DEF Entitled
  <2>3. Delivered(handler[k])'
    <3>1. CASE handler[k].op \in Starts /\ handler[k].pc = "finish"
      <4>1. Runs(handler[k].id, handler[k].gen) /\ handler[k].gen \in Nat /\ handler[k].id \in Nat
        BY <2>1, <3>1 DEF Delivered, Runs, TypeOK, HandlerRow
      <4>2. PICK id \in Nat, gen \in Nat : id = handler[k].id /\ gen = handler[k].gen
        BY <4>1
      <4>3. Runs(id, gen)'
        BY <4>1, <4>2, ContainersKept DEF ShowInv
      <4> QED
        BY <4>2, <4>3 DEF Delivered, Runs
    <3>2. CASE ~(handler[k].op \in Starts /\ handler[k].pc = "finish")
      BY <3>2 DEF Delivered
    <3> QED
      BY <3>1, <3>2
  <2> QED
    BY <2>1, <2>2, <2>3
<1>2. Grounds'
  BY <1>1 DEF Grounds
<1>3. Numbered' /\ Shown'
  BY ContainersKept, ShownKept DEF ShowInv
<1>4. ~ws'.deleted
  BY DEF RowChange, ShowInv
<1> QED
  BY <1>2, <1>3, <1>4 DEF ShowInv

(* Resting, and the places where nothing is expected, held or delivered     *)
LEMMA Resets ==
  ASSUME TypeOK, NEW h \in Handler
  PROVE  /\ Rest(h) => handler'[h].op = "none"
         /\ \A pc : Goto(h, pc) => handler'[h].id = handler[h].id
<1>0. handler \in [Handler -> HandlerRow] /\ handler[h] \in HandlerRow
  BY DEF TypeOK
<1>1. ASSUME Rest(h) PROVE handler'[h].op = "none"
  BY <1>0, <1>1 DEF Rest, Put, Resting
<1>2. ASSUME NEW pc, Goto(h, pc) PROVE handler'[h].id = handler[h].id
  <2>1. [handler[h] EXCEPT !.pc = pc].id = handler[h].id
    BY <1>0 DEF HandlerRow
  <2> QED
    BY <1>0, <1>2, <2>1 DEF Goto, Put
<1> QED
  BY <1>1, <1>2

LEMMA ShowArrive ==
  ASSUME TypeOK, ShowInv, {"open", "delete"} \cap Operations = {}, Next, NEW h \in Handler, Arrive(h)
  PROVE  ShowInv'
<1>0. Resting \in HandlerRow /\ ws \in Row /\ RowChange(h)
  BY RestingType, RowChanges DEF TypeOK
<1>1. call' = call /\ call[h] = None
  BY DEF Arrive, Create, Restart, Stop, Suspend, Open, Delete, Refresh, Recover, Admit, Idle
<1>2. ~Open(h) /\ ~Delete(h)
  BY DEF Open, Delete, Admit
<1>3. CASE \E op \in {"create", "restart", "stop", "suspend"} : Begin(h, op, "claim")
  BY <1>0, <1>1, <1>3, OneMoves, Moves DEF Confined, Expecting, Entitled, Delivered
<1>4. CASE Begin(h, "suspend", "revoke_keys") \/ Begin(h, "refresh", "read")
  BY <1>0, <1>1, <1>4, OneMoves, Moves DEF Confined, Expecting, Entitled, Delivered, Starts
<1>5. CASE Put(h, [Resting EXCEPT !.op = "recover", !.row = ws, !.gen = ws.gen, !.fenced = TRUE,
                                  !.pc = IF ws.provider = None THEN "claim" ELSE "status"])
  <2> DEFINE r == [Resting EXCEPT !.op = "recover", !.row = ws, !.gen = ws.gen, !.fenced = TRUE,
                                  !.pc = IF ws.provider = None THEN "claim" ELSE "status"]
  <2>1. r.op = "recover" /\ r.row = ws /\ r.pc = IF ws.provider = None THEN "claim" ELSE "status"
    BY <1>0 DEF HandlerRow
  <2>2. handler'[h] = r /\ \A k \in Handler \ {h} : handler'[k] = handler[k]
    BY <1>5, Moves
  <2> HIDE DEF r
  <2> QED
    BY <1>0, <1>1, <2>1, <2>2, OneMoves DEF Confined, Expecting, Entitled, Delivered
<1> QED
  BY <1>2, <1>3, <1>4, <1>5 DEF Arrive, Create, Restart, Stop, Suspend, Refresh, Recover

LEMMA ShowStep ==
  ASSUME TypeOK, ShowInv, Next, NEW h \in Handler, Step(h)
  PROVE  ShowInv'
<1> USE DEF At
<1>0. /\ ws \in Row /\ handler \in [Handler -> HandlerRow] /\ handler[h] \in HandlerRow
      /\ call \in [Handler -> [op : {"create", "destroy"}, id : Nat \cup {None}, gen : Nat] \cup {None}]
  BY DEF TypeOK
<1>1. /\ RowChange(h) /\ None \notin Handler
      /\ Confined(handler[h]) /\ Expecting(handler[h], call[h])
      /\ Entitled(h, handler[h], ws) /\ Delivered(handler[h])
  BY RowChanges, WorkspaceAssumption DEF ShowInv, Grounds
<1>2. CASE Claim(h)
  <2>1. call' = call /\ call[h] = None
    BY <1>1, <1>2 DEF Claim, Expecting
  <2>2. CASE MayClaim(h)
    <3> DEFINE r == [handler[h] EXCEPT !.row = ws', !.gen = ws.gen, !.gone = ws.provider = None,
                                       !.pc = IF handler[h].op = "create" THEN "grants" ELSE "bump"]
    <3>1. /\ r.op = handler[h].op /\ r.gen = ws.gen /\ r.pc \in {"grants", "bump"}
          /\ r.pc = "bump" => handler[h].op # "create"
      BY <1>0 DEF HandlerRow
    <3>2. handler'[h] = r /\ \A k \in Handler \ {h} : handler'[k] = handler[k]
      BY <1>2, <2>2, Moves DEF Claim
    <3>3. ws'.gen = ws.gen
      BY <1>0, <1>2, <2>2, RowGens DEF Claim
    <3> HIDE DEF r
    <3> QED
      BY <1>1, <2>1, <3>1, <3>2, <3>3, OneMoves DEF Confined, Expecting, Entitled, Delivered
  <2>3. CASE ~MayClaim(h)
    <3>1. Rest(h)
      BY <1>2, <2>3 DEF Claim
    <3> QED
      BY <1>1, <2>1, <3>1, OneMoves, Moves, Resets DEF Confined, Expecting, Entitled, Delivered
  <2> QED
    BY <2>2, <2>3
<1>3. CASE Bump(h)
  <2>1. call' = call /\ call[h] = None
    BY <1>1, <1>3 DEF Bump, Expecting
  <2>2. CASE MayBump(h)
    <3> DEFINE g == IF Is(h, {"restart", "recover"}) THEN ws'.gen ELSE handler[h].gen
               pc == IF handler[h].row.provider # None THEN "destroy" ELSE AfterDestroy(handler[h].op)
               r == [handler[h] EXCEPT !.gen = g, !.pc = pc]
    <3>1. r.op = handler[h].op /\ r.pc = pc /\ r.gen = g
      <4> HIDE DEF g, pc
      <4> QED
        BY <1>0 DEF HandlerRow
    <3>2. handler'[h] = r /\ \A k \in Handler \ {h} : handler'[k] = handler[k]
      BY <1>3, <2>2, Moves DEF Bump
    <3>3. handler[h].op \in {"restart", "recover"} => g = ws'.gen
      BY DEF Is
    <3>4. pc \in {"destroy", "grants", "revoke_keys"} /\ (pc = "revoke_keys" => handler[h].op \notin {"restart", "recover"})
      BY DEF AfterDestroy
    <3> HIDE DEF r, g, pc
    <3>5. handler[h].op # "create"
      BY <1>1, <1>3 DEF Bump, Confined
    <3> QED
      BY <1>1, <2>1, <3>1, <3>2, <3>3, <3>4, <3>5, OneMoves DEF Confined, Expecting, Entitled, Delivered, Starts
  <2>3. CASE ~MayBump(h)
    <3>1. Rest(h)
      BY <1>3, <2>3 DEF Bump
    <3> QED
      BY <1>1, <2>1, <3>1, OneMoves, Moves, Resets DEF Confined, Expecting, Entitled, Delivered
  <2> QED
    BY <2>2, <2>3
<1>4. CASE AskDestroy(h)
  <2>1. call'[h].op = "destroy" /\ (\A k \in Handler \ {h} : call'[k] = call[k])
    BY <1>0, <1>4 DEF AskDestroy
  <2>2. ws' = ws /\ Goto(h, "destroying")
    BY <1>4 DEF AskDestroy
  <2> QED
    BY <1>1, <1>4, <2>1, <2>2, OneMoves, Moves DEF AskDestroy, Confined, Expecting, Entitled, Delivered
<1>5. CASE AskCreate(h)
  <2>1. call'[h].op = "create" /\ call'[h].gen = handler[h].gen /\ (\A k \in Handler \ {h} : call'[k] = call[k])
    BY <1>0, <1>5 DEF AskCreate
  <2>2. ws' = ws /\ Goto(h, "making")
    BY <1>5 DEF AskCreate
  <2> QED
    BY <1>1, <1>5, <2>1, <2>2, OneMoves, Moves DEF AskCreate, Confined, Expecting, Entitled, Delivered
<1>6. CASE Grant(h)
  <2>1. call' = call /\ call[h] = None /\ ws' = ws
    BY <1>1, <1>6 DEF Grant, Expecting
  <2>2. handler[h].op # "open"
    BY <1>1 DEF Confined
  <2>3. Rest(h) \/ \E pc \in {"idle", "make", "undo", "giveup"} : Goto(h, pc)
    BY <1>6, <2>2 DEF Grant, AfterGrants, Failed
  <2>4. CASE Rest(h)
    BY <1>1, <2>1, <2>4, OneMoves, Moves, Resets DEF Confined, Expecting, Entitled, Delivered
  <2>5. ASSUME NEW pc \in {"idle", "make", "undo", "giveup"}, Goto(h, pc) PROVE ShowInv'
    BY <1>1, <1>6, <2>1, <2>5, OneMoves, Moves DEF Grant, Confined, Expecting, Entitled, Delivered
  <2> QED
    BY <2>3, <2>4, <2>5
<1>7. CASE RevokeKeys(h)
  <2>1. call' = call /\ call[h] = None
    BY <1>1, <1>7 DEF RevokeKeys, Expecting
  <2>2. handler[h].op \notin Starts
    BY <1>1, <1>7 DEF RevokeKeys, Confined
  <2>3. Rest(h) \/ Goto(h, "finish") \/ Goto(h, "giveup")
    BY <1>7 DEF RevokeKeys
  <2> QED
    BY <1>1, <2>1, <2>2, <2>3, OneMoves, Moves, Resets DEF Confined, Expecting, Entitled, Delivered
<1>8. CASE Finish(h) \/ GiveUp(h) \/ Mark(h)
  <2>1. call' = call /\ Rest(h)
    BY <1>8 DEF Finish, GiveUp, Mark
  <2> QED
    BY <1>1, <2>1, OneMoves, Moves, Resets DEF Confined, Expecting, Entitled, Delivered
<1>9. CASE Undo(h)
  <2>1. call' = call
    BY <1>9 DEF Undo
  <2>2. CASE Owns(h)
    <3> DEFINE r == [handler[h] EXCEPT !.gen = ws.gen, !.pc = "undo_keys"]
    <3>1. r.pc = "undo_keys" /\ r.op = handler[h].op
      BY <1>0 DEF HandlerRow
    <3>2. handler'[h] = r /\ \A k \in Handler \ {h} : handler'[k] = handler[k]
      BY <1>9, <2>2, Moves DEF Undo
    <3> HIDE DEF r
    <3> QED
      BY <1>1, <2>1, <3>1, <3>2, OneMoves DEF Confined, Expecting, Entitled, Delivered
  <2>3. CASE ~Owns(h)
    <3>1. Rest(h)
      BY <1>9, <2>3 DEF Undo
    <3> QED
      BY <1>1, <2>1, <3>1, OneMoves, Moves, Resets DEF Confined, Expecting, Entitled, Delivered
  <2> QED
    BY <2>2, <2>3
<1>10. CASE UndoKeys(h)
  <2>1. call' = call /\ Goto(h, "giveup")
    BY <1>10 DEF UndoKeys
  <2> QED
    BY <1>1, <2>1, OneMoves, Moves DEF Confined, Expecting, Entitled, Delivered
<1>11. CASE Launch(h)
  BY <1>1, <1>11 DEF Launch, Confined
<1>12. CASE Read(h)
  <2>1. call' = call /\ call[h] = None
    BY <1>1, <1>12 DEF Read, Expecting
  <2>2. \/ Rest(h) \/ Begin(h, "refresh", "expire")
        \/ ws.provider # None /\ Begin(h, "refresh", "status")
    BY <1>12 DEF Read
  <2> QED
    BY <1>1, <2>1, <2>2, OneMoves, Moves, Resets DEF Confined, Expecting, Entitled, Delivered, Starts
<1>13. CASE Expire(h)
  <2>1. call' = call /\ call[h] = None
    BY <1>1, <1>13 DEF Expire, Expecting
  <2>2. Rest(h) \/ Goto(h, "revoke_keys")
    BY <1>13 DEF Expire
  <2>3. handler[h].op \notin Starts
    BY <1>1, <1>13 DEF Expire, Confined
  <2> QED
    BY <1>1, <2>1, <2>2, <2>3, OneMoves, Moves, Resets DEF Confined, Expecting, Entitled, Delivered
<1>14. CASE Status(h)
  <2>1. call' = call /\ call[h] = None
    BY <1>1, <1>14 DEF Status, Expecting
  <2> DEFINE saw == Reported(handler[h].row.provider)
             pc == IF Is(h, {"recover"}) /\ saw \notin {"ready", "provisioning"} THEN "claim" ELSE "reconcile"
             r == [handler[h] EXCEPT !.saw = saw, !.pc = pc]
  <2>2. Put(h, r) \/ Rest(h)
    BY <1>14 DEF Status
  <2>3. r.op = handler[h].op /\ r.row = handler[h].row /\ r.pc \in {"claim", "reconcile"}
    BY <1>0 DEF HandlerRow
  <2>4. handler[h].row.provider # None
    BY <1>1, <1>14 DEF Status, Confined
  <2> HIDE DEF r
  <2>5. CASE Put(h, r)
    <3>1. handler'[h] = r /\ \A k \in Handler \ {h} : handler'[k] = handler[k]
      BY <2>5, Moves
    <3> QED
      BY <1>1, <2>1, <2>3, <2>4, <3>1, OneMoves DEF Confined, Expecting, Entitled, Delivered
  <2>6. CASE Rest(h)
    BY <1>1, <2>1, <2>6, OneMoves, Moves, Resets DEF Confined, Expecting, Entitled, Delivered
  <2> QED
    BY <2>2, <2>5, <2>6
<1>15. CASE Reconcile(h)
  <2>1. call' = call /\ call[h] = None
    BY <1>1, <1>15 DEF Reconcile, Expecting
  <2> DEFINE r == [handler[h] EXCEPT !.op = "suspend", !.pc = "claim", !.row = ws', !.fenced = TRUE]
  <2>2. r.op = "suspend" /\ r.pc = "claim"
    BY <1>0 DEF HandlerRow
  <2>3. Rest(h) \/ (ws'.token = None /\ Goto(h, "grants")) \/ Begin(h, "refresh", "read") \/ Put(h, r)
    <3>1. Unmoved(handler[h].row) => ws.token = None /\ Reconciled(handler[h].row, handler[h].saw).token = ws.token
      BY <1>0 DEF Unmoved, Reconciled, Touched, Row
    <3> QED
      BY <1>15, <3>1 DEF Reconcile
  <2> HIDE DEF r
  <2>4. CASE Rest(h) \/ Begin(h, "refresh", "read")
    BY <1>1, <2>1, <2>4, OneMoves, Moves, Resets DEF Confined, Expecting, Entitled, Delivered
  <2>5. CASE ws'.token = None /\ Goto(h, "grants")
    BY <1>1, <2>1, <2>5, OneMoves, Moves DEF Confined, Expecting, Entitled, Delivered
  <2>6. CASE Put(h, r)
    <3>1. handler'[h] = r /\ \A k \in Handler \ {h} : handler'[k] = handler[k]
      BY <2>6, Moves
    <3> QED
      BY <1>1, <2>1, <2>2, <3>1, OneMoves DEF Confined, Expecting, Entitled, Delivered
  <2> QED
    BY <2>3, <2>4, <2>5, <2>6
<1> QED
  BY <1>2, <1>3, <1>4, <1>5, <1>6, <1>7, <1>8, <1>9, <1>10, <1>11, <1>12, <1>13, <1>14, <1>15 DEF Step

LEMMA ShowNode ==
  ASSUME TypeOK, ShowInv, Next, NEW h \in Handler, Node(h) \/ TimeOut(h) \/ Crash(h)
  PROVE  ShowInv'
<1>0. /\ handler \in [Handler -> HandlerRow] /\ handler[h] \in HandlerRow
      /\ call \in [Handler -> [op : {"create", "destroy"}, id : Nat \cup {None}, gen : Nat] \cup {None}]
      /\ runtime \in [id : Nat, gen : Nat, health : Health] \cup {None} /\ made \in Nat
  BY DEF TypeOK
<1>1. /\ RowChange(h) /\ None \notin Handler /\ None \notin Nat /\ Numbered
      /\ Confined(handler[h]) /\ Expecting(handler[h], call[h])
      /\ Entitled(h, handler[h], ws) /\ Delivered(handler[h])
  BY RowChanges, WorkspaceAssumption DEF ShowInv, Grounds
<1>2. ws' = ws /\ (\A k \in Handler \ {h} : call'[k] = call[k]) /\ (call' = call \/ call'[h] = None)
  BY <1>0 DEF Node, NodeDestroys, NodeCreates, NodeRefuses, TimeOut, Crash
<1>3. CASE UNCHANGED handler
  <2>1. Delivered(handler[h])'
    <3>1. CASE handler[h].op \in Starts /\ handler[h].pc = "finish"
      <4>1. Runs(handler[h].id, handler[h].gen) /\ handler[h].gen \in Nat /\ handler[h].id \in Nat
        BY <1>0, <1>1, <3>1 DEF Delivered, Runs, HandlerRow
      <4>2. PICK id \in Nat, gen \in Nat : id = handler[h].id /\ gen = handler[h].gen
        BY <4>1
      <4>3. Runs(id, gen)'
        BY <4>1, <4>2, ContainersKept DEF ShowInv
      <4> QED
        BY <1>3, <4>2, <4>3 DEF Delivered, Runs
    <3>2. CASE ~(handler[h].op \in Starts /\ handler[h].pc = "finish")
      BY <1>3, <3>2 DEF Delivered
    <3> QED
      BY <3>1, <3>2
  <2>2. Confined(handler'[h]) /\ Expecting(handler'[h], call'[h]) /\ Entitled(h, handler'[h], ws')
    BY <1>1, <1>2, <1>3 DEF Expecting
  <2> QED
    BY <1>1, <1>2, <1>3, <2>1, <2>2, OneMoves
<1>4. CASE Rest(h) \/ Goto(h, "undo") \/ Goto(h, "giveup")
  BY <1>1, <1>2, <1>4, OneMoves, Moves, Resets DEF Confined, Expecting, Entitled, Delivered
<1>5. ASSUME NodeDestroys(h), Waiting(h) PROVE ShowInv'
  <2> DEFINE r == [handler[h] EXCEPT !.pc = AfterDestroy(handler[h].op), !.gone = TRUE]
  <2>1. r.op = handler[h].op /\ r.gen = handler[h].gen /\ r.row = handler[h].row /\ r.pc = AfterDestroy(handler[h].op)
    BY <1>0 DEF HandlerRow
  <2>2. handler'[h] = r /\ (\A k \in Handler \ {h} : handler'[k] = handler[k])
    BY <1>5, Moves DEF NodeDestroys
  <2>3. handler[h].pc = "destroying" /\ call'[h] = None
    BY <1>0, <1>1, <1>5 DEF NodeDestroys, Waiting, Expecting
  <2>4. AfterDestroy(handler[h].op) = IF handler[h].op \in {"restart", "recover"} THEN "grants" ELSE "revoke_keys"
    BY DEF AfterDestroy
  <2>5. handler[h].op # "create"
    BY <1>1, <2>3 DEF Confined
  <2> HIDE DEF r
  <2> QED
    BY <1>1, <1>2, <2>1, <2>2, <2>3, <2>4, <2>5, OneMoves DEF Confined, Expecting, Entitled, Delivered, Starts
<1>6. ASSUME NodeCreates(h), Waiting(h) PROVE ShowInv'
  <2> DEFINE r == [handler[h] EXCEPT !.pc = "finish", !.id = runtime'.id]
  <2>1. r.pc = "finish" /\ r.op = handler[h].op /\ r.gen = handler[h].gen /\ r.id = runtime'.id
    BY <1>0 DEF HandlerRow
  <2>2. handler'[h] = r /\ (\A k \in Handler \ {h} : handler'[k] = handler[k])
    BY <1>6, Moves DEF NodeCreates
  <2>3. /\ handler[h].pc = "making" /\ call[h].gen = handler[h].gen /\ call'[h] = None
    BY <1>0, <1>1, <1>6 DEF NodeCreates, Waiting, Expecting
  <2>4. runtime'.gen = handler[h].gen /\ runtime'.id \in Nat /\ runtime'.id <= made'
    BY <1>0, <1>1, <1>6, <2>3 DEF NodeCreates, Kept, Numbered
  <2> HIDE DEF r
  <2> QED
    BY <1>1, <1>2, <2>1, <2>2, <2>3, <2>4, OneMoves DEF Confined, Expecting, Entitled, Delivered, Runs
<1> QED
  BY <1>3, <1>4, <1>5, <1>6 DEF Node, NodeDestroys, NodeCreates, NodeRefuses, TimeOut, Crash, Failed

(* The container's health and the clock touch nothing of this.              *)
LEMMA ShowWorld ==
  ASSUME TypeOK, ShowInv, Next, RuntimeChanges \/ Age
  PROVE  ShowInv'
<1>0. /\ ws \in Row /\ handler \in [Handler -> HandlerRow]
      /\ runtime \in [id : Nat, gen : Nat, health : Health] \cup {None}
  BY DEF TypeOK
<1>1. /\ handler' = handler /\ call' = call /\ last' = last
      /\ ws'.token = ws.token /\ ws'.gen = ws.gen /\ ws'.provider = ws.provider
      /\ ws'.state = ws.state /\ ws'.deleted = ws.deleted
  BY <1>0 DEF RuntimeChanges, Age, Row
<1>2. made' = made /\ (runtime' = runtime \/ (runtime # None /\ runtime'.id = runtime.id /\ runtime'.gen = runtime.gen))
  BY <1>0 DEF RuntimeChanges, Age
<1>3. \A id, gen : Runs(id, gen) => Runs(id, gen)'
  BY <1>2 DEF Runs
<1>4. ASSUME NEW k \in Handler
      PROVE  /\ Confined(handler'[k]) /\ Expecting(handler'[k], call'[k])
             /\ Entitled(k, handler'[k], ws') /\ Delivered(handler[k])'
  <2>1. /\ Confined(handler[k]) /\ Expecting(handler[k], call[k])
        /\ Entitled(k, handler[k], ws) /\ Delivered(handler[k])
    BY DEF ShowInv, Grounds
  <2>2. Delivered(handler[k])'
    BY <1>1, <1>2, <2>1 DEF Delivered, Runs
  <2> QED
    BY <1>1, <2>1, <2>2 DEF Entitled
<1>5. Shown'
  BY <1>1, <1>2 DEF ShowInv, Shown, Runs
<1> QED
  BY <1>1, <1>4, <1>5, ContainersKept DEF ShowInv, Grounds

(* Without deletion and opening, a workspace nobody works on is shown       *)
(* serving only with a container of the grants its row names, unless the    *)
(* last operation failed or lapsed and left another container in the row:   *)
(* for any number of requests, handlers, faults, deaths and late calls,     *)
(* suspensions for a policy change included.                                *)
THEOREM FinishedRuntimesAreCurrent ==
  ASSUME {"open", "delete"} \cap Operations = {}
  PROVE  Spec => []FinishedRuntimeIsCurrent
<1>1. Init => ShowInv
  BY WorkspaceAssumption DEF Init, ShowInv, Numbered, Grounds, Shown, Confined, Expecting, Entitled, Delivered,
     Starts, NewRow, Resting, Serving
<1>2. TypeOK /\ ShowInv /\ [Next]_vars => ShowInv'
  <2>1. ASSUME UNCHANGED vars, ShowInv PROVE ShowInv'
    BY <2>1 DEF vars, budget, ShowInv, Numbered, Grounds, Shown, Delivered, Runs
  <2>2. ASSUME TypeOK, ShowInv, Next PROVE ShowInv'
    <3>1. CASE \E h \in Handler : Arrive(h) \/ Step(h) \/ Node(h) \/ TimeOut(h) \/ Crash(h)
      BY <2>2, <3>1, ShowArrive, ShowStep, ShowNode
    <3>2. CASE RuntimeChanges \/ Age
      BY <2>2, <3>2, ShowWorld
    <3> QED
      BY <2>2, <3>1, <3>2 DEF Next
  <2> QED
    BY <2>1, <2>2
<1>3. TypeOK /\ ShowInv => FinishedRuntimeIsCurrent
  BY DEF ShowInv, Shown, Runs, FinishedRuntimeIsCurrent, ServedRuntimeIsCurrent
<1> QED
  BY TypeCorrect, <1>1, <1>2, <1>3, PTL DEF Spec

=============================================================================
