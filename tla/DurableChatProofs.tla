------------------------- MODULE DurableChatProofs -------------------------
(***************************************************************************)
(* Theorems about DurableChat, for all sets of turns, files, conversations *)
(* and workspaces and every deadline: types, that a file a message shows    *)
(* can be read, that what is in storage is recorded, and that turns end     *)
(* once.                                                                    *)
(***************************************************************************)
EXTENDS DurableChat, SequenceTheorems, TLAPS

(***************************************************************************)
(* Messages                                                                 *)
(***************************************************************************)

Once(log) ==
  \A i, j \in DOMAIN log : Of(log[i].turn, log[i].role, log[j]) => i = j

\* Upserting a message keeps the others where they are.
LEMMA UpsertedLog ==
    ASSUME NEW log \in Seq(MessageType), Once(log), NEW m \in MessageType
    PROVE  /\ Upserted(log, m) \in Seq(MessageType) /\ Once(Upserted(log, m))
           /\ \A i \in DOMAIN log : ~Of(m.turn, m.role, log[i]) =>
                i \in DOMAIN Upserted(log, m) /\ Upserted(log, m)[i] = log[i]
           /\ \A i \in DOMAIN Upserted(log, m) :
                \/ Upserted(log, m)[i] = m
                \/ /\ i \in DOMAIN log /\ Upserted(log, m)[i] = log[i]
                   /\ ~Of(m.turn, m.role, log[i])
<1>0. DOMAIN log = 1..Len(log) /\ Len(log) \in Nat /\ \A i \in DOMAIN log : log[i] \in MessageType
  BY LenProperties, ElementOfSeq
<1> DEFINE changed == [i \in DOMAIN log |-> IF Of(m.turn, m.role, log[i]) THEN m ELSE log[i]]
<1>1. CASE \E i \in DOMAIN log : Of(m.turn, m.role, log[i])
  <2>1. Upserted(log, m) = changed
    BY <1>1 DEF Upserted
  <2>2. changed \in Seq(MessageType) /\ DOMAIN changed = DOMAIN log
    <3>1. changed \in [1..Len(log) -> MessageType]
      BY <1>0
    <3> QED
      BY <1>0, <3>1, SeqDef
  <2>3. Once(changed)
    BY <1>0 DEF Once, Of
  <2> QED
    BY <2>1, <2>2, <2>3
<1>2. CASE ~\E i \in DOMAIN log : Of(m.turn, m.role, log[i])
  <2>1. Upserted(log, m) = Append(log, m)
    BY <1>2 DEF Upserted
  <2>2. /\ Append(log, m) \in Seq(MessageType) /\ Len(Append(log, m)) = Len(log) + 1
        /\ DOMAIN Append(log, m) = 1..(Len(log) + 1)
        /\ \A i \in 1..Len(log) : Append(log, m)[i] = log[i]
        /\ Append(log, m)[Len(log) + 1] = m
    BY <1>0
  <2>3. Once(Append(log, m))
    BY <1>0, <1>2, <2>2 DEF Once, Of
  <2> QED
    BY <1>0, <1>2, <2>1, <2>2, <2>3
<1> QED
  BY <1>1, <1>2

\* A fork copies the first messages as they are.
LEMMA CopiedLog ==
    ASSUME NEW log \in Seq(MessageType), Once(log), NEW k \in DOMAIN log
    PROVE  /\ SubSeq(log, 1, k) \in Seq(MessageType) /\ Once(SubSeq(log, 1, k))
           /\ \A i \in DOMAIN SubSeq(log, 1, k) : i \in DOMAIN log /\ SubSeq(log, 1, k)[i] = log[i]
<1>0. /\ DOMAIN log = 1..Len(log) /\ Len(log) \in Nat /\ k \in 1..Len(log)
      /\ \A i \in 1..k : log[i] \in MessageType
  BY LenProperties, ElementOfSeq
<1>1. /\ SubSeq(log, 1, k) \in Seq(MessageType) /\ Len(SubSeq(log, 1, k)) = k
      /\ \A i \in 1..k : SubSeq(log, 1, k)[i] = log[i]
  BY <1>0, SubSeqProperties
<1>2. DOMAIN SubSeq(log, 1, k) = 1..k
  BY <1>1, LenProperties
<1> QED
  BY <1>0, <1>1, <1>2 DEF Once

(***************************************************************************)
(* How a turn moves                                                         *)
(***************************************************************************)

Saving == {"place", "stage", "row", "prepare", "promote", "drop", "commit", "lock", "committing",
           "read", "undo row", "undo bytes"}

\* Where a turn can be, and what it has by then
Course(t) ==
  LET r == turn[t]
  IN  /\ r.pc \notin {"idle", "done"} => r.conversation \in Conversations
      /\ r.pc \in Saving => r.upload \in Uploads
      /\ r.pc \in {"begin", "stream", "finish"} => r.role = "assistant"
      /\ r.pc = "begin" => r.event = "none"
      /\ r.role = "assistant" /\ r.pc \notin {"begin", "stream"} => r.event # "none"
      /\ r.pc = "finish" => r.state # "streaming"
      /\ r.event # "none" => run[t] # None

Courses == \A t \in Turns : Course(t)

Others(t) == \A s \in Turns \ {t} : turn'[s] = turn[s]

\* Only the place and what is known to be in storage change.
Like(q, r, pc) ==
  /\ q.pc = pc /\ q.by = r.by /\ q.conversation = r.conversation /\ q.role = r.role
  /\ q.files = r.files /\ q.upload = r.upload /\ q.state = r.state /\ q.event = r.event

Shifts(t, pc) == turn' \in [Turns -> TurnType] /\ Others(t) /\ Like(turn'[t], turn[t], pc)

Ends(t) == turn' \in [Turns -> TurnType] /\ Others(t) /\ turn'[t] = Over

\* The failure is being recorded.
Reports(t) ==
  LET r == turn[t]  q == turn'[t]
  IN  /\ turn' \in [Turns -> TurnType] /\ Others(t)
      /\ q.pc = "write" /\ q.conversation = r.conversation /\ q.role = "assistant"
      /\ q.files = r.files /\ q.upload = None /\ q.state = "failed" /\ q.event = r.event
      /\ r.role = "assistant" /\ r.event = "some" /\ r.state = "streaming"

LEMMA Shifting ==
    ASSUME turn \in [Turns -> TurnType], NEW t \in Turns, NEW pc \in Pc
    PROVE  /\ Goes(t, pc) => Shifts(t, pc)
           /\ \A what \in {"staging", "final"} : Holding(t, what, pc) => Shifts(t, pc)
           /\ turn' = [turn EXCEPT ![t] = [turn[t] EXCEPT !.pc = pc]] => Shifts(t, pc)
<1>0. turn[t] \in TurnType
  OBVIOUS
<1>1. ASSUME NEW r, NEW what \in {"nothing", "staging", "final"}, turn' = [turn EXCEPT ![t] = r],
             r = [turn[t] EXCEPT !.pc = pc] \/ r = [turn[t] EXCEPT !.pc = pc, !.holds = what]
      PROVE  Shifts(t, pc)
  <2>1. r \in TurnType /\ Like(r, turn[t], pc)
    <3>1. ASSUME NEW q \in TurnType, r = [q EXCEPT !.pc = pc]
          PROVE  r \in TurnType /\ Like(r, q, pc)
      BY <3>1 DEF TurnType, Like
    <3>2. ASSUME NEW q \in TurnType, r = [q EXCEPT !.pc = pc, !.holds = what]
          PROVE  r \in TurnType /\ Like(r, q, pc)
      BY <3>2 DEF TurnType, Like
    <3> QED
      BY <1>0, <1>1, <3>1, <3>2, Zenon
  <2>2. turn' \in [Turns -> TurnType] /\ turn'[t] = r /\ Others(t)
    BY <1>1, <2>1 DEF Others
  <2> QED
    BY <2>1, <2>2 DEF Shifts
<1>2. ASSUME Goes(t, pc) PROVE Shifts(t, pc)
  BY <1>1, <1>2 DEF Goes
<1>3. ASSUME NEW what \in {"staging", "final"}, Holding(t, what, pc) PROVE Shifts(t, pc)
  BY <1>1, <1>3 DEF Holding
<1>4. ASSUME turn' = [turn EXCEPT ![t] = [turn[t] EXCEPT !.pc = pc]] PROVE Shifts(t, pc)
  BY <1>1, <1>4
<1> QED
  BY <1>2, <1>3, <1>4

LEMMA OverType == Over \in TurnType /\ Idle \in TurnType
  BY ChatAssumption DEF Over, Idle, TurnType, Pc

LEMMA WriteOrStream == "write" \in Pc /\ "stream" \in Pc
  BY DEF Pc

Has(r, pc, c, role, some, u, state, event) ==
  /\ r \in TurnType /\ r.pc = pc /\ r.conversation = c /\ r.role = role
  /\ r.files = some /\ r.upload = u /\ r.state = state /\ r.event = event

LEMMA ErrorsEnd ==
    ASSUME turn \in [Turns -> TurnType], NEW t \in Turns,
           turn' = [turn EXCEPT ![t] = AfterError(t)]
    PROVE  Reports(t) \/ Ends(t)
<1>1. CASE Recovers(t)
  <2> DEFINE r == [turn[t] EXCEPT !.pc = "write", !.state = "failed", !.upload = None, !.holds = "nothing"]
  <2>1. turn' = [turn EXCEPT ![t] = r]
    BY <1>1 DEF AfterError
  <2>2. ASSUME NEW q \in TurnType, NEW pc \in Pc
        PROVE  Has([q EXCEPT !.pc = pc, !.state = "failed", !.upload = None, !.holds = "nothing"],
                   pc, q.conversation, q.role, q.files, None, "failed", q.event)
    BY DEF TurnType, Ending, Has
  <2>3. Has(r, "write", turn[t].conversation, turn[t].role, turn[t].files, None, "failed", turn[t].event)
    BY <2>2, WriteOrStream, Zenon
  <2> HIDE DEF r
  <2> QED
    BY <1>1, <2>1, <2>3 DEF Reports, Others, Recovers, Has
<1>2. CASE ~Recovers(t)
  BY <1>2, OverType DEF AfterError, Ends, Others
<1> QED
  BY <1>1, <1>2

\* An error undoes an ingestion first, and then is recorded or ends the turn.
LEMMA Troubles ==
    ASSUME turn \in [Turns -> TurnType], NEW t \in Turns, Trouble(t)
    PROVE  \/ Ingesting(t) /\ Shifts(t, "undo row")
           \/ At(t, "undo row") /\ Shifts(t, "undo bytes")
           \/ ~Ingesting(t) /\ ~At(t, "undo row") /\ (Reports(t) \/ Ends(t))
<1>0. turn[t] \in TurnType
  OBVIOUS
<1>1. CASE Ingesting(t)
  <2>1. turn' = [turn EXCEPT ![t] = [turn[t] EXCEPT !.pc = "undo row"]]
    BY <1>1 DEF Trouble
  <2> QED
    BY <1>1, <2>1, Shifting DEF Pc
<1>2. CASE ~Ingesting(t) /\ At(t, "undo row")
  <2>1. turn' = [turn EXCEPT ![t] = [turn[t] EXCEPT !.pc = "undo bytes"]]
    BY <1>2 DEF Trouble
  <2> QED
    BY <1>2, <2>1, Shifting DEF Pc
<1>3. CASE ~Ingesting(t) /\ ~At(t, "undo row")
  <2>1. turn' = [turn EXCEPT ![t] = AfterError(t)]
    BY <1>3 DEF Trouble
  <2> QED
    BY <1>3, <2>1, ErrorsEnd
<1> QED
  BY <1>1, <1>2, <1>3

\* The file that was saved becomes one of the message's.
Gains(t) ==
  LET r == turn[t]  q == turn'[t]
  IN  /\ turn' \in [Turns -> TurnType] /\ Others(t)
      /\ q.pc = "write" /\ q.conversation = r.conversation /\ q.role = r.role
      /\ q.files = r.files \cup {r.upload} /\ q.upload = None /\ q.state = r.state /\ q.event = r.event

\* The agent's message follows that of the user.
Follows(t) ==
  LET r == turn[t]  q == turn'[t]
  IN  /\ turn' \in [Turns -> TurnType] /\ Others(t)
      /\ q.pc = "stream" /\ q.conversation = r.conversation /\ q.role = "assistant"
      /\ q.files = {} /\ q.upload = r.upload /\ q.state = r.state /\ q.event = r.event

\* What the message's writing leads to
Continues(t) ==
  \/ turn[t].role = "user" /\ Follows(t)
  \/ turn[t].role = "assistant" /\ turn[t].state = "streaming" /\ Shifts(t, "stream")
  \/ turn[t].role = "assistant" /\ turn[t].state # "streaming" /\ Shifts(t, "finish")

\* A turn takes up a message or an event, with a new file or none.
Takes(t) ==
  LET r == turn[t]  q == turn'[t]
  IN  /\ turn' \in [Turns -> TurnType] /\ Others(t)
      /\ \/ q.pc = "write" /\ q.upload = None
         \/ q.pc = "place" /\ q.upload \in Uploads /\ Fresh(q.upload)
      /\ \/ /\ r.pc = "idle" /\ q.conversation \in Conversations /\ Live(q.conversation)
            /\ q.role = "user" /\ q.files = {} /\ q.state = "streaming" /\ q.event = "none"
         \/ /\ r.pc = "stream" /\ r.event = "some" /\ q.conversation = r.conversation
            /\ q.role = r.role /\ q.files = r.files /\ q.state = r.state /\ q.event = r.event

\* The run has begun, or the agent has finished.
Notes(t, pc, event, state) ==
  LET r == turn[t]  q == turn'[t]
  IN  /\ turn' \in [Turns -> TurnType] /\ Others(t)
      /\ q.pc = pc /\ q.conversation = r.conversation /\ q.role = r.role
      /\ q.files = r.files /\ q.upload = r.upload /\ q.state = state /\ q.event = event

LEMMA Reading ==
    ASSUME turn \in [Turns -> TurnType], NEW t \in Turns, turn[t].upload \in Uploads, ReadBack(t)
    PROVE  (Readable(Upload(t)) /\ Gains(t)) \/ Reports(t) \/ Ends(t)
<1>1. CASE Readable(Upload(t))
  <2>1. turn' = [turn EXCEPT ![t] = Gained(t)]
    BY <1>1 DEF ReadBack
  <2>2. ASSUME NEW q \in TurnType, NEW pc \in Pc, NEW u \in Uploads
        PROVE  Has([q EXCEPT !.pc = pc, !.files = q.files \cup {u}, !.upload = None, !.holds = "nothing"],
                   pc, q.conversation, q.role, q.files \cup {u}, None, q.state, q.event)
    BY DEF TurnType, Has
  <2>3. Has(Gained(t), "write", turn[t].conversation, turn[t].role, turn[t].files \cup {Upload(t)}, None,
            turn[t].state, turn[t].event)
    BY <2>2, WriteOrStream, Zenon DEF Upload, Gained
  <2> QED
    BY <1>1, <2>1, <2>3 DEF Gains, Others, Upload, Has
<1>2. CASE ~Readable(Upload(t))
  BY <1>2, ErrorsEnd DEF ReadBack
<1> QED
  BY <1>1, <1>2

LEMMA Writing ==
    ASSUME turn \in [Turns -> TurnType], NEW t \in Turns,
           turn' = [turn EXCEPT ![t] = AfterWrite(t)]
    PROVE  Continues(t)
<1>0. turn[t] \in TurnType /\ turn[t].role \in {"user", "assistant"}
  BY DEF TurnType
<1>1. CASE turn[t].role = "user"
  <2> DEFINE r == [turn[t] EXCEPT !.pc = "stream", !.role = "assistant", !.files = {}]
  <2>1. turn' = [turn EXCEPT ![t] = r]
    BY <1>1 DEF AfterWrite
  <2>2. ASSUME NEW q \in TurnType, NEW pc \in Pc
        PROVE  Has([q EXCEPT !.pc = pc, !.role = "assistant", !.files = {}],
                   pc, q.conversation, "assistant", {}, q.upload, q.state, q.event)
    BY DEF TurnType, Has
  <2>3. Has(r, "stream", turn[t].conversation, "assistant", {}, turn[t].upload, turn[t].state, turn[t].event)
    BY <2>2, WriteOrStream, Zenon
  <2> HIDE DEF r
  <2> QED
    BY <1>1, <2>1, <2>3 DEF Continues, Follows, Others, Has
<1>2. CASE turn[t].role = "assistant"
  <2> DEFINE pc == IF turn[t].state = "streaming" THEN "stream" ELSE "finish"
  <2>1. turn' = [turn EXCEPT ![t] = [turn[t] EXCEPT !.pc = pc]] /\ pc \in Pc
    BY <1>2 DEF AfterWrite, Pc
  <2>2. CASE turn[t].state = "streaming"
    BY <1>2, <2>1, <2>2, Shifting DEF Continues
  <2>3. CASE turn[t].state # "streaming"
    BY <1>2, <2>1, <2>3, Shifting DEF Continues
  <2> QED
    BY <2>2, <2>3
<1> QED
  BY <1>0, <1>1, <1>2

LEMMA Taking ==
    ASSUME turn \in [Turns -> TurnType], NEW t \in Turns,
           \/ \E by \in Handlers, c \in Conversations, u \in Uploads \cup {None} : Send(t, by, c, u)
           \/ \E u \in Uploads \cup {None} : AgentEvent(t, u)
    PROVE  Takes(t)
<1>0. turn[t] \in TurnType /\ None \notin Uploads
  BY ChatAssumption
<1>1. ASSUME NEW by \in Handlers, NEW c \in Conversations, NEW u \in Uploads \cup {None}, Send(t, by, c, u)
      PROVE  Takes(t)
  <2> DEFINE r == [Idle EXCEPT !.by = by, !.conversation = c, !.upload = u,
                               !.pc = IF u = None THEN "write" ELSE "place"]
  <2>1. turn' = [turn EXCEPT ![t] = r]
    BY <1>1 DEF Send
  <2>2. ASSUME NEW q \in TurnType, NEW pc \in Pc
        PROVE  Has([q EXCEPT !.by = by, !.conversation = c, !.upload = u, !.pc = pc],
                   pc, c, q.role, q.files, u, q.state, q.event)
    BY DEF TurnType, Has
  <2>3. (IF u = None THEN "write" ELSE "place") \in Pc
    BY DEF Pc
  <2>4. Has(r, IF u = None THEN "write" ELSE "place", c, Idle.role, Idle.files, u, Idle.state, Idle.event)
    BY <2>2, <2>3, OverType, Zenon
  <2>5. Idle.role = "user" /\ Idle.files = {} /\ Idle.state = "streaming" /\ Idle.event = "none"
    BY DEF Idle
  <2> HIDE DEF r
  <2> QED
    BY <1>0, <1>1, <2>1, <2>4, <2>5 DEF Takes, Others, Send, Attachment, At, Has
<1>2. ASSUME NEW u \in Uploads \cup {None}, AgentEvent(t, u) PROVE Takes(t)
  <2> DEFINE pc == IF u = None THEN "write" ELSE "place"
             r == [turn[t] EXCEPT !.pc = pc, !.upload = u]
  <2>1. turn' = [turn EXCEPT ![t] = r]
    BY <1>2 DEF AgentEvent
  <2>3. pc \in Pc /\ (u = None => pc = "write") /\ (u # None => pc = "place")
    BY DEF Pc
  <2> HIDE DEF pc
  <2>2. ASSUME NEW q \in TurnType
        PROVE  Has([q EXCEPT !.pc = pc, !.upload = u],
                   pc, q.conversation, q.role, q.files, u, q.state, q.event)
    BY <2>3 DEF TurnType, Has
  <2>4. Has(r, pc, turn[t].conversation, turn[t].role, turn[t].files, u, turn[t].state, turn[t].event)
    BY <1>0, <2>2, Zenon
  <2>5. turn[t].pc = "stream" /\ turn[t].event = "some" /\ (u = None \/ (u \in Uploads /\ Fresh(u)))
    BY <1>2 DEF AgentEvent, Attachment, At
  <2> HIDE DEF r
  <2>6. turn' \in [Turns -> TurnType] /\ turn'[t] = r /\ Others(t)
    BY <2>1, <2>4 DEF Others, Has
  <2> QED
    BY <1>0, <2>3, <2>4, <2>5, <2>6 DEF Takes, Has
<1> QED
  BY <1>1, <1>2

LEMMA Noting ==
    ASSUME turn \in [Turns -> TurnType], NEW t \in Turns
    PROVE  /\ turn' = [turn EXCEPT ![t] = [@ EXCEPT !.pc = "stream", !.event = "some"]]
                => Notes(t, "stream", "some", turn[t].state)
           /\ \A state \in Ending : TurnFinish(t, state) => Notes(t, "write", "finish", state)
<1>0. turn[t] \in TurnType
  OBVIOUS
<1>1. ASSUME turn' = [turn EXCEPT ![t] = [@ EXCEPT !.pc = "stream", !.event = "some"]]
      PROVE  Notes(t, "stream", "some", turn[t].state)
  <2> DEFINE r == [turn[t] EXCEPT !.pc = "stream", !.event = "some"]
  <2>1. turn' = [turn EXCEPT ![t] = r]
    BY <1>1
  <2>2. ASSUME NEW q \in TurnType, NEW pc \in Pc
        PROVE  Has([q EXCEPT !.pc = pc, !.event = "some"],
                   pc, q.conversation, q.role, q.files, q.upload, q.state, "some")
    BY DEF TurnType, Has
  <2>3. Has(r, "stream", turn[t].conversation, turn[t].role, turn[t].files, turn[t].upload, turn[t].state, "some")
    BY <1>0, <2>2, WriteOrStream, Zenon
  <2> HIDE DEF r
  <2> QED
    BY <2>1, <2>3 DEF Notes, Others, Has
<1>2. ASSUME NEW state \in Ending, TurnFinish(t, state) PROVE Notes(t, "write", "finish", state)
  <2> DEFINE r == [turn[t] EXCEPT !.pc = "write", !.event = "finish", !.state = state]
  <2>1. turn' = [turn EXCEPT ![t] = r]
    BY <1>2 DEF TurnFinish
  <2>2. ASSUME NEW q \in TurnType, NEW pc \in Pc
        PROVE  Has([q EXCEPT !.pc = pc, !.event = "finish", !.state = state],
                   pc, q.conversation, q.role, q.files, q.upload, state, "finish")
    BY DEF TurnType, Has
  <2>3. Has(r, "write", turn[t].conversation, turn[t].role, turn[t].files, turn[t].upload, state, "finish")
    BY <1>0, <2>2, WriteOrStream, Zenon
  <2> HIDE DEF r
  <2> QED
    BY <2>1, <2>3 DEF Notes, Others, Has
<1> QED
  BY <1>1, <1>2

(***************************************************************************)
(* Types                                                                    *)
(***************************************************************************)

Stays(t) == run' \in [Turns -> RunRow \cup {None}] /\ \A s \in Turns \ {t} : run'[s] = run[s]

LEMMA CourseAfterTrouble ==
    ASSUME turn \in [Turns -> TurnType], NEW t \in Turns, Trouble(t), Course(t),
           turn[t].pc \notin {"idle", "done"}, run[t] # None => run'[t] # None
    PROVE  turn' \in [Turns -> TurnType] /\ Others(t) /\ Course(t)'
<1>1. CASE Shifts(t, "undo row") /\ Ingesting(t)
  BY <1>1 DEF Shifts, Like, Course, Ingesting, Saving
<1>2. CASE Shifts(t, "undo bytes") /\ At(t, "undo row")
  BY <1>2 DEF Shifts, Like, Course, At, Saving
<1>3. CASE Reports(t)
  BY <1>3 DEF Reports, Course, Saving
<1>4. CASE Ends(t)
  BY <1>4 DEF Ends, Course, Saving, Over, Idle
<1> QED
  BY <1>1, <1>2, <1>3, <1>4, Troubles

LEMMA IngestCourse ==
    ASSUME TypeOK, Courses, NEW t \in Turns, Ingest(t)
    PROVE  turn' \in [Turns -> TurnType] /\ Others(t) /\ Course(t)' /\ run' = run
<1>0. turn \in [Turns -> TurnType] /\ Course(t)
  BY DEF TypeOK, Courses
<1>1. run' = run
  BY DEF Ingest, Place, Stage, InsertRow, Prepare, Promote, CopyObject, DropStaged, Clock, Clocking,
         LockStaged, Commit, ReadBack, UndoRow, UndoBytes
<1>2. CASE ReadBack(t)
  <2>1. turn[t].pc = "read" /\ turn[t].upload \in Uploads
    BY <1>0, <1>2 DEF ReadBack, At, Course, Saving
  <2>2. Gains(t) \/ Reports(t) \/ Ends(t)
    BY <1>0, <1>2, <2>1, Reading
  <2> QED
    BY <1>0, <1>1, <2>1, <2>2 DEF Gains, Reports, Ends, Course, Saving, Over, Idle
<1>3. CASE ~ReadBack(t)
  <2>1. /\ turn[t].pc \in Saving
        /\ Trouble(t) \/ \E pc \in Saving, what \in {"staging", "final"} : Goes(t, pc) \/ Holding(t, what, pc)
    BY <1>3 DEF Ingest, Place, Stage, InsertRow, Prepare, Promote, CopyObject, DropStaged, Clock, Clocking,
                LockStaged, Commit, UndoRow, UndoBytes, At, Saving
  <2>2. CASE Trouble(t)
    BY <1>0, <1>1, <2>1, <2>2, CourseAfterTrouble DEF Saving
  <2>3. ASSUME NEW pc \in Saving, Shifts(t, pc) PROVE Others(t) /\ Course(t)' /\ turn' \in [Turns -> TurnType]
    BY <1>0, <1>1, <2>1, <2>3 DEF Shifts, Like, Course, Saving
  <2>4. Saving \subseteq Pc
    BY DEF Saving, Pc
  <2> QED
    BY <1>0, <1>1, <2>1, <2>2, <2>3, <2>4, Shifting
<1> QED
  BY <1>2, <1>3

LEMMA TurnCourse ==
    ASSUME TypeOK, Courses, NEW t \in Turns, TurnStep(t)
    PROVE  turn' \in [Turns -> TurnType] /\ Others(t) /\ Course(t)' /\ Stays(t)
<1>0. /\ turn \in [Turns -> TurnType] /\ Course(t) /\ run \in [Turns -> RunRow \cup {None}]
      /\ turn[t] \in TurnType /\ None \notin RunRow
  BY ChatAssumption DEF TypeOK, Courses
<1>1. ASSUME NEW r \in RunRow, run' = [run EXCEPT ![t] = r] PROVE Stays(t) /\ run'[t] # None
  BY <1>0, <1>1 DEF Stays
<1>2. CASE Takes(t) /\ run' = run
  BY <1>0, <1>2 DEF Takes, Course, Saving, Stays
<1>3. CASE WriteMessage(t) \/ BindFiles(t)
  <2>1. run' = run /\ turn[t].pc \in {"write", "bind"}
    BY <1>3 DEF WriteMessage, BindFiles, At
  <2>2. Trouble(t) \/ Goes(t, "bind") \/ turn' = [turn EXCEPT ![t] = AfterWrite(t)]
    BY <1>3 DEF WriteMessage, BindFiles, Goes
  <2>3. CASE Trouble(t)
    BY <1>0, <2>1, <2>3, CourseAfterTrouble DEF Stays
  <2>4. CASE Goes(t, "bind")
    BY <1>0, <2>1, <2>4, Shifting DEF Shifts, Like, Course, Saving, Stays, Pc
  <2>5. CASE Continues(t)
    BY <1>0, <2>1, <2>5 DEF Continues, Follows, Shifts, Like, Course, Saving, Stays
  <2> QED
    BY <1>0, <2>2, <2>3, <2>4, <2>5, Writing
<1>4. CASE TurnStart(t)
  BY <1>0, <1>4, Shifting DEF TurnStart, At, Shifts, Like, Course, Saving, Stays, Pc
<1>5. CASE BeginRun(t)
  <2>1. turn[t].pc = "begin" /\ turn[t].conversation \in Conversations
    BY <1>0, <1>5 DEF BeginRun, At, Course
  <2>2. [conversation |-> turn[t].conversation, status |-> "streaming"] \in RunRow
    BY <2>1 DEF RunRow
  <2>3. Stays(t) /\ run'[t] # None
    BY <1>1, <1>5, <2>2 DEF BeginRun
  <2>4. CASE Trouble(t)
    BY <1>0, <2>1, <2>3, <2>4, CourseAfterTrouble
  <2>5. CASE Notes(t, "stream", "some", turn[t].state)
    BY <1>0, <2>1, <2>3, <2>5 DEF Notes, Course, Saving
  <2> QED
    BY <1>0, <1>5, <2>4, <2>5, Noting DEF BeginRun
<1>6. ASSUME NEW state \in Ending, TurnFinish(t, state)
      PROVE  turn' \in [Turns -> TurnType] /\ Others(t) /\ Course(t)' /\ Stays(t)
  <2>1. run' = run /\ turn[t].pc = "stream" /\ turn[t].event = "some"
    BY <1>6 DEF TurnFinish, At
  <2>2. Notes(t, "write", "finish", state)
    BY <1>0, <1>6, Noting
  <2> QED
    BY <1>0, <2>1, <2>2 DEF Notes, Course, Saving, Stays
<1>7. CASE FinishRun(t)
  <2>1. turn[t].pc = "finish" /\ run[t] \in RunRow /\ turn[t].state \in Ending
    BY <1>0, <1>7 DEF FinishRun, At, Course, TurnType
  <2>2. [run[t] EXCEPT !.status = turn[t].state] \in RunRow
    BY <2>1 DEF RunRow
  <2>3. Stays(t) /\ run'[t] # None
    BY <1>1, <1>7, <2>2 DEF FinishRun
  <2>4. CASE Trouble(t)
    BY <1>0, <2>1, <2>3, <2>4, CourseAfterTrouble
  <2>5. CASE turn' = [turn EXCEPT ![t] = Over]
    BY <1>0, <2>3, <2>5, OverType DEF Course, Saving, Others, Over, Idle
  <2> QED
    BY <1>7, <2>4, <2>5 DEF FinishRun
<1>8. CASE StepFails(t)
  <2>1. Trouble(t) /\ run' = run /\ turn[t].pc \notin {"idle", "done"}
    BY <1>8 DEF StepFails
  <2> QED
    BY <1>0, <2>1, CourseAfterTrouble DEF Stays
<1>9. ASSUME \/ \E by \in Handlers, c \in Conversations, u \in Uploads \cup {None} : Send(t, by, c, u)
             \/ \E u \in Uploads \cup {None} : AgentEvent(t, u)
      PROVE  Takes(t) /\ run' = run
  <2>1. run' = run
    BY <1>9 DEF Send, AgentEvent
  <2> QED
    BY <1>0, <1>9, <2>1, Taking
<1> QED
  BY <1>2, <1>3, <1>4, <1>5, <1>6, <1>7, <1>8, <1>9 DEF TurnStep

LogsOK ==
  messages \in [Conversations -> Seq(MessageType)] /\ \A c \in Conversations : Once(messages[c])

LEMMA LogsTyped == TypeOK => LogsOK
  BY DEF TypeOK, LogsOK, Once

\* What the tables of files may become
FilesOK ==
  /\ upload \in [Uploads -> UploadRow \cup {None}]
  /\ artifact \in [Uploads -> {"none", "available", "staged_delete"}]
  /\ staged \subseteq Uploads /\ final \subseteq Uploads

LEMMA IngestFiles ==
    ASSUME TypeOK, Courses, NEW t \in Turns, Ingest(t)
    PROVE  FilesOK' /\ UNCHANGED <<now, chats, run, sweep, overtaken, deleted, faults>>
<1>0. /\ FilesOK /\ now \in Times /\ TTL \in Nat /\ MaxTime \in Nat
      /\ turn[t].pc \in Saving => turn[t].upload \in Uploads /\ turn[t].conversation \in Conversations
  BY ChatAssumption DEF TypeOK, FilesOK, Courses, Course, Saving
<1>1. CASE Place(t) \/ Clock(t) \/ LockStaged(t) \/ ReadBack(t)
  BY <1>0, <1>1 DEF Place, Clock, Clocking, LockStaged, ReadBack, FilesOK, files, chats
<1>2. CASE Stage(t) \/ Promote(t) \/ CopyObject(t) \/ DropStaged(t) \/ UndoBytes(t)
  <2>1. turn[t].upload \in Uploads
    BY <1>0, <1>2 DEF Stage, Promote, CopyObject, DropStaged, UndoBytes, At, Saving
  <2>2. upload' = upload /\ artifact' = artifact /\ UNCHANGED <<now, chats, run, sweep, overtaken, deleted, faults>>
    BY <1>2 DEF Stage, Promote, CopyObject, DropStaged, UndoBytes
  <2>3. staged' \subseteq staged \cup {turn[t].upload} /\ final' \subseteq final \cup {turn[t].upload}
    BY <1>2 DEF Stage, Promote, CopyObject, DropStaged, UndoBytes, Upload
  <2> QED
    BY <1>0, <2>1, <2>2, <2>3 DEF FilesOK
<1>3. CASE InsertRow(t)
  <2>1. turn[t].upload \in Uploads /\ turn[t].conversation \in Conversations /\ now + TTL \in Times
    BY <1>0, <1>3 DEF InsertRow, At, Saving, Times
  <2>2. [conversation |-> turn[t].conversation, state |-> "staged", expires |-> now + TTL, named |-> FALSE] \in UploadRow
    BY <2>1 DEF UploadRow, Sweepable
  <2> QED
    BY <1>0, <1>3, <2>1, <2>2 DEF InsertRow, RowInserted, Upload, FilesOK
<1>4. CASE Prepare(t)
  <2>1. turn[t].upload \in Uploads /\ upload[turn[t].upload] \in UploadRow
    BY <1>0, <1>4 DEF Prepare, At, Saving, Is, Upload, FilesOK
  <2>2. [upload[turn[t].upload] EXCEPT !.state = "finalizing", !.named = TRUE] \in UploadRow
    BY <2>1 DEF UploadRow, Sweepable
  <2>3. upload' = [upload EXCEPT ![turn[t].upload] = [upload[turn[t].upload] EXCEPT !.state = "finalizing", !.named = TRUE]]
    BY <1>0, <1>4 DEF Prepare, Upload
  <2> QED
    BY <1>0, <1>4, <2>1, <2>2, <2>3 DEF Prepare, FilesOK
<1>5. CASE Commit(t) \/ UndoRow(t)
  <2>1. turn[t].upload \in Uploads /\ upload[turn[t].upload] \in UploadRow
    BY <1>0, <1>5 DEF Commit, UndoRow, At, Saving, Is, Upload, FilesOK
  <2>2. \A state \in {"committed", "failed"} : [upload[turn[t].upload] EXCEPT !.state = state] \in UploadRow
    BY <2>1 DEF UploadRow, Sweepable
  <2>3. \E state \in {"committed", "failed"} :
          upload' = [upload EXCEPT ![turn[t].upload] = [upload[turn[t].upload] EXCEPT !.state = state]]
    BY <1>0, <1>5 DEF Commit, UndoRow, Upload
  <2>4. /\ artifact' = artifact \/ artifact' = [artifact EXCEPT ![turn[t].upload] = "available"]
        /\ staged' = staged /\ final' = final /\ UNCHANGED <<now, chats, run, sweep, overtaken, deleted, faults>>
    BY <1>5 DEF Commit, UndoRow, Upload
  <2> QED
    BY <1>0, <2>1, <2>2, <2>3, <2>4 DEF FilesOK
<1> QED
  BY <1>1, <1>2, <1>3, <1>4, <1>5 DEF Ingest

BindingType ==
  [conversation : Conversations, turn : Turns, role : {"user", "assistant"}, file : Uploads]

LEMMA TurnChats ==
    ASSUME TypeOK, Courses, NEW t \in Turns, TurnStep(t)
    PROVE  /\ LogsOK' /\ bindings' \subseteq BindingType
           /\ UNCHANGED <<now, conversation, files, sweep, overtaken, deleted, faults>>
<1>0. /\ LogsOK /\ bindings \subseteq BindingType /\ turn[t] \in TurnType
      /\ turn[t].pc \in {"write", "bind"} => turn[t].conversation \in Conversations
  BY LogsTyped DEF TypeOK, BindingType, Courses, Course
<1>1. CASE WriteMessage(t)
  <2> DEFINE c == turn[t].conversation
             m == [turn |-> t, role |-> turn[t].role, files |-> turn[t].files,
                   state |-> IF turn[t].role = "user" THEN "completed" ELSE turn[t].state]
  <2>1. c \in Conversations
    BY <1>0, <1>1 DEF WriteMessage, At
  <2>2. m \in MessageType
    BY <1>0 DEF MessageType, TurnType, Ending
  <2>3. messages' = [messages EXCEPT ![c] = Upserted(messages[c], m)]
    BY <1>1 DEF WriteMessage
  <2> HIDE DEF m, c
  <2>4. Upserted(messages[c], m) \in Seq(MessageType) /\ Once(Upserted(messages[c], m))
    BY <1>0, <2>1, <2>2, UpsertedLog DEF LogsOK
  <2>5. LogsOK'
    BY <1>0, <2>1, <2>3, <2>4 DEF LogsOK
  <2> QED
    BY <1>0, <1>1, <2>5 DEF WriteMessage
<1>2. CASE BindFiles(t)
  <2>1. PICK bound \in SUBSET turn[t].files :
          bindings' = bindings \cup {Binding(turn[t].conversation, t, turn[t].role, u) : u \in bound}
    BY <1>2 DEF BindFiles
  <2>2. turn[t].conversation \in Conversations
    BY <1>0, <1>2 DEF BindFiles, At
  <2>3. \A u \in bound : Binding(turn[t].conversation, t, turn[t].role, u) \in BindingType
    BY <1>0, <2>2 DEF Binding, BindingType, TurnType
  <2>4. bindings' \subseteq BindingType
    BY <1>0, <2>1, <2>3
  <2> QED
    BY <1>0, <1>2, <2>4 DEF BindFiles, LogsOK
<1>3. CASE UNCHANGED <<now, chats, files, sweep, overtaken, deleted, faults>>
  BY <1>0, <1>3 DEF chats, LogsOK
<1>4. CASE ~WriteMessage(t) /\ ~BindFiles(t)
  <2>1. UNCHANGED <<now, chats, files, sweep, overtaken, deleted, faults>>
    BY <1>4 DEF TurnStep, Send, TurnStart, BeginRun, AgentEvent, TurnFinish, FinishRun, StepFails
  <2> QED
    BY <1>3, <2>1
<1> QED
  BY <1>1, <1>2, <1>4

\* What happens outside of turns: conversations, forks, deletion, cleanup, time
World ==
  \/ \E c \in Conversations, w \in Workspaces : CreateConversation(c, w)
  \/ \E c, d \in Conversations, w \in Workspaces : \E k \in DOMAIN messages[c] : Fork(c, k, d, w)
  \/ \E w \in Workspaces : Tombstone(w)
  \/ \E u \in Uploads : Sweep(u) \/ SweepFails(u)
  \/ Tick

LEMMA WorldTypes ==
    ASSUME TypeOK, World
    PROVE  TypeOK' /\ turn' = turn /\ run' = run
<1>0. /\ conversation \in [Conversations -> ConversationRow \cup {None}] /\ LogsOK /\ FilesOK
      /\ bindings \subseteq BindingType /\ sweep \in [Uploads -> {"no", "final", "staging", "row"}]
      /\ overtaken \subseteq Uploads
      /\ \A w \in Workspaces : [workspace |-> w, state |-> "active"] \in ConversationRow
  BY LogsTyped DEF TypeOK, FilesOK, BindingType, ConversationRow
<1>1. ASSUME LogsOK', FilesOK', bindings' \subseteq BindingType, turn' = turn, run' = run,
             now' \in Times, conversation' \in [Conversations -> ConversationRow \cup {None}],
             sweep' \in [Uploads -> {"no", "final", "staging", "row"}], deleted' \subseteq Workspaces,
             overtaken' \subseteq Uploads, faults' \in 0..MaxFaults
      PROVE  TypeOK' /\ turn' = turn /\ run' = run
  BY <1>1 DEF TypeOK, LogsOK, FilesOK, BindingType, Once
<1>2. ASSUME NEW c \in Conversations, NEW w \in Workspaces, CreateConversation(c, w) PROVE TypeOK' /\ turn' = turn /\ run' = run
  BY <1>0, <1>1, <1>2 DEF CreateConversation, TypeOK, LogsOK, FilesOK, files
<1>3. ASSUME NEW c \in Conversations, NEW d \in Conversations, NEW w \in Workspaces, NEW k \in DOMAIN messages[c],
             Fork(c, k, d, w)
      PROVE  TypeOK' /\ turn' = turn /\ run' = run
  <2>1. SubSeq(messages[c], 1, k) \in Seq(MessageType) /\ Once(SubSeq(messages[c], 1, k))
    BY <1>0, CopiedLog DEF LogsOK
  <2>2. messages' = [messages EXCEPT ![d] = SubSeq(messages[c], 1, k)]
    BY <1>3 DEF Fork
  <2>3. LogsOK'
    BY <1>0, <2>1, <2>2 DEF LogsOK
  <2>4. bindings' \subseteq BindingType
    <3>1. \A b \in BindingType : [b EXCEPT !.conversation = d] \in BindingType
      BY DEF BindingType
    <3>2. \A b \in bindings' : b \in bindings \/ \E a \in bindings : b = [a EXCEPT !.conversation = d]
      BY <1>3 DEF Fork
    <3> QED
      BY <1>0, <3>1, <3>2
  <2>5. conversation' = [conversation EXCEPT ![d] = [workspace |-> w, state |-> "active"]]
    BY <1>3 DEF Fork
  <2>6. UNCHANGED <<now, run, files, turn, sweep, overtaken, deleted, faults>>
    BY <1>3 DEF Fork
  <2> QED
    BY <1>0, <1>1, <2>3, <2>4, <2>5, <2>6 DEF TypeOK, FilesOK, files
<1>4. ASSUME NEW w \in Workspaces, Tombstone(w) PROVE TypeOK' /\ turn' = turn /\ run' = run
  <2>1. UNCHANGED <<now, messages, bindings, run, staged, final, turn, sweep, overtaken, faults>> /\ deleted' = deleted \cup {w}
    BY <1>4 DEF Tombstone
  <2>2. /\ upload' \in [Uploads -> UploadRow \cup {None}]
        /\ artifact' \in [Uploads -> {"none", "available", "staged_delete"}]
        /\ conversation' \in [Conversations -> ConversationRow \cup {None}]
    <3>1. CASE UNCHANGED <<upload, artifact, conversation>>
      BY <1>0, <3>1 DEF FilesOK
    <3>2. CASE TombstoneContent(w)
      <4>1. \A u \in Uploads : Is(u, Sweepable) => [upload[u] EXCEPT !.state = "abandoned"] \in UploadRow
        BY <1>0 DEF FilesOK, Is, UploadRow
      <4>2. \A c \in Conversations : In(c, w) => [conversation[c] EXCEPT !.state = "staged_delete"] \in ConversationRow
        BY <1>0 DEF In, ConversationRow
      <4>3. upload' \in [Uploads -> UploadRow \cup {None}]
        BY <1>0, <3>2, <4>1 DEF TombstoneContent, FilesOK
      <4>4. artifact' \in [Uploads -> {"none", "available", "staged_delete"}]
        BY <1>0, <3>2 DEF TombstoneContent, FilesOK
      <4>5. conversation' \in [Conversations -> ConversationRow \cup {None}]
        BY <1>0, <3>2, <4>2 DEF TombstoneContent
      <4> QED
        BY <4>3, <4>4, <4>5
    <3> QED
      BY <1>4, <3>1, <3>2 DEF Tombstone
  <2> QED
    BY <1>0, <1>1, <2>1, <2>2 DEF TypeOK, LogsOK, FilesOK
<1>5. ASSUME NEW u \in Uploads, Sweep(u) \/ SweepFails(u) PROVE TypeOK' /\ turn' = turn /\ run' = run
  <2>1. UNCHANGED <<now, chats, run, turn, artifact, deleted>>
    BY <1>5 DEF Sweep, SweepFails, ListExpired, Listing, SweepFinal, SweepStaging, Abandon, files
  <2>2. staged' \subseteq staged /\ final' \subseteq final
    BY <1>5 DEF Sweep, SweepFails, ListExpired, Listing, SweepFinal, SweepStaging, Abandon, files
  <2>3. upload' \in [Uploads -> UploadRow \cup {None}]
    <3>1. Is(u, Sweepable) => [upload[u] EXCEPT !.state = "abandoned"] \in UploadRow
      BY <1>0 DEF FilesOK, Is, UploadRow
    <3>2. upload' = upload \/ (Is(u, Sweepable) /\ upload' = [upload EXCEPT ![u] = [upload[u] EXCEPT !.state = "abandoned"]])
      BY <1>5 DEF Sweep, SweepFails, ListExpired, Listing, SweepFinal, SweepStaging, Abandon, files
    <3> QED
      BY <1>0, <3>1, <3>2 DEF FilesOK
  <2>4. \E s \in {"no", "final", "staging", "row"} : sweep' = [sweep EXCEPT ![u] = s]
    BY <1>5 DEF Sweep, SweepFails, ListExpired, Listing, SweepFinal, SweepStaging, Abandon
  <2>5. faults' \in 0..MaxFaults /\ overtaken' \subseteq overtaken \cup {u}
    BY <1>5, ChatAssumption DEF Sweep, SweepFails, ListExpired, Listing, SweepFinal, SweepStaging, Abandon, TypeOK
  <2> QED
    BY <1>0, <1>1, <2>1, <2>2, <2>3, <2>4, <2>5 DEF TypeOK, LogsOK, FilesOK, chats
<1>6. CASE Tick
  BY <1>0, <1>1, <1>6, ChatAssumption DEF Tick, TypeOK, LogsOK, FilesOK, chats, files, Times
<1> QED
  BY <1>2, <1>3, <1>4, <1>5, <1>6 DEF World

TypeInv == TypeOK /\ Courses

LEMMA TypeStep == TypeInv /\ [Next]_vars => TypeInv'
<1> SUFFICES ASSUME TypeOK, Courses, [Next]_vars PROVE TypeInv'
  BY DEF TypeInv
<1>1. CASE UNCHANGED vars
  BY <1>1 DEF vars, chats, files, TypeInv, TypeOK, Courses, Course
<1>2. ASSUME NEW t \in Turns, Ingest(t) PROVE TypeInv'
  <2>1. /\ turn' \in [Turns -> TurnType] /\ Others(t) /\ Course(t)' /\ FilesOK'
        /\ UNCHANGED <<now, chats, run, sweep, overtaken, deleted, faults>>
    BY <1>2, IngestCourse, IngestFiles
  <2>2. Courses'
    BY <2>1 DEF Courses, Course, Others
  <2>3. TypeOK'
    BY <2>1 DEF TypeOK, FilesOK, chats
  <2> QED
    BY <2>2, <2>3 DEF TypeInv
<1>3. ASSUME NEW t \in Turns, TurnStep(t) PROVE TypeInv'
  <2>1. /\ turn' \in [Turns -> TurnType] /\ Others(t) /\ Course(t)' /\ Stays(t)
        /\ LogsOK' /\ bindings' \subseteq BindingType
        /\ UNCHANGED <<now, conversation, files, sweep, overtaken, deleted, faults>>
    BY <1>3, TurnCourse, TurnChats
  <2>2. Courses'
    BY <2>1 DEF Courses, Course, Others, Stays
  <2>3. TypeOK'
    BY <2>1 DEF TypeOK, files, LogsOK, Once, BindingType, Stays
  <2> QED
    BY <2>2, <2>3 DEF TypeInv
<1>4. ASSUME NEW lost \in SUBSET Turns, Crash(lost) PROVE TypeInv'
  <2>1. turn' \in [Turns -> TurnType] /\ faults' \in 0..MaxFaults
    BY <1>4, OverType, ChatAssumption DEF Crash, TypeOK
  <2>2. Courses'
    BY <1>4 DEF Crash, Courses, Course, Over, Idle, Saving
  <2>3. TypeOK'
    BY <1>4, <2>1 DEF Crash, TypeOK, chats, files
  <2> QED
    BY <2>2, <2>3 DEF TypeInv
<1>5. CASE World
  BY <1>5, WorldTypes DEF TypeInv, Courses, Course
<1> QED
  BY <1>1, <1>2, <1>3, <1>4, <1>5 DEF Next, World

LEMMA TypesBegin == Init => TypeInv
<1> SUFFICES ASSUME Init PROVE TypeInv
  OBVIOUS
<1>1. messages \in [Conversations -> Seq(MessageType)] /\ \A c \in Conversations : DOMAIN messages[c] = {}
  BY DEF Init
<1>2. now \in Times /\ faults \in 0..MaxFaults
  BY ChatAssumption DEF Init, Times
<1>3. TypeOK
  BY <1>1, <1>2, OverType DEF Init, TypeOK
<1>4. Courses
  BY DEF Init, Courses, Course, Idle, Saving
<1> QED
  BY <1>3, <1>4 DEF TypeInv

\* Every table, store and turn keeps its shape, and no message is ever twice in a
\* conversation, however often it is checkpointed, retried or copied by a fork.
THEOREM TypeCorrect == Spec => []TypeOK
<1>1. TypeInv => TypeOK
  BY DEF TypeInv
<1> QED
  BY <1>1, TypesBegin, TypeStep, PTL DEF Spec

(***************************************************************************)
(* Files.  A file is kept from the moment its commit is read back: its      *)
(* handler forgets it then, so no undo reaches its bytes, and no cleanup    *)
(* began, as one begins after the deadline and only where nothing has been  *)
(* committed. One that began between the two steps of a commit is recorded. *)
(***************************************************************************)

\* Turns and uploads are of conversations that exist; conversations never vanish.
Rooted ==
  /\ \A t \in Turns : turn[t].conversation # None => conversation[turn[t].conversation] # None
  /\ \A u \in Uploads : upload[u] # None => conversation[upload[u].conversation] # None

OneOwner == \A t, s \in Turns : turn[t].upload # None /\ turn[t].upload = turn[s].upload => t = s

\* How far an ingestion has come. The bytes may be gone only after the deadline.
Stages(t) ==
  LET u == turn[t].upload
  IN  /\ turn[t].pc \in {"place", "stage", "row"} => upload[u] = None
      /\ turn[t].pc \in {"promote", "drop", "commit", "lock", "committing"} =>
           upload[u] # None /\ upload[u].named
      /\ turn[t].pc \in {"drop", "commit"} => u \in final \/ upload[u].expires < now
      /\ turn[t].pc \in {"lock", "committing"} => u \in overtaken \/ (u \in final /\ sweep[u] = "no")
      /\ turn[t].pc = "committing" => Is(u, {"finalizing"})
      /\ turn[t].pc = "read" => Is(u, {"committed"}) /\ (u \in final \/ u \in overtaken)

SweptLate ==
  \A u \in Uploads : sweep[u] # "no" =>
    /\ upload[u] # None /\ upload[u].expires < now
    /\ upload[u].state # "committed" \/ u \in overtaken

Kept(u) ==
  /\ Is(u, {"committed"}) /\ (u \in final \/ u \in overtaken) /\ (Live(upload[u].conversation) => artifact[u] = "available")
  /\ \A t \in Turns : turn[t].upload # u

FilesKept ==
  /\ \A t \in Turns : \A u \in turn[t].files : Kept(u)
  /\ \A c \in Conversations : \A u \in Referenced(c) : Kept(u)

FileInv ==
  Rooted /\ OneOwner /\ (\A t \in Turns : Stages(t)) /\ SweptLate /\ FilesKept /\ FinalObjectsNamed

\* What a step of turn t may do to its own file
OwnFile(t) ==
  LET u == turn[t].upload
  IN  u \in Uploads =>
        /\ upload'[u] # None => conversation[upload'[u].conversation] # None
        /\ sweep[u] # "no" => /\ upload'[u] # None /\ upload'[u].expires < now
                              /\ upload'[u].state # "committed" \/ u \in overtaken
        /\ u \in final' => upload'[u] # None /\ upload'[u].named

OtherFiles(t) ==
  \A u \in Uploads : u # turn[t].upload =>
    upload'[u] = upload[u] /\ artifact'[u] = artifact[u] /\ (u \in final' <=> u \in final)

Saved(t, u) ==
  /\ u = turn[t].upload /\ turn'[t].upload = None
  /\ Is(u, {"committed"})' /\ (u \in final' \/ u \in overtaken) /\ artifact'[u] = "available"

LEMMA ReferencedFiles ==
    ASSUME TypeInv, NEW c \in Conversations, NEW u \in Referenced(c)
    PROVE  u \in Uploads
<1>1. PICK j \in DOMAIN messages[c] : u \in messages[c][j].files
  BY DEF Referenced
<1>2. messages[c][j] \in MessageType
  BY <1>1, LogsTyped, LenProperties, ElementOfSeq DEF LogsOK, TypeInv
<1> QED
  BY <1>1, <1>2 DEF MessageType

\* It is enough to look at the turn that moved and its file.
LEMMA OneFile ==
    ASSUME TypeInv, FileInv, NEW t \in Turns, turn' \in [Turns -> TurnType], Others(t), OwnFile(t), OtherFiles(t),
           UNCHANGED <<now, conversation, sweep, overtaken>>, final' \subseteq Uploads, Stages(t)',
           \/ turn'[t].conversation \in {turn[t].conversation, None}
           \/ conversation[turn'[t].conversation] # None,
           turn'[t].upload \in {None, turn[t].upload} \/ Fresh(turn'[t].upload),
           \A u \in turn'[t].files : u \in turn[t].files \/ Saved(t, u),
           \A c \in Conversations : \A u \in Referenced(c)' : u \in Referenced(c) \/ u \in turn[t].files
    PROVE  FileInv'
<1>0. /\ turn \in [Turns -> TurnType] /\ None \notin Uploads
      /\ \A s \in Turns : turn[s].files \subseteq Uploads /\ turn'[s].files \subseteq Uploads
      /\ \A s \in Turns : turn[s].pc \in Saving => turn[s].upload \in Uploads
      /\ \A s \in Turns : turn[s].upload \in Uploads \cup {None}
  BY ChatAssumption DEF TypeInv, TypeOK, Courses, Course, TurnType
<1>1. Rooted'
  BY DEF Rooted, FileInv, Others, OtherFiles, OwnFile
<1>2. OneOwner'
  BY DEF OneOwner, FileInv, Others, Fresh
<1>3. ASSUME NEW s \in Turns PROVE Stages(s)'
  <2>1. CASE s # t /\ turn[s].pc \in Saving
    <3>1. turn[s].upload \in Uploads /\ turn[s].upload # turn[t].upload /\ turn'[s] = turn[s] /\ Stages(s)
      BY <1>0, <2>1 DEF OneOwner, FileInv, Others
    <3> QED
      BY <3>1 DEF Stages, OtherFiles, Is
  <2>2. CASE s # t /\ turn[s].pc \notin Saving
    BY <2>2 DEF Stages, Others, Saving
  <2> QED
    BY <2>1, <2>2
<1>4. SweptLate' /\ FinalObjectsNamed'
  BY DEF SweptLate, FinalObjectsNamed, FileInv, OwnFile, OtherFiles, TypeInv, TypeOK
<1>5. ASSUME NEW u \in Uploads, Kept(u) PROVE Kept(u)'
  <2>1. u # turn[t].upload /\ upload[u] # None
    BY <1>5 DEF Kept, Is
  <2>2. upload'[u] = upload[u] /\ artifact'[u] = artifact[u] /\ (u \in final' <=> u \in final)
    BY <1>5, <2>1 DEF OtherFiles, Kept
  <2>3. \A s \in Turns : turn'[s].upload # u
    BY <1>0, <1>5, <2>1 DEF Kept, Others, Fresh
  <2> QED
    BY <1>5, <2>2, <2>3 DEF Kept, Is, Live
<1>6. ASSUME NEW u \in Uploads, Saved(t, u) PROVE Kept(u)'
  <2>1. \A s \in Turns : turn'[s].upload # u
    BY <1>0, <1>6 DEF Saved, Others, OneOwner, FileInv
  <2> QED
    BY <1>6, <2>1 DEF Saved, Kept
<1>7. \A s \in Turns : \A u \in turn[s].files : u \in Uploads /\ Kept(u)
  BY <1>0 DEF FileInv, FilesKept
<1>8. \A c \in Conversations : \A u \in Referenced(c) : u \in Uploads /\ Kept(u)
  BY ReferencedFiles DEF FileInv, FilesKept
<1>9. FilesKept'
  <2>1. ASSUME NEW s \in Turns, NEW u \in turn'[s].files PROVE Kept(u)'
    <3>1. u \in Uploads /\ (u \in turn[s].files \/ Saved(t, u))
      BY <1>0, <2>1 DEF Others
    <3> QED
      BY <1>5, <1>6, <1>7, <3>1
  <2>2. ASSUME NEW c \in Conversations, NEW u \in Referenced(c)' PROVE Kept(u)'
    <3>1. u \in Referenced(c) \/ u \in turn[t].files
      BY <2>2
    <3> QED
      BY <1>5, <1>7, <1>8, <3>1
  <2> QED
    BY <2>1, <2>2 DEF FilesKept
<1> QED
  BY <1>1, <1>2, <1>3, <1>4, <1>9 DEF FileInv

LEMMA IngestKeeps ==
    ASSUME TypeInv, FileInv, NEW t \in Turns, Ingest(t)
    PROVE  FileInv'
<1> DEFINE u == turn[t].upload
<1>0. /\ turn \in [Turns -> TurnType] /\ turn' \in [Turns -> TurnType] /\ Others(t)
      /\ UNCHANGED <<now, conversation, messages, sweep, overtaken>>
      /\ upload \in [Uploads -> UploadRow \cup {None}] /\ artifact \in [Uploads -> {"none", "available", "staged_delete"}]
      /\ None \notin UploadRow /\ None \notin Uploads /\ now \in Nat /\ TTL \in Nat
      /\ final \subseteq Uploads /\ final' \subseteq Uploads
  BY IngestCourse, IngestFiles, ChatAssumption DEF TypeInv, TypeOK, FilesOK, chats, Times
<1>1. turn[t].pc \in Saving
  BY DEF Ingest, Place, Stage, InsertRow, Prepare, Promote, CopyObject, DropStaged, Clock, Clocking,
         LockStaged, Commit, ReadBack, UndoRow, UndoBytes, At, Saving
<1>2. u \in Uploads /\ turn[t].conversation \in Conversations
  BY <1>1 DEF TypeInv, Courses, Course, Saving
<1>3. /\ Rooted /\ Stages(t) /\ SweptLate /\ FinalObjectsNamed /\ None \notin Conversations
      /\ \A c \in Conversations : Referenced(c)' = Referenced(c)
  BY <1>0, ChatAssumption DEF FileInv, Referenced
<1>4. /\ conversation[turn[t].conversation] # None
      /\ upload[u] # None => upload[u] \in UploadRow /\ conversation[upload[u].conversation] # None
  BY <1>0, <1>2, <1>3 DEF Rooted
\* How the turn itself goes on
<1>5. ASSUME OwnFile(t), OtherFiles(t), NEW pc \in Pc, Shifts(t, pc), Stages(t)' PROVE FileInv'
  BY <1>0, <1>3, <1>5, OneFile DEF Shifts, Like
<1>6. ASSUME OwnFile(t), OtherFiles(t), Trouble(t) PROVE FileInv'
  <2>1. CASE Shifts(t, "undo row") \/ Shifts(t, "undo bytes")
    <3>1. Stages(t)' /\ {"undo row", "undo bytes"} \subseteq Pc
      BY <2>1 DEF Shifts, Like, Stages, Pc
    <3> QED
      BY <1>5, <1>6, <2>1, <3>1
  <2>2. CASE Reports(t)
    BY <1>0, <1>3, <1>6, <2>2, OneFile DEF Reports, Stages
  <2>3. CASE Ends(t)
    BY <1>0, <1>3, <1>6, <2>3, OneFile DEF Ends, Over, Idle, Stages
  <2> QED
    BY <1>0, <1>6, <2>1, <2>2, <2>3, Troubles
<1>7. ASSUME UNCHANGED <<upload, artifact, final>> PROVE OwnFile(t) /\ OtherFiles(t)
  BY <1>2, <1>3, <1>4, <1>7 DEF OwnFile, OtherFiles, SweptLate, FinalObjectsNamed
<1> HIDE DEF u
<1>8. CASE Place(t)
  BY <1>0, <1>3, <1>5, <1>7, <1>8, Shifting DEF Place, files, At, Shifts, Like, Stages, Pc
<1>9. CASE Stage(t)
  <2>1. Trouble(t) \/ Shifts(t, "row")
    BY <1>0, <1>9, Shifting DEF Stage, Pc
  <2>2. UNCHANGED <<upload, artifact, final>> /\ turn[t].pc = "stage"
    BY <1>9 DEF Stage, At
  <2>3. Shifts(t, "row") => Stages(t)'
    BY <1>3, <2>2 DEF Shifts, Like, Stages
  <2> QED
    BY <1>5, <1>6, <1>7, <2>1, <2>2, <2>3 DEF Pc
<1>10. CASE InsertRow(t)
  <2> DEFINE r == [conversation |-> turn[t].conversation, state |-> "staged", expires |-> now + TTL, named |-> FALSE]
  <2>1. Trouble(t) \/ Shifts(t, "prepare")
    BY <1>0, <1>10, Shifting DEF InsertRow, Pc
  <2>2. /\ turn[t].pc = "row" /\ upload[u] = None /\ upload' = [upload EXCEPT ![u] = r]
        /\ UNCHANGED <<artifact, final>>
    BY <1>3, <1>10 DEF InsertRow, RowInserted, Upload, At, Stages, u
  <2>3. r.conversation = turn[t].conversation
    OBVIOUS
  <2> HIDE DEF r
  <2>4. upload'[u] = r
    BY <1>0, <1>2, <2>2
  <2>5. OtherFiles(t)
    BY <1>0, <2>2 DEF OtherFiles, u
  <2>6. OwnFile(t)
    BY <1>3, <1>4, <2>2, <2>3, <2>4 DEF OwnFile, SweptLate, FinalObjectsNamed, u
  <2>7. Shifts(t, "prepare") => Stages(t)'
    BY DEF Shifts, Like, Stages
  <2> QED
    BY <1>5, <1>6, <2>1, <2>5, <2>6, <2>7 DEF Pc
<1>11. CASE Prepare(t)
  <2>1. Trouble(t) \/ Shifts(t, "promote")
    BY <1>0, <1>11, Shifting DEF Prepare, Pc
  <2> DEFINE r == [upload[u] EXCEPT !.state = "finalizing", !.named = TRUE]
  <2>2. upload[u] \in UploadRow /\ upload[u].expires >= now /\ UNCHANGED <<artifact, final>>
    BY <1>4, <1>11 DEF Prepare, Is, Upload, u
  <2>3. upload' = [upload EXCEPT ![u] = r]
    BY <1>11 DEF Prepare, Upload, u
  <2>4. /\ r \in UploadRow /\ r.conversation = upload[u].conversation /\ r.named
        /\ r.expires = upload[u].expires /\ r.expires \in Int
    <3>1. Times \subseteq Int
      BY ChatAssumption DEF Times
    <3>2. r \in UploadRow /\ r.conversation = upload[u].conversation /\ r.named = TRUE /\ r.expires = upload[u].expires
      BY <2>2 DEF UploadRow, Sweepable
    <3>3. r.expires \in Int
      BY <3>1, <3>2 DEF UploadRow
    <3> QED
      BY <3>2, <3>3
  <2> HIDE DEF r
  <2>5. upload'[u] = r /\ r # None
    BY <1>0, <1>2, <2>3, <2>4
  <2>6. OtherFiles(t)
    BY <1>0, <2>2, <2>3 DEF OtherFiles, u
  <2>7. sweep[u] = "no"
    BY <1>0, <1>2, <1>3, <2>2, <2>4 DEF SweptLate
  <2>8. OwnFile(t)
    BY <1>0, <1>2, <1>4, <2>2, <2>4, <2>5, <2>7 DEF OwnFile, u
  <2>9. Shifts(t, "promote") => Stages(t)'
    BY <2>4, <2>5 DEF Shifts, Like, Stages, u
  <2> QED
    BY <1>5, <1>6, <2>1, <2>6, <2>8, <2>9 DEF Pc
<1>12. CASE Promote(t) \/ CopyObject(t) \/ DropStaged(t)
  <2>1. Trouble(t) \/ Shifts(t, "commit") \/ Shifts(t, "drop")
    BY <1>0, <1>12, Shifting DEF Promote, CopyObject, DropStaged, Pc
  <2>2. /\ turn[t].pc \in {"promote", "drop"} /\ UNCHANGED <<upload, artifact>>
        /\ turn[t].pc = "promote" => final' = final \cup {u}
        /\ turn[t].pc = "drop" => final' = final
    BY <1>12 DEF Promote, CopyObject, DropStaged, At, Upload, u
  <2>3. upload[u] # None /\ upload[u].named
    BY <1>3, <2>2 DEF Stages, u
  <2>4. OtherFiles(t) /\ OwnFile(t)
    BY <1>0, <1>2, <1>3, <1>4, <2>2, <2>3 DEF OtherFiles, OwnFile, SweptLate, u
  <2>5. Shifts(t, "commit") \/ Shifts(t, "drop") => Stages(t)'
    BY <1>0, <1>3, <2>2, <2>3 DEF Shifts, Like, Stages, u
  <2> QED
    BY <1>5, <1>6, <2>1, <2>4, <2>5 DEF Pc
<1>13. CASE Commit(t)
  <2>1. Trouble(t) \/ Shifts(t, "read")
    BY <1>0, <1>13, Shifting DEF Commit, Pc
  <2> DEFINE r == [upload[u] EXCEPT !.state = "committed"]
  <2>2. /\ turn[t].pc = "committing" /\ upload[u] \in UploadRow
        /\ final' = final /\ artifact' = [artifact EXCEPT ![u] = "available"]
    BY <1>4, <1>13 DEF Commit, Upload, At, u
  <2>3. upload' = [upload EXCEPT ![u] = r]
    BY <1>13 DEF Commit, Upload, u
  <2>4. /\ r \in UploadRow /\ r.conversation = upload[u].conversation /\ r.named = upload[u].named
        /\ r.expires = upload[u].expires /\ r.state = "committed"
    BY <2>2 DEF UploadRow, Sweepable
  <2> HIDE DEF r
  <2>5. upload'[u] = r /\ r # None
    BY <1>0, <1>2, <2>3, <2>4
  <2>6. OtherFiles(t)
    BY <1>0, <2>2, <2>3 DEF OtherFiles, u
  <2>7. u \in overtaken \/ (u \in final /\ sweep[u] = "no")
    BY <1>3, <2>2 DEF Stages, u
  <2>8. OwnFile(t)
    BY <1>0, <1>2, <1>3, <1>4, <2>2, <2>4, <2>5, <2>7 DEF OwnFile, FinalObjectsNamed, SweptLate, u
  <2>9. Shifts(t, "read") => Stages(t)'
    BY <1>0, <2>2, <2>4, <2>5, <2>7 DEF Shifts, Like, Stages, Is, u
  <2> QED
    BY <1>5, <1>6, <2>1, <2>6, <2>8, <2>9 DEF Pc
<1>17. CASE LockStaged(t)
  <2>1. Shifts(t, "committing") /\ turn[t].pc = "lock" /\ UNCHANGED <<upload, artifact, final>>
    BY <1>0, <1>17, Shifting DEF LockStaged, At, files, Pc
  <2>2. Is(u, {"finalizing"})
    BY <1>17 DEF LockStaged, Upload, u
  <2>3. /\ upload[u] # None /\ upload[u].named
        /\ u \in overtaken \/ (u \in final /\ sweep[u] = "no")
    BY <1>3, <2>1 DEF Stages, u
  <2>4. Stages(t)'
    BY <1>0, <2>1, <2>2, <2>3 DEF Shifts, Like, Stages, Is, u
  <2> QED
    BY <1>5, <1>7, <2>1, <2>4 DEF Pc
<1>18. CASE Clock(t)
  <2>1. Shifts(t, "lock") /\ turn[t].pc = "commit" /\ UNCHANGED <<upload, artifact, final>>
    BY <1>0, <1>18, Shifting DEF Clock, Clocking, At, files, Pc
  <2>2. upload[u] # None /\ upload[u].expires >= now /\ upload[u].expires \in Int
    BY <1>4, <1>18, ChatAssumption DEF Clock, Clocking, Upload, u, UploadRow, Times
  <2>3. sweep[u] = "no" /\ u \in final /\ upload[u].named
    BY <1>0, <1>2, <1>3, <2>1, <2>2 DEF SweptLate, Stages, u
  <2>4. Stages(t)'
    BY <1>0, <2>1, <2>2, <2>3 DEF Shifts, Like, Stages, u
  <2> QED
    BY <1>5, <1>7, <2>1, <2>4 DEF Pc
<1>14. CASE ReadBack(t)
  <2>1. turn[t].pc = "read" /\ UNCHANGED <<upload, artifact, final>>
    BY <1>14 DEF ReadBack, At, files
  <2>2. (Readable(u) /\ Gains(t)) \/ Reports(t) \/ Ends(t)
    BY <1>0, <1>2, <1>14, Reading DEF Upload, u
  <2>3. OwnFile(t) /\ OtherFiles(t)
    BY <1>7, <2>1
  <2>4. CASE Readable(u) /\ Gains(t)
    <3>1. Is(u, {"committed"}) /\ (u \in final \/ u \in overtaken) /\ artifact[u] = "available"
      BY <1>3, <2>1, <2>4 DEF Stages, Readable, u
    <3>2. \A w \in turn'[t].files : w \in turn[t].files \/ Saved(t, w)
      BY <2>1, <2>4, <3>1 DEF Gains, Saved, Is, u
    <3>3. Stages(t)' /\ turn'[t].conversation = turn[t].conversation /\ turn'[t].upload = None
      BY <2>4 DEF Gains, Stages
    <3> QED
      BY <1>0, <1>3, <2>3, <3>2, <3>3, OneFile
  <2>5. CASE Reports(t)
    BY <1>0, <1>3, <2>3, <2>5, OneFile DEF Reports, Stages
  <2>6. CASE Ends(t)
    BY <1>0, <1>3, <2>3, <2>6, OneFile DEF Ends, Over, Idle, Stages
  <2> QED
    BY <2>2, <2>4, <2>5, <2>6
<1>15. CASE UndoRow(t)
  <2> DEFINE r == [upload[u] EXCEPT !.state = "failed"]
  <2>1. Trouble(t) /\ upload[u] \in UploadRow /\ UNCHANGED <<artifact, final>>
    BY <1>4, <1>15 DEF UndoRow, Is, Upload, u
  <2>2. upload' = [upload EXCEPT ![u] = r]
    BY <1>15 DEF UndoRow, Upload, u
  <2>3. /\ r \in UploadRow /\ r.conversation = upload[u].conversation /\ r.named = upload[u].named
        /\ r.expires = upload[u].expires /\ r.state = "failed"
    BY <2>1 DEF UploadRow, Sweepable
  <2> HIDE DEF r
  <2>4. upload'[u] = r /\ r # None
    BY <1>0, <1>2, <2>2, <2>3
  <2>5. OtherFiles(t)
    BY <1>0, <2>1, <2>2 DEF OtherFiles, u
  <2>6. OwnFile(t)
    BY <1>0, <1>2, <1>3, <1>4, <2>1, <2>3, <2>4 DEF OwnFile, FinalObjectsNamed, SweptLate, u
  <2> QED
    BY <1>6, <2>1, <2>5, <2>6
<1>16. CASE UndoBytes(t)
  <2>1. Trouble(t) /\ UNCHANGED <<upload, artifact>> /\ final' \in {final, final \ {u}}
    BY <1>16 DEF UndoBytes, Upload, u
  <2>2. OtherFiles(t) /\ OwnFile(t)
    BY <1>2, <1>3, <1>4, <2>1 DEF OtherFiles, OwnFile, SweptLate, FinalObjectsNamed, u
  <2> QED
    BY <1>6, <2>1, <2>2
<1> QED
  BY <1>8, <1>9, <1>10, <1>11, <1>12, <1>13, <1>14, <1>15, <1>16, <1>17, <1>18 DEF Ingest

LEMMA TurnKeeps ==
    ASSUME TypeInv, FileInv, NEW t \in Turns, TurnStep(t)
    PROVE  FileInv'
<1>0. /\ turn \in [Turns -> TurnType] /\ turn' \in [Turns -> TurnType] /\ Others(t) /\ LogsOK
      /\ UNCHANGED <<now, conversation, upload, artifact, final, sweep, overtaken>> /\ final \subseteq Uploads
      /\ turn[t].pc \notin {"idle", "done"} => turn[t].conversation \in Conversations
  BY TurnCourse, TurnChats, LogsTyped DEF TypeInv, TypeOK, files, Courses, Course
<1>1. Rooted /\ SweptLate /\ FinalObjectsNamed
  BY DEF FileInv
<1>2. OwnFile(t) /\ OtherFiles(t)
  BY <1>0, <1>1 DEF OwnFile, OtherFiles, Rooted, SweptLate, FinalObjectsNamed
<1>3. \A c \in Conversations : \A v \in Referenced(c)' : v \in Referenced(c) \/ v \in turn[t].files
  <2>1. CASE WriteMessage(t)
    <3> DEFINE d == turn[t].conversation
               m == [turn |-> t, role |-> turn[t].role, files |-> turn[t].files,
                     state |-> IF turn[t].role = "user" THEN "completed" ELSE turn[t].state]
    <3>1. d \in Conversations /\ messages' = [messages EXCEPT ![d] = Upserted(messages[d], m)]
      BY <1>0, <2>1 DEF WriteMessage, At
    <3>2. m \in MessageType /\ m.files = turn[t].files
      BY <1>0 DEF MessageType, TurnType, Ending
    <3> HIDE DEF d, m
    <3>3. \A i \in DOMAIN Upserted(messages[d], m) :
            \/ Upserted(messages[d], m)[i] = m
            \/ i \in DOMAIN messages[d] /\ Upserted(messages[d], m)[i] = messages[d][i]
      BY <1>0, <3>1, <3>2, UpsertedLog DEF LogsOK
    <3>4. ASSUME NEW c \in Conversations, NEW v \in Referenced(c)'
          PROVE  v \in Referenced(c) \/ v \in turn[t].files
      <4>1. PICK i \in DOMAIN messages'[c] : v \in messages'[c][i].files
        BY <3>4 DEF Referenced
      <4>2. CASE c # d
        BY <1>0, <3>1, <4>1, <4>2 DEF Referenced, LogsOK
      <4>3. CASE c = d
        <5>1. messages'[c] = Upserted(messages[d], m)
          BY <1>0, <3>1, <4>3 DEF LogsOK
        <5> QED
          BY <3>2, <3>3, <4>1, <4>3, <5>1 DEF Referenced
      <4> QED
        BY <4>2, <4>3
    <3> QED
      BY <3>4
  <2>2. CASE ~WriteMessage(t)
    <3>1. messages' = messages
      BY <2>2 DEF TurnStep, Send, BindFiles, TurnStart, BeginRun, AgentEvent, TurnFinish, FinishRun, StepFails, chats
    <3> QED
      BY <3>1 DEF Referenced
  <2> QED
    BY <2>1, <2>2
<1> DEFINE Moves ==
      /\ Stages(t)'
      /\ turn'[t].conversation \in {turn[t].conversation, None} \/ conversation[turn'[t].conversation] # None
      /\ turn'[t].upload \in {None, turn[t].upload} \/ Fresh(turn'[t].upload)
      /\ turn'[t].files \subseteq turn[t].files
\* How the turn itself goes on
<1>4. Takes(t) => Moves
  BY <1>0 DEF Takes, Stages, Fresh, Live
<1>5. Trouble(t) => Moves
  <2>1. Shifts(t, "undo row") \/ Shifts(t, "undo bytes") => Moves
    BY DEF Shifts, Like, Stages
  <2>2. Reports(t) => Moves
    BY DEF Reports, Stages
  <2>3. Ends(t) => Moves
    BY DEF Ends, Over, Idle, Stages
  <2> QED
    BY <1>0, <2>1, <2>2, <2>3, Troubles
<1>6. ASSUME NEW pc \in {"bind", "stream", "begin", "finish"}, Shifts(t, pc) PROVE Moves
  BY <1>6 DEF Shifts, Like, Stages
<1>7. Continues(t) => Moves
  <2>1. Follows(t) => Moves
    BY DEF Follows, Stages
  <2> QED
    BY <1>6, <2>1 DEF Continues
<1>8. ASSUME NEW pc \in {"stream", "write"}, NEW event, NEW state, Notes(t, pc, event, state) PROVE Moves
  BY <1>8 DEF Notes, Stages
<1>9. turn' = [turn EXCEPT ![t] = Over] => Moves
  BY <1>0 DEF Over, Idle, Stages
<1> HIDE DEF Moves
<1>10. Moves
  <2>1. CASE \/ \E by \in Handlers, c \in Conversations, v \in Uploads \cup {None} : Send(t, by, c, v)
             \/ \E v \in Uploads \cup {None} : AgentEvent(t, v)
    BY <1>0, <1>4, <2>1, Taking
  <2>2. CASE WriteMessage(t) \/ BindFiles(t)
    <3>1. Trouble(t) \/ Goes(t, "bind") \/ turn' = [turn EXCEPT ![t] = AfterWrite(t)]
      BY <2>2 DEF WriteMessage, BindFiles, Goes
    <3> QED
      BY <1>0, <1>5, <1>6, <1>7, <3>1, Shifting, Writing DEF Pc
  <2>3. CASE TurnStart(t)
    BY <1>0, <1>6, <2>3, Shifting DEF TurnStart, Pc
  <2>4. CASE BeginRun(t) \/ \E state \in Ending : TurnFinish(t, state)
    BY <1>0, <1>5, <1>8, <2>4, Noting DEF BeginRun
  <2>5. CASE FinishRun(t) \/ StepFails(t)
    BY <1>5, <1>9, <2>5 DEF FinishRun, StepFails
  <2> QED
    BY <2>1, <2>2, <2>3, <2>4, <2>5 DEF TurnStep
<1> QED
  BY <1>0, <1>2, <1>3, <1>10, OneFile DEF Moves

Abandoned(q, r) ==
  /\ q \in UploadRow /\ q.state = "abandoned"
  /\ q.conversation = r.conversation /\ q.expires = r.expires /\ q.named = r.named

LEMMA AbandonedRow ==
    ASSUME NEW r \in UploadRow
    PROVE  Abandoned([r EXCEPT !.state = "abandoned"], r)
  BY DEF UploadRow, Abandoned

\* What may happen to the tables around the turns without hurting a file that is kept
Spares(u) ==
  /\ \/ upload'[u] = upload[u]
     \/ Is(u, Sweepable) /\ ~Locked(u) /\ upload'[u] # None /\ Abandoned(upload'[u], upload[u])
  /\ u \in overtaken => u \in overtaken'
  /\ Timed(u) /\ sweep[u] = "no" => sweep'[u] = "no" \/ u \in overtaken'
  /\ u \in final' => u \in final
  /\ u \in final => u \in final' \/ sweep[u] = "final"
  /\ artifact'[u] = artifact[u] \/ (upload[u] # None /\ conversation'[upload[u].conversation].state # "active")

\* Conversations do not vanish, and one that was deleted does not come back.
Outlives(c) == conversation[c] # None => conversation'[c] # None /\ (Live(c)' => Live(c))

LEMMA Sparing ==
    ASSUME TypeInv, FileInv, turn' = turn, now' \in Nat, now' >= now,
           \A u \in Uploads : Spares(u),
           \A c \in Conversations : Outlives(c),
           SweptLate', final' \subseteq Uploads,
           \A c \in Conversations : \A u \in Referenced(c)' :
             \E d \in Conversations : u \in Referenced(d)
    PROVE  FileInv'
<1>0. /\ turn \in [Turns -> TurnType] /\ None \notin Uploads /\ None \notin Conversations /\ now \in Int
      /\ final \subseteq Uploads
      /\ \A t \in Turns : turn[t].files \subseteq Uploads
      /\ \A t \in Turns : turn[t].pc \in Saving => turn[t].upload \in Uploads
      /\ \A t \in Turns : turn[t].conversation \in Conversations \cup {None}
      /\ \A u \in Uploads : upload[u] # None => upload[u].conversation \in Conversations
  BY ChatAssumption DEF TypeInv, TypeOK, Courses, Course, TurnType, UploadRow, Times
<1>1. \A u \in Uploads : upload[u] # None => upload[u].expires \in Int
  BY ChatAssumption DEF TypeInv, TypeOK, UploadRow, Times
<1>2. Rooted /\ SweptLate /\ FinalObjectsNamed /\ OneOwner
  BY DEF FileInv
<1>3. Rooted'
  BY <1>0, <1>2 DEF Rooted, Outlives, Spares, Is, Abandoned
<1>4. OneOwner'
  BY <1>2 DEF OneOwner
<1>5. FinalObjectsNamed'
  BY <1>0, <1>2 DEF FinalObjectsNamed, Spares, Abandoned
<1>6. ASSUME NEW u \in Uploads, Is(u, {"committed"}), u \in final \/ u \in overtaken
      PROVE  upload'[u] = upload[u] /\ (u \in final' \/ u \in overtaken')
  <2>1. ~Is(u, Sweepable) /\ (sweep[u] # "final" \/ u \in overtaken)
    BY <1>2, <1>6 DEF Is, Sweepable, SweptLate
  <2> QED
    BY <1>6, <2>1 DEF Spares
<1>7. ASSUME NEW t \in Turns PROVE Stages(t)'
  <2> DEFINE u == turn[t].upload
  <2>1. CASE turn[t].pc \in Saving
    <3>1. u \in Uploads /\ Stages(t) /\ Spares(u)
      BY <1>0, <2>1 DEF FileInv
    <3>2. u \in final \ final' => upload[u] # None /\ upload[u].expires < now
      BY <1>2, <3>1 DEF Spares, Abandoned, SweptLate
    <3>3. turn[t].pc \in {"place", "stage", "row"} => upload'[u] = None
      BY <3>1 DEF Stages, Spares, Abandoned, Is
    <3>4. turn[t].pc \in {"promote", "drop", "commit", "lock", "committing"} =>
            upload'[u] # None /\ upload'[u].named /\ upload'[u].expires = upload[u].expires /\ upload[u] # None
      BY <3>1 DEF Stages, Spares, Abandoned
    <3>5. turn[t].pc \in {"drop", "commit"} => u \in final' \/ upload'[u].expires < now'
      BY <1>0, <1>1, <3>1, <3>2, <3>4 DEF Stages
    <3>6. turn[t].pc = "read" => Is(u, {"committed"})' /\ (u \in final' \/ u \in overtaken')
      BY <1>6, <3>1 DEF Stages, Is
    <3>7. turn[t].pc = "committing" => Is(u, {"finalizing"})'
      <4>1. turn[t].pc = "committing" => Locked(u)
        BY DEF Locked, At, Upload
      <4> QED
        BY <3>1, <4>1 DEF Stages, Spares, Is
    <3>8. turn[t].pc \in {"lock", "committing"} =>
            u \in overtaken' \/ (u \in final' /\ sweep'[u] = "no")
      <4>1. turn[t].pc \in {"lock", "committing"} => Timed(u)
        BY DEF Timed, Upload
      <4> QED
        BY <3>1, <4>1 DEF Stages, Spares
    <3> HIDE DEF u
    <3> QED
      BY <3>3, <3>4, <3>5, <3>6, <3>7, <3>8 DEF Stages, u
  <2>2. CASE turn[t].pc \notin Saving
    BY <2>2 DEF Stages, Saving
  <2> QED
    BY <2>1, <2>2
<1>8. ASSUME NEW u \in Uploads, Kept(u) PROVE Kept(u)'
  <2>1. Is(u, {"committed"}) /\ upload'[u] = upload[u] /\ (u \in final' \/ u \in overtaken')
    BY <1>6, <1>8 DEF Kept
  <2>2. upload[u] # None /\ upload[u].conversation \in Conversations /\ conversation[upload[u].conversation] # None
    BY <1>0, <1>2, <2>1 DEF Is, Rooted
  <2>3. Live(upload[u].conversation)' => Live(upload[u].conversation) /\ artifact'[u] = artifact[u]
    BY <2>1, <2>2 DEF Outlives, Spares, Abandoned, Live
  <2> QED
    BY <1>8, <2>1, <2>3 DEF Kept, Is, Live
<1>9. FilesKept'
  <2>1. \A t \in Turns : \A u \in turn[t].files : u \in Uploads /\ Kept(u)
    BY <1>0 DEF FileInv, FilesKept
  <2>2. \A c \in Conversations : \A u \in Referenced(c) : u \in Uploads /\ Kept(u)
    BY ReferencedFiles DEF FileInv, FilesKept
  <2>3. \A c \in Conversations : \A u \in Referenced(c)' : Kept(u)'
    BY <1>8, <2>2
  <2> QED
    BY <1>8, <2>1, <2>3 DEF FilesKept
<1> QED
  BY <1>3, <1>4, <1>5, <1>7, <1>9 DEF FileInv

LEMMA WorldKeeps ==
    ASSUME TypeInv, FileInv, World
    PROVE  FileInv'
<1>0. /\ TypeOK /\ TypeOK' /\ turn' = turn /\ LogsOK /\ None \notin ConversationRow /\ None \notin UploadRow
      /\ now \in Nat /\ now' \in Nat /\ final' \subseteq Uploads
      /\ conversation \in [Conversations -> ConversationRow \cup {None}]
      /\ upload \in [Uploads -> UploadRow \cup {None}]
      /\ artifact \in [Uploads -> {"none", "available", "staged_delete"}]
      /\ sweep \in [Uploads -> {"no", "final", "staging", "row"}]
      /\ SweptLate /\ Rooted
  BY WorldTypes, LogsTyped, ChatAssumption DEF TypeInv, TypeOK, Times, FileInv
<1>1. /\ \A u \in Uploads : upload[u] # None => upload[u] \in UploadRow /\ upload[u].expires \in Int
      /\ \A c \in Conversations : conversation[c] # None => conversation[c] \in ConversationRow
  BY <1>0, ChatAssumption DEF UploadRow, Times
\* What is left alone
<1>2. ASSUME UNCHANGED <<upload, artifact, final, sweep, overtaken>> PROVE \A u \in Uploads : Spares(u)
  BY <1>2 DEF Spares
<1>3. ASSUME conversation' = conversation PROVE \A c \in Conversations : Outlives(c)
  BY <1>3 DEF Outlives, Live
<1>4. ASSUME messages' = messages
      PROVE  \A c \in Conversations : \A u \in Referenced(c)' : \E d \in Conversations : u \in Referenced(d)
  BY <1>4 DEF Referenced
<1>5. ASSUME upload' = upload, sweep' = sweep, overtaken' = overtaken, now' = now PROVE SweptLate'
  BY <1>0, <1>5 DEF SweptLate
\* What is done
<1>6. ASSUME NEW c \in Conversations, NEW w \in Workspaces, CreateConversation(c, w) PROVE FileInv'
  <2>1. \A d \in Conversations : Outlives(d)
    BY <1>0, <1>6 DEF CreateConversation, Outlives, Live
  <2>2. UNCHANGED <<now, messages, upload, artifact, final, sweep, overtaken>>
    BY <1>6 DEF CreateConversation, files
  <2> QED
    BY <1>0, <1>2, <1>4, <1>5, <2>1, <2>2, Sparing
<1>7. ASSUME NEW c \in Conversations, NEW d \in Conversations, NEW w \in Workspaces, NEW k \in DOMAIN messages[c],
             Fork(c, k, d, w)
      PROVE  FileInv'
  <2>1. \A e \in Conversations : Outlives(e)
    BY <1>0, <1>7 DEF Fork, Outlives, Live
  <2>2. UNCHANGED <<now, upload, artifact, final, sweep, overtaken>> /\ messages' = [messages EXCEPT ![d] = SubSeq(messages[c], 1, k)]
    BY <1>7 DEF Fork, files
  <2>3. ASSUME NEW e \in Conversations, NEW u \in Referenced(e)' PROVE u \in Referenced(e) \/ u \in Referenced(c)
    <3>1. PICK i \in DOMAIN messages'[e] : u \in messages'[e][i].files
      BY <2>3 DEF Referenced
    <3>2. CASE e = d
      <4>1. messages'[e] = SubSeq(messages[c], 1, k)
        BY <1>0, <2>2, <3>2 DEF LogsOK
      <4>2. i \in DOMAIN messages[c] /\ messages'[e][i] = messages[c][i]
        BY <1>0, <3>1, <4>1, CopiedLog DEF LogsOK
      <4> QED
        BY <3>1, <4>2 DEF Referenced
    <3>3. CASE e # d
      BY <1>0, <2>2, <3>1, <3>3 DEF LogsOK, Referenced
    <3> QED
      BY <3>2, <3>3
  <2> QED
    BY <1>0, <1>2, <1>5, <2>1, <2>2, <2>3, Sparing
<1>8. ASSUME NEW w \in Workspaces, Tombstone(w) PROVE FileInv'
  <2>1. UNCHANGED <<now, messages, final, sweep, overtaken>>
    BY <1>8 DEF Tombstone
  <2>2. CASE UNCHANGED <<upload, artifact, conversation>>
    BY <1>0, <1>2, <1>3, <1>4, <1>5, <2>1, <2>2, Sparing
  <2>3. CASE TombstoneContent(w)
    <3>1. \A c \in Conversations : /\ ~In(c, w) => conversation'[c] = conversation[c]
                                   /\ In(c, w) => conversation'[c] \in ConversationRow /\ conversation'[c].state # "active"
      <4>1. \A r \in ConversationRow : /\ [r EXCEPT !.state = "staged_delete"] \in ConversationRow
                                       /\ [r EXCEPT !.state = "staged_delete"].state = "staged_delete"
        BY DEF ConversationRow
      <4> QED
        BY <1>1, <2>3, <4>1 DEF TombstoneContent, In, Live
    <3>2. \A c \in Conversations : Outlives(c)
      BY <1>0, <3>1 DEF Outlives, In, Live
    <3>3. ASSUME NEW u \in Uploads PROVE Spares(u)
      <4>1. \/ upload'[u] = upload[u]
            \/ Is(u, Sweepable) /\ ~Locked(u) /\ upload'[u] = [upload[u] EXCEPT !.state = "abandoned"]
        BY <2>3 DEF TombstoneContent
      <4>3. artifact'[u] = artifact[u] \/ (upload[u] # None /\ In(upload[u].conversation, w))
        BY <2>3 DEF TombstoneContent
      <4>4. upload[u] # None => upload[u].conversation \in Conversations
        BY <1>1 DEF UploadRow
      <4>5. artifact'[u] = artifact[u] \/ (upload[u] # None /\ conversation'[upload[u].conversation].state # "active")
        BY <3>1, <4>3, <4>4
      <4>2. Is(u, Sweepable) => Abandoned([upload[u] EXCEPT !.state = "abandoned"], upload[u])
        BY <1>1, AbandonedRow, Zenon DEF Is
      <4>6. \/ upload'[u] = upload[u]
            \/ Is(u, Sweepable) /\ ~Locked(u) /\ upload'[u] # None /\ Abandoned(upload'[u], upload[u])
        <5>1. \A q, r : Abandoned(q, r) => q # None
          BY <1>0 DEF Abandoned
        <5> QED
          BY <4>1, <4>2, <5>1, Zenon
      <4> QED
        BY <2>1, <4>5, <4>6 DEF Spares
    <3>4. SweptLate'
      BY <1>0, <2>1, <3>3 DEF SweptLate, Spares, Abandoned
    <3> QED
      BY <1>0, <1>4, <2>1, <3>2, <3>3, <3>4, Sparing
  <2> QED
    BY <1>8, <2>2, <2>3 DEF Tombstone
<1>9. ASSUME NEW u \in Uploads, Sweep(u) \/ SweepFails(u) PROVE FileInv'
  <2>1. UNCHANGED <<now, conversation, messages, artifact>>
    BY <1>9 DEF Sweep, SweepFails, ListExpired, Listing, SweepFinal, SweepStaging, Abandon, chats, files
  <2>2. final' = final \/ (sweep[u] = "final" /\ final' = final \ {u})
    BY <1>9 DEF Sweep, SweepFails, ListExpired, Listing, SweepFinal, SweepStaging, Abandon, files
  <2>3. upload' = upload \/ (Is(u, Sweepable) /\ ~Locked(u) /\ upload' = [upload EXCEPT ![u] = [upload[u] EXCEPT !.state = "abandoned"]])
    BY <1>9 DEF Sweep, SweepFails, ListExpired, Listing, SweepFinal, SweepStaging, Abandon, files
  <2>4. Is(u, Sweepable) => Abandoned([upload[u] EXCEPT !.state = "abandoned"], upload[u])
    BY <1>1, AbandonedRow, Zenon DEF Is
  <2>6. /\ \A v \in Uploads : v # u => sweep'[v] = sweep[v]
        /\ sweep[u] = "no" /\ sweep'[u] # "no" =>
             upload[u] # None /\ upload[u].expires < now /\ upload[u].state # "committed"
        /\ overtaken \subseteq overtaken'
        /\ sweep[u] = "no" /\ sweep'[u] # "no" /\ Timed(u) => u \in overtaken'
    BY <1>0, <1>9 DEF Sweep, SweepFails, ListExpired, Listing, SweepFinal, SweepStaging, Abandon, Is, Sweepable
  <2>5. \A v \in Uploads : Spares(v)
    <3>1. \A v \in Uploads : v # u => upload'[v] = upload[v]
      BY <1>0, <2>3
    <3>2. \/ upload'[u] = upload[u]
          \/ Is(u, Sweepable) /\ ~Locked(u) /\ upload'[u] = [upload[u] EXCEPT !.state = "abandoned"]
      BY <1>0, <2>3
    <3>3. Spares(u)
      <4>1. \A q, r : Abandoned(q, r) => q # None
        BY <1>0 DEF Abandoned
      <4>2. \/ upload'[u] = upload[u]
            \/ Is(u, Sweepable) /\ ~Locked(u) /\ upload'[u] # None /\ Abandoned(upload'[u], upload[u])
        BY <2>4, <3>2, <4>1, Zenon
      <4> QED
        BY <2>1, <2>2, <2>6, <4>2 DEF Spares
    <3>4. \A v \in Uploads : v # u => Spares(v)
      BY <2>1, <2>2, <2>6, <3>1 DEF Spares
    <3> QED
      BY <3>3, <3>4
  <2>7. SweptLate'
    BY <1>0, <2>1, <2>5, <2>6 DEF SweptLate, Spares, Abandoned
  <2> QED
    BY <1>0, <1>3, <1>4, <2>1, <2>5, <2>7, Sparing
<1>10. CASE Tick
  <2>1. UNCHANGED <<conversation, messages, upload, artifact, final, sweep, overtaken>> /\ now' = now + 1
    BY <1>10 DEF Tick, chats, files
  <2>2. SweptLate'
    BY <1>0, <1>1, <2>1 DEF SweptLate
  <2> QED
    BY <1>0, <1>2, <1>3, <1>4, <2>1, <2>2, Sparing
<1> QED
  BY <1>6, <1>7, <1>8, <1>9, <1>10 DEF World

LEMMA CrashKeeps ==
    ASSUME TypeInv, FileInv, NEW lost \in SUBSET Turns, Crash(lost)
    PROVE  FileInv'
<1>1. /\ UNCHANGED <<now, conversation, messages, upload, artifact, final, sweep, overtaken>>
      /\ \A t \in Turns : turn'[t] = turn[t] \/ turn'[t] = Over
      /\ None \notin Uploads
  BY ChatAssumption DEF Crash, chats, files
<1>2. Over.upload = None /\ Over.files = {} /\ Over.conversation = None /\ Over.pc = "done"
  BY DEF Over, Idle
<1>3. Rooted' /\ OneOwner' /\ SweptLate' /\ FinalObjectsNamed'
  BY <1>1, <1>2 DEF FileInv, Rooted, OneOwner, SweptLate, FinalObjectsNamed
<1>4. \A t \in Turns : Stages(t)'
  BY <1>1, <1>2 DEF FileInv, Stages, Is
<1>5. ASSUME NEW u \in Uploads, Kept(u) PROVE Kept(u)'
  BY <1>1, <1>2, <1>5 DEF Kept, Is, Live
<1>6. /\ \A t \in Turns : turn[t].files \subseteq Uploads
      /\ \A c \in Conversations : Referenced(c)' = Referenced(c) /\ Referenced(c) \subseteq Uploads
  BY <1>1, ReferencedFiles DEF TypeInv, TypeOK, TurnType, Referenced
<1>7. FilesKept'
  BY <1>1, <1>2, <1>5, <1>6 DEF FileInv, FilesKept
<1> QED
  BY <1>3, <1>4, <1>7 DEF FileInv

LEMMA FilesStep == TypeInv /\ FileInv /\ [Next]_vars => FileInv'
<1> SUFFICES ASSUME TypeInv, FileInv, [Next]_vars PROVE FileInv'
  OBVIOUS
<1>1. CASE UNCHANGED vars
  BY <1>1 DEF vars, chats, files, FileInv, Rooted, OneOwner, Stages, SweptLate, FilesKept, Kept, FinalObjectsNamed,
              Is, Live, Referenced
<1> QED
  BY <1>1, IngestKeeps, TurnKeeps, WorldKeeps, CrashKeeps DEF Next, World

LEMMA FilesAlways == Spec => [](TypeInv /\ FileInv)
<1>1. Init => TypeInv
  BY TypesBegin
<1>2. Init => FileInv
  <2> SUFFICES ASSUME Init PROVE FileInv
    OBVIOUS
  <2>1. /\ \A t \in Turns : turn[t].pc = "idle" /\ turn[t].upload = None /\ turn[t].files = {}
                            /\ turn[t].conversation = None
        /\ \A c \in Conversations : Referenced(c) = {}
    BY DEF Init, Idle, Referenced
  <2> QED
    BY <2>1 DEF Init, FileInv, Rooted, OneOwner, Stages, SweptLate, FilesKept, FinalObjectsNamed
<1> QED
  BY <1>1, <1>2, TypeStep, FilesStep, PTL DEF Spec

\* A file that a message shows can be read as long as its own conversation is there. Neither
\* a cleanup, which may come late, fail half-way and be repeated, nor the undoing of an
\* ingestion whose last step was lost after it took effect, takes away its bytes; nor does a
\* fork or the deletion of another workspace. The exception is a file that a cleanup listed as
\* overdue after its commit had taken the time and before the commit took effect.
THEOREM ShownFilesAreReadable == Spec => []ReferencesReadable
<1>1. FileInv => ReferencesReadable
  BY DEF FileInv, FilesKept, Kept, Is, ReferencesReadable, Shown
<1> QED
  BY <1>1, FilesAlways, PTL

\* Wherever an ingestion stops, what is at a final place has its place recorded.
THEOREM ObjectsAreRecorded == Spec => []FinalObjectsNamed
<1>1. FileInv => FinalObjectsNamed
  BY DEF FileInv
<1> QED
  BY <1>1, FilesAlways, PTL

(***************************************************************************)
(* Ends.  The agent's message is written before its run ends, and a turn     *)
(* that recorded its end takes no step again: from the last write to the     *)
(* end of the run, the message says what the run is going to say.            *)
(***************************************************************************)

\* The agent's messages of turn t in a log
Replies(log, t) == {log[i] : i \in {j \in DOMAIN log : Of(t, "assistant", log[j])}}

LEMMA WrittenReplies ==
    ASSUME NEW log \in Seq(MessageType), Once(log), NEW m \in MessageType
    PROVE  /\ \A t \in Turns : t # m.turn \/ m.role = "user" => Replies(Upserted(log, m), t) = Replies(log, t)
           /\ Replies(Upserted(log, m), m.turn) = {m} \/ m.role = "user"
<1> DEFINE new == Upserted(log, m)
<1>0. /\ \A i \in DOMAIN log : ~Of(m.turn, m.role, log[i]) => i \in DOMAIN new /\ new[i] = log[i]
      /\ \A i \in DOMAIN new : new[i] = m \/ (i \in DOMAIN log /\ new[i] = log[i] /\ ~Of(m.turn, m.role, log[i]))
      /\ m.role \in {"user", "assistant"}
  BY UpsertedLog DEF MessageType
<1>1. \E i \in DOMAIN new : new[i] = m
  <2>1. CASE \E i \in DOMAIN log : Of(m.turn, m.role, log[i])
    BY <2>1 DEF Upserted
  <2>2. CASE ~\E i \in DOMAIN log : Of(m.turn, m.role, log[i])
    <3>1. new = Append(log, m) /\ Len(log) + 1 \in DOMAIN Append(log, m) /\ Append(log, m)[Len(log) + 1] = m
      BY <2>2 DEF Upserted
    <3> QED
      BY <3>1
  <2> QED
    BY <2>1, <2>2
<1> HIDE DEF new
<1>2. ASSUME NEW t \in Turns, t # m.turn \/ m.role = "user" PROVE Replies(new, t) = Replies(log, t)
  <2>1. ~Of(t, "assistant", m) /\ \A x : Of(t, "assistant", x) => ~Of(m.turn, m.role, x)
    BY <1>2 DEF Of
  <2>2. Replies(log, t) \subseteq Replies(new, t)
    BY <1>0, <2>1 DEF Replies
  <2>3. Replies(new, t) \subseteq Replies(log, t)
    BY <1>0, <2>1 DEF Replies
  <2> QED
    BY <2>2, <2>3
<1>3. ASSUME m.role = "assistant" PROVE Replies(new, m.turn) = {m}
  <2>1. Of(m.turn, "assistant", m)
    BY <1>3 DEF Of
  <2>2. Replies(new, m.turn) \subseteq {m}
    BY <1>0, <1>3 DEF Replies
  <2>3. m \in Replies(new, m.turn)
    BY <1>1, <2>1 DEF Replies
  <2> QED
    BY <2>2, <2>3
<1> QED
  BY <1>0, <1>2, <1>3 DEF new

Says(t, c, state) == \A m \in Replies(messages[c], t) : m.state = state

Recorded(t) ==
  LET r == turn[t]
  IN  /\ r.pc = "idle" => run[t] = None
      /\ run[t] # None => /\ conversation[run[t].conversation] # None
                          /\ r.pc # "done" => run[t].conversation = r.conversation
      /\ HasEnded(t) => r.pc = "done" /\ Says(t, run[t].conversation, run[t].status)
      /\ r.pc = "finish" \/ (r.pc = "bind" /\ r.role = "assistant") => Says(t, r.conversation, r.state)

EndInv == \A t \in Turns : Recorded(t)

\* What was recorded of the end of turn t is not touched.
Untouched(t) == HasEnded(t) => run'[t] = run[t] /\ Answers(t)' = Answers(t)

Goon(t) == Recorded(t)' /\ Untouched(t)

\* The log of a conversation that exists keeps the replies of turn t.
SameReplies(t) ==
  \A c \in Conversations : conversation[c] # None =>
    conversation'[c] # None /\ Replies(messages'[c], t) = Replies(messages[c], t)

LEMMA StandingBy ==
    ASSUME TypeInv, FileInv, EndInv, NEW t \in Turns, run'[t] = run[t], SameReplies(t),
           \/ turn'[t] = turn[t]
           \/ turn'[t].pc = "done"
           \/ /\ turn[t].pc # "done" /\ turn'[t].pc \notin {"idle", "bind", "finish"}
              /\ turn'[t].conversation = turn[t].conversation
    PROVE  Goon(t)
<1>0. /\ Recorded(t) /\ None \notin Conversations
      /\ run[t] # None => run[t].conversation \in Conversations
      /\ turn[t].pc \in {"bind", "finish"} => turn[t].conversation \in Conversations /\ conversation[turn[t].conversation] # None
  BY ChatAssumption DEF EndInv, TypeInv, TypeOK, RunRow, Courses, Course, FileInv, Rooted
<1>1. Recorded(t)'
  <2>1. run[t] # None => /\ conversation'[run[t].conversation] # None
                         /\ Replies(messages'[run[t].conversation], t) = Replies(messages[run[t].conversation], t)
    BY <1>0 DEF Recorded, SameReplies
  <2>2. HasEnded(t) => turn'[t].pc = "done"
    BY <1>0 DEF Recorded
  <2>3. turn'[t] = turn[t] /\ turn[t].pc \in {"bind", "finish"} =>
          Replies(messages'[turn[t].conversation], t) = Replies(messages[turn[t].conversation], t)
    BY <1>0 DEF SameReplies
  <2> QED
    BY <1>0, <2>1, <2>2, <2>3 DEF Recorded, HasEnded, Says
<1>2. Untouched(t)
  <2>1. run[t] # None => Answers(t) = Replies(messages[run[t].conversation], t)
    BY DEF Answers, Replies
  <2>2. run[t] # None => Answers(t)' = Replies(messages'[run[t].conversation], t)
    BY DEF Answers, Replies
  <2>3. run[t] # None =>
          Replies(messages'[run[t].conversation], t) = Replies(messages[run[t].conversation], t)
    BY <1>0 DEF Recorded, SameReplies
  <2> QED
    BY <2>1, <2>2, <2>3 DEF Untouched, HasEnded
<1> QED
  BY <1>1, <1>2 DEF Goon

LEMMA IngestEnds ==
    ASSUME TypeInv, FileInv, EndInv, NEW t \in Turns, Ingest(t)
    PROVE  \A s \in Turns : Goon(s)
<1>0. /\ turn \in [Turns -> TurnType] /\ Others(t) /\ UNCHANGED <<conversation, messages, run>>
      /\ turn[t].pc \in Saving
  BY IngestCourse, IngestFiles DEF TypeInv, TypeOK, chats, Ingest, Place, Stage, InsertRow, Prepare, Promote,
     CopyObject, DropStaged, Clock, Clocking, LockStaged, Commit, ReadBack, UndoRow, UndoBytes, At, Saving
<1>1. \A s \in Turns : SameReplies(s)
  BY <1>0 DEF SameReplies
<1>2. \A s \in Turns \ {t} : Goon(s)
  BY <1>0, <1>1, StandingBy DEF Others
<1>3. \/ turn'[t].pc = "done"
      \/ /\ turn[t].pc # "done" /\ turn'[t].pc \notin {"idle", "bind", "finish"}
         /\ turn'[t].conversation = turn[t].conversation
  <2>1. CASE ReadBack(t)
    <3>1. Gains(t) \/ Reports(t) \/ Ends(t)
      BY <1>0, <2>1, Reading DEF TypeInv, Courses, Course
    <3> QED
      BY <1>0, <3>1 DEF Gains, Reports, Ends, Over, Idle, Saving
  <2>2. CASE Trouble(t)
    <3>1. Shifts(t, "undo row") \/ Shifts(t, "undo bytes") \/ Reports(t) \/ Ends(t)
      BY <1>0, <2>2, Troubles
    <3> QED
      BY <1>0, <3>1 DEF Shifts, Like, Reports, Ends, Over, Idle, Saving
  <2>3. CASE \E pc \in Saving, what \in {"staging", "final"} : Goes(t, pc) \/ Holding(t, what, pc)
    <3>1. PICK pc \in Saving : Shifts(t, pc)
      BY <1>0, <2>3, Shifting DEF Saving, Pc
    <3> QED
      BY <1>0, <3>1 DEF Shifts, Like, Saving
  <2>4. ReadBack(t) \/ Trouble(t) \/ \E pc \in Saving, what \in {"staging", "final"} : Goes(t, pc) \/ Holding(t, what, pc)
    BY DEF Ingest, Place, Stage, InsertRow, Prepare, Promote, CopyObject, DropStaged, Clock, Clocking,
           LockStaged, Commit, UndoRow, UndoBytes, Saving
  <2> QED
    BY <2>1, <2>2, <2>3, <2>4
<1> QED
  BY <1>0, <1>1, <1>2, <1>3, StandingBy

LEMMA TurnEnds ==
    ASSUME TypeInv, FileInv, EndInv, NEW t \in Turns, TurnStep(t)
    PROVE  \A s \in Turns : Goon(s)
<1> DEFINE c == turn[t].conversation
           r == turn[t]
           log == messages[c]
<1>0. /\ turn \in [Turns -> TurnType] /\ turn' \in [Turns -> TurnType] /\ Others(t) /\ Stays(t) /\ LogsOK
      /\ UNCHANGED <<conversation, upload, artifact, final>>
      /\ r \in TurnType /\ Recorded(t) /\ Course(t) /\ None \notin Conversations /\ None \notin RunRow
      /\ run \in [Turns -> RunRow \cup {None}]
  BY TurnCourse, TurnChats, LogsTyped, ChatAssumption DEF TypeInv, TypeOK, files, Courses, EndInv
<1>1. r.pc \notin {"idle", "done"} => c \in Conversations /\ conversation[c] # None /\ ~HasEnded(t)
  BY <1>0 DEF Course, FileInv, Rooted, Recorded
\* What a step does to the messages
<1>2. ASSUME WriteMessage(t)
      PROVE  /\ \A s \in Turns \ {t} : SameReplies(s)
             /\ r.role = "user" => SameReplies(t)
             /\ r.role = "assistant" => \A x \in Replies(messages'[c], t) : x.state = r.state
             /\ run' = run /\ r.pc = "write" /\ (Trouble(t) \/ Goes(t, "bind") \/ turn' = [turn EXCEPT ![t] = AfterWrite(t)])
  <2> DEFINE m == [turn |-> t, role |-> r.role, files |-> r.files,
                   state |-> IF r.role = "user" THEN "completed" ELSE r.state]
  <2>1. r.pc = "write" /\ run' = run /\ messages' = [messages EXCEPT ![c] = Upserted(log, m)]
    BY <1>2 DEF WriteMessage, At
  <2>2. m \in MessageType /\ m.turn = t /\ m.role = r.role /\ (r.role = "assistant" => m.state = r.state)
    BY <1>0 DEF MessageType, TurnType, Ending
  <2> HIDE DEF m
  <2>3. /\ \A s \in Turns : s # t \/ r.role = "user" => Replies(Upserted(log, m), s) = Replies(log, s)
        /\ Replies(Upserted(log, m), t) = {m} \/ r.role = "user"
    <3>1. log \in Seq(MessageType) /\ Once(log)
      BY <1>0, <1>1, <2>1 DEF LogsOK
    <3> HIDE DEF log
    <3> QED
      BY <2>2, <3>1, WrittenReplies
  <2>4. /\ messages'[c] = Upserted(log, m)
        /\ \A d \in Conversations : d # c => messages'[d] = messages[d]
    BY <1>0, <1>1, <2>1 DEF LogsOK
  <2> HIDE DEF c, r, log
  <2>5. ASSUME NEW s \in Turns, s # t \/ r.role = "user" PROVE SameReplies(s)
    BY <1>0, <2>3, <2>4, <2>5 DEF SameReplies, log
  <2>6. r.role = "assistant" => \A x \in Replies(messages'[c], t) : x.state = r.state
    BY <2>2, <2>3, <2>4
  <2>7. Trouble(t) \/ Goes(t, "bind") \/ turn' = [turn EXCEPT ![t] = AfterWrite(t)]
    BY <1>2 DEF WriteMessage, Goes
  <2> QED
    BY <2>1, <2>5, <2>6, <2>7
<1>3. ASSUME ~WriteMessage(t) PROVE \A s \in Turns : SameReplies(s)
  <2>1. messages' = messages
    BY <1>3 DEF TurnStep, Send, BindFiles, TurnStart, BeginRun, AgentEvent, TurnFinish, FinishRun, StepFails, chats
  <2> QED
    BY <1>0, <2>1 DEF SameReplies
<1>4. \A s \in Turns \ {t} : Goon(s)
  BY <1>0, <1>2, <1>3, StandingBy DEF Others, Stays
\* How the turn itself goes on
<1>5. ASSUME SameReplies(t), run' = run, r.pc \notin {"idle", "done"},
             turn'[t].pc = "done" \/ (turn'[t].pc \notin {"idle", "bind", "finish"} /\ turn'[t].conversation = r.conversation)
      PROVE  Goon(t)
  BY <1>5, StandingBy
<1>6. ASSUME Takes(t), run' = run, SameReplies(t) PROVE Goon(t)
  <2>1. CASE r.pc = "idle"
    BY <1>0, <1>6, <2>1 DEF Takes, Recorded, Goon, Untouched, HasEnded
  <2>2. CASE r.pc = "stream"
    BY <1>5, <1>6, <2>2 DEF Takes
  <2> QED
    BY <1>6, <2>1, <2>2 DEF Takes
<1>7. Trouble(t) => \/ Reports(t) \/ Ends(t)
                    \/ turn'[t].pc \in {"undo row", "undo bytes"} /\ turn'[t].conversation = r.conversation
  BY <1>0, Troubles DEF Shifts, Like
<1>8. Trouble(t) => turn'[t].pc = "done" \/ (turn'[t].pc \notin {"idle", "bind", "finish"} /\ turn'[t].conversation = r.conversation)
  BY <1>7 DEF Reports, Ends, Over, Idle
<1>9. ASSUME r.pc \in {"write", "bind"}, run' = run,
             r.role = "user" => SameReplies(t),
             r.role = "assistant" => \A x \in Replies(messages'[c], t) : x.state = r.state,
             Trouble(t) \/ Goes(t, "bind") \/ Continues(t)
      PROVE  Goon(t)
  <2>1. ~HasEnded(t) /\ ~HasEnded(t)' /\ Untouched(t)
    BY <1>1, <1>9 DEF HasEnded, Untouched
  <2>2. run'[t] # None => conversation'[run'[t].conversation] # None /\ run'[t].conversation = c
    BY <1>0, <1>9 DEF Recorded
  <2>3. ASSUME turn'[t].pc \notin {"idle", "finish", "bind"}, turn'[t].pc = "done" \/ turn'[t].conversation = c
        PROVE  Goon(t)
    BY <2>1, <2>2, <2>3 DEF Goon, Recorded
  <2>4. ASSUME turn'[t].pc \in {"finish", "bind"}, turn'[t].conversation = c, turn'[t].role = r.role, turn'[t].state = r.state,
               turn'[t].pc = "finish" => r.role = "assistant"
        PROVE  Goon(t)
    <3>1. turn'[t].role = "assistant" => Says(t, turn[t].conversation, turn[t].state)'
      BY <1>9, <2>4 DEF Says
    <3> QED
      BY <2>1, <2>2, <2>4, <3>1 DEF Goon, Recorded
  <2>5. CASE Trouble(t)
    BY <1>8, <2>3, <2>5 DEF Reports
  <2>6. CASE Goes(t, "bind")
    BY <1>0, <2>4, <2>6, Shifting DEF Shifts, Like, Pc
  <2>7. CASE Continues(t)
    BY <1>0, <2>3, <2>4, <2>7 DEF Continues, Follows, Shifts, Like
  <2> QED
    BY <1>9, <2>5, <2>6, <2>7
\* The steps
<1>10. CASE \/ \E by \in Handlers, d \in Conversations, u \in Uploads \cup {None} : Send(t, by, d, u)
            \/ \E u \in Uploads \cup {None} : AgentEvent(t, u)
  <2>1. run' = run /\ messages' = messages
    BY <1>10 DEF Send, AgentEvent, chats
  <2>2. SameReplies(t)
    BY <1>0, <2>1 DEF SameReplies
  <2> QED
    BY <1>0, <1>4, <1>6, <1>10, <2>1, <2>2, Taking
<1>11. CASE WriteMessage(t)
  <2>1. Trouble(t) \/ Goes(t, "bind") \/ Continues(t)
    BY <1>0, <1>2, <1>11, Writing
  <2> QED
    BY <1>2, <1>4, <1>9, <1>11, <2>1
<1>12. CASE BindFiles(t)
  <2>1. Trouble(t) \/ Continues(t)
    BY <1>0, <1>12, Writing DEF BindFiles
  <2>2. run' = run /\ messages' = messages /\ r.pc = "bind"
    BY <1>12 DEF BindFiles, At
  <2>3. SameReplies(t)
    BY <1>0, <2>2 DEF SameReplies
  <2>4. r.role = "assistant" => \A x \in Replies(messages'[c], t) : x.state = r.state
    BY <1>0, <2>2 DEF Recorded, Says
  <2> QED
    BY <1>4, <1>9, <2>1, <2>2, <2>3, <2>4
<1>13. CASE TurnStart(t) \/ StepFails(t)
  <2>1. run' = run /\ messages' = messages /\ r.pc \notin {"idle", "done"} /\ (Trouble(t) \/ Goes(t, "begin"))
    BY <1>13 DEF TurnStart, StepFails, At, chats
  <2>2. SameReplies(t)
    BY <1>0, <2>1 DEF SameReplies
  <2>3. Goes(t, "begin") => turn'[t].pc = "begin" /\ turn'[t].conversation = r.conversation
    BY <1>0, Shifting DEF Shifts, Like, Pc
  <2> QED
    BY <1>4, <1>5, <1>8, <2>1, <2>2, <2>3
<1>14. CASE \E state \in Ending : TurnFinish(t, state)
  <2>1. PICK state \in Ending : TurnFinish(t, state)
    BY <1>14
  <2>2. run' = run /\ messages' = messages /\ r.pc = "stream"
    BY <2>1 DEF TurnFinish, At, chats
  <2>3. SameReplies(t)
    BY <1>0, <2>2 DEF SameReplies
  <2>4. Notes(t, "write", "finish", state)
    BY <1>0, <2>1, Noting
  <2> QED
    BY <1>4, <1>5, <2>2, <2>3, <2>4 DEF Notes
<1>15. CASE BeginRun(t)
  <2>1. /\ r.pc = "begin" /\ r.event = "none" /\ messages' = messages
        /\ run'[t] = [conversation |-> c, status |-> "streaming"]
    BY <1>0, <1>15 DEF BeginRun, At, chats, Course
  <2>2. run'[t].conversation = c /\ ~HasEnded(t) /\ ~HasEnded(t)'
    BY <1>1, <2>1 DEF HasEnded, Ending
  <2>3. Trouble(t) => turn'[t].pc = "done"
    <3>1. ~Ingesting(t) /\ ~At(t, "undo row")
      BY <2>1 DEF Ingesting, At
    <3> QED
      BY <1>0, <2>1, <3>1, Troubles DEF Reports, Ends, Over, Idle
  <2>4. turn'[t].pc = "done" \/ (turn'[t].pc = "stream" /\ turn'[t].conversation = c)
    BY <1>0, <1>15, <2>3, Noting DEF BeginRun, Notes
  <2>5. Goon(t)
    BY <1>0, <1>1, <2>1, <2>2, <2>4 DEF Goon, Recorded, Untouched
  <2> QED
    BY <1>4, <2>5
<1>16. CASE FinishRun(t)
  <2>1. r.pc = "finish" /\ r.state # "streaming" /\ messages' = messages /\ run' = [run EXCEPT ![t].status = r.state]
    BY <1>0, <1>16 DEF FinishRun, At, chats, Course
  <2>2. run[t] # None /\ run[t] \in RunRow
    BY <1>0, <2>1 DEF Course
  <2>3. run'[t] = [run[t] EXCEPT !.status = r.state]
    BY <1>0, <2>1
  <2>4. run'[t].conversation = run[t].conversation /\ run'[t].status = r.state
    BY <2>2, <2>3 DEF RunRow
  <2>5. run[t].conversation = c /\ Says(t, c, r.state)
    BY <1>0, <2>1, <2>2 DEF Recorded
  <2>6. turn'[t].pc = "done"
    <3>1. ~Ingesting(t) /\ ~At(t, "undo row")
      BY <2>1 DEF Ingesting, At
    <3>2. Trouble(t) => Ends(t)
      BY <1>0, <2>1, <3>1, Troubles DEF Reports
    <3> QED
      BY <1>0, <1>16, <3>2 DEF FinishRun, Ends, Over, Idle
  <2>7. Says(t, run[t].conversation, run[t].status)'
    BY <2>1, <2>4, <2>5 DEF Says
  <2>8. Goon(t)
    BY <1>0, <1>1, <2>1, <2>4, <2>5, <2>6, <2>7 DEF Goon, Recorded, Untouched
  <2> QED
    BY <1>4, <2>8
<1> QED
  BY <1>10, <1>11, <1>12, <1>13, <1>14, <1>15, <1>16 DEF TurnStep

LEMMA WorldEnds ==
    ASSUME TypeInv, FileInv, EndInv, World \/ \E lost \in SUBSET Turns : Crash(lost)
    PROVE  \A t \in Turns : Goon(t)
<1>0. LogsOK /\ None \notin ConversationRow /\ conversation \in [Conversations -> ConversationRow \cup {None}]
  BY LogsTyped, ChatAssumption DEF TypeInv, TypeOK
<1>1. run' = run /\ \A t \in Turns : turn'[t] = turn[t] \/ turn'[t].pc = "done"
  BY WorldTypes DEF Crash, Over, Idle, TypeInv
<1>2. \A c \in Conversations : conversation[c] # None => conversation'[c] # None /\ messages'[c] = messages[c]
  <2>1. ASSUME NEW c \in Conversations, NEW w \in Workspaces, CreateConversation(c, w),
               NEW e \in Conversations, conversation[e] # None
        PROVE  conversation'[e] # None /\ messages'[e] = messages[e]
    BY <1>0, <2>1 DEF CreateConversation
  <2>2. ASSUME NEW c \in Conversations, NEW d \in Conversations, NEW w \in Workspaces, NEW k \in DOMAIN messages[c],
               Fork(c, k, d, w), NEW e \in Conversations, conversation[e] # None
        PROVE  conversation'[e] # None /\ messages'[e] = messages[e]
    BY <1>0, <2>2 DEF Fork, LogsOK
  <2>3. ASSUME NEW w \in Workspaces, Tombstone(w), NEW e \in Conversations, conversation[e] # None
        PROVE  conversation'[e] # None /\ messages'[e] = messages[e]
    <3>1. \A r \in ConversationRow : [r EXCEPT !.state = "staged_delete"] \in ConversationRow
      BY DEF ConversationRow
    <3>2. conversation'[e] \in {conversation[e], [conversation[e] EXCEPT !.state = "staged_delete"]}
      BY <2>3 DEF Tombstone, TombstoneContent
    <3> QED
      BY <1>0, <2>3, <3>1, <3>2 DEF Tombstone
  <2>4. ASSUME \/ \E u \in Uploads : Sweep(u) \/ SweepFails(u)
               \/ \E lost \in SUBSET Turns : Crash(lost)
               \/ Tick
        PROVE  conversation' = conversation /\ messages' = messages
    BY <2>4 DEF Sweep, SweepFails, ListExpired, Listing, SweepFinal, SweepStaging, Abandon, Crash, Tick, chats
  <2> QED
    BY <2>1, <2>2, <2>3, <2>4 DEF World
<1>3. \A t \in Turns : SameReplies(t)
  BY <1>2 DEF SameReplies
<1> QED
  BY <1>1, <1>3, StandingBy

LEMMA EndsStep ==
    ASSUME TypeInv, FileInv, EndInv, Next
    PROVE  EndInv' /\ \A t \in Turns : Untouched(t)
<1>1. \A t \in Turns : Goon(t)
  BY IngestEnds, TurnEnds, WorldEnds DEF Next, World
<1> QED
  BY <1>1 DEF Goon, EndInv

\* A turn ends once: whatever fails after its end was recorded, and whatever a crash, a
\* deletion or a fork does to the conversation, its run and its message stay as they were;
\* and whenever its run has an end, the message shows the same, though the two are written
\* by separate transactions.
THEOREM TurnsEndAsRecorded == Spec => TurnsEndOnce
<1>1. Init => EndInv
  BY DEF Init, EndInv, Recorded, HasEnded, Idle
<1>2. TypeInv /\ FileInv /\ EndInv /\ [Next]_vars => EndInv'
  <2>1. EndInv /\ UNCHANGED vars => EndInv'
    BY DEF vars, chats, EndInv, Recorded, HasEnded, Says, Replies
  <2> QED
    BY <2>1, EndsStep
<1>3. TypeInv /\ FileInv /\ EndInv /\ [Next]_vars
        => [\A t \in Turns : /\ HasEnded(t) => run'[t] = run[t] /\ Answers(t)' = Answers(t)
                             /\ MessageSaysSo(t)']_vars
  <2>1. EndInv => \A t \in Turns : MessageSaysSo(t)
    BY DEF EndInv, Recorded, MessageSaysSo, Says, Replies, Answers
  <2>2. EndInv' => \A t \in Turns : MessageSaysSo(t)'
    BY DEF EndInv, Recorded, MessageSaysSo, Says, Replies, Answers
  <2> QED
    BY <2>2, EndsStep DEF Untouched
<1> QED
  BY <1>1, <1>2, <1>3, FilesAlways, PTL DEF Spec, TurnsEndOnce

=============================================================================
