---------------------------- MODULE DurableChat ----------------------------
(***************************************************************************)
(* Chat that outlives the browser and the workspace: turns that checkpoint  *)
(* the agent's messages, files that are saved in two systems, their clean-  *)
(* up, forks, and the deletion of a workspace with its content              *)
(* (packages/workspace-store/src/chat.ts, packages/artifact-store, and      *)
(* durable-chat.ts, chat-turn-executor.ts and the turn of a channel in      *)
(* server.ts of apps/control-api/src).                                      *)
(*                                                                          *)
(* A transaction or a storage call is one action. Any of them may fail, and *)
(* may fail for its caller after it took effect.                            *)
(***************************************************************************)
EXTENDS Integers, Sequences, FiniteSets

CONSTANTS
  Turns,          \* agent turns, each with a message of the user and one of the agent
  Handlers,       \* code that may run a turn: "executor" (browser, schedule), "channel"
  Uploads,        \* files to be saved; one name for the upload and its artifact
  Conversations,
  Workspaces,
  TTL,            \* how long an upload may take
  MaxTime,        \* bound: no upload begins then or later, and the clock stops TTL after
  MaxFaults,      \* bound: crashes, and failures of a cleanup
  None

Times == 0..(MaxTime + TTL)
Ending == {"completed", "failed"}     \* needs_input and cancelled count as completed
Sweepable == {"staged", "finalizing", "failed"}

ConversationRow == [workspace : Workspaces, state : {"active", "staged_delete"}]
RunRow == [conversation : Conversations, status : Ending \cup {"streaming"}]
UploadRow == [conversation : Conversations, expires : Times, named : BOOLEAN,
              state : Sweepable \cup {"committed", "abandoned"}]

ASSUME ChatAssumption ==
  /\ Handlers \subseteq {"executor", "channel"}
  /\ TTL \in Nat /\ MaxTime \in Nat /\ MaxFaults \in Nat
  /\ None \notin Turns \cup Uploads \cup Conversations \cup Workspaces
  /\ None \notin ConversationRow /\ None \notin RunRow /\ None \notin UploadRow

VARIABLES
  now,          \* time
  conversation, \* chat_conversations: workspace and state
  messages,     \* chat_messages of a conversation, by ordinal
  bindings,     \* chat_message_artifacts
  run,          \* chat_agent_runs, one for a turn
  upload,       \* artifact_staging_uploads
  artifact,     \* artifacts: state
  staged,       \* storage: what is at a staging locator
  final,        \* storage: what is at a final locator
  turn,         \* the handlers under way
  sweep,        \* the cleanup of each upload
  overtaken,    \* history: uploads that a cleanup listed once their commit had taken its time
  deleted,      \* workspaces that were deleted
  faults        \* faults so far

chats == <<conversation, messages, bindings>>
files == <<upload, artifact, staged, final>>
vars == <<now, chats, run, files, turn, sweep, overtaken, deleted, faults>>

Idle == [pc |-> "idle", by |-> None, conversation |-> None, role |-> "user", files |-> {},
         upload |-> None, holds |-> "nothing", state |-> "streaming", event |-> "none"]
Over == [Idle EXCEPT !.pc = "done"]

Init ==
  /\ now = 0
  /\ conversation = [c \in Conversations |-> None]
  /\ messages = [c \in Conversations |-> <<>>]
  /\ bindings = {}
  /\ run = [t \in Turns |-> None]
  /\ upload = [u \in Uploads |-> None]
  /\ artifact = [u \in Uploads |-> "none"]
  /\ staged = {} /\ final = {}
  /\ turn = [t \in Turns |-> Idle]
  /\ sweep = [u \in Uploads |-> "no"]
  /\ overtaken = {}
  /\ deleted = {}
  /\ faults = 0

Live(c) == conversation[c] # None /\ conversation[c].state = "active"
Is(u, states) == upload[u] # None /\ upload[u].state \in states
Fresh(u) == /\ upload[u] = None /\ u \notin staged \cup final
            /\ \A t \in Turns : turn[t].upload # u

At(t, pc) == turn[t].pc = pc
Upload(t) == turn[t].upload
Goes(t, pc) == turn' = [turn EXCEPT ![t].pc = pc]

(***************************************************************************)
(* Errors of a handler                                                      *)
(***************************************************************************)

\* Mutant: also after the end has been recorded.
RecoversAlways(t) ==
  turn[t].by = "executor" /\ turn[t].event # "none" /\ turn[t].state # "failed"

\* The executor records the failure, unless it never started, has recorded the end, or
\* is recording the failure already. The other handlers let the error through.
Recovers(t) ==
  /\ turn[t].by = "executor" /\ turn[t].role = "assistant"
  /\ turn[t].event = "some" /\ turn[t].state = "streaming"

AfterError(t) ==
  IF Recovers(t)
    THEN [turn[t] EXCEPT !.pc = "write", !.state = "failed", !.upload = None, !.holds = "nothing"]
    ELSE Over

Ingesting(t) ==
  turn[t].pc \in {"stage", "row", "prepare", "promote", "drop", "commit", "lock", "committing", "read"}

\* An ingestion cleans up first. An error in a cleanup is swallowed.
Trouble(t) ==
  turn' = [turn EXCEPT ![t] =
    IF Ingesting(t) THEN [turn[t] EXCEPT !.pc = "undo row"]
    ELSE IF At(t, "undo row") THEN [turn[t] EXCEPT !.pc = "undo bytes"]
    ELSE AfterError(t)]

\* A call fails without an effect; the agent's stream breaks off or times out.
StepFails(t) ==
  /\ turn[t].pc \notin {"idle", "done"}
  /\ Trouble(t)
  /\ UNCHANGED <<now, chats, run, files, sweep, overtaken, deleted, faults>>

(***************************************************************************)
(* Ingestion of a file: staged, verified, moved to its final place, and     *)
(* then committed                                                           *)
(***************************************************************************)

Place(t) ==
  /\ At(t, "place") /\ conversation[turn[t].conversation].workspace \notin deleted
  /\ Goes(t, "stage")
  /\ UNCHANGED <<now, chats, run, files, sweep, overtaken, deleted, faults>>

Holding(t, what, pc) == turn' = [turn EXCEPT ![t].pc = pc, ![t].holds = what]

Stage(t) ==
  /\ At(t, "stage")
  /\ staged' = staged \cup {Upload(t)}
  /\ Holding(t, "staging", "row") \/ Trouble(t)
  /\ UNCHANGED <<now, chats, run, upload, artifact, final, sweep, overtaken, deleted, faults>>

RowInserted(t) == [upload EXCEPT ![Upload(t)] =
  [conversation |-> turn[t].conversation, state |-> "staged", expires |-> now + TTL, named |-> FALSE]]

\* Mutant: the file is moved without recording where to.
InsertRowOnly(t) ==
  /\ At(t, "row") /\ now < MaxTime /\ upload' = RowInserted(t) /\ Goes(t, "promote")
  /\ UNCHANGED <<now, chats, run, artifact, staged, final, sweep, overtaken, deleted, faults>>

InsertRow(t) ==
  /\ At(t, "row") /\ now < MaxTime /\ upload' = RowInserted(t)
  /\ Goes(t, "prepare") \/ Trouble(t)
  /\ UNCHANGED <<now, chats, run, artifact, staged, final, sweep, overtaken, deleted, faults>>

\* The final locator is recorded before anything is there.
Prepare(t) ==
  /\ At(t, "prepare")
  /\ Is(Upload(t), {"staged"}) /\ upload[Upload(t)].expires >= now
  /\ upload' = [upload EXCEPT ![Upload(t)].state = "finalizing", ![Upload(t)].named = TRUE]
  /\ Goes(t, "promote") \/ Trouble(t)
  /\ UNCHANGED <<now, chats, run, artifact, staged, final, sweep, overtaken, deleted, faults>>

\* A rename in the file system ...
Promote(t) ==
  /\ At(t, "promote") /\ Upload(t) \in staged
  /\ staged' = staged \ {Upload(t)} /\ final' = final \cup {Upload(t)}
  /\ Holding(t, "final", "commit") \/ Trouble(t)
  /\ UNCHANGED <<now, chats, run, upload, artifact, sweep, overtaken, deleted, faults>>

\* ... or a copy in an object store, then a deletion.
CopyObject(t) ==
  /\ At(t, "promote") /\ Upload(t) \in staged
  /\ final' = final \cup {Upload(t)}
  /\ Goes(t, "drop") \/ Trouble(t)
  /\ UNCHANGED <<now, chats, run, upload, artifact, staged, sweep, overtaken, deleted, faults>>

DropStaged(t) ==
  /\ At(t, "drop")
  /\ staged' = staged \ {Upload(t)}
  /\ Holding(t, "final", "commit") \/ Trouble(t)
  /\ UNCHANGED <<now, chats, run, upload, artifact, final, sweep, overtaken, deleted, faults>>

Clocking(t) ==
  /\ At(t, "commit") /\ upload[Upload(t)] # None
  /\ Goes(t, "lock")
  /\ UNCHANGED <<now, chats, run, files, sweep, overtaken, deleted, faults>>

\* Mutant: the deadline is not looked at again.
ClockUnread(t) == Clocking(t)

\* commitArtifact takes the time that the deadline is compared with ...
Clock(t) == Clocking(t) /\ upload[Upload(t)].expires >= now

\* ... then reads and locks the row ...
LockStaged(t) ==
  /\ At(t, "lock")
  /\ Is(Upload(t), {"finalizing"}) /\ Live(upload[Upload(t)].conversation)
  /\ Goes(t, "committing")
  /\ UNCHANGED <<now, chats, run, files, sweep, overtaken, deleted, faults>>

\* ... and its transaction ends later: writers of the row wait till then, readers do not.
Commit(t) ==
  /\ At(t, "committing") /\ upload[Upload(t)] # None
  /\ upload' = [upload EXCEPT ![Upload(t)].state = "committed"]
  /\ artifact' = [artifact EXCEPT ![Upload(t)] = "available"]
  /\ Goes(t, "read") \/ Trouble(t)
  /\ UNCHANGED <<now, chats, run, staged, final, sweep, overtaken, deleted, faults>>

Locked(u) == \E t \in Turns : At(t, "committing") /\ Upload(t) = u
Timed(u) == \E t \in Turns : turn[t].pc \in {"lock", "committing"} /\ Upload(t) = u

\* commitArtifact ends by reading the artifact back, after its transaction.
Readable(u) == artifact[u] = "available" /\ Live(upload[u].conversation)

Gained(t) ==
  [turn[t] EXCEPT !.pc = "write", !.files = @ \cup {Upload(t)}, !.upload = None, !.holds = "nothing"]

ReadBack(t) ==
  /\ At(t, "read")
  /\ turn' = [turn EXCEPT ![t] = IF Readable(Upload(t)) THEN Gained(t) ELSE AfterError(t)]
  /\ UNCHANGED <<now, chats, run, files, sweep, overtaken, deleted, faults>>

UndoRow(t) ==
  /\ At(t, "undo row") /\ Is(Upload(t), {"staged", "finalizing"})
  /\ upload' = [upload EXCEPT ![Upload(t)].state = "failed"]
  /\ Trouble(t)
  /\ UNCHANGED <<now, chats, run, artifact, staged, final, sweep, overtaken, deleted, faults>>

\* Only what the handler knows to be there is deleted.
UndoBytes(t) ==
  /\ At(t, "undo bytes")
  /\ staged' = IF turn[t].holds = "staging" THEN staged \ {Upload(t)} ELSE staged
  /\ final' = IF turn[t].holds = "final" THEN final \ {Upload(t)} ELSE final
  /\ Trouble(t)
  /\ UNCHANGED <<now, chats, run, upload, artifact, sweep, overtaken, deleted, faults>>

(***************************************************************************)
(* A turn: the user's message, then the agent's events                      *)
(***************************************************************************)

CreateConversation(c, w) ==
  /\ conversation[c] = None /\ w \notin deleted
  /\ conversation' = [conversation EXCEPT ![c] = [workspace |-> w, state |-> "active"]]
  /\ UNCHANGED <<now, messages, bindings, run, files, turn, sweep, overtaken, deleted, faults>>

Attachment(u) == u = None \/ (u \in Uploads /\ Fresh(u))

\* A message is sent in conversation c, with or without a file.
Send(t, by, c, u) ==
  /\ At(t, "idle") /\ Live(c) /\ conversation[c].workspace \notin deleted /\ Attachment(u)
  /\ turn' = [turn EXCEPT ![t] = [Idle EXCEPT !.by = by, !.conversation = c, !.upload = u,
                                              !.pc = IF u = None THEN "write" ELSE "place"]]
  /\ UNCHANGED <<now, chats, run, files, sweep, overtaken, deleted, faults>>

Of(t, role, m) == m.turn = t /\ m.role = role

\* Mutant: each checkpoint is a message.
Appended(log, m) == Append(log, m)

\* A message that is known keeps its ordinal.
Upserted(log, m) ==
  IF \E i \in DOMAIN log : Of(m.turn, m.role, log[i])
    THEN [i \in DOMAIN log |-> IF Of(m.turn, m.role, log[i]) THEN m ELSE log[i]]
    ELSE Append(log, m)

AfterWrite(t) ==
  IF turn[t].role = "user"
    THEN [turn[t] EXCEPT !.pc = "stream", !.role = "assistant", !.files = {}]
    ELSE [turn[t] EXCEPT !.pc = IF turn[t].state = "streaming" THEN "stream" ELSE "finish"]

WriteMessage(t) ==
  LET c == turn[t].conversation
  IN  /\ At(t, "write") /\ Live(c)
      /\ messages' = [messages EXCEPT ![c] =
           Upserted(@, [turn |-> t, role |-> turn[t].role, files |-> turn[t].files,
                        state |-> IF turn[t].role = "user" THEN "completed" ELSE turn[t].state])]
      /\ \/ turn' = [turn EXCEPT ![t] = IF turn[t].files # {} THEN [@ EXCEPT !.pc = "bind"]
                                                              ELSE AfterWrite(t)]
         \/ Trouble(t)
      /\ UNCHANGED <<now, conversation, bindings, run, files, sweep, overtaken, deleted, faults>>

Binding(c, t, role, u) == [conversation |-> c, turn |-> t, role |-> role, file |-> u]

\* All files of the message at once, each if it is this conversation's and available.
BindFiles(t) ==
  LET c == turn[t].conversation
  IN  /\ At(t, "bind")
      /\ \E bound \in SUBSET turn[t].files :
           /\ \A u \in bound : artifact[u] = "available" /\ upload[u].conversation = c
           /\ bindings' = bindings \cup {Binding(c, t, turn[t].role, u) : u \in bound}
           /\ (bound = turn[t].files /\ turn' = [turn EXCEPT ![t] = AfterWrite(t)]) \/ Trouble(t)
      /\ UNCHANGED <<now, conversation, messages, run, files, sweep, overtaken, deleted, faults>>

TurnStart(t) ==
  /\ At(t, "stream") /\ turn[t].event = "none"
  /\ Goes(t, "begin")
  /\ UNCHANGED <<now, chats, run, files, sweep, overtaken, deleted, faults>>

\* An error here leaves no message to record the failure in.
BeginRun(t) ==
  LET c == turn[t].conversation
  IN  /\ At(t, "begin") /\ Live(c)
      /\ run' = [run EXCEPT ![t] = [conversation |-> c, status |-> "streaming"]]
      /\ turn' = [turn EXCEPT ![t] = [@ EXCEPT !.pc = "stream", !.event = "some"]] \/ Trouble(t)
      /\ UNCHANGED <<now, chats, files, sweep, overtaken, deleted, faults>>

\* Text, progress, a tool, a notice or an approval; or a file, which is saved first.
AgentEvent(t, u) ==
  /\ At(t, "stream") /\ turn[t].event = "some" /\ Attachment(u)
  /\ turn' = [turn EXCEPT ![t].pc = IF u = None THEN "write" ELSE "place", ![t].upload = u]
  /\ UNCHANGED <<now, chats, run, files, sweep, overtaken, deleted, faults>>

TurnFinish(t, state) ==
  /\ At(t, "stream") /\ turn[t].event = "some"
  /\ turn' = [turn EXCEPT ![t].pc = "write", ![t].event = "finish", ![t].state = state]
  /\ UNCHANGED <<now, chats, run, files, sweep, overtaken, deleted, faults>>

FinishRun(t) ==
  /\ At(t, "finish")
  /\ run' = [run EXCEPT ![t].status = turn[t].state]
  /\ turn' = [turn EXCEPT ![t] = Over] \/ Trouble(t)
  /\ UNCHANGED <<now, chats, files, sweep, overtaken, deleted, faults>>

(***************************************************************************)
(* Forks and deletion                                                       *)
(***************************************************************************)

\* The first k messages of c, with their files, continue as d in workspace w.
Fork(c, k, d, w) ==
  LET copied == SubSeq(messages[c], 1, k)
      With(b) == b.conversation = c /\ \E i \in 1..k : Of(b.turn, b.role, copied[i])
  IN  /\ Live(c) /\ conversation[d] = None /\ w \notin deleted
      /\ conversation' = [conversation EXCEPT ![d] = [workspace |-> w, state |-> "active"]]
      /\ messages' = [messages EXCEPT ![d] = copied]
      /\ bindings' = bindings \cup {[b EXCEPT !.conversation = d] : b \in {x \in bindings : With(x)}}
      /\ UNCHANGED <<now, run, files, turn, sweep, overtaken, deleted, faults>>

In(c, w) == conversation[c] # None /\ conversation[c].workspace = w
Protected(u, w) == \E b \in bindings : b.file = u /\ Live(b.conversation) /\ ~In(b.conversation, w)

TombstoneContent(w) ==
  LET Here(u) == upload[u] # None /\ In(upload[u].conversation, w)
  IN  /\ \A u \in Uploads : Here(u) => ~Locked(u)
      /\ upload' = [u \in Uploads |-> IF Here(u) /\ Is(u, Sweepable)
                      THEN [upload[u] EXCEPT !.state = "abandoned"] ELSE upload[u]]
      /\ artifact' = [u \in Uploads |-> IF Here(u) /\ artifact[u] = "available" /\ ~Protected(u, w)
                        THEN "staged_delete" ELSE artifact[u]]
      /\ conversation' = [c \in Conversations |-> IF In(c, w)
                            THEN [conversation[c] EXCEPT !.state = "staged_delete"] ELSE conversation[c]]

\* The last step of a deletion; the content is kept by default.
Tombstone(w) ==
  /\ w \notin deleted
  /\ deleted' = deleted \cup {w}
  /\ UNCHANGED <<upload, artifact, conversation>> \/ TombstoneContent(w)
  /\ UNCHANGED <<now, messages, bindings, run, staged, final, turn, sweep, overtaken, faults>>

(***************************************************************************)
(* Cleanup of uploads that came to nothing. Each replica has a timer.       *)
(***************************************************************************)

Listing(u) ==
  /\ sweep[u] = "no" /\ Is(u, Sweepable)
  /\ sweep' = [sweep EXCEPT ![u] = IF upload[u].named THEN "final" ELSE "staging"]
  /\ overtaken' = IF Timed(u) THEN overtaken \cup {u} ELSE overtaken
  /\ UNCHANGED <<now, chats, run, files, turn, deleted, faults>>

\* Mutant: uploads under way are listed too.
ListAll(u) == Listing(u)

ListExpired(u) == upload[u] # None /\ upload[u].expires < now /\ Listing(u)

SweepFinal(u) ==
  /\ sweep[u] = "final"
  /\ final' = final \ {u}
  /\ sweep' = [sweep EXCEPT ![u] = "staging"]
  /\ UNCHANGED <<now, chats, run, upload, artifact, staged, turn, overtaken, deleted, faults>>

SweepStaging(u) ==
  /\ sweep[u] = "staging"
  /\ staged' = staged \ {u}
  /\ sweep' = [sweep EXCEPT ![u] = "row"]
  /\ UNCHANGED <<now, chats, run, upload, artifact, final, turn, overtaken, deleted, faults>>

\* Mutant: rows that failed are left alone.
AbandonUnderWay(u) ==
  /\ sweep[u] = "row" /\ ~Locked(u)
  /\ upload' = IF Is(u, {"staged", "finalizing"}) THEN [upload EXCEPT ![u].state = "abandoned"]
                                                  ELSE upload
  /\ sweep' = [sweep EXCEPT ![u] = "no"]
  /\ UNCHANGED <<now, chats, run, artifact, staged, final, turn, overtaken, deleted, faults>>

Abandon(u) ==
  /\ sweep[u] = "row" /\ ~Locked(u)
  /\ upload' = IF Is(u, Sweepable) THEN [upload EXCEPT ![u].state = "abandoned"] ELSE upload
  /\ sweep' = [sweep EXCEPT ![u] = "no"]
  /\ UNCHANGED <<now, chats, run, artifact, staged, final, turn, overtaken, deleted, faults>>

SweepFails(u) ==
  /\ sweep[u] # "no" /\ faults < MaxFaults
  /\ sweep' = [sweep EXCEPT ![u] = "no"] /\ faults' = faults + 1
  /\ UNCHANGED <<now, chats, run, files, turn, overtaken, deleted>>

(***************************************************************************)
(* A replica of Control stops, and time passes                              *)
(***************************************************************************)

Crash(lost) ==
  /\ faults < MaxFaults /\ lost # {} /\ \A t \in lost : ~At(t, "idle") /\ ~At(t, "done")
  /\ turn' = [t \in Turns |-> IF t \in lost THEN Over ELSE turn[t]]
  /\ faults' = faults + 1
  /\ UNCHANGED <<now, chats, run, files, sweep, overtaken, deleted>>

Tick ==
  /\ now < MaxTime + TTL
  /\ now' = now + 1
  /\ UNCHANGED <<chats, run, files, turn, sweep, overtaken, deleted, faults>>

Ingest(t) ==
  Place(t) \/ Stage(t) \/ InsertRow(t) \/ Prepare(t) \/ Promote(t) \/ CopyObject(t)
    \/ DropStaged(t) \/ Clock(t) \/ LockStaged(t) \/ Commit(t) \/ ReadBack(t) \/ UndoRow(t) \/ UndoBytes(t)

TurnStep(t) ==
  \/ \E by \in Handlers, c \in Conversations, u \in Uploads \cup {None} : Send(t, by, c, u)
  \/ WriteMessage(t) \/ BindFiles(t) \/ TurnStart(t) \/ BeginRun(t) \/ FinishRun(t)
  \/ \E u \in Uploads \cup {None} : AgentEvent(t, u)
  \/ \E state \in Ending : TurnFinish(t, state)
  \/ StepFails(t)

Sweep(u) == ListExpired(u) \/ SweepFinal(u) \/ SweepStaging(u) \/ Abandon(u)

Next ==
  \/ \E t \in Turns : Ingest(t) \/ TurnStep(t)
  \/ \E c \in Conversations, w \in Workspaces : CreateConversation(c, w)
  \/ \E c, d \in Conversations, w \in Workspaces : \E k \in DOMAIN messages[c] : Fork(c, k, d, w)
  \/ \E w \in Workspaces : Tombstone(w)
  \/ \E u \in Uploads : Sweep(u) \/ SweepFails(u)
  \/ \E lost \in SUBSET Turns : Crash(lost)
  \/ Tick

Spec == Init /\ [][Next]_vars

Resolve(t) == Commit(t) \/ (At(t, "committing") /\ StepFails(t))

\* The timer of the cleanup comes back every minute and storage recovers. A transaction that
\* was begun is committed or rolled back.
FairSpec ==
  /\ Spec /\ WF_vars(Tick)
  /\ \A u \in Uploads : WF_vars(Sweep(u))
  /\ \A t \in Turns : WF_vars(Resolve(t))

(***************************************************************************)
(* Properties                                                               *)
(***************************************************************************)

MessageType == [turn : Turns, role : {"user", "assistant"}, files : SUBSET Uploads,
                state : Ending \cup {"streaming"}]
Pc == {"idle", "place", "stage", "row", "prepare", "promote", "drop", "commit", "lock",
       "committing", "read", "undo row", "undo bytes", "write", "bind", "stream", "begin", "finish", "done"}
TurnType ==
  [pc : Pc, by : Handlers \cup {None}, conversation : Conversations \cup {None},
   role : {"user", "assistant"}, files : SUBSET Uploads, upload : Uploads \cup {None},
   holds : {"nothing", "staging", "final"}, state : Ending \cup {"streaming"},
   event : {"none", "some", "finish"}]

\* Types. A message is in a conversation at most once.
TypeOK ==
  /\ now \in Times
  /\ conversation \in [Conversations -> ConversationRow \cup {None}]
  /\ messages \in [Conversations -> Seq(MessageType)]
  /\ \A c \in Conversations : \A i, j \in DOMAIN messages[c] :
       Of(messages[c][i].turn, messages[c][i].role, messages[c][j]) => i = j
  /\ bindings \subseteq [conversation : Conversations, turn : Turns, role : {"user", "assistant"},
                          file : Uploads]
  /\ run \in [Turns -> RunRow \cup {None}]
  /\ upload \in [Uploads -> UploadRow \cup {None}]
  /\ artifact \in [Uploads -> {"none", "available", "staged_delete"}]
  /\ staged \subseteq Uploads /\ final \subseteq Uploads
  /\ turn \in [Turns -> TurnType]
  /\ sweep \in [Uploads -> {"no", "final", "staging", "row"}]
  /\ overtaken \subseteq Uploads
  /\ deleted \subseteq Workspaces
  /\ faults \in 0..MaxFaults

Referenced(c) == UNION {messages[c][i].files : i \in DOMAIN messages[c]}

Shown(u) ==
  \E c \in Conversations :
    Live(c) /\ u \in Referenced(c) /\ (upload[u] # None => Live(upload[u].conversation))

\* A file that a message shows can be read, as long as its own conversation is there: its
\* record is available, and neither a late or repeated cleanup nor an error after the commit
\* takes the bytes away. The exception is a file that a cleanup listed between the moment whose
\* time commitArtifact compares with the deadline and the end of its transaction.
ReferencesReadable ==
  \A u \in Uploads : Shown(u) =>
    artifact[u] = "available" /\ (u \in final \/ u \in overtaken)

\* The same without the exception: reconciliation deletes final bytes only of uploads that it
\* then marks abandoned (ADR 0007, line 29), so no shown file loses them.
ShownFilesKeepBytes == \A u \in Uploads : Shown(u) => u \in final

\* Whatever stops an ingestion, each object at a final place has its place recorded, so that
\* reconciliation can find it (prepareArtifactFinalization; ADR 0007, line 29).
FinalObjectsNamed == \A u \in final : upload[u] # None /\ upload[u].named

HasEnded(t) == run[t] # None /\ run[t].status \in Ending
Answers(t) ==
  LET log == messages[run[t].conversation]
  IN  {log[i] : i \in {j \in DOMAIN log : Of(t, "assistant", log[j])}}

MessageSaysSo(t) == HasEnded(t) => \A m \in Answers(t) : m.state = run[t].status

\* A turn ends once, and its run and its message say the same: the two are written apart and
\* either write may fail, but errors after the end do not change what was recorded of it
\* (finishRun, and the test of the last event in the recovery of execute).
TurnsEndOnce ==
  [][\A t \in Turns :
       /\ HasEnded(t) => run'[t] = run[t] /\ Answers(t)' = Answers(t)
       /\ MessageSaysSo(t)']_vars

\* An upload is committed or cleaned up in the end, whatever stopped it (cleanupExpiredStaging).
UploadsSettle ==
  \A u \in Uploads : Is(u, Sweepable) ~> Is(u, {"committed", "abandoned"})
=============================================================================
