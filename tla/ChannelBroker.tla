--------------------------- MODULE ChannelBroker ---------------------------
(***************************************************************************)
(* Messages that members send to a Telegram bot: the broker fetches them,   *)
(* has Control run a turn for each, and delivers what the agent answered    *)
(* (apps/channel-broker/src/broker.ts, the channel routes of                *)
(* apps/control-api/src/server.ts, the channel tables of                    *)
(* packages/workspace-store/src/index.ts). One connection, one bot.         *)
(*                                                                          *)
(* A statement, a call of Telegram or a step of Control is one action. Any  *)
(* call of the broker may fail, before or after it took effect.             *)
(***************************************************************************)
EXTENDS Integers, FiniteSets

CONSTANTS
  MaxUpdates,   \* bound: messages sent to the bot
  MaxTexts,     \* an answer has at most this many pieces of text ...
  MaxFiles,     \* ... and this many files
  MaxSettings,  \* bound: requests of the owner when nothing fails ...
  FewSettings,  \* ... and when something does
  MaxFaults,    \* bound: calls that fail and restarts of the broker
  None

ASSUME BrokerAssumption ==
  /\ MaxUpdates \in Nat /\ MaxTexts \in Nat /\ MaxFiles \in Nat
  /\ MaxSettings \in Nat /\ FewSettings \in 0..MaxSettings /\ MaxFaults \in Nat
  /\ None \notin Nat /\ None \notin [id : Nat, version : Nat, offset : Nat]

VARIABLES
  arrived,     \* Telegram: messages so far; they are numbered 1, 2, ...
  forgotten,   \* Telegram: those below are not returned again
  connection,  \* channel_connections and the version of its credential; or None
  row,         \* channel_updates of the connection
  poll,        \* pollOnce
  request,     \* turns the broker asked of Control
  turns,       \* history: turns started for each message
  shown,       \* history: what the member saw
  setting,     \* the request of the owner under way
  backlog,     \* history: messages up to here were sent before the bot was attached
  risked,      \* history: Telegram forgot messages up to here before the broker recorded them
  settings, faults \* requests and faults so far

telegram == <<arrived, forgotten, risked>>
owner == <<setting, settings, backlog>>
vars == <<telegram, connection, row, poll, request, turns, shown, owner, faults>>

Updates == 1..MaxUpdates
Final == {"delivered", "rejected", "failed"}
Larger(a, b) == IF a > b THEN a ELSE b

Idle == [pc |-> "idle", id |-> 0, version |-> 0, offset |-> 0, at |-> 0, to |-> 0, last |-> 0,
         next |-> 0, first |-> 0, fresh |-> {}, then |-> "fetch", pending |-> {},
         answer |-> None, streamed |-> FALSE, state |-> "delivered"]
NoRequest == [state |-> "none", id |-> 0, answer |-> None]

Init ==
  /\ arrived = 0 /\ forgotten = 1
  /\ connection = None
  /\ row = [u \in Updates |-> None]
  /\ poll = Idle
  /\ request = [u \in Updates |-> NoRequest]
  /\ turns = [u \in Updates |-> 0]
  /\ shown = {}
  /\ setting = [op |-> "none", offset |-> 0]
  /\ settings = 0 /\ faults = 0 /\ backlog = 0 /\ risked = 0

\* The connection the poll works for is there: the statements name it.
Ours == connection # None /\ connection.id = poll.id
Open(u) == row[u] # None /\ row[u].state \in {"reserved", "dispatched"}
Staged(u) == row[u] # None /\ row[u].state = "dispatched" /\ row[u].response # None

Response(kind, texts, files, final) ==
  [kind |-> kind, texts |-> texts, files |-> files, text |-> 0, file |-> 0, final |-> final]

(***************************************************************************)
(* Where the poll goes on when a call throws.                               *)
(***************************************************************************)
At(pc) == [poll EXCEPT !.pc = pc]

Troubled == faults < MaxFaults /\ settings <= FewSettings /\ faults' = faults + 1

Excused == {"turn", "session", "stage", "rest"}
Raised ==
  CASE poll.pc \in Excused -> At("excuse")
    [] poll.pc \in {"list", "deliver", "mark"} /\ poll.then = "advance" ->
         [At("advance") EXCEPT !.pending = {}]
    [] OTHER -> Idle

\* The call took effect; its caller may see it fail all the same.
Goes(p) ==
  \/ poll' = p /\ UNCHANGED faults
  \/ Troubled /\ poll' = Raised

\* The call fails without effect.
Fails ==
  /\ poll.pc \notin {"idle", "group", "turn"} /\ Troubled
  /\ poll' = Raised
  /\ UNCHANGED <<telegram, connection, row, request, turns, shown, owner>>

(***************************************************************************)
(* Delivery of staged responses: at the start of a poll, and after a turn.  *)
(***************************************************************************)
\* Mutant: a poll only fetches.
StartedFetching == [Idle EXCEPT !.pc = "fetch", !.id = connection.id,
                                !.version = connection.version, !.offset = connection.offset]
Started == [Idle EXCEPT !.pc = "list", !.id = connection.id, !.version = connection.version,
                        !.offset = connection.offset]

Poll ==
  /\ poll.pc = "idle" /\ connection # None
  /\ Goes(Started)
  /\ UNCHANGED <<telegram, connection, row, request, turns, shown, owner>>

ListPending ==
  /\ poll.pc = "list"
  /\ Goes([At("deliver") EXCEPT !.pending =
             IF Ours THEN {[update |-> u, response |-> row[u].response] :
                             u \in {v \in Updates : Staged(v)}} ELSE {}])
  /\ UNCHANGED <<telegram, connection, row, request, turns, shown, owner>>

Delivered(r) == r.text = r.texts /\ r.file = r.files
IsNext(p) == \A q \in poll.pending : p.update <= q.update

\* Texts first, then files, each sent and then counted.
Send(p) ==
  LET r == p.response
      piece == IF r.text < r.texts THEN <<"text", r.text + 1>> ELSE <<"file", r.file + 1>>
  IN /\ poll.pc = "deliver" /\ p \in poll.pending /\ IsNext(p)
     /\ shown' = shown \cup {<<p.update, r.kind, piece>>}
     /\ Goes(At("mark"))
     /\ UNCHANGED <<telegram, connection, row, request, turns, owner>>

\* Mutant: one offset for texts and files.
CountedTogether(r) == [r EXCEPT !.text = @ + 1]
Counted(r) == IF r.text < r.texts THEN [r EXCEPT !.text = @ + 1] ELSE [r EXCEPT !.file = @ + 1]
\* Mutant: the last text makes it final.
MarkedByText(u, r) ==
  [row[u] EXCEPT !.response = r, !.state = IF r.text = r.texts THEN r.final ELSE @]
\* The row after offset r was written; the last piece makes it final.
Marked(u, r) ==
  [row[u] EXCEPT !.response = r, !.state = IF Delivered(r) THEN r.final ELSE @]

Mark(p) ==
  LET r == Counted(p.response)
  IN /\ poll.pc = "mark" /\ p \in poll.pending /\ IsNext(p)
     /\ row' = IF Ours /\ Staged(p.update) THEN [row EXCEPT ![p.update] = Marked(p.update, r)]
               ELSE row
     /\ Goes([At("deliver") EXCEPT !.pending =
                (@ \ {p}) \cup IF Delivered(r) THEN {} ELSE {[p EXCEPT !.response = r]}])
     /\ UNCHANGED <<telegram, connection, request, turns, shown, owner>>

DeliveryEnds ==
  /\ poll.pc = "deliver" /\ poll.pending = {}
  /\ poll' = At(poll.then)
  /\ UNCHANGED <<telegram, connection, row, request, turns, shown, owner, faults>>

(***************************************************************************)
(* Fetching. A call of getUpdates makes Telegram forget what is below its   *)
(* offset.                                                                  *)
(***************************************************************************)
GetUpdates(offset, p) ==
  /\ forgotten' = Larger(forgotten, offset)
  /\ Goes(p)
  /\ UNCHANGED <<arrived, connection, row, request, turns, shown, owner>>

Fetch ==
  /\ poll.pc = "fetch" /\ UNCHANGED risked
  /\ GetUpdates(poll.offset, [At("check") EXCEPT !.at = Larger(forgotten, poll.offset),
                                                 !.to = arrived])

\* The composition window: a second look for what belongs to the first.
Compose ==
  /\ poll.pc = "check" /\ poll.at <= poll.to
  /\ risked' = Larger(risked, poll.to)
  /\ GetUpdates(poll.to + 1, [At("recheck") EXCEPT !.to = arrived])

Recheck ==
  /\ poll.pc \in {"check", "recheck"}
  /\ Goes(IF Ours /\ connection.version = poll.version
          THEN [At("group") EXCEPT !.version = 0, !.offset = 0] ELSE Idle)
  /\ UNCHANGED <<telegram, connection, row, request, turns, shown, owner>>

\* Consecutive messages of one sender that belong together make one turn.
Group ==
  /\ poll.pc = "group"
  /\ IF poll.at > poll.to THEN poll' = Idle
     ELSE \E last \in poll.at..poll.to :
            poll' = [At("reserve") EXCEPT !.last = last, !.next = poll.at, !.fresh = {},
                                          !.first = 0]
  /\ UNCHANGED <<telegram, connection, row, request, turns, shown, owner, faults>>

(***************************************************************************)
(* processUpdates                                                           *)
(***************************************************************************)
NewRow == [state |-> "reserved", response |-> None]
\* Mutant: ON CONFLICT DO UPDATE.
Upserted(u) == [row |-> NewRow, fresh |-> TRUE]
Reserved(u) == IF row[u] = None THEN [row |-> NewRow, fresh |-> TRUE]
               ELSE [row |-> row[u], fresh |-> FALSE]

Reserve ==
  LET u == poll.next
  IN /\ poll.pc = "reserve" /\ u <= poll.last /\ Ours
     /\ row' = [row EXCEPT ![u] = Reserved(u).row]
     /\ Goes([poll EXCEPT !.next = u + 1,
                          !.fresh = IF Reserved(u).fresh THEN @ \cup {u} ELSE @,
                          !.first = IF Reserved(u).fresh /\ poll.fresh = {} THEN u ELSE @])
     /\ UNCHANGED <<telegram, connection, request, turns, shown, owner>>

\* The connection was removed: the foreign key refuses the row.
ReserveRefused ==
  /\ poll.pc = "reserve" /\ poll.next <= poll.last /\ ~Ours
  /\ poll' = Idle
  /\ UNCHANGED <<telegram, connection, row, request, turns, shown, owner, faults>>

\* Known messages are passed over; a new one is refused (sender, chat, shape or
\* attachment), a command to be answered at once, or a message for the agent.
Sort ==
  /\ poll.pc = "reserve" /\ poll.next > poll.last
  /\ IF poll.fresh = {} THEN poll' = At("advance")
     ELSE \/ poll' = [At("close") EXCEPT !.state = "rejected"]
          \/ poll' = At("reply")
          \/ poll' = At("ask")
  /\ UNCHANGED <<telegram, connection, row, request, turns, shown, owner, faults>>

\* /chatid, /agent, /new and the buttons; where an agent is not to be had, say so.
Reply ==
  /\ poll.pc = "reply"
  /\ \E state \in {"delivered", "rejected"} : Goes([At("close") EXCEPT !.state = state])
  /\ UNCHANGED <<telegram, connection, row, request, turns, shown, owner>>

Finished(S, state) ==
  [u \in Updates |-> IF Ours /\ u \in S /\ Open(u) THEN [row[u] EXCEPT !.state = state] ELSE row[u]]

\* finishUpdates: one statement for each message, all at once; some may fail.
FinishUpdates(S, state, p) ==
  /\ \/ row' = Finished(S, state) /\ Goes(p)
     \/ /\ Troubled /\ poll' = Raised
        /\ \E T \in SUBSET S : row' = Finished(T, state)
  /\ UNCHANGED <<telegram, connection, request, turns, shown, owner>>

Close ==
  /\ poll.pc = "close"
  /\ FinishUpdates(poll.fresh, poll.state, At("advance"))

Ask ==
  /\ poll.pc = "ask"
  /\ request' = [request EXCEPT ![poll.first] = [state |-> "sent", id |-> poll.id, answer |-> None]]
  /\ poll' = [At("turn") EXCEPT !.answer = None, !.streamed = FALSE]
  /\ UNCHANGED <<telegram, connection, row, turns, shown, owner, faults>>

\* A preview of the first text while the turn runs; the broker counts it only
\* when Telegram's answer arrives.
Stream ==
  /\ poll.pc = "turn" /\ request[poll.first].state = "running" /\ MaxTexts > 0
  /\ shown' = shown \cup {<<poll.first, "preview", <<"text", 1>>>>}
  /\ \E seen \in BOOLEAN : poll' = [poll EXCEPT !.streamed = @ \/ seen]
  /\ UNCHANGED <<telegram, connection, row, request, turns, owner, faults>>

Answered ==
  /\ poll.pc = "turn" /\ request[poll.first].state = "answered"
  /\ poll' = [At("session") EXCEPT !.answer = request[poll.first].answer]
  /\ UNCHANGED <<telegram, connection, row, request, turns, shown, owner, faults>>

\* Control refused or failed, its stream broke, or the time for the turn ran out.
TurnFails ==
  /\ poll.pc = "turn"
  /\ poll' = At("excuse")
  /\ UNCHANGED <<telegram, connection, row, request, turns, shown, owner, faults>>

\* The session is saved; what was streamed is not delivered again.
Remaining(a) == IF poll.streamed THEN a.texts - 1 ELSE a.texts
SaveSession ==
  /\ poll.pc = "session"
  /\ Goes(IF Remaining(poll.answer) + poll.answer.files > 0 THEN At("stage") ELSE At("rest"))
  /\ UNCHANGED <<telegram, connection, row, request, turns, shown, owner>>

StageResponse(response, p) ==
  /\ row' = IF Ours /\ Open(poll.first)
            THEN [row EXCEPT ![poll.first] = [state |-> "dispatched", response |-> response]]
            ELSE row
  /\ Goes(p)
  /\ UNCHANGED <<telegram, connection, request, turns, shown, owner>>

\* Texts that were streamed are before the first piece of the response.
AnswerResponse(a) ==
  [Response("answer", a.texts, a.files, "delivered") EXCEPT !.text = a.texts - Remaining(a)]

Stage ==
  /\ poll.pc = "stage"
  /\ StageResponse(AnswerResponse(poll.answer), [At("rest") EXCEPT !.fresh = @ \ {poll.first}])

\* The other messages of the group, or all of them when nothing is left to deliver.
Rest ==
  /\ poll.pc = "rest"
  /\ FinishUpdates(poll.fresh, "delivered",
       IF poll.first \in poll.fresh THEN At("advance")
       ELSE [At("list") EXCEPT !.then = "advance"])

Excuse ==
  /\ poll.pc = "excuse"
  /\ StageResponse(Response("failure", 1, 0, "failed"),
                   [At("excused") EXCEPT !.fresh = @ \ {poll.first}])

ExcuseRest ==
  /\ poll.pc = "excused"
  /\ FinishUpdates(poll.fresh, "failed", [At("list") EXCEPT !.then = "advance"])

\* Mutant: everything fetched counts as handled after the first group.
AdvancedByFetch == Larger(connection.offset, poll.to + 1)
Advanced == Larger(connection.offset, poll.last + 1)
Advance ==
  /\ poll.pc = "advance"
  /\ connection' = IF Ours THEN [connection EXCEPT !.offset = Advanced] ELSE connection
  /\ Goes([Idle EXCEPT !.pc = "group", !.id = poll.id, !.at = poll.last + 1, !.to = poll.to])
  /\ UNCHANGED <<telegram, row, request, turns, shown, owner>>

(***************************************************************************)
(* Control. A request goes on when the broker no longer waits for it.       *)
(***************************************************************************)
\* Whether the turn completed or not only changes the name of the final state.
Answers == {a \in [texts : 0..MaxTexts, files : 0..MaxFiles] : a.texts + a.files > 0}

Verify(u) ==
  /\ request[u].state = "sent"
  /\ \E state \in {"verified", "refused"} :
       /\ state = "verified" => connection # None /\ connection.id = request[u].id
       /\ request' = [request EXCEPT ![u].state = state]
  /\ UNCHANGED <<telegram, connection, row, poll, turns, shown, owner, faults>>

CanClaim(u) == /\ connection # None /\ connection.id = request[u].id
               /\ row[u] # None /\ row[u].state = "reserved"
Claim(u) ==
  /\ request[u].state = "verified"
  /\ IF CanClaim(u)
     THEN /\ row' = [row EXCEPT ![u].state = "dispatched"]
          /\ turns' = [turns EXCEPT ![u] = @ + 1]
          /\ request' = [request EXCEPT ![u].state = "running"]
     ELSE /\ request' = [request EXCEPT ![u].state = "refused"]
          /\ UNCHANGED <<row, turns>>
  /\ UNCHANGED <<telegram, connection, poll, shown, owner, faults>>

Previewed(u) == <<u, "preview", <<"text", 1>>>> \in shown
\* The answer begins with what was streamed; where there is none, a line says so.
TurnEnds(u) ==
  /\ request[u].state = "running"
  /\ \/ request' = [request EXCEPT ![u].state = "refused"]
     \/ \E a \in Answers :
          /\ Previewed(u) => a.texts > 0
          /\ request' = [request EXCEPT ![u].state = "answered", ![u].answer = a]
  /\ UNCHANGED <<telegram, connection, row, poll, turns, shown, owner, faults>>

(***************************************************************************)
(* The owner's requests, one at a time; and the world.                      *)
(***************************************************************************)
CanAsk ==
  /\ setting.op = "none"
  /\ settings < IF faults = 0 THEN MaxSettings ELSE FewSettings

Begins(op, offset) ==
  /\ CanAsk
  /\ settings' = settings + 1
  /\ setting' = [op |-> op, offset |-> offset]

\* The offset behind the latest message Telegram still has; it forgets the others.
BehindBacklog == IF arrived >= forgotten /\ arrived > 0 THEN arrived + 1 ELSE 0
SkipBacklog ==
  /\ forgotten' = Larger(forgotten, arrived)
  /\ backlog' = arrived /\ UNCHANGED <<arrived, risked>>

\* saveConnection for a workspace without one.
Connect ==
  /\ connection = None
  /\ Begins("connect", BehindBacklog) /\ SkipBacklog
  /\ UNCHANGED <<connection, row, poll, request, turns, shown, faults>>

\* saveConnection with the same credential keeps the offset it read.
Edit ==
  /\ connection # None
  /\ Begins("edit", connection.offset)
  /\ UNCHANGED <<telegram, connection, row, poll, request, turns, shown, backlog, faults>>

\* saveCredential: a new token of the same bot, then the backlog is skipped.
Rotate ==
  /\ connection # None
  /\ Begins("rotate", 0)
  /\ connection' = [connection EXCEPT !.version = @ + 1]
  /\ backlog' = arrived
  /\ UNCHANGED <<telegram, row, poll, request, turns, shown, faults>>

RotateBacklog ==
  /\ setting.op = "rotate"
  /\ setting' = [op |-> "edit", offset |-> BehindBacklog] /\ SkipBacklog
  /\ UNCHANGED <<connection, row, poll, request, turns, shown, settings, faults>>

Save ==
  /\ setting.op \in {"connect", "edit"}
  /\ connection' = IF setting.op = "edit" THEN [connection EXCEPT !.offset = setting.offset]
                   ELSE [id |-> settings, version |-> 1, offset |-> setting.offset]
  /\ setting' = [op |-> "none", offset |-> 0]
  /\ UNCHANGED <<telegram, row, poll, request, turns, shown, settings, backlog, faults>>

\* disconnect, or the deletion of the credential or the workspace: rows go along.
Disconnect ==
  /\ connection # None
  /\ CanAsk
  /\ settings' = settings + 1
  /\ connection' = None
  /\ row' = [u \in Updates |-> None]
  /\ UNCHANGED <<telegram, poll, request, turns, shown, setting, backlog, faults>>

Arrive ==
  /\ arrived < MaxUpdates
  /\ arrived' = arrived + 1
  /\ UNCHANGED <<forgotten, risked, connection, row, poll, request, turns, shown, owner, faults>>

\* The broker restarts. A request of the owner that was under way is lost, too.
Restart ==
  /\ Troubled
  /\ poll.pc # "idle" \/ setting.op # "none"
  /\ poll' = Idle
  /\ setting' = [op |-> "none", offset |-> 0]
  /\ UNCHANGED <<telegram, connection, row, request, turns, shown, settings, backlog>>

Broker ==
  \/ Poll \/ ListPending \/ (\E p \in poll.pending : Send(p) \/ Mark(p)) \/ DeliveryEnds
  \/ Fetch \/ Compose \/ Recheck \/ Group \/ Reserve \/ ReserveRefused \/ Sort \/ Reply \/ Close
  \/ Ask \/ Stream \/ Answered \/ TurnFails \/ SaveSession \/ Stage \/ Rest
  \/ Excuse \/ ExcuseRest \/ Advance
Control == \E u \in Updates : Verify(u) \/ Claim(u) \/ TurnEnds(u)
Owner == Connect \/ Edit \/ Rotate \/ RotateBacklog \/ Save \/ Disconnect

Next == Broker \/ Control \/ Owner \/ Fails \/ Arrive \/ Restart
Spec == Init /\ [][Next]_vars

(***************************************************************************)
(* The poll timer goes on; Telegram and the database fail a bounded number  *)
(* of times; a turn ends or its time runs out.                              *)
(***************************************************************************)
Fairness == WF_vars(Broker)
FairSpec == Spec /\ Fairness

Pieces(texts, files) ==
  {<<"text", i>> : i \in 1..texts} \cup {<<"file", i>> : i \in 1..files}
Responses ==
  [kind : {"answer", "failure"}, texts : 0..Larger(MaxTexts, 1), files : 0..MaxFiles,
   text : 0..Larger(MaxTexts, 1), file : 0..MaxFiles, final : {"delivered", "failed"}]
Rows == [state : {"reserved", "dispatched"} \cup Final, response : Responses \cup {None}]
ASSUME NoneAssumption == None \notin Rows \cup Responses \cup Answers

\* Type invariant: a response is never counted beyond what it has.
TypeOK ==
  /\ arrived \in 0..MaxUpdates /\ forgotten \in 0..(MaxUpdates + 1)
  /\ connection \in [id : 1..MaxSettings, version : 1..(MaxSettings + 1),
                     offset : 0..(MaxUpdates + 1)] \cup {None}
  /\ row \in [Updates -> Rows \cup {None}]
  /\ \A u \in Updates : row[u] # None /\ row[u].response # None =>
       row[u].response.text <= row[u].response.texts /\ row[u].response.file <= row[u].response.files
  /\ request \in [Updates ->
       [state : {"none", "sent", "verified", "running", "answered", "refused"},
        id : 0..MaxSettings, answer : Answers \cup {None}]]
  /\ setting.op \in {"none", "connect", "edit", "rotate"} /\ settings \in 0..MaxSettings
  /\ poll.first \in 0..MaxUpdates /\ poll.fresh \subseteq poll.first..MaxUpdates
  /\ poll.pending \subseteq [update : Updates, response : Responses]
  /\ faults \in 0..MaxFaults /\ {backlog, risked} \subseteq 0..MaxUpdates

\* However often a message is fetched, whatever fails and whoever restarts or reconnects:
\* the agent is asked once; and not after the member was told that the task failed, when
\* the request reaches Control late (reserveChannelUpdate, claimChannelUpdate).
OneTurnPerMessage ==
  [][\A u \in Updates : turns'[u] > turns[u] => turns[u] = 0 /\ row[u].response = None]_vars

Seen(u, kind, piece) ==
  \/ <<u, kind, piece>> \in shown
  \/ kind = "answer" /\ <<u, "preview", piece>> \in shown
SeenAll(u, kind, r) == \A piece \in Pieces(r.texts, r.files) : Seen(u, kind, piece)

FinalMeansShown(u) ==
  row[u] # None /\ row[u].state \in {"delivered", "failed"} =>
    /\ row[u].response # None => SeenAll(u, row[u].response.kind, row[u].response)
    /\ row[u].response = None /\ request[u].state = "answered" =>
         SeenAll(u, "answer", request[u].answer)

OneKindOfAnswer(u) ==
  \A p \in Pieces(MaxTexts, MaxFiles) :
    ~(<<u, "answer", p>> \in shown /\ <<u, "failure", <<"text", 1>>>> \in shown)

\* A message is only marked delivered or failed when the member has seen every piece of
\* the response, whatever was streamed, sent twice or interrupted; and a member who got a
\* piece of the answer is not told that the task failed, nor the other way round
\* (deliverPendingResponse; responseStaged in processUpdates).
AnswersAreWhole == \A u \in Updates : FinalMeansShown(u) /\ OneKindOfAnswer(u)

\* The stored offset, and what Telegram was told, only leave behind messages that have
\* a row, were there before the bot, or were confirmed early by the composition window.
NothingSkipped ==
  \A u \in 1..arrived :
    connection # None /\ row[u] = None /\ u > backlog /\ u < Larger(connection.offset, forgotten)
      => u <= risked

Waiting(u) ==
  \/ Staged(u)
  \/ row[u] = None /\ connection # None /\ backlog < u /\ u <= arrived /\ risked < u

\* Whatever fails and interrupts: a message that was sent is recorded (unless it was
\* confirmed early), and a response that was staged is delivered (or the bot disconnected).
MessagesAreServed == \A u \in Updates : Waiting(u) ~> ~Waiting(u)
=============================================================================
