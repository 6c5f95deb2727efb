------------------------ MODULE ChannelBrokerProofs ------------------------
(***************************************************************************)
(* Theorems about ChannelBroker, for all numbers of messages, pieces,       *)
(* requests of the owner and faults: types, that the agent is asked once    *)
(* for a message, that no message is skipped, and that answers are          *)
(* delivered whole.                                                         *)
(***************************************************************************)
EXTENDS ChannelBroker, TLAPS

(***************************************************************************)
(* How the poll moves                                                       *)
(***************************************************************************)

Sync == {"list", "deliver", "mark"}
Sorting == {"reserve", "close", "reply", "ask"}
Asking == {"turn", "session", "stage", "rest", "excuse"}
Places == Sync \cup Sorting \cup Asking \cup
          {"idle", "fetch", "check", "recheck", "group", "excused", "advance"}
Pending == [update : Updates, response : Responses]

PollType ==
  [pc : Places, id : Nat, version : Nat, offset : Nat, at : Nat, to : Nat, last : Nat, next : Nat, first : Nat,
   fresh : SUBSET Updates, then : {"fetch", "advance"}, pending : SUBSET Pending,
   answer : Answers \cup {None}, streamed : BOOLEAN, state : {"delivered", "rejected"}]

\* Where the poll began, what it fetched, and the group of messages it is at
Like(q, p) ==
  /\ q.id = p.id /\ q.offset = p.offset /\ q.at = p.at /\ q.to = p.to
  /\ q.last = p.last /\ q.next = p.next /\ q.first = p.first

\* The poll q differs from p in its place and in what is listed.
Turned(q, p, pc, fresh, then, pending, answer, streamed) ==
  /\ q \in PollType /\ Like(q, p) /\ q.pc = pc /\ q.fresh = fresh /\ q.then = then
  /\ q.pending = pending /\ q.answer = answer /\ q.streamed = streamed

LEMMA Turning ==
    ASSUME NEW p \in PollType, NEW pc \in Places
    PROVE  /\ Turned([p EXCEPT !.pc = pc], p, pc, p.fresh, p.then, p.pending, p.answer, p.streamed)
           /\ \A fresh \in SUBSET Updates :
                Turned([p EXCEPT !.pc = pc, !.fresh = fresh], p, pc, fresh, p.then, p.pending, p.answer, p.streamed)
           /\ \A then \in {"fetch", "advance"} :
                Turned([p EXCEPT !.pc = pc, !.then = then], p, pc, p.fresh, then, p.pending, p.answer, p.streamed)
           /\ \A pending \in SUBSET Pending :
                Turned([p EXCEPT !.pc = pc, !.pending = pending], p, pc, p.fresh, p.then, pending, p.answer, p.streamed)
           /\ \A answer \in Answers \cup {None} :
                Turned([p EXCEPT !.pc = pc, !.answer = answer], p, pc, p.fresh, p.then, p.pending, answer, p.streamed)
           /\ \A answer \in Answers \cup {None}, streamed \in BOOLEAN :
                Turned([p EXCEPT !.pc = pc, !.answer = answer, !.streamed = streamed],
                       p, pc, p.fresh, p.then, p.pending, answer, streamed)
           /\ \A state \in {"delivered", "rejected"} :
                Turned([p EXCEPT !.pc = pc, !.state = state], p, pc, p.fresh, p.then, p.pending, p.answer, p.streamed)
           /\ \A streamed \in BOOLEAN :
                Turned([p EXCEPT !.streamed = streamed], p, p.pc, p.fresh, p.then, p.pending, p.answer, streamed)
<1>1. Turned([p EXCEPT !.pc = pc], p, pc, p.fresh, p.then, p.pending, p.answer, p.streamed)
  BY DEF PollType, Turned, Like
<1>2. ASSUME NEW fresh \in SUBSET Updates
      PROVE  Turned([p EXCEPT !.pc = pc, !.fresh = fresh], p, pc, fresh, p.then, p.pending, p.answer, p.streamed)
  BY DEF PollType, Turned, Like
<1>3. ASSUME NEW then \in {"fetch", "advance"}
      PROVE  Turned([p EXCEPT !.pc = pc, !.then = then], p, pc, p.fresh, then, p.pending, p.answer, p.streamed)
  BY DEF PollType, Turned, Like
<1>4. ASSUME NEW pending \in SUBSET Pending
      PROVE  Turned([p EXCEPT !.pc = pc, !.pending = pending], p, pc, p.fresh, p.then, pending, p.answer, p.streamed)
  BY DEF PollType, Turned, Like
<1>5. ASSUME NEW answer \in Answers \cup {None}
      PROVE  Turned([p EXCEPT !.pc = pc, !.answer = answer], p, pc, p.fresh, p.then, p.pending, answer, p.streamed)
  BY DEF PollType, Turned, Like
<1>6. ASSUME NEW answer \in Answers \cup {None}, NEW streamed \in BOOLEAN
      PROVE  Turned([p EXCEPT !.pc = pc, !.answer = answer, !.streamed = streamed],
                    p, pc, p.fresh, p.then, p.pending, answer, streamed)
  BY DEF PollType, Turned, Like
<1>7. ASSUME NEW state \in {"delivered", "rejected"}
      PROVE  Turned([p EXCEPT !.pc = pc, !.state = state], p, pc, p.fresh, p.then, p.pending, p.answer, p.streamed)
  BY DEF PollType, Turned, Like
<1>8. ASSUME NEW streamed \in BOOLEAN
      PROVE  Turned([p EXCEPT !.streamed = streamed], p, p.pc, p.fresh, p.then, p.pending, p.answer, streamed)
  BY DEF PollType, Turned, Like
<1> QED
  BY <1>1, <1>2, <1>3, <1>4, <1>5, <1>6, <1>7, <1>8

Moves(pc, fresh, then, pending, answer, streamed) == Turned(poll', poll, pc, fresh, then, pending, answer, streamed)

\* The poll goes to another place and keeps the rest.
Shifts(pc) == Moves(pc, poll.fresh, poll.then, poll.pending, poll.answer, poll.streamed)

\* A call threw: the member is told, the delivery of the rest is left to the next poll, or
\* the poll ends.
Throws ==
  \/ poll.pc \in Excused /\ Shifts("excuse")
  \/ /\ poll.pc \in Sync /\ poll.then = "advance"
     /\ Moves("advance", poll.fresh, poll.then, {}, poll.answer, poll.streamed)
  \/ /\ poll.pc \notin Excused /\ (poll.pc \in Sync => poll.then = "fetch")
     /\ poll' = Idle

LEMMA IdleType == Idle \in PollType
  BY DEF Idle, PollType, Places

LEMMA Throwing ==
    ASSUME poll \in PollType, poll' = Raised
    PROVE  Throws
<1>1. CASE poll.pc \in Excused
  <2>1. poll' = [poll EXCEPT !.pc = "excuse"]
    BY <1>1 DEF Raised, At, Excused
  <2>2. "excuse" \in Places
    BY DEF Places, Asking
  <2>3. Shifts("excuse")
    BY <2>1, <2>2, Turning, Zenon DEF Shifts, Moves
  <2> QED
    BY <1>1, <2>3 DEF Throws
<1>2. CASE poll.pc \in Sync /\ poll.then = "advance"
  <2>1. poll' = [At("advance") EXCEPT !.pending = {}]
    BY <1>2 DEF Raised, Sync, Excused
  <2>2. [At("advance") EXCEPT !.pending = {}] = [poll EXCEPT !.pc = "advance", !.pending = {}]
    BY DEF At
  <2>3. "advance" \in Places /\ {} \in SUBSET Pending
    BY DEF Places
  <2>4. Turned([poll EXCEPT !.pc = "advance", !.pending = {}], poll,
               "advance", poll.fresh, poll.then, {}, poll.answer, poll.streamed)
    BY <2>3, Turning, Zenon
  <2>5. Moves("advance", poll.fresh, poll.then, {}, poll.answer, poll.streamed)
    BY <2>1, <2>2, <2>4, Zenon DEF Moves
  <2> QED
    BY <1>2, <2>5 DEF Throws
<1>3. CASE poll.pc \notin Excused /\ ~(poll.pc \in Sync /\ poll.then = "advance")
  <2>1. poll' = Idle
    BY <1>3 DEF Raised, Sync
  <2>2. poll.then \in {"fetch", "advance"}
    BY DEF PollType
  <2> QED
    BY <1>3, <2>1, <2>2 DEF Throws
<1> QED
  BY <1>1, <1>2, <1>3

(***************************************************************************)
(* Each step of the broker, seen from the poll                              *)
(***************************************************************************)

Whole(r) == r.text <= r.texts /\ r.file <= r.files

\* What is being delivered has something left.
PendingOK == \A p \in poll.pending : Whole(p.response) /\ ~Delivered(p.response)

\* The poll begins.
Starts ==
  /\ poll' \in PollType /\ poll'.pc = "list" /\ poll'.id = connection.id /\ poll'.offset = connection.offset
  /\ poll'.to = 0 /\ poll'.first = 0 /\ poll'.fresh = {} /\ poll'.then = "fetch" /\ poll'.pending = {}

\* It looks at messages.
Looks(pc, offset, at, to) ==
  /\ poll' \in PollType /\ poll'.pc = pc /\ poll'.id = poll.id /\ poll'.offset = offset
  /\ poll'.at = at /\ poll'.to = to /\ poll'.first = poll.first
  /\ poll'.fresh = poll.fresh /\ poll'.then = poll.then /\ poll'.pending = poll.pending

Groups(last) ==
  /\ poll' \in PollType /\ poll'.pc = "reserve" /\ poll'.id = poll.id /\ poll'.offset = poll.offset
  /\ poll'.at = poll.at /\ poll'.to = poll.to /\ poll'.last = last /\ poll'.next = poll.at
  /\ poll'.first = 0 /\ poll'.fresh = {} /\ poll'.then = poll.then /\ poll'.pending = poll.pending

Reserves(fresh, first) ==
  /\ poll' \in PollType /\ poll'.pc = "reserve" /\ poll'.id = poll.id /\ poll'.offset = poll.offset
  /\ poll'.at = poll.at /\ poll'.to = poll.to /\ poll'.last = poll.last /\ poll'.next = poll.next + 1
  /\ poll'.first = first /\ poll'.fresh = fresh /\ poll'.then = poll.then /\ poll'.pending = poll.pending

\* It goes on with the next group.
Advances ==
  /\ poll' \in PollType /\ poll'.pc = "group" /\ poll'.id = poll.id /\ poll'.offset = 0
  /\ poll'.at = poll.last + 1 /\ poll'.to = poll.to /\ poll'.first = 0
  /\ poll'.fresh = {} /\ poll'.then = "fetch" /\ poll'.pending = {}

LEMMA Going ==
    ASSUME poll \in PollType, NEW p, Goes(p)
    PROVE  poll' = p \/ Throws
  BY Throwing DEF Goes

LEMMA CountedType ==
    ASSUME NEW r \in Responses, Whole(r), ~Delivered(r)
    PROVE  /\ Counted(r) \in Responses /\ Whole(Counted(r)) /\ Counted(r).kind = r.kind
           /\ Counted(r).texts = r.texts /\ Counted(r).files = r.files /\ Counted(r).final = r.final
           /\ r.text < r.texts => Counted(r).text = r.text + 1 /\ Counted(r).file = r.file
           /\ ~(r.text < r.texts) => Counted(r).text = r.text /\ Counted(r).file = r.file + 1
<1>0. /\ r.text \in Nat /\ r.texts \in Nat /\ r.file \in Nat /\ r.files \in Nat
      /\ r.texts <= Larger(MaxTexts, 1) /\ r.files <= MaxFiles /\ Larger(MaxTexts, 1) \in Nat /\ MaxFiles \in Nat
  BY BrokerAssumption DEF Responses, Larger
<1>1. ASSUME NEW n \in 0..Larger(MaxTexts, 1)
      PROVE  LET q == [r EXCEPT !.text = n]
             IN  /\ q \in Responses /\ q.text = n /\ q.file = r.file /\ q.texts = r.texts
                 /\ q.files = r.files /\ q.final = r.final /\ q.kind = r.kind
  BY DEF Responses
<1>2. ASSUME NEW n \in 0..MaxFiles
      PROVE  LET q == [r EXCEPT !.file = n]
             IN  /\ q \in Responses /\ q.text = r.text /\ q.file = n /\ q.texts = r.texts
                 /\ q.files = r.files /\ q.final = r.final /\ q.kind = r.kind
  BY DEF Responses
<1>3. CASE r.text < r.texts
  <2>1. Counted(r) = [r EXCEPT !.text = r.text + 1] /\ r.text + 1 \in 0..Larger(MaxTexts, 1)
    BY <1>0, <1>3 DEF Counted
  <2> QED
    BY <1>0, <1>1, <1>3, <2>1 DEF Whole
<1>4. CASE ~(r.text < r.texts)
  <2>1. r.file + 1 <= r.files
    BY <1>0, <1>4 DEF Whole, Delivered
  <2>2. Counted(r) = [r EXCEPT !.file = r.file + 1] /\ r.file + 1 \in 0..MaxFiles
    BY <1>0, <1>4, <2>1 DEF Counted
  <2> QED
    BY <1>0, <1>2, <1>4, <2>1, <2>2 DEF Whole
<1> QED
  BY <1>3, <1>4

Listed == IF Ours THEN {[update |-> u, response |-> row[u].response] : u \in {v \in Updates : Staged(v)}} ELSE {}

Remarked(p) ==
  LET r == Counted(p.response)
  IN  (poll.pending \ {p}) \cup IF Delivered(r) THEN {} ELSE {[p EXCEPT !.response = r]}

\* The delivery of what is staged
LEMMA Delivering ==
    ASSUME poll \in PollType, row \in [Updates -> Rows \cup {None}], PendingOK,
           connection # None => connection.id \in Nat /\ connection.version \in Nat /\ connection.offset \in Nat
    PROVE  /\ Poll => poll.pc = "idle" /\ connection # None /\ (Starts \/ poll' = Idle)
           /\ ListPending => poll.pc = "list" /\
                (Moves("deliver", poll.fresh, poll.then, Listed, poll.answer, poll.streamed) \/ Throws)
           /\ \A p \in poll.pending : Send(p) => poll.pc = "deliver" /\ (Shifts("mark") \/ Throws)
           /\ \A p \in poll.pending : Mark(p) => poll.pc = "mark" /\
                (Moves("deliver", poll.fresh, poll.then, Remarked(p), poll.answer, poll.streamed) \/ Throws)
           /\ DeliveryEnds => poll.pc = "deliver" /\ poll.pending = {} /\ Shifts(poll.then)
<1>0. {"list", "deliver", "mark", "fetch", "advance"} \subseteq Places /\ poll.then \in {"fetch", "advance"}
  BY DEF Places, Sync, PollType
<1>1. ASSUME Poll PROVE poll.pc = "idle" /\ connection # None /\ (Starts \/ poll' = Idle)
  <2>1. poll.pc = "idle" /\ connection # None /\ (poll' = Started \/ Throws)
    BY <1>1, Going DEF Poll
  <2>2. Throws => poll' = Idle
    BY <2>1 DEF Throws, Excused, Sync
  <2>3. ASSUME NEW id \in Nat, NEW version \in Nat, NEW offset \in Nat,
               poll' = [Idle EXCEPT !.pc = "list", !.id = id, !.version = version, !.offset = offset]
        PROVE  /\ poll' \in PollType /\ poll'.pc = "list" /\ poll'.id = id /\ poll'.offset = offset
               /\ poll'.to = 0 /\ poll'.first = 0 /\ poll'.fresh = {} /\ poll'.then = "fetch" /\ poll'.pending = {}
    BY <1>0, <2>3 DEF Idle, PollType
  <2>4. poll' = Started => Starts
    <3>1. connection.id \in Nat /\ connection.version \in Nat /\ connection.offset \in Nat
      BY <2>1
    <3> QED
      BY <2>3, <3>1, Zenon DEF Started, Starts
  <2> QED
    BY <2>1, <2>2, <2>4
<1>2. ASSUME ListPending
      PROVE  poll.pc = "list" /\ (Moves("deliver", poll.fresh, poll.then, Listed, poll.answer, poll.streamed) \/ Throws)
  <2>1. Listed \in SUBSET Pending
    BY DEF Listed, Pending, Staged, Rows
  <2>2. poll.pc = "list" /\ (poll' = [At("deliver") EXCEPT !.pending = Listed] \/ Throws)
    BY <1>2, Going DEF ListPending, Listed
  <2>3. [At("deliver") EXCEPT !.pending = Listed] = [poll EXCEPT !.pc = "deliver", !.pending = Listed]
    BY DEF At
  <2>4. Turned([poll EXCEPT !.pc = "deliver", !.pending = Listed], poll, "deliver", poll.fresh, poll.then, Listed,
               poll.answer, poll.streamed)
    BY <1>0, <2>1, Turning
  <2> QED
    BY <2>2, <2>3, <2>4 DEF Moves
<1>3. ASSUME NEW p \in poll.pending, Send(p) PROVE poll.pc = "deliver" /\ (Shifts("mark") \/ Throws)
  <2>1. poll.pc = "deliver" /\ (poll' = [poll EXCEPT !.pc = "mark"] \/ Throws)
    BY <1>3, Going DEF Send, At
  <2> QED
    BY <1>0, <2>1, Turning DEF Shifts, Moves
<1>4. ASSUME NEW p \in poll.pending, Mark(p)
      PROVE  poll.pc = "mark" /\ (Moves("deliver", poll.fresh, poll.then, Remarked(p), poll.answer, poll.streamed) \/ Throws)
  <2>1. p \in Pending /\ Counted(p.response) \in Responses
    BY CountedType DEF PollType, Pending, PendingOK
  <2>2. [p EXCEPT !.response = Counted(p.response)] \in Pending
    BY <2>1 DEF Pending
  <2>3. Remarked(p) \in SUBSET Pending
    BY <2>2 DEF Remarked, PollType
  <2>4. poll.pc = "mark" /\ (poll' = [At("deliver") EXCEPT !.pending = Remarked(p)] \/ Throws)
    <3>1. poll.pc = "mark" /\ Goes([At("deliver") EXCEPT !.pending =
                (@ \ {p}) \cup IF Delivered(Counted(p.response)) THEN {} ELSE {[p EXCEPT !.response = Counted(p.response)]}])
      BY <1>4 DEF Mark
    <3>2. Goes([At("deliver") EXCEPT !.pending = Remarked(p)])
      BY <3>1 DEF Remarked, At, PollType
    <3> QED
      BY <3>1, <3>2, Going
  <2>5. [At("deliver") EXCEPT !.pending = Remarked(p)] = [poll EXCEPT !.pc = "deliver", !.pending = Remarked(p)]
    BY DEF At
  <2>6. Turned([poll EXCEPT !.pc = "deliver", !.pending = Remarked(p)], poll, "deliver", poll.fresh, poll.then,
               Remarked(p), poll.answer, poll.streamed)
    BY <1>0, <2>3, Turning
  <2> QED
    BY <2>4, <2>5, <2>6 DEF Moves
<1>5. ASSUME DeliveryEnds PROVE poll.pc = "deliver" /\ poll.pending = {} /\ Shifts(poll.then)
  <2>1. poll.pc = "deliver" /\ poll.pending = {} /\ poll' = [poll EXCEPT !.pc = poll.then]
    BY <1>5 DEF DeliveryEnds, At
  <2> QED
    BY <1>0, <2>1, Turning DEF Shifts, Moves
<1> QED
  BY <1>1, <1>2, <1>3, <1>4, <1>5

\* Fetching, and the groups
LEMMA Looking ==
    ASSUME poll \in PollType, arrived \in Nat, forgotten \in Nat
    PROVE  /\ Fetch => /\ poll.pc = "fetch" /\ forgotten' = Larger(forgotten, poll.offset) /\ risked' = risked
                       /\ Looks("check", poll.offset, Larger(forgotten, poll.offset), arrived) \/ poll' = Idle
           /\ Compose => /\ poll.pc = "check" /\ forgotten' = Larger(forgotten, poll.to + 1)
                         /\ risked' = Larger(risked, poll.to)
                         /\ Looks("recheck", poll.offset, poll.at, arrived) \/ poll' = Idle
           /\ Recheck => poll.pc \in {"check", "recheck"} /\ (Looks("group", 0, poll.at, poll.to) \/ poll' = Idle)
           /\ Group => poll.pc = "group" /\ (poll' = Idle \/ \E last \in poll.at..poll.to : Groups(last))
<1>0. {"check", "recheck", "group", "reserve"} \subseteq Places
  BY DEF Places, Sorting
<1>1. ASSUME Fetch
      PROVE  /\ poll.pc = "fetch" /\ forgotten' = Larger(forgotten, poll.offset) /\ risked' = risked
             /\ Looks("check", poll.offset, Larger(forgotten, poll.offset), arrived) \/ poll' = Idle
  <2>1. /\ poll.pc = "fetch" /\ forgotten' = Larger(forgotten, poll.offset) /\ risked' = risked
        /\ \/ poll' = [At("check") EXCEPT !.at = Larger(forgotten, poll.offset), !.to = arrived]
           \/ Throws
    BY <1>1, Going DEF Fetch, GetUpdates
  <2>2. Throws => poll' = Idle
    BY <2>1 DEF Throws, Excused, Sync
  <2>3. ASSUME NEW at \in Nat, poll' = [At("check") EXCEPT !.at = at, !.to = arrived]
        PROVE  Looks("check", poll.offset, at, arrived)
    BY <1>0, <2>3 DEF Looks, PollType, At
  <2>4. Larger(forgotten, poll.offset) \in Nat
    BY DEF Larger, PollType
  <2> QED
    BY <2>1, <2>2, <2>3, <2>4
<1>2. ASSUME Compose
      PROVE  /\ poll.pc = "check" /\ forgotten' = Larger(forgotten, poll.to + 1)
             /\ risked' = Larger(risked, poll.to)
             /\ Looks("recheck", poll.offset, poll.at, arrived) \/ poll' = Idle
  <2>1. /\ poll.pc = "check" /\ forgotten' = Larger(forgotten, poll.to + 1) /\ risked' = Larger(risked, poll.to)
        /\ poll' = [At("recheck") EXCEPT !.to = arrived] \/ Throws
    BY <1>2, Going DEF Compose, GetUpdates
  <2>2. Throws => poll' = Idle
    BY <2>1 DEF Throws, Excused, Sync
  <2>3. poll' = [At("recheck") EXCEPT !.to = arrived] => Looks("recheck", poll.offset, poll.at, arrived)
    BY <1>0 DEF Looks, PollType, At
  <2> QED
    BY <2>1, <2>2, <2>3
<1>3. ASSUME Recheck PROVE poll.pc \in {"check", "recheck"} /\ (Looks("group", 0, poll.at, poll.to) \/ poll' = Idle)
  <2>1. /\ poll.pc \in {"check", "recheck"}
        /\ poll' = [At("group") EXCEPT !.version = 0, !.offset = 0] \/ poll' = Idle \/ Throws
    BY <1>3, Going DEF Recheck
  <2>2. Throws => poll' = Idle
    BY <2>1 DEF Throws, Excused, Sync
  <2>3. ASSUME NEW n \in Nat, poll' = [poll EXCEPT !.pc = "group", !.version = n, !.offset = n]
        PROVE  Looks("group", n, poll.at, poll.to)
    BY <1>0, <2>3 DEF Looks, PollType
  <2>4. [At("group") EXCEPT !.version = 0, !.offset = 0] = [poll EXCEPT !.pc = "group", !.version = 0, !.offset = 0]
    BY DEF At
  <2>5. poll' = [At("group") EXCEPT !.version = 0, !.offset = 0] => Looks("group", 0, poll.at, poll.to)
    BY <2>3, <2>4
  <2> QED
    BY <2>1, <2>2, <2>5
<1>4. ASSUME Group PROVE poll.pc = "group" /\ (poll' = Idle \/ \E last \in poll.at..poll.to : Groups(last))
  <2>1. ASSUME NEW last \in Nat,
               poll' = [At("reserve") EXCEPT !.last = last, !.next = poll.at, !.fresh = {}, !.first = 0]
        PROVE  Groups(last)
    BY <1>0, <2>1 DEF Groups, PollType, At
  <2>2. poll.at..poll.to \subseteq Nat
    BY DEF PollType
  <2> QED
    BY <1>4, <2>1, <2>2 DEF Group
<1> QED
  BY <1>1, <1>2, <1>3, <1>4

Fresh == IF Reserved(poll.next).fresh THEN poll.fresh \cup {poll.next} ELSE poll.fresh
First == IF Reserved(poll.next).fresh /\ poll.fresh = {} THEN poll.next ELSE poll.first
Others == poll.fresh \ {poll.first}

\* A poll that has looked at a message is otherwise what it was.
Picked(next, fresh, first) ==
  /\ poll' \in PollType /\ poll'.pc = poll.pc /\ poll'.id = poll.id /\ poll'.offset = poll.offset
  /\ poll'.at = poll.at /\ poll'.to = poll.to /\ poll'.last = poll.last /\ poll'.next = next
  /\ poll'.first = first /\ poll'.fresh = fresh /\ poll'.then = poll.then /\ poll'.pending = poll.pending

LEMMA Picking ==
    ASSUME poll \in PollType, NEW next \in Nat, NEW fresh \in SUBSET Updates, NEW first \in Nat,
           poll' = [poll EXCEPT !.next = next, !.fresh = fresh, !.first = first]
    PROVE  Picked(next, fresh, first)
<1>1. poll' \in PollType
  BY DEF PollType
<1>2. /\ poll'.pc = poll.pc /\ poll'.id = poll.id /\ poll'.offset = poll.offset
      /\ poll'.at = poll.at /\ poll'.to = poll.to /\ poll'.last = poll.last /\ poll'.next = next
      /\ poll'.first = first /\ poll'.fresh = fresh /\ poll'.then = poll.then /\ poll'.pending = poll.pending
  BY DEF PollType
<1> QED
  BY <1>1, <1>2 DEF Picked

\* The messages of a group until the agent is asked
LEMMA Sorted ==
    ASSUME poll \in PollType, poll.pc = "reserve" => poll.next \in Nat /\ (poll.next <= poll.last => poll.next \in Updates)
    PROVE  /\ Reserve => /\ poll.pc = "reserve" /\ poll.next <= poll.last /\ Ours
                         /\ row' = [row EXCEPT ![poll.next] = Reserved(poll.next).row]
                         /\ Reserves(Fresh, First) \/ poll' = Idle
           /\ ReserveRefused => poll' = Idle
           /\ Sort => /\ poll.pc = "reserve" /\ poll.next > poll.last
                      /\ \/ poll.fresh = {} /\ Shifts("advance")
                         \/ poll.fresh # {} /\ \E pc \in {"close", "reply", "ask"} : Shifts(pc)
           /\ Reply => poll.pc = "reply" /\ (Shifts("close") \/ poll' = Idle)
           /\ Close => /\ poll.pc = "close" /\ (Shifts("advance") \/ poll' = Idle)
                       /\ \E S \in SUBSET poll.fresh : row' = Finished(S, poll.state)
<1>0. {"reserve", "close", "reply", "ask", "advance"} \subseteq Places
  BY DEF Places, Sorting
<1>1. ASSUME Reserve
      PROVE  /\ poll.pc = "reserve" /\ poll.next <= poll.last /\ Ours
             /\ row' = [row EXCEPT ![poll.next] = Reserved(poll.next).row]
             /\ Reserves(Fresh, First) \/ poll' = Idle
  <2>1. /\ poll.pc = "reserve" /\ poll.next <= poll.last /\ Ours
        /\ row' = [row EXCEPT ![poll.next] = Reserved(poll.next).row]
        /\ Goes([poll EXCEPT !.next = poll.next + 1,
                          !.fresh = IF Reserved(poll.next).fresh THEN @ \cup {poll.next} ELSE @,
                          !.first = IF Reserved(poll.next).fresh /\ poll.fresh = {} THEN poll.next ELSE @])
    BY <1>1 DEF Reserve
  <2>2. Goes([poll EXCEPT !.next = poll.next + 1, !.fresh = Fresh, !.first = First])
    BY <2>1 DEF Fresh, First, PollType
  <2>3. poll' = [poll EXCEPT !.next = poll.next + 1, !.fresh = Fresh, !.first = First] \/ Throws
    BY <2>2, Going
  <2>4. Throws => poll' = Idle
    BY <2>1 DEF Throws, Excused, Sync
  <2>5. poll.next + 1 \in Nat /\ Fresh \in SUBSET Updates /\ First \in Nat
    BY <2>1 DEF Fresh, First, PollType
  <2> HIDE DEF Fresh, First
  <2>6. poll' = [poll EXCEPT !.next = poll.next + 1, !.fresh = Fresh, !.first = First]
          => Picked(poll.next + 1, Fresh, First)
    BY <2>5, Picking
  <2>7. Picked(poll.next + 1, Fresh, First) => Reserves(Fresh, First)
    BY <2>1 DEF Reserves, Picked
  <2> QED
    BY <2>1, <2>3, <2>4, <2>6, <2>7
<1>2. ASSUME Sort
      PROVE  /\ poll.pc = "reserve" /\ poll.next > poll.last
             /\ \/ poll.fresh = {} /\ Shifts("advance")
                \/ poll.fresh # {} /\ \E pc \in {"close", "reply", "ask"} : Shifts(pc)
  <2>1. poll' = [poll EXCEPT !.pc = "advance"] => Shifts("advance")
    BY <1>0, Turning DEF Shifts, Moves
  <2>2. poll' = [poll EXCEPT !.pc = "reply"] => Shifts("reply")
    BY <1>0, Turning DEF Shifts, Moves
  <2>3. poll' = [poll EXCEPT !.pc = "ask"] => Shifts("ask")
    BY <1>0, Turning DEF Shifts, Moves
  <2>4. poll' = [poll EXCEPT !.pc = "close", !.state = "rejected"] => Shifts("close")
    BY <1>0, Turning DEF Shifts, Moves
  <2>5. [At("close") EXCEPT !.state = "rejected"] = [poll EXCEPT !.pc = "close", !.state = "rejected"]
    BY DEF At
  <2> QED
    BY <1>2, <2>1, <2>2, <2>3, <2>4, <2>5 DEF Sort, At
<1>3. ASSUME Reply PROVE poll.pc = "reply" /\ (Shifts("close") \/ poll' = Idle)
  <2>1. PICK state \in {"delivered", "rejected"} : poll.pc = "reply" /\ Goes([At("close") EXCEPT !.state = state])
    BY <1>3 DEF Reply
  <2>2. poll' = [At("close") EXCEPT !.state = state] \/ Throws
    BY <2>1, Going
  <2>3. Throws => poll' = Idle
    BY <2>1 DEF Throws, Excused, Sync
  <2>4. [At("close") EXCEPT !.state = state] = [poll EXCEPT !.pc = "close", !.state = state]
    BY DEF At
  <2>5. Turned([poll EXCEPT !.pc = "close", !.state = state], poll, "close", poll.fresh, poll.then, poll.pending,
               poll.answer, poll.streamed)
    BY <1>0, Turning
  <2> QED
    BY <2>1, <2>2, <2>3, <2>4, <2>5 DEF Shifts, Moves
<1>4. ASSUME Close
      PROVE  /\ poll.pc = "close" /\ (Shifts("advance") \/ poll' = Idle)
             /\ \E S \in SUBSET poll.fresh : row' = Finished(S, poll.state)
  <2>1. /\ poll.pc = "close" /\ (poll' = [poll EXCEPT !.pc = "advance"] \/ Throws)
        /\ \E S \in SUBSET poll.fresh : row' = Finished(S, poll.state)
    BY <1>4, Going, Throwing DEF Close, FinishUpdates, At
  <2>2. Throws => poll' = Idle
    BY <2>1 DEF Throws, Excused, Sync
  <2> QED
    BY <1>0, <2>1, <2>2, Turning DEF Shifts, Moves
<1>5. ReserveRefused => poll' = Idle
  BY DEF ReserveRefused
<1> QED
  BY <1>1, <1>2, <1>3, <1>4, <1>5

\* From the question to the agent until the group is handled, and a call that fails
LEMMA Asked ==
    ASSUME poll \in PollType, poll.pc = "turn" => poll.first \in Updates,
           \A u \in Updates : request[u].state = "answered" => request[u].answer \in Answers
    PROVE  /\ Ask => poll.pc = "ask" /\ Moves("turn", poll.fresh, poll.then, poll.pending, None, FALSE)
           /\ Stream => /\ poll.pc = "turn"
                        /\ \E streamed \in BOOLEAN :
                             Moves("turn", poll.fresh, poll.then, poll.pending, poll.answer, streamed)
           /\ Answered => /\ poll.pc = "turn" /\ request[poll.first].state = "answered"
                          /\ Moves("session", poll.fresh, poll.then, poll.pending, request[poll.first].answer, poll.streamed)
           /\ TurnFails => poll.pc = "turn" /\ Shifts("excuse")
           /\ SaveSession => /\ poll.pc = "session"
                             /\ \/ Remaining(poll.answer) + poll.answer.files > 0 /\ Shifts("stage")
                                \/ ~(Remaining(poll.answer) + poll.answer.files > 0) /\ Shifts("rest")
                                \/ Shifts("excuse")
           /\ Stage => /\ poll.pc = "stage"
                       /\ \/ Moves("rest", Others, poll.then, poll.pending, poll.answer, poll.streamed)
                          \/ Shifts("excuse")
           /\ Rest => /\ poll.pc = "rest" /\ \E S \in SUBSET poll.fresh : row' = Finished(S, "delivered")
                      /\ \/ Shifts("advance")
                         \/ /\ poll.first \notin poll.fresh
                            /\ Moves("list", poll.fresh, "advance", poll.pending, poll.answer, poll.streamed)
                         \/ Shifts("excuse")
           /\ Excuse => /\ poll.pc = "excuse"
                        /\ \/ Moves("excused", Others, poll.then, poll.pending, poll.answer, poll.streamed)
                           \/ poll' = Idle
           /\ ExcuseRest => /\ poll.pc = "excused" /\ \E S \in SUBSET poll.fresh : row' = Finished(S, "failed")
                            /\ \/ Moves("list", poll.fresh, "advance", poll.pending, poll.answer, poll.streamed)
                               \/ poll' = Idle
           /\ Advance => poll.pc = "advance" /\ (Advances \/ poll' = Idle)
           /\ Fails => poll.pc \notin {"idle", "group", "turn"} /\ Throws
<1>0. {"turn", "session", "stage", "rest", "excuse", "excused", "advance", "list", "group"} \subseteq Places
  BY DEF Places, Asking, Sync
<1> DEFINE Shifted(pc) == Turned([poll EXCEPT !.pc = pc], poll, pc, poll.fresh, poll.then, poll.pending,
                                 poll.answer, poll.streamed)
           Lists == Turned([poll EXCEPT !.pc = "list", !.then = "advance"], poll, "list", poll.fresh, "advance",
                           poll.pending, poll.answer, poll.streamed)
<1>s. \A pc \in Places : Shifted(pc)
  BY Turning
<1>l. Lists
  BY <1>0, Turning
<1>o. Others \in SUBSET Updates
  BY DEF Others, PollType
<1>1. ASSUME Ask PROVE poll.pc = "ask" /\ Moves("turn", poll.fresh, poll.then, poll.pending, None, FALSE)
  <2>1. poll.pc = "ask" /\ poll' = [At("turn") EXCEPT !.answer = None, !.streamed = FALSE]
    BY <1>1 DEF Ask
  <2>2. [At("turn") EXCEPT !.answer = None, !.streamed = FALSE]
          = [poll EXCEPT !.pc = "turn", !.answer = None, !.streamed = FALSE]
    BY DEF At
  <2>3. Turned([poll EXCEPT !.pc = "turn", !.answer = None, !.streamed = FALSE], poll, "turn", poll.fresh, poll.then,
               poll.pending, None, FALSE)
    BY <1>0, Turning
  <2> QED
    BY <2>1, <2>2, <2>3 DEF Moves
<1>2. ASSUME Stream
      PROVE  /\ poll.pc = "turn"
             /\ \E streamed \in BOOLEAN :
                  Moves("turn", poll.fresh, poll.then, poll.pending, poll.answer, streamed)
  <2>1. PICK seen \in BOOLEAN : poll.pc = "turn" /\ poll' = [poll EXCEPT !.streamed = @ \/ seen]
    BY <1>2 DEF Stream
  <2>2. poll' = [poll EXCEPT !.streamed = poll.streamed \/ seen] /\ (poll.streamed \/ seen) \in BOOLEAN
    BY <2>1 DEF PollType
  <2>3. \A streamed \in BOOLEAN :
          Turned([poll EXCEPT !.streamed = streamed], poll, poll.pc, poll.fresh, poll.then, poll.pending,
                 poll.answer, streamed)
    BY <1>0, <2>1, Turning
  <2>4. Turned([poll EXCEPT !.streamed = poll.streamed \/ seen], poll, poll.pc, poll.fresh, poll.then, poll.pending,
                 poll.answer, poll.streamed \/ seen)
    BY <2>2, <2>3, Zenon
  <2>5. Moves("turn", poll.fresh, poll.then, poll.pending, poll.answer, poll.streamed \/ seen)
    BY <2>1, <2>2, <2>4, Zenon DEF Moves
  <2> QED
    BY <2>1, <2>2, <2>5, Zenon
<1>3. ASSUME Answered
      PROVE  /\ poll.pc = "turn" /\ request[poll.first].state = "answered"
             /\ Moves("session", poll.fresh, poll.then, poll.pending, request[poll.first].answer, poll.streamed)
  <2>1. /\ poll.pc = "turn" /\ request[poll.first].state = "answered"
        /\ poll' = [At("session") EXCEPT !.answer = request[poll.first].answer]
    BY <1>3 DEF Answered
  <2>2. [At("session") EXCEPT !.answer = request[poll.first].answer]
          = [poll EXCEPT !.pc = "session", !.answer = request[poll.first].answer]
    BY DEF At
  <2>3. request[poll.first].answer \in Answers \cup {None}
    BY <2>1
  <2>4. Turned([poll EXCEPT !.pc = "session", !.answer = request[poll.first].answer], poll, "session", poll.fresh,
               poll.then, poll.pending, request[poll.first].answer, poll.streamed)
    BY <1>0, <2>3, Turning
  <2> QED
    BY <2>1, <2>2, <2>4 DEF Moves
<1>4. ASSUME TurnFails PROVE poll.pc = "turn" /\ Shifts("excuse")
  BY <1>0, <1>4, <1>s DEF TurnFails, At, Shifts, Moves
<1>5. ASSUME SaveSession
      PROVE  /\ poll.pc = "session"
             /\ \/ Remaining(poll.answer) + poll.answer.files > 0 /\ Shifts("stage")
                \/ ~(Remaining(poll.answer) + poll.answer.files > 0) /\ Shifts("rest")
                \/ Shifts("excuse")
  <2>1. /\ poll.pc = "session"
        /\ \/ poll' = IF Remaining(poll.answer) + poll.answer.files > 0 THEN At("stage") ELSE At("rest")
           \/ Throws
    BY <1>5, Going DEF SaveSession
  <2>2. Throws => Shifts("excuse")
    BY <2>1 DEF Throws, Excused, Sync
  <2>3. Shifted("stage") /\ Shifted("rest")
    BY <1>0, <1>s
  <2> HIDE DEF Remaining
  <2>4. poll' = At("stage") => Shifts("stage")
    BY <2>3 DEF At, Shifts, Moves
  <2>5. poll' = At("rest") => Shifts("rest")
    BY <2>3 DEF At, Shifts, Moves
  <2> QED
    BY <2>1, <2>2, <2>4, <2>5
<1>6. ASSUME Stage
      PROVE  /\ poll.pc = "stage"
             /\ Moves("rest", Others, poll.then, poll.pending, poll.answer, poll.streamed) \/ Shifts("excuse")
  <2>1. poll.pc = "stage" /\ Goes([At("rest") EXCEPT !.fresh = @ \ {poll.first}])
    BY <1>6 DEF Stage, StageResponse
  <2>2. [At("rest") EXCEPT !.fresh = @ \ {poll.first}] = [poll EXCEPT !.pc = "rest", !.fresh = Others]
    BY DEF At, Others, PollType
  <2>3. poll' = [poll EXCEPT !.pc = "rest", !.fresh = Others] \/ Throws
    BY <2>1, <2>2, Going
  <2>4. Throws => Shifts("excuse")
    BY <2>1 DEF Throws, Excused, Sync
  <2>5. Turned([poll EXCEPT !.pc = "rest", !.fresh = Others], poll, "rest", Others, poll.then, poll.pending,
               poll.answer, poll.streamed)
    BY <1>0, <1>o, Turning
  <2> QED
    BY <2>1, <2>3, <2>4, <2>5 DEF Moves
<1>7. ASSUME Rest
      PROVE  /\ poll.pc = "rest" /\ \E S \in SUBSET poll.fresh : row' = Finished(S, "delivered")
             /\ \/ Shifts("advance")
                \/ /\ poll.first \notin poll.fresh
                   /\ Moves("list", poll.fresh, "advance", poll.pending, poll.answer, poll.streamed)
                \/ Shifts("excuse")
  <2>1. /\ poll.pc = "rest" /\ \E S \in SUBSET poll.fresh : row' = Finished(S, "delivered")
        /\ \/ poll' = IF poll.first \in poll.fresh THEN At("advance") ELSE [At("list") EXCEPT !.then = "advance"]
           \/ Throws
    BY <1>7, Going, Throwing DEF Rest, FinishUpdates
  <2>2. Throws => Shifts("excuse")
    BY <2>1 DEF Throws, Excused, Sync
  <2>3. [At("list") EXCEPT !.then = "advance"] = [poll EXCEPT !.pc = "list", !.then = "advance"]
    BY DEF At
  <2>4. Shifted("advance")
    BY <1>0, <1>s
  <2>5. poll' = At("advance") => Shifts("advance")
    BY <2>4 DEF At, Shifts, Moves
  <2>6. poll' = [At("list") EXCEPT !.then = "advance"]
          => Moves("list", poll.fresh, "advance", poll.pending, poll.answer, poll.streamed)
    BY <1>l, <2>3 DEF Moves
  <2> QED
    BY <2>1, <2>2, <2>5, <2>6
<1>8. ASSUME Excuse
      PROVE  /\ poll.pc = "excuse"
             /\ Moves("excused", Others, poll.then, poll.pending, poll.answer, poll.streamed) \/ poll' = Idle
  <2>1. poll.pc = "excuse" /\ Goes([At("excused") EXCEPT !.fresh = @ \ {poll.first}])
    BY <1>8 DEF Excuse, StageResponse
  <2>2. [At("excused") EXCEPT !.fresh = @ \ {poll.first}] = [poll EXCEPT !.pc = "excused", !.fresh = Others]
    BY DEF At, Others, PollType
  <2>3. poll' = [poll EXCEPT !.pc = "excused", !.fresh = Others] \/ Throws
    BY <2>1, <2>2, Going
  <2>4. Throws => poll' = Idle
    BY <2>1 DEF Throws, Excused, Sync
  <2>5. Turned([poll EXCEPT !.pc = "excused", !.fresh = Others], poll, "excused", Others, poll.then, poll.pending,
               poll.answer, poll.streamed)
    BY <1>0, <1>o, Turning
  <2> QED
    BY <2>1, <2>3, <2>4, <2>5 DEF Moves
<1>9. ASSUME ExcuseRest
      PROVE  /\ poll.pc = "excused" /\ \E S \in SUBSET poll.fresh : row' = Finished(S, "failed")
             /\ Moves("list", poll.fresh, "advance", poll.pending, poll.answer, poll.streamed) \/ poll' = Idle
  <2>1. /\ poll.pc = "excused" /\ \E S \in SUBSET poll.fresh : row' = Finished(S, "failed")
        /\ poll' = [At("list") EXCEPT !.then = "advance"] \/ Throws
    BY <1>9, Going, Throwing DEF ExcuseRest, FinishUpdates
  <2>2. Throws => poll' = Idle
    BY <2>1 DEF Throws, Excused, Sync
  <2>3. [At("list") EXCEPT !.then = "advance"] = [poll EXCEPT !.pc = "list", !.then = "advance"]
    BY DEF At
  <2> QED
    BY <1>l, <2>1, <2>2, <2>3 DEF Moves
<1>10. ASSUME Advance PROVE poll.pc = "advance" /\ (Advances \/ poll' = Idle)
  <2>1. /\ poll.pc = "advance"
        /\ \/ poll' = [Idle EXCEPT !.pc = "group", !.id = poll.id, !.at = poll.last + 1, !.to = poll.to]
           \/ Throws
    BY <1>10, Going DEF Advance
  <2>2. Throws => poll' = Idle
    BY <2>1 DEF Throws, Excused, Sync
  <2> DEFINE Onward(id, at, to) == [Idle EXCEPT !.pc = "group", !.id = id, !.at = at, !.to = to]
             OnwardOK(id, at, to) ==
               /\ Onward(id, at, to) \in PollType /\ Onward(id, at, to).pc = "group" /\ Onward(id, at, to).id = id
               /\ Onward(id, at, to).offset = 0 /\ Onward(id, at, to).at = at /\ Onward(id, at, to).to = to
               /\ Onward(id, at, to).first = 0 /\ Onward(id, at, to).fresh = {}
               /\ Onward(id, at, to).then = "fetch" /\ Onward(id, at, to).pending = {}
  <2>3. ASSUME NEW id \in Nat, NEW at \in Nat, NEW to \in Nat PROVE OnwardOK(id, at, to)
    BY <1>0 DEF Idle, PollType
  <2>4. poll.id \in Nat /\ poll.last + 1 \in Nat /\ poll.to \in Nat
    BY DEF PollType
  <2> HIDE DEF OnwardOK
  <2>5. OnwardOK(poll.id, poll.last + 1, poll.to)
    BY <2>3, <2>4
  <2>6. poll' = Onward(poll.id, poll.last + 1, poll.to) => Advances
    BY <2>5, Zenon DEF OnwardOK, Advances
  <2> QED
    BY <2>1, <2>2, <2>6
<1>11. ASSUME Fails PROVE poll.pc \notin {"idle", "group", "turn"} /\ Throws
  BY <1>11, Throwing DEF Fails
<1> QED
  BY <1>1, <1>2, <1>3, <1>4, <1>5, <1>6, <1>7, <1>8, <1>9, <1>10, <1>11

(***************************************************************************)
(* The inductive invariant of the types                                     *)
(***************************************************************************)

Ops == {"none", "connect", "edit", "rotate"}

\* Telegram, the connection and the request of the owner
OwnerInv ==
  /\ arrived \in 0..MaxUpdates /\ forgotten \in 1..(arrived + 1) /\ backlog \in 0..arrived /\ risked \in 0..arrived
  /\ faults \in 0..MaxFaults /\ settings \in 0..MaxSettings
  /\ connection \in [id : 1..settings, version : 1..settings, offset : 0..(arrived + 1)] \cup {None}
  /\ connection = None => \A u \in Updates : row[u] = None
  /\ setting \in [op : Ops, offset : 0..(arrived + 1)]
  /\ setting.op = "connect" => connection = None /\ poll.id < settings
  /\ setting.op \in {"edit", "rotate"} => connection # None
  /\ setting.op # "none" => settings >= 1

Fetching == poll.pc = "fetch" \/ (poll.pc \in Sync /\ poll.then = "fetch")
Batch == poll.pc \in Sorting \cup Asking \cup {"excused", "advance"} \/ (poll.pc \in Sync /\ poll.then = "advance")
Windowed == poll.pc \in {"check", "recheck", "group"} \/ Batch

\* Where the poll is among the messages
PollInv ==
  /\ poll \in PollType /\ PendingOK
  /\ poll.id <= settings /\ poll.offset <= arrived + 1 /\ poll.to <= arrived /\ poll.first <= MaxUpdates
  /\ Windowed => 1 <= poll.at
  /\ Batch => poll.at <= poll.last /\ poll.last <= poll.to
  /\ poll.pc = "reserve" =>
       /\ poll.at <= poll.next /\ poll.next <= poll.last + 1
       /\ \A u \in poll.fresh : u < poll.next
       /\ poll.fresh # {} => poll.first \in poll.fresh
  /\ poll.pc \in {"close", "reply", "ask", "turn", "session", "stage"} => poll.first \in poll.fresh
  /\ poll.pc \in Asking \cup {"excused"} => poll.first \in Updates
  /\ \A u \in poll.fresh : poll.first <= u
  /\ poll.pending # {} => poll.pc \in {"deliver", "mark"}
  /\ poll.pc = "excused" => poll.first \notin poll.fresh

\* What the poll knows of the answer is what Control gave.
AnswerInv ==
  /\ poll.pc \in {"session", "stage", "rest"} =>
       /\ request[poll.first].state = "answered" /\ request[poll.first].answer = poll.answer
  /\ poll.pc \in {"turn", "session", "stage", "rest"} /\ poll.streamed => Previewed(poll.first)
  /\ poll.pc = "stage" => Remaining(poll.answer) + poll.answer.files > 0
  /\ poll.pc = "rest" /\ poll.first \in poll.fresh => ~(Remaining(poll.answer) + poll.answer.files > 0)
  /\ \A u \in Updates : request[u].state = "answered" =>
       request[u].answer \in Answers /\ (Previewed(u) => request[u].answer.texts > 0)

\* Rows, requests and turns
RowInv ==
  /\ row \in [Updates -> Rows \cup {None}]
  /\ request \in [Updates ->
       [state : {"none", "sent", "verified", "running", "answered", "refused"},
        id : 0..MaxSettings, answer : Answers \cup {None}]]
  /\ turns \in [Updates -> Nat]
  /\ \A u \in Updates : row[u] # None =>
       /\ row[u].state = "reserved" => row[u].response = None
       /\ row[u].response # None => Whole(row[u].response)
       /\ Staged(u) => ~Delivered(row[u].response)

TypeInv == OwnerInv /\ PollInv /\ AnswerInv /\ RowInv

LEMMA TypeInvImpliesTypeOK ==
    ASSUME TypeInv
    PROVE  TypeOK
<1> USE BrokerAssumption DEF TypeInv
<1>1. /\ arrived \in 0..MaxUpdates /\ forgotten \in 0..(MaxUpdates + 1) /\ settings \in 0..MaxSettings
      /\ faults \in 0..MaxFaults /\ {backlog, risked} \subseteq 0..MaxUpdates /\ setting.op \in Ops
  BY DEF OwnerInv
<1>2. connection \in [id : 1..MaxSettings, version : 1..(MaxSettings + 1),
                      offset : 0..(MaxUpdates + 1)] \cup {None}
  <2>1. /\ arrived \in Nat /\ settings \in Nat /\ settings <= MaxSettings /\ arrived <= MaxUpdates
        /\ connection \in [id : 1..settings, version : 1..settings, offset : 0..(arrived + 1)] \cup {None}
    BY DEF OwnerInv
  <2> QED
    BY <2>1
<1>3. /\ poll.first \in 0..MaxUpdates /\ poll.fresh \subseteq poll.first..MaxUpdates
      /\ poll.pending \subseteq [update : Updates, response : Responses]
  BY DEF PollInv, PollType, Pending, Updates
<1>4. \A u \in Updates : row[u] # None /\ row[u].response # None =>
        row[u].response.text <= row[u].response.texts /\ row[u].response.file <= row[u].response.files
  BY DEF RowInv, Whole
<1>5. /\ row \in [Updates -> Rows \cup {None}]
      /\ request \in [Updates ->
           [state : {"none", "sent", "verified", "running", "answered", "refused"},
            id : 0..MaxSettings, answer : Answers \cup {None}]]
  BY DEF RowInv
<1> QED
  BY <1>1, <1>2, <1>3, <1>4, <1>5 DEF TypeOK, Ops

LEMMA TypeInit ==
    ASSUME Init
    PROVE  TypeInv
<1> USE BrokerAssumption
<1>1. /\ arrived = 0 /\ forgotten = 1 /\ connection = None /\ (\A u \in Updates : row[u] = None) /\ poll = Idle
      /\ (\A u \in Updates : request[u] = NoRequest) /\ setting = [op |-> "none", offset |-> 0]
      /\ settings = 0 /\ faults = 0 /\ backlog = 0 /\ risked = 0
  BY DEF Init
<1>2. OwnerInv
  BY <1>1 DEF OwnerInv, Ops
<1>3. PollInv
  BY <1>1, IdleType DEF PollInv, Idle, PendingOK, Windowed, Batch, Sorting, Asking, Sync
<1>4. AnswerInv
  BY <1>1 DEF AnswerInv, Idle, NoRequest
<1>5. RowInv
  <2>1. NoRequest \in [state : {"none", "sent", "verified", "running", "answered", "refused"},
                       id : 0..MaxSettings, answer : Answers \cup {None}]
    BY DEF NoRequest
  <2> QED
    BY <1>1, <2>1 DEF Init, RowInv
<1> QED
  BY <1>2, <1>3, <1>4, <1>5 DEF TypeInv

\* A step of the broker or of Control that leaves Telegram, the connection and the owner alone
Quiet ==
  /\ UNCHANGED <<telegram, connection, owner>> /\ faults' \in 0..MaxFaults
  /\ poll'.id \in {poll.id, 0} \/ (connection # None /\ poll'.id = connection.id)
  /\ connection = None => \A u \in Updates : row'[u] = row[u]

LEMMA Faulty ==
    ASSUME faults \in 0..MaxFaults
    PROVE  /\ \A p : Goes(p) => faults' \in 0..MaxFaults
           /\ Troubled => faults' \in 0..MaxFaults
  BY BrokerAssumption DEF Goes, Troubled

LEMMA Identified ==
    ASSUME TypeInv
    PROVE  /\ Throws => poll'.id \in {poll.id, 0}
           /\ \A pc, fresh, then, pending, answer, streamed :
                Moves(pc, fresh, then, pending, answer, streamed) => poll'.id = poll.id
           /\ \A pc : Shifts(pc) => poll'.id = poll.id
           /\ poll' = Idle => poll'.id = 0
           /\ \A S, state : connection = None /\ row' = Finished(S, state) => \A u \in Updates : row'[u] = row[u]
  BY DEF Throws, Shifts, Moves, Turned, Like, Idle, Finished, Ours

LEMMA Hypotheses ==
    ASSUME TypeInv
    PROVE  /\ poll \in PollType /\ PendingOK /\ row \in [Updates -> Rows \cup {None}]
           /\ connection # None => connection.id \in Nat /\ connection.version \in Nat /\ connection.offset \in Nat
           /\ arrived \in Nat /\ forgotten \in Nat /\ backlog \in Nat /\ risked \in Nat /\ settings \in Nat
           /\ poll.pc = "reserve" => poll.next \in Nat /\ (poll.next <= poll.last => poll.next \in Updates)
           /\ poll.pc = "turn" => poll.first \in Updates
           /\ \A u \in Updates : request[u].state = "answered" => request[u].answer \in Answers
<1> USE BrokerAssumption DEF TypeInv
<1>1. poll \in PollType /\ PendingOK /\ row \in [Updates -> Rows \cup {None}]
  BY DEF PollInv, RowInv
<1>2. connection # None => connection.id \in Nat /\ connection.version \in Nat /\ connection.offset \in Nat
  BY DEF OwnerInv
<1>3. arrived \in Nat /\ forgotten \in Nat /\ backlog \in Nat /\ risked \in Nat /\ settings \in Nat /\ arrived <= MaxUpdates
  BY DEF OwnerInv
<1>4. poll.pc = "reserve" => poll.next \in Nat /\ (poll.next <= poll.last => poll.next \in Updates)
  <2>1. poll.at \in Nat /\ poll.to \in Nat /\ poll.last \in Nat /\ poll.next \in Nat
    BY DEF PollInv, PollType
  <2> QED
    BY <1>3, <2>1 DEF PollInv, Windowed, Batch, Sorting, Updates
<1>5. poll.pc = "turn" => poll.first \in Updates
  BY DEF PollInv, Asking
<1>6. \A u \in Updates : request[u].state = "answered" => request[u].answer \in Answers
  BY DEF AnswerInv
<1> QED
  BY <1>1, <1>2, <1>3, <1>4, <1>5, <1>6

LEMMA QuietSteps ==
    ASSUME TypeInv
    PROVE  /\ Poll \/ ListPending \/ (\E p \in poll.pending : Send(p) \/ Mark(p)) \/ DeliveryEnds => Quiet
           /\ Recheck \/ Group \/ Reserve \/ ReserveRefused \/ Sort \/ Reply \/ Close => Quiet
           /\ Ask \/ Stream \/ Answered \/ TurnFails \/ SaveSession \/ Stage \/ Rest \/ Excuse \/ ExcuseRest => Quiet
           /\ Control \/ Fails => Quiet
<1>f. faults \in 0..MaxFaults
  BY DEF TypeInv, OwnerInv
<1>h. /\ poll \in PollType /\ PendingOK /\ row \in [Updates -> Rows \cup {None}]
      /\ connection # None => connection.id \in Nat /\ connection.version \in Nat /\ connection.offset \in Nat
      /\ arrived \in Nat /\ forgotten \in Nat
      /\ poll.pc = "reserve" => poll.next \in Nat /\ (poll.next <= poll.last => poll.next \in Updates)
      /\ poll.pc = "turn" => poll.first \in Updates
      /\ \A u \in Updates : request[u].state = "answered" => request[u].answer \in Answers
  BY Hypotheses
<1>1. ASSUME Poll PROVE Quiet
  <2>1. Starts \/ poll' = Idle
    BY <1>1, <1>h, Delivering
  <2>2. UNCHANGED <<telegram, connection, owner, row>> /\ faults' \in 0..MaxFaults /\ connection # None
    BY <1>1, <1>f, Faulty DEF Poll
  <2> QED
    BY <2>1, <2>2, Identified DEF Quiet, Starts
<1>2. ASSUME ListPending PROVE Quiet
  <2>1. Moves("deliver", poll.fresh, poll.then, Listed, poll.answer, poll.streamed) \/ Throws
    BY <1>2, <1>h, Delivering
  <2>2. UNCHANGED <<telegram, connection, owner, row>> /\ faults' \in 0..MaxFaults
    BY <1>2, <1>f, Faulty DEF ListPending
  <2>3. poll'.id \in {poll.id, 0}
    BY <2>1, Identified
  <2> QED
    BY <2>2, <2>3 DEF Quiet
<1>3. ASSUME NEW p \in poll.pending, Send(p) PROVE Quiet
  <2>1. Shifts("mark") \/ Throws
    BY <1>3, <1>h, Delivering
  <2>2. UNCHANGED <<telegram, connection, owner, row>> /\ faults' \in 0..MaxFaults
    BY <1>3, <1>f, Faulty DEF Send
  <2>3. poll'.id \in {poll.id, 0}
    BY <2>1, Identified
  <2> QED
    BY <2>2, <2>3 DEF Quiet
<1>4. ASSUME NEW p \in poll.pending, Mark(p) PROVE Quiet
  <2>1. Moves("deliver", poll.fresh, poll.then, Remarked(p), poll.answer, poll.streamed) \/ Throws
    BY <1>4, <1>h, Delivering
  <2>2. /\ UNCHANGED <<telegram, connection, owner>> /\ faults' \in 0..MaxFaults
        /\ connection = None => row' = row
    BY <1>4, <1>f, Faulty DEF Mark, Ours
  <2>3. poll'.id \in {poll.id, 0}
    BY <2>1, Identified
  <2> QED
    BY <2>2, <2>3 DEF Quiet
<1>5. ASSUME DeliveryEnds PROVE Quiet
  <2>1. poll'.id = poll.id
    BY <1>5, <1>h, Delivering, Identified
  <2> QED
    BY <1>5, <1>f, <2>1 DEF DeliveryEnds, Quiet
<1>6. ASSUME Recheck PROVE Quiet
  <2>1. Looks("group", 0, poll.at, poll.to) \/ poll' = Idle
    BY <1>6, <1>h, Looking
  <2>2. UNCHANGED <<telegram, connection, owner, row>> /\ faults' \in 0..MaxFaults
    BY <1>6, <1>f, Faulty DEF Recheck
  <2>3. poll'.id \in {poll.id, 0}
    BY <2>1, Identified DEF Looks
  <2> QED
    BY <2>2, <2>3 DEF Quiet
<1>7. ASSUME Group PROVE Quiet
  <2>1. poll' = Idle \/ \E last \in poll.at..poll.to : Groups(last)
    BY <1>7, <1>h, Looking
  <2>2. UNCHANGED <<telegram, connection, owner, row>> /\ faults' \in 0..MaxFaults
    BY <1>7, <1>f DEF Group
  <2>3. poll'.id \in {poll.id, 0}
    BY <2>1, Identified DEF Groups
  <2> QED
    BY <2>2, <2>3 DEF Quiet
<1>8. ASSUME Reserve PROVE Quiet
  <2>1. Ours /\ (Reserves(Fresh, First) \/ poll' = Idle)
    BY <1>8, <1>h, Sorted
  <2>2. UNCHANGED <<telegram, connection, owner>> /\ faults' \in 0..MaxFaults
    BY <1>8, <1>f, Faulty DEF Reserve
  <2>3. poll'.id \in {poll.id, 0}
    BY <2>1, Identified DEF Reserves
  <2> QED
    BY <2>1, <2>2, <2>3 DEF Quiet, Ours
<1>9. ASSUME ReserveRefused PROVE Quiet
  BY <1>9, <1>f, Identified DEF ReserveRefused, Quiet
<1>10. ASSUME Sort PROVE Quiet
  <2>1. poll'.id = poll.id
    BY <1>10, <1>h, Sorted, Identified
  <2> QED
    BY <1>10, <1>f, <2>1 DEF Sort, Quiet
<1>11. ASSUME Reply PROVE Quiet
  <2>1. poll'.id \in {poll.id, 0}
    BY <1>11, <1>h, Sorted, Identified
  <2>2. UNCHANGED <<telegram, connection, owner, row>> /\ faults' \in 0..MaxFaults
    BY <1>11, <1>f, Faulty DEF Reply
  <2> QED
    BY <2>1, <2>2 DEF Quiet
<1>12. ASSUME Close PROVE Quiet
  <2>1. poll'.id \in {poll.id, 0} /\ \E S \in SUBSET poll.fresh : row' = Finished(S, poll.state)
    BY <1>12, <1>h, Sorted, Identified
  <2>2. UNCHANGED <<telegram, connection, owner>> /\ faults' \in 0..MaxFaults
    BY <1>12, <1>f, Faulty DEF Close, FinishUpdates
  <2> QED
    BY <2>1, <2>2, Identified DEF Quiet
<1>13. ASSUME Ask PROVE Quiet
  BY <1>13, <1>f, <1>h, Asked, Identified DEF Ask, Quiet
<1>14. ASSUME Stream PROVE Quiet
  <2>1. poll'.id = poll.id
    BY <1>14, <1>h, Asked, Identified
  <2> QED
    BY <1>14, <1>f, <2>1 DEF Stream, Quiet
<1>15. ASSUME Answered PROVE Quiet
  BY <1>15, <1>f, <1>h, Asked, Identified DEF Answered, Quiet
<1>16. ASSUME TurnFails PROVE Quiet
  BY <1>16, <1>f, <1>h, Asked, Identified DEF TurnFails, Quiet
<1>17. ASSUME SaveSession PROVE Quiet
  <2>1. poll'.id = poll.id
    BY <1>17, <1>h, Asked, Identified
  <2>2. UNCHANGED <<telegram, connection, owner, row>> /\ faults' \in 0..MaxFaults
    BY <1>17, <1>f, Faulty DEF SaveSession
  <2> QED
    BY <2>1, <2>2 DEF Quiet
<1>18. ASSUME Stage PROVE Quiet
  <2>1. poll'.id = poll.id
    BY <1>18, <1>h, Asked, Identified
  <2>2. UNCHANGED <<telegram, connection, owner>> /\ faults' \in 0..MaxFaults /\ (connection = None => row' = row)
    BY <1>18, <1>f, Faulty DEF Stage, StageResponse, Ours
  <2> QED
    BY <2>1, <2>2 DEF Quiet
<1>19. ASSUME Rest PROVE Quiet
  <2>1. poll'.id = poll.id /\ \E S \in SUBSET poll.fresh : row' = Finished(S, "delivered")
    BY <1>19, <1>h, Asked, Identified
  <2>2. UNCHANGED <<telegram, connection, owner>> /\ faults' \in 0..MaxFaults
    BY <1>19, <1>f, Faulty DEF Rest, FinishUpdates
  <2> QED
    BY <2>1, <2>2, Identified DEF Quiet
<1>20. ASSUME Excuse PROVE Quiet
  <2>1. poll'.id \in {poll.id, 0}
    BY <1>20, <1>h, Asked, Identified
  <2>2. UNCHANGED <<telegram, connection, owner>> /\ faults' \in 0..MaxFaults /\ (connection = None => row' = row)
    BY <1>20, <1>f, Faulty DEF Excuse, StageResponse, Ours
  <2> QED
    BY <2>1, <2>2 DEF Quiet
<1>21. ASSUME ExcuseRest PROVE Quiet
  <2>1. poll'.id \in {poll.id, 0} /\ \E S \in SUBSET poll.fresh : row' = Finished(S, "failed")
    BY <1>21, <1>h, Asked, Identified
  <2>2. UNCHANGED <<telegram, connection, owner>> /\ faults' \in 0..MaxFaults
    BY <1>21, <1>f, Faulty DEF ExcuseRest, FinishUpdates
  <2> QED
    BY <2>1, <2>2, Identified DEF Quiet
<1>22. ASSUME NEW u \in Updates, Verify(u) \/ Claim(u) \/ TurnEnds(u) PROVE Quiet
  <2>1. UNCHANGED <<telegram, connection, owner, poll>> /\ faults' = faults /\ (connection = None => row' = row)
    BY <1>22 DEF Verify, Claim, TurnEnds, CanClaim
  <2> QED
    BY <1>f, <2>1 DEF Quiet
<1>23. ASSUME Fails PROVE Quiet
  <2>1. poll'.id \in {poll.id, 0}
    BY <1>23, <1>h, Asked, Identified
  <2>2. UNCHANGED <<telegram, connection, owner, row>> /\ faults' \in 0..MaxFaults
    BY <1>23, <1>f, Faulty DEF Fails
  <2> QED
    BY <2>1, <2>2 DEF Quiet
<1> QED
  BY <1>1, <1>2, <1>3, <1>4, <1>5, <1>6, <1>7, <1>8, <1>9, <1>10, <1>11, <1>12, <1>13, <1>14, <1>15, <1>16,
     <1>17, <1>18, <1>19, <1>20, <1>21, <1>22, <1>23 DEF Control

LEMMA OwnerFacts ==
    ASSUME OwnerInv
    PROVE  /\ arrived \in Nat /\ arrived <= MaxUpdates /\ forgotten \in Nat /\ forgotten >= 1 /\ forgotten <= arrived + 1
           /\ backlog \in Nat /\ backlog <= arrived /\ risked \in Nat /\ risked <= arrived
           /\ settings \in Nat /\ settings <= MaxSettings
           /\ connection # None =>
                /\ connection \in [id : Nat, version : Nat, offset : Nat]
                /\ connection.id >= 1 /\ connection.id <= settings
                /\ connection.version >= 1 /\ connection.version <= settings /\ connection.offset <= arrived + 1
           /\ setting \in [op : Ops, offset : Nat] /\ setting.offset <= arrived + 1
  BY BrokerAssumption DEF OwnerInv

LEMMA OwnerStep ==
    ASSUME TypeInv, [Next]_vars
    PROVE  OwnerInv'
<1> USE BrokerAssumption
<1>o. OwnerInv /\ poll.id \in Nat /\ poll.id <= settings /\ poll.offset \in Nat /\ poll.offset <= arrived + 1
      /\ poll.to \in Nat /\ poll.to <= arrived /\ poll.last \in Nat /\ (Batch => poll.last <= poll.to)
  BY DEF TypeInv, PollInv, PollType
<1>f. /\ arrived \in Nat /\ arrived <= MaxUpdates /\ forgotten \in Nat /\ forgotten >= 1 /\ forgotten <= arrived + 1
      /\ backlog \in Nat /\ backlog <= arrived /\ risked \in Nat /\ risked <= arrived
      /\ settings \in Nat /\ settings <= MaxSettings
      /\ connection # None =>
           /\ connection \in [id : Nat, version : Nat, offset : Nat]
           /\ connection.id >= 1 /\ connection.id <= settings
           /\ connection.version >= 1 /\ connection.version <= settings /\ connection.offset <= arrived + 1
      /\ setting \in [op : Ops, offset : Nat] /\ setting.offset <= arrived + 1
  BY <1>o, OwnerFacts
<1>h. poll \in PollType
  BY DEF TypeInv, PollInv
<1>1. ASSUME Quiet PROVE OwnerInv'
  <2>1. connection = None => \A u \in Updates : row'[u] = None
    BY <1>1, <1>o DEF Quiet, OwnerInv
  <2>2. UNCHANGED <<arrived, forgotten, risked, connection, setting, settings, backlog>> /\ faults' \in 0..MaxFaults
    BY <1>1 DEF Quiet, telegram, owner
  <2>3. setting.op = "connect" => connection = None /\ poll'.id < settings
    BY <1>1, <1>o, <1>f DEF Quiet, OwnerInv
  <2> QED
    BY <1>o, <2>1, <2>2, <2>3 DEF OwnerInv
<1>2. ASSUME Fetch PROVE OwnerInv'
  <2>1. /\ forgotten' = Larger(forgotten, poll.offset) /\ risked' = risked
        /\ UNCHANGED <<arrived, connection, row, owner>> /\ faults' \in 0..MaxFaults
    BY <1>2, <1>o, Faulty DEF Fetch, GetUpdates, OwnerInv
  <2>2. poll'.id \in {poll.id, 0}
    BY <1>2, <1>h, <1>f, Looking, Identified DEF Looks
  <2> QED
    BY <1>o, <1>f, <2>1, <2>2 DEF OwnerInv, owner, Larger
<1>3. ASSUME Compose PROVE OwnerInv'
  <2>1. /\ forgotten' = Larger(forgotten, poll.to + 1) /\ risked' = Larger(risked, poll.to)
        /\ UNCHANGED <<arrived, connection, row, owner>> /\ faults' \in 0..MaxFaults
    BY <1>3, <1>o, Faulty DEF Compose, GetUpdates, OwnerInv
  <2>2. poll'.id \in {poll.id, 0}
    BY <1>3, <1>h, <1>f, Looking, Identified DEF Looks
  <2> QED
    BY <1>o, <1>f, <2>1, <2>2 DEF OwnerInv, owner, Larger
<1>4. ASSUME Advance PROVE OwnerInv'
  <2>1. /\ connection' = IF Ours THEN [connection EXCEPT !.offset = Advanced] ELSE connection
        /\ UNCHANGED <<telegram, row, owner>> /\ faults' \in 0..MaxFaults /\ poll.pc = "advance"
    BY <1>4, <1>o, Faulty DEF Advance, OwnerInv
  <2>2. poll'.id \in {poll.id, 0}
    <3>1. Advances \/ poll' = Idle
      BY <1>4, Hypotheses, Asked
    <3> QED
      BY <3>1, Identified DEF Advances
  <2>3. Ours => Advanced \in 0..(arrived + 1) /\ connection # None
    BY <1>o, <1>f, <2>1 DEF Ours, Advanced, Larger, Batch
  <2>4. connection' \in [id : 1..settings, version : 1..settings, offset : 0..(arrived + 1)] \cup {None}
        /\ (connection' = None <=> connection = None)
    BY <1>o, <2>1, <2>3 DEF OwnerInv
  <2>5. setting.op = "connect" => connection' = None /\ poll'.id < settings
    BY <1>o, <1>f, <2>2, <2>4 DEF OwnerInv
  <2> QED
    BY <1>o, <2>1, <2>4, <2>5 DEF OwnerInv, owner, telegram
<1>a. CanAsk => settings + 1 <= MaxSettings /\ setting.op = "none"
  BY <1>f DEF CanAsk
<1>b. BehindBacklog \in 0..(arrived + 1) /\ Larger(forgotten, arrived) \in 1..(arrived + 1)
  BY <1>f DEF BehindBacklog, Larger
<1>c. \A op \in Ops, offset \in 0..(arrived + 1) :
        LET r == [op |-> op, offset |-> offset]
        IN  r \in [op : Ops, offset : 0..(arrived + 1)] /\ r.op = op /\ r.offset = offset
  OBVIOUS
<1>d. {"none", "connect", "edit", "rotate"} \subseteq Ops /\ 0 \in 0..(arrived + 1)
  BY <1>f DEF Ops
<1>5. ASSUME Connect PROVE OwnerInv'
  <2>1. /\ connection = None /\ settings' = settings + 1 /\ settings + 1 <= MaxSettings
        /\ setting' = [op |-> "connect", offset |-> BehindBacklog]
        /\ forgotten' = Larger(forgotten, arrived) /\ backlog' = arrived
        /\ UNCHANGED <<arrived, risked, connection, row, poll, faults>>
    BY <1>5, <1>a DEF Connect, Begins, SkipBacklog
  <2>2. setting' \in [op : Ops, offset : 0..(arrived + 1)] /\ setting'.op = "connect"
    BY <1>b, <1>c, <1>d, <2>1
  <2>3. poll'.id < settings' /\ settings' \in 0..MaxSettings
    BY <1>o, <1>f, <2>1
  <2> QED
    BY <1>o, <1>f, <1>b, <2>1, <2>2, <2>3 DEF OwnerInv
<1>e. connection # None =>
        connection \in [id : 1..(settings + 1), version : 1..(settings + 1), offset : 0..(arrived + 1)]
  BY <1>o, <1>f DEF OwnerInv
<1>6. ASSUME Edit PROVE OwnerInv'
  <2>1. /\ connection # None /\ settings' = settings + 1 /\ settings + 1 <= MaxSettings
        /\ setting' = [op |-> "edit", offset |-> connection.offset]
        /\ UNCHANGED <<arrived, forgotten, risked, backlog, connection, row, poll, faults>>
    BY <1>6, <1>a DEF Edit, Begins, telegram
  <2>2. setting' \in [op : Ops, offset : 0..(arrived + 1)] /\ setting'.op = "edit"
    BY <1>c, <1>d, <1>e, <2>1
  <2> QED
    BY <1>o, <1>f, <1>e, <2>1, <2>2 DEF OwnerInv
<1>7. ASSUME Rotate PROVE OwnerInv'
  <2>1. /\ connection # None /\ settings' = settings + 1 /\ settings + 1 <= MaxSettings
        /\ setting' = [op |-> "rotate", offset |-> 0] /\ connection' = [connection EXCEPT !.version = @ + 1]
        /\ UNCHANGED <<arrived, forgotten, risked, row, poll, faults>> /\ backlog' = arrived
    BY <1>7, <1>a DEF Rotate, Begins, telegram
  <2>2. setting' \in [op : Ops, offset : 0..(arrived + 1)] /\ setting'.op = "rotate"
    BY <1>c, <1>d, <2>1
  <2>3. connection' \in [id : 1..(settings + 1), version : 1..(settings + 1), offset : 0..(arrived + 1)]
    BY <1>f, <1>e, <2>1
  <2>4. connection' # None
    BY <1>f, <2>3
  <2> QED
    BY <1>o, <1>f, <2>1, <2>2, <2>3, <2>4 DEF OwnerInv
<1>8. ASSUME RotateBacklog PROVE OwnerInv'
  <2>1. /\ setting.op = "rotate" /\ setting' = [op |-> "edit", offset |-> BehindBacklog]
        /\ forgotten' = Larger(forgotten, arrived) /\ backlog' = arrived
        /\ UNCHANGED <<arrived, risked, connection, row, poll, settings, faults>>
    BY <1>8 DEF RotateBacklog, SkipBacklog
  <2>2. setting' \in [op : Ops, offset : 0..(arrived + 1)] /\ setting'.op = "edit"
    BY <1>b, <1>c, <1>d, <2>1
  <2> QED
    BY <1>o, <1>f, <1>b, <2>1, <2>2 DEF OwnerInv
<1>9. ASSUME Save PROVE OwnerInv'
  <2>1. /\ setting.op \in {"connect", "edit"} /\ setting' = [op |-> "none", offset |-> 0]
        /\ connection' = IF setting.op = "edit" THEN [connection EXCEPT !.offset = setting.offset]
                         ELSE [id |-> settings, version |-> 1, offset |-> setting.offset]
        /\ UNCHANGED <<telegram, row, poll, settings, backlog, faults>>
    BY <1>9 DEF Save
  <2>2. setting' \in [op : Ops, offset : 0..(arrived + 1)] /\ setting'.op = "none"
    BY <1>c, <1>d, <2>1
  <2>3. connection' \in [id : 1..settings, version : 1..settings, offset : 0..(arrived + 1)]
    BY <1>o, <1>f, <2>1 DEF OwnerInv
  <2>4. connection' # None
    BY <1>f, <2>3
  <2> QED
    BY <1>o, <2>1, <2>2, <2>3, <2>4 DEF OwnerInv, telegram
<1>10. ASSUME Disconnect PROVE OwnerInv'
  <2>1. /\ settings' = settings + 1 /\ settings + 1 <= MaxSettings /\ connection' = None /\ setting.op = "none"
        /\ \A u \in Updates : row'[u] = None
        /\ UNCHANGED <<telegram, poll, setting, backlog, faults>>
    BY <1>10, <1>a DEF Disconnect
  <2> QED
    BY <1>o, <1>f, <2>1 DEF OwnerInv, telegram
<1>11. ASSUME Arrive PROVE OwnerInv'
  <2>1. arrived' = arrived + 1 /\ arrived < MaxUpdates
        /\ UNCHANGED <<forgotten, risked, connection, row, poll, owner, faults>>
    BY <1>11 DEF Arrive
  <2>2. connection # None =>
          connection \in [id : 1..settings, version : 1..settings, offset : 0..(arrived + 1 + 1)]
    BY <1>f, <1>o DEF OwnerInv
  <2>3. setting \in [op : Ops, offset : 0..(arrived + 1 + 1)]
    BY <1>f
  <2> QED
    BY <1>o, <1>f, <2>1, <2>2, <2>3 DEF OwnerInv, owner
<1>12. ASSUME Restart PROVE OwnerInv'
  <2>1. /\ setting' = [op |-> "none", offset |-> 0] /\ faults' \in 0..MaxFaults
        /\ UNCHANGED <<telegram, connection, row, settings, backlog>>
    BY <1>12, <1>o, Faulty DEF Restart, OwnerInv
  <2>2. setting' \in [op : Ops, offset : 0..(arrived + 1)] /\ setting'.op = "none"
    BY <1>c, <1>d, <2>1
  <2> QED
    BY <1>o, <2>1, <2>2 DEF OwnerInv, telegram
<1>13. ASSUME UNCHANGED vars PROVE OwnerInv'
  BY <1>o, <1>13 DEF OwnerInv, vars, telegram, owner
<1> QED
  BY QuietSteps, <1>1, <1>2, <1>3, <1>4, <1>5, <1>6, <1>7, <1>8, <1>9, <1>10, <1>11, <1>12, <1>13
     DEF Next, Broker, Owner

Onwards == settings \in Nat /\ settings' \in Nat /\ settings <= settings' /\ arrived \in Nat /\ arrived' \in Nat /\ arrived <= arrived'

\* What PollInv says of the places and the numbers
PollFacts ==
  /\ poll \in PollType /\ poll.id \in Nat /\ poll.offset \in Nat /\ poll.at \in Nat /\ poll.to \in Nat /\ poll.last \in Nat
  /\ poll.next \in Nat /\ poll.first \in Nat /\ poll.fresh \subseteq Updates /\ poll.pending \subseteq Pending
  /\ poll.id <= settings /\ poll.offset <= arrived + 1 /\ poll.to <= arrived /\ poll.first <= MaxUpdates

LEMMA PollFactsHold ==
    ASSUME PollInv
    PROVE  PollFacts
  BY DEF PollInv, PollFacts, PollType

LEMMA Settled ==
    ASSUME PollInv, Onwards
    PROVE  /\ poll' = poll => PollInv'
           /\ poll' = Idle => PollInv'
           /\ Throws => PollInv'
<1>f. PollFacts
  BY PollFactsHold
<1>1. ASSUME poll' = poll PROVE PollInv'
  BY <1>1, <1>f DEF PollInv, PollFacts, Onwards, PendingOK, Windowed, Batch
<1>2. ASSUME poll' = Idle PROVE PollInv'
  <2>1. /\ poll' \in PollType /\ poll'.pc = "idle" /\ poll'.id = 0 /\ poll'.offset = 0 /\ poll'.to = 0 /\ poll'.first = 0
        /\ poll'.fresh = {} /\ poll'.pending = {}
    BY <1>2, IdleType DEF Idle
  <2>2. ~Windowed' /\ ~Batch' /\ PendingOK'
    BY <2>1 DEF PendingOK, Windowed, Batch, Sorting, Asking, Sync
  <2>3. poll'.id <= settings' /\ poll'.offset <= arrived' + 1 /\ poll'.to <= arrived' /\ poll'.first <= MaxUpdates
    <3>1. \A n \in Nat : 0 <= n /\ 0 <= n + 1
      OBVIOUS
    <3>2. 0 <= MaxUpdates
      BY BrokerAssumption
    <3> QED
      BY <2>1, <3>1, <3>2, Zenon DEF Onwards
  <2> QED
    BY <2>1, <2>2, <2>3 DEF PollInv, Asking
<1>3. ASSUME poll.pc \in Excused, Shifts("excuse") PROVE PollInv'
  BY <1>3, <1>f DEF PollInv, PollFacts, Onwards, PendingOK, Windowed, Batch, Shifts, Moves, Turned, Like, Sorting, Asking,
     Sync, Excused
<1>4. ASSUME poll.pc \in Sync, poll.then = "advance", Moves("advance", poll.fresh, poll.then, {}, poll.answer, poll.streamed)
      PROVE  PollInv'
  BY <1>4, <1>f DEF PollInv, PollFacts, Onwards, PendingOK, Windowed, Batch, Moves, Turned, Like, Sorting, Asking, Sync
<1> QED
  BY <1>1, <1>2, <1>3, <1>4 DEF Throws

LEMMA PollStep ==
    ASSUME TypeInv, [Next]_vars
    PROVE  PollInv'
<1> USE DEF TypeInv
<1>h. /\ poll \in PollType /\ PendingOK /\ row \in [Updates -> Rows \cup {None}]
      /\ connection # None => connection.id \in Nat /\ connection.version \in Nat /\ connection.offset \in Nat
      /\ arrived \in Nat /\ forgotten \in Nat
      /\ poll.pc = "reserve" => poll.next \in Nat /\ (poll.next <= poll.last => poll.next \in Updates)
      /\ poll.pc = "turn" => poll.first \in Updates
      /\ \A u \in Updates : request[u].state = "answered" => request[u].answer \in Answers
  BY Hypotheses
<1>o. /\ arrived \in Nat /\ arrived <= MaxUpdates /\ forgotten \in Nat /\ forgotten >= 1 /\ forgotten <= arrived + 1
      /\ settings \in Nat
      /\ connection # None => connection.id <= settings /\ connection.offset <= arrived + 1
  BY OwnerFacts
<1>f. PollInv /\ PollFacts
  BY PollFactsHold
<1>n. Onwards
  <2>1. arrived' = arrived \/ arrived' = arrived + 1
    BY DEF Next, Broker, Control, Owner, vars, telegram, owner, Poll, ListPending, Send, Mark, DeliveryEnds, Fetch, Compose,
       Recheck, Group, Reserve, ReserveRefused, Sort, Reply, Close, Ask, Stream, Answered, TurnFails, SaveSession, Stage,
       Rest, Excuse, ExcuseRest, Advance, Verify, Claim, TurnEnds, Connect, Edit, Rotate, RotateBacklog, Save, Disconnect,
       Fails, Arrive, Restart, GetUpdates, FinishUpdates, StageResponse, SkipBacklog
  <2>2. settings' = settings \/ settings' = settings + 1
    BY DEF Next, Broker, Control, Owner, vars, telegram, owner, Poll, ListPending, Send, Mark, DeliveryEnds, Fetch, Compose,
       Recheck, Group, Reserve, ReserveRefused, Sort, Reply, Close, Ask, Stream, Answered, TurnFails, SaveSession, Stage,
       Rest, Excuse, ExcuseRest, Advance, Verify, Claim, TurnEnds, Connect, Edit, Rotate, RotateBacklog, Save, Disconnect,
       Fails, Arrive, Restart, GetUpdates, FinishUpdates, StageResponse, SkipBacklog, Begins
  <2> QED
    BY <1>o, <2>1, <2>2 DEF Onwards
<1>s. (poll' = poll => PollInv') /\ (poll' = Idle => PollInv') /\ (Throws => PollInv')
  BY <1>n, Settled
<1> USE DEF PollInv, PollFacts, Onwards, PendingOK, Windowed, Batch, Shifts, Moves, Turned, Like, Sorting, Asking, Sync
<1>1. ASSUME Poll PROVE PollInv'
  <2>1. Starts \/ poll' = Idle
    BY <1>1, <1>h, Delivering
  <2>2. connection # None
    BY <1>1 DEF Poll
  <2> QED
    BY <2>1, <2>2, <1>h, <1>o, <1>n, <1>s, BrokerAssumption DEF Starts
<1>2. ASSUME ListPending PROVE PollInv'
  <2>1. \/ poll.pc = "list" /\ Moves("deliver", poll.fresh, poll.then, Listed, poll.answer, poll.streamed)
        \/ Throws
    BY <1>2, <1>h, Delivering
  <2>2. \A p \in Listed : Whole(p.response) /\ ~Delivered(p.response)
    BY DEF Listed, RowInv, Staged
  <2> QED
    BY <2>1, <2>2, <1>f, <1>n, <1>s
<1>3. ASSUME NEW p \in poll.pending, Send(p) PROVE PollInv'
  <2>1. (Shifts("mark") /\ poll.pc = "deliver") \/ Throws
    BY <1>3, <1>h, Delivering
  <2> QED
    BY <2>1, <1>f, <1>n, <1>s
<1>4. ASSUME NEW p \in poll.pending, Mark(p) PROVE PollInv'
  <2>1. \/ poll.pc = "mark" /\ Moves("deliver", poll.fresh, poll.then, Remarked(p), poll.answer, poll.streamed)
        \/ Throws
    BY <1>4, <1>h, Delivering
  <2>2. \A q \in Remarked(p) : Whole(q.response) /\ ~Delivered(q.response)
    <3>1. p \in Pending /\ Whole(p.response) /\ ~Delivered(p.response)
      BY <1>h DEF PollType
    <3>2. p.response \in Responses
      BY <3>1 DEF Pending
    <3>3. Whole(Counted(p.response))
      BY <3>1, <3>2, CountedType
    <3>4. \A r : [p EXCEPT !.response = r].response = r
      BY <3>1 DEF Pending
    <3> QED
      BY <1>h, <3>3, <3>4 DEF Remarked
  <2> QED
    BY <2>1, <2>2, <1>f, <1>n, <1>s
<1>5. ASSUME DeliveryEnds PROVE PollInv'
  <2>1. Shifts(poll.then) /\ poll.pc = "deliver" /\ poll.pending = {} /\ poll.then \in {"fetch", "advance"}
    BY <1>5, <1>h, Delivering DEF PollType
  <2> QED
    BY <2>1, <1>f, <1>n, <1>s
<1>6. ASSUME Fetch PROVE PollInv'
  <2>1. poll.pc = "fetch" /\ (Looks("check", poll.offset, Larger(forgotten, poll.offset), arrived) \/ poll' = Idle)
    BY <1>6, <1>h, Looking
  <2>2. Larger(forgotten, poll.offset) \in Nat /\ 1 <= Larger(forgotten, poll.offset)
    BY <1>f, <1>o DEF Larger
  <2> QED
    BY <2>1, <2>2, <1>f, <1>n, <1>s DEF Looks
<1>7. ASSUME Compose PROVE PollInv'
  <2>1. poll.pc = "check" /\ (Looks("recheck", poll.offset, poll.at, arrived) \/ poll' = Idle)
    BY <1>7, <1>h, Looking
  <2> QED
    BY <2>1, <1>f, <1>n, <1>s DEF Looks
<1>8. ASSUME Recheck PROVE PollInv'
  <2>1. poll.pc \in {"check", "recheck"} /\ (Looks("group", 0, poll.at, poll.to) \/ poll' = Idle)
    BY <1>8, <1>h, Looking
  <2> QED
    BY <2>1, <1>f, <1>n, <1>s DEF Looks
<1>9. ASSUME Group PROVE PollInv'
  <2>1. poll.pc = "group" /\ (poll' = Idle \/ \E last \in poll.at..poll.to : Groups(last))
    BY <1>9, <1>h, Looking
  <2> QED
    BY <2>1, <1>f, <1>n, <1>s, BrokerAssumption DEF Groups
<1>10. ASSUME Reserve PROVE PollInv'
  <2>1. poll.pc = "reserve" /\ poll.next <= poll.last /\ (Reserves(Fresh, First) \/ poll' = Idle)
    BY <1>10, <1>h, Sorted
  <2>2. poll.next \in Updates
    BY <1>h, <2>1
  <2> QED
    BY <2>1, <2>2, <1>f, <1>n, <1>s, BrokerAssumption DEF Reserves, Fresh, First, Updates
<1>11. ASSUME ReserveRefused PROVE PollInv'
  BY <1>11, <1>s DEF ReserveRefused
<1>12. ASSUME Sort PROVE PollInv'
  <2>1. /\ poll.pc = "reserve"
        /\ \/ poll.fresh = {} /\ Shifts("advance")
           \/ poll.fresh # {} /\ \E pc \in {"close", "reply", "ask"} : Shifts(pc)
    BY <1>12, <1>h, Sorted
  <2>2. Batch
    BY <2>1
  <2> QED
    BY <2>1, <2>2, <1>f, <1>n, <1>s
<1>13. ASSUME Reply PROVE PollInv'
  <2>1. poll.pc = "reply" /\ (Shifts("close") \/ poll' = Idle)
    BY <1>13, <1>h, Sorted
  <2> QED
    BY <2>1, <1>f, <1>n, <1>s
<1>14. ASSUME Close PROVE PollInv'
  <2>1. poll.pc = "close" /\ (Shifts("advance") \/ poll' = Idle)
    BY <1>14, <1>h, Sorted
  <2> QED
    BY <2>1, <1>f, <1>n, <1>s
<1>15. ASSUME Ask PROVE PollInv'
  <2>1. poll.pc = "ask" /\ Moves("turn", poll.fresh, poll.then, poll.pending, None, FALSE)
    BY <1>15, <1>h, Asked
  <2> QED
    BY <2>1, <1>f, <1>n, <1>s
<1>16. ASSUME Stream PROVE PollInv'
  <2>1. poll.pc = "turn" /\ \E streamed \in BOOLEAN :
                             Moves("turn", poll.fresh, poll.then, poll.pending, poll.answer, streamed)
    BY <1>16, <1>h, Asked
  <2> QED
    BY <2>1, <1>f, <1>n, <1>s
<1>17. ASSUME Answered PROVE PollInv'
  <2>1. poll.pc = "turn"
        /\ Moves("session", poll.fresh, poll.then, poll.pending, request[poll.first].answer, poll.streamed)
    BY <1>17, <1>h, Asked
  <2> QED
    BY <2>1, <1>f, <1>n, <1>s
<1>18. ASSUME TurnFails PROVE PollInv'
  <2>1. poll.pc = "turn" /\ Shifts("excuse")
    BY <1>18, <1>h, Asked
  <2> QED
    BY <2>1, <1>f, <1>n, <1>s
<1>19. ASSUME SaveSession PROVE PollInv'
  <2>1. poll.pc = "session" /\ (Shifts("stage") \/ Shifts("rest") \/ Shifts("excuse"))
    BY <1>19, <1>h, Asked
  <2> QED
    BY <2>1, <1>f, <1>n, <1>s
<1>20. ASSUME Stage PROVE PollInv'
  <2>1. /\ poll.pc = "stage"
        /\ \/ Moves("rest", Others, poll.then, poll.pending, poll.answer, poll.streamed)
           \/ Shifts("excuse")
    BY <1>20, <1>h, Asked
  <2> QED
    BY <2>1, <1>f, <1>n, <1>s DEF Others
<1>21. ASSUME Rest PROVE PollInv'
  <2>1. /\ poll.pc = "rest"
        /\ \/ Shifts("advance")
           \/ Moves("list", poll.fresh, "advance", poll.pending, poll.answer, poll.streamed)
           \/ Shifts("excuse")
    BY <1>21, <1>h, Asked
  <2> QED
    BY <2>1, <1>f, <1>n, <1>s
<1>22. ASSUME Excuse PROVE PollInv'
  <2>1. /\ poll.pc = "excuse"
        /\ Moves("excused", Others, poll.then, poll.pending, poll.answer, poll.streamed) \/ poll' = Idle
    BY <1>22, <1>h, Asked
  <2> QED
    BY <2>1, <1>f, <1>n, <1>s DEF Others
<1>23. ASSUME ExcuseRest PROVE PollInv'
  <2>1. /\ poll.pc = "excused"
        /\ Moves("list", poll.fresh, "advance", poll.pending, poll.answer, poll.streamed) \/ poll' = Idle
    BY <1>23, <1>h, Asked
  <2> QED
    BY <2>1, <1>f, <1>n, <1>s
<1>24. ASSUME Advance PROVE PollInv'
  <2>1. poll.pc = "advance" /\ (Advances \/ poll' = Idle)
    BY <1>24, <1>h, Asked
  <2> QED
    BY <2>1, <1>f, <1>n, <1>s, BrokerAssumption DEF Advances
<1>25. ASSUME Fails PROVE PollInv'
  BY <1>25, <1>h, <1>s, Asked
<1>26. ASSUME Control \/ Owner \/ Arrive \/ Restart \/ UNCHANGED vars PROVE PollInv'
  <2>1. poll' = poll \/ poll' = Idle
    BY <1>26 DEF Control, Verify, Claim, TurnEnds, Owner, Connect, Edit, Rotate, RotateBacklog, Save, Disconnect, Arrive,
       Restart, vars
  <2> QED
    BY <2>1, <1>s
<1> QED
  BY <1>1, <1>2, <1>3, <1>4, <1>5, <1>6, <1>7, <1>8, <1>9, <1>10, <1>11, <1>12, <1>13, <1>14, <1>15, <1>16, <1>17,
     <1>18, <1>19, <1>20, <1>21, <1>22, <1>23, <1>24, <1>25, <1>26 DEF Next, Broker

\* What is staged for the answer, and for a turn that failed
LEMMA StagedResponses ==
    ASSUME TypeInv
    PROVE  /\ poll.pc \in {"session", "stage", "rest"} =>
                /\ poll.answer \in Answers /\ poll.answer.texts \in Nat /\ poll.answer.files \in Nat
                /\ poll.answer.texts <= MaxTexts /\ poll.answer.files <= MaxFiles
                /\ poll.streamed => poll.answer.texts > 0
           /\ poll.pc = "stage" =>
                LET r == AnswerResponse(poll.answer)
                IN  /\ r \in Responses /\ Whole(r) /\ ~Delivered(r) /\ r.kind = "answer" /\ r.file = 0
                    /\ r.final = "delivered" /\ r.texts = poll.answer.texts /\ r.files = poll.answer.files
                    /\ IF poll.streamed THEN r.text = 1 ELSE r.text = 0
           /\ LET r == Response("failure", 1, 0, "failed")
              IN  /\ r \in Responses /\ Whole(r) /\ ~Delivered(r) /\ r.kind = "failure" /\ r.final = "failed"
                  /\ r.texts = 1 /\ r.files = 0 /\ r.text = 0 /\ r.file = 0
<1> USE BrokerAssumption DEF TypeInv
<1>1. ASSUME poll.pc \in {"session", "stage", "rest"}
      PROVE  /\ poll.answer \in Answers /\ poll.answer.texts \in Nat /\ poll.answer.files \in Nat
             /\ poll.answer.texts <= MaxTexts /\ poll.answer.files <= MaxFiles
             /\ poll.streamed => poll.answer.texts > 0
  <2>1. poll.first \in Updates
    BY <1>1 DEF PollInv, Asking
  <2>2. poll.answer \in Answers /\ (poll.streamed => poll.answer.texts > 0)
    BY <1>1, <2>1 DEF AnswerInv
  <2> QED
    BY <2>2 DEF Answers
<1>2. /\ Larger(MaxTexts, 1) \in Nat /\ MaxTexts <= Larger(MaxTexts, 1) /\ 1 <= Larger(MaxTexts, 1)
  BY DEF Larger
<1> DEFINE Made(kind, texts, files, text, final) == [Response(kind, texts, files, final) EXCEPT !.text = text]
           MadeOK(kind, texts, files, text, final) ==
             LET r == Made(kind, texts, files, text, final)
             IN  /\ r \in Responses /\ r.kind = kind /\ r.texts = texts /\ r.files = files /\ r.text = text /\ r.file = 0
                 /\ r.final = final
<1>3. ASSUME NEW kind \in {"answer", "failure"}, NEW texts \in 0..Larger(MaxTexts, 1), NEW files \in 0..MaxFiles,
             NEW text \in 0..Larger(MaxTexts, 1), NEW final \in {"delivered", "failed"}
      PROVE  MadeOK(kind, texts, files, text, final)
  BY DEF Responses, Response
<1> HIDE DEF MadeOK
<1>4. ASSUME poll.pc = "stage"
      PROVE  LET r == AnswerResponse(poll.answer)
             IN  /\ r \in Responses /\ Whole(r) /\ ~Delivered(r) /\ r.kind = "answer" /\ r.file = 0
                 /\ r.final = "delivered" /\ r.texts = poll.answer.texts /\ r.files = poll.answer.files
                 /\ IF poll.streamed THEN r.text = 1 ELSE r.text = 0
  <2> DEFINE n == poll.answer.texts - Remaining(poll.answer)
  <2>1. poll.streamed \in BOOLEAN
    BY DEF PollInv, PollType
  <2>2. n \in 0..Larger(MaxTexts, 1) /\ n = (IF poll.streamed THEN 1 ELSE 0) /\ n <= poll.answer.texts
    BY <1>1, <1>2, <1>4, <2>1 DEF Remaining
  <2>3. Remaining(poll.answer) + poll.answer.files > 0
    BY <1>4 DEF AnswerInv
  <2>4. ~(n = poll.answer.texts /\ 0 = poll.answer.files)
    BY <1>1, <1>4, <2>3, <2>2, <2>1 DEF Remaining
  <2>5. AnswerResponse(poll.answer)
          = [Response("answer", poll.answer.texts, poll.answer.files, "delivered") EXCEPT !.text = n]
    BY DEF AnswerResponse
  <2> HIDE DEF n
  <2>6. LET r == AnswerResponse(poll.answer)
        IN  /\ r \in Responses /\ r.kind = "answer" /\ r.texts = poll.answer.texts /\ r.files = poll.answer.files
            /\ r.text = n /\ r.file = 0 /\ r.final = "delivered"
    <3>1. poll.answer.texts \in 0..Larger(MaxTexts, 1) /\ poll.answer.files \in 0..MaxFiles
      BY <1>1, <1>2, <1>4
    <3>2. "answer" \in {"answer", "failure"} /\ "delivered" \in {"delivered", "failed"} /\ n \in 0..Larger(MaxTexts, 1)
      BY <2>2
    <3>3. MadeOK("answer", poll.answer.texts, poll.answer.files, n, "delivered")
      BY <1>3, <3>1, <3>2
    <3> QED
      BY <2>5, <3>3, Zenon DEF MadeOK
  <2> QED
    BY <1>1, <1>4, <2>2, <2>4, <2>6 DEF Whole, Delivered
<1>5. LET r == Response("failure", 1, 0, "failed")
      IN  /\ r \in Responses /\ Whole(r) /\ ~Delivered(r) /\ r.kind = "failure" /\ r.final = "failed"
          /\ r.texts = 1 /\ r.files = 0 /\ r.text = 0 /\ r.file = 0
  BY <1>2 DEF Response, Responses, Whole, Delivered
<1> QED
  BY <1>1, <1>4, <1>5

RowOK(r) ==
  r # None =>
    /\ r.state = "reserved" => r.response = None
    /\ r.response # None => Whole(r.response)
    /\ r.state = "dispatched" /\ r.response # None => ~Delivered(r.response)

LEMMA RowsOK ==
    ASSUME RowInv
    PROVE  \A u \in Updates : row[u] \in Rows \cup {None} /\ RowOK(row[u])
  BY DEF RowInv, RowOK, Staged

LEMMA FinishedRows ==
    ASSUME RowInv, NEW S, NEW state \in Final
    PROVE  /\ Finished(S, state) \in [Updates -> Rows \cup {None}]
           /\ \A u \in Updates :
                /\ RowOK(Finished(S, state)[u])
                /\ row[u] = None <=> Finished(S, state)[u] = None
                /\ row[u] # None => /\ Finished(S, state)[u].response = row[u].response
                                    /\ Finished(S, state)[u].state # "reserved" \/ row[u].state = "reserved"
                                    /\ \/ Finished(S, state)[u].state = row[u].state
                                       \/ u \in S /\ Ours /\ Open(u) /\ Finished(S, state)[u].state = state
<1>1. ASSUME NEW u \in Updates, row[u] # None
      PROVE  /\ [row[u] EXCEPT !.state = state] \in Rows /\ [row[u] EXCEPT !.state = state].state = state
             /\ [row[u] EXCEPT !.state = state].response = row[u].response
  BY <1>1 DEF RowInv, Rows
<1>2. ASSUME NEW u \in Updates
      PROVE  Finished(S, state)[u] = IF Ours /\ u \in S /\ Open(u) THEN [row[u] EXCEPT !.state = state] ELSE row[u]
  BY DEF Finished
<1>3. ASSUME NEW u \in Updates
      PROVE  /\ Finished(S, state)[u] \in Rows \cup {None}
             /\ RowOK(Finished(S, state)[u])
             /\ row[u] = None <=> Finished(S, state)[u] = None
             /\ row[u] # None => /\ Finished(S, state)[u].response = row[u].response
                                 /\ Finished(S, state)[u].state # "reserved" \/ row[u].state = "reserved"
                                 /\ \/ Finished(S, state)[u].state = row[u].state
                                    \/ u \in S /\ Ours /\ Open(u) /\ Finished(S, state)[u].state = state
  <2>1. CASE Ours /\ u \in S /\ Open(u)
    <3>1. row[u] # None
      BY <2>1 DEF Open
    <3>2. Finished(S, state)[u] = [row[u] EXCEPT !.state = state]
      BY <1>2, <2>1
    <3>3. /\ Finished(S, state)[u] \in Rows /\ Finished(S, state)[u].state = state
          /\ Finished(S, state)[u].response = row[u].response
      BY <1>1, <3>1, <3>2
    <3>4. Finished(S, state)[u] # None
      BY <3>3, NoneAssumption
    <3>5. state # "reserved" /\ state # "dispatched"
      BY DEF Final
    <3>6. row[u].response # None => Whole(row[u].response)
      BY <3>1, RowsOK DEF RowOK
    <3> QED
      BY <2>1, <3>1, <3>3, <3>4, <3>5, <3>6 DEF RowOK
  <2>2. CASE ~(Ours /\ u \in S /\ Open(u))
    BY <1>2, <2>2, RowsOK
  <2> QED
    BY <2>1, <2>2
<1>4. Finished(S, state) \in [Updates -> Rows \cup {None}]
  BY <1>3 DEF Finished
<1> QED
  BY <1>3, <1>4

RowsTyped == row' \in [Updates -> Rows \cup {None}] /\ \A u \in Updates : RowOK(row'[u])

\* A piece was sent and is counted.
CountedRow(p) ==
  LET r == Counted(p.response)
      m == row'[p.update]
  IN  /\ Ours /\ Staged(p.update) /\ m # None /\ m.response = r
      /\ IF Delivered(r) THEN m.state = r.final ELSE m.state = "dispatched"

LEMMA MarkedRows ==
    ASSUME TypeInv, NEW p \in poll.pending, Mark(p)
    PROVE  /\ RowsTyped /\ p.update \in Updates /\ p.response \in Responses
           /\ CountedRow(p) \/ row'[p.update] = row[p.update]
           /\ Ours /\ Staged(p.update) => CountedRow(p)
           /\ \A u \in Updates \ {p.update} : row'[u] = row[u]
<1> USE DEF TypeInv
<1>1. p.update \in Updates /\ p.response \in Responses /\ Whole(p.response) /\ ~Delivered(p.response)
  BY DEF PollInv, PollType, Pending, PendingOK
<1> DEFINE r == Counted(p.response)
<1>2. r \in Responses /\ Whole(r)
  BY <1>1, CountedType
<1>3. \A u \in Updates : row[u] \in Rows \cup {None} /\ RowOK(row[u])
  BY RowsOK
<1>t. row \in [Updates -> Rows \cup {None}]
  BY DEF RowInv
<1>4. CASE Ours /\ Staged(p.update)
  <2> HIDE DEF r
  <2>1. row' = [row EXCEPT ![p.update] = Marked(p.update, r)]
    BY <1>4 DEF Mark, r
  <2>2. row[p.update] \in Rows /\ row[p.update].state = "dispatched" /\ row[p.update].response # None
    BY <1>1, <1>3, <1>4 DEF Staged
  <2>3. ASSUME NEW state \in {"reserved", "dispatched"} \cup Final
        PROVE  LET m == [row[p.update] EXCEPT !.response = r, !.state = state]
               IN  m \in Rows /\ m.response = r /\ m.state = state
    BY <1>2, <2>2 DEF Rows
  <2>4. r.final \in Final
    BY <1>2 DEF Responses, Final
  <2> DEFINE state == IF Delivered(r) THEN r.final ELSE "dispatched"
  <2>5. Marked(p.update, r) = [row[p.update] EXCEPT !.response = r, !.state = state]
    BY <2>2 DEF Marked, Rows
  <2>6. state \in {"reserved", "dispatched"} \cup Final
    BY <2>4
  <2> HIDE DEF state
  <2>7. Marked(p.update, r) \in Rows /\ Marked(p.update, r).response = r /\ Marked(p.update, r).state = state
    BY <2>3, <2>5, <2>6
  <2>8. state # "reserved" /\ (state = "dispatched" => ~Delivered(r)) /\ Marked(p.update, r) # None
    BY <2>4, <2>7, NoneAssumption DEF state, Final
  <2>9. RowOK(Marked(p.update, r))
    BY <1>2, <2>7, <2>8 DEF RowOK
  <2>10. RowsTyped
    BY <1>3, <1>t, <2>1, <2>7, <2>9 DEF RowsTyped
  <2>11. row'[p.update] = Marked(p.update, r) /\ \A u \in Updates \ {p.update} : row'[u] = row[u]
    BY <1>1, <1>t, <2>1
  <2>12. CountedRow(p)
    BY <1>4, <2>7, <2>8, <2>11 DEF CountedRow, state, r
  <2> QED
    BY <1>1, <2>10, <2>11, <2>12
<1>5. CASE ~(Ours /\ Staged(p.update))
  <2>1. row' = row
    BY <1>5 DEF Mark
  <2> QED
    BY <1>1, <1>3, <1>5, <1>t, <2>1 DEF RowsTyped
<1> QED
  BY <1>4, <1>5

LEMMA NewRowType == NewRow \in Rows /\ NewRow # None /\ RowOK(NewRow) /\ NewRow.state = "reserved" /\ NewRow.response = None
<1>1. NewRow \in Rows /\ NewRow.state = "reserved" /\ NewRow.response = None
  BY DEF NewRow, Rows
<1> QED
  BY <1>1, NoneAssumption DEF RowOK

LEMMA ReservedRows ==
    ASSUME TypeInv, Reserve
    PROVE  /\ RowsTyped /\ poll.next \in Updates /\ Ours
           /\ row[poll.next] = None => row'[poll.next] = NewRow /\ Reserved(poll.next).fresh
           /\ row[poll.next] # None => row'[poll.next] = row[poll.next] /\ ~Reserved(poll.next).fresh
           /\ \A u \in Updates \ {poll.next} : row'[u] = row[u]
<1>1. poll.next \in Updates /\ Ours /\ row' = [row EXCEPT ![poll.next] = Reserved(poll.next).row]
  BY Hypotheses DEF Reserve
<1>2. \A u \in Updates : row[u] \in Rows \cup {None} /\ RowOK(row[u])
  BY RowsOK DEF TypeInv
<1>3. row \in [Updates -> Rows \cup {None}]
  BY DEF TypeInv, RowInv
<1>4. /\ row[poll.next] = None => Reserved(poll.next).row = NewRow /\ Reserved(poll.next).fresh
      /\ row[poll.next] # None => Reserved(poll.next).row = row[poll.next] /\ ~Reserved(poll.next).fresh
  BY DEF Reserved
<1>5. Reserved(poll.next).row \in Rows \cup {None} /\ RowOK(Reserved(poll.next).row)
  BY <1>1, <1>2, <1>4, NewRowType
<1> QED
  BY <1>1, <1>2, <1>3, <1>4, <1>5 DEF RowsTyped

\* A response is staged for the first message of the group.
StagedRow(response) == row'[poll.first] = [state |-> "dispatched", response |-> response]

LEMMA StagedRows ==
    ASSUME TypeInv, poll.first \in Updates, NEW response \in Responses, Whole(response), ~Delivered(response),
           row' = IF Ours /\ Open(poll.first)
                  THEN [row EXCEPT ![poll.first] = [state |-> "dispatched", response |-> response]]
                  ELSE row
    PROVE  /\ RowsTyped
           /\ Ours /\ Open(poll.first) => StagedRow(response)
           /\ ~(Ours /\ Open(poll.first)) => row'[poll.first] = row[poll.first]
           /\ \A u \in Updates \ {poll.first} : row'[u] = row[u]
<1> DEFINE m == [state |-> "dispatched", response |-> response]
<1>1. m \in Rows /\ m.state = "dispatched" /\ m.response = response
  BY DEF Rows
<1>2. RowOK(m)
  BY <1>1 DEF RowOK
<1>3. \A u \in Updates : row[u] \in Rows \cup {None} /\ RowOK(row[u])
  BY RowsOK DEF TypeInv
<1>4. row \in [Updates -> Rows \cup {None}]
  BY DEF TypeInv, RowInv
<1>5. row' = IF Ours /\ Open(poll.first) THEN [row EXCEPT ![poll.first] = m] ELSE row
  OBVIOUS
<1>6. StagedRow(response) <=> row'[poll.first] = m
  BY DEF StagedRow
<1> HIDE DEF m
<1> QED
  BY <1>1, <1>2, <1>3, <1>4, <1>5, <1>6 DEF RowsTyped

\* Control takes the message for a turn.
ClaimedRow(u) == /\ CanClaim(u) /\ row'[u] # None /\ row'[u].state = "dispatched" /\ row'[u].response = None
                 /\ row[u].response = None /\ turns' = [turns EXCEPT ![u] = @ + 1]
                 /\ request' = [request EXCEPT ![u].state = "running"]

LEMMA ClaimedRows ==
    ASSUME TypeInv, NEW v \in Updates, Claim(v)
    PROVE  /\ RowsTyped
           /\ \/ ClaimedRow(v)
              \/ row'[v] = row[v] /\ turns' = turns /\ request' = [request EXCEPT ![v].state = "refused"]
           /\ \A u \in Updates \ {v} : row'[u] = row[u]
<1>1. \A u \in Updates : row[u] \in Rows \cup {None} /\ RowOK(row[u])
  BY RowsOK DEF TypeInv
<1>2. row \in [Updates -> Rows \cup {None}]
  BY DEF TypeInv, RowInv
<1>3. CASE CanClaim(v)
  <2>1. row[v] # None /\ row[v] \in Rows /\ row[v].state = "reserved" /\ row[v].response = None
    BY <1>1, <1>3 DEF CanClaim, RowOK
  <2> DEFINE m == [row[v] EXCEPT !.state = "dispatched"]
  <2>2. m \in Rows /\ m.state = "dispatched" /\ m.response = None
    BY <2>1 DEF Rows
  <2>3. row' = [row EXCEPT ![v] = m]
    BY <1>3 DEF Claim
  <2>4. m # None /\ RowOK(m)
    BY <2>2, NoneAssumption DEF RowOK
  <2> HIDE DEF m
  <2>5. RowsTyped /\ row'[v] = m /\ \A u \in Updates \ {v} : row'[u] = row[u]
    BY <1>1, <1>2, <2>2, <2>3, <2>4 DEF RowsTyped
  <2>6. turns' = [turns EXCEPT ![v] = @ + 1] /\ request' = [request EXCEPT ![v].state = "running"]
    BY <1>3 DEF Claim
  <2>7. ClaimedRow(v)
    BY <1>3, <2>1, <2>2, <2>4, <2>5, <2>6 DEF ClaimedRow
  <2> QED
    BY <2>5, <2>7
<1>4. CASE ~CanClaim(v)
  <2>1. row' = row /\ turns' = turns /\ request' = [request EXCEPT ![v].state = "refused"]
    BY <1>4 DEF Claim
  <2> QED
    BY <1>1, <1>2, <2>1 DEF RowsTyped
<1> QED
  BY <1>3, <1>4

RequestStates == {"none", "sent", "verified", "running", "answered", "refused"}
Requests == [state : RequestStates, id : 0..MaxSettings, answer : Answers \cup {None}]

LEMMA RowStep ==
    ASSUME TypeInv, [Next]_vars
    PROVE  RowInv'
<1> USE BrokerAssumption DEF TypeInv
<1>r. RowsTyped /\ request' \in [Updates -> Requests] /\ turns' \in [Updates -> Nat] => RowInv'
  BY DEF RowsTyped, RowOK, RowInv, Staged, Requests, RequestStates
<1>h. /\ poll \in PollType /\ poll.id \in 0..MaxSettings /\ poll.first \in Nat
      /\ poll.pc \in Asking \cup {"ask"} => poll.first \in Updates
      /\ request \in [Updates -> Requests] /\ turns \in [Updates -> Nat] /\ row \in [Updates -> Rows \cup {None}]
      /\ poll.pc = "reserve" => poll.next \in Nat /\ (poll.next <= poll.last => poll.next \in Updates)
      /\ poll.pc = "turn" => poll.first \in Updates
      /\ \A u \in Updates : request[u].state = "answered" => request[u].answer \in Answers
  <2>1. poll.id \in Nat /\ poll.id <= settings /\ settings <= MaxSettings /\ settings \in Nat /\ poll \in PollType
        /\ poll.first \in Nat
    BY DEF OwnerInv, PollInv, PollType
  <2>2. poll.pc = "ask" => poll.first \in Updates
    BY DEF PollInv, PollType
  <2>3. poll.pc \in Asking => poll.first \in Updates
    BY DEF PollInv
  <2>4. /\ request \in [Updates -> Requests] /\ turns \in [Updates -> Nat] /\ row \in [Updates -> Rows \cup {None}]
    BY DEF RowInv, Requests, RequestStates
  <2>5. poll.id \in 0..MaxSettings
    BY <2>1
  <2> QED
    BY <2>1, <2>2, <2>3, <2>4, <2>5, Hypotheses
<1>s. UNCHANGED row => RowsTyped
  BY RowsOK, <1>h DEF RowsTyped
<1>1. ASSUME UNCHANGED <<row, request, turns>> PROVE RowInv'
  BY <1>1, <1>s, <1>r, <1>h
<1>2. ASSUME NEW p \in poll.pending, Mark(p) PROVE RowInv'
  <2>1. RowsTyped
    BY <1>2, MarkedRows
  <2> QED
    BY <1>2, <2>1, <1>r, <1>h DEF Mark
<1>3. ASSUME Reserve PROVE RowInv'
  <2>1. RowsTyped
    BY <1>3, ReservedRows
  <2> QED
    BY <1>3, <2>1, <1>r, <1>h DEF Reserve
<1>f. ASSUME NEW S, NEW state \in Final, row' = Finished(S, state) PROVE RowsTyped
  BY <1>f, FinishedRows DEF RowsTyped
<1>4. ASSUME Close PROVE RowInv'
  <2>1. poll.state \in Final
    BY <1>h DEF PollType, Final
  <2>2. RowsTyped
    BY <1>4, <1>f, <1>h, <2>1, Sorted
  <2> QED
    BY <1>4, <2>2, <1>r, <1>h DEF Close, FinishUpdates
<1>5. ASSUME Rest PROVE RowInv'
  <2>1. RowsTyped
    BY <1>5, <1>f, <1>h, Asked DEF Final
  <2> QED
    BY <1>5, <2>1, <1>r, <1>h DEF Rest, FinishUpdates
<1>6. ASSUME ExcuseRest PROVE RowInv'
  <2>1. RowsTyped
    BY <1>6, <1>f, <1>h, Asked DEF Final
  <2> QED
    BY <1>6, <2>1, <1>r, <1>h DEF ExcuseRest, FinishUpdates
<1>7. ASSUME Stage PROVE RowInv'
  <2>1. poll.pc = "stage" /\ StageResponse(AnswerResponse(poll.answer), [At("rest") EXCEPT !.fresh = @ \ {poll.first}])
        /\ poll.first \in Updates
    BY <1>7, <1>h DEF Stage, Asking
  <2>2. RowsTyped
    BY <2>1, StagedResponses, StagedRows DEF StageResponse
  <2> QED
    BY <2>1, <2>2, <1>r, <1>h DEF StageResponse
<1>8. ASSUME Excuse PROVE RowInv'
  <2>1. /\ StageResponse(Response("failure", 1, 0, "failed"), [At("excused") EXCEPT !.fresh = @ \ {poll.first}])
        /\ poll.first \in Updates
    BY <1>8, <1>h DEF Excuse, Asking
  <2>2. RowsTyped
    BY <2>1, StagedResponses, StagedRows DEF StageResponse
  <2> QED
    BY <2>1, <2>2, <1>r, <1>h DEF StageResponse
<1>9. ASSUME Ask PROVE RowInv'
  <2>1. [state |-> "sent", id |-> poll.id, answer |-> None] \in Requests
    BY <1>h DEF Requests, RequestStates
  <2>2. poll.first \in Updates
    BY <1>9, <1>h DEF Ask
  <2>3. UNCHANGED <<row, turns>> /\ request' = [request EXCEPT ![poll.first] = [state |-> "sent", id |-> poll.id, answer |-> None]]
    BY <1>9 DEF Ask
  <2>4. request' \in [Updates -> Requests]
    BY <1>h, <2>1, <2>2, <2>3
  <2> QED
    BY <2>3, <2>4, <1>s, <1>r, <1>h
<1>q. ASSUME NEW u \in Updates, NEW state \in RequestStates
      PROVE  [request EXCEPT ![u].state = state] \in [Updates -> Requests]
  <2>1. [request[u] EXCEPT !.state = state] \in Requests
    BY <1>h DEF Requests
  <2>2. [request EXCEPT ![u].state = state] = [request EXCEPT ![u] = [request[u] EXCEPT !.state = state]]
    BY <1>h
  <2> QED
    BY <1>h, <2>1, <2>2
<1>10. ASSUME NEW u \in Updates, Verify(u) PROVE RowInv'
  <2>1. UNCHANGED <<row, turns>> /\ \E state \in {"verified", "refused"} : request' = [request EXCEPT ![u].state = state]
    BY <1>10 DEF Verify
  <2>2. request' \in [Updates -> Requests]
    <3>1. PICK state \in {"verified", "refused"} : request' = [request EXCEPT ![u].state = state]
      BY <2>1
    <3>2. state \in RequestStates
      BY DEF RequestStates
    <3> QED
      BY <1>q, <3>1, <3>2, Zenon
  <2> QED
    BY <2>1, <2>2, <1>s, <1>r, <1>h
<1>11. ASSUME NEW u \in Updates, Claim(u) PROVE RowInv'
  <2>1. RowsTyped
    BY <1>11, ClaimedRows
  <2>2. request' \in [Updates -> Requests]
    <3>1. request' = [request EXCEPT ![u].state = "running"] \/ request' = [request EXCEPT ![u].state = "refused"]
      BY <1>11, ClaimedRows DEF ClaimedRow
    <3> QED
      BY <1>q, <3>1 DEF RequestStates
  <2>3. turns' \in [Updates -> Nat]
    <3>1. turns' = [turns EXCEPT ![u] = @ + 1] \/ turns' = turns
      BY <1>11, ClaimedRows DEF ClaimedRow
    <3> QED
      BY <1>h, <3>1
  <2> QED
    BY <2>1, <2>2, <2>3, <1>r
<1>12. ASSUME NEW u \in Updates, TurnEnds(u) PROVE RowInv'
  <2>1. /\ UNCHANGED <<row, turns>>
        /\ \/ request' = [request EXCEPT ![u].state = "refused"]
           \/ \E a \in Answers : request' = [request EXCEPT ![u].state = "answered", ![u].answer = a]
    BY <1>12 DEF TurnEnds
  <2>2. ASSUME NEW a \in Answers PROVE [request EXCEPT ![u].state = "answered", ![u].answer = a] \in [Updates -> Requests]
    <3>1. [request[u] EXCEPT !.state = "answered", !.answer = a] \in Requests
      BY <1>h DEF Requests, RequestStates
    <3>2. [request EXCEPT ![u].state = "answered", ![u].answer = a]
            = [request EXCEPT ![u] = [request[u] EXCEPT !.state = "answered", !.answer = a]]
      BY <1>h
    <3> QED
      BY <1>h, <3>1, <3>2
  <2>3. request' \in [Updates -> Requests]
    <3>1. "refused" \in RequestStates
      BY DEF RequestStates
    <3>2. [request EXCEPT ![u].state = "refused"] \in [Updates -> Requests]
      BY <1>q, <3>1, Zenon
    <3> QED
      BY <2>1, <2>2, <3>2, Zenon
  <2> QED
    BY <2>1, <2>3, <1>s, <1>r, <1>h
<1>13. ASSUME Disconnect PROVE RowInv'
  <2>1. UNCHANGED <<request, turns>> /\ row' = [u \in Updates |-> None]
    BY <1>13 DEF Disconnect
  <2>2. RowsTyped
    BY <2>1 DEF RowsTyped, RowOK
  <2> QED
    BY <2>1, <2>2, <1>r, <1>h
<1>14. ASSUME \/ Poll \/ ListPending \/ (\E p \in poll.pending : Send(p)) \/ DeliveryEnds \/ Fetch \/ Compose \/ Recheck \/ Group
              \/ ReserveRefused \/ Sort \/ Reply \/ Stream \/ Answered \/ TurnFails \/ SaveSession \/ Advance
              \/ Connect \/ Edit \/ Rotate \/ RotateBacklog \/ Save \/ Fails \/ Arrive \/ Restart \/ UNCHANGED vars
       PROVE  RowInv'
  <2>1. UNCHANGED <<row, request, turns>>
    BY <1>14 DEF Poll, ListPending, Send, DeliveryEnds, Fetch, Compose, GetUpdates, Recheck, Group, ReserveRefused, Sort, Reply,
       Stream, Answered, TurnFails, SaveSession, Advance, Connect, Edit, Rotate, RotateBacklog, Save, Fails, Arrive,
       Restart, vars
  <2> QED
    BY <2>1, <1>1
<1> QED
  BY <1>2, <1>3, <1>4, <1>5, <1>6, <1>7, <1>8, <1>9, <1>10, <1>11, <1>12, <1>13, <1>14 DEF Next, Broker, Control, Owner

PollKnows ==
  /\ poll.pc \in {"session", "stage", "rest"} =>
       /\ request[poll.first].state = "answered" /\ request[poll.first].answer = poll.answer
  /\ poll.pc \in {"turn", "session", "stage", "rest"} /\ poll.streamed => Previewed(poll.first)
  /\ poll.pc = "stage" => Remaining(poll.answer) + poll.answer.files > 0
  /\ poll.pc = "rest" /\ poll.first \in poll.fresh => ~(Remaining(poll.answer) + poll.answer.files > 0)

RequestsOK ==
  \A u \in Updates : request[u].state = "answered" =>
     request[u].answer \in Answers /\ (Previewed(u) => request[u].answer.texts > 0)

LEMMA AnswerStep ==
    ASSUME TypeInv, [Next]_vars
    PROVE  AnswerInv'
<1> USE DEF TypeInv
<1>a. PollKnows' /\ RequestsOK' => AnswerInv'
  BY DEF PollKnows, RequestsOK, AnswerInv
<1>b. PollKnows /\ RequestsOK
  BY DEF PollKnows, RequestsOK, AnswerInv
<1>h. /\ poll \in PollType /\ PendingOK /\ row \in [Updates -> Rows \cup {None}]
      /\ connection # None => connection.id \in Nat /\ connection.version \in Nat /\ connection.offset \in Nat
      /\ arrived \in Nat /\ forgotten \in Nat
      /\ poll.pc = "reserve" => poll.next \in Nat /\ (poll.next <= poll.last => poll.next \in Updates)
      /\ poll.pc = "turn" => poll.first \in Updates
      /\ \A u \in Updates : request[u].state = "answered" => request[u].answer \in Answers
  BY Hypotheses
<1>r. request \in [Updates -> Requests] /\ (poll.pc \in Asking \cup {"ask"} => poll.first \in Updates)
  <2>1. request \in [Updates -> Requests]
    BY DEF RowInv, Requests, RequestStates
  <2>2. poll.pc \in Asking \cup {"ask"} => poll.first \in Updates
    BY DEF PollInv, PollType
  <2> QED
    BY <2>1, <2>2
\* The poll is not about to deliver an answer.
<1>c. poll'.pc \notin {"turn", "session", "stage", "rest"} => PollKnows'
  BY DEF PollKnows
<1>d. ASSUME UNCHANGED request, \A u \in Updates : Previewed(u)' => Previewed(u) PROVE RequestsOK'
  BY <1>b, <1>d DEF RequestsOK
<1>e. UNCHANGED <<request, shown>> => RequestsOK'
  BY <1>d DEF Previewed
<1>t. Throws => poll'.pc \notin {"turn", "session", "stage", "rest"}
  BY DEF Throws, Shifts, Moves, Turned, Idle
<1>i. poll' = Idle => poll'.pc \notin {"turn", "session", "stage", "rest"}
  BY DEF Idle
<1>m. \A pc, fresh, then, pending, answer, streamed : Moves(pc, fresh, then, pending, answer, streamed) => poll'.pc = pc
  BY DEF Moves, Turned
<1>s. \A pc : Shifts(pc) => poll'.pc = pc
  BY DEF Shifts, Moves, Turned
<1>1. ASSUME Poll \/ ListPending \/ DeliveryEnds \/ (\E p \in poll.pending : Mark(p)) \/ Fetch \/ Compose \/ Recheck \/ Group
      PROVE  AnswerInv'
  <2>1. UNCHANGED <<request, shown>>
    BY <1>1 DEF Poll, ListPending, DeliveryEnds, Mark, Fetch, Compose, GetUpdates, Recheck, Group
  <2>2. poll.then \in {"fetch", "advance"}
    BY <1>h DEF PollType
  <2>3. poll'.pc \notin {"turn", "session", "stage", "rest"}
    <3>1. Poll => Starts \/ poll' = Idle
      BY <1>h, Delivering
    <3>2. ListPending => Moves("deliver", poll.fresh, poll.then, Listed, poll.answer, poll.streamed) \/ Throws
      BY <1>h, Delivering
    <3>3. ASSUME NEW p \in poll.pending, Mark(p)
          PROVE  Moves("deliver", poll.fresh, poll.then, Remarked(p), poll.answer, poll.streamed) \/ Throws
      BY <1>h, <3>3, Delivering
    <3>4. DeliveryEnds => Shifts(poll.then)
      BY <1>h, Delivering
    <3>5. Fetch => Looks("check", poll.offset, Larger(forgotten, poll.offset), arrived) \/ poll' = Idle
      BY <1>h, Looking
    <3>6. Compose => Looks("recheck", poll.offset, poll.at, arrived) \/ poll' = Idle
      BY <1>h, Looking
    <3>7. Recheck => Looks("group", 0, poll.at, poll.to) \/ poll' = Idle
      BY <1>h, Looking
    <3>8. Group => poll' = Idle \/ \E last \in poll.at..poll.to : Groups(last)
      BY <1>h, Looking
    <3> QED
      BY <1>1, <1>t, <1>i, <1>m, <1>s, <2>2, <3>1, <3>2, <3>3, <3>4, <3>5, <3>6, <3>7, <3>8 DEF Starts, Looks, Groups
  <2> QED
    BY <1>a, <1>c, <1>e, <2>1, <2>3
<1>2. ASSUME NEW p \in poll.pending, Send(p) PROVE AnswerInv'
  <2>1. p.response.kind # "preview"
    BY <1>h DEF PollType, Pending, Responses
  <2>2. UNCHANGED request /\ \E piece : shown' = shown \cup {<<p.update, p.response.kind, piece>>}
    BY <1>2 DEF Send
  <2>3. \A u \in Updates : Previewed(u)' => Previewed(u)
    BY <2>1, <2>2 DEF Previewed
  <2>4. poll'.pc \notin {"turn", "session", "stage", "rest"}
    BY <1>2, <1>h, <1>t, <1>s, Delivering
  <2> QED
    BY <1>a, <1>c, <1>d, <2>2, <2>3, <2>4
<1>3. ASSUME Reserve \/ ReserveRefused \/ Sort \/ Reply \/ Close PROVE AnswerInv'
  <2>1. UNCHANGED <<request, shown>>
    BY <1>3 DEF Reserve, ReserveRefused, Sort, Reply, Close, FinishUpdates
  <2>2. \/ poll' = Idle \/ Reserves(Fresh, First) \/ Shifts("advance") \/ Shifts("close") \/ Shifts("reply") \/ Shifts("ask")
    BY <1>3, <1>h, Sorted
  <2>3. poll'.pc \notin {"turn", "session", "stage", "rest"}
    BY <2>2, <1>i, <1>s DEF Reserves
  <2> QED
    BY <1>a, <1>c, <1>e, <2>1, <2>3
<1>4. ASSUME Ask PROVE AnswerInv'
  <2>1. /\ poll.pc = "ask" /\ Moves("turn", poll.fresh, poll.then, poll.pending, None, FALSE) /\ UNCHANGED shown
        /\ request' = [request EXCEPT ![poll.first] = [state |-> "sent", id |-> poll.id, answer |-> None]]
    BY <1>4, <1>h, Asked DEF Ask
  <2>2. PollKnows'
    BY <2>1 DEF PollKnows, Moves, Turned, Like
  <2>3. RequestsOK'
    BY <1>b, <1>r, <2>1 DEF RequestsOK, Previewed
  <2> QED
    BY <1>a, <2>2, <2>3
<1>5. ASSUME Stream PROVE AnswerInv'
  <2>1. /\ poll.pc = "turn" /\ request[poll.first].state = "running"
        /\ shown' = shown \cup {<<poll.first, "preview", <<"text", 1>>>>} /\ UNCHANGED request
        /\ poll'.pc = "turn" /\ poll'.first = poll.first
    BY <1>5, <1>h, Asked DEF Stream, Moves, Turned, Like
  <2>2. PollKnows'
    BY <2>1 DEF PollKnows, Previewed
  <2>3. RequestsOK'
    BY <1>b, <2>1 DEF RequestsOK, Previewed
  <2> QED
    BY <1>a, <2>2, <2>3
<1>6. ASSUME Answered PROVE AnswerInv'
  <2>1. /\ poll.pc = "turn" /\ request[poll.first].state = "answered" /\ UNCHANGED <<request, shown>>
        /\ Moves("session", poll.fresh, poll.then, poll.pending, request[poll.first].answer, poll.streamed)
    BY <1>6, <1>h, Asked DEF Answered
  <2>2. PollKnows'
    BY <1>b, <2>1 DEF PollKnows, Previewed, Moves, Turned, Like
  <2> QED
    BY <1>a, <1>e, <2>1, <2>2
<1>7. ASSUME TurnFails \/ Rest \/ Excuse \/ ExcuseRest \/ Advance \/ Fails PROVE AnswerInv'
  <2>1. UNCHANGED <<request, shown>>
    BY <1>7 DEF TurnFails, Rest, Excuse, ExcuseRest, Advance, Fails, FinishUpdates, StageResponse
  <2>2. poll'.pc \notin {"turn", "session", "stage", "rest"}
    <3>1. TurnFails => Shifts("excuse")
      BY <1>h, Asked
    <3>2. Rest => \/ Shifts("advance")
                  \/ Moves("list", poll.fresh, "advance", poll.pending, poll.answer, poll.streamed)
                  \/ Shifts("excuse")
      BY <1>h, Asked
    <3>3. Excuse => Moves("excused", Others, poll.then, poll.pending, poll.answer, poll.streamed) \/ poll' = Idle
      BY <1>h, Asked
    <3>4. ExcuseRest => Moves("list", poll.fresh, "advance", poll.pending, poll.answer, poll.streamed) \/ poll' = Idle
      BY <1>h, Asked
    <3>5. Advance => Advances \/ poll' = Idle
      BY <1>h, Asked
    <3>6. Fails => Throws
      BY <1>h, Asked
    <3> QED
      BY <1>7, <1>t, <1>i, <1>m, <1>s, <3>1, <3>2, <3>3, <3>4, <3>5, <3>6 DEF Advances
  <2> QED
    BY <1>a, <1>c, <1>e, <2>1, <2>2
<1>8. ASSUME SaveSession PROVE AnswerInv'
  <2>1. /\ poll.pc = "session"
        /\ \/ Remaining(poll.answer) + poll.answer.files > 0 /\ Shifts("stage")
           \/ ~(Remaining(poll.answer) + poll.answer.files > 0) /\ Shifts("rest")
           \/ Shifts("excuse")
    BY <1>8, <1>h, Asked
  <2>2. UNCHANGED <<request, shown>>
    BY <1>8 DEF SaveSession
  <2>3. PollKnows'
    BY <1>b, <2>1, <2>2 DEF PollKnows, Previewed, Shifts, Moves, Turned, Like, Remaining
  <2> QED
    BY <1>a, <1>e, <2>2, <2>3
<1>9. ASSUME Stage PROVE AnswerInv'
  <2>1. /\ poll.pc = "stage"
        /\ Moves("rest", Others, poll.then, poll.pending, poll.answer, poll.streamed) \/ Shifts("excuse")
    BY <1>9, <1>h, Asked
  <2>2. UNCHANGED <<request, shown>>
    BY <1>9 DEF Stage, StageResponse
  <2>3. PollKnows'
    BY <1>b, <2>1, <2>2 DEF PollKnows, Previewed, Shifts, Moves, Turned, Like, Others
  <2> QED
    BY <1>a, <1>e, <2>2, <2>3
\* Control changes requests that have no answer.
<1>x. ASSUME NEW u \in Updates, request[u].state # "answered", UNCHANGED <<poll, shown>>,
             \A v \in Updates \ {u} : request'[v] = request[v]
      PROVE  PollKnows'
  BY <1>b, <1>r, <1>x DEF PollKnows, Previewed, Remaining, Asking
<1>10. ASSUME NEW u \in Updates, Verify(u) \/ Claim(u) PROVE AnswerInv'
  <2>1. UNCHANGED <<poll, shown>> /\ request[u].state # "answered"
    BY <1>10 DEF Verify, Claim
  <2>2. /\ \A v \in Updates \ {u} : request'[v] = request[v]
        /\ request'[u].state # "answered"
    <3>1. \E state \in {"verified", "refused", "running"} : request' = [request EXCEPT ![u].state = state]
      BY <1>10 DEF Verify, Claim
    <3>2. \A state : [request[u] EXCEPT !.state = state].state = state
      BY <1>r DEF Requests
    <3> QED
      BY <1>r, <3>1, <3>2
  <2>3. RequestsOK'
    BY <1>b, <2>1, <2>2 DEF RequestsOK, Previewed
  <2> QED
    BY <1>a, <1>x, <2>1, <2>2, <2>3
<1>11. ASSUME NEW u \in Updates, TurnEnds(u) PROVE AnswerInv'
  <2>1. UNCHANGED <<poll, shown>> /\ request[u].state # "answered"
    BY <1>11 DEF TurnEnds
  <2>2. CASE request' = [request EXCEPT ![u].state = "refused"]
    <3>1. [request[u] EXCEPT !.state = "refused"].state = "refused"
      BY <1>r DEF Requests
    <3>2. request'[u].state = "refused" /\ \A v \in Updates \ {u} : request'[v] = request[v]
      BY <1>r, <2>2, <3>1
    <3>3. RequestsOK'
      BY <1>b, <2>1, <3>2 DEF RequestsOK, Previewed
    <3> QED
      BY <1>a, <1>x, <2>1, <3>2, <3>3
  <2>3. ASSUME NEW a \in Answers, Previewed(u) => a.texts > 0,
               request' = [request EXCEPT ![u].state = "answered", ![u].answer = a]
        PROVE  AnswerInv'
    <3>1. [request[u] EXCEPT !.state = "answered", !.answer = a].answer = a
      BY <1>r DEF Requests
    <3>2. request'[u].answer = a /\ \A v \in Updates \ {u} : request'[v] = request[v]
      BY <1>r, <2>3, <3>1
    <3>3. RequestsOK'
      BY <1>b, <2>1, <2>3, <3>2 DEF RequestsOK, Previewed
    <3> QED
      BY <1>a, <1>x, <2>1, <3>2, <3>3
  <2> QED
    BY <1>11, <2>2, <2>3 DEF TurnEnds
<1>12. ASSUME Owner \/ Arrive \/ UNCHANGED vars PROVE AnswerInv'
  <2>1. UNCHANGED <<poll, request, shown>>
    BY <1>12 DEF Owner, Connect, Edit, Rotate, RotateBacklog, Save, Disconnect, Arrive, vars
  <2>2. PollKnows'
    BY <1>b, <2>1 DEF PollKnows, Previewed, Remaining
  <2> QED
    BY <1>a, <1>e, <2>1, <2>2
<1>13. ASSUME Restart PROVE AnswerInv'
  <2>1. UNCHANGED <<request, shown>> /\ poll' = Idle
    BY <1>13 DEF Restart
  <2> QED
    BY <1>a, <1>c, <1>e, <1>i, <2>1
<1> QED
  BY <1>1, <1>2, <1>3, <1>4, <1>5, <1>6, <1>7, <1>8, <1>9, <1>10, <1>11, <1>12, <1>13 DEF Next, Broker, Control

\* Types, the place of the poll among the messages, and what it knows of the answer.
THEOREM TypeInvariant == Spec => []TypeInv
<1>1. TypeInv /\ [Next]_vars => TypeInv'
  BY OwnerStep, PollStep, AnswerStep, RowStep DEF TypeInv
<1> QED
  BY TypeInit, <1>1, PTL DEF Spec

\* In every behaviour: what is stored and what the poll works on have their types, and no
\* response is counted beyond what it has, with any number of messages, requests and faults.
THEOREM TypeCorrect == Spec => []TypeOK
  BY TypeInvariant, TypeInvImpliesTypeOK, PTL

(***************************************************************************)
(* One turn for a message. A message that was touched and has no row any    *)
(* more lies behind every offset a poll for the connection can start at.    *)
(***************************************************************************)

AllPieces == Pieces(Larger(MaxTexts, 1), MaxFiles)
Told(u, kind) == \E piece \in AllPieces : <<u, kind, piece>> \in shown
\* The member was shown a piece of this kind, or is about to.
Kind(u, kind) == Told(u, kind) \/ \E p \in poll.pending : p.update = u /\ p.response.kind = kind
AnyKind(u) == Kind(u, "answer") \/ Kind(u, "failure")
Touched(u) == turns[u] > 0 \/ request[u].state # "none" \/ u \in poll.fresh \/ AnyKind(u)

\* The first message Telegram returns to a caller with this offset
Low(offset) == Larger(forgotten, offset)

Behind(u) ==
  /\ connection # None => u < Low(connection.offset)
  /\ connection # None /\ setting.op = "edit" => u < Low(setting.offset)
  /\ setting.op = "connect" => u < Low(setting.offset)
  /\ Ours /\ Fetching => u < Low(poll.offset)
  /\ Ours /\ Windowed => u < poll.at

BoundsInv ==
  \A u \in Updates :
    /\ Touched(u) \/ row[u] # None => u <= arrived
    /\ Touched(u) /\ row[u] = None => Behind(u)

\* Rows appear by reservation only, and all of them go with the connection.
LEMMA RowPresence ==
    ASSUME TypeInv, [Next]_vars, NEW u \in Updates
    PROVE  /\ row[u] = None /\ row'[u] # None => Reserve /\ u = poll.next
           /\ row[u] # None /\ row'[u] = None => Disconnect
<1> DEFINE Same == row[u] = None <=> row'[u] = None
<1>h. /\ poll \in PollType
      /\ poll.pc = "reserve" => poll.next \in Nat /\ (poll.next <= poll.last => poll.next \in Updates)
      /\ poll.pc = "turn" => poll.first \in Updates
      /\ \A v \in Updates : request[v].state = "answered" => request[v].answer \in Answers
  BY Hypotheses
<1>1. row' = row => Same
  OBVIOUS
<1>2. ASSUME NEW p \in poll.pending, Mark(p) PROVE Same
  BY <1>2, MarkedRows DEF CountedRow, Staged
<1>3. ASSUME Reserve PROVE u = poll.next \/ Same
  BY <1>3, ReservedRows
<1>4. ASSUME Reserve, u = poll.next PROVE row[u] # None => row'[u] # None
  BY <1>4, ReservedRows
<1>5. ASSUME NEW S, NEW state \in Final, row' = Finished(S, state) PROVE Same
  BY <1>5, FinishedRows DEF TypeInv
<1>6. ASSUME Close PROVE Same
  <2>1. poll.state \in Final
    BY <1>h DEF PollType, Final
  <2> QED
    BY <1>5, <1>6, <1>h, <2>1, Sorted
<1>7. ASSUME Rest PROVE Same
  BY <1>5, <1>7, <1>h, Asked DEF Final
<1>8. ASSUME ExcuseRest PROVE Same
  BY <1>5, <1>8, <1>h, Asked DEF Final
<1>9. ASSUME NEW response \in Responses, poll.first \in Updates, Whole(response), ~Delivered(response),
             row' = IF Ours /\ Open(poll.first)
                    THEN [row EXCEPT ![poll.first] = [state |-> "dispatched", response |-> response]]
                    ELSE row
      PROVE  Same
  <2>1. [state |-> "dispatched", response |-> response] # None
    <3>1. [state |-> "dispatched", response |-> response] \in Rows
      BY DEF Rows
    <3> QED
      BY <3>1, NoneAssumption
  <2> QED
    BY <1>9, <2>1, StagedRows DEF StagedRow, Open
<1>f. poll.pc \in Asking => poll.first \in Updates
  BY DEF TypeInv, PollInv
<1>10. ASSUME Stage PROVE Same
  BY <1>9, <1>10, <1>f, StagedResponses DEF Stage, StageResponse, Asking
<1>11. ASSUME Excuse PROVE Same
  BY <1>9, <1>11, <1>f, StagedResponses DEF Excuse, StageResponse, Asking
<1>12. ASSUME NEW v \in Updates, Claim(v) PROVE Same
  BY <1>12, ClaimedRows DEF ClaimedRow, CanClaim
<1>13. ASSUME Disconnect PROVE row'[u] = None
  BY <1>13 DEF Disconnect
<1>14. ASSUME \/ Poll \/ ListPending \/ (\E p \in poll.pending : Send(p)) \/ DeliveryEnds \/ Fetch \/ Compose \/ Recheck \/ Group
              \/ ReserveRefused \/ Sort \/ Reply \/ Ask \/ Stream \/ Answered \/ TurnFails \/ SaveSession \/ Advance
              \/ (\E v \in Updates : Verify(v) \/ TurnEnds(v))
              \/ Connect \/ Edit \/ Rotate \/ RotateBacklog \/ Save \/ Fails \/ Arrive \/ Restart \/ UNCHANGED vars
       PROVE  Same
  BY <1>14 DEF Poll, ListPending, Send, DeliveryEnds, Fetch, Compose, GetUpdates, Recheck, Group, ReserveRefused, Sort, Reply,
     Ask, Stream, Answered, TurnFails, SaveSession, Advance, Verify, TurnEnds, Connect, Edit, Rotate, RotateBacklog, Save,
     Fails, Arrive, Restart, vars
<1> HIDE DEF Same
<1>15. Same \/ (Reserve /\ u = poll.next) \/ Disconnect
  BY <1>2, <1>3, <1>6, <1>7, <1>8, <1>10, <1>11, <1>12, <1>14 DEF Next, Broker, Control, Owner
<1> QED
  BY <1>4, <1>13, <1>15 DEF Same

LEMMA PendingPieces ==
    ASSUME TypeInv, NEW p \in poll.pending
    PROVE  LET r == p.response
               piece == IF r.text < r.texts THEN <<"text", r.text + 1>> ELSE <<"file", r.file + 1>>
           IN  /\ p.update \in Updates /\ r \in Responses /\ r.kind \in {"answer", "failure"}
               /\ Whole(r) /\ ~Delivered(r) /\ piece \in AllPieces
<1>1. p.update \in Updates /\ p.response \in Responses /\ Whole(p.response) /\ ~Delivered(p.response)
  BY DEF TypeInv, PollInv, PollType, Pending, PendingOK
<1>2. /\ p.response.text \in Nat /\ p.response.texts \in Nat /\ p.response.file \in Nat /\ p.response.files \in Nat
      /\ p.response.texts <= Larger(MaxTexts, 1) /\ p.response.files <= MaxFiles /\ p.response.kind \in {"answer", "failure"}
      /\ Larger(MaxTexts, 1) \in Nat /\ MaxFiles \in Nat
  BY <1>1, BrokerAssumption DEF Responses, Larger
<1>3. p.response.text < p.response.texts => p.response.text + 1 \in 1..Larger(MaxTexts, 1)
  BY <1>2
<1>4. ~(p.response.text < p.response.texts) => p.response.file + 1 \in 1..MaxFiles
  BY <1>1, <1>2 DEF Whole, Delivered
<1> QED
  BY <1>1, <1>2, <1>3, <1>4 DEF AllPieces, Pieces

\* How a step changes what the poll works on
PollChange ==
  /\ poll'.fresh \subseteq poll.fresh \/ (Reserve /\ poll'.fresh = Fresh)
  /\ \/ poll'.pending \subseteq poll.pending
     \/ ListPending /\ poll'.pending = Listed
     \/ \E p \in poll.pending : Mark(p) /\ poll'.pending = Remarked(p)
  /\ Fetching' => \/ Poll /\ poll'.id = connection.id /\ poll'.offset = connection.offset
                  \/ Fetching /\ poll'.id = poll.id /\ poll'.offset = poll.offset
  /\ Windowed' => /\ poll'.id = poll.id
                  /\ \/ Windowed /\ poll.at <= poll'.at
                     \/ Fetch /\ poll'.at = Low(poll.offset)
                  /\ \/ Windowed /\ poll'.at = poll.at
                     \/ Fetch /\ poll'.at = Low(poll.offset)
                     \/ poll.pc = "advance" /\ poll'.at = poll.last + 1
  /\ poll'.pc = "reserve" => \/ poll.pc = "group" /\ poll'.next = poll.at
                             \/ Reserve /\ poll'.next = poll.next + 1
                             \/ poll.pc = "reserve" /\ poll'.next = poll.next
  /\ Batch' /\ poll'.pc # "reserve" =>
       Batch /\ poll'.last = poll.last /\ (poll.pc = "reserve" => poll.next > poll.last)

LEMMA PollChanges ==
    ASSUME TypeInv, [Next]_vars
    PROVE  PollChange
<1>h. /\ poll \in PollType /\ PendingOK /\ row \in [Updates -> Rows \cup {None}]
      /\ connection # None => connection.id \in Nat /\ connection.version \in Nat /\ connection.offset \in Nat
      /\ arrived \in Nat /\ forgotten \in Nat
      /\ poll.pc = "reserve" => poll.next \in Nat /\ (poll.next <= poll.last => poll.next \in Updates)
      /\ poll.pc = "turn" => poll.first \in Updates
      /\ \A v \in Updates : request[v].state = "answered" => request[v].answer \in Answers
  BY Hypotheses
<1>f. poll.at \in Nat /\ poll.last \in Nat /\ poll.then \in {"fetch", "advance"} /\ (Batch => poll.at <= poll.last)
  BY DEF TypeInv, PollInv, PollType
<1>i. poll' = Idle => PollChange
  BY DEF PollChange, Idle, Fetching, Windowed, Batch, Sorting, Asking, Sync
<1>u. poll' = poll => PollChange
  BY <1>f DEF PollChange, Fetching, Windowed, Batch, Sync
<1> USE DEF Shifts, Moves, Turned, Like, Sorting, Asking, Sync, Fetching, Windowed, Batch
<1>t. Throws => PollChange
  BY <1>f, <1>i DEF Throws, PollChange, Excused
<1>1. ASSUME Poll PROVE PollChange
  BY <1>1, <1>h, <1>i, Delivering DEF Starts, PollChange
<1>2. ASSUME ListPending PROVE PollChange
  <2>1. poll.pc = "list" /\ (Moves("deliver", poll.fresh, poll.then, Listed, poll.answer, poll.streamed) \/ Throws)
    BY <1>2, <1>h, Delivering
  <2> QED
    BY <2>1, <1>2, <1>f, <1>t DEF PollChange
<1>3. ASSUME NEW p \in poll.pending, Send(p) PROVE PollChange
  <2>1. poll.pc = "deliver" /\ (Shifts("mark") \/ Throws)
    BY <1>3, <1>h, Delivering
  <2> QED
    BY <2>1, <1>f, <1>t DEF PollChange
<1>4. ASSUME NEW p \in poll.pending, Mark(p) PROVE PollChange
  <2>1. poll.pc = "mark" /\ (Moves("deliver", poll.fresh, poll.then, Remarked(p), poll.answer, poll.streamed) \/ Throws)
    BY <1>4, <1>h, Delivering
  <2> QED
    BY <2>1, <1>4, <1>f, <1>t DEF PollChange
<1>5. ASSUME DeliveryEnds PROVE PollChange
  <2>1. poll.pc = "deliver" /\ Shifts(poll.then)
    BY <1>5, <1>h, Delivering
  <2> QED
    BY <2>1, <1>f DEF PollChange
<1>6. ASSUME Fetch PROVE PollChange
  <2>1. Looks("check", poll.offset, Larger(forgotten, poll.offset), arrived) \/ poll' = Idle
    BY <1>6, <1>h, Looking
  <2> QED
    BY <2>1, <1>6, <1>i DEF PollChange, Looks, Low
<1>7. ASSUME Compose PROVE PollChange
  <2>1. poll.pc = "check" /\ (Looks("recheck", poll.offset, poll.at, arrived) \/ poll' = Idle)
    BY <1>7, <1>h, Looking
  <2> QED
    BY <2>1, <1>f, <1>i DEF PollChange, Looks
<1>8. ASSUME Recheck PROVE PollChange
  <2>1. poll.pc \in {"check", "recheck"} /\ (Looks("group", 0, poll.at, poll.to) \/ poll' = Idle)
    BY <1>8, <1>h, Looking
  <2> QED
    BY <2>1, <1>f, <1>i DEF PollChange, Looks
<1>9. ASSUME Group PROVE PollChange
  <2>1. poll.pc = "group" /\ (poll' = Idle \/ \E last \in poll.at..poll.to : Groups(last))
    BY <1>9, <1>h, Looking
  <2> QED
    BY <2>1, <1>f, <1>i DEF PollChange, Groups
<1>10. ASSUME Reserve PROVE PollChange
  <2>1. poll.pc = "reserve" /\ (Reserves(Fresh, First) \/ poll' = Idle)
    BY <1>10, <1>h, Sorted
  <2> QED
    BY <2>1, <1>10, <1>f, <1>i DEF PollChange, Reserves
<1>11. ASSUME Sort PROVE PollChange
  <2>1. /\ poll.pc = "reserve" /\ poll.next > poll.last
        /\ Shifts("advance") \/ \E pc \in {"close", "reply", "ask"} : Shifts(pc)
    BY <1>11, <1>h, Sorted
  <2> QED
    BY <2>1, <1>f DEF PollChange
<1>12. ASSUME Reply \/ Close PROVE PollChange
  <2>1. poll.pc \in {"reply", "close"} /\ (Shifts("close") \/ Shifts("advance") \/ poll' = Idle)
    BY <1>12, <1>h, Sorted
  <2> QED
    BY <2>1, <1>f, <1>i DEF PollChange
<1>13. ASSUME Ask \/ Stream PROVE PollChange
  <2>1. /\ poll.pc \in {"ask", "turn"}
        /\ \E answer, streamed : Moves("turn", poll.fresh, poll.then, poll.pending, answer, streamed)
    BY <1>13, <1>h, Asked
  <2> QED
    BY <2>1, <1>f DEF PollChange
<1>14. ASSUME Answered \/ TurnFails PROVE PollChange
  <2>1. /\ poll.pc = "turn"
        /\ \/ Moves("session", poll.fresh, poll.then, poll.pending, request[poll.first].answer, poll.streamed)
           \/ Shifts("excuse")
    BY <1>14, <1>h, Asked
  <2> QED
    BY <2>1, <1>f DEF PollChange
<1>15. ASSUME SaveSession PROVE PollChange
  <2>1. poll.pc = "session" /\ (Shifts("stage") \/ Shifts("rest") \/ Shifts("excuse"))
    BY <1>15, <1>h, Asked
  <2> QED
    BY <2>1, <1>f DEF PollChange
<1>16. ASSUME Stage \/ Excuse PROVE PollChange
  <2>1. /\ poll.pc \in {"stage", "excuse"}
        /\ \/ \E pc \in {"rest", "excused"} : Moves(pc, Others, poll.then, poll.pending, poll.answer, poll.streamed)
           \/ Shifts("excuse") \/ poll' = Idle
    BY <1>16, <1>h, Asked
  <2> QED
    BY <2>1, <1>f, <1>i DEF PollChange, Others
<1>17. ASSUME Rest \/ ExcuseRest PROVE PollChange
  <2>1. /\ poll.pc \in {"rest", "excused"}
        /\ \/ Shifts("advance") \/ Shifts("excuse") \/ poll' = Idle
           \/ Moves("list", poll.fresh, "advance", poll.pending, poll.answer, poll.streamed)
    BY <1>17, <1>h, Asked
  <2> QED
    BY <2>1, <1>f, <1>i DEF PollChange
<1>18. ASSUME Advance PROVE PollChange
  <2>1. poll.pc = "advance" /\ (Advances \/ poll' = Idle)
    BY <1>18, <1>h, Asked
  <2> QED
    BY <2>1, <1>f, <1>i DEF PollChange, Advances
<1>19. ASSUME Fails PROVE PollChange
  BY <1>19, <1>h, <1>t, Asked
<1>20. ASSUME ReserveRefused \/ Control \/ Owner \/ Arrive \/ Restart \/ UNCHANGED vars PROVE PollChange
  <2>1. poll' = poll \/ poll' = Idle
    BY <1>20 DEF ReserveRefused, Control, Verify, Claim, TurnEnds, Owner, Connect, Edit, Rotate, RotateBacklog, Save,
       Disconnect, Arrive, Restart, vars
  <2> QED
    BY <2>1, <1>i, <1>u
<1> QED
  BY <1>1, <1>2, <1>3, <1>4, <1>5, <1>6, <1>7, <1>8, <1>9, <1>10, <1>11, <1>12, <1>13, <1>14, <1>15, <1>16, <1>17,
     <1>18, <1>19, <1>20 DEF Next, Broker

\* A message is touched from its reservation, or when its row's response is listed.
LEMMA Touching ==
    ASSUME TypeInv, [Next]_vars, NEW u \in Updates, Touched(u)'
    PROVE  Touched(u) \/ row'[u] # None
<1>h. /\ poll \in PollType /\ PendingOK /\ row \in [Updates -> Rows \cup {None}]
      /\ connection # None => connection.id \in Nat /\ connection.version \in Nat /\ connection.offset \in Nat
      /\ arrived \in Nat /\ forgotten \in Nat
      /\ poll.pc = "reserve" => poll.next \in Nat /\ (poll.next <= poll.last => poll.next \in Updates)
      /\ poll.pc = "turn" => poll.first \in Updates
      /\ \A v \in Updates : request[v].state = "answered" => request[v].answer \in Answers
  BY Hypotheses
<1>r. /\ request \in [Updates -> Requests] /\ turns \in [Updates -> Nat]
      /\ poll.pc = "ask" => poll.first \in poll.fresh /\ poll.first \in Updates
  BY DEF TypeInv, RowInv, Requests, RequestStates, PollInv, PollType
<1>t. turns[u] \in Nat /\ request[u].state \in RequestStates
  BY <1>r DEF Requests
\* The four marks of a touched message
<1>1. turns'[u] > 0 => turns[u] > 0 \/ row'[u] # None
  <2>1. ASSUME NEW v \in Updates, Claim(v) PROVE turns'[u] = turns[u] \/ (u = v /\ row'[u] # None)
    BY <2>1, <1>r, ClaimedRows DEF ClaimedRow
  <2>2. turns' = turns \/ \E v \in Updates : Claim(v)
    BY DEF Next, Broker, Control, Owner, vars, Poll, ListPending, Send, Mark, DeliveryEnds, Fetch, Compose,
       Recheck, Group, Reserve, ReserveRefused, Sort, Reply, Close, Ask, Stream, Answered, TurnFails, SaveSession, Stage,
       Rest, Excuse, ExcuseRest, Advance, Verify, TurnEnds, Connect, Edit, Rotate, RotateBacklog, Save, Disconnect,
       Fails, Arrive, Restart, GetUpdates, FinishUpdates, StageResponse
  <2> QED
    BY <2>1, <2>2
<1>2. request'[u].state # "none" => request[u].state # "none" \/ u \in poll.fresh
  <2>1. ASSUME Ask PROVE request'[u] = request[u] \/ u \in poll.fresh
    BY <2>1, <1>r DEF Ask
  <2>2. ASSUME NEW v \in Updates, Verify(v) \/ Claim(v) \/ TurnEnds(v)
        PROVE  request'[u] = request[u] \/ request[u].state # "none"
    <3>1. request[v].state # "none"
      BY <2>2 DEF Verify, Claim, TurnEnds
    <3>2. u # v => request'[u] = request[u]
      BY <2>2, <1>r DEF Verify, Claim, TurnEnds
    <3> QED
      BY <3>1, <3>2
  <2>3. request' = request \/ Ask \/ \E v \in Updates : Verify(v) \/ Claim(v) \/ TurnEnds(v)
    BY DEF Next, Broker, Control, Owner, vars, Poll, ListPending, Send, Mark, DeliveryEnds, Fetch, Compose,
       Recheck, Group, Reserve, ReserveRefused, Sort, Reply, Close, Stream, Answered, TurnFails, SaveSession, Stage,
       Rest, Excuse, ExcuseRest, Advance, Connect, Edit, Rotate, RotateBacklog, Save, Disconnect,
       Fails, Arrive, Restart, GetUpdates, FinishUpdates, StageResponse
  <2> QED
    BY <2>1, <2>2, <2>3
<1>3. u \in poll'.fresh => u \in poll.fresh \/ row'[u] # None
  <2>1. Reserve /\ poll'.fresh = Fresh /\ u \in poll'.fresh => u \in poll.fresh \/ row'[u] # None
    <3>1. ASSUME Reserve, u \in Fresh, u \notin poll.fresh PROVE row'[u] # None
      <4>1. u = poll.next
        BY <3>1 DEF Fresh
      <4>2. /\ row[u] = None => row'[u] = NewRow
            /\ row[u] # None => row'[u] = row[u]
        BY <3>1, <4>1, ReservedRows
      <4>3. NewRow # None
        BY NewRowType
      <4> QED
        BY <4>2, <4>3
    <3> QED
      BY <3>1
  <2> QED
    BY <2>1, PollChanges DEF PollChange
<1>4. ASSUME NEW kind \in {"answer", "failure"}, Kind(u, kind)'
      PROVE  Kind(u, kind) \/ row'[u] # None
  <2>1. ASSUME NEW p \in poll'.pending, p.update = u, p.response.kind = kind
        PROVE  Kind(u, kind) \/ row'[u] # None
    <3>1. CASE p \in poll.pending
      BY <2>1, <3>1 DEF Kind
    <3>2. CASE ListPending /\ poll'.pending = Listed
      BY <2>1, <3>2 DEF Listed, Staged, ListPending
    <3>3. ASSUME NEW q \in poll.pending, Mark(q), poll'.pending = Remarked(q), p \notin poll.pending
          PROVE  Kind(u, kind)
      <4>1. p = [q EXCEPT !.response = Counted(q.response)] /\ q \in Pending
        BY <3>3, <2>1, <1>h DEF Remarked, PollType
      <4>2. p.update = q.update /\ p.response = Counted(q.response)
        BY <4>1 DEF Pending
      <4>3. Counted(q.response).kind = q.response.kind
        BY PendingPieces, CountedType
      <4> QED
        BY <2>1, <4>2, <4>3 DEF Kind
    <3> QED
      BY <2>1, <3>1, <3>2, <3>3, PollChanges DEF PollChange
  <2>2. Told(u, kind)' => Kind(u, kind)
    <3>1. ASSUME NEW p \in poll.pending, Send(p) PROVE Told(u, kind)' => Kind(u, kind)
      BY <3>1 DEF Send, Told, Kind
    <3>2. Stream => (Told(u, kind)' => Told(u, kind))
      BY DEF Stream, Told
    <3>3. shown' = shown => (Told(u, kind)' => Told(u, kind))
      BY DEF Told
    <3>4. shown' = shown \/ Stream \/ \E p \in poll.pending : Send(p)
      BY DEF Next, Broker, Control, Owner, vars, Poll, ListPending, Mark, DeliveryEnds, Fetch, Compose,
         Recheck, Group, Reserve, ReserveRefused, Sort, Reply, Close, Ask, Answered, TurnFails, SaveSession, Stage,
         Rest, Excuse, ExcuseRest, Advance, Verify, Claim, TurnEnds, Connect, Edit, Rotate, RotateBacklog, Save, Disconnect,
         Fails, Arrive, Restart, GetUpdates, FinishUpdates, StageResponse
    <3> QED
      BY <3>1, <3>2, <3>3, <3>4 DEF Kind
  <2> QED
    BY <1>4, <2>1, <2>2 DEF Kind
<1> QED
  BY <1>1, <1>2, <1>3, <1>4 DEF Touched, AnyKind

\* Telegram forgets more and more; the offset of a connection is only set back by a save.
LEMMA Offsets ==
    ASSUME TypeInv, [Next]_vars
    PROVE  /\ forgotten' \in Nat /\ forgotten <= forgotten' /\ arrived' \in Nat /\ arrived <= arrived'
           /\ \/ connection' = connection
              \/ connection' = None /\ Disconnect
              \/ /\ connection # None /\ connection' # None /\ connection'.id = connection.id
                 /\ connection'.offset \in Nat /\ connection.offset <= connection'.offset
                 /\ UNCHANGED setting \/ setting' = [op |-> "rotate", offset |-> 0]
              \/ Save
           /\ Save => /\ connection' # None /\ connection'.offset = setting.offset /\ setting'.op = "none"
                      /\ IF setting.op = "edit" THEN connection'.id = connection.id
                         ELSE setting.op = "connect" /\ connection'.id > poll.id
           /\ \/ UNCHANGED setting \/ setting'.op \in {"none", "rotate"}
              \/ Edit /\ setting' = [op |-> "edit", offset |-> connection.offset]
              \/ RotateBacklog /\ setting' = [op |-> "edit", offset |-> BehindBacklog]
              \/ Connect /\ setting' = [op |-> "connect", offset |-> BehindBacklog]
           /\ RotateBacklog \/ Connect => forgotten' = Larger(forgotten, arrived)
<1>o. /\ arrived \in Nat /\ arrived <= MaxUpdates /\ forgotten \in Nat /\ forgotten >= 1 /\ forgotten <= arrived + 1
      /\ backlog \in Nat /\ backlog <= arrived /\ risked \in Nat /\ risked <= arrived
      /\ settings \in Nat /\ settings <= MaxSettings
      /\ connection # None =>
           /\ connection \in [id : Nat, version : Nat, offset : Nat]
           /\ connection.id >= 1 /\ connection.id <= settings
           /\ connection.version >= 1 /\ connection.version <= settings /\ connection.offset <= arrived + 1
      /\ setting \in [op : Ops, offset : Nat] /\ setting.offset <= arrived + 1
  BY OwnerFacts DEF TypeInv
<1>p. poll.offset \in Nat /\ poll.to \in Nat /\ poll.last \in Nat /\ poll.id \in Nat
  BY DEF TypeInv, PollInv, PollType
<1> DEFINE Grows == forgotten' \in Nat /\ forgotten <= forgotten' /\ arrived' \in Nat /\ arrived <= arrived'
           Moved ==
             \/ connection' = connection
             \/ connection' = None /\ Disconnect
             \/ /\ connection # None /\ connection' # None /\ connection'.id = connection.id
                /\ connection'.offset \in Nat /\ connection.offset <= connection'.offset
                /\ UNCHANGED setting \/ setting' = [op |-> "rotate", offset |-> 0]
             \/ Save
           Asks ==
             \/ UNCHANGED setting \/ setting'.op \in {"none", "rotate"}
             \/ Edit /\ setting' = [op |-> "edit", offset |-> connection.offset]
             \/ RotateBacklog /\ setting' = [op |-> "edit", offset |-> BehindBacklog]
             \/ Connect /\ setting' = [op |-> "connect", offset |-> BehindBacklog]
<1>1. Quiet => Grows /\ Moved /\ Asks
  BY <1>o DEF Quiet, telegram, owner
<1>2. Fetch => Grows /\ Moved /\ Asks
  BY <1>o, <1>p DEF Fetch, GetUpdates, Larger, owner
<1>3. Compose => Grows /\ Moved /\ Asks
  BY <1>o, <1>p DEF Compose, GetUpdates, Larger, owner
<1>4. ASSUME Advance PROVE Grows /\ Moved /\ Asks
  <2>1. /\ connection' = IF Ours THEN [connection EXCEPT !.offset = Advanced] ELSE connection
        /\ UNCHANGED <<arrived, forgotten, setting>>
    BY <1>4 DEF Advance, telegram, owner
  <2>2. Ours => connection # None /\ Advanced \in Nat /\ connection.offset <= Advanced
    BY <1>o, <1>p DEF Ours, Advanced, Larger
  <2>3. Ours => /\ connection'.id = connection.id /\ connection'.offset = Advanced
                /\ connection' \in [id : Nat, version : Nat, offset : Nat]
    BY <1>o, <2>1, <2>2
  <2>4. Ours => connection' # None
    BY <2>3, BrokerAssumption
  <2> QED
    BY <1>o, <2>1, <2>2, <2>3, <2>4
<1>5. Connect => Grows /\ Moved /\ Asks
  BY <1>o DEF Connect, Begins, SkipBacklog, Larger
<1>6. Edit => Grows /\ Moved /\ Asks
  BY <1>o DEF Edit, Begins, telegram
<1>7. ASSUME Rotate PROVE Grows /\ Moved /\ Asks
  <2>1. /\ connection # None /\ connection' = [connection EXCEPT !.version = @ + 1]
        /\ UNCHANGED <<arrived, forgotten>> /\ setting' = [op |-> "rotate", offset |-> 0]
    BY <1>7 DEF Rotate, Begins, telegram
  <2>2. /\ connection'.id = connection.id /\ connection'.offset = connection.offset /\ connection.offset \in Nat
        /\ connection' \in [id : Nat, version : Nat, offset : Nat]
    BY <1>o, <2>1
  <2>3. connection' # None
    BY <2>2, BrokerAssumption
  <2> QED
    BY <1>o, <2>1, <2>2, <2>3
<1>8. RotateBacklog => Grows /\ Moved /\ Asks
  BY <1>o DEF RotateBacklog, SkipBacklog, Larger
<1>9. ASSUME Save
      PROVE  /\ Grows /\ Moved /\ Asks
             /\ connection' # None /\ connection'.offset = setting.offset /\ setting'.op = "none"
             /\ IF setting.op = "edit" THEN connection'.id = connection.id
                ELSE setting.op = "connect" /\ connection'.id > poll.id
  <2>1. /\ setting.op \in {"connect", "edit"} /\ setting' = [op |-> "none", offset |-> 0]
        /\ connection' = IF setting.op = "edit" THEN [connection EXCEPT !.offset = setting.offset]
                         ELSE [id |-> settings, version |-> 1, offset |-> setting.offset]
        /\ UNCHANGED <<arrived, forgotten>>
    BY <1>9 DEF Save, telegram
  <2>2. setting.op = "edit" => connection # None
    BY DEF TypeInv, OwnerInv
  <2>3. setting.op = "connect" => poll.id < settings
    BY DEF TypeInv, OwnerInv
  <2>4. connection' \in [id : Nat, version : Nat, offset : Nat] /\ connection'.offset = setting.offset
        /\ connection'.id = IF setting.op = "edit" THEN connection.id ELSE settings
    BY <1>o, <2>1, <2>2
  <2>5. connection' # None
    BY <2>4, BrokerAssumption
  <2> QED
    BY <1>9, <1>o, <1>p, <2>1, <2>3, <2>4, <2>5
<1>10. Disconnect => Grows /\ Moved /\ Asks
  BY <1>o DEF Disconnect, telegram
<1>11. Arrive => Grows /\ Moved /\ Asks
  BY <1>o DEF Arrive, owner
<1>12. Restart => Grows /\ Moved /\ Asks
  BY <1>o DEF Restart, telegram
<1>13. UNCHANGED vars => Grows /\ Moved /\ Asks
  BY <1>o DEF vars, telegram, owner
<1>14. RotateBacklog \/ Connect => forgotten' = Larger(forgotten, arrived)
  BY DEF RotateBacklog, Connect, SkipBacklog
<1> HIDE DEF Grows, Moved, Asks
<1>15. Grows /\ Moved /\ Asks
  BY QuietSteps, <1>1, <1>2, <1>3, <1>4, <1>5, <1>6, <1>7, <1>8, <1>9, <1>10, <1>11, <1>12, <1>13 DEF Next, Broker, Owner
<1> QED
  BY <1>9, <1>14, <1>15 DEF Grows, Moved, Asks

LEMMA BoundsInit ==
    ASSUME Init
    PROVE  BoundsInv
<1>1. \A u \in Updates : turns[u] = 0 /\ request[u].state = "none" /\ row[u] = None
  BY DEF Init, NoRequest
<1>2. poll.fresh = {} /\ poll.pending = {} /\ shown = {}
  BY DEF Init, Idle
<1> QED
  BY <1>1, <1>2 DEF BoundsInv, Touched, AnyKind, Kind, Told

LEMMA BoundsStep ==
    ASSUME TypeInv, BoundsInv, [Next]_vars
    PROVE  BoundsInv'
<1> SUFFICES ASSUME NEW u \in Updates
             PROVE  /\ Touched(u)' \/ row'[u] # None => u <= arrived'
                    /\ Touched(u)' /\ row'[u] = None => Behind(u)'
  BY DEF BoundsInv
<1>o. /\ arrived \in Nat /\ arrived <= MaxUpdates /\ forgotten \in Nat /\ forgotten >= 1 /\ forgotten <= arrived + 1
      /\ backlog \in Nat /\ backlog <= arrived /\ risked \in Nat /\ risked <= arrived
      /\ settings \in Nat /\ settings <= MaxSettings
      /\ connection # None =>
           /\ connection \in [id : Nat, version : Nat, offset : Nat]
           /\ connection.id >= 1 /\ connection.id <= settings
           /\ connection.version >= 1 /\ connection.version <= settings /\ connection.offset <= arrived + 1
      /\ setting \in [op : Ops, offset : Nat] /\ setting.offset <= arrived + 1
  BY OwnerFacts DEF TypeInv
<1>p. /\ poll.offset \in Nat /\ poll.to \in Nat /\ poll.last \in Nat /\ poll.id \in Nat /\ poll.at \in Nat /\ poll.next \in Nat
      /\ poll'.at \in Nat /\ poll'.offset \in Nat /\ poll.id <= settings
      /\ poll.to <= arrived /\ (Batch => poll.last <= poll.to)
  BY PollStep DEF TypeInv, PollInv, PollType
<1>u. u \in Nat /\ u >= 1
  BY BrokerAssumption DEF Updates
<1>n. forgotten' \in Nat /\ forgotten <= forgotten' /\ arrived' \in Nat /\ arrived <= arrived'
  BY Offsets
<1>1. ASSUME Touched(u)' \/ row'[u] # None PROVE u <= arrived'
  <2>1. Touched(u) \/ row'[u] # None
    BY <1>1, Touching
  <2>2. CASE Touched(u) \/ row[u] # None
    BY <2>2, <1>n, <1>o, <1>u DEF BoundsInv
  <2>3. CASE row[u] = None /\ row'[u] # None
    <3>1. Reserve /\ u = poll.next
      BY <2>3, RowPresence
    <3>2. poll.pc = "reserve" /\ poll.next <= poll.last
      BY <3>1 DEF Reserve
    <3> QED
      BY <3>1, <3>2, <1>n, <1>o, <1>p, <1>u DEF Batch, Sorting
  <2> QED
    BY <2>1, <2>2, <2>3
<1>2. ASSUME Touched(u)', row'[u] = None PROVE Behind(u)'
  <2>1. CASE Disconnect
    <3>1. connection' = None /\ setting'.op = "none"
      BY <2>1 DEF Disconnect, CanAsk
    <3> QED
      BY <3>1 DEF Behind, Ours
  <2>2. CASE ~Disconnect
    <3>1. Touched(u) /\ row[u] = None
      BY <1>2, <2>2, Touching, RowPresence
    <3>2. Behind(u) /\ u <= arrived
      BY <3>1 DEF BoundsInv
    <3>3. \A n \in Nat : u < Low(n) => u < (Low(n))'
      BY <1>n, <1>o, <1>u DEF Low, Larger
    <3>l. \A m, n \in Nat : u < Low(m) /\ m <= n => u < Low(n)
      BY <1>o, <1>u DEF Low, Larger
    <3>4. connection' # None => u < (Low(connection.offset))'
      <4>1. CASE connection' = connection
        BY <4>1, <3>2, <3>3, <1>o DEF Behind, Low
      <4>2. CASE /\ connection # None /\ connection'.offset \in Nat /\ connection.offset <= connection'.offset
        <5>1. u < Low(connection'.offset)
          BY <4>2, <3>2, <3>l, <1>o DEF Behind
        <5> QED
          BY <4>2, <5>1, <3>3 DEF Low
      <4>3. CASE Save
        <5>1. connection'.offset = setting.offset /\ setting.op \in {"edit", "connect"}
          BY <4>3, Offsets
        <5>2. setting.op = "edit" => connection # None
          BY DEF TypeInv, OwnerInv
        <5>3. u < Low(setting.offset)
          BY <3>2, <5>1, <5>2 DEF Behind
        <5> QED
          BY <5>1, <5>3, <3>3, <1>o DEF Low
      <4> QED
        BY <2>2, <4>1, <4>2, <4>3, Offsets
    <3>5. RotateBacklog \/ Connect => BehindBacklog \in Nat /\ u < Larger(forgotten', BehindBacklog)
      <4>1. RotateBacklog \/ Connect => forgotten' = Larger(forgotten, arrived)
        BY Offsets
      <4> QED
        BY <4>1, <3>2, <1>o, <1>u DEF BehindBacklog, Larger
    <3>6. /\ connection' # None /\ setting'.op = "edit" => u < (Low(setting.offset))'
          /\ setting'.op = "connect" => u < (Low(setting.offset))'
      <4>1. CASE UNCHANGED setting
        <5>1. setting.op = "edit" => connection # None
          BY DEF TypeInv, OwnerInv
        <5> QED
          BY <4>1, <5>1, <3>2, <3>3, <1>o DEF Behind, Low
      <4>2. CASE setting'.op \in {"none", "rotate"}
        BY <4>2
      <4>3. CASE Edit /\ setting' = [op |-> "edit", offset |-> connection.offset]
        <5>1. connection # None
          BY <4>3 DEF Edit
        <5> QED
          BY <4>3, <5>1, <3>2, <3>3, <1>o DEF Behind, Low
      <4>4. CASE (RotateBacklog \/ Connect) /\ setting'.offset = BehindBacklog
        BY <4>4, <3>5 DEF Low
      <4>5. \/ RotateBacklog /\ setting' = [op |-> "edit", offset |-> BehindBacklog]
            \/ Connect /\ setting' = [op |-> "connect", offset |-> BehindBacklog]
            => (RotateBacklog \/ Connect) /\ setting'.offset = BehindBacklog
        OBVIOUS
      <4> QED
        BY <4>1, <4>2, <4>3, <4>4, <4>5, Offsets
    <3>7. connection' # None /\ connection'.id = poll.id => Ours
      <4>1. connection' = connection \/ connection'.id = connection.id \/ connection'.id > poll.id
        BY <2>2, Offsets
      <4>2. connection # None \/ connection'.id > poll.id \/ connection' = None
        <5>1. setting.op = "edit" => connection # None
          BY DEF TypeInv, OwnerInv
        <5> QED
          BY <2>2, <5>1, Offsets
      <4> QED
        BY <4>1, <4>2, <1>p, <1>o DEF Ours
    <3>8. Ours' /\ Fetching' => u < (Low(poll.offset))'
      <4>1. CASE Poll /\ poll'.id = connection.id /\ poll'.offset = connection.offset
        <5>1. connection # None
          BY <4>1 DEF Poll
        <5> QED
          BY <4>1, <5>1, <3>2, <3>3, <1>o DEF Behind, Low
      <4>2. CASE Fetching /\ poll'.id = poll.id /\ poll'.offset = poll.offset
        <5>1. Ours' => Ours
          BY <4>2, <3>7 DEF Ours
        <5> QED
          BY <4>2, <5>1, <3>2, <3>3, <1>p DEF Behind, Low
      <4> QED
        BY <4>1, <4>2, PollChanges DEF PollChange
    <3>9. Ours' /\ Windowed' => u < poll'.at
      <4>1. ASSUME Ours', Windowed' PROVE Ours /\ ((Windowed /\ poll.at <= poll'.at) \/ (Fetch /\ poll'.at = Low(poll.offset)))
        BY <4>1, <3>7, PollChanges DEF PollChange, Ours
      <4>2. Fetch => Fetching
        BY DEF Fetch, Fetching
      <4> QED
        BY <4>1, <4>2, <3>2, <1>p, <1>u DEF Behind
    <3> QED
      BY <3>4, <3>6, <3>8, <3>9 DEF Behind
  <2> QED
    BY <2>1, <2>2
<1> QED
  BY <1>1, <1>2

\* A row that is reserved has not had its turn.
TurnsInv == \A u \in Updates : row[u] # None /\ row[u].state = "reserved" => turns[u] = 0

\* Where the turns and a reserved row come from
LEMMA Reservations ==
    ASSUME TypeInv, [Next]_vars, NEW u \in Updates
    PROVE  /\ row'[u] # None /\ row'[u].state = "reserved" =>
                (row[u] # None /\ row[u].state = "reserved") \/ (Reserve /\ u = poll.next /\ row[u] = None)
           /\ turns'[u] # turns[u] => /\ Claim(u) /\ ClaimedRow(u) /\ turns'[u] = turns[u] + 1
                                      /\ row[u] # None /\ row[u].state = "reserved" /\ row[u].response = None
<1> DEFINE Was == row[u] # None /\ row[u].state = "reserved"
           Is == row'[u] # None /\ row'[u].state = "reserved"
<1>h. /\ poll \in PollType
      /\ poll.pc = "reserve" => poll.next \in Nat /\ (poll.next <= poll.last => poll.next \in Updates)
      /\ poll.pc = "turn" => poll.first \in Updates
      /\ \A v \in Updates : request[v].state = "answered" => request[v].answer \in Answers
  BY Hypotheses
<1>1. ASSUME NEW p \in poll.pending, Mark(p) PROVE Is => Was
  <2>1. Counted(p.response).final # "reserved"
    <3>1. Counted(p.response) \in Responses
      BY PendingPieces, CountedType
    <3> QED
      BY <3>1 DEF Responses
  <2> QED
    BY <1>1, <2>1, MarkedRows DEF CountedRow
<1>2. ASSUME Reserve PROVE Is => Was \/ (u = poll.next /\ row[u] = None)
  BY <1>2, ReservedRows
<1>3. ASSUME NEW S, NEW state \in Final, row' = Finished(S, state) PROVE Is => Was
  BY <1>3, FinishedRows DEF TypeInv, Final
<1>4. ASSUME Close PROVE Is => Was
  <2>1. poll.state \in Final
    BY <1>h DEF PollType, Final
  <2> QED
    BY <1>3, <1>4, <1>h, <2>1, Sorted
<1>5. ASSUME Rest PROVE Is => Was
  BY <1>3, <1>5, <1>h, Asked DEF Final
<1>6. ASSUME ExcuseRest PROVE Is => Was
  BY <1>3, <1>6, <1>h, Asked DEF Final
<1>f. poll.pc \in Asking => poll.first \in Updates
  BY DEF TypeInv, PollInv
<1>7. ASSUME Stage PROVE Is => Was
  BY <1>7, <1>f, StagedResponses, StagedRows DEF Stage, StageResponse, Asking, StagedRow
<1>8. ASSUME Excuse PROVE Is => Was
  BY <1>8, <1>f, StagedResponses, StagedRows DEF Excuse, StageResponse, Asking, StagedRow
<1>9. ASSUME NEW v \in Updates, Claim(v) PROVE Is => Was
  BY <1>9, ClaimedRows DEF ClaimedRow
<1>10. ASSUME Disconnect PROVE ~Is
  BY <1>10 DEF Disconnect
<1>11. ASSUME \/ Poll \/ ListPending \/ (\E p \in poll.pending : Send(p)) \/ DeliveryEnds \/ Fetch \/ Compose \/ Recheck \/ Group
              \/ ReserveRefused \/ Sort \/ Reply \/ Ask \/ Stream \/ Answered \/ TurnFails \/ SaveSession \/ Advance
              \/ (\E v \in Updates : Verify(v) \/ TurnEnds(v))
              \/ Connect \/ Edit \/ Rotate \/ RotateBacklog \/ Save \/ Fails \/ Arrive \/ Restart \/ UNCHANGED vars
       PROVE  Is => Was
  <2>1. row' = row
    BY <1>11 DEF Poll, ListPending, Send, DeliveryEnds, Fetch, Compose, GetUpdates, Recheck, Group, ReserveRefused, Sort, Reply,
       Ask, Stream, Answered, TurnFails, SaveSession, Advance, Verify, TurnEnds, Connect, Edit, Rotate, RotateBacklog, Save,
       Fails, Arrive, Restart, vars
  <2> QED
    BY <2>1
<1>12. Is => Was \/ (Reserve /\ u = poll.next /\ row[u] = None)
  <2> HIDE DEF Is, Was
  <2> QED
    BY <1>1, <1>2, <1>4, <1>5, <1>6, <1>7, <1>8, <1>9, <1>10, <1>11 DEF Next, Broker, Control, Owner
<1>13. ASSUME turns'[u] # turns[u]
       PROVE  /\ Claim(u) /\ ClaimedRow(u) /\ turns'[u] = turns[u] + 1
              /\ row[u] # None /\ row[u].state = "reserved" /\ row[u].response = None
  <2>1. turns \in [Updates -> Nat]
    BY DEF TypeInv, RowInv
  <2>2. turns' = turns \/ \E v \in Updates : Claim(v)
    BY DEF Next, Broker, Control, Owner, vars, Poll, ListPending, Send, Mark, DeliveryEnds, Fetch, Compose,
       Recheck, Group, Reserve, ReserveRefused, Sort, Reply, Close, Ask, Stream, Answered, TurnFails, SaveSession, Stage,
       Rest, Excuse, ExcuseRest, Advance, Verify, TurnEnds, Connect, Edit, Rotate, RotateBacklog, Save, Disconnect,
       Fails, Arrive, Restart, GetUpdates, FinishUpdates, StageResponse
  <2>3. PICK v \in Updates : Claim(v)
    BY <1>13, <2>2
  <2>4. ClaimedRow(v)
    BY <1>13, <2>3, ClaimedRows
  <2>5. u = v
    BY <1>13, <2>1, <2>4 DEF ClaimedRow
  <2> QED
    BY <2>1, <2>3, <2>4, <2>5 DEF ClaimedRow, CanClaim
<1> QED
  BY <1>12, <1>13

LEMMA TurnsStep ==
    ASSUME TypeInv, BoundsInv, TurnsInv, [Next]_vars
    PROVE  TurnsInv'
<1> SUFFICES ASSUME NEW u \in Updates, row'[u] # None, row'[u].state = "reserved"
             PROVE  turns'[u] = 0
  BY DEF TurnsInv
<1>1. turns'[u] = turns[u]
  BY Reservations DEF ClaimedRow
<1>2. CASE row[u] # None /\ row[u].state = "reserved"
  BY <1>1, <1>2 DEF TurnsInv
<1>3. CASE Reserve /\ u = poll.next /\ row[u] = None
  <2>1. Ours /\ poll.pc = "reserve"
    BY <1>3 DEF Reserve
  <2>2. Windowed /\ poll.at <= poll.next /\ poll.at \in Nat /\ poll.next \in Nat
    BY <2>1 DEF TypeInv, PollInv, PollType, Windowed, Batch, Sorting
  <2>3. ~Touched(u)
    BY <1>3, <2>1, <2>2 DEF BoundsInv, Behind
  <2>4. turns[u] \in Nat
    BY DEF TypeInv, RowInv
  <2> QED
    BY <1>1, <2>3, <2>4 DEF Touched
<1> QED
  BY <1>2, <1>3, Reservations

\* A touched message without a row is behind every offset in use; a reserved row had no turn.
THEOREM OneTurnInvariant == Spec => [](TypeInv /\ BoundsInv /\ TurnsInv)
<1>1. Init => TurnsInv
  BY DEF Init, TurnsInv
<1>2. TypeInv /\ BoundsInv /\ TurnsInv /\ [Next]_vars => BoundsInv' /\ TurnsInv'
  BY BoundsStep, TurnsStep
<1> QED
  BY TypeInvariant, BoundsInit, <1>1, <1>2, PTL DEF Spec

\* In every behaviour of any length: the agent is asked once for a message, and never after
\* the member was told that it failed; also when the bot was disconnected and connected again,
\* which deletes the rows, as no offset leads back to a message that ever had one.
THEOREM MessagesGetOneTurn == Spec => OneTurnPerMessage
<1>1. ASSUME TypeInv, TurnsInv, [Next]_vars, NEW u \in Updates, turns'[u] > turns[u]
      PROVE  turns[u] = 0 /\ row[u].response = None
  <2>1. turns[u] \in Nat /\ turns'[u] # turns[u]
    BY <1>1 DEF TypeInv, RowInv
  <2> QED
    BY <1>1, <2>1, Reservations DEF TurnsInv
<1>2. TypeInv /\ TurnsInv /\ [Next]_vars =>
        [\A u \in Updates : turns'[u] > turns[u] => turns[u] = 0 /\ row[u].response = None]_vars
  BY <1>1
<1> QED
  BY OneTurnInvariant, <1>2, PTL DEF Spec, OneTurnPerMessage

(***************************************************************************)
(* No message is skipped. Every offset a call to Telegram or a write of the *)
(* connection can still carry has only messages below it that are recorded, *)
(* were there before the bot, or were confirmed early.                      *)
(***************************************************************************)

Safe(u) == row[u] # None \/ u <= Larger(backlog, risked)
Covers(n) == \A u \in Updates : u < n => Safe(u)

CoverInv ==
  /\ connection # None =>
       /\ Covers(forgotten) /\ Covers(connection.offset)
       /\ setting.op = "edit" => Covers(setting.offset)
       /\ Ours /\ Fetching => Covers(poll.offset)
       /\ Ours /\ Windowed => Covers(poll.at)
       /\ Ours /\ poll.pc = "reserve" => Covers(poll.next)
       /\ Ours /\ Batch /\ poll.pc # "reserve" => Covers(poll.last + 1)
  /\ setting.op = "connect" => forgotten <= Larger(backlog, risked) + 1 /\ setting.offset <= backlog + 1
  \* A poll for a connection that is gone asks for nothing that came after its successor.
  /\ ~Ours /\ Fetching /\ (connection # None \/ setting.op = "connect") => poll.offset <= backlog + 1

LEMMA CoverInit ==
    ASSUME Init
    PROVE  CoverInv
  BY DEF Init, CoverInv, Idle, Fetching, Sync

LEMMA HistoryGrows ==
    ASSUME TypeInv, [Next]_vars
    PROVE  /\ backlog' \in Nat /\ backlog <= backlog' /\ risked' \in Nat /\ risked <= risked'
           /\ forgotten' = forgotten \/ Fetch \/ Compose \/ RotateBacklog \/ Connect
           /\ RotateBacklog \/ Connect \/ Rotate => backlog' = arrived
           /\ connection' = connection \/ Save \/ Disconnect \/ Advance \/ Rotate
<1>o. /\ arrived \in Nat /\ arrived <= MaxUpdates /\ forgotten \in Nat /\ forgotten >= 1 /\ forgotten <= arrived + 1
      /\ backlog \in Nat /\ backlog <= arrived /\ risked \in Nat /\ risked <= arrived
  BY OwnerFacts DEF TypeInv
<1>p. poll.to \in Nat
  BY DEF TypeInv, PollInv, PollType
<1>1. \/ UNCHANGED <<backlog, risked, forgotten, connection>> \/ Fetch \/ Compose \/ RotateBacklog \/ Connect \/ Rotate
      \/ Save \/ Disconnect \/ Advance
  BY QuietSteps DEF Next, Broker, Owner, Quiet, vars, telegram, owner, Edit, Begins, Arrive, Restart
<1>2. Fetch => UNCHANGED <<backlog, risked, connection>>
  BY DEF Fetch, GetUpdates, owner
<1>3. Compose => UNCHANGED <<backlog, connection>> /\ risked' = Larger(risked, poll.to)
  BY DEF Compose, GetUpdates, owner
<1>4. RotateBacklog => UNCHANGED <<risked, connection>> /\ backlog' = arrived
  BY DEF RotateBacklog, SkipBacklog
<1>5. Connect => UNCHANGED <<risked, connection>> /\ backlog' = arrived
  BY DEF Connect, SkipBacklog
<1>6. Rotate => UNCHANGED <<risked, forgotten>> /\ backlog' = arrived
  BY DEF Rotate, telegram
<1>7. Save \/ Disconnect \/ Advance => UNCHANGED <<risked, forgotten, backlog>>
  BY DEF Save, Disconnect, Advance, telegram, owner
<1>8. Larger(risked, poll.to) \in Nat /\ risked <= Larger(risked, poll.to)
  BY <1>o, <1>p DEF Larger
<1> QED
  BY <1>o, <1>1, <1>2, <1>3, <1>4, <1>5, <1>6, <1>7, <1>8

LEMMA CoverStep ==
    ASSUME TypeInv, CoverInv, [Next]_vars
    PROVE  CoverInv'
<1>o. /\ arrived \in Nat /\ arrived <= MaxUpdates /\ forgotten \in Nat /\ forgotten >= 1 /\ forgotten <= arrived + 1
      /\ backlog \in Nat /\ backlog <= arrived /\ risked \in Nat /\ risked <= arrived
      /\ settings \in Nat /\ settings <= MaxSettings
      /\ connection # None =>
           /\ connection \in [id : Nat, version : Nat, offset : Nat]
           /\ connection.id >= 1 /\ connection.id <= settings
           /\ connection.version >= 1 /\ connection.version <= settings /\ connection.offset <= arrived + 1
      /\ setting \in [op : Ops, offset : Nat] /\ setting.offset <= arrived + 1
  BY OwnerFacts DEF TypeInv
<1>p. /\ poll.offset \in Nat /\ poll.to \in Nat /\ poll.last \in Nat /\ poll.id \in Nat /\ poll.at \in Nat /\ poll.next \in Nat
      /\ poll.id <= settings /\ poll.offset <= arrived + 1 /\ poll.to <= arrived
      /\ poll.pc = "reserve" => poll.next <= poll.last + 1
  BY DEF TypeInv, PollInv, PollType
<1>g. /\ backlog' \in Nat /\ backlog <= backlog' /\ risked' \in Nat /\ risked <= risked'
      /\ forgotten' = forgotten \/ Fetch \/ Compose \/ RotateBacklog \/ Connect
      /\ RotateBacklog \/ Connect \/ Rotate => backlog' = arrived
      /\ connection' = connection \/ Save \/ Disconnect \/ Advance \/ Rotate
  BY HistoryGrows
<1>U. \A u \in Updates : u \in Nat
  BY DEF Updates
\* Where the history ends after the step
<1>k. PICK back \in Nat : back = backlog' /\ backlog <= back /\ (RotateBacklog \/ Connect => back = arrived)
  BY <1>g
<1>r. PICK risk \in Nat : risk = risked' /\ risked <= risk
  BY <1>g
<1>m. PICK high \in Nat : /\ high = Larger(backlog', risked') /\ Larger(backlog, risked) <= high
                          /\ backlog <= high /\ back <= high /\ risk <= high
  <2>1. \A b, r, c, q \in Nat : b <= c /\ r <= q =>
          /\ Larger(c, q) \in Nat /\ Larger(b, r) <= Larger(c, q) /\ b <= Larger(c, q) /\ c <= Larger(c, q) /\ q <= Larger(c, q)
    BY DEF Larger
  <2>2. /\ Larger(back, risk) \in Nat /\ Larger(backlog, risked) <= Larger(back, risk)
        /\ backlog <= Larger(back, risk) /\ back <= Larger(back, risk) /\ risk <= Larger(back, risk)
    BY <2>1, <1>k, <1>r, <1>o
  <2>3. Larger(back, risk) = Larger(backlog', risked')
    BY <1>k, <1>r, Zenon
  <2> QED
    BY <2>2, <2>3
<1>1. CASE Disconnect
  <2>1. connection' = None /\ setting'.op = "none"
    BY <1>1 DEF Disconnect, CanAsk
  <2> QED
    BY <2>1 DEF CoverInv
<1>2. CASE ~Disconnect
  \* What was safe stays safe.
  <2>1. ASSUME NEW u \in Updates, Safe(u) PROVE Safe(u)'
    BY <2>1, <1>2, <1>g, <1>o, <1>U, RowPresence DEF Safe, Larger
  <2>c. ASSUME NEW n, Covers(n) PROVE \A u \in Updates : u < n => Safe(u)'
    BY <2>c, <2>1 DEF Covers
  <2>b. ASSUME NEW n \in Nat, n <= high + 1 PROVE \A u \in Updates : u < n => Safe(u)'
    <3>1. \A u \in Updates : u <= high => Safe(u)'
      BY <1>m DEF Safe
    <3> QED
      BY <2>b, <3>1, <1>U
  <2>i. setting.op = "edit" \/ setting.op = "rotate" => connection # None
    BY DEF TypeInv, OwnerInv
  <2>n. setting.op = "connect" => connection = None
    BY DEF TypeInv, OwnerInv
  <2>s. Save => /\ connection' # None /\ connection'.offset = setting.offset /\ setting'.op = "none"
                /\ IF setting.op = "edit" THEN connection'.id = connection.id
                   ELSE setting.op = "connect" /\ connection'.id > poll.id
    BY Offsets
  \* The connection of the poll is not a new one.
  <2>2. connection' # None /\ connection'.id = poll.id => Ours
    BY <1>2, <1>o, <1>p, <2>i, <2>s, Offsets DEF Ours
  <2>3. connection' # None => connection # None \/ (Save /\ setting.op = "connect")
    BY <1>2, <2>i, <2>s, Offsets
  <2>4. connection' # None => \A u \in Updates : u < forgotten' => Safe(u)'
    <3>1. CASE forgotten' = forgotten
      <4>1. connection # None => Covers(forgotten)
        BY DEF CoverInv
      <4>2. setting.op = "connect" => forgotten <= high + 1
        <5>1. setting.op = "connect" => forgotten <= Larger(backlog, risked) + 1
          BY DEF CoverInv
        <5>2. Larger(backlog, risked) \in Nat
          BY <1>o DEF Larger
        <5> QED
          BY <5>1, <5>2, <1>o, <1>m
      <4> QED
        BY <3>1, <4>1, <4>2, <2>c, <2>b, <2>3, <1>o
    <3>2. CASE Fetch
      <4>1. forgotten' = Larger(forgotten, poll.offset) /\ connection' = connection /\ Fetching
        BY <3>2 DEF Fetch, GetUpdates, Fetching
      <4>2. connection # None => Covers(forgotten) /\ (Covers(poll.offset) \/ poll.offset <= backlog + 1)
        BY <4>1 DEF CoverInv
      <4>3. poll.offset <= backlog + 1 => poll.offset <= high + 1
        BY <1>m, <1>o, <1>p
      <4> QED
        BY <4>1, <4>2, <4>3, <2>c, <2>b, <1>p DEF Larger
    <3>3. CASE Compose
      <4>1. /\ forgotten' = Larger(forgotten, poll.to + 1) /\ connection' = connection
            /\ risked' = Larger(risked, poll.to)
        BY <3>3 DEF Compose, GetUpdates
      <4>2. connection # None => Covers(forgotten)
        BY DEF CoverInv
      <4>3. poll.to + 1 <= high + 1 /\ poll.to + 1 \in Nat
        <5>1. risk = Larger(risked, poll.to)
          BY <4>1, <1>r
        <5>2. poll.to <= risk
          BY <5>1, <1>p, <1>o DEF Larger
        <5> QED
          BY <5>2, <1>m, <1>p
      <4> QED
        BY <4>1, <4>2, <4>3, <2>c, <2>b DEF Larger
    <3>4. CASE RotateBacklog \/ Connect
      <4>1. forgotten' = Larger(forgotten, arrived) /\ backlog' = arrived
        BY <3>4, <1>g, Offsets
      <4>2. forgotten' \in Nat /\ forgotten' <= high + 1
        <5>1. arrived <= high /\ Larger(forgotten, arrived) \in Nat /\ Larger(forgotten, arrived) <= arrived + 1
          BY <3>4, <1>k, <1>m, <1>o DEF Larger
        <5> QED
          BY <4>1, <5>1, <1>o
      <4> QED
        BY <4>2, <2>b
    <3> QED
      BY <3>1, <3>2, <3>3, <3>4, <1>g
  <2>5. connection' # None => \A u \in Updates : u < connection'.offset => Safe(u)'
    <3>1. CASE Save
      <4>1. CASE setting.op = "edit"
        <5>1. Covers(setting.offset)
          BY <4>1, <2>i DEF CoverInv
        <5> QED
          BY <5>1, <3>1, <2>c, <2>s
      <4>2. CASE setting.op = "connect"
        <5>1. setting.offset <= high + 1 /\ setting.offset \in Nat
          BY <4>2, <1>m, <1>o DEF CoverInv
        <5> QED
          BY <5>1, <3>1, <2>b, <2>s
      <4> QED
        BY <3>1, <4>1, <4>2, <2>s
    <3>2. CASE connection' = connection
      BY <3>2, <2>c DEF CoverInv
    <3>3. CASE Rotate
      <4>1. connection # None /\ connection' = [connection EXCEPT !.version = @ + 1]
        BY <3>3 DEF Rotate
      <4>2. connection'.offset = connection.offset
        BY <4>1, <1>o
      <4> QED
        BY <4>1, <4>2, <2>c DEF CoverInv
    <3>4. CASE Advance /\ connection' # connection
      <4>1. Ours /\ poll.pc = "advance" /\ connection' = [connection EXCEPT !.offset = Advanced]
        BY <3>4 DEF Advance
      <4>2. connection # None /\ Batch
        BY <4>1 DEF Ours, Batch
      <4>3. Covers(connection.offset) /\ Covers(poll.last + 1)
        BY <4>1, <4>2 DEF CoverInv
      <4>4. connection'.offset = Larger(connection.offset, poll.last + 1)
        BY <4>1, <4>2, <1>o DEF Advanced
      <4> QED
        BY <4>3, <4>4, <2>c DEF Larger
    <3> QED
      BY <1>2, <1>g, <3>1, <3>2, <3>3, <3>4
  <2>6. connection' # None /\ setting'.op = "edit" => \A u \in Updates : u < setting'.offset => Safe(u)'
    <3>1. CASE UNCHANGED setting
      BY <3>1, <2>i, <2>c DEF CoverInv
    <3>2. CASE Edit /\ setting' = [op |-> "edit", offset |-> connection.offset]
      <4>1. Covers(connection.offset)
        BY <3>2 DEF CoverInv, Edit
      <4> QED
        BY <3>2, <4>1, <2>c
    <3>3. CASE RotateBacklog /\ setting' = [op |-> "edit", offset |-> BehindBacklog]
      <4>1. setting'.offset \in Nat /\ setting'.offset <= high + 1
        <5>1. setting'.offset = BehindBacklog /\ arrived <= high
          BY <3>3, <1>k, <1>m
        <5>2. BehindBacklog \in Nat /\ BehindBacklog <= arrived + 1
          BY <1>o DEF BehindBacklog
        <5> QED
          BY <5>1, <5>2, <1>o
      <4> QED
        BY <4>1, <2>b
    <3>4. CASE setting'.op \in {"none", "rotate", "connect"}
      BY <3>4
    <3> QED
      BY <3>1, <3>2, <3>3, <3>4, Offsets
  <2>7. Ours' /\ Fetching' => \A u \in Updates : u < poll'.offset => Safe(u)'
    <3>1. CASE Poll /\ poll'.offset = connection.offset
      BY <3>1, <2>c DEF CoverInv, Poll
    <3>2. CASE Fetching /\ poll'.id = poll.id /\ poll'.offset = poll.offset
      <4>1. Ours' => Ours /\ connection # None
        BY <3>2, <2>2 DEF Ours
      <4> QED
        BY <3>2, <4>1, <2>c DEF CoverInv
    <3> QED
      BY <3>1, <3>2, PollChanges DEF PollChange
  <2>8. Ours' /\ Windowed' => \A u \in Updates : u < poll'.at => Safe(u)'
    <3> SUFFICES ASSUME Ours', Windowed' PROVE \A u \in Updates : u < poll'.at => Safe(u)'
      OBVIOUS
    <3>0. poll'.id = poll.id
      BY PollChanges DEF PollChange
    <3>1. Ours /\ connection # None
      BY <3>0, <2>2 DEF Ours
    <3>2. CASE Windowed /\ poll'.at = poll.at
      BY <3>1, <3>2, <2>c DEF CoverInv
    <3>3. CASE Fetch /\ poll'.at = Low(poll.offset)
      <4>1. Covers(forgotten) /\ Covers(poll.offset)
        BY <3>1, <3>3 DEF CoverInv, Fetch, Fetching
      <4> QED
        BY <3>3, <4>1, <2>c DEF Low, Larger
    <3>4. CASE poll.pc = "advance" /\ poll'.at = poll.last + 1
      <4>1. Covers(poll.last + 1)
        BY <3>1, <3>4 DEF CoverInv, Batch
      <4> QED
        BY <3>4, <4>1, <2>c
    <3> QED
      BY <3>2, <3>3, <3>4, PollChanges DEF PollChange
  <2>9. Ours' /\ poll'.pc = "reserve" => \A u \in Updates : u < poll'.next => Safe(u)'
    <3> SUFFICES ASSUME Ours', poll'.pc = "reserve" PROVE \A u \in Updates : u < poll'.next => Safe(u)'
      OBVIOUS
    <3>0. poll'.id = poll.id
      BY PollChanges DEF PollChange, Windowed, Batch, Sorting
    <3>1. Ours /\ connection # None
      BY <3>0, <2>2 DEF Ours
    <3>2. CASE poll.pc = "group" /\ poll'.next = poll.at
      <4>1. Covers(poll.at)
        BY <3>1, <3>2 DEF CoverInv, Windowed
      <4> QED
        BY <3>2, <4>1, <2>c
    <3>3. CASE Reserve /\ poll'.next = poll.next + 1
      <4>1. Covers(poll.next)
        BY <3>1, <3>3 DEF CoverInv, Reserve
      <4>2. row'[poll.next] # None
        <5>1. NewRow # None
          BY NewRowType
        <5> QED
          BY <3>3, <5>1, ReservedRows
      <4>3. \A u \in Updates : u < poll.next + 1 => u < poll.next \/ u = poll.next
        BY <1>p, <1>U
      <4>5. \A u \in Updates : u = poll.next => row'[u] # None
        BY <4>2
      <4>6. \A u \in Updates : row'[u] # None => Safe(u)'
        BY DEF Safe
      <4> QED
        BY <3>3, <4>1, <4>3, <4>5, <4>6, <2>c
    <3>4. CASE poll.pc = "reserve" /\ poll'.next = poll.next
      <4>1. Covers(poll.next)
        BY <3>1, <3>4 DEF CoverInv
      <4> QED
        BY <3>4, <4>1, <2>c
    <3> QED
      BY <3>2, <3>3, <3>4, PollChanges DEF PollChange
  <2>10. Ours' /\ Batch' /\ poll'.pc # "reserve" => \A u \in Updates : u < poll'.last + 1 => Safe(u)'
    <3> SUFFICES ASSUME Ours', Batch', poll'.pc # "reserve" PROVE \A u \in Updates : u < poll'.last + 1 => Safe(u)'
      OBVIOUS
    <3>0. poll'.id = poll.id
      BY PollChanges DEF PollChange, Windowed
    <3>1. Ours /\ connection # None
      BY <3>0, <2>2 DEF Ours
    <3>2. Batch /\ poll'.last = poll.last /\ (poll.pc = "reserve" => poll.next > poll.last)
      BY PollChanges DEF PollChange
    <3>3. CASE poll.pc = "reserve"
      <4>1. Covers(poll.next) /\ poll.next = poll.last + 1
        BY <3>1, <3>2, <3>3, <1>p DEF CoverInv
      <4> QED
        BY <3>2, <4>1, <2>c
    <3>4. CASE poll.pc # "reserve"
      <4>1. Covers(poll.last + 1)
        BY <3>1, <3>2, <3>4 DEF CoverInv
      <4> QED
        BY <3>2, <4>1, <2>c
    <3> QED
      BY <3>3, <3>4
  <2>11. setting'.op = "connect" => forgotten' <= high + 1 /\ setting'.offset <= back + 1
    <3>1. CASE Connect
      <4>1. forgotten' = Larger(forgotten, arrived) /\ setting'.offset = BehindBacklog /\ back = arrived
        BY <3>1, <1>k DEF Connect, Begins, SkipBacklog
      <4>2. Larger(forgotten, arrived) <= arrived + 1 /\ BehindBacklog <= arrived + 1 /\ BehindBacklog \in Nat
            /\ Larger(forgotten, arrived) \in Nat
        BY <1>o DEF BehindBacklog, Larger
      <4> QED
        BY <4>1, <4>2, <1>m, <1>o
    <3>2. CASE UNCHANGED setting /\ setting.op = "connect" /\ ~Connect
      <4>1. forgotten <= Larger(backlog, risked) + 1 /\ setting.offset <= backlog + 1 /\ connection = None
        BY <3>2, <2>n DEF CoverInv
      <4>2. Larger(backlog, risked) \in Nat /\ forgotten <= high + 1 /\ setting.offset <= back + 1
        <5>1. Larger(backlog, risked) \in Nat
          BY <1>o DEF Larger
        <5> QED
          BY <4>1, <5>1, <1>k, <1>m, <1>o
      <4>3. CASE Fetch
        <5>1. forgotten' = Larger(forgotten, poll.offset) /\ Fetching /\ ~Ours
          BY <4>1, <4>3 DEF Fetch, GetUpdates, Fetching, Ours
        <5>2. poll.offset <= backlog + 1
          BY <5>1, <3>2 DEF CoverInv
        <5>3. poll.offset <= high + 1
          BY <5>2, <1>m, <1>o, <1>p
        <5> QED
          BY <4>2, <5>1, <5>3, <3>2 DEF Larger
      <4>4. CASE Compose
        <5>1. forgotten' = Larger(forgotten, poll.to + 1) /\ risked' = Larger(risked, poll.to)
          BY <4>4 DEF Compose, GetUpdates
        <5>2. poll.to <= risk
          <6>1. risk = Larger(risked, poll.to)
            BY <5>1, <1>r
          <6> QED
            BY <6>1, <1>o, <1>p DEF Larger
        <5>3. poll.to + 1 <= high + 1
          BY <5>2, <1>m, <1>p
        <5> QED
          BY <4>2, <5>1, <5>3, <3>2 DEF Larger
      <4>5. ~RotateBacklog
        BY <3>2 DEF RotateBacklog
      <4> QED
        BY <3>2, <4>2, <4>3, <4>4, <4>5, <1>g
    <3>3. setting'.op = "connect" => Connect \/ (UNCHANGED setting /\ setting.op = "connect")
      BY Offsets
    <3> QED
      BY <3>1, <3>2, <3>3
  <2>12. ~Ours' /\ Fetching' /\ (connection' # None \/ setting'.op = "connect") => poll'.offset <= back + 1
    <3> SUFFICES ASSUME ~Ours', Fetching', connection' # None \/ setting'.op = "connect" PROVE poll'.offset <= back + 1
      OBVIOUS
    <3>1. CASE Poll /\ poll'.id = connection.id
      <4>1. connection # None /\ connection' = connection
        BY <3>1 DEF Poll
      <4> QED
        BY <3>1, <4>1 DEF Ours
    <3>2. CASE Fetching /\ poll'.id = poll.id /\ poll'.offset = poll.offset
      <4>1. CASE Connect
        BY <3>2, <4>1, <1>k, <1>p
      <4>2. CASE ~Connect
        <5>1. connection # None \/ setting.op = "connect"
          BY <4>2, <2>3, Offsets
        <5>2. Ours => connection' # None /\ connection'.id = poll.id
          <6> SUFFICES ASSUME Ours PROVE connection' # None /\ connection'.id = poll.id
            OBVIOUS
          <6>1. connection # None /\ connection.id = poll.id
            BY DEF Ours
          <6>2. setting.op # "connect"
            BY <6>1, <2>n
          <6> QED
            BY <1>2, <6>1, <6>2, <2>s, Offsets
        <5>3. ~Ours
          BY <3>2, <5>2 DEF Ours
        <5>4. poll.offset <= backlog + 1
          BY <3>2, <5>1, <5>3 DEF CoverInv
        <5> QED
          BY <3>2, <5>4, <1>k, <1>o, <1>p
      <4> QED
        BY <4>1, <4>2
    <3> QED
      BY <3>1, <3>2, PollChanges DEF PollChange
  <2> QED
    BY <2>4, <2>5, <2>6, <2>7, <2>8, <2>9, <2>10, <2>11, <2>12, <1>k, <1>m DEF CoverInv, Covers
<1> QED
  BY <1>1, <1>2

\* No offset in use, and nothing Telegram was told, leaves an unrecorded message behind.
THEOREM CoverInvariant == Spec => [](TypeInv /\ CoverInv)
<1>1. TypeInv /\ CoverInv /\ [Next]_vars => CoverInv'
  BY CoverStep
<1> QED
  BY TypeInvariant, CoverInit, <1>1, PTL DEF Spec

\* In every behaviour, with any number of messages, requests of the owner, failures and
\* restarts: the stored offset, and what Telegram was told, leave no message behind that is
\* not recorded, but what was there before the bot or was confirmed early by the composition
\* window; a poll that still works for a connection that was removed does no harm either.
THEOREM NoMessageIsSkipped == Spec => []NothingSkipped
<1>1. ASSUME TypeInv, CoverInv PROVE NothingSkipped
  <2> SUFFICES ASSUME NEW u \in 1..arrived, connection # None, row[u] = None, u > backlog,
                      u < Larger(connection.offset, forgotten)
               PROVE  u <= risked
    BY DEF NothingSkipped
  <2>1. u \in Updates /\ backlog \in Nat /\ risked \in Nat
    BY <1>1, BrokerAssumption, OwnerFacts DEF TypeInv, Updates
  <2>2. Safe(u)
    BY <1>1, <2>1 DEF CoverInv, Covers, Larger
  <2> QED
    BY <2>1, <2>2 DEF Safe, Larger
<1> QED
  BY CoverInvariant, <1>1, PTL

(***************************************************************************)
(* Answers are whole.                                                       *)
(***************************************************************************)

SeenUpTo(u, r) == \A piece \in Pieces(r.text, r.file) : Seen(u, r.kind, piece)
Piece(r) == IF r.text < r.texts THEN <<"text", r.text + 1>> ELSE <<"file", r.file + 1>>

\* A message has pieces of one kind, the kind of the response in its row; none was shown or is
\* about to be for the messages of the group at hand and the one the agent is asked for.
KindsInv ==
  /\ \A u \in Updates : ~(Kind(u, "answer") /\ Kind(u, "failure"))
  /\ \A u \in Updates, kind \in {"answer", "failure"} :
       Kind(u, kind) /\ row[u] # None => row[u].response # None /\ row[u].response.kind = kind
  /\ \A u \in Updates : u \in poll.fresh \/ (poll.pc \in Asking /\ u = poll.first) => ~AnyKind(u)

\* The poll delivers what the rows have; what was sent and is not counted was shown. A poll
\* whose connection is gone meets no rows: only itself could reserve one.
ListedInv ==
  /\ poll.pc # "idle" /\ ~Ours => \A u \in Updates : row[u] = None
  /\ Ours => \A p \in poll.pending :
       /\ Staged(p.update) /\ row[p.update].response = p.response
       /\ poll.pc = "mark" /\ IsNext(p) => <<p.update, p.response.kind, Piece(p.response)>> \in shown

\* Nothing is stored for the messages of the group, and only the first is asked for.
FreshInv ==
  \A u \in poll.fresh :
    /\ row[u] # None => row[u].response = None \/ (poll.pc = "excuse" /\ u = poll.first)
    /\ row[u] # None /\ poll.pc \in Sorting => row[u].state = "reserved"
    /\ request[u].state # "none" => u = poll.first /\ poll.pc \notin Sorting

\* What a row counts was seen; a row that is final is complete.
Complete(u, r, q) ==
  /\ r.response # None => SeenUpTo(u, r.response)
  /\ r.response # None /\ r.state \in {"delivered", "failed"} => Delivered(r.response)
  /\ r.response = None /\ r.state \in {"delivered", "failed"} =>
       q.state = "none" \/ (q.state = "answered" /\ SeenAll(u, "answer", q.answer))
CompleteInv == \A u \in Updates : row[u] # None => Complete(u, row[u], request[u])

AnswersInv == KindsInv /\ ListedInv /\ FreshInv /\ CompleteInv

\* How a step moves the poll
PollPath ==
  /\ poll'.pc # "idle" => \/ poll.pc # "idle" /\ poll'.id = poll.id
                          \/ Poll /\ poll.pc = "idle" /\ connection # None /\ poll'.id = connection.id
                          \/ UNCHANGED poll
  /\ poll'.pc \in Asking => poll.pc \in Asking \cup {"ask"} /\ poll'.first = poll.first
  /\ poll'.pc = "mark" => poll'.pending = poll.pending /\ (poll.pc = "mark" \/ \E p \in poll.pending : Send(p))
  /\ \/ poll'.fresh = {}
     \/ Reserve /\ poll'.pc = "reserve" /\ poll'.fresh = Fresh /\ poll'.first = First
     \/ /\ poll'.fresh \subseteq poll.fresh /\ poll'.first = poll.first
        /\ poll'.pc \in Sorting => poll.pc \in Sorting
        /\ poll.pc = "excuse" => poll'.pc = "excuse" \/ poll.first \notin poll'.fresh

LEMMA PollPaths ==
    ASSUME TypeInv, [Next]_vars
    PROVE  PollPath
<1>h. /\ poll \in PollType /\ PendingOK /\ row \in [Updates -> Rows \cup {None}]
      /\ connection # None => connection.id \in Nat /\ connection.version \in Nat /\ connection.offset \in Nat
      /\ arrived \in Nat /\ forgotten \in Nat
      /\ poll.pc = "reserve" => poll.next \in Nat /\ (poll.next <= poll.last => poll.next \in Updates)
      /\ poll.pc = "turn" => poll.first \in Updates
      /\ \A u \in Updates : request[u].state = "answered" => request[u].answer \in Answers
  BY Hypotheses
<1>i. poll' = Idle => PollPath
  BY DEF Idle, PollPath, Asking
<1>u. poll' = poll => PollPath
  BY DEF PollPath
\* A step within the poll
<1>m. ASSUME NEW pc, NEW fresh, NEW then, NEW pending, NEW answer, NEW streamed,
             Moves(pc, fresh, then, pending, answer, streamed), poll.pc # "idle", fresh \subseteq poll.fresh,
             pc \in Asking => poll.pc \in Asking \cup {"ask"},
             pc = "mark" => pending = poll.pending /\ \E p \in poll.pending : Send(p),
             pc \in Sorting => poll.pc \in Sorting,
             poll.pc = "excuse" => pc = "excuse" \/ poll.first \notin fresh
      PROVE  PollPath
  BY <1>m DEF PollPath, Moves, Turned, Like
<1>s. ASSUME NEW pc, Shifts(pc), poll.pc # "idle", pc \in Asking => poll.pc \in Asking \cup {"ask"},
             pc = "mark" => \E p \in poll.pending : Send(p),
             pc \in Sorting => poll.pc \in Sorting, poll.pc # "excuse" \/ pc = "excuse"
      PROVE  PollPath
  BY <1>s DEF PollPath, Shifts, Moves, Turned, Like
<1>t. Throws => PollPath
  <2>1. Excused \subseteq Asking /\ "excuse" \in Asking /\ "excuse" \notin Sorting
    BY DEF Excused, Asking, Sorting
  <2>2. CASE poll.pc \in Excused /\ Shifts("excuse")
    BY <1>s, <2>1, <2>2 DEF Asking
  <2>3. CASE poll.pc \in Sync /\ Moves("advance", poll.fresh, poll.then, {}, poll.answer, poll.streamed)
    BY <1>m, <2>3 DEF Asking, Sorting, Sync
  <2> QED
    BY <1>i, <2>2, <2>3 DEF Throws
<1>l. \A pc, offset, at, to : Looks(pc, offset, at, to) /\ poll.pc \in {"fetch", "check", "recheck"}
                                /\ pc \in {"check", "recheck", "group"} => PollPath
  BY DEF Looks, PollPath, Asking, Sorting
<1>1. ASSUME Poll PROVE PollPath
  <2>1. poll.pc = "idle" /\ connection # None /\ (Starts \/ poll' = Idle)
    BY <1>1, <1>h, Delivering
  <2> QED
    BY <1>1, <2>1, <1>i DEF Starts, PollPath, Asking
<1>2. ASSUME ListPending PROVE PollPath
  <2>1. poll.pc = "list" /\ (Moves("deliver", poll.fresh, poll.then, Listed, poll.answer, poll.streamed) \/ Throws)
    BY <1>2, <1>h, Delivering
  <2> QED
    BY <2>1, <1>m, <1>t DEF Asking, Sorting
<1>3. ASSUME NEW p \in poll.pending, Send(p) PROVE PollPath
  <2>1. poll.pc = "deliver" /\ (Shifts("mark") \/ Throws)
    BY <1>3, <1>h, Delivering
  <2> QED
    BY <1>3, <2>1, <1>s, <1>t DEF Asking, Sorting
<1>4. ASSUME NEW p \in poll.pending, Mark(p) PROVE PollPath
  <2>1. poll.pc = "mark" /\ (Moves("deliver", poll.fresh, poll.then, Remarked(p), poll.answer, poll.streamed) \/ Throws)
    BY <1>4, <1>h, Delivering
  <2> QED
    BY <2>1, <1>m, <1>t DEF Asking, Sorting
<1>5. ASSUME DeliveryEnds PROVE PollPath
  <2>1. poll.pc = "deliver" /\ Shifts(poll.then) /\ poll.then \in {"fetch", "advance"}
    BY <1>5, <1>h, Delivering DEF PollType
  <2> QED
    BY <2>1, <1>s DEF Asking, Sorting
<1>6. ASSUME Fetch \/ Compose \/ Recheck PROVE PollPath
  <2>1. CASE Fetch
    BY <2>1, <1>h, <1>l, <1>i, Looking
  <2>2. CASE Compose
    BY <2>2, <1>h, <1>l, <1>i, Looking
  <2>3. CASE Recheck
    BY <2>3, <1>h, <1>l, <1>i, Looking
  <2> QED
    BY <1>6, <2>1, <2>2, <2>3
<1>7. ASSUME Group PROVE PollPath
  <2>1. poll.pc = "group" /\ (poll' = Idle \/ \E last \in poll.at..poll.to : Groups(last))
    BY <1>7, <1>h, Looking
  <2> QED
    BY <2>1, <1>i DEF Groups, PollPath, Asking
<1>8. ASSUME Reserve PROVE PollPath
  <2>1. poll.pc = "reserve" /\ (Reserves(Fresh, First) \/ poll' = Idle)
    BY <1>8, <1>h, Sorted
  <2> QED
    BY <1>8, <2>1, <1>i DEF Reserves, PollPath, Asking
<1>9. ASSUME Sort \/ ReserveRefused PROVE PollPath
  <2>1. poll' = Idle \/ (poll.pc = "reserve" /\ \E pc \in {"advance", "close", "reply", "ask"} : Shifts(pc))
    BY <1>9, <1>h, Sorted
  <2> QED
    BY <2>1, <1>i, <1>s DEF Asking, Sorting
<1>10. ASSUME Reply PROVE PollPath
  <2>1. poll.pc = "reply" /\ (Shifts("close") \/ poll' = Idle)
    BY <1>10, <1>h, Sorted
  <2> QED
    BY <2>1, <1>i, <1>s DEF Asking, Sorting
<1>11. ASSUME Close PROVE PollPath
  <2>1. poll.pc = "close" /\ (Shifts("advance") \/ poll' = Idle)
    BY <1>11, <1>h, Sorted
  <2> QED
    BY <2>1, <1>i, <1>s DEF Asking, Sorting
<1>12. ASSUME Ask PROVE PollPath
  <2>1. poll.pc = "ask" /\ Moves("turn", poll.fresh, poll.then, poll.pending, None, FALSE)
    BY <1>12, <1>h, Asked
  <2> QED
    BY <2>1, <1>m DEF Asking, Sorting
<1>13. ASSUME Stream PROVE PollPath
  <2>1. poll.pc = "turn" /\ \E streamed \in BOOLEAN : Moves("turn", poll.fresh, poll.then, poll.pending, poll.answer, streamed)
    BY <1>13, <1>h, Asked
  <2> QED
    BY <2>1, <1>m DEF Asking, Sorting
<1>14. ASSUME Answered PROVE PollPath
  <2>1. /\ poll.pc = "turn"
        /\ Moves("session", poll.fresh, poll.then, poll.pending, request[poll.first].answer, poll.streamed)
    BY <1>14, <1>h, Asked
  <2> QED
    BY <2>1, <1>m DEF Asking, Sorting
<1>15. ASSUME TurnFails \/ SaveSession PROVE PollPath
  <2>1. poll.pc \in {"turn", "session"} /\ \E pc \in {"excuse", "stage", "rest"} : Shifts(pc)
    BY <1>15, <1>h, Asked
  <2> QED
    BY <2>1, <1>s DEF Asking, Sorting
<1>16. ASSUME Stage PROVE PollPath
  <2>1. poll.pc = "stage" /\ (Moves("rest", Others, poll.then, poll.pending, poll.answer, poll.streamed) \/ Shifts("excuse"))
    BY <1>16, <1>h, Asked
  <2>2. Others \subseteq poll.fresh
    BY DEF Others
  <2> QED
    BY <2>1, <2>2, <1>m, <1>s DEF Asking, Sorting
<1>17. ASSUME Rest PROVE PollPath
  <2>1. poll.pc = "rest" /\ \/ Shifts("advance") \/ Shifts("excuse")
                            \/ Moves("list", poll.fresh, "advance", poll.pending, poll.answer, poll.streamed)
    BY <1>17, <1>h, Asked
  <2> QED
    BY <2>1, <1>m, <1>s DEF Asking, Sorting
<1>18. ASSUME Excuse PROVE PollPath
  <2>1. poll.pc = "excuse" /\ (Moves("excused", Others, poll.then, poll.pending, poll.answer, poll.streamed) \/ poll' = Idle)
    BY <1>18, <1>h, Asked
  <2>2. Others \subseteq poll.fresh /\ poll.first \notin Others
    BY DEF Others
  <2> QED
    BY <2>1, <2>2, <1>m, <1>i DEF Asking, Sorting
<1>19. ASSUME ExcuseRest PROVE PollPath
  <2>1. poll.pc = "excused" /\ (Moves("list", poll.fresh, "advance", poll.pending, poll.answer, poll.streamed) \/ poll' = Idle)
    BY <1>19, <1>h, Asked
  <2> QED
    BY <2>1, <1>m, <1>i DEF Asking, Sorting
<1>20. ASSUME Advance PROVE PollPath
  <2>1. poll.pc = "advance" /\ (Advances \/ poll' = Idle)
    BY <1>20, <1>h, Asked
  <2> QED
    BY <2>1, <1>i DEF Advances, PollPath, Asking
<1>21. ASSUME Fails PROVE PollPath
  BY <1>21, <1>h, <1>t, Asked
<1>22. ASSUME Control \/ Owner \/ Arrive \/ UNCHANGED vars PROVE PollPath
  <2>1. poll' = poll
    BY <1>22 DEF Control, Verify, Claim, TurnEnds, Owner, Connect, Edit, Rotate, RotateBacklog, Save, Disconnect, Arrive, vars
  <2> QED
    BY <2>1, <1>u
<1>23. ASSUME Restart PROVE PollPath
  BY <1>23, <1>i DEF Restart
<1> QED
  BY <1>1, <1>2, <1>3, <1>4, <1>5, <1>6, <1>7, <1>8, <1>9, <1>10, <1>11, <1>12, <1>13, <1>14, <1>15, <1>16, <1>17, <1>18,
     <1>19, <1>20, <1>21, <1>22, <1>23 DEF Next, Broker

\* Requests come from the question to the agent; Control goes on with them.
LEMMA RequestSteps ==
    ASSUME TypeInv, [Next]_vars, NEW u \in Updates
    PROVE  \/ request'[u] = request[u]
           \/ Ask /\ u = poll.first /\ u \in poll.fresh /\ poll'.pc = "turn" /\ UNCHANGED row
           \/ request[u].state \notin {"none", "answered"}
<1>h. /\ poll \in PollType
      /\ poll.pc = "turn" => poll.first \in Updates
      /\ \A v \in Updates : request[v].state = "answered" => request[v].answer \in Answers
  BY Hypotheses
<1>r. request \in [Updates -> Requests] /\ (poll.pc = "ask" => poll.first \in poll.fresh)
  BY DEF TypeInv, RowInv, Requests, RequestStates, PollInv
<1>1. ASSUME Ask PROVE request'[u] = request[u] \/ (u = poll.first /\ u \in poll.fresh /\ poll'.pc = "turn" /\ UNCHANGED row)
  <2>1. poll.pc = "ask" /\ poll'.pc = "turn"
    BY <1>1, <1>h, Asked DEF Moves, Turned
  <2> QED
    BY <1>1, <1>r, <2>1 DEF Ask
<1>2. ASSUME NEW v \in Updates, Verify(v) \/ Claim(v) \/ TurnEnds(v)
      PROVE  request'[u] = request[u] \/ request[u].state \notin {"none", "answered"}
  <2>1. request[v].state \notin {"none", "answered"}
    BY <1>2 DEF Verify, Claim, TurnEnds
  <2>2. u # v => request'[u] = request[u]
    BY <1>2, <1>r DEF Verify, Claim, TurnEnds
  <2> QED
    BY <2>1, <2>2
<1>3. request' = request \/ Ask \/ \E v \in Updates : Verify(v) \/ Claim(v) \/ TurnEnds(v)
  BY DEF Next, Broker, Control, Owner, vars, Poll, ListPending, Send, Mark, DeliveryEnds, Fetch, Compose,
     Recheck, Group, Reserve, ReserveRefused, Sort, Reply, Close, Stream, Answered, TurnFails, SaveSession, Stage,
     Rest, Excuse, ExcuseRest, Advance, Connect, Edit, Rotate, RotateBacklog, Save, Disconnect,
     Fails, Arrive, Restart, GetUpdates, FinishUpdates, StageResponse
<1> QED
  BY <1>1, <1>2, <1>3

LEMMA ShownGrows ==
    ASSUME [Next]_vars
    PROVE  /\ shown \subseteq shown'
           /\ shown' = shown \/ Stream \/ \E p \in poll.pending : Send(p)
<1>1. shown' = shown \/ Stream \/ \E p \in poll.pending : Send(p)
  BY DEF Next, Broker, Control, Owner, vars, Poll, ListPending, Mark, DeliveryEnds, Fetch, Compose,
     Recheck, Group, Reserve, ReserveRefused, Sort, Reply, Close, Ask, Answered, TurnFails, SaveSession, Stage,
     Rest, Excuse, ExcuseRest, Advance, Verify, Claim, TurnEnds, Connect, Edit, Rotate, RotateBacklog, Save, Disconnect,
     Fails, Arrive, Restart, GetUpdates, FinishUpdates, StageResponse
<1>2. Stream => shown \subseteq shown'
  BY DEF Stream
<1>3. ASSUME NEW p \in poll.pending, Send(p) PROVE shown \subseteq shown'
  BY <1>3 DEF Send
<1> QED
  BY <1>1, <1>2, <1>3

\* A kind is new for a message when its row's response is listed.
LEMMA KindSources ==
    ASSUME TypeInv, [Next]_vars, NEW u \in Updates, NEW kind \in {"answer", "failure"}, Kind(u, kind)'
    PROVE  Kind(u, kind) \/ (poll.pc = "list" /\ UNCHANGED row /\ Ours /\ Staged(u) /\ row[u].response.kind = kind)
<1>h. poll \in PollType
  BY Hypotheses
<1>1. ASSUME NEW p \in poll'.pending, p.update = u, p.response.kind = kind
      PROVE  Kind(u, kind) \/ (poll.pc = "list" /\ UNCHANGED row /\ Ours /\ Staged(u) /\ row[u].response.kind = kind)
  <2>1. CASE p \in poll.pending
    BY <1>1, <2>1 DEF Kind
  <2>2. CASE ListPending /\ poll'.pending = Listed
    BY <1>1, <2>2 DEF Listed, ListPending
  <2>3. ASSUME NEW q \in poll.pending, Mark(q), poll'.pending = Remarked(q), p \notin poll.pending
        PROVE  Kind(u, kind)
    <3>1. p = [q EXCEPT !.response = Counted(q.response)] /\ q \in Pending
      BY <2>3, <1>1, <1>h DEF Remarked, PollType
    <3>2. p.update = q.update /\ p.response = Counted(q.response)
      BY <3>1 DEF Pending
    <3>3. Counted(q.response).kind = q.response.kind
      BY PendingPieces, CountedType
    <3> QED
      BY <1>1, <3>2, <3>3 DEF Kind
  <2> QED
    BY <1>1, <2>1, <2>2, <2>3, PollChanges DEF PollChange
<1>2. Told(u, kind)' => Kind(u, kind)
  <2>1. ASSUME NEW p \in poll.pending, Send(p) PROVE Told(u, kind)' => Kind(u, kind)
    BY <2>1 DEF Send, Told, Kind
  <2>2. Stream => (Told(u, kind)' => Told(u, kind))
    BY DEF Stream, Told
  <2>3. shown' = shown => (Told(u, kind)' => Told(u, kind))
    BY DEF Told
  <2> QED
    BY <2>1, <2>2, <2>3, ShownGrows DEF Kind
<1> QED
  BY <1>1, <1>2 DEF Kind

\* How a step changes the row of a message
RowPath(u) ==
  \/ row'[u] = row[u] \/ row'[u] = None
  \/ Reserve /\ u = poll.next /\ row[u] = None /\ row'[u] = NewRow
  \/ \E p \in poll.pending : Mark(p) /\ u = p.update /\ CountedRow(p)
  \/ /\ poll.pc \in {"close", "rest", "excused"} /\ poll'.pc \notin Sorting /\ UNCHANGED <<request, shown>>
     /\ u \in poll.fresh /\ row[u] # None /\ row'[u].response = row[u].response
  \/ /\ u = poll.first /\ poll.pc \in {"stage", "excuse"} /\ row'[u].state = "dispatched" /\ Ours
     /\ row'[u].response = IF poll.pc = "stage" THEN AnswerResponse(poll.answer) ELSE Response("failure", 1, 0, "failed")
     /\ u \in poll'.fresh => poll'.pc = "excuse" /\ poll'.first = poll.first
  \/ Claim(u) /\ ClaimedRow(u)

LEMMA RowPaths ==
    ASSUME TypeInv, [Next]_vars, NEW u \in Updates
    PROVE  RowPath(u)
<1>h. /\ poll \in PollType
      /\ poll.pc = "reserve" => poll.next \in Nat /\ (poll.next <= poll.last => poll.next \in Updates)
      /\ poll.pc = "turn" => poll.first \in Updates
      /\ \A v \in Updates : request[v].state = "answered" => request[v].answer \in Answers
  BY Hypotheses
<1>f. poll.pc \in Asking => poll.first \in Updates
  BY DEF TypeInv, PollInv
<1>1. ASSUME NEW p \in poll.pending, Mark(p) PROVE RowPath(u)
  BY <1>1, MarkedRows DEF RowPath
<1>2. ASSUME Reserve PROVE RowPath(u)
  BY <1>2, ReservedRows DEF RowPath
<1>3. ASSUME NEW S \in SUBSET poll.fresh, NEW state \in Final, row' = Finished(S, state),
             poll.pc \in {"close", "rest", "excused"}, poll'.pc \notin Sorting, UNCHANGED <<request, shown>>
      PROVE  RowPath(u)
  <2>1. CASE u \in S /\ row[u] # None
    BY <1>3, <2>1, FinishedRows DEF TypeInv, RowPath
  <2>2. CASE ~(u \in S /\ row[u] # None)
    BY <1>3, <2>2 DEF Finished, Open, RowPath
  <2> QED
    BY <2>1, <2>2
<1>4. ASSUME Close PROVE RowPath(u)
  <2>1. poll.state \in Final /\ UNCHANGED <<request, shown>>
    BY <1>4, <1>h DEF PollType, Final, Close, FinishUpdates
  <2>2. poll.pc = "close" /\ (Shifts("advance") \/ poll' = Idle) /\ \E S \in SUBSET poll.fresh : row' = Finished(S, poll.state)
    BY <1>4, <1>h, Sorted
  <2>3. poll'.pc \notin Sorting
    BY <2>2 DEF Shifts, Moves, Turned, Idle, Sorting
  <2> QED
    BY <1>3, <2>1, <2>2, <2>3
<1>5. ASSUME Rest PROVE RowPath(u)
  <2>1. "delivered" \in Final /\ UNCHANGED <<request, shown>>
    BY <1>5 DEF Final, Rest, FinishUpdates
  <2>2. /\ poll.pc = "rest" /\ \E S \in SUBSET poll.fresh : row' = Finished(S, "delivered")
        /\ \/ Shifts("advance") \/ Shifts("excuse")
           \/ Moves("list", poll.fresh, "advance", poll.pending, poll.answer, poll.streamed)
    BY <1>5, <1>h, Asked
  <2>3. poll'.pc \notin Sorting
    BY <2>2 DEF Shifts, Moves, Turned, Sorting
  <2> QED
    BY <1>3, <2>1, <2>2, <2>3
<1>6. ASSUME ExcuseRest PROVE RowPath(u)
  <2>1. "failed" \in Final /\ UNCHANGED <<request, shown>>
    BY <1>6 DEF Final, ExcuseRest, FinishUpdates
  <2>2. /\ poll.pc = "excused" /\ \E S \in SUBSET poll.fresh : row' = Finished(S, "failed")
        /\ Moves("list", poll.fresh, "advance", poll.pending, poll.answer, poll.streamed) \/ poll' = Idle
    BY <1>6, <1>h, Asked
  <2>3. poll'.pc \notin Sorting
    BY <2>2 DEF Idle, Moves, Turned, Sorting
  <2> QED
    BY <1>3, <2>1, <2>2, <2>3
<1>7. ASSUME Stage PROVE RowPath(u)
  <2>1. poll.pc = "stage" /\ (Moves("rest", Others, poll.then, poll.pending, poll.answer, poll.streamed) \/ Shifts("excuse"))
    BY <1>7, <1>h, Asked
  <2>2. poll.first \in poll'.fresh => poll'.pc = "excuse" /\ poll'.first = poll.first
    BY <2>1 DEF Shifts, Moves, Turned, Like, Others
  <2>3. /\ Ours /\ Open(poll.first) => StagedRow(AnswerResponse(poll.answer))
        /\ ~(Ours /\ Open(poll.first)) => row'[poll.first] = row[poll.first]
        /\ \A v \in Updates \ {poll.first} : row'[v] = row[v]
    BY <1>7, <1>f, StagedResponses, StagedRows DEF Stage, StageResponse, Asking
  <2> QED
    BY <2>1, <2>2, <2>3 DEF StagedRow, RowPath
<1>8. ASSUME Excuse PROVE RowPath(u)
  <2>1. poll.pc = "excuse" /\ (Moves("excused", Others, poll.then, poll.pending, poll.answer, poll.streamed) \/ poll' = Idle)
    BY <1>8, <1>h, Asked
  <2>2. poll.first \notin poll'.fresh
    BY <2>1 DEF Idle, Moves, Turned, Like, Others
  <2>3. /\ Ours /\ Open(poll.first) => StagedRow(Response("failure", 1, 0, "failed"))
        /\ ~(Ours /\ Open(poll.first)) => row'[poll.first] = row[poll.first]
        /\ \A v \in Updates \ {poll.first} : row'[v] = row[v]
    BY <1>8, <1>f, StagedResponses, StagedRows DEF Excuse, StageResponse, Asking
  <2> QED
    BY <2>1, <2>2, <2>3 DEF StagedRow, RowPath
<1>9. ASSUME NEW v \in Updates, Claim(v) PROVE RowPath(u)
  BY <1>9, ClaimedRows DEF RowPath
<1>10. ASSUME Disconnect PROVE RowPath(u)
  BY <1>10 DEF Disconnect, RowPath
<1>11. ASSUME \/ Poll \/ ListPending \/ (\E p \in poll.pending : Send(p)) \/ DeliveryEnds \/ Fetch \/ Compose \/ Recheck \/ Group
              \/ ReserveRefused \/ Sort \/ Reply \/ Ask \/ Stream \/ Answered \/ TurnFails \/ SaveSession \/ Advance
              \/ (\E v \in Updates : Verify(v) \/ TurnEnds(v))
              \/ Connect \/ Edit \/ Rotate \/ RotateBacklog \/ Save \/ Fails \/ Arrive \/ Restart \/ UNCHANGED vars
       PROVE  RowPath(u)
  <2>1. row' = row
    BY <1>11 DEF Poll, ListPending, Send, DeliveryEnds, Fetch, Compose, GetUpdates, Recheck, Group, ReserveRefused, Sort, Reply,
       Ask, Stream, Answered, TurnFails, SaveSession, Advance, Verify, TurnEnds, Connect, Edit, Rotate, RotateBacklog, Save,
       Fails, Arrive, Restart, vars
  <2> QED
    BY <2>1 DEF RowPath
<1> QED
  BY <1>1, <1>2, <1>4, <1>5, <1>6, <1>7, <1>8, <1>9, <1>10, <1>11 DEF Next, Broker, Control, Owner

LEMMA AnswersInit ==
    ASSUME Init
    PROVE  AnswersInv
<1>1. \A u \in Updates, kind \in {"answer", "failure"} : ~Kind(u, kind)
  BY DEF Init, Kind, Told, Idle
<1>2. KindsInv
  BY <1>1 DEF Init, KindsInv, AnyKind, Asking, Idle
<1>3. ListedInv /\ FreshInv /\ CompleteInv
  BY DEF Init, ListedInv, FreshInv, CompleteInv, Idle, Ours
<1> QED
  BY <1>2, <1>3 DEF AnswersInv

\* A message that is reserved anew is untouched: the offsets never lead back.
LEMMA NewMessages ==
    ASSUME TypeInv, BoundsInv, Reserve, row[poll.next] = None
    PROVE  poll.next \in Updates /\ ~Touched(poll.next)
<1>1. poll.next \in Updates /\ Ours
  BY ReservedRows
<1>2. poll.pc = "reserve" /\ Windowed
  BY DEF Reserve, Windowed, Batch, Sorting
<1>3. poll.at <= poll.next /\ poll.at \in Nat /\ poll.next \in Nat
  BY <1>2 DEF TypeInv, PollInv, PollType
<1>4. Touched(poll.next) => poll.next < poll.at
  BY <1>1, <1>2 DEF BoundsInv, Behind
<1> QED
  BY <1>1, <1>3, <1>4

LEMMA KindsStep ==
    ASSUME TypeInv, BoundsInv, KindsInv, FreshInv, [Next]_vars
    PROVE  KindsInv'
<1>p. PollPath
  BY PollPaths
<1>f. poll.fresh \subseteq Updates /\ (poll.pc \in Asking => poll.first \in Updates)
      /\ (poll.pc = "ask" => poll.first \in poll.fresh)
  BY DEF TypeInv, PollInv, PollType
\* What a kind after the step says of the row before it
<1>h. ASSUME NEW u \in Updates, NEW kind \in {"answer", "failure"}, Kind(u, kind)', row[u] # None
      PROVE  row[u].response # None /\ row[u].response.kind = kind
  <2>1. CASE Kind(u, kind)
    BY <1>h, <2>1 DEF KindsInv
  <2>2. CASE Staged(u) /\ row[u].response.kind = kind
    BY <2>2 DEF Staged
  <2> QED
    BY <1>h, <2>1, <2>2, KindSources
\* Without a row, nothing is listed.
<1>n. ASSUME NEW u \in Updates, NEW kind \in {"answer", "failure"}, Kind(u, kind)', row[u] = None
      PROVE  Kind(u, kind)
  BY <1>n, KindSources DEF Staged
\* The group at hand and the message of the question stay without a kind.
<1>o. ASSUME NEW u \in Updates, u \in poll.fresh \/ (poll.pc \in Asking /\ u = poll.first) PROVE ~AnyKind(u)'
  <2>1. ~AnyKind(u)
    BY <1>o DEF KindsInv
  <2>2. ~(poll.pc = "list" /\ Staged(u))
    <3>1. CASE u \in poll.fresh
      BY <3>1 DEF FreshInv, Staged
    <3>2. CASE poll.pc \in Asking
      BY <3>2 DEF Asking
    <3> QED
      BY <1>o, <3>1, <3>2
  <2> QED
    BY <2>1, <2>2, KindSources DEF AnyKind
<1>1. ASSUME NEW u \in Updates PROVE ~(Kind(u, "answer")' /\ Kind(u, "failure")')
  <2>1. CASE row[u] = None
    BY <2>1, <1>n DEF KindsInv
  <2>2. CASE row[u] # None
    BY <2>2, <1>h
  <2> QED
    BY <2>1, <2>2
<1>2. ASSUME NEW u \in Updates, NEW kind \in {"answer", "failure"}, Kind(u, kind)', row'[u] # None
      PROVE  row'[u].response # None /\ row'[u].response.kind = kind
  <2>1. CASE row'[u] = row[u]
    BY <1>2, <2>1, <1>h
  <2>2. CASE Reserve /\ u = poll.next /\ row[u] = None
    BY <1>2, <2>2, <1>n, NewMessages DEF Touched, AnyKind
  <2>3. ASSUME NEW p \in poll.pending, u = p.update, CountedRow(p)
        PROVE  row'[u].response # None /\ row'[u].response.kind = kind
    <3>1. p.response.kind \in {"answer", "failure"} /\ Counted(p.response) \in Responses
          /\ Counted(p.response).kind = p.response.kind
      BY PendingPieces, CountedType
    <3>2. Kind(u, p.response.kind) /\ row[u] # None
      BY <2>3 DEF Kind, CountedRow, Staged
    <3>3. row[u].response.kind = p.response.kind
      BY <3>1, <3>2 DEF KindsInv
    <3>4. row'[u].response = Counted(p.response)
      BY <2>3 DEF CountedRow
    <3>5. Counted(p.response) # None
      BY <3>1, NoneAssumption
    <3> QED
      BY <1>2, <1>h, <3>1, <3>2, <3>3, <3>4, <3>5
  <2>4. CASE row[u] # None /\ row'[u].response = row[u].response
    BY <1>2, <2>4, <1>h
  <2>5. CASE u = poll.first /\ poll.pc \in {"stage", "excuse"}
    BY <1>2, <2>5, <1>o DEF Asking, AnyKind
  <2>6. CASE ClaimedRow(u)
    BY <1>2, <2>6, <1>h DEF ClaimedRow, CanClaim
  <2> QED
    BY <1>2, <2>1, <2>2, <2>3, <2>4, <2>5, <2>6, RowPaths DEF RowPath
<1>3. ASSUME NEW u \in Updates, u \in poll'.fresh PROVE ~AnyKind(u)'
  <2>1. CASE u \in poll.fresh
    BY <2>1, <1>o
  <2>2. CASE Reserve /\ poll'.fresh = Fresh /\ u \notin poll.fresh
    <3>1. u = poll.next /\ row[u] = None
      BY <1>3, <2>2, ReservedRows DEF Fresh
    <3>2. ~AnyKind(u)
      BY <2>2, <3>1, NewMessages DEF Touched
    <3> QED
      BY <3>1, <3>2, <1>n DEF AnyKind
  <2> QED
    BY <1>3, <2>1, <2>2, <1>p DEF PollPath
<1>4. ASSUME NEW u \in Updates, poll'.pc \in Asking, u = poll'.first PROVE ~AnyKind(u)'
  <2>1. u = poll.first /\ (u \in poll.fresh \/ poll.pc \in Asking)
    BY <1>4, <1>p, <1>f DEF PollPath
  <2> QED
    BY <2>1, <1>o
<1> QED
  BY <1>1, <1>2, <1>3, <1>4 DEF KindsInv

\* A connection that is the poll's after a step was the poll's before.
LEMMA OursBefore ==
    ASSUME TypeInv, [Next]_vars, connection' # None, connection'.id = poll.id
    PROVE  Ours
<1>1. connection # None => connection.id \in Nat /\ connection.id <= settings
  BY OwnerFacts DEF TypeInv
<1>2. poll.id \in Nat /\ poll.id <= settings /\ settings \in Nat
  BY OwnerFacts DEF TypeInv, PollInv, PollType
<1>3. setting.op = "edit" => connection # None
  BY DEF TypeInv, OwnerInv
<1>4. Save => IF setting.op = "edit" THEN connection'.id = connection.id ELSE setting.op = "connect" /\ connection'.id > poll.id
  BY Offsets
<1> QED
  BY <1>1, <1>2, <1>3, <1>4, Offsets DEF Ours

LEMMA ListedStep ==
    ASSUME TypeInv, ListedInv, [Next]_vars
    PROVE  ListedInv'
<1>p. PollPath
  BY PollPaths
<1>h. /\ poll \in PollType /\ PendingOK /\ row \in [Updates -> Rows \cup {None}]
      /\ connection # None => connection.id \in Nat /\ connection.version \in Nat /\ connection.offset \in Nat
      /\ poll.pending \subseteq Pending
  BY Hypotheses DEF PollType
<1>q. (poll'.pending # {} => poll'.pc \in {"deliver", "mark"}) /\ (poll.pending # {} => poll.pc \in {"deliver", "mark"})
  BY PollStep DEF TypeInv, PollInv
\* The poll of a connection that is gone
<1>1. ASSUME poll'.pc # "idle", ~Ours', NEW u \in Updates PROVE row'[u] = None
  <2>1. CASE Poll /\ connection # None /\ poll'.id = connection.id
    <3>1. connection' = connection
      BY <2>1 DEF Poll
    <3> QED
      BY <1>1, <2>1, <3>1 DEF Ours
  <2>2. CASE poll.pc # "idle" /\ poll'.id = poll.id
    <3>1. CASE ~Ours
      <4>1. row[u] = None
        BY <2>2, <3>1 DEF ListedInv
      <4>2. ~Reserve
        BY <3>1, ReservedRows
      <4> QED
        BY <4>1, <4>2, RowPresence
    <3>2. CASE Ours
      <4>1. Save => connection'.id = connection.id /\ connection' # None
        <5>1. setting.op = "connect" => connection = None
          BY DEF TypeInv, OwnerInv
        <5> QED
          BY <3>2, <5>1, Offsets DEF Ours
      <4>2. connection' = None
        BY <1>1, <2>2, <3>2, <4>1, Offsets DEF Ours
      <4>3. OwnerInv'
        BY OwnerStep
      <4> QED
        BY <4>2, <4>3 DEF OwnerInv
    <3> QED
      BY <3>1, <3>2
  <2> QED
    BY <1>1, <2>1, <2>2, <1>p DEF PollPath
\* What is listed
<1>2. ASSUME Ours', NEW p \in poll'.pending
      PROVE  /\ Staged(p.update)' /\ row'[p.update].response = p.response
             /\ poll'.pc = "mark" /\ IsNext(p)' => <<p.update, p.response.kind, Piece(p.response)>> \in shown'
  <2>1. poll'.pc \in {"deliver", "mark"}
    BY <1>2, <1>q
  <2>2. poll.pc # "idle" /\ poll'.id = poll.id
    <3>1. poll.pc # "idle"
      <4>1. ListPending => poll.pc = "list"
        BY DEF ListPending
      <4>2. \A q \in poll.pending : Mark(q) => poll.pc = "mark"
        BY DEF Mark
      <4> QED
        BY <1>2, <1>q, <4>1, <4>2, PollChanges DEF PollChange
    <3> QED
      BY <2>1, <3>1, <1>p DEF PollPath
  <2>3. Ours
    BY <1>2, <2>2, OursBefore DEF Ours
  <2>l. \A q \in poll.pending : Staged(q.update) /\ row[q.update].response = q.response /\ q.update \in Updates
    BY <2>3, <1>h DEF ListedInv, Pending
  <2>u. \A q, r \in poll.pending : q.update = r.update => q = r
    <3>1. \A q, r \in Pending : q.update = r.update /\ q.response = r.response => q = r
      BY DEF Pending
    <3> QED
      BY <2>l, <3>1, <1>h
  <2>4. CASE \E q \in poll.pending : Mark(q)
    <3>1. PICK q \in poll.pending : Mark(q)
      BY <2>4
    <3>2. /\ poll.pc = "mark"
          /\ Moves("deliver", poll.fresh, poll.then, Remarked(q), poll.answer, poll.streamed) \/ Throws
      BY <3>1, <1>h, Delivering
    <3>3. poll'.pending = Remarked(q) /\ poll'.pc = "deliver"
      BY <1>2, <2>1, <3>2 DEF Throws, Shifts, Moves, Turned, Idle, Excused
    <3>4. CASE p \in poll.pending /\ p # q
      <4>1. p.update \in Updates /\ p.update # q.update
        BY <3>4, <2>l, <2>u
      <4>2. row'[p.update] = row[p.update]
        BY <3>1, <4>1, MarkedRows
      <4> QED
        BY <3>3, <3>4, <4>2, <2>l DEF Staged
    <3>5. CASE p = [q EXCEPT !.response = Counted(q.response)] /\ ~Delivered(Counted(q.response))
      <4>1. p.update = q.update /\ p.response = Counted(q.response)
        BY <3>5, <1>h DEF Pending
      <4>2. CountedRow(q)
        BY <3>1, <2>3, <2>l, MarkedRows
      <4>3. Counted(q.response) # None
        BY PendingPieces, CountedType, NoneAssumption
      <4> QED
        BY <3>3, <3>5, <4>1, <4>2, <4>3 DEF CountedRow, Staged
    <3> QED
      BY <1>2, <3>3, <3>4, <3>5 DEF Remarked
  <2>5. CASE ListPending /\ poll'.pending = Listed
    <3>1. poll.pc = "list" /\ row' = row /\ poll'.pc # "mark"
      BY <2>5, <1>p DEF ListPending, PollPath, Send
    <3>2. PICK u \in Updates : Staged(u) /\ p = [update |-> u, response |-> row[u].response]
      BY <1>2, <2>5 DEF Listed
    <3> QED
      BY <3>1, <3>2 DEF Staged
  <2>6. CASE poll'.pending \subseteq poll.pending /\ ~(\E q \in poll.pending : Mark(q))
    <3>1. p \in poll.pending /\ p.update \in Updates /\ poll.pc \in {"deliver", "mark"}
      BY <1>2, <2>6, <2>l, <1>q
    <3>2. Staged(p.update) /\ row[p.update].response = p.response
      BY <2>l, <3>1
    <3>3. row'[p.update] # None
      <4>1. Disconnect => connection' = None
        BY DEF Disconnect
      <4> QED
        BY <1>2, <3>1, <3>2, <4>1, RowPresence DEF Ours, Staged
    <3>4. row'[p.update] = row[p.update]
      <4>1. ~ClaimedRow(p.update) /\ ~Reserve
        BY <3>1, <3>2 DEF ClaimedRow, CanClaim, Staged, Reserve
      <4> QED
        BY <2>6, <3>1, <3>3, <4>1, RowPaths DEF RowPath
    <3>5. ASSUME poll'.pc = "mark", IsNext(p)'
          PROVE  <<p.update, p.response.kind, Piece(p.response)>> \in shown'
      <4>1. poll'.pending = poll.pending /\ (poll.pc = "mark" \/ \E q \in poll.pending : Send(q))
        BY <3>5, <1>p DEF PollPath
      <4>2. IsNext(p)
        BY <3>5, <4>1 DEF IsNext
      <4>3. CASE poll.pc = "mark"
        BY <2>3, <3>1, <4>2, <4>3, ShownGrows DEF ListedInv
      <4>4. ASSUME NEW q \in poll.pending, Send(q) PROVE <<p.update, p.response.kind, Piece(p.response)>> \in shown'
        <5>1. q.update <= p.update /\ p.update <= q.update
          BY <3>1, <4>2, <4>4 DEF Send, IsNext
        <5>2. q = p
          BY <2>l, <2>u, <3>1, <5>1 DEF Updates
        <5> QED
          BY <4>4, <5>2 DEF Send, Piece
      <4> QED
        BY <4>1, <4>3, <4>4
    <3> QED
      BY <3>2, <3>4, <3>5 DEF Staged
  <2> QED
    BY <2>4, <2>5, <2>6, PollChanges DEF PollChange
<1> QED
  BY <1>1, <1>2 DEF ListedInv

LEMMA FreshStep ==
    ASSUME TypeInv, BoundsInv, KindsInv, FreshInv, [Next]_vars
    PROVE  FreshInv'
<1>p. PollPath
  BY PollPaths
<1>t. poll.fresh \subseteq Updates /\ poll'.fresh \subseteq Updates
  BY PollStep DEF TypeInv, PollInv, PollType
<1> SUFFICES ASSUME NEW u \in Updates, u \in poll'.fresh
             PROVE  /\ row'[u] # None => row'[u].response = None \/ (poll'.pc = "excuse" /\ u = poll'.first)
                    /\ row'[u] # None /\ poll'.pc \in Sorting => row'[u].state = "reserved"
                    /\ request'[u].state # "none" => u = poll'.first /\ poll'.pc \notin Sorting
  BY <1>t DEF FreshInv
<1>1. CASE Reserve /\ poll'.pc = "reserve" /\ poll'.fresh = Fresh
  <2>1. poll.pc = "reserve" /\ poll.pc \in Sorting /\ request' = request
    BY <1>1 DEF Reserve, Sorting
  <2>2. CASE u \in poll.fresh
    <3>1. u # poll.next
      <4>1. u < poll.next /\ poll.next \in Nat /\ u \in Nat
        BY <2>1, <2>2 DEF TypeInv, PollInv, PollType, Updates
      <4> QED
        BY <4>1
    <3>2. row'[u] = row[u]
      BY <1>1, <3>1, ReservedRows
    <3> QED
      BY <2>1, <2>2, <3>2 DEF FreshInv
  <2>3. CASE u \notin poll.fresh
    <3>1. u = poll.next /\ row[u] = None
      BY <1>1, <2>3, ReservedRows DEF Fresh
    <3>2. row'[u] = NewRow /\ request[u].state = "none"
      BY <1>1, <3>1, ReservedRows, NewMessages DEF Touched
    <3> QED
      BY <2>1, <3>2, NewRowType
  <2> QED
    BY <2>2, <2>3
<1>2. CASE /\ u \in poll.fresh /\ poll'.first = poll.first
           /\ poll'.pc \in Sorting => poll.pc \in Sorting
           /\ poll.pc = "excuse" => poll'.pc = "excuse" \/ poll.first \notin poll'.fresh
  <2>f. /\ row[u] # None => row[u].response = None \/ (poll.pc = "excuse" /\ u = poll.first)
        /\ row[u] # None /\ poll.pc \in Sorting => row[u].state = "reserved"
        /\ request[u].state # "none" => u = poll.first /\ poll.pc \notin Sorting
    BY <1>2 DEF FreshInv
  <2>1. request'[u].state # "none" => u = poll'.first /\ poll'.pc \notin Sorting
    <3>1. CASE request[u].state # "none"
      BY <1>2, <2>f, <3>1
    <3>2. CASE request[u].state = "none"
      <4>1. request'[u].state # "none" => u = poll.first /\ poll'.pc = "turn"
        BY <3>2, RequestSteps
      <4> QED
        BY <1>2, <4>1 DEF Sorting
    <3> QED
      BY <3>1, <3>2
  <2>2. ASSUME row'[u] # None
        PROVE  /\ row'[u].response = None \/ (poll'.pc = "excuse" /\ u = poll'.first)
               /\ poll'.pc \in Sorting => row'[u].state = "reserved"
    <3>1. CASE row'[u] = row[u]
      BY <1>2, <2>f, <2>2, <3>1
    <3>2. CASE Reserve /\ u = poll.next
      <4>1. u < poll.next /\ u \in Nat
        BY <1>2, <3>2 DEF Reserve, TypeInv, PollInv, PollType, Updates
      <4> QED
        BY <3>2, <4>1
    <3>3. ASSUME NEW p \in poll.pending, u = p.update PROVE FALSE
      BY <1>2, <3>3, PendingPieces DEF KindsInv, AnyKind, Kind
    <3>4. CASE /\ poll.pc \in {"close", "rest", "excused"} /\ poll'.pc \notin Sorting
               /\ row[u] # None /\ row'[u].response = row[u].response
      BY <2>f, <3>4
    <3>5. CASE /\ u = poll.first /\ poll.pc \in {"stage", "excuse"}
               /\ u \in poll'.fresh => poll'.pc = "excuse" /\ poll'.first = poll.first
      BY <3>5 DEF Sorting
    <3>6. CASE Claim(u) /\ ClaimedRow(u)
      BY <1>2, <2>f, <3>6 DEF Claim, ClaimedRow
    <3> QED
      BY <2>2, <3>1, <3>2, <3>3, <3>4, <3>5, <3>6, RowPaths DEF RowPath
  <2> QED
    BY <2>1, <2>2
<1> QED
  BY <1>1, <1>2, <1>p DEF PollPath

\* Counting a piece adds that piece to what is counted.
LEMMA CountedPieces ==
    ASSUME NEW r \in Responses, Whole(r), ~Delivered(r)
    PROVE  \A piece \in Pieces(Counted(r).text, Counted(r).file) : piece \in Pieces(r.text, r.file) \/ piece = Piece(r)
<1>1. r.text \in Nat /\ r.file \in Nat
  BY BrokerAssumption DEF Responses, Larger
<1>2. \A i \in 1..(r.text + 1) : i \in 1..r.text \/ i = r.text + 1
  BY <1>1
<1>3. \A i \in 1..(r.file + 1) : i \in 1..r.file \/ i = r.file + 1
  BY <1>1
<1>4. CASE r.text < r.texts
  <2>1. Counted(r).text = r.text + 1 /\ Counted(r).file = r.file
    BY <1>4, CountedType
  <2> QED
    BY <1>2, <1>4, <2>1 DEF Pieces, Piece
<1>5. CASE ~(r.text < r.texts)
  <2>1. Counted(r).text = r.text /\ Counted(r).file = r.file + 1
    BY <1>5, CountedType
  <2> QED
    BY <1>3, <1>5, <2>1 DEF Pieces, Piece
<1> QED
  BY <1>4, <1>5

LEMMA FewPieces ==
    Pieces(0, 0) = {} /\ Pieces(1, 0) = {<<"text", 1>>}
<1>1. 1..0 = {} /\ 1..1 = {1}
  OBVIOUS
<1> QED
  BY <1>1 DEF Pieces

\* What was streamed is the whole answer when nothing is left to stage.
LEMMA NothingLeft ==
    ASSUME TypeInv, poll.pc = "rest", poll.first \in poll.fresh
    PROVE  request[poll.first].state = "answered" /\ SeenAll(poll.first, "answer", request[poll.first].answer)
<1>1. /\ request[poll.first].state = "answered" /\ request[poll.first].answer = poll.answer
      /\ poll.streamed => Previewed(poll.first)
      /\ ~(Remaining(poll.answer) + poll.answer.files > 0)
  BY DEF TypeInv, AnswerInv
<1>2. /\ poll.answer \in Answers /\ poll.answer.texts \in Nat /\ poll.answer.files \in Nat
  BY StagedResponses
<1>3. poll.answer.texts + poll.answer.files > 0
  BY <1>2 DEF Answers
<1>4. poll.streamed /\ poll.answer.texts = 1 /\ poll.answer.files = 0
  <2>1. CASE poll.streamed
    <3>1. Remaining(poll.answer) = poll.answer.texts - 1
      BY <2>1 DEF Remaining
    <3>2. poll.answer.texts > 0
      BY <2>1, StagedResponses
    <3>3. poll.answer.texts = 1 /\ poll.answer.files = 0
      BY <1>1, <1>2, <3>1, <3>2
    <3> QED
      BY <2>1, <3>3
  <2>2. CASE ~poll.streamed
    <3>1. Remaining(poll.answer) = poll.answer.texts
      BY <2>2 DEF Remaining
    <3> QED
      BY <1>1, <1>3, <3>1
  <2> QED
    BY <2>1, <2>2
<1>5. Pieces(poll.answer.texts, poll.answer.files) = {<<"text", 1>>}
  BY <1>4, FewPieces
<1>6. <<poll.first, "preview", <<"text", 1>>>> \in shown
  BY <1>1, <1>4 DEF Previewed
<1>7. SeenAll(poll.first, "answer", poll.answer)
  BY <1>5, <1>6, Zenon DEF SeenAll, Seen
<1> QED
  BY <1>1, <1>7

LEMMA CompleteStep ==
    ASSUME TypeInv, BoundsInv, KindsInv, ListedInv, FreshInv, CompleteInv, [Next]_vars
    PROVE  CompleteInv'
<1>g. shown \subseteq shown'
  BY ShownGrows
<1>s. \A u, r : SeenUpTo(u, r) => SeenUpTo(u, r)'
  BY <1>g DEF SeenUpTo, Seen
<1>a. \A u, kind, r : SeenAll(u, kind, r) => SeenAll(u, kind, r)'
  BY <1>g DEF SeenAll, Seen
<1>f. /\ poll.pc = "ask" => poll.first \in poll.fresh
      /\ poll.pc = "excused" => poll.first \notin poll.fresh
  BY DEF TypeInv, PollInv
<1> SUFFICES ASSUME NEW u \in Updates, NEW r, NEW q, r = row'[u], q = request'[u], r # None
             PROVE  Complete(u, r, q)'
  BY DEF CompleteInv, Complete, SeenUpTo, SeenAll, Seen
<1>c. row[u] # None => Complete(u, row[u], request[u])
  BY DEF CompleteInv
<1>1. CASE r = row[u]
  <2>1. r.response = None /\ r.state \in {"delivered", "failed"} => q = request[u]
    <3>1. Ask /\ u = poll.first /\ u \in poll.fresh => row[u].state = "reserved"
      BY <1>1 DEF FreshInv, Ask, Sorting
    <3> QED
      BY <1>1, <1>c, <3>1, RequestSteps DEF Complete
  <2> QED
    BY <1>1, <1>c, <1>s, <1>a, <2>1 DEF Complete
<1>2. CASE r = NewRow
  BY <1>2, NewRowType DEF Complete
<1>3. ASSUME NEW p \in poll.pending, Mark(p), u = p.update, CountedRow(p)
      PROVE  Complete(u, r, q)'
  <2>1. p.response \in Responses /\ Whole(p.response) /\ ~Delivered(p.response)
    BY PendingPieces
  <2>2. /\ r.response = Counted(p.response) /\ Counted(p.response).kind = p.response.kind
        /\ Counted(p.response) # None
        /\ IF Delivered(Counted(p.response)) THEN TRUE ELSE r.state = "dispatched"
    BY <1>3, <2>1, CountedType, NoneAssumption DEF CountedRow
  <2>3. /\ Staged(u) /\ row[u].response = p.response
        /\ <<u, p.response.kind, Piece(p.response)>> \in shown
    BY <1>3 DEF ListedInv, CountedRow, Mark
  <2>4. SeenUpTo(u, p.response)
    BY <1>c, <2>3 DEF Staged, Complete
  <2>5. SeenUpTo(u, Counted(p.response))
    BY <2>1, <2>2, <2>3, <2>4, CountedPieces DEF SeenUpTo, Seen
  <2> QED
    BY <2>2, <2>5, <1>s DEF Complete
<1>4. CASE /\ poll.pc \in {"close", "rest", "excused"} /\ UNCHANGED <<request, shown>>
           /\ u \in poll.fresh /\ row[u] # None /\ r.response = row[u].response
  <2>1. row[u].response = None
    BY <1>4 DEF FreshInv
  <2>2. request[u].state # "none" => u = poll.first /\ poll.pc = "rest"
    BY <1>4, <1>f DEF FreshInv, Sorting
  <2>3. request[u].state # "none" => request[u].state = "answered" /\ SeenAll(u, "answer", request[u].answer)
    BY <1>4, <2>2, NothingLeft
  <2> QED
    BY <1>4, <1>a, <2>1, <2>3 DEF Complete
<1>5. CASE /\ u = poll.first /\ poll.pc \in {"stage", "excuse"} /\ r.state = "dispatched"
           /\ r.response = IF poll.pc = "stage" THEN AnswerResponse(poll.answer) ELSE Response("failure", 1, 0, "failed")
  <2>1. CASE poll.pc = "stage"
    <3>1. /\ r.response.kind = "answer" /\ r.response.file = 0 /\ r.response \in Responses
          /\ IF poll.streamed THEN r.response.text = 1 ELSE r.response.text = 0
      BY <1>5, <2>1, StagedResponses
    <3>2. poll.streamed => <<u, "preview", <<"text", 1>>>> \in shown
      BY <1>5, <2>1 DEF TypeInv, AnswerInv, Previewed
    <3>3. SeenUpTo(u, r.response)
      BY <3>1, <3>2, FewPieces DEF SeenUpTo, Seen
    <3> QED
      BY <1>5, <1>s, <3>1, <3>3, NoneAssumption DEF Complete
  <2>2. CASE poll.pc = "excuse"
    <3>1. r.response.text = 0 /\ r.response.file = 0 /\ r.response \in Responses
      BY <1>5, <2>2, StagedResponses
    <3>2. SeenUpTo(u, r.response)
      BY <3>1, FewPieces DEF SeenUpTo
    <3> QED
      BY <1>5, <1>s, <3>1, <3>2, NoneAssumption DEF Complete
  <2> QED
    BY <1>5, <2>1, <2>2
<1>6. CASE ClaimedRow(u)
  BY <1>6 DEF ClaimedRow, Complete
<1> QED
  BY <1>1, <1>2, <1>3, <1>4, <1>5, <1>6, RowPaths DEF RowPath

\* The invariants of the broker together, for every length of a run and every number of faults.
THEOREM AnswersInvariant == Spec => [](TypeInv /\ BoundsInv /\ AnswersInv)
<1>1. TypeInv /\ BoundsInv /\ AnswersInv /\ [Next]_vars => AnswersInv'
  BY KindsStep, ListedStep, FreshStep, CompleteStep DEF AnswersInv
<1> QED
  BY OneTurnInvariant, AnswersInit, <1>1, PTL DEF Spec

\* In every behaviour, whatever is streamed, fails, is sent twice or is interrupted by a
\* restart or a disconnection: a message is only marked delivered or failed when the member has
\* seen every piece of its response, and nobody gets pieces of an answer and of a failure.
THEOREM MembersGetWholeAnswers == Spec => []AnswersAreWhole
<1>1. ASSUME AnswersInv, TypeInv, NEW u \in Updates PROVE FinalMeansShown(u)
  <2>1. ASSUME row[u] # None, row[u].state \in {"delivered", "failed"}, row[u].response # None
        PROVE  SeenAll(u, row[u].response.kind, row[u].response)
    <3>1. Delivered(row[u].response) /\ SeenUpTo(u, row[u].response)
      BY <1>1, <2>1 DEF AnswersInv, CompleteInv, Complete
    <3> QED
      BY <3>1 DEF Delivered, SeenUpTo, SeenAll
  <2> QED
    BY <1>1, <2>1 DEF AnswersInv, CompleteInv, Complete, FinalMeansShown
<1>2. ASSUME AnswersInv, NEW u \in Updates PROVE OneKindOfAnswer(u)
  <2>1. Pieces(MaxTexts, MaxFiles) \subseteq AllPieces /\ <<"text", 1>> \in AllPieces
    <3>1. 1..MaxTexts \subseteq 1..Larger(MaxTexts, 1) /\ 1 \in 1..Larger(MaxTexts, 1)
      BY BrokerAssumption DEF Larger
    <3> QED
      BY <3>1 DEF AllPieces, Pieces
  <2>2. ~(Told(u, "answer") /\ Told(u, "failure"))
    BY <1>2 DEF AnswersInv, KindsInv, Kind
  <2> QED
    BY <2>1, <2>2 DEF Told, OneKindOfAnswer
<1>3. TypeInv /\ AnswersInv => AnswersAreWhole
  BY <1>1, <1>2 DEF AnswersAreWhole
<1> QED
  BY AnswersInvariant, <1>3, PTL

=============================================================================
