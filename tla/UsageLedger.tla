---------------------------- MODULE UsageLedger ----------------------------
(***************************************************************************)
(* Model calls of one team against its budget: admission and reservation    *)
(* before the provider is called, the usage event afterwards, settlement,   *)
(* release and threshold alerts                                             *)
(* (packages/workspace-store/src/usage-ledger.ts and budgets.ts, their      *)
(* services in apps/control-api/src, and the calls that the gateway         *)
(* callback in integrations/litellm makes).                                 *)
(*                                                                          *)
(* A transaction that holds the team's advisory lock is split where         *)
(* transactions that do not hold it can be seen between its statements.     *)
(***************************************************************************)
EXTENDS Integers, Sequences, FiniteSets

CONSTANTS
  Attempts,     \* source attempt identifiers the gateway uses
  Callers,      \* requests that Control can have under way at once
  Facts,        \* what an attempt says it will call, and within which bounds
  Price,        \* Price[f]: the quote for f, or Unpriced
  Unpriced,     \* no complete rate for the deployment, or no bounds given
  Unbilled,     \* the cost of a failure without billable units (failures with some are left out)
  Budgets,      \* the budget versions administrators may save
  Raises,       \* the limits an override may raise a budget to
  Length,       \* Length[k]: how long a period of calendar k is
  Threshold,    \* the warning threshold, in percent
  MaxVersions,  \* bound: budget versions ever saved
  MaxOverrides, \* bound: overrides ever granted
  MaxTime,      \* bound: the clock stops here
  None

ASSUME AmountAssumption ==
  /\ Price \in [Facts -> Nat \cup {Unpriced}]
  /\ Unpriced \notin Nat /\ Unbilled \notin Nat \cup {Unpriced}
  /\ Raises \subseteq Nat
  /\ Threshold \in 1..100

ASSUME CalendarAssumption ==
  /\ \A k \in DOMAIN Length : Length[k] \in Nat \ {0}
  /\ Budgets \subseteq [limit : Nat, mode : {"soft", "hard"}, calendar : DOMAIN Length,
                        from : Nat, to : Nat]

ASSUME BoundAssumption ==
  /\ MaxVersions \in Nat /\ MaxOverrides \in Nat /\ MaxTime \in Nat
  /\ IsFiniteSet(Attempts)
  /\ None \notin Callers /\ None \notin Facts
  /\ "new" \notin Facts /\ "refused" \notin Facts

VARIABLES
  now,       \* time
  versions,  \* team_budget_versions, in the order they were saved
  overrides, \* team_budget_overrides, likewise
  admitted,  \* ai_usage_attempt_admissions: the facts each attempt was admitted with
  reserved,  \* team_budget_reservations by attempt
  settled,   \* attempts with a row in team_budget_reservation_settlements
  released,  \* attempts with a row in team_budget_reservation_releases
  usage,     \* ai_usage_events of type "usage" by attempt
  alerts,    \* team_budget_alerts: version and period
  lock,      \* who holds the team's advisory lock
  caller,    \* the requests under way
  gate,      \* what the gateway's callback made of each attempt
  ended      \* how the call of an attempt ended

ledger == <<admitted, reserved, settled, released, usage, alerts>>
config == <<versions, overrides>>
vars == <<now, config, ledger, lock, caller, gate, ended>>

Times == 0..MaxTime
Periods == Nat \X Nat
Reservation == [version : 1..MaxVersions, period : Periods, quoted : Nat, at : Times]
Override == [version : 1..MaxVersions, kind : {"limit_increase", "hard_limit_bypass"},
             limit : Nat, from : Times, to : Times]
Event == [cost : Nat \cup {Unpriced, Unbilled}, at : Times]

(***************************************************************************)
(* Money, periods and limits                                                *)
(***************************************************************************)

\* A sum, as the number of units in it. What is not a positive amount adds nothing.
Units(amount) == UNION {{a} \X (1..amount[a]) : a \in Attempts}
Total(amount) == Cardinality(Units(amount))

PeriodFor(calendar, t) ==
  LET start == (t \div Length[calendar]) * Length[calendar]
  IN  <<start, start + Length[calendar]>>

During(t, period) == period[1] <= t /\ t < period[2]

InForce(t) == {i \in DOMAIN versions : versions[i].from <= t /\ t < versions[i].to}

\* The budget that counts starts last, and of those it was saved last.
Active(i, t) ==
  /\ i \in InForce(t)
  /\ \A j \in InForce(t) :
       versions[j].from < versions[i].from \/ (versions[j].from = versions[i].from /\ j <= i)

InEffect(i, t) == {o \in {overrides[n] : n \in DOMAIN overrides} :
                     o.version = i /\ o.from <= t /\ t < o.to}
Bypassed(i, t) == \E o \in InEffect(i, t) : o.kind = "hard_limit_bypass"

\* The largest of these is the effective limit.
Limits(i, t) == {versions[i].limit}
                  \cup {o.limit : o \in {x \in InEffect(i, t) : x.kind = "limit_increase"}}

(***************************************************************************)
(* What calculateStatus reads. Costs count in the period they occurred in,  *)
(* reservations in the period they were made for.                           *)
(***************************************************************************)

Counts(a, period) == usage[a] # None /\ During(usage[a].at, period)
CostIn(period) ==
  [a \in Attempts |-> IF Counts(a, period) /\ usage[a].cost \in Nat THEN usage[a].cost ELSE 0]
Spent(period) == Total(CostIn(period))

Unknown(period) == \E a \in Attempts : Counts(a, period) /\ usage[a].cost = Unpriced

IsOutstanding(a, period) ==
  /\ reserved[a] # None /\ reserved[a].period = period
  /\ a \notin settled /\ a \notin released
Outstanding(period) ==
  [a \in Attempts |-> IF IsOutstanding(a, period) THEN reserved[a].quoted ELSE 0]

Crossed(i, period, t) ==
  /\ Spent(period) > 0
  /\ \A l \in Limits(i, t) : Spent(period) * 100 >= Threshold * l

Idle == [pc |-> "idle", attempt |-> None, facts |-> None, at |-> 0,
         version |-> 0, period |-> <<0, 0>>, limits |-> {}, bypass |-> FALSE, spent |-> 0,
         unknown |-> FALSE, answer |-> None]

Init ==
  /\ now = 0
  /\ versions = <<>> /\ overrides = <<>>
  /\ admitted = [a \in Attempts |-> None]
  /\ reserved = [a \in Attempts |-> None]
  /\ settled = {} /\ released = {}
  /\ usage = [a \in Attempts |-> None]
  /\ alerts = {}
  /\ lock = None
  /\ caller = [c \in Callers |-> Idle]
  /\ gate = [a \in Attempts |-> "new"]
  /\ ended = [a \in Attempts |-> None]

(***************************************************************************)
(* Administration of the budget                                             *)
(***************************************************************************)

SaveBudget(b) ==
  /\ Len(versions) < MaxVersions
  /\ versions' = Append(versions, b)
  /\ UNCHANGED <<now, overrides, ledger, lock, caller, gate, ended>>

\* A raise must exceed the limit in effect.
CreateOverride(i, kind, limit, to) ==
  /\ Len(overrides) < MaxOverrides
  /\ Active(i, now) /\ to > now
  /\ kind = "limit_increase" => \A l \in Limits(i, now) : limit > l
  /\ overrides' = Append(overrides, [version |-> i, kind |-> kind, limit |-> limit,
                                     from |-> now, to |-> to])
  /\ UNCHANGED <<now, versions, ledger, lock, caller, gate, ended>>

\* A reconciliation with the gateway, which every saved budget and override ends with,
\* records the drift and checks the thresholds.
Reconcile(i) ==
  LET period == PeriodFor(versions[i].calendar, now)
  IN  /\ Active(i, now)
      /\ alerts' = IF Crossed(i, period, now) THEN alerts \cup {<<i, period>>} ELSE alerts
      /\ UNCHANGED <<now, config, admitted, reserved, settled, released, usage,
                     lock, caller, gate, ended>>

(***************************************************************************)
(* Admission                                                                *)
(***************************************************************************)

\* The callback asks before it lets the provider call out; after a transport error
\* it asks again, whatever became of the first request.
Ask(c, a, f) ==
  /\ caller[c].pc = "idle" /\ gate[a] = "new"
  /\ caller' = [caller EXCEPT ![c] = [Idle EXCEPT !.pc = "replay", !.attempt = a, !.facts = f,
                                                  !.at = now]]
  /\ UNCHANGED <<now, config, ledger, lock, gate, ended>>

Answers(c, answer) == [caller EXCEPT ![c] = [Idle EXCEPT !.pc = "answer", !.answer = answer,
                                                !.attempt = caller[c].attempt,
                                                !.facts = caller[c].facts]]

\* Mutant: an identifier that is known is a duplicate whatever it comes with.
ReplayedByKey(c) == "duplicate"

\* readAttemptReplay: an attempt that is known is answered from its row.
Replayed(c) == IF admitted[caller[c].attempt] = caller[c].facts THEN "duplicate" ELSE "conflict"

ReplayAttempt(c) ==
  /\ caller[c].pc = "replay"
  /\ caller' = IF admitted[caller[c].attempt] # None
                 THEN Answers(c, Replayed(c))
                 ELSE [caller EXCEPT ![c].pc = "admit"]
  /\ UNCHANGED <<now, config, ledger, lock, gate, ended>>

\* admitAttempt has the lock of the attempt and that of the team, or waits for them.
AdmitKnown(c) ==
  /\ caller[c].pc = "admit" /\ lock = None
  /\ admitted[caller[c].attempt] # None
  /\ caller' = Answers(c, Replayed(c))
  /\ UNCHANGED <<now, config, ledger, lock, gate, ended>>

\* No budget in force, or a soft one and no price: admitted without a reservation.
AdmitUnreserved(c) ==
  LET a == caller[c].attempt
  IN  /\ caller[c].pc = "admit" /\ lock = None
      /\ admitted[a] = None
      /\ \A i \in DOMAIN versions : Active(i, caller[c].at) =>
           versions[i].mode = "soft" /\ Price[caller[c].facts] = Unpriced
      /\ admitted' = [admitted EXCEPT ![a] = caller[c].facts]
      /\ caller' = Answers(c, "created")
      /\ UNCHANGED <<now, config, reserved, settled, released, usage, alerts, lock, gate, ended>>

DenyUnpriced(c, i) ==
  /\ caller[c].pc = "admit" /\ lock = None
  /\ admitted[caller[c].attempt] = None
  /\ Active(i, caller[c].at)
  /\ versions[i].mode = "hard" /\ Price[caller[c].facts] = Unpriced
  /\ caller' = Answers(c, "denied")
  /\ UNCHANGED <<now, config, ledger, lock, gate, ended>>

\* The team's lock is taken, and the costs are read.
ReadSpent(c, i) ==
  LET t == caller[c].at
      period == PeriodFor(versions[i].calendar, t)
  IN  /\ caller[c].pc = "admit" /\ lock = None
      /\ admitted[caller[c].attempt] = None
      /\ Active(i, t) /\ Price[caller[c].facts] # Unpriced
      /\ lock' = c
      /\ caller' = [caller EXCEPT ![c] =
           [@ EXCEPT !.pc = "reserve", !.version = i, !.period = period,
                     !.limits = Limits(i, t), !.bypass = Bypassed(i, t),
                     !.spent = Spent(period), !.unknown = Unknown(period)]]
      /\ UNCHANGED <<now, config, ledger, gate, ended>>

\* The reservations are read by the next statement.
Enough(c) ==
  \E l \in caller[c].limits :
    l - caller[c].spent - Total(Outstanding(caller[c].period)) >= Price[caller[c].facts]
Allowed(c) ==
  \/ versions[caller[c].version].mode = "soft"
  \/ ~caller[c].unknown /\ (caller[c].bypass \/ Enough(c))

Reserve(c) ==
  LET a == caller[c].attempt
  IN  /\ caller[c].pc = "reserve" /\ Allowed(c)
      /\ reserved' = [reserved EXCEPT ![a] =
           [version |-> caller[c].version, period |-> caller[c].period,
            quoted |-> Price[caller[c].facts], at |-> caller[c].at]]
      /\ admitted' = [admitted EXCEPT ![a] = caller[c].facts]
      /\ lock' = None
      /\ caller' = Answers(c, "created")
      /\ UNCHANGED <<now, config, settled, released, usage, alerts, gate, ended>>

\* Mutant: a denial leaves its transaction open.
DenyHoldingLock(c) ==
  /\ caller[c].pc = "reserve" /\ ~Allowed(c)
  /\ caller' = Answers(c, "denied")
  /\ UNCHANGED <<now, config, ledger, lock, gate, ended>>

Deny(c) ==
  /\ caller[c].pc = "reserve" /\ ~Allowed(c)
  /\ lock' = None
  /\ caller' = Answers(c, "denied")
  /\ UNCHANGED <<now, config, ledger, gate, ended>>

\* The callback dispatches what was admitted and refuses what was not. A later answer
\* to an attempt it has decided about changes nothing.
Receive(c) ==
  LET a == caller[c].attempt
  IN  /\ caller[c].pc = "answer"
      /\ gate' = IF gate[a] # "new" THEN gate
                 ELSE [gate EXCEPT ![a] = IF caller[c].answer \in {"created", "duplicate"}
                                            THEN caller[c].facts ELSE "refused"]
      /\ caller' = [caller EXCEPT ![c] = Idle]
      /\ UNCHANGED <<now, config, ledger, lock, ended>>

\* The second request failed too: the provider is not called.
GiveUp(a) ==
  /\ gate[a] = "new"
  /\ gate' = [gate EXCEPT ![a] = "refused"]
  /\ UNCHANGED <<now, config, ledger, lock, caller, ended>>

(***************************************************************************)
(* Usage events                                                             *)
(***************************************************************************)

\* The call is over. The provider bills within the bounds it was quoted for, or does not
\* say what it bills; a failure may be free.
Billable(f) == {Unpriced, Unbilled} \cup (IF Price[f] = Unpriced THEN {} ELSE 0..Price[f])

CallEnds(a, cost) ==
  /\ gate[a] \in Facts /\ ended[a] = None /\ cost \in Billable(gate[a])
  /\ ended' = [ended EXCEPT ![a] = [cost |-> cost, at |-> now]]
  /\ UNCHANGED <<now, config, ledger, lock, caller, gate>>

\* The callback reports how it ended; once more after a transport error.
Report(c, a) ==
  /\ caller[c].pc = "idle" /\ ended[a] # None
  /\ caller' = [caller EXCEPT ![c] = [Idle EXCEPT !.pc = "append", !.attempt = a]]
  /\ UNCHANGED <<now, config, ledger, lock, gate, ended>>

\* The event's identifier is that of the admission; a repeated event goes on to settle.
AppendUsageEvent(c) ==
  LET a == caller[c].attempt
  IN  /\ caller[c].pc = "append"
      /\ usage' = [usage EXCEPT ![a] = IF @ = None THEN ended[a] ELSE @]
      /\ caller' = [caller EXCEPT ![c].pc = "settle"]
      /\ UNCHANGED <<now, config, admitted, reserved, settled, released, alerts,
                     lock, gate, ended>>

Ended(c) == caller' = [caller EXCEPT ![c] = Idle]

\* Nothing was reserved, or the event has no price: nothing to settle.
SettleNothing(c) ==
  LET a == caller[c].attempt
  IN  /\ caller[c].pc = "settle"
      /\ reserved[a] = None \/ usage[a].cost = Unpriced
      /\ Ended(c)
      /\ UNCHANGED <<now, config, ledger, lock, gate, ended>>

\* A failure without billable units gives the capacity back, unless it was settled.
SettleFailure(c) ==
  LET a == caller[c].attempt
  IN  /\ caller[c].pc = "settle" /\ lock = None
      /\ reserved[a] # None /\ usage[a].cost = Unbilled
      /\ released' = IF a \in settled THEN released ELSE released \cup {a}
      /\ Ended(c)
      /\ UNCHANGED <<now, config, admitted, reserved, settled, usage, alerts, lock, gate, ended>>

\* What is in terminal cannot be settled. The rest is, once, and the thresholds of the
\* version it was made for are checked in period.
Settling(c, terminal, period) ==
  LET a == caller[c].attempt
      r == reserved[a]
  IN  /\ caller[c].pc = "settle"
      /\ r # None /\ usage[a].cost \in Nat
      /\ IF a \in terminal
           THEN UNCHANGED <<settled, alerts>>
           ELSE /\ settled' = settled \cup {a}
                /\ alerts' = IF Crossed(r.version, period, r.at)
                               THEN alerts \cup {<<r.version, period>>} ELSE alerts
      /\ Ended(c)
      /\ UNCHANGED <<now, config, admitted, reserved, released, usage, lock, gate, ended>>

\* Mutants: no lock is taken; alerts in the
\* period of the settlement instead of that of the reservation.
SettleUnlocked(c) == Settling(c, released, reserved[caller[c].attempt].period)
SettleLate(c) ==
  lock = None
    /\ Settling(c, released,
                PeriodFor(versions[reserved[caller[c].attempt].version].calendar, now))

\* A released reservation cannot be settled; alerts go to the period it was made for.
SettleUsageEvent(c) ==
  lock = None /\ Settling(c, released, reserved[caller[c].attempt].period)

\* An operator's audited release of a reservation whose attempt came to nothing.
ReleaseReservation(a) ==
  /\ reserved[a] # None /\ lock = None
  /\ a \notin settled /\ a \notin released
  /\ released' = released \cup {a}
  /\ UNCHANGED <<now, config, admitted, reserved, settled, usage, alerts, lock, caller, gate, ended>>

(***************************************************************************)
(* Faults and time                                                          *)
(***************************************************************************)

\* A request fails, with its transaction, or its answer is lost.
Lose(c) ==
  /\ caller[c].pc # "idle"
  /\ lock' = IF lock = c THEN None ELSE lock
  /\ Ended(c)
  /\ UNCHANGED <<now, config, ledger, gate, ended>>

Tick ==
  /\ now < MaxTime
  /\ now' = now + 1
  /\ UNCHANGED <<config, ledger, lock, caller, gate, ended>>

Step(c) ==
  \/ ReplayAttempt(c) \/ AdmitKnown(c) \/ AdmitUnreserved(c)
  \/ \E i \in DOMAIN versions : DenyUnpriced(c, i) \/ ReadSpent(c, i)
  \/ Reserve(c) \/ Deny(c) \/ Receive(c)
  \/ AppendUsageEvent(c) \/ SettleNothing(c) \/ SettleFailure(c) \/ SettleUsageEvent(c)

Next ==
  \/ \E b \in Budgets : SaveBudget(b)
  \/ \E i \in DOMAIN versions, l \in Raises, to \in Times : CreateOverride(i, "limit_increase", l, to)
  \/ \E i \in DOMAIN versions, to \in Times : CreateOverride(i, "hard_limit_bypass", 0, to)
  \/ \E i \in DOMAIN versions : Reconcile(i)
  \/ \E c \in Callers, a \in Attempts, f \in Facts : Ask(c, a, f)
  \/ \E a \in Attempts, f \in Facts : \E cost \in Billable(f) : CallEnds(a, cost)
  \/ \E c \in Callers, a \in Attempts : Report(c, a)
  \/ \E c \in Callers : Step(c) \/ Lose(c)
  \/ \E a \in Attempts : GiveUp(a) \/ ReleaseReservation(a)
  \/ Tick

Spec == Init /\ [][Next]_vars

(***************************************************************************)
(* Properties                                                               *)
(***************************************************************************)

CallerType ==
  [pc : {"idle", "replay", "admit", "reserve", "answer", "append", "settle"},
   attempt : Attempts \cup {None}, facts : Facts \cup {None}, at : Times,
   version : 0..MaxVersions, period : Periods, limits : SUBSET Nat, bypass : BOOLEAN,
   spent : Nat, unknown : BOOLEAN,
   answer : {"created", "duplicate", "conflict", "denied", None}]

\* Types, and who can hold the team's lock: only a request between its two reads.
TypeOK ==
  /\ now \in Times
  /\ versions \in Seq(Budgets) /\ Len(versions) <= MaxVersions
  /\ overrides \in Seq(Override)
  /\ admitted \in [Attempts -> Facts \cup {None}]
  /\ reserved \in [Attempts -> Reservation \cup {None}]
  /\ settled \subseteq Attempts /\ released \subseteq Attempts
  /\ usage \in [Attempts -> Event \cup {None}]
  /\ alerts \subseteq (1..MaxVersions) \X Periods
  /\ caller \in [Callers -> CallerType]
  /\ lock \in Callers \cup {None}
  /\ \A c \in Callers : caller[c].pc = "reserve" <=> lock = c
  /\ gate \in [Attempts -> Facts \cup {"new", "refused"}]
  /\ ended \in [Attempts -> Event \cup {None}]

\* What the attempts reserved for a period really commit the team to: the cost of what
\* is known to have been billed in it, and the quotes of what is still out.
Charge(period) ==
  [a \in Attempts |->
     IF reserved[a] = None \/ a \in released THEN 0
     ELSE IF reserved[a].period # period THEN 0
     ELSE IF usage[a] = None THEN reserved[a].quoted
     ELSE CostIn(period)[a]]
Exposure(period) == Total(Charge(period))

Fits(a) ==
  \E l \in Limits(reserved[a].version, reserved[a].at) : Exposure(reserved[a].period) <= l
HardLimited(a) ==
  /\ reserved[a] # None
  /\ versions[reserved[a].version].mode = "hard"
  /\ ~Bypassed(reserved[a].version, reserved[a].at)

\* A reservation under a hard limit leaves the team within it at the moment it is made,
\* whatever usage was recorded since its transaction read the costs
\* (reserveAttemptInTransaction; team-budgets.md: parallel requests do not observe the
\* same capacity).
AdmissionsFit ==
  [][\A a \in Attempts : reserved[a] = None /\ HardLimited(a)' => Fits(a)']_vars

\* A reservation ends once: a late usage event does not settle what was released, a
\* release does not take back what was settled (settleUsageEvent, releaseReservation).
TerminalOnce == settled \cap released = {}

\* What the callback lets out is what Control admitted under that identifier, although
\* requests are repeated, cross each other, and may reuse an identifier
\* (admitAttempt, readAttemptReplay).
DispatchedAsAdmitted == \A a \in Attempts : gate[a] \in Facts => admitted[a] = gate[a]

\* All that was billed in a period was reserved for it under this version, and settled.
SettledUnder(i, period) ==
  \A a \in Attempts : CostIn(period)[a] > 0 =>
    reserved[a] # None /\ a \in settled
      /\ reserved[a].version = i /\ reserved[a].period = period

\* A threshold that settled spend has crossed was alerted, in whatever order events were
\* recorded and settled, and however late (emitThresholdAlerts). A limit raised meanwhile
\* is left to reconciliations.
CrossedThresholdsAlerted ==
  \A i \in DOMAIN versions : \A t \in Times :
    LET period == PeriodFor(versions[i].calendar, t)
        crossed == Spent(period) > 0 /\ Spent(period) * 100 >= Threshold * versions[i].limit
        raised == \E n \in DOMAIN overrides : overrides[n].kind = "limit_increase"
    IN  SettledUnder(i, period) /\ crossed /\ ~raised
          => <<i, period>> \in alerts
=============================================================================
