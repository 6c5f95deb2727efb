------------------------- MODULE UsageLedgerProofs -------------------------
(***************************************************************************)
(* Theorems about UsageLedger, for every set of attempts, requests, facts   *)
(* and budgets: one terminal outcome per reservation, dispatch as admitted, *)
(* and that concurrent admissions do not overrun a hard limit.              *)
(***************************************************************************)
EXTENDS UsageLedger, FiniteSetTheorems, TLAPS

(***************************************************************************)
(* Sums                                                                     *)
(***************************************************************************)

Amounts == [Attempts -> Nat]

\* The units of one attempt are finitely many.
LEMMA ShareFinite ==
    ASSUME NEW a, NEW n \in Nat
    PROVE  IsFiniteSet({a} \X (1..n)) /\ Cardinality({a} \X (1..n)) = n
<1>1. IsFiniteSet({a}) /\ Cardinality({a}) = 1
  BY FS_Singleton
<1>2. IsFiniteSet(1..n) /\ Cardinality(1..n) = n
  BY FS_Interval
<1>3. /\ IsFiniteSet({a} \X (1..n))
      /\ Cardinality({a} \X (1..n)) = Cardinality({a}) * Cardinality(1..n)
  BY <1>1, <1>2, FS_Product
<1> QED
  BY <1>1, <1>2, <1>3

\* So are those of all of them.
LEMMA UnitsFinite ==
    ASSUME NEW f \in Amounts
    PROVE  IsFiniteSet(Units(f)) /\ Total(f) \in Nat
<1> DEFINE share == [a \in Attempts |-> {a} \X (1..f[a])]
           shares == {{a} \X (1..f[a]) : a \in Attempts}
<1>1. share \in Surjection(Attempts, shares)
  BY DEF Surjection
<1>2. IsFiniteSet(shares)
  BY <1>1, FS_Surjection, BoundAssumption
<1>3. ASSUME NEW s \in shares PROVE IsFiniteSet(s)
  <2>1. PICK a \in Attempts : s = {a} \X (1..f[a])
    OBVIOUS
  <2>2. f[a] \in Nat
    BY DEF Amounts
  <2> QED
    BY <2>1, <2>2, ShareFinite
<1>4. IsFiniteSet(Units(f))
  BY <1>2, <1>3, FS_UNION DEF Units
<1> QED
  BY <1>4, FS_CardinalityType DEF Total

LEMMA UnitOf ==
    ASSUME NEW f \in Amounts, NEW u
    PROVE  u \in Units(f) <=> \E a \in Attempts : \E k \in 1..f[a] : u = <<a, k>>
  BY DEF Units

\* A sum grows with its terms.
LEMMA TotalMonotone ==
    ASSUME NEW f \in Amounts, NEW g \in Amounts, \A a \in Attempts : f[a] <= g[a]
    PROVE  Total(f) <= Total(g)
<1>1. Units(f) \subseteq Units(g)
  <2> SUFFICES ASSUME NEW u \in Units(f) PROVE u \in Units(g)
    OBVIOUS
  <2>1. PICK a \in Attempts : \E k \in 1..f[a] : u = <<a, k>>
    BY UnitOf
  <2>2. PICK k \in 1..f[a] : u = <<a, k>>
    BY <2>1
  <2>3. k \in 1..g[a]
    BY DEF Amounts
  <2> QED
    BY <2>2, <2>3, UnitOf
<1> QED
  BY <1>1, UnitsFinite, FS_Subset DEF Total

\* A sum whose terms are each bounded by one of two others is bounded by their sum.
LEMMA TotalSplit ==
    ASSUME NEW f \in Amounts, NEW g \in Amounts, NEW h \in Amounts,
           \A a \in Attempts : f[a] <= g[a] \/ f[a] <= h[a]
    PROVE  Total(f) <= Total(g) + Total(h)
<1>1. Units(f) \subseteq Units(g) \cup Units(h)
  <2> SUFFICES ASSUME NEW u \in Units(f) PROVE u \in Units(g) \/ u \in Units(h)
    OBVIOUS
  <2>1. PICK a \in Attempts : \E k \in 1..f[a] : u = <<a, k>>
    BY UnitOf
  <2>2. PICK k \in 1..f[a] : u = <<a, k>>
    BY <2>1
  <2>3. k \in 1..g[a] \/ k \in 1..h[a]
    BY DEF Amounts
  <2> QED
    BY <2>2, <2>3, UnitOf
<1>2. Cardinality(Units(g) \cap Units(h)) \in Nat
  BY UnitsFinite, FS_Intersection, FS_CardinalityType
<1>3. /\ IsFiniteSet(Units(g) \cup Units(h))
      /\ Cardinality(Units(g) \cup Units(h)) <= Total(g) + Total(h)
  <2>1. IsFiniteSet(Units(g)) /\ IsFiniteSet(Units(h))
    BY UnitsFinite
  <2>2. /\ IsFiniteSet(Units(g) \cup Units(h))
        /\ Cardinality(Units(g) \cup Units(h)) =
             Cardinality(Units(g)) + Cardinality(Units(h)) - Cardinality(Units(g) \cap Units(h))
    BY <2>1, FS_Union
  <2>3. Cardinality(Units(g)) \in Nat /\ Cardinality(Units(h)) \in Nat
    BY <2>1, FS_CardinalityType
  <2> QED
    BY <1>2, <2>2, <2>3 DEF Total
<1>4. /\ Cardinality(Units(f)) <= Cardinality(Units(g) \cup Units(h))
      /\ Cardinality(Units(g) \cup Units(h)) \in Nat
  BY <1>1, <1>3, FS_Subset, FS_CardinalityType
<1> QED
  BY <1>3, <1>4, UnitsFinite DEF Total

\* Replacing one term by n adds at most n.
LEMMA TotalReplace ==
    ASSUME NEW f \in Amounts, NEW g \in Amounts, NEW a \in Attempts, NEW n \in Nat,
           f[a] <= n, \A x \in Attempts : x # a => f[x] <= g[x]
    PROVE  Total(f) <= Total(g) + n
<1> DEFINE only == [x \in Attempts |-> IF x = a THEN n ELSE 0]
<1>1. only \in Amounts
  BY DEF Amounts
<1>2. Units(only) \subseteq {a} \X (1..n)
  BY <1>1, UnitOf
<1>3. Total(only) <= n
  <2>1. IsFiniteSet({a} \X (1..n)) /\ Cardinality({a} \X (1..n)) = n
    BY ShareFinite
  <2>2. Cardinality(Units(only)) <= Cardinality({a} \X (1..n))
    BY <1>2, <2>1, FS_Subset
  <2> QED
    BY <2>1, <2>2 DEF Total
<1>4. Total(f) <= Total(g) + Total(only)
  BY <1>1, TotalSplit
<1> QED
  BY <1>1, <1>3, <1>4, UnitsFinite

(***************************************************************************)
(* The inductive invariant                                                  *)
(***************************************************************************)

\* What the tables say of one attempt agrees.
Books ==
  /\ \A a \in Attempts : reserved[a] # None =>
       admitted[a] \in Facts /\ reserved[a].quoted = Price[admitted[a]]
  /\ \A a \in Attempts : ended[a] # None => gate[a] \in Facts /\ ended[a].cost \in Billable(gate[a])
  /\ \A a \in Attempts : usage[a] # None => usage[a] = ended[a]
  /\ \A a \in settled : usage[a] # None

\* What a request carries was true when it read it, and is not taken back.
Carries(c) ==
  /\ caller[c].pc # "idle" => caller[c].attempt \in Attempts
  /\ caller[c].pc \in {"replay", "admit", "reserve", "answer"} => caller[c].facts \in Facts
  /\ caller[c].pc \in {"append", "settle"} => ended[caller[c].attempt] # None
  /\ caller[c].pc = "settle" => usage[caller[c].attempt] # None
  /\ caller[c].pc = "answer" /\ caller[c].answer \in {"created", "duplicate"} =>
       admitted[caller[c].attempt] = caller[c].facts

\* Between its reads, the holder of the lock knows at least what the team is committed
\* to: usage recorded meanwhile replaces a quote by no more than it.
Reading(c) == caller[c].pc = "reserve" =>
  /\ admitted[caller[c].attempt] = None
  /\ Price[caller[c].facts] \in Nat
  /\ caller[c].version \in DOMAIN versions
  /\ caller[c].limits \subseteq Limits(caller[c].version, caller[c].at)
  /\ caller[c].bypass => Bypassed(caller[c].version, caller[c].at)
  /\ Exposure(caller[c].period) <= caller[c].spent + Total(Outstanding(caller[c].period))

IInv ==
  /\ TypeOK /\ Books /\ DispatchedAsAdmitted
  /\ \A c \in Callers : Carries(c) /\ Reading(c)

\* What sums are taken over are amounts.
LEMMA AmountTypes ==
    ASSUME TypeOK, NEW p
    PROVE  CostIn(p) \in Amounts /\ Outstanding(p) \in Amounts /\ Charge(p) \in Amounts
<1>1. CostIn(p) \in Amounts
  BY DEF CostIn, Amounts
<1>2. Outstanding(p) \in Amounts
  BY DEF TypeOK, Outstanding, IsOutstanding, Amounts, Reservation
<1>3. Charge(p) \in Amounts
  BY <1>1 DEF TypeOK, Charge, Amounts, Reservation
<1> QED
  BY <1>1, <1>2, <1>3

LEMMA PeriodType ==
    ASSUME NEW k \in DOMAIN Length, NEW t \in Nat
    PROVE  PeriodFor(k, t) \in Periods
<1>1. Length[k] \in Nat \ {0}
  BY CalendarAssumption
<1>2. t \div Length[k] \in Nat
  BY <1>1
<1>3. (t \div Length[k]) * Length[k] \in Nat
  BY <1>1, <1>2
<1> QED
  BY <1>1, <1>3 DEF PeriodFor, Periods

\* A saved version is a budget.
LEMMA VersionTypes ==
    ASSUME TypeOK, NEW i \in DOMAIN versions
    PROVE  /\ i \in 1..MaxVersions
           /\ versions[i].limit \in Nat
           /\ versions[i].calendar \in DOMAIN Length
<1>1. versions \in Seq(Budgets) /\ Len(versions) \in Nat /\ Len(versions) <= MaxVersions
  BY DEF TypeOK
<1>2. i \in 1..Len(versions) /\ versions[i] \in Budgets
  BY <1>1
<1>3. versions[i] \in [limit : Nat, mode : {"soft", "hard"}, calendar : DOMAIN Length,
                        from : Nat, to : Nat]
  BY <1>2, CalendarAssumption
<1>4. i \in 1..MaxVersions
  BY <1>1, <1>2, BoundAssumption
<1> QED
  BY <1>3, <1>4

\* An override is one of those saved.
LEMMA OverrideTypes ==
    ASSUME TypeOK, NEW n \in DOMAIN overrides
    PROVE  overrides[n].limit \in Nat
<1>1. overrides \in Seq(Override)
  BY DEF TypeOK
<1>2. overrides[n] \in Override
  BY <1>1
<1> QED
  BY <1>2 DEF Override

LEMMA LimitsType ==
    ASSUME TypeOK, NEW i \in DOMAIN versions, NEW t
    PROVE  Limits(i, t) \subseteq Nat
<1> SUFFICES ASSUME NEW l \in Limits(i, t) PROVE l \in Nat
  OBVIOUS
<1>1. CASE l = versions[i].limit
  BY <1>1, VersionTypes
<1>2. CASE \E n \in DOMAIN overrides : l = overrides[n].limit
  BY <1>2, OverrideTypes
<1>3. l = versions[i].limit \/ \E o \in InEffect(i, t) : l = o.limit
  BY DEF Limits
<1>4. \A o \in InEffect(i, t) : \E n \in DOMAIN overrides : o = overrides[n]
  BY DEF InEffect
<1> QED
  BY <1>1, <1>2, <1>3, <1>4

\* A request that moves on keeps its type.
LEMMA RequestGoesOn ==
    ASSUME NEW q \in CallerType, NEW pc \in {"admit", "reserve", "settle"}
    PROVE  [q EXCEPT !.pc = pc] \in CallerType
  BY DEF CallerType

\* A request that is answered or over is typed, and so is the lock it leaves.
LEMMA RequestTypes ==
    ASSUME TypeOK, NEW c \in Callers
    PROVE  /\ Idle \in CallerType
           /\ \A answer \in {"created", "duplicate", "conflict", "denied"} :
                Answers(c, answer) \in [Callers -> CallerType]
<1>1. 0 \in Times /\ 0 \in 0..MaxVersions /\ <<0, 0>> \in Periods
  BY BoundAssumption DEF Times, Periods
<1>2. Idle \in CallerType
  BY <1>1 DEF Idle, CallerType
<1>3. caller[c].attempt \in Attempts \cup {None} /\ caller[c].facts \in Facts \cup {None}
  BY DEF TypeOK, CallerType
<1> QED
  BY <1>1, <1>2, <1>3 DEF Answers, TypeOK, Idle, CallerType

\* Every variable keeps its type, and the lock its holder.
LEMMA TypeStep == IInv /\ [Next]_vars => TypeOK'
<1> SUFFICES ASSUME IInv, [Next]_vars PROVE TypeOK'
  OBVIOUS
<1> USE DEF ledger, config
<1>0. TypeOK
  BY DEF IInv
<1>1. ASSUME NEW b \in Budgets, SaveBudget(b) PROVE TypeOK'
  <2>1. versions \in Seq(Budgets) /\ Len(versions) \in Nat /\ Len(versions) < MaxVersions
    BY <1>0, <1>1 DEF TypeOK, SaveBudget
  <2>2. versions' \in Seq(Budgets) /\ Len(versions') = Len(versions) + 1
    BY <1>1, <2>1 DEF SaveBudget
  <2>3. Len(versions') <= MaxVersions
    BY <2>1, <2>2, BoundAssumption
  <2> QED
    BY <1>0, <1>1, <2>2, <2>3 DEF TypeOK, SaveBudget
<1>2. ASSUME NEW i \in DOMAIN versions, NEW kind \in {"limit_increase", "hard_limit_bypass"},
             NEW limit \in Nat, NEW to \in Times, CreateOverride(i, kind, limit, to)
      PROVE  TypeOK'
  <2>1. [version |-> i, kind |-> kind, limit |-> limit, from |-> now, to |-> to] \in Override
    BY <1>0, VersionTypes DEF TypeOK, Override
  <2>2. overrides' \in Seq(Override)
    BY <1>0, <1>2, <2>1 DEF TypeOK, CreateOverride
  <2> QED
    BY <1>0, <1>2, <2>2 DEF TypeOK, CreateOverride
<1>3. ASSUME NEW i \in DOMAIN versions, Reconcile(i) PROVE TypeOK'
  <2>1. i \in 1..MaxVersions /\ PeriodFor(versions[i].calendar, now) \in Periods
    BY <1>0, VersionTypes, PeriodType DEF TypeOK, Times
  <2>2. alerts' \subseteq (1..MaxVersions) \X Periods
    BY <1>0, <1>3, <2>1 DEF TypeOK, Reconcile
  <2> QED
    BY <1>0, <1>3, <2>2 DEF TypeOK, Reconcile
<1>4. ASSUME NEW c \in Callers, NEW a \in Attempts, NEW f \in Facts, Ask(c, a, f) PROVE TypeOK'
  <2>1. [Idle EXCEPT !.pc = "replay", !.attempt = a, !.facts = f, !.at = now] \in CallerType
    BY <1>0, RequestTypes DEF TypeOK, CallerType
  <2> QED
    BY <1>0, <1>4, <2>1 DEF TypeOK, Ask, Idle
<1>5. ASSUME NEW a \in Attempts, NEW f \in Facts, NEW cost \in Billable(f), CallEnds(a, cost)
      PROVE  TypeOK'
  <2>1. cost \in Nat \cup {Unpriced, Unbilled}
    BY AmountAssumption DEF Billable
  <2> QED
    BY <1>0, <1>5, <2>1 DEF TypeOK, CallEnds, Event
<1>6. ASSUME NEW c \in Callers, NEW a \in Attempts, Report(c, a) PROVE TypeOK'
  <2>1. [Idle EXCEPT !.pc = "append", !.attempt = a] \in CallerType
    BY <1>0, RequestTypes DEF CallerType
  <2> QED
    BY <1>0, <1>6, <2>1 DEF TypeOK, Report, Idle
<1>7. ASSUME NEW c \in Callers, Step(c) PROVE TypeOK'
  <2> DEFINE a == caller[c].attempt
  <2>0. Carries(c) /\ Reading(c)
    BY DEF IInv
  <2>1. CASE ReplayAttempt(c)
    <3>1. Replayed(c) \in {"duplicate", "conflict"}
      BY DEF Replayed
    <3>2. caller' \in [Callers -> CallerType]
      <4>1. CASE admitted[a] # None
        BY <1>0, <2>1, <3>1, <4>1, RequestTypes DEF ReplayAttempt
      <4>2. CASE admitted[a] = None
        <5>1. [caller[c] EXCEPT !.pc = "admit"] \in CallerType
          BY <1>0, RequestGoesOn DEF TypeOK
        <5> QED
          BY <1>0, <2>1, <4>2, <5>1 DEF TypeOK, ReplayAttempt
      <4> QED
        BY <4>1, <4>2
    <3>3. \A d \in Callers : caller'[d].pc = "reserve" <=> caller[d].pc = "reserve"
      BY <1>0, <2>1 DEF TypeOK, ReplayAttempt, Answers, Idle
    <3> QED
      BY <1>0, <2>1, <3>2, <3>3 DEF TypeOK, ReplayAttempt
  <2>2. CASE AdmitKnown(c)
    <3>1. Replayed(c) \in {"duplicate", "conflict"}
      BY DEF Replayed
    <3> QED
      BY <1>0, <2>2, <3>1, RequestTypes DEF TypeOK, AdmitKnown, Answers, Idle
  <2>3. CASE AdmitUnreserved(c)
    BY <1>0, <2>0, <2>3, RequestTypes DEF TypeOK, AdmitUnreserved, Answers, Idle, Carries
  <2>4. ASSUME NEW i \in DOMAIN versions, DenyUnpriced(c, i) PROVE TypeOK'
    BY <1>0, <2>4, RequestTypes DEF TypeOK, DenyUnpriced, Answers, Idle
  <2>5. ASSUME NEW i \in DOMAIN versions, ReadSpent(c, i) PROVE TypeOK'
    <3> DEFINE period == PeriodFor(versions[i].calendar, caller[c].at)
    <3>1. caller[c] \in CallerType /\ caller[c].at \in Nat
      BY <1>0 DEF TypeOK, CallerType, Times
    <3>2. i \in 0..MaxVersions /\ period \in Periods /\ Limits(i, caller[c].at) \in SUBSET Nat
      BY <1>0, <3>1, VersionTypes, PeriodType, LimitsType
    <3>3. Spent(period) \in Nat
      BY <1>0, AmountTypes, UnitsFinite DEF Spent
    <3>4. Bypassed(i, caller[c].at) \in BOOLEAN /\ Unknown(period) \in BOOLEAN
      BY DEF Bypassed, Unknown
    <3>5. [caller[c] EXCEPT !.pc = "reserve", !.version = i, !.period = period,
                     !.limits = Limits(i, caller[c].at), !.bypass = Bypassed(i, caller[c].at),
                     !.spent = Spent(period), !.unknown = Unknown(period)] \in CallerType
      BY <3>1, <3>2, <3>3, <3>4 DEF CallerType
    <3>6. caller' \in [Callers -> CallerType]
      BY <1>0, <2>5, <3>5 DEF TypeOK, ReadSpent
    <3>7. \A d \in Callers : caller'[d].pc = "reserve" <=> lock' = d
      BY <1>0, <2>5, <3>1, BoundAssumption DEF TypeOK, ReadSpent, CallerType
    <3> QED
      BY <1>0, <2>5, <3>6, <3>7 DEF TypeOK, ReadSpent
  <2>6. CASE Reserve(c)
    <3>1. a \in Attempts /\ caller[c].facts \in Facts
      BY <2>0, <2>6 DEF Reserve, Carries
    <3>2. caller[c].version \in 1..MaxVersions /\ Price[caller[c].facts] \in Nat
      BY <1>0, <2>0, <2>6, VersionTypes DEF Reserve, Reading
    <3>3. reserved' \in [Attempts -> Reservation \cup {None}]
      BY <1>0, <2>6, <3>2 DEF TypeOK, Reserve, Reservation, CallerType
    <3>4. admitted' \in [Attempts -> Facts \cup {None}]
      BY <1>0, <2>6, <3>1 DEF TypeOK, Reserve
    <3>5. \A d \in Callers : caller'[d].pc = "reserve" <=> lock' = d
      BY <1>0, <2>6, BoundAssumption DEF TypeOK, Reserve, Answers, Idle
    <3> QED
      BY <1>0, <2>6, <3>3, <3>4, <3>5, RequestTypes DEF TypeOK, Reserve
  <2>7. CASE Deny(c)
    <3>1. \A d \in Callers : caller'[d].pc = "reserve" <=> lock' = d
      BY <1>0, <2>7, BoundAssumption DEF TypeOK, Deny, Answers, Idle
    <3> QED
      BY <1>0, <2>7, <3>1, RequestTypes DEF TypeOK, Deny
  <2>8. CASE Receive(c)
    <3>1. a \in Attempts /\ caller[c].facts \in Facts
      BY <2>0, <2>8 DEF Receive, Carries
    <3>2. gate' \in [Attempts -> Facts \cup {"new", "refused"}]
      BY <1>0, <2>8, <3>1 DEF TypeOK, Receive
    <3> QED
      BY <1>0, <2>8, <3>2, RequestTypes DEF TypeOK, Receive, Idle
  <2>9. CASE AppendUsageEvent(c)
    <3>1. usage' \in [Attempts -> Event \cup {None}]
      BY <1>0, <2>0, <2>9 DEF TypeOK, AppendUsageEvent, Carries
    <3>2. caller' \in [Callers -> CallerType]
      <4>1. [caller[c] EXCEPT !.pc = "settle"] \in CallerType
        BY <1>0, RequestGoesOn DEF TypeOK
      <4> QED
        BY <1>0, <2>9, <4>1 DEF TypeOK, AppendUsageEvent
    <3> QED
      BY <1>0, <2>9, <3>1, <3>2 DEF TypeOK, AppendUsageEvent
  <2>10. CASE SettleNothing(c)
    BY <1>0, <2>10, RequestTypes DEF TypeOK, SettleNothing, Ended, Idle
  <2>11. CASE SettleFailure(c)
    BY <1>0, <2>0, <2>11, RequestTypes DEF TypeOK, SettleFailure, Ended, Idle, Carries
  <2>12. CASE SettleUsageEvent(c)
    <3>1. a \in Attempts
      BY <2>0, <2>12 DEF SettleUsageEvent, Settling, Carries
    <3>2. reserved[a] \in Reservation
      BY <1>0, <2>12, <3>1 DEF TypeOK, SettleUsageEvent, Settling
    <3>3. settled' \subseteq Attempts /\ alerts' \subseteq (1..MaxVersions) \X Periods
      BY <1>0, <2>12, <3>1, <3>2 DEF TypeOK, SettleUsageEvent, Settling, Reservation
    <3> QED
      BY <1>0, <2>12, <3>3, RequestTypes DEF TypeOK, SettleUsageEvent, Settling, Ended, Idle
  <2> QED
    BY <1>7, <2>1, <2>2, <2>3, <2>4, <2>5, <2>6, <2>7, <2>8, <2>9, <2>10, <2>11, <2>12 DEF Step
<1>8. ASSUME NEW c \in Callers, Lose(c) PROVE TypeOK'
  <2>1. \A d \in Callers : caller'[d].pc = "reserve" <=> lock' = d
    BY <1>0, <1>8, BoundAssumption DEF TypeOK, Lose, Ended, Idle
  <2> QED
    BY <1>0, <1>8, <2>1, RequestTypes DEF TypeOK, Lose, Ended
<1>9. ASSUME NEW a \in Attempts, GiveUp(a) \/ ReleaseReservation(a) PROVE TypeOK'
  BY <1>0, <1>9 DEF TypeOK, GiveUp, ReleaseReservation
<1>10. CASE Tick
  BY <1>0, <1>10, BoundAssumption DEF TypeOK, Tick, Times
<1>11. CASE UNCHANGED vars
  BY <1>0, <1>11 DEF TypeOK, vars
<1> QED
  BY <1>1, <1>2, <1>3, <1>4, <1>5, <1>6, <1>7, <1>8, <1>9, <1>10, <1>11, AmountAssumption DEF Next

(***************************************************************************)
(* Nothing recorded is taken back                                           *)
(***************************************************************************)

\* Rows and decisions of an attempt stay; usage comes from how the call ended.
LEMMA RecordsKept ==
    ASSUME IInv, [Next]_vars, NEW a \in Attempts
    PROVE  /\ admitted[a] # None => admitted'[a] = admitted[a]
           /\ gate[a] \in Facts => gate'[a] = gate[a]
           /\ ended[a] # None => ended'[a] = ended[a]
           /\ usage'[a] # usage[a] => usage[a] = None /\ usage'[a] = ended[a]
<1> USE DEF ledger, config
<1>0. TypeOK
  BY DEF IInv
<1>1. \A c \in Callers : Reading(c)
  BY DEF IInv
<1>2. ASSUME NEW c \in Callers, Step(c)
      PROVE  /\ admitted[a] # None => admitted'[a] = admitted[a]
             /\ gate[a] \in Facts => gate'[a] = gate[a]
             /\ ended'[a] = ended[a]
             /\ usage'[a] # usage[a] => usage[a] = None /\ usage'[a] = ended[a]
  <2>1. admitted[a] # None => admitted'[a] = admitted[a]
    BY <1>0, <1>1, <1>2 DEF TypeOK, Step, Reading, ReplayAttempt, AdmitKnown, AdmitUnreserved,
         DenyUnpriced, ReadSpent, Reserve, Deny, Receive, AppendUsageEvent, SettleNothing,
         SettleFailure, SettleUsageEvent, Settling
  <2>2. gate[a] \in Facts => gate'[a] = gate[a]
    BY <1>0, <1>2, BoundAssumption DEF TypeOK, Step, ReplayAttempt, AdmitKnown, AdmitUnreserved,
         DenyUnpriced, ReadSpent, Reserve, Deny, Receive, AppendUsageEvent, SettleNothing,
         SettleFailure, SettleUsageEvent, Settling
  <2>3. ended' = ended
    BY <1>2 DEF Step, ReplayAttempt, AdmitKnown, AdmitUnreserved,
         DenyUnpriced, ReadSpent, Reserve, Deny, Receive, AppendUsageEvent, SettleNothing,
         SettleFailure, SettleUsageEvent, Settling
  <2>4. CASE AppendUsageEvent(c)
    BY <1>0, <2>1, <2>2, <2>3, <2>4 DEF TypeOK, AppendUsageEvent
  <2>5. CASE ~AppendUsageEvent(c)
    <3>1. usage' = usage
      BY <1>2, <2>5 DEF Step, ReplayAttempt, AdmitKnown, AdmitUnreserved,
         DenyUnpriced, ReadSpent, Reserve, Deny, Receive, SettleNothing,
         SettleFailure, SettleUsageEvent, Settling
    <3> QED
      BY <2>1, <2>2, <2>3, <3>1
  <2> QED
    BY <2>4, <2>5
<1>3. ASSUME NEW b, NEW f, NEW cost, CallEnds(b, cost)
      PROVE  /\ ended[a] # None => ended'[a] = ended[a]
             /\ UNCHANGED <<admitted, gate, usage>>
  BY <1>0, <1>3 DEF TypeOK, CallEnds
<1>4. ASSUME NEW b, GiveUp(b) \/ ReleaseReservation(b)
      PROVE  /\ gate[a] \in Facts => gate'[a] = gate[a]
             /\ UNCHANGED <<admitted, ended, usage>>
  BY <1>0, <1>4, BoundAssumption DEF TypeOK, GiveUp, ReleaseReservation
<1>5. ASSUME ~\E c \in Callers : Step(c), ~\E b, cost : CallEnds(b, cost),
             ~\E b : GiveUp(b) \/ ReleaseReservation(b)
      PROVE  UNCHANGED <<admitted, gate, ended, usage>>
  BY <1>5 DEF Next, vars, SaveBudget, CreateOverride, Reconcile, Ask, Report, Lose, Tick
<1> QED
  BY <1>2, <1>3, <1>4, <1>5

LEMMA Appended ==
    ASSUME NEW S, NEW s \in Seq(S), NEW x, NEW i \in DOMAIN s
    PROVE  i \in DOMAIN Append(s, x) /\ Append(s, x)[i] = s[i]
<1>1. Len(s) \in Nat /\ DOMAIN s = 1..Len(s)
  OBVIOUS
<1>2. DOMAIN Append(s, x) = 1..(Len(s) + 1) /\ i # Len(s) + 1
  BY <1>1
<1> QED
  BY <1>1, <1>2

\* Saved budgets and overrides stay: limits and exceptions in effect at a time only grow.
LEMMA ConfigKept ==
    ASSUME IInv, [Next]_vars, NEW i \in DOMAIN versions, NEW t
    PROVE  /\ i \in DOMAIN versions' /\ versions'[i] = versions[i]
           /\ Limits(i, t) \subseteq Limits(i, t)'
           /\ Bypassed(i, t) => Bypassed(i, t)'
<1> USE DEF ledger, config
<1>0. versions \in Seq(Budgets) /\ overrides \in Seq(Override)
  BY DEF IInv, TypeOK
<1>1. /\ versions' = versions \/ \E b \in Budgets : versions' = Append(versions, b)
      /\ overrides' = overrides \/ \E o : overrides' = Append(overrides, o)
  BY DEF Next, vars, SaveBudget, CreateOverride, Reconcile, Ask, CallEnds, Report, Step, Lose,
     GiveUp, ReleaseReservation, Tick, ReplayAttempt, AdmitKnown, AdmitUnreserved, DenyUnpriced,
     ReadSpent, Reserve, Deny, Receive, AppendUsageEvent, SettleNothing, SettleFailure,
     SettleUsageEvent, Settling
<1>2. i \in DOMAIN versions' /\ versions'[i] = versions[i]
  <2>1. CASE versions' = versions
    BY <2>1
  <2>2. ASSUME NEW b \in Budgets, versions' = Append(versions, b)
        PROVE  i \in DOMAIN versions' /\ versions'[i] = versions[i]
    BY <1>0, <2>2, Appended
  <2> QED
    BY <1>1, <2>1, <2>2
<1>3. \A n \in DOMAIN overrides : n \in DOMAIN overrides' /\ overrides'[n] = overrides[n]
  BY <1>0, <1>1, Appended
<1>4. InEffect(i, t) \subseteq InEffect(i, t)'
  BY <1>3 DEF InEffect
<1> QED
  BY <1>2, <1>4 DEF Limits, Bypassed

\* While a request holds the lock, what it counts on stays.
LEMMA LockFreezes ==
    ASSUME IInv, [Next]_vars, NEW c \in Callers,
           caller[c].pc = "reserve", caller'[c] = caller[c]
    PROVE  UNCHANGED <<admitted, reserved, settled, released>>
<1> USE DEF ledger, config
<1>0. TypeOK /\ lock = c /\ c # None
  BY BoundAssumption DEF IInv, TypeOK
<1>1. ASSUME NEW d \in Callers, Reserve(d) PROVE FALSE
  BY <1>0, <1>1 DEF TypeOK, Reserve, Answers, Idle
<1> QED
  BY <1>0, <1>1 DEF Next, vars, SaveBudget, CreateOverride, Reconcile, Ask, CallEnds, Report, Step, Lose,
     GiveUp, ReleaseReservation, Tick, ReplayAttempt, AdmitKnown, AdmitUnreserved, DenyUnpriced,
     ReadSpent, Deny, Receive, AppendUsageEvent, SettleNothing, SettleFailure,
     SettleUsageEvent

(***************************************************************************)
(* The invariant is inductive                                               *)
(***************************************************************************)

LEMMA BooksStep == IInv /\ [Next]_vars => Books'
<1> SUFFICES ASSUME IInv, [Next]_vars PROVE Books'
  OBVIOUS
<1> USE DEF ledger, config
<1>0. TypeOK /\ Books /\ \A c \in Callers : Carries(c) /\ Reading(c)
  BY DEF IInv
<1>1. ASSUME NEW a \in Attempts, reserved'[a] # None
      PROVE  admitted'[a] \in Facts /\ reserved'[a].quoted = Price[admitted'[a]]
  <2>1. CASE reserved'[a] = reserved[a]
    BY <1>0, <1>1, <2>1, RecordsKept, BoundAssumption DEF Books
  <2>2. CASE reserved'[a] # reserved[a]
    <3>1. PICK c \in Callers : Reserve(c)
      BY <2>2 DEF Next, vars, SaveBudget, CreateOverride, Reconcile, Ask, CallEnds, Report, Step,
         Lose, GiveUp, ReleaseReservation, Tick, ReplayAttempt, AdmitKnown, AdmitUnreserved,
         DenyUnpriced, ReadSpent, Deny, Receive, AppendUsageEvent, SettleNothing, SettleFailure,
         SettleUsageEvent, Settling
    <3>2. a = caller[c].attempt /\ caller[c].facts \in Facts
      BY <1>0, <2>2, <3>1 DEF TypeOK, Reserve, Carries
    <3> QED
      BY <1>0, <3>1, <3>2 DEF TypeOK, Reserve
  <2> QED
    BY <2>1, <2>2
<1>2. ASSUME NEW a \in Attempts, ended'[a] # None
      PROVE  gate'[a] \in Facts /\ ended'[a].cost \in Billable(gate'[a])
  <2>1. CASE ended'[a] = ended[a]
    BY <1>0, <1>2, <2>1, RecordsKept DEF Books
  <2>2. CASE ended'[a] # ended[a]
    <3>1. PICK f \in Facts : \E cost \in Billable(f) : CallEnds(a, cost)
      BY <1>0, <2>2 DEF TypeOK, Next, vars, SaveBudget, CreateOverride, Reconcile, Ask, CallEnds, Report, Step,
         Lose, GiveUp, ReleaseReservation, Tick, ReplayAttempt, AdmitKnown, AdmitUnreserved,
         DenyUnpriced, ReadSpent, Reserve, Deny, Receive, AppendUsageEvent, SettleNothing,
         SettleFailure, SettleUsageEvent, Settling
    <3> QED
      BY <1>0, <3>1 DEF TypeOK, CallEnds
  <2> QED
    BY <2>1, <2>2
<1>3. ASSUME NEW a \in Attempts, usage'[a] # None PROVE usage'[a] = ended'[a]
  BY <1>0, <1>3, RecordsKept DEF Books
<1>4. ASSUME NEW a \in settled' PROVE usage'[a] # None
  <2>1. a \in settled \/ \E c \in Callers : SettleUsageEvent(c) /\ a = caller[c].attempt
    BY DEF Next, vars, SaveBudget, CreateOverride, Reconcile, Ask, CallEnds, Report, Step,
       Lose, GiveUp, ReleaseReservation, Tick, ReplayAttempt, AdmitKnown, AdmitUnreserved,
       DenyUnpriced, ReadSpent, Reserve, Deny, Receive, AppendUsageEvent, SettleNothing,
       SettleFailure, SettleUsageEvent, Settling
  <2>2. a \in Attempts /\ usage[a] # None
    BY <1>0, <2>1 DEF TypeOK, Books, Carries, SettleUsageEvent, Settling
  <2> QED
    BY <2>2, RecordsKept
<1> QED
  BY <1>1, <1>2, <1>3, <1>4 DEF Books, Billable

\* What is dispatched was admitted, by this step or an earlier one.
LEMMA DispatchStep == IInv /\ [Next]_vars => DispatchedAsAdmitted'
<1> SUFFICES ASSUME IInv, [Next]_vars, NEW a \in Attempts, gate'[a] \in Facts
             PROVE  admitted'[a] = gate'[a]
  BY DEF DispatchedAsAdmitted
<1> USE DEF ledger, config
<1>0. TypeOK /\ DispatchedAsAdmitted /\ \A c \in Callers : Carries(c)
  BY DEF IInv
<1>1. CASE gate'[a] = gate[a]
  BY <1>0, <1>1, RecordsKept, BoundAssumption DEF DispatchedAsAdmitted
<1>2. CASE gate'[a] # gate[a]
  <2>1. PICK c \in Callers : Receive(c)
    BY <1>0, <1>2, BoundAssumption DEF TypeOK, Next, vars, SaveBudget, CreateOverride, Reconcile, Ask, CallEnds,
       Report, Step, Lose, GiveUp, ReleaseReservation, Tick, ReplayAttempt, AdmitKnown,
       AdmitUnreserved, DenyUnpriced, ReadSpent, Reserve, Deny, AppendUsageEvent, SettleNothing,
       SettleFailure, SettleUsageEvent, Settling
  <2>2. /\ a = caller[c].attempt /\ gate'[a] = caller[c].facts
        /\ caller[c].answer \in {"created", "duplicate"}
    BY <1>0, <1>2, <2>1, BoundAssumption DEF TypeOK, Receive
  <2> QED
    BY <1>0, <2>1, <2>2 DEF Receive, Carries
<1> QED
  BY <1>1, <1>2

LEMMA CarriesStep == IInv /\ [Next]_vars => \A d \in Callers : Carries(d)'
<1> SUFFICES ASSUME IInv, [Next]_vars, NEW d \in Callers PROVE Carries(d)'
  OBVIOUS
<1> USE DEF ledger, config
<1>0. TypeOK /\ Carries(d) /\ \A c \in Callers : Carries(c)
  BY DEF IInv
<1>1. CASE caller'[d] = caller[d]
  BY <1>0, <1>1, RecordsKept, BoundAssumption DEF Carries
<1>2. CASE caller'[d] = Idle
  BY <1>2 DEF Carries, Idle
<1>3. ASSUME NEW a \in Attempts, NEW f \in Facts, Ask(d, a, f) PROVE Carries(d)'
  BY <1>0, <1>3 DEF TypeOK, Ask, Carries, Idle
<1>4. ASSUME NEW a \in Attempts, Report(d, a) PROVE Carries(d)'
  BY <1>0, <1>4 DEF TypeOK, Report, Carries, Idle
<1>5. ASSUME ReplayAttempt(d) PROVE Carries(d)'
  BY <1>0, <1>5 DEF TypeOK, ReplayAttempt, Replayed, Answers, Carries, Idle
<1>6. ASSUME AdmitKnown(d) PROVE Carries(d)'
  BY <1>0, <1>6 DEF TypeOK, AdmitKnown, Replayed, Answers, Carries, Idle
<1>7. ASSUME AdmitUnreserved(d) PROVE Carries(d)'
  BY <1>0, <1>7 DEF TypeOK, AdmitUnreserved, Answers, Carries, Idle
<1>8. ASSUME NEW i \in DOMAIN versions, DenyUnpriced(d, i) PROVE Carries(d)'
  BY <1>0, <1>8 DEF TypeOK, DenyUnpriced, Answers, Carries, Idle
<1>9. ASSUME NEW i \in DOMAIN versions, ReadSpent(d, i) PROVE Carries(d)'
  BY <1>0, <1>9 DEF TypeOK, ReadSpent, Carries, CallerType
<1>10. ASSUME Reserve(d) PROVE Carries(d)'
  BY <1>0, <1>10 DEF TypeOK, Reserve, Answers, Carries, Idle
<1>11. ASSUME Deny(d) PROVE Carries(d)'
  BY <1>0, <1>11 DEF TypeOK, Deny, Answers, Carries, Idle
<1>12. ASSUME AppendUsageEvent(d) PROVE Carries(d)'
  BY <1>0, <1>12 DEF TypeOK, AppendUsageEvent, Carries, CallerType
<1>13. ASSUME caller'[d] # caller[d], caller'[d] # Idle
       PROVE  \/ \E a \in Attempts, f \in Facts : Ask(d, a, f)
              \/ \E a \in Attempts : Report(d, a)
              \/ Step(d)
  <2>1. ASSUME NEW c \in Callers, Step(c), c # d PROVE caller'[d] = caller[d]
    BY <1>0, <2>1 DEF TypeOK, Step, ReplayAttempt, AdmitKnown, AdmitUnreserved, DenyUnpriced,
       ReadSpent, Reserve, Deny, Receive, AppendUsageEvent, SettleNothing, SettleFailure,
       SettleUsageEvent, Settling, Answers, Ended
  <2> QED
    BY <1>0, <1>13, <2>1 DEF TypeOK, Next, vars, SaveBudget, CreateOverride, Reconcile, Ask, CallEnds, Report,
       Lose, GiveUp, ReleaseReservation, Tick, Ended
<1>14. ASSUME Receive(d) \/ SettleNothing(d) \/ SettleFailure(d) \/ SettleUsageEvent(d)
       PROVE  caller'[d] = Idle
  BY <1>0, <1>14 DEF TypeOK, Receive, SettleNothing, SettleFailure, SettleUsageEvent, Settling, Ended
<1> QED
  BY <1>1, <1>2, <1>3, <1>4, <1>5, <1>6, <1>7, <1>8, <1>9, <1>10, <1>11, <1>12, <1>13, <1>14 DEF Step

\* At the moment of reading, a commitment is a known cost or an open reservation.
LEMMA ReadCoversExposure ==
    ASSUME TypeOK, Books, NEW p
    PROVE  Exposure(p) <= Spent(p) + Total(Outstanding(p))
<1>1. ASSUME NEW a \in Attempts
      PROVE  Charge(p)[a] <= CostIn(p)[a] \/ Charge(p)[a] <= Outstanding(p)[a]
  <2>1. CostIn(p)[a] \in Nat /\ Outstanding(p)[a] \in Nat
    BY AmountTypes DEF Amounts
  <2>2. CASE reserved[a] = None \/ a \in released
    BY <2>1, <2>2 DEF Charge
  <2>3. CASE reserved[a] # None /\ a \notin released /\ reserved[a].period # p
    BY <2>1, <2>3 DEF Charge
  <2>4. CASE reserved[a] # None /\ a \notin released /\ reserved[a].period = p /\ usage[a] = None
    <3>1. Charge(p)[a] = reserved[a].quoted
      BY <2>4 DEF Charge
    <3>2. Outstanding(p)[a] = reserved[a].quoted
      BY <2>4 DEF Outstanding, IsOutstanding, Books
    <3> QED
      BY <2>1, <3>1, <3>2
  <2>5. CASE reserved[a] # None /\ a \notin released /\ reserved[a].period = p /\ usage[a] # None
    BY <2>1, <2>5 DEF Charge
  <2> QED
    BY <2>2, <2>3, <2>4, <2>5
<1> QED
  BY <1>1, AmountTypes, TotalSplit DEF Exposure, Spent

\* Usage recorded while reservations stay commits the team to no more than before.
LEMMA ExposureFalls ==
    ASSUME IInv, TypeOK', [Next]_vars, UNCHANGED <<reserved, released>>, NEW p
    PROVE  Exposure(p)' <= Exposure(p)
<1>0. TypeOK /\ Books /\ DispatchedAsAdmitted
  BY DEF IInv
<1>1. Charge(p) \in Amounts /\ Charge(p)' \in Amounts
  <2>1. Charge(p) \in Amounts
    BY <1>0, AmountTypes
  <2>2. CostIn(p)' \in Amounts
    BY DEF CostIn, Amounts
  <2>3. Charge(p)' \in Amounts
    BY <2>2 DEF TypeOK, Charge, Amounts, Reservation
  <2> QED
    BY <2>1, <2>3
<1>2. ASSUME NEW a \in Attempts PROVE Charge(p)'[a] <= Charge(p)[a]
  <2>1. Charge(p)[a] \in Nat
    BY <1>1 DEF Amounts
  <2>2. CASE usage'[a] = usage[a]
    <3>1. CostIn(p)'[a] = CostIn(p)[a]
      BY <2>2 DEF CostIn, Counts
    <3>2. Charge(p)'[a] = Charge(p)[a]
      BY <2>2, <3>1 DEF Charge
    <3> QED
      BY <2>1, <3>2
  <2>3. CASE usage'[a] # usage[a]
    <3>1. usage[a] = None /\ usage'[a] = ended[a] /\ ended[a] # None
      BY <2>3, RecordsKept
    <3>2. CASE reserved[a] = None \/ a \in released \/ reserved[a].period # p
      BY <2>1, <3>2 DEF Charge
    <3>3. CASE reserved[a] # None /\ a \notin released /\ reserved[a].period = p
      <4>1. Charge(p)[a] = Price[gate[a]] /\ ended[a].cost \in Billable(gate[a])
        BY <1>0, <3>1, <3>3 DEF Charge, Books, DispatchedAsAdmitted
      <4>2. ended[a].cost \in Nat => ended[a].cost <= Price[gate[a]]
        BY <2>1, <4>1, AmountAssumption DEF Billable
      <4>3. CostIn(p)'[a] <= Price[gate[a]]
        BY <2>1, <3>1, <4>1, <4>2 DEF CostIn
      <4> QED
        BY <3>1, <3>3, <4>1, <4>3 DEF Charge
    <3> QED
      BY <3>2, <3>3
  <2> QED
    BY <2>2, <2>3
<1> QED
  BY <1>1, <1>2, TotalMonotone DEF Exposure

LEMMA ReadingStep == IInv /\ TypeOK' /\ [Next]_vars => \A c \in Callers : Reading(c)'
<1> SUFFICES ASSUME IInv, TypeOK', [Next]_vars, NEW c \in Callers, caller'[c].pc = "reserve"
             PROVE  Reading(c)'
  BY DEF Reading
<1> USE DEF ledger, config
<1>0. TypeOK /\ Books /\ Carries(c) /\ Reading(c)
  BY DEF IInv
<1>1. CASE caller'[c] = caller[c]
  <2>0. PICK p : p = caller[c].period
    OBVIOUS
  <2>1. UNCHANGED <<admitted, reserved, settled, released>>
    BY <1>1, LockFreezes
  <2>2. Exposure(p)' <= Exposure(p)
    BY <2>1, ExposureFalls
  <2>3. Outstanding(p)' = Outstanding(p)
    BY <2>1 DEF Outstanding, IsOutstanding
  <2>4. Exposure(p) \in Nat /\ Exposure(p)' \in Nat
    <3>1. Charge(p) \in Amounts
      BY <1>0, AmountTypes
    <3>2. CostIn(p)' \in Amounts
      BY DEF CostIn, Amounts
    <3>3. Charge(p)' \in Amounts
      BY <3>2 DEF TypeOK, Charge, Amounts, Reservation
    <3> QED
      BY <3>1, <3>3, UnitsFinite DEF Exposure
  <2>5. Total(Outstanding(p)) \in Nat /\ caller[c].spent \in Nat
    BY <1>0, AmountTypes, UnitsFinite DEF TypeOK, CallerType
  <2>6. Exposure(p)' <= caller[c].spent + Total(Outstanding(p))'
    <3>1. Total(Outstanding(p))' = Total(Outstanding(p))
      BY <2>3 DEF Total, Units
    <3>2. Exposure(p) <= caller[c].spent + Total(Outstanding(p))
      BY <1>0, <1>1, <2>0 DEF Reading
    <3> QED
      BY <2>2, <2>4, <2>5, <3>1, <3>2
  <2>7. /\ caller[c].version \in DOMAIN versions'
        /\ caller[c].limits \subseteq Limits(caller[c].version, caller[c].at)'
        /\ caller[c].bypass => Bypassed(caller[c].version, caller[c].at)'
    BY <1>0, <1>1, ConfigKept DEF Reading
  <2> QED
    BY <1>0, <1>1, <2>0, <2>1, <2>6, <2>7 DEF Reading
<1>2. CASE caller'[c] # caller[c]
  <2>1. PICK i \in DOMAIN versions : ReadSpent(c, i)
    <3>1. ASSUME NEW d \in Callers, Step(d), d # c PROVE caller'[c] = caller[c]
      BY <1>0, <3>1 DEF TypeOK, Step, ReplayAttempt, AdmitKnown, AdmitUnreserved, DenyUnpriced,
         ReadSpent, Reserve, Deny, Receive, AppendUsageEvent, SettleNothing, SettleFailure,
         SettleUsageEvent, Settling, Answers, Ended
    <3>2. ASSUME NEW d \in Callers, Lose(d) PROVE FALSE
      BY <1>0, <1>2, <3>2 DEF TypeOK, Lose, Ended, Idle
    <3>3. ASSUME NEW d \in Callers, NEW a, NEW f, Ask(d, a, f) PROVE FALSE
      BY <1>0, <1>2, <3>3 DEF TypeOK, Ask, Idle
    <3>4. ASSUME NEW d \in Callers, NEW a, Report(d, a) PROVE FALSE
      BY <1>0, <1>2, <3>4 DEF TypeOK, Report, Idle
    <3>5. Step(c)
      BY <1>2, <3>1, <3>2, <3>3, <3>4 DEF Next, vars, SaveBudget, CreateOverride, Reconcile, CallEnds,
         GiveUp, ReleaseReservation, Tick
    <3>6. ASSUME ReplayAttempt(c) PROVE FALSE
      <4>1. caller'[c].pc = "admit" \/ caller'[c].pc = "answer"
        BY <1>0, <3>6 DEF TypeOK, ReplayAttempt, Answers, Idle, CallerType
      <4> QED
        BY <4>1
    <3>7. ASSUME AppendUsageEvent(c) PROVE FALSE
      BY <1>0, <3>7 DEF TypeOK, AppendUsageEvent, CallerType
    <3>8. ASSUME \/ AdmitKnown(c) \/ AdmitUnreserved(c) \/ Reserve(c) \/ Deny(c)
                 \/ \E i \in DOMAIN versions : DenyUnpriced(c, i)
          PROVE FALSE
      <4>1. \E answer : caller' = Answers(c, answer)
        BY <3>8 DEF AdmitKnown, AdmitUnreserved, Reserve, Deny, DenyUnpriced
      <4> QED
        BY <1>0, <4>1 DEF TypeOK, Answers, Idle
    <3>9. ASSUME \/ Receive(c) \/ SettleNothing(c) \/ SettleFailure(c) \/ SettleUsageEvent(c)
          PROVE FALSE
      BY <1>0, <3>9 DEF TypeOK, Receive, SettleNothing, SettleFailure, SettleUsageEvent, Settling, Ended, Idle
    <3> QED
      BY <3>5, <3>6, <3>7, <3>8, <3>9 DEF Step
  <2>2. PICK t, p : t = caller[c].at /\ p = PeriodFor(versions[i].calendar, t)
    OBVIOUS
  <2>3. /\ caller'[c].attempt = caller[c].attempt /\ caller'[c].facts = caller[c].facts
        /\ caller'[c].version = i /\ caller'[c].at = t
        /\ caller'[c].limits = Limits(i, t) /\ caller'[c].bypass = Bypassed(i, t)
        /\ caller'[c].period = p /\ caller'[c].spent = Spent(p)
    BY <1>0, <2>1, <2>2 DEF TypeOK, ReadSpent, CallerType
  <2>4. UNCHANGED <<versions, overrides, admitted, reserved, settled, released, usage>>
    BY <2>1 DEF ReadSpent
  <2>5. admitted[caller[c].attempt] = None /\ Price[caller[c].facts] \in Nat
    BY <1>0, <2>1, AmountAssumption DEF ReadSpent, Carries
  <2>6. Exposure(p) <= Spent(p) + Total(Outstanding(p))
    BY <1>0, ReadCoversExposure
  <2>7. Exposure(p)' = Exposure(p) /\ Total(Outstanding(p))' = Total(Outstanding(p))
    <3>1. CostIn(p)' = CostIn(p)
      BY <2>4 DEF CostIn, Counts
    <3>2. Charge(p)' = Charge(p)
      BY <2>4, <3>1 DEF Charge
    <3>3. Outstanding(p)' = Outstanding(p)
      BY <2>4 DEF Outstanding, IsOutstanding
    <3> QED
      BY <3>2, <3>3 DEF Exposure, Total, Units
  <2>8. Limits(i, t)' = Limits(i, t) /\ Bypassed(i, t)' = Bypassed(i, t)
    BY <2>4 DEF Limits, Bypassed, InEffect
  <2> QED
    BY <2>3, <2>4, <2>5, <2>6, <2>7, <2>8 DEF Reading
<1> QED
  BY <1>1, <1>2

LEMMA InitInvariant == Init => IInv
<1> SUFFICES ASSUME Init PROVE IInv
  OBVIOUS
<1>1. Idle \in CallerType
  <2>1. 0 \in Times /\ 0 \in 0..MaxVersions /\ <<0, 0>> \in Periods
    BY BoundAssumption DEF Times, Periods
  <2> QED
    BY <2>1 DEF Idle, CallerType
<1>2. TypeOK
  BY <1>1, BoundAssumption DEF Init, TypeOK, Times, Idle
<1>3. Books /\ DispatchedAsAdmitted
  BY BoundAssumption DEF Init, Books, DispatchedAsAdmitted
<1>4. \A c \in Callers : Carries(c) /\ Reading(c)
  BY DEF Init, Carries, Reading, Idle
<1> QED
  BY <1>2, <1>3, <1>4 DEF IInv

LEMMA InvariantStep == IInv /\ [Next]_vars => IInv'
  BY TypeStep, BooksStep, DispatchStep, CarriesStep, ReadingStep DEF IInv

LEMMA Invariant == Spec => []IInv
  BY InitInvariant, InvariantStep, PTL DEF Spec

\* Every state of every run is typed, and at most one request holds the team's lock.
THEOREM TypeCorrect == Spec => []TypeOK
<1>1. IInv => TypeOK
  BY DEF IInv
<1> QED
  BY <1>1, Invariant, PTL

\* What the gateway's callback lets out is what Control admitted for that attempt.
THEOREM DispatchCorrect == Spec => []DispatchedAsAdmitted
<1>1. IInv => DispatchedAsAdmitted
  BY DEF IInv
<1> QED
  BY <1>1, Invariant, PTL

\* No reservation is both settled and released.
THEOREM OneTerminalOutcome == Spec => []TerminalOnce
<1> USE DEF ledger, config
<1>1. Init => TerminalOnce
  BY DEF Init, TerminalOnce
<1>2. TerminalOnce /\ [Next]_vars => TerminalOnce'
  BY DEF TerminalOnce, Next, vars, SaveBudget, CreateOverride, Reconcile, Ask, CallEnds, Report, Step,
     Lose, GiveUp, ReleaseReservation, Tick, ReplayAttempt, AdmitKnown, AdmitUnreserved,
     DenyUnpriced, ReadSpent, Reserve, Deny, Receive, AppendUsageEvent, SettleNothing,
     SettleFailure, SettleUsageEvent, Settling
<1> QED
  BY <1>1, <1>2, PTL DEF Spec

\* Admissions that cross each other and the events of earlier calls do not overrun a
\* hard limit: each fits beside everything the team is committed to when it commits.
LEMMA AdmissionFits ==
    ASSUME IInv, [Next]_vars, NEW a \in Attempts, reserved[a] = None, HardLimited(a)'
    PROVE  Fits(a)'
<1> USE DEF ledger, config
<1>0. TypeOK /\ Books /\ TypeOK' /\ \A c \in Callers : Carries(c) /\ Reading(c)
  BY TypeStep DEF IInv
<1>1. PICK c \in Callers : Reserve(c)
  BY DEF HardLimited, Next, vars, SaveBudget, CreateOverride, Reconcile, Ask, CallEnds, Report, Step,
     Lose, GiveUp, ReleaseReservation, Tick, ReplayAttempt, AdmitKnown, AdmitUnreserved,
     DenyUnpriced, ReadSpent, Deny, Receive, AppendUsageEvent, SettleNothing, SettleFailure,
     SettleUsageEvent, Settling
<1>2. PICK i, t, p, n : i = caller[c].version /\ t = caller[c].at /\ p = caller[c].period
                        /\ n = Price[caller[c].facts]
  OBVIOUS
<1>3. a = caller[c].attempt
  BY <1>0, <1>1 DEF HardLimited, Reserve, TypeOK, Carries
<1>4. reserved'[a] = [version |-> i, period |-> p, quoted |-> n, at |-> t]
  BY <1>0, <1>1, <1>2, <1>3 DEF Reserve, TypeOK
<1>5. UNCHANGED <<versions, overrides, usage, released>>
  BY <1>1 DEF Reserve
<1>6. versions[i].mode = "hard" /\ ~Bypassed(i, t)
  BY <1>4, <1>5 DEF HardLimited, Bypassed, InEffect
<1>7. /\ n \in Nat /\ caller[c].limits \subseteq Limits(i, t) /\ ~caller[c].bypass
      /\ i \in DOMAIN versions
      /\ Exposure(p) <= caller[c].spent + Total(Outstanding(p))
  BY <1>0, <1>1, <1>2, <1>6 DEF Reserve, Reading
<1>8. PICK l \in caller[c].limits : l - caller[c].spent - Total(Outstanding(p)) >= n
  BY <1>1, <1>2, <1>6, <1>7 DEF Reserve, Allowed, Enough
<1>9. l \in Nat /\ l \in Limits(i, t) /\ caller[c].spent \in Nat /\ Total(Outstanding(p)) \in Nat
  BY <1>0, <1>7, LimitsType, AmountTypes, UnitsFinite DEF TypeOK, CallerType
<1>10. Exposure(p)' <= Exposure(p) + n /\ Exposure(p) \in Nat /\ Exposure(p)' \in Nat
  <2>1. Charge(p) \in Amounts
    BY <1>0, AmountTypes
  <2>2. CostIn(p)' \in Amounts /\ CostIn(p)' = CostIn(p)
    BY <1>5 DEF CostIn, Counts, Amounts
  <2>3. Charge(p)' \in Amounts
    BY <1>0, <2>2 DEF TypeOK, Charge, Amounts, Reservation
  <2>4. \A x \in Attempts : x # a => Charge(p)'[x] = Charge(p)[x]
    BY <1>0, <1>1, <1>3, <1>5, <2>2 DEF Charge, Reserve, TypeOK
  <2>5. Charge(p)'[a] <= n
    <3>1. admitted[a] = None
      BY <1>0, <1>1, <1>3 DEF Reserve, Reading
    <3>2. gate[a] \notin Facts
      BY <3>1, BoundAssumption DEF IInv, DispatchedAsAdmitted
    <3>3. usage'[a] = None
      BY <1>0, <1>5, <3>2 DEF Books
    <3> QED
      BY <1>4, <1>7, <3>3 DEF Charge
  <2>6. Total(Charge(p)') <= Total(Charge(p)) + n
    BY <1>7, <2>1, <2>3, <2>4, <2>5, TotalReplace DEF Amounts
  <2> QED
    BY <2>1, <2>3, <2>6, UnitsFinite DEF Exposure, Total, Units
<1>11. Exposure(p)' <= l
  BY <1>7, <1>8, <1>9, <1>10
<1>12. Limits(i, t)' = Limits(i, t)
  BY <1>5 DEF Limits, InEffect
<1> QED
  BY <1>4, <1>9, <1>11, <1>12 DEF Fits

\* Under a hard limit a reservation leaves the team within that limit, although events are
\* recorded between the two reads of its admission.
THEOREM HardLimitsHold == Spec => AdmissionsFit
<1>1. IInv /\ [Next]_vars => [\A a \in Attempts : reserved[a] = None /\ HardLimited(a)' => Fits(a)']_vars
  BY AdmissionFits
<1> QED
  BY <1>1, Invariant, PTL DEF Spec, AdmissionsFit

(***************************************************************************)
(* Thresholds                                                               *)
(***************************************************************************)

\* What is reserved names a budget, and only what was reserved is settled.
Filed ==
  /\ \A a \in Attempts : reserved[a] # None => reserved[a].version \in DOMAIN versions
  /\ \A a \in settled : reserved[a] # None

\* A reservation stays as it was made.
LEMMA ReservationsKept ==
    ASSUME IInv, [Next]_vars, NEW a \in Attempts, reserved'[a] # reserved[a]
    PROVE  /\ reserved[a] = None
           /\ \E c \in Callers : Reserve(c) /\ a = caller[c].attempt
<1> USE DEF ledger, config
<1>0. TypeOK /\ Books /\ \A c \in Callers : Carries(c) /\ Reading(c)
  BY DEF IInv
<1>1. PICK c \in Callers : Reserve(c)
  BY DEF Next, vars, SaveBudget, CreateOverride, Reconcile, Ask, CallEnds, Report, Step,
     Lose, GiveUp, ReleaseReservation, Tick, ReplayAttempt, AdmitKnown, AdmitUnreserved,
     DenyUnpriced, ReadSpent, Deny, Receive, AppendUsageEvent, SettleNothing, SettleFailure,
     SettleUsageEvent, Settling
<1>2. a = caller[c].attempt
  BY <1>0, <1>1 DEF TypeOK, Reserve
<1>3. admitted[a] = None
  BY <1>0, <1>1, <1>2 DEF Reserve, Reading
<1> QED
  BY <1>0, <1>1, <1>2, <1>3, BoundAssumption DEF Books

\* What is settled stays so, and only a settlement adds to it.
LEMMA SettledGrows ==
    ASSUME IInv, [Next]_vars
    PROVE  /\ settled \subseteq settled'
           /\ settled' # settled => \E c \in Callers : SettleUsageEvent(c)
<1> USE DEF ledger, config
<1> QED
  BY DEF Next, vars, SaveBudget, CreateOverride, Reconcile, Ask, CallEnds, Report, Step,
     Lose, GiveUp, ReleaseReservation, Tick, ReplayAttempt, AdmitKnown, AdmitUnreserved,
     DenyUnpriced, ReadSpent, Reserve, Deny, Receive, AppendUsageEvent, SettleNothing, SettleFailure,
     SettleUsageEvent, Settling

\* Alerts and overrides stay.
LEMMA AlertsKept ==
    ASSUME IInv, [Next]_vars
    PROVE  /\ alerts \subseteq alerts'
           /\ \A n \in DOMAIN overrides : n \in DOMAIN overrides' /\ overrides'[n] = overrides[n]
<1> USE DEF ledger, config
<1>0. overrides \in Seq(Override)
  BY DEF IInv, TypeOK
<1>1. alerts \subseteq alerts'
  BY DEF Next, vars, SaveBudget, CreateOverride, Reconcile, Ask, CallEnds, Report, Step,
     Lose, GiveUp, ReleaseReservation, Tick, ReplayAttempt, AdmitKnown, AdmitUnreserved,
     DenyUnpriced, ReadSpent, Reserve, Deny, Receive, AppendUsageEvent, SettleNothing, SettleFailure,
     SettleUsageEvent, Settling
<1>2. overrides' = overrides \/ \E o : overrides' = Append(overrides, o)
  BY DEF Next, vars, SaveBudget, CreateOverride, Reconcile, Ask, CallEnds, Report, Step,
     Lose, GiveUp, ReleaseReservation, Tick, ReplayAttempt, AdmitKnown, AdmitUnreserved,
     DenyUnpriced, ReadSpent, Reserve, Deny, Receive, AppendUsageEvent, SettleNothing, SettleFailure,
     SettleUsageEvent, Settling
<1> QED
  BY <1>0, <1>1, <1>2, Appended

LEMMA FiledStep == IInv /\ Filed /\ [Next]_vars => Filed'
<1> SUFFICES ASSUME IInv, Filed, [Next]_vars PROVE Filed'
  OBVIOUS
<1> USE DEF ledger, config
<1>0. TypeOK /\ \A c \in Callers : Carries(c) /\ Reading(c)
  BY DEF IInv
<1>1. ASSUME NEW a \in Attempts, reserved'[a] # None
      PROVE  reserved'[a].version \in DOMAIN versions'
  <2>1. CASE reserved'[a] = reserved[a]
    BY <1>1, <2>1, ConfigKept DEF Filed
  <2>2. CASE reserved'[a] # reserved[a]
    <3>1. PICK c \in Callers : Reserve(c) /\ a = caller[c].attempt
      BY <2>2, ReservationsKept
    <3>2. reserved'[a].version = caller[c].version
      BY <1>0, <3>1 DEF TypeOK, Reserve
    <3>3. caller[c].version \in DOMAIN versions
      BY <1>0, <3>1 DEF Reserve, Reading
    <3> QED
      BY <3>2, <3>3, ConfigKept
  <2> QED
    BY <2>1, <2>2
<1>2. ASSUME NEW a \in settled' PROVE reserved'[a] # None
  <2>1. a \in Attempts /\ reserved[a] # None
    <3>1. CASE a \in settled
      BY <1>0, <3>1 DEF TypeOK, Filed
    <3>2. CASE a \notin settled
      <4>1. PICK c \in Callers : SettleUsageEvent(c)
        BY <1>2, <3>2, SettledGrows
      <4> QED
        BY <1>0, <1>2, <3>2, <4>1 DEF SettleUsageEvent, Settling, Carries
    <3> QED
      BY <3>1, <3>2
  <2> QED
    BY <2>1, ReservationsKept
<1> QED
  BY <1>1, <1>2 DEF Filed

\* No positive amount, no sum.
LEMMA TotalOfNothing ==
    ASSUME NEW f \in Amounts, Total(f) # 0
    PROVE  \E a \in Attempts : f[a] > 0
<1> SUFFICES ASSUME \A a \in Attempts : ~(f[a] > 0) PROVE FALSE
  OBVIOUS
<1>1. \A a \in Attempts : f[a] = 0
  BY DEF Amounts
<1>2. Units(f) = {}
  BY <1>1 DEF Units
<1> QED
  BY <1>2, FS_EmptySet DEF Total

\* The threshold a settlement checks is that of the budget, unless it was raised.
LEMMA UnraisedLimit ==
    ASSUME NEW i, NEW t,
           ~\E n \in DOMAIN overrides : overrides[n].kind = "limit_increase"
    PROVE  Limits(i, t) = {versions[i].limit}
  BY DEF Limits, InEffect

\* Usage that a step records is not settled yet: a period with nothing unsettled in it
\* has the costs it had.
LEMMA SettledCostsStay ==
    ASSUME IInv, [Next]_vars, NEW i, NEW p, SettledUnder(i, p)'
    PROVE  CostIn(p)' = CostIn(p)
<1> USE DEF ledger, config
<1>0. Books
  BY DEF IInv
<1>1. SUFFICES ASSUME NEW a \in Attempts PROVE CostIn(p)'[a] = CostIn(p)[a]
  BY DEF CostIn
<1>2. CASE usage'[a] = usage[a]
  BY <1>2 DEF CostIn, Counts
<1>3. CASE usage'[a] # usage[a]
  <2>1. usage[a] = None
    BY <1>3, RecordsKept
  <2>2. a \notin settled
    BY <1>0, <2>1 DEF Books
  <2>3. settled' = settled
    BY <1>3, SettledGrows DEF SettleUsageEvent, Settling
  <2>4. ~(CostIn(p)'[a] > 0)
    BY <2>2, <2>3 DEF SettledUnder
  <2>5. CostIn(p)' \in Amounts
    BY DEF CostIn, Amounts
  <2>6. CostIn(p)'[a] = 0
    BY <2>4, <2>5 DEF Amounts
  <2>7. CostIn(p)[a] = 0
    BY <2>1 DEF CostIn, Counts
  <2> QED
    BY <2>6, <2>7
<1> QED
  BY <1>2, <1>3

LEMMA ThresholdStep == IInv /\ Filed /\ CrossedThresholdsAlerted /\ [Next]_vars
                         => CrossedThresholdsAlerted'
<1> SUFFICES ASSUME IInv, Filed, CrossedThresholdsAlerted, [Next]_vars,
                    NEW i \in DOMAIN versions', NEW t \in Times, NEW p,
                    p = PeriodFor(versions'[i].calendar, t),
                    SettledUnder(i, p)', Spent(p)' > 0,
                    Spent(p)' * 100 >= Threshold * versions'[i].limit,
                    ~\E n \in DOMAIN overrides' : overrides'[n].kind = "limit_increase"
             PROVE  <<i, p>> \in alerts'
  BY DEF CrossedThresholdsAlerted, PeriodFor, Spent, CostIn, Counts, SettledUnder, Total, Units, During
<1> USE DEF ledger, config
<1>0. TypeOK /\ Books
  BY DEF IInv
<1>1. CostIn(p)' = CostIn(p) /\ Spent(p)' = Spent(p)
  <2>1. CostIn(p)' = CostIn(p)
    BY SettledCostsStay
  <2> QED
    BY <2>1 DEF Spent, Total, Units
<1>2. i \in DOMAIN versions /\ versions'[i] = versions[i]
  <2>1. PICK a \in Attempts : CostIn(p)[a] > 0
    <3>1. CostIn(p) \in Amounts
      BY <1>0, AmountTypes
    <3>2. Total(CostIn(p)) # 0
      BY <1>1, UnitsFinite, <3>1 DEF Spent
    <3> QED
      BY <3>1, <3>2, TotalOfNothing
  <2>2. reserved'[a] # None /\ reserved'[a].version = i
    BY <1>1, <2>1 DEF SettledUnder
  <2>3. i \in DOMAIN versions
    <3>1. CASE reserved'[a] = reserved[a]
      BY <2>2, <3>1 DEF Filed
    <3>2. CASE reserved'[a] # reserved[a]
      BY <3>2, ReservationsKept DEF Reserve
    <3> QED
      BY <3>1, <3>2
  <2> QED
    BY <2>3, ConfigKept
<1>3. ~\E n \in DOMAIN overrides : overrides[n].kind = "limit_increase"
  BY AlertsKept
<1>4. CASE SettledUnder(i, p)
  <2>1. <<i, p>> \in alerts
    BY <1>1, <1>2, <1>3, <1>4 DEF CrossedThresholdsAlerted
  <2> QED
    BY <2>1, AlertsKept
<1>5. CASE ~SettledUnder(i, p)
  <2>1. PICK a \in Attempts :
          /\ CostIn(p)[a] > 0
          /\ ~(reserved[a] # None /\ a \in settled /\ reserved[a].version = i
                 /\ reserved[a].period = p)
    BY <1>5 DEF SettledUnder
  <2>2. /\ reserved'[a] # None /\ a \in settled'
        /\ reserved'[a].version = i /\ reserved'[a].period = p
    BY <1>1, <2>1 DEF SettledUnder
  <2>3. a \notin settled
    <3>1. CASE reserved'[a] = reserved[a]
      BY <2>1, <2>2, <3>1
    <3>2. CASE reserved'[a] # reserved[a]
      BY <3>2, ReservationsKept DEF Filed
    <3> QED
      BY <3>1, <3>2
  <2>4. PICK c \in Callers : SettleUsageEvent(c)
    BY <2>2, <2>3, SettledGrows
  <2>5. a = caller[c].attempt /\ UNCHANGED <<reserved, overrides, versions>>
    BY <2>2, <2>3, <2>4 DEF SettleUsageEvent, Settling
  <2>6. Limits(i, reserved[a].at) = {versions[i].limit}
    BY <1>3, UnraisedLimit
  <2>7. Crossed(i, p, reserved[a].at)
    BY <1>1, <1>2, <2>6 DEF Crossed
  <2> QED
    BY <2>2, <2>3, <2>4, <2>5, <2>7 DEF SettleUsageEvent, Settling
<1> QED
  BY <1>4, <1>5

\* Once all that was billed in a period is settled, a threshold it crossed was alerted,
\* in whatever order the events of concurrent calls were recorded and settled.
THEOREM ThresholdsAlerted == Spec => []CrossedThresholdsAlerted
<1>1. Init => Filed /\ CrossedThresholdsAlerted
  BY DEF Init, Filed, CrossedThresholdsAlerted
<1>2. IInv /\ Filed /\ CrossedThresholdsAlerted /\ [Next]_vars
        => (Filed /\ CrossedThresholdsAlerted)'
  BY FiledStep, ThresholdStep
<1> QED
  BY <1>1, <1>2, Invariant, PTL DEF Spec

=============================================================================
