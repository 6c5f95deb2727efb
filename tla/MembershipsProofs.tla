------------------------- MODULE MembershipsProofs -------------------------
(***************************************************************************)
(* Theorems about Memberships, for every set of members, roles and requests: *)
(* an owner remains, sessions end with the access they were opened for, and  *)
(* nobody gives away more than they have.                                    *)
(***************************************************************************)
EXTENDS Memberships, TLAPS

(***************************************************************************)
(* Inductive invariants                                                     *)
(***************************************************************************)

\* What a request of tx has read is still so: nobody changes the rows meanwhile.
Locked(h) == tx[h].stage = "locked"
OneChange == \A g, h \in Handler : Locked(g) /\ Locked(h) => g = h
RowsHeld == \A h \in Handler : Locked(h) => Rows(tx[h]) \cap opening = {}
TargetsExist ==
  \A h \in Handler : tx[h].stage # "idle" /\ tx[h].op # "transfer" =>
    membership[tx[h].target].status # "none"
StillPermitted ==
  \A h \in Handler : Locked(h) =>
    IF tx[h].op = "transfer" THEN MayTransfer(tx[h]) ELSE OwnerPreserved(tx[h])

\* A role has a version since it was created, and what was read of one is still there.
VersionsThere ==
  /\ \A r \in Role : IF role[r].status = "none" THEN Current(r) = 0 ELSE Current(r) >= 1
  /\ \A a \in assigning : a.version <= Current(a.role)

TypeInv == TypeOK /\ VersionsThere
OwnerInv == TypeInv /\ AnOwnerRemains /\ OneChange /\ TargetsExist /\ StillPermitted
SessionInv == TypeInv /\ SessionsEndWithAccess /\ opening \cap outdated = {} /\ RowsHeld

Asked(m) == invitation[m].status \in {"pending", "overdue"}
InvitationsVouched ==
  \A m \in Member : Asked(m) => /\ membership[m].status = "none"
                                /\ BuiltIn[invitation[m].role] \subseteq vouched[m]
AssignmentsVouched ==
  \A a \in assigning : role[a.role].grants[a.version] \subseteq a.rights
ChangesVouched ==
  \A h \in Handler : Locked(h) /\ tx[h].op # "transfer" /\ tx[h].role # "same" =>
    BuiltIn[tx[h].role] \subseteq tx[h].rights
DelegationInv ==
  /\ OwnerInv /\ NothingBeyondDelegation
  /\ InvitationsVouched /\ AssignmentsVouched /\ ChangesVouched

(***************************************************************************)
(* What the groups of actions leave alone                                   *)
(***************************************************************************)
LEMMA SessionsQuiet ==
    ASSUME Sessions
    PROVE  UNCHANGED <<membership, access, invites, tx, assigning, vouched, requests>>
  BY DEF Sessions, LockForSession, OpenSession, SignIn, ClearSession, RevokeSession

LEMMA RolesQuiet ==
    ASSUME Roles
    PROVE  UNCHANGED <<membership, invites, opening, outdated, tx, vouched>>
<1>1. ASSUME NEW actor \in Member, NEW r \in Role,
             \/ \E grants \in GrantSets : CreateRole(actor, r, grants) \/ UpdateRole(actor, r, grants)
             \/ ArchiveRole(actor, r)
      PROVE  UNCHANGED <<membership, invites, opening, outdated, tx, vouched>>
  BY <1>1 DEF CreateRole, UpdateRole, ArchiveRole, sessions, invites
<1>2. ASSUME NEW actor \in Member, NEW target \in Member, NEW r \in Role,
             ReadAssignment(actor, target, r) \/ UnassignRole(actor, target, r)
      PROVE  UNCHANGED <<membership, invites, opening, outdated, tx, vouched>>
  BY <1>2 DEF ReadAssignment, UnassignRole, sessions, invites
<1>3. ASSUME NEW a \in assigning, InsertAssignment(a)
      PROVE  UNCHANGED <<membership, invites, opening, outdated, tx, vouched>>
  BY <1>3 DEF InsertAssignment, invites
<1> QED
  BY <1>1, <1>2, <1>3 DEF Roles

LEMMA InvitationsQuiet ==
    ASSUME Invitations
    PROVE  UNCHANGED <<access, tx, opening, assigning>>
  BY DEF Invitations, CreateInvitation, ResendInvitation, Deliver, RevokeInvitation,
         InvitationLapses, CreateContext, AcceptInvitation, sessions

LEMMA ChangingQuiet ==
    ASSUME Changing
    PROVE  UNCHANGED <<access, invites, opening, assigning>>
<1>1. ASSUME NEW h \in Handler, NEW actor \in Member, NEW target \in Member,
             \/ \E change \in Changes : AskChange(h, actor, target, change)
             \/ \E newStatus \in {"active", "suspended"} : AskStatus(h, actor, target, newStatus)
             \/ AskTransfer(h, actor, target)
      PROVE  UNCHANGED <<access, invites, opening, assigning>>
  BY <1>1 DEF AskChange, AskStatus, AskTransfer, Ask, sessions
<1>2. ASSUME NEW h \in Handler, LockMembership(h)
      PROVE  UNCHANGED <<access, invites, opening, assigning>>
  BY <1>2 DEF LockMembership, sessions
<1>3. ASSUME NEW h \in Handler, CommitChange(h) \/ CommitTransfer(h)
      PROVE  UNCHANGED <<access, invites, opening, assigning>>
  BY <1>3 DEF CommitChange, CommitTransfer, sessions
<1> QED
  BY <1>1, <1>2, <1>3 DEF Changing

(***************************************************************************)
(* Types                                                                    *)
(***************************************************************************)
LEMMA AuthorityType ==
    ASSUME TypeOK, NEW m \in Member
    PROVE  Authority(m) \in SUBSET Rights
<1>1. membership[m].role \in BuiltInRoles
  BY DEF TypeOK
<1>2. BuiltIn[membership[m].role] \in SUBSET Rights
  BY <1>1 DEF BuiltIn, BuiltInRoles, Rights
<1>3. ASSUME Valid(m), NEW r \in Assigned(m) PROVE role[r].grants[assigned[m][r]] \in SUBSET Rights
  <2>1. r \in Role /\ assigned[m][r] \in 1..Len(role[r].grants) /\ role[r].grants \in Seq(GrantSets)
    BY <1>3 DEF TypeOK, Assigned, Valid, Current
  <2> QED
    BY <2>1, MembershipAssumption
<1>4. CASE Active(m) /\ Valid(m)
  BY <1>2, <1>3, <1>4 DEF Authority, Granted
<1> QED
  BY <1>4 DEF Authority

LEMMA RevokedType ==
    ASSUME session \in [Member -> {"none", "open", "revoked"}], NEW S
    PROVE  Revoked(session, S) \in [Member -> {"none", "open", "revoked"}]
  BY DEF Revoked

MembershipTable == [Member -> [status : Statuses \cup {"none"}, role : BuiltInRoles]]

\* One membership gets another role.
LEMMA RoleChanged ==
    ASSUME NEW f \in MembershipTable, NEW m \in Member, NEW r \in BuiltInRoles
    PROVE  /\ [f EXCEPT ![m].role = r] \in MembershipTable
           /\ [f EXCEPT ![m].role = r][m] = [status |-> f[m].status, role |-> r]
           /\ \A n \in Member \ {m} : [f EXCEPT ![m].role = r][n] = f[n]
<1>1. [f[m] EXCEPT !.role = r] = [status |-> f[m].status, role |-> r]
  BY DEF MembershipTable
<1>2. [status |-> f[m].status, role |-> r] \in [status : Statuses \cup {"none"}, role : BuiltInRoles]
  BY DEF MembershipTable
<1> QED
  BY <1>1, <1>2 DEF MembershipTable

LEMMA TypeInit ==
    ASSUME Init PROVE TypeInv
<1>1. Rights \in SUBSET Rights /\ {} \in SUBSET Rights
  OBVIOUS
<1>2. Idle \in Transactions
  BY MembershipAssumption DEF Idle, Transactions
<1>3. \A r \in Role : Current(r) = 0
  BY DEF Init, Current
<1>4. \A r \in Role : Current(r) <= MaxVersions /\ \A m \in Member : assigned[m][r] <= Current(r)
  BY <1>3, MembershipAssumption DEF Init
<1>5. role \in [Role -> [status : {"none", "active", "archived"}, grants : Seq(GrantSets)]]
  BY DEF Init
<1>6. /\ invitation \in [Member -> [status : {"none", "pending", "overdue", "revoked", "accepted"},
                                    role : BuiltInRoles, delivery : 0..MaxDeliveries]]
      /\ contexts \in [Member -> [1..MaxDeliveries -> 0..MaxContexts]]
      /\ requests \in 0..MaxRequests
  BY MembershipAssumption DEF Init, BuiltInRoles
<1>7. TypeOK
  BY <1>1, <1>2, <1>4, <1>5, <1>6 DEF Init, TypeOK, BuiltInRoles, Statuses
<1>8. VersionsThere
  <2>1. \A r \in Role : role[r].status = "none"
    BY DEF Init
  <2> QED
    BY <1>3, <2>1 DEF Init, VersionsThere
<1> QED
  BY <1>7, <1>8 DEF TypeInv

\* The requests that wait, begin and commit.
LEMMA TypeChanging ==
    ASSUME TypeInv, Changing
    PROVE  TypeInv'
<1> USE DEF TypeInv, TypeOK
<1>1. UNCHANGED <<role, assigned, given, invitation, contexts, opening, assigning>>
  BY ChangingQuiet DEF access, invites
<1>2. VersionsThere' /\ \A r \in Role : Current(r)' = Current(r)
  BY <1>1 DEF VersionsThere, Current
<1>3. SUFFICES /\ membership' \in [Member -> [status : Statuses \cup {"none"}, role : BuiltInRoles]]
               /\ session' \in [Member -> {"none", "open", "revoked"}]
               /\ tx' \in [Handler -> Transactions]
               /\ outdated' \subseteq Member
               /\ vouched' \in [Member -> SUBSET Rights]
               /\ requests' \in 0..MaxRequests
  BY <1>1, <1>2
<1>4. ASSUME NEW h \in Handler, NEW op \in {"change", "status", "transfer"},
             NEW actor \in Member, NEW target \in Member,
             NEW newRole \in BuiltInRoles \cup {"same"}, NEW newStatus \in Statuses \cup {"same"},
             Ask(h, op, actor, target, newRole, newStatus)
      PROVE  /\ tx' \in [Handler -> Transactions] /\ requests' \in 0..MaxRequests
             /\ UNCHANGED <<membership, sessions, vouched>>
  <2>1. requests' \in 0..MaxRequests /\ UNCHANGED <<membership, sessions, vouched>>
    BY <1>4, MembershipAssumption DEF Ask, Request
  <2>2. [op |-> op, stage |-> "asked", actor |-> actor, target |-> target,
         role |-> newRole, status |-> newStatus, rights |-> {}] \in Transactions
    BY DEF Transactions
  <2> QED
    BY <1>4, <2>1, <2>2 DEF Ask
<1>5. ASSUME NEW h \in Handler, NEW actor \in Member, NEW target \in Member,
             \/ \E change \in Changes : AskChange(h, actor, target, change)
             \/ \E newStatus \in {"active", "suspended"} : AskStatus(h, actor, target, newStatus)
             \/ AskTransfer(h, actor, target)
      PROVE  /\ tx' \in [Handler -> Transactions] /\ requests' \in 0..MaxRequests
             /\ UNCHANGED <<membership, sessions, vouched>>
  <2>1. ASSUME NEW change \in Changes
        PROVE  change.role \in BuiltInRoles \cup {"same"} /\ change.status \in Statuses \cup {"same"}
    BY <2>1, MembershipAssumption DEF BuiltInRoles
  <2>2. \A newStatus \in {"active", "suspended"} : newStatus \in Statuses \cup {"same"}
    BY DEF Statuses
  <2>3. "same" \in BuiltInRoles \cup {"same"} /\ "owner" \in BuiltInRoles \cup {"same"}
        /\ "same" \in Statuses \cup {"same"}
    BY DEF BuiltInRoles
  <2>4. CASE \E change \in Changes : AskChange(h, actor, target, change)
    BY <2>4, <2>1, <1>4 DEF AskChange
  <2>5. CASE \E newStatus \in {"active", "suspended"} : AskStatus(h, actor, target, newStatus)
    BY <2>5, <2>2, <2>3, <1>4 DEF AskStatus
  <2>6. CASE AskTransfer(h, actor, target)
    BY <2>6, <2>3, <1>4 DEF AskTransfer
  <2> QED
    BY <1>5, <2>4, <2>5, <2>6
<1>6. ASSUME NEW h \in Handler, LockMembership(h)
      PROVE  /\ tx' \in [Handler -> Transactions]
             /\ UNCHANGED <<membership, sessions, vouched, requests>>
  <2>1. tx[h] \in Transactions /\ Authority(tx[h].actor) \in SUBSET Rights /\ Idle \in Transactions
    BY AuthorityType, MembershipAssumption DEF Transactions, Idle
  <2>2. \A rights \in SUBSET Rights :
          [tx[h] EXCEPT !.stage = "locked", !.rights = rights] \in Transactions
    BY <2>1 DEF Transactions
  <2>3. (IF tx[h].role = "same" THEN {} ELSE Authority(tx[h].actor)) \in SUBSET Rights
    BY <2>1
  <2>4. tx'[h] \in Transactions /\ tx' = [tx EXCEPT ![h] = tx'[h]]
    BY <1>6, <2>1, <2>2, <2>3 DEF LockMembership
  <2> QED
    BY <1>6, <2>4 DEF LockMembership
<1>7. ASSUME NEW h \in Handler, CommitChange(h) \/ CommitTransfer(h)
      PROVE  /\ membership' \in [Member -> [status : Statuses \cup {"none"}, role : BuiltInRoles]]
             /\ session' \in [Member -> {"none", "open", "revoked"}]
             /\ tx' \in [Handler -> Transactions]
             /\ outdated' \subseteq Member
             /\ vouched' \in [Member -> SUBSET Rights]
             /\ requests' = requests
  <2>1. tx[h] \in Transactions /\ Idle \in Transactions
    BY MembershipAssumption DEF Transactions, Idle
  <2>2. /\ tx[h].target \in Member /\ tx[h].actor \in Member /\ tx[h].rights \in SUBSET Rights
        /\ tx[h].role \in BuiltInRoles \cup {"same"} /\ tx[h].status \in Statuses \cup {"same"}
    BY <2>1 DEF Transactions
  <2>3. tx' = [tx EXCEPT ![h] = Idle] /\ requests' = requests
    BY <1>7 DEF CommitChange, CommitTransfer
  <2>4. session' \in [Member -> {"none", "open", "revoked"}]
    BY <1>7, RevokedType DEF CommitChange, CommitTransfer
  <2>5. CASE CommitChange(h)
    <3>1. After(tx[h]) \in [status : Statuses \cup {"none"}, role : BuiltInRoles]
      BY <2>2 DEF After
    <3>2. membership' = [membership EXCEPT ![tx[h].target] = After(tx[h])]
      BY <2>5 DEF CommitChange
    <3>3. vouched' = vouched \/ vouched' = [vouched EXCEPT ![tx[h].target] = tx[h].rights]
      BY <2>5 DEF CommitChange
    <3>4. outdated' = outdated \/ outdated' = outdated \cup {tx[h].target}
      BY <2>5 DEF CommitChange
    <3>5. vouched' \in [Member -> SUBSET Rights] /\ outdated' \subseteq Member
      BY <2>2, <3>3, <3>4
    <3>6. membership' \in [Member -> [status : Statuses \cup {"none"}, role : BuiltInRoles]]
      BY <3>1, <3>2
    <3> QED
      BY <2>1, <2>3, <2>4, <3>5, <3>6
  <2>6. CASE CommitTransfer(h)
    <3>1. membership' \in [Member -> [status : Statuses \cup {"none"}, role : BuiltInRoles]]
      <4> DEFINE half == [membership EXCEPT ![tx[h].target].role = "owner"]
      <4>1. half \in MembershipTable
        BY <2>2, RoleChanged DEF BuiltInRoles, MembershipTable
      <4>2. membership' = [half EXCEPT ![tx[h].actor].role = "admin"]
        BY <2>6 DEF CommitTransfer
      <4> HIDE DEF half
      <4> QED
        BY <2>2, <4>1, <4>2, RoleChanged DEF BuiltInRoles, MembershipTable
    <3>2. vouched' = [vouched EXCEPT ![tx[h].target] = BuiltIn[membership[tx[h].actor].role]]
          /\ outdated' = outdated \cup {tx[h].target, tx[h].actor}
      BY <2>6 DEF CommitTransfer
    <3>3. BuiltIn[membership[tx[h].actor].role] \subseteq Rights
      BY <2>2 DEF BuiltIn, BuiltInRoles, Rights, MembershipTable
    <3>4. vouched' \in [Member -> SUBSET Rights] /\ outdated' \subseteq Member
      BY <2>2, <3>2, <3>3
    <3> QED
      BY <2>1, <2>3, <2>4, <3>1, <3>4
  <2> QED
    BY <1>7, <2>5, <2>6
<1> QED
  BY <1>5, <1>6, <1>7 DEF Changing, sessions

LEMMA TypeSessions ==
    ASSUME TypeInv, Sessions
    PROVE  TypeInv'
<1> USE DEF TypeInv, TypeOK
<1>1. UNCHANGED <<membership, role, assigned, given, invitation, contexts, tx, assigning, vouched, requests>>
  BY SessionsQuiet DEF access, invites
<1>2. VersionsThere' /\ \A r \in Role : Current(r)' = Current(r)
  BY <1>1 DEF VersionsThere, Current
<1>3. PICK m \in Member :
        \/ LockForSession(m) \/ OpenSession(m) \/ SignIn(m) \/ ClearSession(m)
        \/ \E actor \in Member : RevokeSession(m, actor)
  BY MembershipAssumption DEF Sessions
<1>4. session' \in [Member -> {"none", "open", "revoked"}]
  <2>1. \/ session' = session \/ session' = Revoked(session, {m})
        \/ session' = [session EXCEPT ![m] = "none"]
        \/ session' = [session EXCEPT ![m] = IF @ = "revoked" THEN @ ELSE "open"]
    <3>1. CASE LockForSession(m)
      BY <3>1 DEF LockForSession
    <3>2. CASE OpenSession(m)
      BY <3>2 DEF OpenSession
    <3>3. CASE SignIn(m) \/ ClearSession(m)
      BY <3>3 DEF SignIn, ClearSession
    <3>4. CASE \E actor \in Member : RevokeSession(m, actor)
      BY <3>4 DEF RevokeSession
    <3> QED
      BY <1>3, <3>1, <3>2, <3>3, <3>4
  <2>2. Revoked(session, {m}) \in [Member -> {"none", "open", "revoked"}]
    BY RevokedType
  <2>3. /\ [session EXCEPT ![m] = "none"] \in [Member -> {"none", "open", "revoked"}]
        /\ [session EXCEPT ![m] = IF @ = "revoked" THEN @ ELSE "open"]
             \in [Member -> {"none", "open", "revoked"}]
    OBVIOUS
  <2> QED
    BY <2>1, <2>2, <2>3
<1>5. opening' \subseteq Member /\ outdated' \subseteq Member
  BY <1>3 DEF LockForSession, OpenSession, SignIn, ClearSession, RevokeSession
<1> QED
  BY <1>1, <1>2, <1>4, <1>5

LEMMA TypeInvitations ==
    ASSUME TypeInv, Invitations
    PROVE  TypeInv'
<1> USE DEF TypeInv, TypeOK
<1> DEFINE Kept == [Member -> [status : {"none", "pending", "overdue", "revoked", "accepted"},
                               role : BuiltInRoles, delivery : 0..MaxDeliveries]]
<1>1. UNCHANGED <<role, assigned, given, tx, opening, assigning>>
  BY InvitationsQuiet DEF access
<1>2. VersionsThere' /\ \A r \in Role : Current(r)' = Current(r)
  BY <1>1 DEF VersionsThere, Current
<1>3. SUFFICES /\ membership' \in MembershipTable /\ session' \in [Member -> {"none", "open", "revoked"}]
               /\ invitation' \in Kept /\ contexts' \in [Member -> [1..MaxDeliveries -> 0..MaxContexts]]
               /\ outdated' \subseteq Member
               /\ vouched' \in [Member -> SUBSET Rights] /\ requests' \in 0..MaxRequests
  BY <1>1, <1>2 DEF MembershipTable
<1>4. ASSUME NEW m \in Member, NEW actor \in Member, NEW r \in BuiltInRoles, Deliver(m, r, actor)
      PROVE  /\ invitation' \in Kept /\ vouched' \in [Member -> SUBSET Rights]
             /\ requests' \in 0..MaxRequests /\ UNCHANGED <<membership, contexts, session, outdated>>
  <2>1. Authority(actor) \in SUBSET Rights
    BY AuthorityType
  <2>2. [status |-> "pending", role |-> r, delivery |-> invitation[m].delivery + 1]
          \in [status : {"none", "pending", "overdue", "revoked", "accepted"},
               role : BuiltInRoles, delivery : 0..MaxDeliveries]
    BY <1>4, MembershipAssumption DEF Deliver
  <2>3. requests' \in 0..MaxRequests
    BY <1>4, MembershipAssumption DEF Deliver, Request
  <2>4. invitation' \in Kept
    BY <1>4, <2>2 DEF Deliver
  <2>5. vouched' \in [Member -> SUBSET Rights]
    BY <1>4, <2>1 DEF Deliver
  <2> QED
    BY <1>4, <2>3, <2>4, <2>5 DEF Deliver, sessions
<1>5. ASSUME NEW m \in Member, NEW actor \in Member,
             \/ \E r \in BuiltInRoles : CreateInvitation(actor, m, r)
             \/ ResendInvitation(actor, m)
      PROVE  \E r \in BuiltInRoles : Deliver(m, r, actor)
  BY <1>5 DEF CreateInvitation, ResendInvitation
<1>6. ASSUME NEW m \in Member, NEW status \in {"revoked", "overdue", "accepted"}
      PROVE  [invitation EXCEPT ![m].status = status] \in Kept
  <2>1. [invitation[m] EXCEPT !.status = status]
          \in [status : {"none", "pending", "overdue", "revoked", "accepted"},
               role : BuiltInRoles, delivery : 0..MaxDeliveries]
    OBVIOUS
  <2> QED
    BY <2>1
<1>7. ASSUME NEW m \in Member, NEW d \in 1..MaxDeliveries, NEW n \in 0..MaxContexts
      PROVE  [contexts EXCEPT ![m][d] = n] \in [Member -> [1..MaxDeliveries -> 0..MaxContexts]]
  OBVIOUS
<1>8. ASSUME NEW m \in Member, NEW actor \in Member, RevokeInvitation(actor, m)
      PROVE  /\ invitation' \in Kept /\ requests' \in 0..MaxRequests
             /\ UNCHANGED <<membership, contexts, session, outdated, vouched>>
  <2>1. invitation' = [invitation EXCEPT ![m].status = "revoked"]
    BY <1>8 DEF RevokeInvitation
  <2>2. invitation' \in Kept
    BY <1>6, <2>1
  <2>3. requests' \in 0..MaxRequests
    BY <1>8, MembershipAssumption DEF RevokeInvitation, Request
  <2> QED
    BY <1>8, <2>2, <2>3 DEF RevokeInvitation, sessions
<1>9. ASSUME NEW m \in Member, InvitationLapses(m)
      PROVE  /\ invitation' \in Kept
             /\ UNCHANGED <<membership, contexts, session, outdated, vouched, requests>>
  BY <1>9, <1>6 DEF InvitationLapses, sessions
<1>10. ASSUME NEW m \in Member, NEW d \in 1..MaxDeliveries, CreateContext(m, d)
       PROVE  /\ contexts' \in [Member -> [1..MaxDeliveries -> 0..MaxContexts]]
              /\ UNCHANGED <<membership, invitation, session, outdated, vouched, requests>>
  <2>1. contexts[m][d] + 1 \in 0..MaxContexts
    BY <1>10, MembershipAssumption DEF CreateContext
  <2>2. contexts' \in [Member -> [1..MaxDeliveries -> 0..MaxContexts]]
    BY <1>10, <1>7, <2>1 DEF CreateContext
  <2> QED
    BY <1>10, <2>2 DEF CreateContext, sessions
<1>11. ASSUME NEW m \in Member, NEW d \in 1..MaxDeliveries, AcceptInvitation(m, d)
       PROVE  /\ membership' \in MembershipTable /\ session' \in [Member -> {"none", "open", "revoked"}]
              /\ invitation' \in Kept /\ contexts' \in [Member -> [1..MaxDeliveries -> 0..MaxContexts]]
              /\ outdated' \subseteq Member /\ UNCHANGED <<vouched, requests>>
  <2>1. contexts[m][d] - 1 \in 0..MaxContexts
    BY <1>11, MembershipAssumption DEF AcceptInvitation
  <2>2. contexts' \in [Member -> [1..MaxDeliveries -> 0..MaxContexts]]
    BY <1>11, <1>7, <2>1 DEF AcceptInvitation
  <2>3. [status |-> "active", role |-> invitation[m].role] \in [status : Statuses \cup {"none"}, role : BuiltInRoles]
    BY DEF Statuses
  <2>4. membership' \in MembershipTable
    BY <1>11, <2>3 DEF AcceptInvitation, MembershipTable
  <2> QED
    BY <1>11, <1>6, <2>2, <2>4 DEF AcceptInvitation
<1> QED
  BY <1>4, <1>5, <1>8, <1>9, <1>10, <1>11 DEF Invitations, MembershipTable

RoleTable == [Role -> [status : {"none", "active", "archived"}, grants : Seq(GrantSets)]]

\* A role gets a status and versions that extend those it had.
Extended(r, status, grants) ==
  /\ role' = [role EXCEPT ![r] = [status |-> status, grants |-> grants]]
  /\ status \in {"active", "archived"} /\ grants \in Seq(GrantSets)
  /\ 1 <= Len(grants) /\ Len(grants) <= MaxVersions /\ Current(r) <= Len(grants)
  /\ \A v \in 1..Current(r) : grants[v] = role[r].grants[v]

\* Whatever was read or assigned of the roles is there still.
LEMMA RolesGrow ==
    ASSUME TypeInv, NEW r \in Role, NEW status, NEW grants, Extended(r, status, grants)
    PROVE  /\ role' \in RoleTable
           /\ Current(r)' = Len(grants) /\ role'[r].status = status
           /\ \A q \in Role : /\ Current(q) <= Current(q)' /\ Current(q)' <= MaxVersions
                              /\ IF role'[q].status = "none" THEN Current(q)' = 0
                                 ELSE Current(q)' >= 1
                              /\ \A v \in 1..Current(q) : role'[q].grants[v] = role[q].grants[v]
           /\ \A q \in Role \ {r} : role'[q] = role[q]
<1> DEFINE new == [status |-> status, grants |-> grants]
<1>1. role \in RoleTable /\ \A q \in Role : Current(q) \in Nat /\ Current(q) <= MaxVersions
  BY DEF TypeInv, TypeOK, RoleTable, Current
<1>2. new \in [status : {"none", "active", "archived"}, grants : Seq(GrantSets)]
  BY DEF Extended
<1>3. role' = [role EXCEPT ![r] = new]
  BY DEF Extended
<1>4. role' \in RoleTable
  BY <1>1, <1>2, <1>3 DEF RoleTable
<1>5. role'[r] = new /\ \A q \in Role \ {r} : role'[q] = role[q]
  BY <1>1, <1>3 DEF RoleTable
<1>6. Current(r)' = Len(grants) /\ role'[r].status = status
  BY <1>5 DEF Current
<1>7. /\ Current(r) <= Current(r)' /\ Current(r)' <= MaxVersions /\ Current(r)' >= 1
      /\ \A v \in 1..Current(r) : role'[r].grants[v] = role[r].grants[v]
  BY <1>5, <1>6 DEF Extended
<1>8. ASSUME NEW q \in Role \ {r}
      PROVE  /\ Current(q)' = Current(q)
             /\ IF role'[q].status = "none" THEN Current(q) = 0 ELSE Current(q) >= 1
             /\ \A v \in 1..Current(q) : role'[q].grants[v] = role[q].grants[v]
  BY <1>5 DEF Current, TypeInv, VersionsThere
<1>9. role'[r].status # "none" /\ \A q \in Role : q = r \/ q \in Role \ {r}
  BY <1>6 DEF Extended
<1>10. \A q \in Role : /\ Current(q) <= Current(q)' /\ Current(q)' <= MaxVersions
                       /\ IF role'[q].status = "none" THEN Current(q)' = 0 ELSE Current(q)' >= 1
                       /\ \A v \in 1..Current(q) : role'[q].grants[v] = role[q].grants[v]
  <2>1. SUFFICES ASSUME NEW q \in Role
        PROVE  /\ Current(q) <= Current(q)' /\ Current(q)' <= MaxVersions
               /\ IF role'[q].status = "none" THEN Current(q)' = 0 ELSE Current(q)' >= 1
               /\ \A v \in 1..Current(q) : role'[q].grants[v] = role[q].grants[v]
    OBVIOUS
  <2>2. CASE q = r
    BY <1>7, <1>9, <2>2
  <2>3. CASE q # r
    BY <1>1, <1>8, <2>3
  <2> QED
    BY <2>2, <2>3
<1> QED
  BY <1>4, <1>5, <1>6, <1>10

\* The requests that change a role extend its versions.
LEMMA CreateExtends ==
    ASSUME TypeInv, NEW actor \in Member, NEW r \in Role, NEW rights \in GrantSets,
           CreateRole(actor, r, rights)
    PROVE  Extended(r, "active", <<rights>>)
<1>1. Current(r) = 0
  BY DEF CreateRole, TypeInv, VersionsThere
<1>2. <<rights>> \in Seq(GrantSets) /\ Len(<<rights>>) = 1
  OBVIOUS
<1>3. role' = [role EXCEPT ![r] = [status |-> "active", grants |-> <<rights>>]]
  BY DEF CreateRole
<1> QED
  BY <1>1, <1>2, <1>3, MembershipAssumption DEF Extended

LEMMA UpdateExtends ==
    ASSUME TypeInv, NEW actor \in Member, NEW r \in Role, NEW rights \in GrantSets,
           UpdateRole(actor, r, rights)
    PROVE  Extended(r, "active", Append(role[r].grants, rights))
<1> DEFINE old == role[r].grants
           new == Append(old, rights)
<1>1. role[r] \in [status : {"none", "active", "archived"}, grants : Seq(GrantSets)]
  BY DEF TypeInv, TypeOK
<1>2. old \in Seq(GrantSets) /\ role[r].status = "active" /\ Len(old) < MaxVersions
  BY <1>1 DEF UpdateRole, Current
<1>3. role' = [role EXCEPT ![r].grants = new]
  BY DEF UpdateRole
<1>4. [role[r] EXCEPT !.grants = new] = [status |-> "active", grants |-> new]
  <2> HIDE DEF new
  <2> QED
    BY <1>1, <1>2
<1>5. role' = [role EXCEPT ![r] = [status |-> "active", grants |-> new]]
  BY <1>3, <1>4
<1>6. /\ new \in Seq(GrantSets) /\ Len(new) = Len(old) + 1 /\ Len(old) \in Nat
      /\ \A v \in 1..Len(old) : new[v] = old[v]
  BY <1>2
<1> HIDE DEF new
<1>7. Extended(r, "active", new)
  BY <1>2, <1>5, <1>6, MembershipAssumption DEF Extended, Current
<1> QED
  BY <1>7 DEF new

LEMMA ArchiveExtends ==
    ASSUME TypeInv, NEW actor \in Member, NEW r \in Role, ArchiveRole(actor, r)
    PROVE  Extended(r, "archived", role[r].grants)
<1>1. role[r] \in [status : {"none", "active", "archived"}, grants : Seq(GrantSets)]
  BY DEF TypeInv, TypeOK
<1>2. role' = [role EXCEPT ![r].status = "archived"] /\ role[r].status = "active"
  BY DEF ArchiveRole
<1>3. [role[r] EXCEPT !.status = "archived"] = [status |-> "archived", grants |-> role[r].grants]
  BY <1>1
<1>4. role' = [role EXCEPT ![r] = [status |-> "archived", grants |-> role[r].grants]]
  BY <1>2, <1>3
<1>5. 1 <= Current(r) /\ Current(r) <= MaxVersions
  BY <1>2 DEF TypeInv, TypeOK, VersionsThere
<1> QED
  BY <1>1, <1>4, <1>5 DEF Extended, Current

Extending(actor, r) ==
  \/ \E rights \in GrantSets : CreateRole(actor, r, rights) \/ UpdateRole(actor, r, rights)
  \/ ArchiveRole(actor, r)

LEMMA RequestType ==
    ASSUME TypeInv, Request
    PROVE  requests' \in 0..MaxRequests
  BY MembershipAssumption DEF TypeInv, TypeOK, Request

\* A request that changes a role moves its assignments to the last version, or takes them away.
LEMMA ExtendingEffect ==
    ASSUME TypeInv, NEW actor \in Member, NEW r \in Role, Extending(actor, r)
    PROVE  /\ \E status, grants : Extended(r, status, grants)
           /\ UNCHANGED assigning /\ Request
           /\ session' = session \/ session' = Revoked(session, Holders(r))
           /\ \/ UNCHANGED <<assigned, given>>
              \/ \E n \in {0, Current(r)'} :
                   assigned' = [m \in Member |-> [assigned[m] EXCEPT ![r] = IF @ = 0 THEN 0 ELSE n]]
              \/ assigned' = [m \in Member |-> [assigned[m] EXCEPT ![r] = 0]]
<1>1. CASE \E rights \in GrantSets : CreateRole(actor, r, rights)
  BY <1>1, CreateExtends DEF CreateRole, sessions
<1>2. ASSUME NEW rights \in GrantSets, UpdateRole(actor, r, rights)
      PROVE  /\ \E status, grants : Extended(r, status, grants)
             /\ Current(r)' = Current(r) + 1
             /\ UNCHANGED assigning /\ Request
             /\ session' = Revoked(session, Holders(r))
             /\ assigned' = [m \in Member |-> [assigned[m] EXCEPT ![r] = IF @ = 0 THEN 0 ELSE Current(r) + 1]]
  <2>1. Extended(r, "active", Append(role[r].grants, rights))
    BY <1>2, UpdateExtends
  <2>2. role[r].grants \in Seq(GrantSets)
    BY DEF TypeInv, TypeOK
  <2>3. Current(r)' = Len(Append(role[r].grants, rights))
    BY <2>1, RolesGrow
  <2>4. Current(r)' = Current(r) + 1
    BY <2>2, <2>3 DEF Current
  <2> QED
    BY <1>2, <2>1, <2>4 DEF UpdateRole
<1>3. CASE ArchiveRole(actor, r)
  BY <1>3, ArchiveExtends DEF ArchiveRole
<1> QED
  BY <1>1, <1>2, <1>3 DEF Extending

LEMMA TypeExtending ==
    ASSUME TypeInv, NEW actor \in Member, NEW r \in Role, Extending(actor, r)
    PROVE  /\ role' \in RoleTable /\ assigned' \in [Member -> [Role -> Nat]]
           /\ \A q \in Role : /\ Current(q)' <= MaxVersions
                              /\ \A m \in Member : assigned'[m][q] <= Current(q)'
           /\ VersionsThere'
<1>1. PICK status, grants : Extended(r, status, grants)
  BY ExtendingEffect
<1>2. /\ role' \in RoleTable
      /\ \A q \in Role : /\ Current(q) <= Current(q)' /\ Current(q)' <= MaxVersions
                         /\ IF role'[q].status = "none" THEN Current(q)' = 0 ELSE Current(q)' >= 1
  BY <1>1, RolesGrow
<1>3. \A q \in Role : Current(q) \in Nat /\ Current(q)' \in Nat
  BY <1>2 DEF TypeInv, TypeOK, RoleTable, Current
<1>4. VersionsThere'
  <2>1. assigning' = assigning /\ assigning \subseteq Assignments
    BY ExtendingEffect DEF TypeInv, TypeOK
  <2>2. ASSUME NEW a \in assigning PROVE a.version <= Current(a.role)'
    <3>1. a.role \in Role /\ a.version \in Int /\ a.version <= Current(a.role)
      BY <2>1 DEF Assignments, TypeInv, VersionsThere
    <3> QED
      BY <1>2, <1>3, <3>1
  <2> QED
    BY <1>2, <2>1, <2>2 DEF VersionsThere
<1>5. assigned \in [Member -> [Role -> Nat]] /\ \A m \in Member, q \in Role : assigned[m][q] <= Current(q)
  BY DEF TypeInv, TypeOK
<1>6. \A m \in Member, q \in Role : assigned[m][q] <= Current(q)'
  BY <1>2, <1>3, <1>5
<1>7. CASE assigned' = assigned
  BY <1>2, <1>4, <1>5, <1>6, <1>7
<1>8. ASSUME NEW n \in {0, Current(r)'},
             \/ assigned' = [m \in Member |-> [assigned[m] EXCEPT ![r] = IF @ = 0 THEN 0 ELSE n]]
             \/ assigned' = [m \in Member |-> [assigned[m] EXCEPT ![r] = 0]]
      PROVE  /\ assigned' \in [Member -> [Role -> Nat]]
             /\ \A m \in Member, q \in Role : assigned'[m][q] <= Current(q)'
  <2>1. n \in Nat /\ n <= Current(r)' /\ 0 <= Current(r)'
    BY <1>3, <1>8
  <2>2. assigned' \in [Member -> [Role -> Nat]]
    BY <1>5, <1>8, <2>1
  <2>3. \A m \in Member : assigned'[m][r] \in {0, n} /\ \A q \in Role \ {r} : assigned'[m][q] = assigned[m][q]
    BY <1>5, <1>8
  <2> QED
    BY <1>6, <2>1, <2>2, <2>3
<1> QED
  BY <1>2, <1>4, <1>7, <1>8, ExtendingEffect

\* One entry of a table is set, and the others stay.
LEMMA EntrySet ==
    ASSUME NEW V, NEW f \in [Member -> [Role -> V]], NEW m \in Member, NEW r \in Role, NEW v \in V
    PROVE  /\ [f EXCEPT ![m][r] = v] \in [Member -> [Role -> V]]
           /\ [f EXCEPT ![m][r] = v][m][r] = v
           /\ \A n \in Member, q \in Role :
                <<n, q>> # <<m, r>> => [f EXCEPT ![m][r] = v][n][q] = f[n][q]
  OBVIOUS

\* The type of what an assignment has read, or of one that is made or taken back.
LEMMA TypeAssigning ==
    ASSUME TypeInv, NEW actor \in Member, NEW target \in Member, NEW r \in Role,
           \/ ReadAssignment(actor, target, r)
           \/ UnassignRole(actor, target, r)
           \/ \E a \in assigning : InsertAssignment(a)
    PROVE  /\ UNCHANGED role /\ (requests' = requests \/ Request)
           /\ assigned' \in [Member -> [Role -> Nat]]
           /\ \A m \in Member, q \in Role : assigned'[m][q] <= Current(q)
           /\ assigning' \subseteq Assignments
           /\ \A a \in assigning' : a.version <= Current(a.role)
           /\ given' \in [Member -> [Role -> SUBSET Rights]]
           /\ session' = session \/ \E m \in Member : session' = Revoked(session, {m})
<1>1. /\ assigned \in [Member -> [Role -> Nat]] /\ assigning \subseteq Assignments
      /\ given \in [Member -> [Role -> SUBSET Rights]]
      /\ \A m \in Member, q \in Role : assigned[m][q] <= Current(q)
      /\ \A q \in Role : Current(q) \in Nat /\ Current(q) <= MaxVersions
      /\ \A a \in assigning : a.version <= Current(a.role)
  BY DEF TypeInv, TypeOK, VersionsThere, Current
<1>2. CASE ReadAssignment(actor, target, r)
  <2> DEFINE read == [actor |-> actor, target |-> target, role |-> r, version |-> Current(r),
                      rights |-> Authority(actor)]
  <2>1. Current(r) >= 1
    BY <1>2 DEF ReadAssignment, TypeInv, VersionsThere
  <2>2. Authority(actor) \in SUBSET Rights
    BY AuthorityType DEF TypeInv
  <2>3. read \in Assignments /\ read.version <= Current(read.role)
    BY <1>1, <2>1, <2>2, MembershipAssumption DEF Assignments
  <2>4. assigning' = assigning \cup {read}
    BY <1>2 DEF ReadAssignment
  <2> HIDE DEF read
  <2>5. assigning' \subseteq Assignments /\ \A a \in assigning' : a.version <= Current(a.role)
    BY <1>1, <2>3, <2>4
  <2> QED
    BY <1>1, <1>2, <2>5 DEF ReadAssignment, access, sessions
<1>3. CASE UnassignRole(actor, target, r)
  <2>1. /\ assigned' = [assigned EXCEPT ![target][r] = 0]
        /\ given' = [given EXCEPT ![target][r] = {}]
    BY <1>3 DEF UnassignRole
  <2>2. /\ assigned' \in [Member -> [Role -> Nat]]
        /\ \A m \in Member, q \in Role : assigned'[m][q] = 0 \/ assigned'[m][q] = assigned[m][q]
    BY <1>1, <2>1
  <2>3. \A m \in Member, q \in Role : assigned'[m][q] <= Current(q)
    BY <1>1, <2>2
  <2>4. given' \in [Member -> [Role -> SUBSET Rights]]
    BY <1>1, <2>1
  <2> QED
    BY <1>1, <1>3, <2>2, <2>3, <2>4 DEF UnassignRole
<1>4. ASSUME NEW a \in assigning, InsertAssignment(a)
      PROVE  /\ UNCHANGED role /\ requests' = requests
             /\ assigned' \in [Member -> [Role -> Nat]]
             /\ \A m \in Member, q \in Role : assigned'[m][q] <= Current(q)
             /\ assigning' \subseteq assigning
             /\ given' \in [Member -> [Role -> SUBSET Rights]]
             /\ session' = session \/ \E m \in Member : session' = Revoked(session, {m})
  <2>1. /\ a.target \in Member /\ a.role \in Role /\ a.version \in Nat /\ a.rights \in SUBSET Rights
        /\ a.version <= Current(a.role)
    BY <1>1 DEF Assignments
  <2>2. /\ assigned' = assigned \/ assigned' = [assigned EXCEPT ![a.target][a.role] = a.version]
        /\ given' = given \/ given' = [given EXCEPT ![a.target][a.role] = a.rights]
    BY <1>4 DEF InsertAssignment
  <2>3. /\ assigned' \in [Member -> [Role -> Nat]]
        /\ \A m \in Member, q \in Role :
             assigned'[m][q] = assigned[m][q] \/ (q = a.role /\ assigned'[m][q] = a.version)
    <3>1. CASE assigned' = assigned
      BY <1>1, <3>1
    <3>2. CASE assigned' = [assigned EXCEPT ![a.target][a.role] = a.version]
      <4> DEFINE set == [assigned EXCEPT ![a.target][a.role] = a.version]
      <4>1. /\ set \in [Member -> [Role -> Nat]] /\ set[a.target][a.role] = a.version
            /\ \A n \in Member, q \in Role :
                 <<n, q>> # <<a.target, a.role>> => set[n][q] = assigned[n][q]
        BY <1>1, <2>1, EntrySet
      <4> HIDE DEF set
      <4>2. assigned' = set
        BY <3>2 DEF set
      <4> QED
        BY <4>1, <4>2
    <3> QED
      BY <2>2, <3>1, <3>2
  <2>4. \A m \in Member, q \in Role : assigned'[m][q] <= Current(q)
    BY <1>1, <2>1, <2>3
  <2>5. given' \in [Member -> [Role -> SUBSET Rights]]
    <3>1. [given EXCEPT ![a.target][a.role] = a.rights] \in [Member -> [Role -> SUBSET Rights]]
      <4> HIDE DEF Rights
      <4> QED
        BY EntrySet, <1>1, <2>1
    <3> QED
      BY <1>1, <2>2, <3>1
  <2> QED
    BY <1>4, <2>1, <2>3, <2>4, <2>5 DEF InsertAssignment
<1> QED
  BY <1>1, <1>2, <1>3, <1>4

LEMMA TypeRoles ==
    ASSUME TypeInv, Roles
    PROVE  TypeInv'
<1>1. UNCHANGED <<membership, invitation, contexts, opening, outdated, tx, vouched>>
  BY RolesQuiet DEF invites
<1>2. SUFFICES /\ role' \in RoleTable /\ assigned' \in [Member -> [Role -> Nat]]
               /\ \A r \in Role : /\ Current(r)' <= MaxVersions
                                  /\ \A m \in Member : assigned'[m][r] <= Current(r)'
               /\ session' \in [Member -> {"none", "open", "revoked"}]
               /\ assigning' \subseteq Assignments /\ VersionsThere'
               /\ requests' \in 0..MaxRequests
               /\ given' \in [Member -> [Role -> SUBSET Rights]]
  BY <1>1 DEF TypeInv, TypeOK, RoleTable
<1>3. ASSUME NEW actor \in Member, NEW r \in Role, Extending(actor, r)
      PROVE  given' \in [Member -> [Role -> SUBSET Rights]]
  <2>1. given \in [Member -> [Role -> SUBSET Rights]] /\ Authority(actor) \in SUBSET Rights
    BY AuthorityType DEF TypeInv, TypeOK
  <2>2. CASE \E rights \in GrantSets : CreateRole(actor, r, rights)
    BY <2>1, <2>2 DEF CreateRole
  <2>3. CASE \E rights \in GrantSets : UpdateRole(actor, r, rights)
    <3>1. given' = [m \in Member |-> [given[m] EXCEPT ![r] = IF assigned[m][r] = 0 THEN @
                                                             ELSE Authority(actor)]]
      BY <2>3 DEF UpdateRole
    <3> QED
      BY <2>1, <3>1
  <2>4. CASE ArchiveRole(actor, r)
    <3>1. given' = [m \in Member |-> [given[m] EXCEPT ![r] = {}]]
      BY <2>4 DEF ArchiveRole
    <3> QED
      BY <2>1, <3>1
  <2> QED
    BY <1>3, <2>2, <2>3, <2>4 DEF Extending
<1>4. session \in [Member -> {"none", "open", "revoked"}] /\ requests \in 0..MaxRequests
      /\ assigning \subseteq Assignments
  BY DEF TypeInv, TypeOK
<1>5. CASE \E actor \in Member, r \in Role : Extending(actor, r)
  BY <1>3, <1>4, <1>5, TypeExtending, ExtendingEffect, RequestType, RevokedType
<1>6. CASE \E actor, target \in Member, r \in Role :
             \/ ReadAssignment(actor, target, r) \/ UnassignRole(actor, target, r)
             \/ \E a \in assigning : InsertAssignment(a)
  <2>1. PICK actor \in Member, target \in Member, r \in Role :
             \/ ReadAssignment(actor, target, r) \/ UnassignRole(actor, target, r)
             \/ \E a \in assigning : InsertAssignment(a)
    BY <1>6
  <2>2. /\ UNCHANGED role /\ (requests' = requests \/ Request)
        /\ assigned' \in [Member -> [Role -> Nat]]
        /\ \A m \in Member, q \in Role : assigned'[m][q] <= Current(q)
        /\ assigning' \subseteq Assignments
        /\ \A a \in assigning' : a.version <= Current(a.role)
        /\ given' \in [Member -> [Role -> SUBSET Rights]]
        /\ session' = session \/ \E m \in Member : session' = Revoked(session, {m})
    BY <2>1, TypeAssigning
  <2>3. role' \in RoleTable /\ \A q \in Role : Current(q)' = Current(q) /\ Current(q) <= MaxVersions
    BY <2>2 DEF TypeInv, TypeOK, RoleTable, Current
  <2>4. VersionsThere'
    BY <2>2, <2>3 DEF TypeInv, VersionsThere, Assignments
  <2> QED
    BY <1>4, <2>2, <2>3, <2>4, RequestType, RevokedType
<1>7. ASSUME NEW a \in assigning PROVE a.target \in Member /\ a.role \in Role
  BY <1>4 DEF Assignments
<1> QED
  BY <1>5, <1>6, <1>7 DEF Roles, Extending

LEMMA TypeStep ==
    ASSUME TypeInv, [Next]_vars
    PROVE  TypeInv'
<1>1. CASE UNCHANGED vars
  BY <1>1 DEF vars, TypeInv, TypeOK, VersionsThere, Current
<1> QED
  BY <1>1, TypeChanging, TypeSessions, TypeRoles, TypeInvitations DEF Next

\* Every variable has its type and versions of a role are kept, in every reachable state.
THEOREM TypeCorrect == Spec => []TypeOK
<1>1. Init => TypeInv
  BY TypeInit
<1>2. TypeInv /\ [Next]_vars => TypeInv'
  BY TypeStep
<1>3. TypeInv => TypeOK
  BY DEF TypeInv
<1> QED
  BY <1>1, <1>2, <1>3, PTL DEF Spec

(***************************************************************************)
(* An owner remains                                                         *)
(***************************************************************************)
LEMMA OwnerInit ==
    ASSUME Init PROVE OwnerInv
<1>1. TypeInv
  BY TypeInit
<1>2. AnOwnerRemains
  BY MembershipAssumption DEF Init, AnOwnerRemains, ActiveOwner, Active
<1>3. \A h \in Handler : tx[h].stage = "idle" /\ tx[h].op = "none"
  BY DEF Init, Idle
<1> QED
  BY <1>1, <1>2, <1>3 DEF OwnerInv, OneChange, TargetsExist, StillPermitted, Locked

\* Requests that change neither memberships nor transactions keep the invariant.
LEMMA OwnerQuiet ==
    ASSUME OwnerInv, TypeInv', UNCHANGED <<membership, tx>>
    PROVE  OwnerInv'
<1>1. AnOwnerRemains'
  BY DEF OwnerInv, AnOwnerRemains, ActiveOwner, Active
<1>2. OneChange' /\ TargetsExist'
  BY DEF OwnerInv, OneChange, TargetsExist, Locked
<1>3. StillPermitted'
  BY DEF OwnerInv, StillPermitted, Locked, MayTransfer, OwnerPreserved, After, ActiveOwner, Active
<1> QED
  BY <1>1, <1>2, <1>3 DEF OwnerInv

\* A member who joins is not one a change is about.
LEMMA OwnerInvitations ==
    ASSUME OwnerInv, Invitations, TypeInv'
    PROVE  OwnerInv'
<1>1. tx' = tx
  BY InvitationsQuiet
<1>2. ASSUME NEW m \in Member, NEW d \in 1..MaxDeliveries, AcceptInvitation(m, d)
      PROVE  /\ membership[m].status = "none"
             /\ \A n \in Member \ {m} : membership'[n] = membership[n]
  BY <1>2 DEF AcceptInvitation, OwnerInv, TypeInv, TypeOK
<1>3. ASSUME NEW m \in Member, membership[m].status = "none",
             \A n \in Member \ {m} : membership'[n] = membership[n]
      PROVE  OwnerInv'
  <2>1. \A n \in Member : membership[n].status # "none" => membership'[n] = membership[n]
    BY <1>3
  <2>2. \A n \in Member : ActiveOwner(n) => ActiveOwner(n)'
    BY <2>1 DEF ActiveOwner, Active
  <2>3. \A n \in Member : Active(n) => Active(n)'
    BY <2>1 DEF Active
  <2>4. AnOwnerRemains'
    BY <2>2 DEF OwnerInv, AnOwnerRemains
  <2>5. \A h \in Handler : tx[h].target \in Member /\ tx[h].actor \in Member
                           /\ tx[h].op \in {"none", "change", "status", "transfer"}
    BY DEF OwnerInv, TypeInv, TypeOK, Transactions
  <2>6. OneChange' /\ TargetsExist'
    BY <1>1, <2>1, <2>5 DEF OwnerInv, OneChange, TargetsExist, Locked
  <2>7. ASSUME NEW h \in Handler, Locked(h)
        PROVE  IF tx[h].op = "transfer" THEN MayTransfer(tx[h])' ELSE OwnerPreserved(tx[h])'
    <3>1. CASE tx[h].op = "transfer"
      BY <1>1, <2>2, <2>3, <2>5, <2>7, <3>1 DEF OwnerInv, StillPermitted, MayTransfer
    <3>2. CASE tx[h].op # "transfer"
      <4> DEFINE t == tx[h]
      <4>1. /\ t.target \in Member /\ membership[t.target].status # "none"
            /\ OwnerPreserved(t)
        BY <2>5, <2>7, <3>2 DEF OwnerInv, StillPermitted, TargetsExist, Locked
      <4>2. membership'[t.target] = membership[t.target]
        BY <2>1, <4>1
      <4>3. tx'[h] = t
        BY <1>1
      <4> HIDE DEF t
      <4>4. OwnerPreserved(t)'
        BY <1>1, <2>2, <4>1, <4>2, <4>3 DEF OwnerPreserved, After, ActiveOwner, Active, t
      <4> QED
        BY <3>2, <4>4 DEF t
    <3> QED
      BY <3>1, <3>2
  <2>8. StillPermitted'
    BY <1>1, <2>7 DEF StillPermitted, Locked
  <2> QED
    BY <2>4, <2>6, <2>8 DEF OwnerInv
<1>4. CASE membership' = membership
  BY <1>1, <1>4, OwnerQuiet
<1>5. membership' = membership
      \/ \E m \in Member, d \in 1..MaxDeliveries : AcceptInvitation(m, d)
  BY DEF Invitations, CreateInvitation, ResendInvitation, Deliver, RevokeInvitation,
         InvitationLapses, CreateContext
<1> QED
  BY <1>2, <1>3, <1>4, <1>5

\* A handler gets another transaction: the other handlers keep theirs.
LEMMA OneHandler ==
    ASSUME TypeInv, NEW h \in Handler, NEW t, tx' = [tx EXCEPT ![h] = t]
    PROVE  tx'[h] = t /\ \A g \in Handler \ {h} : tx'[g] = tx[g]
  BY DEF TypeInv, TypeOK

LEMMA OwnerAsk ==
    ASSUME OwnerInv, TypeInv', NEW h \in Handler, NEW t, t.stage = "asked",
           t.op # "transfer" => membership[t.target].status # "none",
           tx' = [tx EXCEPT ![h] = t], UNCHANGED membership
    PROVE  OwnerInv'
<1>1. tx'[h] = t /\ \A g \in Handler \ {h} : tx'[g] = tx[g]
  BY OneHandler DEF OwnerInv
<1>2. \A g \in Handler : Locked(g)' => g # h /\ Locked(g) /\ tx'[g] = tx[g]
  BY <1>1 DEF Locked
<1>3. AnOwnerRemains'
  BY DEF OwnerInv, AnOwnerRemains, ActiveOwner, Active
<1>4. OneChange'
  BY <1>2 DEF OwnerInv, OneChange
<1>5. TargetsExist'
  BY <1>1 DEF OwnerInv, TargetsExist
<1>6. StillPermitted'
  BY <1>2 DEF OwnerInv, StillPermitted, MayTransfer, OwnerPreserved, After, ActiveOwner, Active
<1> QED
  BY <1>3, <1>4, <1>5, <1>6 DEF OwnerInv

\* The check is made under the lock, when no other change can come between.
LEMMA OwnerLock ==
    ASSUME OwnerInv, TypeInv', NEW h \in Handler, LockMembership(h)
    PROVE  OwnerInv'
<1> DEFINE t == tx[h]
           new == IF Permitted(t)
                  THEN [t EXCEPT !.stage = "locked",
                          !.rights = IF t.role = "same" THEN {} ELSE Authority(t.actor)]
                  ELSE Idle
<1>1. tx' = [tx EXCEPT ![h] = new]
  BY DEF LockMembership
<1>2. t \in Transactions
  BY DEF OwnerInv, TypeInv, TypeOK
<1>3. IF Permitted(t)
      THEN /\ new.op = t.op /\ new.actor = t.actor /\ new.target = t.target
           /\ new.role = t.role /\ new.status = t.status /\ new.stage = "locked"
      ELSE new.stage = "idle"
  BY <1>2 DEF Transactions, Idle
<1> HIDE DEF new
<1>4. tx'[h] = new /\ \A g \in Handler \ {h} : tx'[g] = tx[g]
  BY <1>1, OneHandler DEF OwnerInv
<1>5. membership' = membership /\ t.stage = "asked" /\ \A g \in Handler : ~Locked(g)
  BY DEF LockMembership, AdvisoryFree, Locked
<1>6. \A g \in Handler : Locked(g)' => g = h
  BY <1>4, <1>5 DEF Locked
<1>7. AnOwnerRemains' /\ OneChange'
  BY <1>5, <1>6 DEF OwnerInv, AnOwnerRemains, ActiveOwner, Active, OneChange
<1>8. TargetsExist'
  BY <1>3, <1>4, <1>5 DEF OwnerInv, TargetsExist
<1>9. ASSUME Locked(h)'
      PROVE  IF tx'[h].op = "transfer" THEN MayTransfer(tx[h])' ELSE OwnerPreserved(tx[h])'
  <2>1. /\ Permitted(t) /\ tx'[h].op = t.op /\ tx'[h].actor = t.actor
        /\ tx'[h].target = t.target /\ tx'[h].role = t.role /\ tx'[h].status = t.status
    BY <1>3, <1>4, <1>9 DEF Locked
  <2>2. CASE t.op = "transfer"
    BY <1>5, <2>1, <2>2 DEF Permitted, MayTransfer, ActiveOwner, Active
  <2>3. CASE t.op # "transfer"
    BY <1>5, <2>1, <2>3 DEF Permitted, MayChange, OwnerPreserved, After, ActiveOwner, Active
  <2> QED
    BY <2>1, <2>2, <2>3
<1>10. StillPermitted'
  BY <1>4, <1>6, <1>9 DEF StillPermitted
<1> QED
  BY <1>7, <1>8, <1>10 DEF OwnerInv

LEMMA OwnerCommitChange ==
    ASSUME OwnerInv, TypeInv', NEW h \in Handler, CommitChange(h)
    PROVE  OwnerInv'
<1> DEFINE t == tx[h]
<1>1. t \in Transactions /\ t.stage = "locked" /\ t.op # "transfer"
  BY DEF OwnerInv, TypeInv, TypeOK, CommitChange
<1>2. /\ membership' = [membership EXCEPT ![t.target] = After(t)]
      /\ tx' = [tx EXCEPT ![h] = Idle]
  BY DEF CommitChange
<1>3. /\ tx'[h] = Idle /\ \A g \in Handler \ {h} : tx'[g] = tx[g]
      /\ \A g \in Handler : ~Locked(g)' /\ (g # h => ~Locked(g))
  <2>1. tx'[h] = Idle /\ \A g \in Handler \ {h} : tx'[g] = tx[g]
    BY <1>2, OneHandler DEF OwnerInv
  <2>2. \A g \in Handler : g # h => ~Locked(g)
    BY <1>1 DEF OwnerInv, OneChange, Locked
  <2> QED
    BY <2>1, <2>2 DEF Locked, Idle
<1>4. t.target \in Member /\ t.status \in Statuses \cup {"same"} /\ membership[t.target].status # "none"
  BY <1>1 DEF Transactions, OwnerInv, TargetsExist
<1>5. membership'[t.target] = After(t) /\ \A m \in Member \ {t.target} : membership'[m] = membership[m]
  BY <1>2, <1>4 DEF OwnerInv, TypeInv, TypeOK
<1>6. AnOwnerRemains'
  <2>1. OwnerPreserved(t)
    BY <1>1 DEF OwnerInv, StillPermitted, Locked
  <2>2. PICK m \in Member : ActiveOwner(m)
    BY DEF OwnerInv, AnOwnerRemains
  <2>3. CASE m # t.target
    BY <1>5, <2>2, <2>3 DEF AnOwnerRemains, ActiveOwner, Active
  <2>4. CASE m = t.target
    BY <1>4, <1>5, <2>1, <2>2, <2>4 DEF OwnerPreserved, AnOwnerRemains, ActiveOwner, Active
  <2> QED
    BY <2>3, <2>4
<1>7. After(t).status # "none"
  BY <1>4 DEF After, Statuses
<1>8. \A m \in Member : membership[m].status # "none" => membership'[m].status # "none"
  BY <1>5, <1>7
<1>9. \A g \in Handler : tx[g].target \in Member
  BY DEF OwnerInv, TypeInv, TypeOK, Transactions
<1>10. TargetsExist'
  <2>1. Idle.stage = "idle"
    BY DEF Idle
  <2> QED
    BY <1>3, <1>8, <1>9, <2>1 DEF OwnerInv, TargetsExist
<1>11. OneChange' /\ StillPermitted'
  BY <1>3 DEF OneChange, StillPermitted
<1> QED
  BY <1>6, <1>10, <1>11 DEF OwnerInv

LEMMA OwnerCommitTransfer ==
    ASSUME OwnerInv, TypeInv', NEW h \in Handler, CommitTransfer(h)
    PROVE  OwnerInv'
<1> DEFINE t == tx[h]
           half == [membership EXCEPT ![t.target].role = "owner"]
<1>1. /\ t \in Transactions /\ t.stage = "locked" /\ t.op = "transfer"
      /\ membership \in MembershipTable
  BY DEF OwnerInv, TypeInv, TypeOK, CommitTransfer, MembershipTable
<1>2. /\ membership' = [half EXCEPT ![t.actor].role = "admin"]
      /\ tx' = [tx EXCEPT ![h] = Idle]
  BY DEF CommitTransfer
<1>3. /\ tx'[h] = Idle /\ \A g \in Handler \ {h} : tx'[g] = tx[g]
      /\ \A g \in Handler : ~Locked(g)' /\ (g # h => ~Locked(g))
  <2>1. tx'[h] = Idle /\ \A g \in Handler \ {h} : tx'[g] = tx[g]
    BY <1>2, OneHandler DEF OwnerInv
  <2>2. \A g \in Handler : g # h => ~Locked(g)
    BY <1>1 DEF OwnerInv, OneChange, Locked
  <2> QED
    BY <2>1, <2>2 DEF Locked, Idle
<1>4. t.target \in Member /\ t.actor \in Member /\ MayTransfer(t)
  BY <1>1 DEF Transactions, OwnerInv, StillPermitted, Locked
<1>5. /\ half \in MembershipTable
      /\ half[t.target] = [status |-> membership[t.target].status, role |-> "owner"]
      /\ \A n \in Member \ {t.target} : half[n] = membership[n]
  BY <1>1, <1>4, RoleChanged DEF BuiltInRoles
<1> HIDE DEF half
<1>6. /\ membership'[t.actor] = [status |-> half[t.actor].status, role |-> "admin"]
      /\ \A n \in Member \ {t.actor} : membership'[n] = half[n]
  <2> DEFINE whole == [half EXCEPT ![t.actor].role = "admin"]
  <2>1. /\ whole[t.actor] = [status |-> half[t.actor].status, role |-> "admin"]
        /\ \A n \in Member \ {t.actor} : whole[n] = half[n]
    BY <1>4, <1>5, RoleChanged DEF BuiltInRoles
  <2>2. membership' = whole
    BY <1>2
  <2> HIDE DEF whole
  <2> QED
    BY <2>1, <2>2
<1>7. AnOwnerRemains'
  BY <1>4, <1>5, <1>6 DEF AnOwnerRemains, MayTransfer, ActiveOwner, Active
<1>8. \A m \in Member : membership'[m].status = membership[m].status
  BY <1>4, <1>5, <1>6
<1>9. \A g \in Handler : tx[g].target \in Member
  BY DEF OwnerInv, TypeInv, TypeOK, Transactions
<1>10. TargetsExist'
  <2>1. Idle.stage = "idle"
    BY DEF Idle
  <2> QED
    BY <1>3, <1>8, <1>9, <2>1 DEF OwnerInv, TargetsExist
<1>11. OneChange' /\ StillPermitted'
  BY <1>3 DEF OneChange, StillPermitted
<1> QED
  BY <1>7, <1>10, <1>11 DEF OwnerInv

LEMMA OwnerChanging ==
    ASSUME OwnerInv, TypeInv', Changing
    PROVE  OwnerInv'
<1>1. ASSUME NEW h \in Handler, NEW op, NEW actor \in Member, NEW target \in Member,
             NEW newRole, NEW newStatus, Ask(h, op, actor, target, newRole, newStatus),
             op # "transfer" => membership[target].status # "none"
      PROVE  OwnerInv'
  <2> DEFINE t == [op |-> op, stage |-> "asked", actor |-> actor, target |-> target,
                   role |-> newRole, status |-> newStatus, rights |-> {}]
  <2>1. t.stage = "asked" /\ t.op = op /\ t.target = target
    OBVIOUS
  <2>2. tx' = [tx EXCEPT ![h] = t] /\ UNCHANGED membership
    BY <1>1 DEF Ask
  <2> HIDE DEF t
  <2> QED
    BY <1>1, <2>1, <2>2, OwnerAsk
<1>2. ASSUME NEW h \in Handler, NEW actor \in Member, NEW target \in Member,
             \/ \E change \in Changes : AskChange(h, actor, target, change)
             \/ \E newStatus \in {"active", "suspended"} : AskStatus(h, actor, target, newStatus)
             \/ AskTransfer(h, actor, target)
      PROVE  OwnerInv'
  BY <1>1, <1>2 DEF AskChange, AskStatus, AskTransfer
<1> QED
  BY <1>2, OwnerLock, OwnerCommitChange, OwnerCommitTransfer DEF Changing

LEMMA OwnerStep ==
    ASSUME OwnerInv, [Next]_vars
    PROVE  OwnerInv'
<1>1. TypeInv'
  BY TypeStep DEF OwnerInv
<1>2. CASE UNCHANGED vars
  BY <1>1, <1>2, OwnerQuiet DEF vars
<1>3. CASE Sessions
  BY <1>1, <1>3, SessionsQuiet, OwnerQuiet
<1>4. CASE Roles
  BY <1>1, <1>4, RolesQuiet, OwnerQuiet
<1> QED
  BY <1>1, <1>2, <1>3, <1>4, OwnerChanging, OwnerInvitations DEF Next

\* However many change memberships at once, the organization keeps an active owner: a change is
\* checked under the lock that lets one of them through at a time.
THEOREM OwnerRemains == Spec => []AnOwnerRemains
<1>1. Init => OwnerInv
  BY OwnerInit
<1>2. OwnerInv /\ [Next]_vars => OwnerInv'
  BY OwnerStep
<1>3. OwnerInv => AnOwnerRemains
  BY DEF OwnerInv
<1> QED
  BY <1>1, <1>2, <1>3, PTL DEF Spec

(***************************************************************************)
(* Sessions end with access                                                 *)
(***************************************************************************)
LEMMA SessionInit ==
    ASSUME Init PROVE SessionInv
<1>1. \A h \in Handler : tx[h].stage = "idle"
  BY DEF Init, Idle
<1> QED
  BY <1>1, TypeInit DEF Init, SessionInv, SessionsEndWithAccess, RowsHeld, Locked

\* A step that opens no session, takes no lock and ends what it outdates keeps the invariant.
LEMMA SessionQuiet ==
    ASSUME SessionInv, TypeInv', tx' = tx, opening' = opening,
           \A m \in Member : session'[m] = "open" => session[m] = "open",
           outdated' = outdated
    PROVE  SessionInv'
<1>1. SessionsEndWithAccess' /\ (opening \cap outdated = {})'
  BY DEF SessionInv, SessionsEndWithAccess
<1>2. RowsHeld'
  BY DEF SessionInv, RowsHeld, Locked, Rows
<1> QED
  BY <1>1, <1>2 DEF SessionInv

LEMMA RevokedOpens ==
    ASSUME NEW S, NEW m \in Member, Revoked(session, S)[m] = "open"
    PROVE  session[m] = "open" /\ m \notin S
  BY DEF Revoked

LEMMA SessionRoles ==
    ASSUME SessionInv, TypeInv', Roles
    PROVE  SessionInv'
<1>1. UNCHANGED <<opening, outdated, tx>>
  BY RolesQuiet
<1>2. session' = session \/ \E S \in SUBSET Member : session' = Revoked(session, S)
  <2>1. ASSUME NEW actor \in Member, NEW r \in Role, Extending(actor, r)
        PROVE  session' = session \/ session' = Revoked(session, Holders(r))
    BY <2>1, ExtendingEffect DEF SessionInv
  <2>2. \A r : Holders(r) \in SUBSET Member
    BY DEF Holders
  <2>3. ASSUME NEW actor \in Member, NEW target \in Member, NEW r \in Role,
               \/ ReadAssignment(actor, target, r) \/ UnassignRole(actor, target, r)
               \/ \E a \in assigning : InsertAssignment(a)
        PROVE  session' = session \/ \E m \in Member : session' = Revoked(session, {m})
    BY <2>3, TypeAssigning DEF SessionInv
  <2>4. \A a \in assigning : a.target \in Member /\ a.role \in Role
    BY DEF SessionInv, TypeInv, TypeOK, Assignments
  <2>5. \A m \in Member : {m} \in SUBSET Member
    OBVIOUS
  <2> QED
    BY <2>1, <2>2, <2>3, <2>4, <2>5 DEF Roles, Extending
<1>3. \A m \in Member : session'[m] = "open" => session[m] = "open"
  BY <1>2, RevokedOpens
<1> QED
  BY <1>1, <1>3, SessionQuiet

LEMMA SessionInvitations ==
    ASSUME SessionInv, TypeInv', Invitations
    PROVE  SessionInv'
<1>1. tx' = tx /\ opening' = opening
  BY InvitationsQuiet
<1>2. CASE UNCHANGED <<session, outdated>>
  BY <1>1, <1>2, SessionQuiet
<1>3. ASSUME NEW m \in Member, NEW d \in 1..MaxDeliveries, AcceptInvitation(m, d)
      PROVE  SessionInv'
  <2>1. /\ session' = [session EXCEPT ![m] = "open"] /\ outdated' = outdated \ {m}
    BY <1>3 DEF AcceptInvitation
  <2>2. SessionsEndWithAccess' /\ (opening \cap outdated = {})'
    BY <1>1, <2>1 DEF SessionInv, SessionsEndWithAccess, TypeInv, TypeOK
  <2>3. RowsHeld'
    BY <1>1 DEF SessionInv, RowsHeld, Locked, Rows
  <2> QED
    BY <2>2, <2>3 DEF SessionInv
<1>4. UNCHANGED <<session, outdated>>
      \/ \E m \in Member, d \in 1..MaxDeliveries : AcceptInvitation(m, d)
  BY DEF Invitations, CreateInvitation, ResendInvitation, Deliver, RevokeInvitation,
         InvitationLapses, CreateContext, sessions
<1> QED
  BY <1>2, <1>3, <1>4

\* A membership whose row is held by a change gets no session begun meanwhile.
LEMMA SessionSessions ==
    ASSUME SessionInv, TypeInv', Sessions
    PROVE  SessionInv'
<1>1. tx' = tx
  BY SessionsQuiet
<1>2. PICK m \in Member :
        \/ LockForSession(m) \/ OpenSession(m) \/ SignIn(m) \/ ClearSession(m)
        \/ \E actor \in Member : RevokeSession(m, actor)
  BY MembershipAssumption DEF Sessions
<1>3. CASE LockForSession(m)
  <2>1. /\ opening' = opening \cup {m} /\ outdated' = outdated \ {m} /\ session' = session
        /\ \A h \in Handler : Locked(h) => m \notin Rows(tx[h])
    BY <1>3 DEF LockForSession, RowFree, Locked
  <2>2. SessionsEndWithAccess' /\ (opening \cap outdated = {})'
    BY <2>1 DEF SessionInv, SessionsEndWithAccess
  <2>3. RowsHeld'
    BY <1>1, <2>1 DEF SessionInv, RowsHeld, Locked, Rows
  <2> QED
    BY <2>2, <2>3 DEF SessionInv
<1>4. CASE OpenSession(m)
  <2>1. /\ m \in opening /\ opening' = opening \ {m} /\ outdated' = outdated
        /\ session' = [session EXCEPT ![m] = IF @ = "revoked" THEN @ ELSE "open"]
    BY <1>4 DEF OpenSession
  <2>2. SessionsEndWithAccess' /\ (opening \cap outdated = {})'
    BY <2>1 DEF SessionInv, SessionsEndWithAccess, TypeInv, TypeOK
  <2>3. RowsHeld'
    BY <1>1, <2>1 DEF SessionInv, RowsHeld, Locked, Rows
  <2> QED
    BY <2>2, <2>3 DEF SessionInv
<1>5. CASE SignIn(m) \/ ClearSession(m)
  <2>1. UNCHANGED <<opening, outdated>> /\ session' = [session EXCEPT ![m] = "none"]
    BY <1>5 DEF SignIn, ClearSession
  <2>2. \A n \in Member : session'[n] = "open" => session[n] = "open"
    BY <2>1 DEF SessionInv, TypeInv, TypeOK
  <2> QED
    BY <1>1, <2>1, <2>2, SessionQuiet
<1>6. CASE \E actor \in Member : RevokeSession(m, actor)
  <2>1. UNCHANGED <<opening, outdated>> /\ session' = Revoked(session, {m})
    BY <1>6 DEF RevokeSession
  <2> QED
    BY <1>1, <2>1, RevokedOpens, SessionQuiet
<1> QED
  BY <1>2, <1>3, <1>4, <1>5, <1>6

\* A change that outdates members in no session's way revokes the sessions they have.
LEMMA SessionEnds ==
    ASSUME SessionInv, TypeInv', NEW h \in Handler, NEW t, tx' = [tx EXCEPT ![h] = t],
           t.stage = "locked" => Rows(t) \cap opening = {},
           opening' = opening,
           NEW S, S \cap opening = {}, outdated' = outdated \cup S,
           (session' = session /\ S = {}) \/ session' = Revoked(session, S)
    PROVE  SessionInv'
<1>1. RowsHeld'
  <2>1. tx'[h] = t /\ \A g \in Handler \ {h} : tx'[g] = tx[g]
    BY OneHandler DEF SessionInv
  <2> QED
    BY <2>1 DEF SessionInv, RowsHeld, Locked, Rows
<1>2. \A m \in Member : session'[m] = "open" => session[m] = "open" /\ m \notin S
  BY RevokedOpens
<1>3. SessionsEndWithAccess' /\ (opening \cap outdated = {})'
  BY <1>2 DEF SessionInv, SessionsEndWithAccess
<1> QED
  BY <1>1, <1>3 DEF SessionInv

LEMMA SessionChanging ==
    ASSUME SessionInv, TypeInv', Changing
    PROVE  SessionInv'
<1>1. opening' = opening
  BY ChangingQuiet
<1>2. ASSUME NEW h \in Handler, NEW op, NEW actor \in Member, NEW target \in Member,
             NEW newRole, NEW newStatus, Ask(h, op, actor, target, newRole, newStatus)
      PROVE  SessionInv'
  <2> DEFINE t == [op |-> op, stage |-> "asked", actor |-> actor, target |-> target,
                   role |-> newRole, status |-> newStatus, rights |-> {}]
  <2>1. t.stage # "locked"
    OBVIOUS
  <2>2. tx' = [tx EXCEPT ![h] = t] /\ UNCHANGED <<session, outdated>>
    BY <1>2 DEF Ask, sessions
  <2> HIDE DEF t
  <2>3. {} \cap opening = {} /\ outdated' = outdated \cup {} /\ session' = session
    BY <2>2
  <2> QED
    BY <1>1, <2>1, <2>2, <2>3, SessionEnds
<1>3. ASSUME NEW h \in Handler, NEW actor \in Member, NEW target \in Member,
             \/ \E change \in Changes : AskChange(h, actor, target, change)
             \/ \E newStatus \in {"active", "suspended"} : AskStatus(h, actor, target, newStatus)
             \/ AskTransfer(h, actor, target)
      PROVE  SessionInv'
  BY <1>2, <1>3 DEF AskChange, AskStatus, AskTransfer
<1>4. ASSUME NEW h \in Handler, LockMembership(h)
      PROVE  SessionInv'
  <2> DEFINE t == tx[h]
             new == IF Permitted(t)
                    THEN [t EXCEPT !.stage = "locked",
                            !.rights = IF t.role = "same" THEN {} ELSE Authority(t.actor)]
                    ELSE Idle
  <2>1. t \in Transactions
    BY DEF SessionInv, TypeInv, TypeOK
  <2>2. new.stage = "locked" => new.op = t.op /\ new.actor = t.actor /\ new.target = t.target
    BY <2>1 DEF Transactions, Idle
  <2>3. Rows(t) \cap opening = {}
    BY <1>4 DEF LockMembership, RowFree
  <2>4. new.stage = "locked" => Rows(new) = Rows(t)
    BY <2>2 DEF Rows
  <2>5. tx' = [tx EXCEPT ![h] = new] /\ UNCHANGED <<session, outdated>>
    BY <1>4 DEF LockMembership, sessions
  <2> HIDE DEF new
  <2>6. {} \cap opening = {} /\ outdated' = outdated \cup {} /\ session' = session
    BY <2>5
  <2> QED
    BY <1>1, <2>3, <2>4, <2>5, <2>6, SessionEnds
<1>5. ASSUME NEW h \in Handler, CommitChange(h) \/ CommitTransfer(h)
      PROVE  SessionInv'
  <2>1. tx' = [tx EXCEPT ![h] = Idle] /\ Idle.stage # "locked"
    BY <1>5 DEF CommitChange, CommitTransfer, Idle
  <2>2. Rows(tx[h]) \cap opening = {}
    BY <1>5 DEF CommitChange, CommitTransfer, SessionInv, RowsHeld, Locked
  <2>3. \E S : /\ S \subseteq Rows(tx[h]) /\ outdated' = outdated \cup S
               /\ (session' = session /\ S = {}) \/ session' = Revoked(session, S)
    <3>1. CASE CommitTransfer(h)
      <4>1. Rows(tx[h]) = {tx[h].target, tx[h].actor}
        BY <3>1 DEF CommitTransfer, Rows
      <4>2. /\ outdated' = outdated \cup {tx[h].target, tx[h].actor}
            /\ session' = Revoked(session, {tx[h].target, tx[h].actor})
        BY <3>1 DEF CommitTransfer
      <4> QED
        BY <4>1, <4>2
    <3>2. CASE CommitChange(h)
      <4>1. Rows(tx[h]) = {tx[h].target}
        BY <3>2 DEF CommitChange, Rows
      <4>2. \/ outdated' = outdated /\ session' = session
            \/ /\ outdated' = outdated \cup {tx[h].target}
               /\ session' = Revoked(session, {tx[h].target})
        BY <3>2 DEF CommitChange
      <4>3. outdated = outdated \cup {} /\ {} \subseteq Rows(tx[h])
        OBVIOUS
      <4> QED
        BY <4>1, <4>2, <4>3
    <3> QED
      BY <1>5, <3>1, <3>2
  <2>4. PICK S : /\ S \subseteq Rows(tx[h]) /\ outdated' = outdated \cup S
                 /\ (session' = session /\ S = {}) \/ session' = Revoked(session, S)
    BY <2>3
  <2>5. S \cap opening = {}
    BY <2>2, <2>4
  <2> QED
    BY <1>1, <2>1, <2>4, <2>5, SessionEnds
<1> QED
  BY <1>3, <1>4, <1>5 DEF Changing

LEMMA SessionStep ==
    ASSUME SessionInv, [Next]_vars
    PROVE  SessionInv'
<1>1. TypeInv'
  BY TypeStep DEF SessionInv
<1>2. CASE UNCHANGED vars
  BY <1>1, <1>2, SessionQuiet DEF vars
<1> QED
  BY <1>1, <1>2, SessionChanging, SessionSessions, SessionRoles, SessionInvitations DEF Next

\* No session outlives a suspension, a removal or a change of the protected role: the row that
\* selecting an organization locks is one a change holds from its check to its commit.
THEOREM SessionsEnd == Spec => []SessionsEndWithAccess
<1>1. Init => SessionInv
  BY SessionInit
<1>2. SessionInv /\ [Next]_vars => SessionInv'
  BY SessionStep
<1>3. SessionInv => SessionsEndWithAccess
  BY DEF SessionInv
<1> QED
  BY <1>1, <1>2, <1>3, PTL DEF Spec

(***************************************************************************)
(* Nobody gives more than they have                                         *)
(***************************************************************************)
\* The two parts of NothingBeyondDelegation: protected roles, and roles of the organization.
MembersVouched ==
  \A m \in Member : membership[m].status # "none" => BuiltIn[membership[m].role] \subseteq vouched[m]
RolesVouched ==
  \A m \in Member : \A r \in Assigned(m) : role[r].grants[assigned[m][r]] \subseteq given[m][r]

LEMMA Parts ==
    NothingBeyondDelegation <=> MembersVouched /\ RolesVouched
  BY DEF NothingBeyondDelegation, MembersVouched, RolesVouched

LEMMA PartsNext ==
    NothingBeyondDelegation' <=> MembersVouched' /\ RolesVouched'
  BY DEF NothingBeyondDelegation, MembersVouched, RolesVouched

LEMMA DelegationInit ==
    ASSUME Init PROVE DelegationInv
<1>1. OwnerInv
  BY OwnerInit
<1>2. MembersVouched
  BY DEF Init, MembersVouched, BuiltIn
<1>3. \A m \in Member : Assigned(m) = {}
  BY DEF Init, Assigned
<1>4. RolesVouched /\ InvitationsVouched /\ AssignmentsVouched
  BY <1>3 DEF Init, RolesVouched, InvitationsVouched, Asked, AssignmentsVouched
<1>5. ChangesVouched
  BY DEF Init, Idle, ChangesVouched, Locked
<1> QED
  BY <1>1, <1>2, <1>4, <1>5, Parts DEF DelegationInv

\* Who may use a right at all and may delegate a protected role has all that it gives.
LEMMA DelegatesBuiltIn ==
    ASSUME NEW m \in Member, NEW right, Allows(m, right), NEW r \in BuiltInRoles,
           CanDelegateBuiltIn(m, r)
    PROVE  BuiltIn[r] \subseteq Authority(m)
<1>1. CASE r # "owner"
  BY <1>1 DEF CanDelegateBuiltIn, CanDelegate
<1>2. CASE r = "owner"
  BY <1>2 DEF CanDelegateBuiltIn, Allows, Authority
<1> QED
  BY <1>1, <1>2

LEMMA DelegationSessions ==
    ASSUME DelegationInv, OwnerInv', Sessions \/ UNCHANGED vars
    PROVE  DelegationInv'
<1>1. UNCHANGED <<membership, role, assigned, given, invitation, contexts, tx, assigning, vouched>>
  BY SessionsQuiet DEF vars, access, invites
<1>2. NothingBeyondDelegation'
  BY <1>1 DEF DelegationInv, NothingBeyondDelegation, Assigned
<1>3. InvitationsVouched' /\ AssignmentsVouched' /\ ChangesVouched'
  BY <1>1 DEF DelegationInv, InvitationsVouched, Asked, AssignmentsVouched, ChangesVouched, Locked
<1> QED
  BY <1>2, <1>3 DEF DelegationInv

\* An invitation gives what the one who sent the last message had.
LEMMA DelegationInvitations ==
    ASSUME DelegationInv, OwnerInv', Invitations
    PROVE  DelegationInv'
<1>1. UNCHANGED <<role, assigned, given, tx, assigning>>
  BY InvitationsQuiet DEF access
<1>2. RolesVouched' /\ AssignmentsVouched' /\ ChangesVouched'
  BY <1>1, Parts DEF DelegationInv, RolesVouched, Assigned, AssignmentsVouched, ChangesVouched, Locked
<1>3. SUFFICES MembersVouched' /\ InvitationsVouched'
  BY <1>2, PartsNext DEF DelegationInv
<1>4. MembersVouched /\ InvitationsVouched
  BY Parts DEF DelegationInv
<1>5. /\ membership \in MembershipTable /\ vouched \in [Member -> SUBSET Rights]
      /\ invitation \in [Member -> [status : {"none", "pending", "overdue", "revoked", "accepted"},
                                    role : BuiltInRoles, delivery : 0..MaxDeliveries]]
  BY DEF DelegationInv, OwnerInv, TypeInv, TypeOK, MembershipTable
<1>6. ASSUME NEW m \in Member, NEW actor \in Member, NEW r \in BuiltInRoles,
             MayInvite(actor, r), membership[m].status = "none", Deliver(m, r, actor)
      PROVE  MembersVouched' /\ InvitationsVouched'
  <2>1. /\ membership' = membership
        /\ invitation' = [invitation EXCEPT ![m] = [status |-> "pending", role |-> r,
                                                    delivery |-> @.delivery + 1]]
        /\ vouched' = [vouched EXCEPT ![m] = Authority(actor)]
    BY <1>6 DEF Deliver
  <2>2. BuiltIn[r] \subseteq Authority(actor)
    BY <1>6, DelegatesBuiltIn DEF MayInvite
  <2>3. /\ invitation'[m].role = r /\ vouched'[m] = Authority(actor)
        /\ \A n \in Member \ {m} : invitation'[n] = invitation[n] /\ vouched'[n] = vouched[n]
    BY <1>5, <2>1
  <2>4. MembersVouched'
    BY <1>4, <1>6, <2>1, <2>3 DEF MembersVouched
  <2>5. InvitationsVouched'
    BY <1>4, <1>6, <2>1, <2>2, <2>3 DEF InvitationsVouched, Asked
  <2> QED
    BY <2>4, <2>5
<1>7. ASSUME NEW m \in Member, NEW actor \in Member,
             \/ \E r \in BuiltInRoles : CreateInvitation(actor, m, r)
             \/ ResendInvitation(actor, m)
      PROVE  MembersVouched' /\ InvitationsVouched'
  <2>1. CASE \E r \in BuiltInRoles : CreateInvitation(actor, m, r)
    BY <1>6, <2>1 DEF CreateInvitation
  <2>2. CASE ResendInvitation(actor, m)
    BY <1>4, <1>5, <1>6, <2>2 DEF ResendInvitation, InvitationsVouched, Asked
  <2> QED
    BY <1>7, <2>1, <2>2
<1>8. ASSUME NEW m \in Member, NEW status \in {"revoked", "overdue"},
             invitation' = [invitation EXCEPT ![m].status = status], Asked(m),
             UNCHANGED <<membership, vouched>>
      PROVE  MembersVouched' /\ InvitationsVouched'
  <2>1. [invitation[m] EXCEPT !.status = status].role = invitation[m].role
    BY <1>5
  <2>2. /\ invitation'[m].role = invitation[m].role
        /\ \A n \in Member \ {m} : invitation'[n] = invitation[n]
    BY <1>5, <1>8, <2>1
  <2> QED
    BY <1>4, <1>8, <2>2 DEF MembersVouched, InvitationsVouched, Asked
<1>9. ASSUME NEW m \in Member, NEW actor \in Member, RevokeInvitation(actor, m)
      PROVE  MembersVouched' /\ InvitationsVouched'
  BY <1>8, <1>9 DEF RevokeInvitation, Asked
<1>10. ASSUME NEW m \in Member, InvitationLapses(m)
       PROVE  MembersVouched' /\ InvitationsVouched'
  BY <1>8, <1>10 DEF InvitationLapses, Asked
<1>11. ASSUME NEW m \in Member, NEW d \in 1..MaxDeliveries, CreateContext(m, d)
       PROVE  MembersVouched' /\ InvitationsVouched'
  BY <1>4, <1>11 DEF CreateContext, MembersVouched, InvitationsVouched, Asked
<1>12. ASSUME NEW m \in Member, NEW d \in 1..MaxDeliveries, AcceptInvitation(m, d)
       PROVE  MembersVouched' /\ InvitationsVouched'
  <2>1. /\ membership' = [membership EXCEPT ![m] = [status |-> "active", role |-> invitation[m].role]]
        /\ invitation' = [invitation EXCEPT ![m].status = "accepted"]
        /\ vouched' = vouched /\ Asked(m)
    BY <1>12 DEF AcceptInvitation, Asked
  <2>2. [invitation[m] EXCEPT !.status = "accepted"].status = "accepted"
    BY <1>5
  <2>3. /\ membership'[m].role = invitation[m].role /\ invitation'[m].status = "accepted"
        /\ \A n \in Member \ {m} : membership'[n] = membership[n] /\ invitation'[n] = invitation[n]
    BY <1>5, <2>1, <2>2 DEF MembershipTable
  <2> QED
    BY <1>4, <2>1, <2>3 DEF MembersVouched, InvitationsVouched, Asked
<1> QED
  BY <1>7, <1>9, <1>10, <1>11, <1>12 DEF Invitations

\* A role that is assigned is of a version there is.
LEMMA AssignedVersions ==
    ASSUME TypeInv
    PROVE  /\ \A m \in Member, r \in Role : r \in Assigned(m) <=> assigned[m][r] \in 1..Current(r)
           /\ \A a \in assigning : a.version \in 1..Current(a.role) /\ a.role \in Role
<1>1. \A r \in Role : Current(r) \in Nat
  BY DEF TypeInv, TypeOK, Current
<1>2. \A m \in Member, r \in Role : assigned[m][r] \in Nat /\ assigned[m][r] <= Current(r)
  BY DEF TypeInv, TypeOK
<1>3. \A a \in assigning : a.role \in Role /\ a.version \in Nat /\ a.version >= 1
                           /\ a.version <= Current(a.role)
  BY MembershipAssumption DEF TypeInv, TypeOK, VersionsThere, Assignments
<1> QED
  BY <1>1, <1>2, <1>3 DEF Assigned

\* A new version gives its holders what the one who wrote it had; earlier versions stay.
LEMMA DelegationExtending ==
    ASSUME DelegationInv, OwnerInv', NEW actor \in Member, NEW r \in Role, Extending(actor, r)
    PROVE  RolesVouched' /\ AssignmentsVouched'
<1>1. TypeInv /\ RolesVouched /\ AssignmentsVouched
  BY Parts DEF DelegationInv, OwnerInv
<1>2. \A q \in Role : \A v \in 1..Current(q) : role'[q].grants[v] = role[q].grants[v]
  BY <1>1, ExtendingEffect, RolesGrow
<1>3. assigning' = assigning
  BY <1>1, ExtendingEffect
<1>4. AssignmentsVouched'
  BY <1>1, <1>2, <1>3, AssignedVersions DEF AssignmentsVouched
<1>5. /\ assigned \in [Member -> [Role -> Nat]] /\ given \in [Member -> [Role -> SUBSET Rights]]
  BY <1>1 DEF TypeInv, TypeOK
<1>6. ASSUME NEW m \in Member, NEW q \in Role, assigned'[m][q] # 0,
             assigned'[m][q] = assigned[m][q], given'[m][q] = given[m][q]
      PROVE  role'[q].grants[assigned'[m][q]] \subseteq given'[m][q]
  <2>1. assigned[m][q] \in 1..Current(q)
    BY <1>1, <1>6, AssignedVersions DEF Assigned
  <2>2. role[q].grants[assigned[m][q]] \subseteq given[m][q]
    BY <1>1, <1>6 DEF RolesVouched, Assigned
  <2> QED
    BY <1>2, <1>6, <2>1, <2>2
<1>7. CASE \E rights \in GrantSets : CreateRole(actor, r, rights)
  BY <1>4, <1>6, <1>7 DEF CreateRole, RolesVouched, Assigned
<1>8. ASSUME NEW rights \in GrantSets, UpdateRole(actor, r, rights)
      PROVE  RolesVouched'
  <2>1. /\ assigned' = [m \in Member |-> [assigned[m] EXCEPT ![r] = IF @ = 0 THEN 0 ELSE Current(r) + 1]]
        /\ given' = [m \in Member |-> [given[m] EXCEPT ![r] = IF assigned[m][r] = 0 THEN @
                                                             ELSE Authority(actor)]]
        /\ rights \subseteq Authority(actor)
    BY <1>8 DEF UpdateRole, CanDelegate
  <2>2. \A m \in Member, q \in Role \ {r} :
          assigned'[m][q] = assigned[m][q] /\ given'[m][q] = given[m][q]
    BY <1>5, <2>1
  <2>3. \A m \in Member : IF assigned[m][r] = 0 THEN assigned'[m][r] = 0
                          ELSE assigned'[m][r] = Current(r) + 1 /\ given'[m][r] = Authority(actor)
    BY <1>5, <2>1
  <2>4. role'[r].grants[Current(r) + 1] = rights
    <3>1. Extended(r, "active", Append(role[r].grants, rights))
      BY <1>1, <1>8, UpdateExtends
    <3>2. role \in RoleTable
      BY <1>1 DEF TypeInv, TypeOK, RoleTable
    <3>3. role'[r].grants = Append(role[r].grants, rights)
      BY <3>1, <3>2 DEF Extended, RoleTable
    <3>4. role[r].grants \in Seq(GrantSets)
      BY <3>2 DEF RoleTable
    <3> QED
      BY <3>3, <3>4 DEF Current
  <2>5. ASSUME NEW m \in Member, NEW q \in Role, assigned'[m][q] # 0
        PROVE  role'[q].grants[assigned'[m][q]] \subseteq given'[m][q]
    <3>1. CASE q = r
      BY <2>1, <2>3, <2>4, <2>5, <3>1
    <3>2. CASE q # r
      BY <1>6, <2>2, <2>5, <3>2
    <3> QED
      BY <3>1, <3>2
  <2> QED
    BY <2>5 DEF RolesVouched, Assigned
<1>9. CASE ArchiveRole(actor, r)
  <2>1. /\ assigned' = [m \in Member |-> [assigned[m] EXCEPT ![r] = 0]]
        /\ given' = [m \in Member |-> [given[m] EXCEPT ![r] = {}]]
    BY <1>9 DEF ArchiveRole
  <2>2. \A m \in Member, q \in Role : assigned'[m][q] # 0 =>
          assigned'[m][q] = assigned[m][q] /\ given'[m][q] = given[m][q]
    BY <1>5, <2>1
  <2> QED
    BY <1>4, <1>6, <2>2 DEF RolesVouched, Assigned
<1> QED
  BY <1>4, <1>7, <1>8, <1>9 DEF Extending

\* An assignment gives the version that was read, of a role the actor could delegate then.
LEMMA DelegationAssigning ==
    ASSUME DelegationInv, OwnerInv', NEW actor \in Member, NEW target \in Member, NEW r \in Role,
           \/ ReadAssignment(actor, target, r) \/ UnassignRole(actor, target, r)
           \/ \E a \in assigning : InsertAssignment(a)
    PROVE  RolesVouched' /\ AssignmentsVouched'
<1>1. TypeInv /\ RolesVouched /\ AssignmentsVouched
  BY Parts DEF DelegationInv, OwnerInv
<1>2. /\ assigned \in [Member -> [Role -> Nat]] /\ given \in [Member -> [Role -> SUBSET Rights]]
      /\ assigning \subseteq Assignments
  BY <1>1 DEF TypeInv, TypeOK
<1>3. CASE ReadAssignment(actor, target, r)
  <2> DEFINE read == [actor |-> actor, target |-> target, role |-> r, version |-> Current(r),
                      rights |-> Authority(actor)]
  <2>1. /\ UNCHANGED <<role, assigned, given>> /\ assigning' = assigning \cup {read}
        /\ role[r].grants[Current(r)] \subseteq Authority(actor)
    BY <1>3 DEF ReadAssignment, access, CanDelegate
  <2>2. role[read.role].grants[read.version] \subseteq read.rights
    BY <2>1
  <2> HIDE DEF read
  <2> QED
    BY <1>1, <2>1, <2>2 DEF RolesVouched, AssignmentsVouched, Assigned
<1>4. CASE UnassignRole(actor, target, r)
  <2>1. /\ assigned' = [assigned EXCEPT ![target][r] = 0] /\ given' = [given EXCEPT ![target][r] = {}]
        /\ UNCHANGED <<role, assigning>>
    BY <1>4 DEF UnassignRole
  <2>2. \A m \in Member, q \in Role : assigned'[m][q] # 0 =>
          assigned'[m][q] = assigned[m][q] /\ given'[m][q] = given[m][q]
    BY <1>2, <2>1
  <2> QED
    BY <1>1, <2>1, <2>2 DEF RolesVouched, AssignmentsVouched, Assigned
<1>5. ASSUME NEW a \in assigning, InsertAssignment(a)
      PROVE  RolesVouched' /\ AssignmentsVouched'
  <2>1. UNCHANGED role /\ assigning' \subseteq assigning
    BY <1>5 DEF InsertAssignment
  <2>2. AssignmentsVouched'
    BY <1>1, <2>1 DEF AssignmentsVouched
  <2>3. /\ a.target \in Member /\ a.role \in Role /\ a.version \in Nat /\ a.rights \in SUBSET Rights
    BY <1>2 DEF Assignments
  <2>4. \/ UNCHANGED <<assigned, given>>
        \/ /\ assigned' = [assigned EXCEPT ![a.target][a.role] = a.version]
           /\ given' = [given EXCEPT ![a.target][a.role] = a.rights]
    BY <1>5 DEF InsertAssignment
  <2>5. CASE UNCHANGED <<assigned, given>>
    BY <1>1, <2>1, <2>2, <2>5 DEF RolesVouched, Assigned
  <2>6. CASE /\ assigned' = [assigned EXCEPT ![a.target][a.role] = a.version]
             /\ given' = [given EXCEPT ![a.target][a.role] = a.rights]
    <3>1. /\ assigned'[a.target][a.role] = a.version
          /\ \A n \in Member, q \in Role : <<n, q>> # <<a.target, a.role>> =>
               assigned'[n][q] = assigned[n][q]
      BY <1>2, <2>3, <2>6, EntrySet
    <3>2. /\ given'[a.target][a.role] = a.rights
          /\ \A n \in Member, q \in Role : <<n, q>> # <<a.target, a.role>> =>
               given'[n][q] = given[n][q]
      BY <1>2, <2>3, <2>6, EntrySet
    <3>3. role[a.role].grants[a.version] \subseteq a.rights
      BY <1>1 DEF AssignmentsVouched
    <3>4. ASSUME NEW m \in Member, NEW q \in Role, assigned'[m][q] # 0
          PROVE  role'[q].grants[assigned'[m][q]] \subseteq given'[m][q]
      <4>1. CASE <<m, q>> = <<a.target, a.role>>
        BY <2>1, <3>1, <3>2, <3>3, <4>1
      <4>2. CASE <<m, q>> # <<a.target, a.role>>
        BY <1>1, <2>1, <3>1, <3>2, <3>4, <4>2 DEF RolesVouched, Assigned
      <4> QED
        BY <4>1, <4>2
    <3> QED
      BY <2>2, <3>4 DEF RolesVouched, Assigned
  <2> QED
    BY <2>4, <2>5, <2>6
<1> QED
  BY <1>3, <1>4, <1>5

LEMMA DelegationRoles ==
    ASSUME DelegationInv, OwnerInv', Roles
    PROVE  DelegationInv'
<1>1. UNCHANGED <<membership, invitation, tx, vouched>>
  BY RolesQuiet DEF invites
<1>2. MembersVouched' /\ InvitationsVouched' /\ ChangesVouched'
  BY <1>1, Parts DEF DelegationInv, MembersVouched, InvitationsVouched, Asked, ChangesVouched, Locked
<1>3. \A a \in assigning : a.target \in Member /\ a.role \in Role
  BY DEF DelegationInv, OwnerInv, TypeInv, TypeOK, Assignments
<1>4. RolesVouched' /\ AssignmentsVouched'
  BY <1>3, DelegationExtending, DelegationAssigning DEF Roles, Extending
<1> QED
  BY <1>2, <1>4, PartsNext DEF DelegationInv

\* What no change of a membership touches.
LEMMA DelegationKept ==
    ASSUME DelegationInv, Changing
    PROVE  RolesVouched' /\ AssignmentsVouched'
<1>1. UNCHANGED <<role, assigned, given, assigning>>
  BY ChangingQuiet DEF access
<1> QED
  BY <1>1, Parts DEF DelegationInv, RolesVouched, Assigned, AssignmentsVouched

\* A handler gets a transaction, and a locked one has the rights it gives.
LEMMA ChangesKept ==
    ASSUME DelegationInv, NEW h \in Handler, NEW t, tx' = [tx EXCEPT ![h] = t],
           t.stage = "locked" /\ t.op # "transfer" /\ t.role # "same" => BuiltIn[t.role] \subseteq t.rights
    PROVE  ChangesVouched'
<1>1. tx'[h] = t /\ \A g \in Handler \ {h} : tx'[g] = tx[g]
  BY OneHandler DEF DelegationInv, OwnerInv
<1> QED
  BY <1>1 DEF DelegationInv, ChangesVouched, Locked

LEMMA DelegationAsk ==
    ASSUME DelegationInv, NEW h \in Handler, NEW op, NEW actor, NEW target, NEW newRole,
           NEW newStatus, Ask(h, op, actor, target, newRole, newStatus)
    PROVE  MembersVouched' /\ InvitationsVouched' /\ ChangesVouched'
<1> DEFINE t == [op |-> op, stage |-> "asked", actor |-> actor, target |-> target,
                 role |-> newRole, status |-> newStatus, rights |-> {}]
<1>1. t.stage # "locked"
  OBVIOUS
<1>2. tx' = [tx EXCEPT ![h] = t] /\ UNCHANGED <<membership, invitation, vouched>>
  BY DEF Ask, invites
<1>3. MembersVouched' /\ InvitationsVouched'
  BY <1>2, Parts DEF DelegationInv, MembersVouched, InvitationsVouched, Asked
<1> HIDE DEF t
<1> QED
  BY <1>1, <1>2, <1>3, ChangesKept

\* The actor has what the new role gives, when the change is checked.
LEMMA DelegationLock ==
    ASSUME DelegationInv, NEW h \in Handler, LockMembership(h)
    PROVE  MembersVouched' /\ InvitationsVouched' /\ ChangesVouched'
<1> DEFINE t == tx[h]
           gives == IF t.role = "same" THEN {} ELSE Authority(t.actor)
           new == IF Permitted(t) THEN [t EXCEPT !.stage = "locked", !.rights = gives] ELSE Idle
<1>1. tx' = [tx EXCEPT ![h] = new] /\ UNCHANGED <<membership, invitation, vouched>>
  BY DEF LockMembership, invites
<1>2. MembersVouched' /\ InvitationsVouched'
  BY <1>1, Parts DEF DelegationInv, MembersVouched, InvitationsVouched, Asked
<1>3. t \in Transactions
  BY DEF DelegationInv, OwnerInv, TypeInv, TypeOK
<1>4. t.actor \in Member /\ t.role \in BuiltInRoles \cup {"same"}
  BY <1>3 DEF Transactions
<1>5. ASSUME Permitted(t), t.op # "transfer", t.role # "same"
      PROVE  BuiltIn[t.role] \subseteq Authority(t.actor)
  BY <1>4, <1>5, DelegatesBuiltIn DEF Permitted, MayChange
<1>6. IF Permitted(t) THEN new.op = t.op /\ new.role = t.role /\ new.rights = gives
      ELSE new.stage # "locked"
  BY <1>3 DEF Transactions, Idle
<1> HIDE DEF new
<1>7. new.stage = "locked" /\ new.op # "transfer" /\ new.role # "same" =>
        BuiltIn[new.role] \subseteq new.rights
  BY <1>5, <1>6
<1> QED
  BY <1>1, <1>2, <1>7, ChangesKept

LEMMA DelegationCommitChange ==
    ASSUME DelegationInv, NEW h \in Handler, CommitChange(h)
    PROVE  MembersVouched' /\ InvitationsVouched' /\ ChangesVouched'
<1> DEFINE t == tx[h]
<1>1. t \in Transactions /\ t.stage = "locked" /\ t.op # "transfer"
  BY DEF DelegationInv, OwnerInv, TypeInv, TypeOK, CommitChange
<1>2. /\ membership' = [membership EXCEPT ![t.target] = After(t)]
      /\ vouched' = IF t.role = "same" THEN vouched ELSE [vouched EXCEPT ![t.target] = t.rights]
      /\ tx' = [tx EXCEPT ![h] = Idle] /\ invitation' = invitation
  BY DEF CommitChange, invites
<1>3. t.target \in Member /\ membership[t.target].status # "none"
  BY <1>1 DEF Transactions, DelegationInv, OwnerInv, TargetsExist
<1>4. /\ membership'[t.target] = After(t)
      /\ vouched'[t.target] = IF t.role = "same" THEN vouched[t.target] ELSE t.rights
      /\ \A m \in Member \ {t.target} : membership'[m] = membership[m] /\ vouched'[m] = vouched[m]
  BY <1>2, <1>3 DEF DelegationInv, OwnerInv, TypeInv, TypeOK
<1>5. MembersVouched /\ InvitationsVouched
  BY Parts DEF DelegationInv
<1>6. BuiltIn[After(t).role] \subseteq vouched'[t.target]
  <2>1. CASE t.role = "same"
    BY <1>3, <1>4, <1>5, <2>1 DEF MembersVouched, After
  <2>2. CASE t.role # "same"
    BY <1>1, <1>4, <2>2 DEF DelegationInv, ChangesVouched, Locked, After
  <2> QED
    BY <2>1, <2>2
<1>7. MembersVouched'
  BY <1>4, <1>5, <1>6 DEF MembersVouched
<1>8. InvitationsVouched'
  BY <1>2, <1>3, <1>4, <1>5 DEF InvitationsVouched, Asked
<1>9. ChangesVouched'
  BY <1>2, ChangesKept DEF Idle
<1> QED
  BY <1>7, <1>8, <1>9

\* The new owner gets everything; the former one keeps what an administrator has.
LEMMA DelegationCommitTransfer ==
    ASSUME DelegationInv, NEW h \in Handler, CommitTransfer(h)
    PROVE  MembersVouched' /\ InvitationsVouched' /\ ChangesVouched'
<1> DEFINE t == tx[h]
           half == [membership EXCEPT ![t.target].role = "owner"]
<1>1. /\ t \in Transactions /\ t.stage = "locked" /\ t.op = "transfer"
      /\ membership \in MembershipTable /\ vouched \in [Member -> SUBSET Rights]
  BY DEF DelegationInv, OwnerInv, TypeInv, TypeOK, CommitTransfer, MembershipTable
<1>2. /\ membership' = [half EXCEPT ![t.actor].role = "admin"]
      /\ vouched' = [vouched EXCEPT ![t.target] = BuiltIn[membership[t.actor].role]]
      /\ tx' = [tx EXCEPT ![h] = Idle] /\ invitation' = invitation
  BY DEF CommitTransfer, invites
<1>3. t.target \in Member /\ t.actor \in Member /\ MayTransfer(t)
  BY <1>1 DEF Transactions, DelegationInv, OwnerInv, StillPermitted, Locked
<1>4. /\ half \in MembershipTable
      /\ half[t.target] = [status |-> membership[t.target].status, role |-> "owner"]
      /\ \A n \in Member \ {t.target} : half[n] = membership[n]
  BY <1>1, <1>3, RoleChanged DEF BuiltInRoles
<1> HIDE DEF half
<1>5. /\ membership'[t.actor] = [status |-> half[t.actor].status, role |-> "admin"]
      /\ \A n \in Member \ {t.actor} : membership'[n] = half[n]
  <2> DEFINE whole == [half EXCEPT ![t.actor].role = "admin"]
  <2>1. /\ whole[t.actor] = [status |-> half[t.actor].status, role |-> "admin"]
        /\ \A n \in Member \ {t.actor} : whole[n] = half[n]
    BY <1>3, <1>4, RoleChanged DEF BuiltInRoles
  <2>2. membership' = whole
    BY <1>2
  <2> HIDE DEF whole
  <2> QED
    BY <2>1, <2>2
<1>6. /\ vouched'[t.target] = BuiltIn["owner"]
      /\ \A n \in Member \ {t.target} : vouched'[n] = vouched[n]
  BY <1>1, <1>2, <1>3 DEF MayTransfer, ActiveOwner
<1>7. MembersVouched /\ InvitationsVouched
  BY Parts DEF DelegationInv
<1>8. t.actor # t.target /\ ActiveOwner(t.actor) /\ Active(t.target)
  BY <1>3 DEF MayTransfer
<1>9. ASSUME NEW m \in Member, membership'[m].status # "none"
      PROVE  BuiltIn[membership'[m].role] \subseteq vouched'[m]
  <2>1. CASE m = t.target
    BY <1>4, <1>5, <1>6, <1>8, <2>1 DEF BuiltIn
  <2>2. CASE m = t.actor
    <3>1. membership[m].status # "none" /\ membership[m].role = "owner"
      BY <1>8, <2>2 DEF ActiveOwner, Active
    <3>2. BuiltIn["owner"] \subseteq vouched[m] /\ BuiltIn["admin"] \subseteq BuiltIn["owner"]
      BY <1>7, <3>1 DEF MembersVouched, BuiltIn
    <3> QED
      BY <1>5, <1>6, <1>8, <2>2, <3>2
  <2>3. CASE m \notin {t.target, t.actor}
    BY <1>4, <1>5, <1>6, <1>7, <1>9, <2>3 DEF MembersVouched
  <2> QED
    BY <2>1, <2>2, <2>3
<1>10. ASSUME NEW m \in Member, Asked(m)
       PROVE  m \notin {t.target, t.actor}
  BY <1>7, <1>8, <1>10 DEF InvitationsVouched, ActiveOwner, Active
<1>11. InvitationsVouched'
  BY <1>2, <1>4, <1>5, <1>6, <1>7, <1>10 DEF InvitationsVouched, Asked
<1>12. ChangesVouched'
  BY <1>2, ChangesKept DEF Idle
<1> QED
  BY <1>9, <1>11, <1>12 DEF MembersVouched

LEMMA DelegationChanging ==
    ASSUME DelegationInv, OwnerInv', Changing
    PROVE  DelegationInv'
<1>1. MembersVouched' /\ InvitationsVouched' /\ ChangesVouched'
  <2>1. ASSUME NEW h \in Handler, NEW actor \in Member, NEW target \in Member,
               \/ \E change \in Changes : AskChange(h, actor, target, change)
               \/ \E newStatus \in {"active", "suspended"} : AskStatus(h, actor, target, newStatus)
               \/ AskTransfer(h, actor, target)
        PROVE  MembersVouched' /\ InvitationsVouched' /\ ChangesVouched'
    BY <2>1, DelegationAsk DEF AskChange, AskStatus, AskTransfer
  <2> QED
    BY <2>1, DelegationLock, DelegationCommitChange, DelegationCommitTransfer DEF Changing
<1> QED
  BY <1>1, DelegationKept, PartsNext DEF DelegationInv

LEMMA DelegationStep ==
    ASSUME DelegationInv, [Next]_vars
    PROVE  DelegationInv'
<1>1. OwnerInv'
  BY OwnerStep DEF DelegationInv
<1> QED
  BY <1>1, DelegationSessions, DelegationChanging, DelegationRoles, DelegationInvitations DEF Next

\* Nobody holds what the one who gave it did not have, for any number of members, roles, versions
\* and assignments under way.
THEOREM DelegationBounded == Spec => []NothingBeyondDelegation
<1>1. Init => DelegationInv
  BY DelegationInit
<1>2. DelegationInv /\ [Next]_vars => DelegationInv'
  BY DelegationStep
<1>3. DelegationInv => NothingBeyondDelegation
  BY DEF DelegationInv
<1> QED
  BY <1>1, <1>2, <1>3, PTL DEF Spec
=============================================================================
