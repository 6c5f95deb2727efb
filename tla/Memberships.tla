---------------------------- MODULE Memberships ----------------------------
(***************************************************************************)
(* Who belongs to an organization, and what they may do there: memberships  *)
(* with a protected role, roles the organization defines itself, invitations *)
(* and product sessions (packages/workspace-store/src/identity-policy.ts,    *)
(* rbac.ts, the routes of apps/control-api/src/server.ts). One organization; *)
(* a member stands for an account, its e-mail address and its sign-in.       *)
(*                                                                          *)
(* A transaction is one action, except where two of them meet: changes of a *)
(* membership, the choice of an organization by a signed-in member, and the  *)
(* assignment of a role are open for a while, and hold their locks.          *)
(***************************************************************************)
EXTENDS Integers, Sequences, FiniteSets

CONSTANTS
  Member, Founder,
  Followed,       \* members whose sign-ins are followed
  Role,           \* the organization's own roles
  GrantSets,      \* what such a role may grant
  Changes,        \* what PATCH memberships/:userId asks for: a role, a status or both
  Handler,        \* requests that change a membership at the same time
  MaxVersions,    \* bound: versions of a role
  MaxDeliveries,  \* bound: messages sent for an invitation
  MaxContexts,    \* bound: activations begun from one message
  MaxRequests,    \* bound: requests of administrators
  MaxAssigning    \* bound: assignments under way at once

\* The permissions the code below asks for; the others are like "use".
Rights == {"use", "members", "roles", "transfer"}
BuiltInRoles == {"owner", "admin", "member"}
BuiltIn == [owner |-> Rights, admin |-> Rights \ {"transfer"}, member |-> {"use"}]

Statuses == {"active", "suspended", "revoked"}

ASSUME MembershipAssumption ==
  /\ Founder \in Member /\ Followed \subseteq Member
  /\ GrantSets \subseteq SUBSET (Rights \ {"transfer"}) /\ {} \notin GrantSets
  /\ MaxVersions \in Nat \ {0} /\ MaxDeliveries \in Nat /\ MaxContexts \in Nat
  /\ MaxAssigning \in Nat /\ MaxRequests \in Nat
  /\ Changes \subseteq [role : {"admin", "member", "same"}, status : Statuses \cup {"same"}]
                       \ {[role |-> "same", status |-> "same"]}

VARIABLES
  membership,   \* organization_memberships
  role,         \* organization_custom_roles, the grants of each version
  assigned,     \* organization_membership_role_assignments: a version, or 0
  session,      \* browser_sessions of the member's sign-in
  invitation,   \* organization_invitations: the latest for the member's address
  contexts,     \* activation contexts not yet consumed, by the message they came from
  tx,           \* changeOrganizationMembership, setUserStatus, transferOrganizationOwnership
  opening,      \* selectCustomerProductSession: members whose row it has locked
  assigning,    \* assignOrganizationRole: what it has read
  outdated,     \* history: members whose access changed since their last session was begun
  vouched,      \* history: rights of whoever gave a member the protected role ...
  given,        \* history: ... and the version of an own role
  requests      \* requests so far

vars == <<membership, role, assigned, session, invitation, contexts, tx, opening, assigning,
          outdated, vouched, given, requests>>
access == <<role, assigned, given>>
invites == <<invitation, contexts>>
sessions == <<session, opening, outdated>>

Assignments == [actor : Member, target : Member, role : Role, version : 1..MaxVersions,
                rights : SUBSET Rights]
Transactions == [op : {"none", "change", "status", "transfer"}, stage : {"idle", "asked", "locked"},
                 actor : Member, target : Member, role : BuiltInRoles \cup {"same"},
                 status : Statuses \cup {"same"}, rights : SUBSET Rights]
Idle == [op |-> "none", stage |-> "idle", actor |-> Founder, target |-> Founder,
         role |-> "same", status |-> "same", rights |-> {}]

Init ==
  /\ membership = [m \in Member |-> IF m = Founder THEN [status |-> "active", role |-> "owner"]
                                    ELSE [status |-> "none", role |-> "member"]]
  /\ role = [r \in Role |-> [status |-> "none", grants |-> <<>>]]
  /\ assigned = [m \in Member |-> [r \in Role |-> 0]]
  /\ session = [m \in Member |-> IF m = Founder THEN "open" ELSE "none"]
  /\ invitation = [m \in Member |-> [status |-> "none", role |-> "member", delivery |-> 0]]
  /\ contexts = [m \in Member |-> [d \in 1..MaxDeliveries |-> 0]]
  /\ tx = [h \in Handler |-> Idle]
  /\ opening = {} /\ assigning = {} /\ outdated = {}
  /\ vouched = [m \in Member |-> IF m = Founder THEN Rights ELSE {}]
  /\ given = [m \in Member |-> [r \in Role |-> {}]]
  /\ requests = 0

(***************************************************************************)
(* Authority: the protected role and the versions of the roles assigned. An *)
(* assignment that is not of the current version of an active role          *)
(* invalidates all of it.                                                   *)
(***************************************************************************)
Active(m) == membership[m].status = "active"
ActiveOwner(m) == Active(m) /\ membership[m].role = "owner"
Current(r) == Len(role[r].grants)
Assigned(m) == {r \in Role : assigned[m][r] # 0}
Valid(m) == \A r \in Assigned(m) : role[r].status = "active" /\ assigned[m][r] = Current(r)
Granted(m) == UNION {role[r].grants[assigned[m][r]] : r \in Assigned(m)}
Authority(m) ==
  IF Active(m) /\ Valid(m) THEN BuiltIn[membership[m].role] \cup Granted(m) ELSE {}

Allows(m, right) == right \in Authority(m)
CanDelegate(m, rights) == rights # {} /\ rights \subseteq Authority(m) \ {"transfer"}
CanDelegateBuiltIn(m, r) ==
  IF r = "owner" THEN membership[m].role = "owner" ELSE CanDelegate(m, BuiltIn[r])

\* Mutant: the changes of an organization do not wait for one another.
NoAdvisoryLock == TRUE

\* Locks: one change of memberships at a time, and the rows they, or a session, hold.
AdvisoryFree == \A h \in Handler : tx[h].stage # "locked"
Rows(t) == IF t.op = "transfer" THEN {t.actor, t.target} ELSE {t.target}

\* Mutant: the membership of a session is read without FOR UPDATE.
ChangesDone(m) == \A h \in Handler : tx[h].stage = "locked" => m \notin Rows(tx[h])

RowFree(m) == m \notin opening /\ \A h \in Handler : tx[h].stage = "locked" => m \notin Rows(tx[h])

Request == requests < MaxRequests /\ requests' = requests + 1

\* revokeMembershipRoleSessions
Revoked(s, members) == [m \in Member |-> IF m \in members /\ s[m] = "open" THEN "revoked" ELSE s[m]]

(***************************************************************************)
(* Changing a membership                                                    *)
(***************************************************************************)
Ask(h, op, actor, target, newRole, newStatus) ==
  /\ tx[h] = Idle /\ Request
  /\ tx' = [tx EXCEPT ![h] = [op |-> op, stage |-> "asked", actor |-> actor, target |-> target,
                               role |-> newRole, status |-> newStatus, rights |-> {}]]
  /\ UNCHANGED <<membership, access, invites, sessions, assigning, vouched>>

\* PATCH memberships/:userId looks at the actor and at the target before the transaction.
AskChange(h, actor, target, change) ==
  /\ change.role # "same" => Allows(actor, "roles")
  /\ change.status # "same" => Allows(actor, "members")
  /\ ~(target = actor /\ change.status \in {"suspended", "revoked"})
  /\ membership[target].status # "none" /\ membership[target].role # "owner"
  /\ Ask(h, "change", actor, target, change.role, change.status)

\* PATCH users/:userId/status
AskStatus(h, actor, target, newStatus) ==
  /\ Allows(actor, "members")
  /\ ~(target = actor /\ newStatus = "suspended")
  /\ membership[target].status # "none"
  /\ Ask(h, "status", actor, target, "same", newStatus)

AskTransfer(h, actor, target) ==
  /\ Allows(actor, "transfer") /\ membership[actor].role = "owner"
  /\ Ask(h, "transfer", actor, target, "owner", "same")

After(t) ==
  LET was == membership[t.target] IN
  [status |-> IF t.status = "same" THEN was.status ELSE t.status,
   role |-> IF t.role = "same" THEN was.role ELSE t.role]

\* The trigger preserve_last_active_organization_owner, which sees what is committed.
OwnerPreserved(t) ==
  \/ ~ActiveOwner(t.target)
  \/ After(t).role = "owner" /\ After(t).status = "active"
  \/ \E m \in Member \ {t.target} : ActiveOwner(m)

MayChange(t) ==
  /\ Active(t.actor)
  /\ t.status # "same" => Allows(t.actor, "members")
  /\ t.role # "same" => Allows(t.actor, "roles") /\ CanDelegateBuiltIn(t.actor, t.role)
  /\ membership[t.target].role = "owner" => membership[t.actor].role = "owner"
  /\ OwnerPreserved(t)

MayTransfer(t) == ActiveOwner(t.actor) /\ Active(t.target) /\ t.target # t.actor

Permitted(t) == IF t.op = "transfer" THEN MayTransfer(t) ELSE MayChange(t)

\* The transaction's locks, its reads, its refusals and its update, which nobody sees yet.
LockMembership(h) ==
  /\ tx[h].stage = "asked"
  /\ AdvisoryFree /\ \A m \in Rows(tx[h]) : RowFree(m)
  /\ tx' = [tx EXCEPT ![h] = IF Permitted(tx[h])
                             THEN [tx[h] EXCEPT !.stage = "locked",
                                     !.rights = IF tx[h].role = "same" THEN {} ELSE Authority(tx[h].actor)]
                             ELSE Idle]
  /\ UNCHANGED <<membership, access, invites, sessions, assigning, vouched, requests>>

CommitChange(h) ==
  LET t == tx[h]
      ends == \/ After(t).role # membership[t.target].role
              \/ t.status \in {"suspended", "revoked"}
  IN
  /\ t.stage = "locked" /\ t.op \in {"change", "status"}
  /\ membership' = [membership EXCEPT ![t.target] = After(t)]
  /\ vouched' = IF t.role = "same" THEN vouched ELSE [vouched EXCEPT ![t.target] = t.rights]
  /\ session' = IF ends THEN Revoked(session, {t.target}) ELSE session
  /\ outdated' = IF ends THEN outdated \cup {t.target} ELSE outdated
  /\ tx' = [tx EXCEPT ![h] = Idle]
  /\ UNCHANGED <<access, invites, opening, assigning, requests>>

CommitTransfer(h) ==
  LET t == tx[h] IN
  /\ t.stage = "locked" /\ t.op = "transfer"
  /\ membership' = [membership EXCEPT ![t.target].role = "owner", ![t.actor].role = "admin"]
  /\ vouched' = [vouched EXCEPT ![t.target] = BuiltIn[membership[t.actor].role]]
  /\ session' = Revoked(session, {t.target, t.actor})
  /\ outdated' = outdated \cup {t.target, t.actor}
  /\ tx' = [tx EXCEPT ![h] = Idle]
  /\ UNCHANGED <<access, invites, opening, assigning, requests>>

(***************************************************************************)
(* Sessions                                                                 *)
(***************************************************************************)
\* selectCustomerProductSession: lock the membership's row while it is active ...
LockForSession(m) ==
  /\ m \notin opening /\ RowFree(m)
  /\ Active(m)
  /\ opening' = opening \cup {m}
  /\ outdated' = outdated \ {m}
  /\ UNCHANGED <<membership, access, invites, session, tx, assigning, vouched, requests>>

\* ... and open the session, unless that of this sign-in was revoked.
OpenSession(m) ==
  /\ m \in opening
  /\ session' = [session EXCEPT ![m] = IF @ = "revoked" THEN @ ELSE "open"]
  /\ opening' = opening \ {m}
  /\ UNCHANGED <<membership, access, invites, tx, assigning, outdated, vouched, requests>>

\* The member signs in anew, with a session of the authentication service of its own.
SignIn(m) ==
  /\ session[m] = "revoked" /\ m \notin opening
  /\ session' = [session EXCEPT ![m] = "none"]
  /\ UNCHANGED <<membership, access, invites, tx, assigning, opening, outdated, vouched, requests>>

\* clearCustomerProductSession, or the member turns to another organization
ClearSession(m) ==
  /\ session[m] = "open"
  /\ session' = [session EXCEPT ![m] = "none"]
  /\ UNCHANGED <<membership, access, invites, tx, assigning, opening, outdated, vouched, requests>>

\* revokeCustomerProductSession by the member, revokeUserSessions by an administrator
RevokeSession(m, actor) ==
  /\ session[m] = "open"
  /\ actor # m => Allows(actor, "members") /\ RowFree(m)
  /\ session' = Revoked(session, {m})
  /\ UNCHANGED <<membership, access, invites, tx, assigning, opening, outdated, vouched, requests>>

(***************************************************************************)
(* The organization's own roles                                             *)
(***************************************************************************)
CreateRole(actor, r, grants) ==
  /\ Request
  /\ role[r].status = "none"
  /\ Allows(actor, "roles") /\ CanDelegate(actor, grants)
  /\ role' = [role EXCEPT ![r] = [status |-> "active", grants |-> <<grants>>]]
  /\ UNCHANGED <<membership, assigned, given, invites, sessions, tx, assigning, vouched>>

Holders(r) == {m \in Member : assigned[m][r] # 0}

\* Mutant: the grants are kept with the role, and only its assignments have versions.
UpdateUnversioned(actor, r, grants) ==
  /\ Request
  /\ role[r].status = "active" /\ Current(r) < MaxVersions
  /\ Allows(actor, "roles") /\ CanDelegate(actor, grants)
  /\ role' = [role EXCEPT ![r].grants[Current(r)] = grants]
  /\ assigned' = [m \in Member |-> [assigned[m] EXCEPT ![r] = IF @ = 0 THEN 0 ELSE @ + 1]]
  /\ session' = Revoked(session, Holders(r))
  /\ UNCHANGED <<membership, given, invites, opening, outdated, tx, assigning, vouched>>

\* A new version, which moves every assignment there is.
UpdateRole(actor, r, grants) ==
  /\ Request
  /\ role[r].status = "active" /\ Current(r) < MaxVersions
  /\ Allows(actor, "roles") /\ CanDelegate(actor, grants)
  /\ role' = [role EXCEPT ![r].grants = Append(@, grants)]
  /\ assigned' = [m \in Member |-> [assigned[m] EXCEPT ![r] = IF @ = 0 THEN 0 ELSE Current(r) + 1]]
  /\ given' = [m \in Member |-> [given[m] EXCEPT ![r] = IF assigned[m][r] = 0 THEN @
                                                        ELSE Authority(actor)]]
  /\ session' = Revoked(session, Holders(r))
  /\ UNCHANGED <<membership, invites, opening, outdated, tx, assigning, vouched>>

\* assignOrganizationRole locks nothing of what it reads ...
ReadAssignment(actor, target, r) ==
  /\ Request
  /\ Cardinality(assigning) < MaxAssigning
  /\ role[r].status = "active" /\ Active(target)
  /\ Allows(actor, "roles") /\ CanDelegate(actor, role[r].grants[Current(r)])
  /\ assigning' = assigning \cup {[actor |-> actor, target |-> target, role |-> r,
                                   version |-> Current(r), rights |-> Authority(actor)]}
  /\ UNCHANGED <<membership, access, invites, sessions, tx, vouched>>

\* Mutant: the insert takes the version that is current then.
InsertCurrent(a) ==
  LET new == assigned[a.target][a.role] = 0 IN
  /\ RowFree(a.target)
  /\ assigned' = IF new THEN [assigned EXCEPT ![a.target][a.role] = Current(a.role)] ELSE assigned
  /\ given' = IF new THEN [given EXCEPT ![a.target][a.role] = a.rights] ELSE given
  /\ assigning' = assigning \ {a}
  /\ UNCHANGED <<membership, role, invites, sessions, tx, vouched, requests>>

\* ... and inserts the version it has read, unless there is an assignment.
InsertAssignment(a) ==
  LET new == assigned[a.target][a.role] = 0 IN
  /\ RowFree(a.target)
  /\ assigned' = IF new THEN [assigned EXCEPT ![a.target][a.role] = a.version] ELSE assigned
  /\ given' = IF new THEN [given EXCEPT ![a.target][a.role] = a.rights] ELSE given
  /\ session' = IF new THEN Revoked(session, {a.target}) ELSE session
  /\ assigning' = assigning \ {a}
  /\ UNCHANGED <<membership, role, invites, opening, outdated, tx, vouched, requests>>

UnassignRole(actor, target, r) ==
  /\ Request
  /\ assigned[target][r] # 0
  /\ Allows(actor, "roles") /\ CanDelegate(actor, role[r].grants[assigned[target][r]])
  /\ assigned' = [assigned EXCEPT ![target][r] = 0]
  /\ given' = [given EXCEPT ![target][r] = {}]
  /\ session' = Revoked(session, {target})
  /\ UNCHANGED <<membership, role, invites, opening, outdated, tx, assigning, vouched>>

ArchiveRole(actor, r) ==
  /\ Request
  /\ role[r].status = "active"
  /\ Allows(actor, "roles") /\ CanDelegate(actor, role[r].grants[Current(r)])
  /\ role' = [role EXCEPT ![r].status = "archived"]
  /\ assigned' = [m \in Member |-> [assigned[m] EXCEPT ![r] = 0]]
  /\ given' = [m \in Member |-> [given[m] EXCEPT ![r] = {}]]
  /\ session' = Revoked(session, Holders(r))
  /\ UNCHANGED <<membership, invites, opening, outdated, tx, assigning, vouched>>

(***************************************************************************)
(* Invitations                                                              *)
(***************************************************************************)
\* requireInvitationActor lets an owner invite another owner.  The route refuses that role, so that
\* a second owner comes only to an organization whose store is used otherwise; the store allows it.
MayInvite(actor, r) ==
  /\ Allows(actor, "members")
  /\ r # "member" => Allows(actor, "roles")
  /\ CanDelegateBuiltIn(actor, r)

Deliver(m, r, actor) ==
  /\ Request
  /\ invitation[m].delivery < MaxDeliveries
  /\ invitation' = [invitation EXCEPT ![m] = [status |-> "pending", role |-> r, delivery |-> @.delivery + 1]]
  /\ vouched' = [vouched EXCEPT ![m] = Authority(actor)]
  /\ UNCHANGED <<membership, access, contexts, sessions, tx, assigning>>

CreateInvitation(actor, m, r) ==
  /\ MayInvite(actor, r)
  /\ invitation[m].status # "pending" /\ membership[m].status = "none"
  /\ Deliver(m, r, actor)

ResendInvitation(actor, m) ==
  /\ invitation[m].status \in {"pending", "overdue"}
  /\ MayInvite(actor, invitation[m].role)
  /\ Deliver(m, invitation[m].role, actor)

RevokeInvitation(actor, m) ==
  /\ Request
  /\ invitation[m].status \in {"pending", "overdue"}
  /\ MayInvite(actor, invitation[m].role)
  /\ invitation' = [invitation EXCEPT ![m].status = "revoked"]
  /\ UNCHANGED <<membership, access, contexts, sessions, tx, assigning, vouched>>

\* Time passes expires_at.
InvitationLapses(m) ==
  /\ invitation[m].status = "pending"
  /\ invitation' = [invitation EXCEPT ![m].status = "overdue"]
  /\ UNCHANGED <<membership, access, contexts, sessions, tx, assigning, vouched, requests>>

\* createCustomerInvitationContext, with the token of the last message sent
CreateContext(m, d) ==
  /\ invitation[m].status = "pending" /\ invitation[m].delivery = d
  /\ contexts[m][d] < MaxContexts
  /\ contexts' = [contexts EXCEPT ![m][d] = @ + 1]
  /\ UNCHANGED <<membership, access, invitation, sessions, tx, assigning, vouched, requests>>

\* acceptCustomerInvitation
AcceptInvitation(m, d) ==
  /\ contexts[m][d] > 0
  /\ invitation[m].status = "pending" /\ invitation[m].delivery = d
  /\ membership[m].status = "none"
  /\ session[m] # "revoked"
  /\ membership' = [membership EXCEPT ![m] = [status |-> "active", role |-> invitation[m].role]]
  /\ session' = [session EXCEPT ![m] = "open"]
  /\ outdated' = outdated \ {m}
  /\ invitation' = [invitation EXCEPT ![m].status = "accepted"]
  /\ contexts' = [contexts EXCEPT ![m][d] = @ - 1]
  /\ UNCHANGED <<access, opening, tx, assigning, vouched, requests>>

Changing ==
  \/ \E h \in Handler, actor, target \in Member :
       \/ \E change \in Changes : AskChange(h, actor, target, change)
       \/ \E newStatus \in {"active", "suspended"} : AskStatus(h, actor, target, newStatus)
       \/ AskTransfer(h, actor, target)
  \/ \E h \in Handler : LockMembership(h) \/ CommitChange(h) \/ CommitTransfer(h)

Sessions ==
  \E m \in Followed :
    \/ LockForSession(m) \/ OpenSession(m) \/ SignIn(m) \/ ClearSession(m)
    \/ \E actor \in Member : RevokeSession(m, actor)

Roles ==
  \/ \E actor \in Member, r \in Role :
       \/ \E grants \in GrantSets : CreateRole(actor, r, grants) \/ UpdateRole(actor, r, grants)
       \/ \E target \in Member : ReadAssignment(actor, target, r) \/ UnassignRole(actor, target, r)
       \/ ArchiveRole(actor, r)
  \/ \E a \in assigning : InsertAssignment(a)

Invitations ==
  \E m \in Member :
    \/ \E actor \in Member :
         \/ \E r \in BuiltInRoles : CreateInvitation(actor, m, r)
         \/ ResendInvitation(actor, m) \/ RevokeInvitation(actor, m)
    \/ InvitationLapses(m)
    \/ \E d \in 1..MaxDeliveries : CreateContext(m, d) \/ AcceptInvitation(m, d)

Next == Changing \/ Sessions \/ Roles \/ Invitations
Spec == Init /\ [][Next]_vars

(***************************************************************************)
(* Properties                                                               *)
(***************************************************************************)
\* Every variable has its type; assignments are of versions the role has had.
TypeOK ==
  /\ membership \in [Member -> [status : Statuses \cup {"none"}, role : BuiltInRoles]]
  /\ role \in [Role -> [status : {"none", "active", "archived"}, grants : Seq(GrantSets)]]
  /\ assigned \in [Member -> [Role -> Nat]]
  /\ \A r \in Role : Current(r) <= MaxVersions /\ \A m \in Member : assigned[m][r] <= Current(r)
  /\ session \in [Member -> {"none", "open", "revoked"}]
  /\ invitation \in [Member -> [status : {"none", "pending", "overdue", "revoked", "accepted"},
                                role : BuiltInRoles, delivery : 0..MaxDeliveries]]
  /\ contexts \in [Member -> [1..MaxDeliveries -> 0..MaxContexts]]
  /\ tx \in [Handler -> Transactions]
  /\ opening \subseteq Member /\ assigning \subseteq Assignments /\ outdated \subseteq Member
  /\ vouched \in [Member -> SUBSET Rights] /\ requests \in 0..MaxRequests
  /\ given \in [Member -> [Role -> SUBSET Rights]]

\* However administrators and owners change, suspend and remove one another at the same time,
\* the organization keeps an active owner: the trigger sees only what is committed, and the
\* changes wait for one another.
AnOwnerRemains == \E m \in Member : ActiveOwner(m)

\* An open session was begun after the last suspension, removal or change of the protected role
\* of its member: none begun before is still there when the membership is active again.
SessionsEndWithAccess == \A m \in Member : session[m] = "open" => m \notin outdated

\* Nobody holds a right, by an invitation, a change of role, a transfer of ownership or a role of
\* the organization, that the one who gave it did not have when the transaction that gave it read
\* their authority, or their row, whatever became of roles between reading and assigning.
NothingBeyondDelegation ==
  \A m \in Member :
    /\ membership[m].status # "none" => BuiltIn[membership[m].role] \subseteq vouched[m]
    /\ \A r \in Assigned(m) : role[r].grants[assigned[m][r]] \subseteq given[m][r]

\* What docs/architecture/organization-rbac.md says of authority: the union of the protected role
\* and the roles assigned, so an active member has at least what the protected role gives.
AuthorityIsUnion == \A m \in Member : Active(m) => BuiltIn[membership[m].role] \subseteq Authority(m)
=============================================================================
