# LemmaComputer: specifications

LemmaComputer gives every member of an organization a desktop in a container, with
agents that call models and tools through a gateway, act only on approval where the
policy asks for it, and run on a schedule. *Control* (`apps/control-api`) owns all
decisions. It keeps them in PostgreSQL (`packages/workspace-store`) and drives, over
HTTP, a container node, a model gateway, approver devices and a worker that polls.

These modules model the parts of Control where several requests, workers, timers and
machines act on one row: scheduled runs, approved tool calls, the workspace itself, the
budget that model calls are admitted against, chat that is kept while workspaces come and
go, the messages that members send to a bot, and who may do what in an organization.
TLC checks them on small instances, TLAPS proves the most important results for all.

- [Parts of the system](#parts-of-the-system)
- [Modules](#modules)
- [Runs](#runs), their bounds and their fairness
- [Proofs](#proofs)
- [Where code and documentation disagree](#where-code-and-documentation-disagree)
- [What is not modelled](#what-is-not-modelled)
- [Plan](#plan)

To check one run: `tlc -config MCSchedules.cfg MCSchedules.tla`. To check the proofs:
`tlapm SchedulesProofs.tla`, and likewise for the other modules named `*Proofs`.

## Parts of the system

| part | state | operations | what is hard |
|---|---|---|---|
| **Scheduler** `control-api/src/schedules.ts`, `scheduler-worker`, `workspace-store/src/schedules.ts` | `schedules`, `schedule_runs` with a lease token and its end | create, edit, delete, run now; poll (reap, queue, skip, advance, lease), dispatch, begin, turn, finish, defer | any number of polls at once, requests lost or late, Control dying in a turn, downtime, an edit between a poll's read and write |
| **Governed operations** `operations.ts`, `openvtc.ts`, `mcp-policy.ts`, the gateway callback | `governed_operations` with approval, lease and receipt; `openvtc_consent_tasks` | authorize or replay a call, create and deliver tasks, decide, claim, execute, admit the dispatch, complete, fail, expire, cancel | the same approval replayed by two handlers, leases that end under a running call, two approvers, a callback that asks twice, revoked members |
| **Workspace lifecycle** `service.ts`, `workspace-recovery.ts`, `kasm-adapter`, `litellm-adapter` | the row of `workspaces` with `operation_token` and `access_generation`; a container; gateway keys by generation | create, restart, stop, suspend, open, delete, refresh, recover | every await is a place where another request takes the row; node calls that are carried out after their caller gave up; crashes; expiry |
| **Usage ledger and budgets** `usage-ledger.ts`, `budgets.ts`, the gateway callback | admissions, reservations, settlements and releases of model calls; usage events; versions of a team's budget, overrides, alerts | admit or replay an attempt, record its usage, settle, release, save a budget, override it, reconcile | admissions at the limit at once, costs recorded between the two reads of an admission, late or repeated events, an operator's release against a late event |
| **Durable chat** `durable-chat.ts`, `chat-turn-executor.ts`, `workspace-store/src/chat.ts`, `artifact-store` | conversations, messages, runs; uploads and artifacts; objects at staging and final places | send, checkpoint, save a file, finish, recover, fork, clean up, tombstone | a file lives in two systems and any step may fail after its effect; the cleanup overtakes an upload; the message and the run of a turn are written apart |
| **Channel broker** `apps/channel-broker`, the channel routes of `server.ts` | a connection with its offset, a row for each message with the response staged for it; what Telegram forgot | poll, reserve, claim a turn, stream, stage, deliver, count, advance; connect, edit, rotate, disconnect | at-least-once updates, requests that outlive the broker's patience, deliveries that stop between two pieces, edits that write back an old offset |
| **Memberships** `identity-policy.ts`, `rbac.ts`, the routes of `server.ts` | memberships with role and status, the organization's roles with their versions, assignments, invitations, sessions | change, suspend, remove, transfer ownership; define, update, assign, archive a role; invite, resend, revoke, accept; begin and end a session | authority is read before it is used; two owners act on one another; a session begun while access ends; a role that changes while it is assigned |
| **Tenant cleanup, security alerts** | job rows with leases | claim, retry, finish | repeated and partial work |
| **Provider settings, routing** | versioned configuration in two systems | stage, apply, roll back | one step of a saga failing |
| **Agent instances, sites, connectors, audit, sign-in, web** | records | mostly one transaction each | little that interleaves |

How they interact. A scheduled run is executed by Control as an agent turn in the
workspace and waits while the workspace is in transition. A turn calls tools through
the gateway; the gateway's callback asks Control; Control opens a governed operation
and, once approved, makes the call itself, under the access generation of the
workspace. A workspace operation changes that generation, which ends the grants of the
agents in the old container. A membership that ends, ends the sessions and the operations
of its member. The tables are shared; nothing else is.

What makes each of the modelled parts correct:

- *Scheduler*: an occurrence gets at most one agent turn; a turn under way is never
  given up; two cron occurrences of a schedule never run together; downtime is skipped
  and not caught up; abandoned runs end.
- *Operations*: one open operation per request; one decision, which no other approver
  can contradict or still answer; one dispatch per approval, admitted only under a live
  lease; ended operations stay ended; every operation ends.
- *Workspaces*: only the owner of the token ends an operation; recovery never undoes a
  stop; a late failure never removes the grants of a successor; what is shown as ready
  is a container with the current grants; a revocation reaches everything there is;
  no operation holds the row forever.
- *Usage*: no admission passes a hard limit; a reservation ends once; the provider is called
  only for what was admitted; a threshold that was crossed is alerted.
- *Chat*: a file that a message shows can be read; no object is at a final place that is not
  recorded (an object at a staging place may have no row yet); an upload is committed or cleaned up in the end; a turn ends once, and its
  message and its run say the same.
- *Channels*: a message gets one turn, and none after its sender was told that it failed;
  what is marked as delivered was shown whole; no message is passed over; what waits is served.
- *Memberships*: the organization keeps an active owner; no session outlives the access it was
  begun with; nobody gives a right they do not have.

## Modules

| module | models | specification |
|---|---|---|
| `Schedules` | both tables, the store's transactions, Control's edits and executions, the worker | `Spec`, `FairSpec` |
| `RunLifecycle` | what one run promises: queued once, begun only when claimed, one turn at most, deferred once, final | abstract |
| `GovernedOperations` | rows and tasks, the handlers, the gateway callback, members and workspace as environment | `Spec`, `FairSpec` |
| `OneTimeConsent` | what one approval is worth: at most one effect, spent only while granted | abstract |
| `Workspaces` | the row, the requests of `WorkspaceService`, the node's container, the gateway keys | `Spec`, `LiveSpec` |
| `UsageLedger` | the ledger's tables for one team, admission, settlement, the callback's requests | `Spec` |
| `DurableChat` | chat tables, storage, the handlers of turns, the cleanup timer | `Spec`, `FairSpec` |
| `ChannelBroker` | Telegram's queue, the broker's poll, Control's turns, the owner's requests | `Spec`, `FairSpec` |
| `Memberships` | members, roles, invitations and sessions of one organization | `Spec` |
| `SchedulesProofs`, `ScheduleRunsProofs`, `GovernedOperationsProofs`, `WorkspacesProofs`, `UsageLedgerProofs`, `DurableChatProofs`, `ChannelBrokerProofs`, `MembershipsProofs` | theorems | |
| `MCSchedules`, `MCGovernedOperations`, `MCWorkspaces`, `MCUsageLedger`, `MCDurableChat`, `MCChannelBroker`, `MCMemberships` | model values and symmetry for TLC | |

One convention holds in all of them. A database transaction is one action. A request
handler is a record with a program counter, and each `await` of its code, be it a
transaction, a call to the node or to the gateway, ends a step. So everything other
requests can do between two awaits happens in the model. Definitions whose comment
says *mutant* are plausible bugs of the definition beside them. They show that each
property can fail; no action uses them.

### Schedules

`schedules[s]` and `runs[<<s, t>>]` are the rows (the unique key of a run is its
schedule and instant). A cron expression is only its period: `NextAt` gives an instant
later than the one given, which is all the code relies on. `Poll` is the one
transaction of `claimDueScheduleRuns`: reap rows running for more than 20 minutes,
queue or skip the due occurrences, advance the schedules, lease claimed rows. Which
rows it takes is open, since `FOR UPDATE SKIP LOCKED` and `LIMIT` may leave any out.
`dispatches` are requests under way, which can be lost or arrive late. `Begin` ..
`Settle` are the phases of `executeClaimed`; `SettleError` is the write of a result that
fails, and `ControlCrash` ends every execution. An edit is two steps, because
`ScheduleService.update` reads the row and writes it later, whatever happened in between;
`rewound` records the schedules where an edit put back a next occurrence that another edit had
replaced since it was read.

`Tick` does not pass the deadlines Control itself enforces on an execution, its access
checks and the agent turn's timeout. `turns` and `polledAt` are histories.

### GovernedOperations

All for one member with one workspace. `ops[o]` joins an operation with its approval
and its receipt; an operation identifier is one row ever inserted. `handlers[h]` decide
or execute; `calls[h]` and `asks[h][k]` are the gateway's call and the callback's
attempts to have it admitted (`POLICY_ATTEMPTS`). A request is a tool call, a resumable
upload or a local fixture. Time passes, and any reader of an operation may close it
when it is overdue (`Recover`). Members, approvers and workspaces are revoked or
restarted between any two steps.

`SendsInvocation` says whether Control's own execution call carries the agent headers
the callback requires. The code sends none (`MCOperationHeaders.cfg`), so every approved
tool call ends there; the runs take `TRUE`, to check the rest of the path as it is
written. Nothing is proved under either value alone.

The module has two named limits that are not in the code: a row is free for every
request that is under way (`RowsSuffice`), and the clock stops at `MaxTime`.

### Workspaces

`ws` is the row. `handler[h]` is one request in flight in some replica, with the record
it works from, its generation and the step it is at. `call[h]` is its request to the
node: it stays outstanding after `TimeOut` or `Crash` and may still be carried out, even
against the container of a later operation. `runtime` is the one container of the
workspace's name; `keys` are the access generations with live keys. `Touched` writes
`updated_at`; `stale` stands for a row that has not been written for long enough
(5 minutes for an operation, 1 minute between recoveries), and `Age` makes it so.

Who may write is exactly what the SQL says: `claim` compares the state, and the
observed row if it is given one; `finish` compares the token; `expireOperation` compares
all of them; `update` compares nothing. `Recover` is the scan of
`workspace-recovery.ts`; `Read`, `Status`, `Reconcile` are `current`.

`last` is a history: what members and administrators last asked for, whether an open was
written after that (`last.reopened`), and whether the last operation was given up or expired,
with none claimed since (`last.left`).

### UsageLedger

One team. `caller[c]` is a request at Control; `gate[a]` is what the gateway's callback
made of attempt `a`, and `ended[a]` how the provider's call ended, whatever Control got to
hear of it. Requests are repeated and lost at any point (`Ask` again, `Lose`).

An admission holds the team's advisory lock from `ReadSpent` to `Reserve` or `Deny`.
`calculateStatus` reads costs and reservations by two statements, and `AppendUsageEvent`
takes no lock, so a cost can be recorded in between; that is why the transaction is two
actions, and why the request keeps what it read. Settlements and releases wait for the lock
and are one action each.

Money is in units, so that a sum over attempts is the number of elements of a set (`Units`):
the provers know cardinalities and no folds. A price is known or not (`Unpriced`); a failure
has billable units or not (`Unbilled`). Times are in ticks, and a calendar is the length of
its periods.

### DurableChat

`turn[t]` is the code that runs turn `t`: the message of the user, then the agent's events
until the end. A transaction or a call of the storage is one action, and each of them may
fail without an effect (`StepFails`) or after it (the second disjunct with `Trouble`). What
comes then differs: the executor writes the failure into the message and the run
(`Recovers`), the route of the channels lets the error through.

A file goes `Place`, `Stage`, `InsertRow`, `Prepare`, then a rename (`Promote`) or a copy and a
deletion (`CopyObject`, `DropStaged`), then `Commit` and `ReadBack`; an error leads to `UndoRow`
and `UndoBytes`, which deletes only what the handler knows to be there. `sweep[u]` is the
cleanup of one upload; it works from a listing that may be old. Handlers and cleanup compare
deadlines by the clocks of Control's replicas; the model has one clock. `commitArtifact` takes its
time first (`Clock`), then its SELECT finds and locks the row (`LockStaged`), and only after more
statements its transaction is visible (`Commit`). Writers of the row wait for that; the listing
of the cleanup, a read without a lock, does not, and finds the row as it was. `overtaken` records
such uploads. The times of the other statements are taken right before a single statement, and
nothing that is done between the two depends on them: those are read in the step itself.

The access generation that `verifyIngestionPlacement` compares is left out: a placement may be
refused at any time. Without `MaxTime` on `InsertRow` an upload could begin when the clock has
stopped.

### ChannelBroker

One connection and one bot. A statement, a call of Telegram or a step of Control is one
action. `Goes(p)` is a call of the broker that took effect, whose caller may see it fail all
the same; `Fails` has no effect; `Raised` is where the code goes on when a call throws. There is
one `poll`, because `server.ts` starts none while the last one runs. A request for a turn
(`request[u]`) goes on at Control when the broker no longer waits for it.

Telegram numbers the messages 1, 2, ... and forgets those below the offset it is asked for
(`forgotten`), also when the owner's request asks for offset -1 to skip what was sent before.
The composition window asks again with an offset behind the first fetch, before the first
fetch is recorded; `risked` is the history of what was confirmed that early, and `backlog` that
of what was there before the bot. `shown` is what the member saw: pieces of the answer, pieces
of a failure's text, and the preview that was streamed.

`Answers` has no completed and failed turns: they differ in the name of the final state only.

### Memberships

One organization. A member stands for an account, its address and its sign-in; `membership[m]`,
`role[r]` with the grants of its versions, `assigned[m][r]` (a version, or 0), `session[m]` and
`invitation[m]` are rows. Of the permissions only those the code asks for appear (`Rights`).
`Authority` is what `resolveOrganizationAuthorizationWith` computes: a role assigned in a version
that is not the current one of an active role makes all of it invalid.

A transaction is one action, except where two meet. A change of a membership is three: the
route looks at actor and target (`Ask`), the transaction takes the advisory lock and the rows
and reads again (`LockMembership`), and it commits (`CommitChange`, `CommitTransfer`); the trigger
on the last owner sees what is committed at its time. The choice of the organization by a
signed-in member holds the membership's row from `LockForSession` to `OpenSession`. The
assignment of a role reads (`ReadAssignment`) and inserts (`InsertAssignment`), and locks nothing
of what it read.

`requests` bounds what administrators do. A request under way is not tied to a session: who was
authorized when it began goes on although the session has ended since, as in the code. An owner
may invite an owner, as the store lets it (`requireInvitationActor`); the route of invitations
(server.ts:3771) refuses that role, so the model has more second owners than the program.
`Followed` are the members whose sign-ins happen. `outdated`, `vouched` and `given` are histories:
whose access changed since their session was begun, and what rights the giver of a protected
role or of an assignment had. A transfer is vouched for by the owner whose row it locked.

## Runs

Deadlock is not checked: the clocks, requests and faults are bounded, and a behaviour
that has used them up has really ended.

| run | instance | shows |
|---|---|---|
| `schedules` | 1 schedule with period 2, 4 ticks, 1 manual run, any polls, fair | `OneTurnPerOccurrence`, `TurnOwnsRun`, `NoOverlappingCronTurns`, the implementation of `RunLifecycle`, `AbandonedRunsEnd` |
| `schedule_edits` | 1 schedule, periods 1 and 2, 2 editors, 2 ticks | edits and polls interleaved: `MissedOccurrencesSkipped` |
| `operations` | 1 operation of any kind, 2 approvers, 2 handlers, 1 attempt | `DecisionsConverge`, `EndedOperationsAreFinal`, `RevokedApproversDecideNothing`, and the implementation of `OneTimeConsent` |
| `operation_requests` | 2 operations of one request, 2 attempts, 1 restart of the workspace, fair | `OneOpenOperationPerRequest`, `AdmittedUnderLiveLease`, `OperationsEnd` |
| `workspaces` | 2 requests at once, 3 in all, 1 crash, 1 fault, 1 late call; no open, suspension, deletion | `ReplacementKeepsGrants`, `FinishedRuntimeIsCurrent` |
| `workspace_live` | 2 at once, 3 in all, 1 crash, 1 late call, all eight operations, fair | `OwnerDecides`, `RecoveryFollowsIntent`, `RevocationsReachEverything`, `OperationsEnd` |
| `usage_ledger` | 2 attempts, 2 requests at once, a hard weekly and a soft monthly budget, 1 version, 1 override, 1 tick | `AdmissionsFit`, `DispatchedAsAdmitted`, `CrossedThresholdsAlerted` |
| `durable_chat` | 1 turn, 2 files, 2 conversations, 1 workspace, TTL 1, 1 crash or failed cleanup, fair | `ReferencesReadable`, `FinalObjectsNamed`, `TurnsEndOnce`, `UploadsSettle` |
| `channel_broker` | 2 messages, answers of a text and a file; 1 failing call or restart, or a second request of the owner, fair | `OneTurnPerMessage`, `AnswersAreWhole`, `NothingSkipped`, `MessagesAreServed` |
| `memberships` | the founder and one other member, whose sign-ins are followed, 1 role with 2 versions, 2 administrative requests at once, 5 in all, 2 messages of an invitation | `AnOwnerRemains`, `SessionsEndWithAccess`, `NothingBeyondDelegation` |

The runs `cleanup_race` (a smaller instance of `durable_chat`) and `role_assignment` (the instance
of `memberships`) each refute one statement of the repository; see below.

Why these bounds are enough to be interesting:

- `schedules`: period 2 in 4 ticks gives two occurrences and a manual one, a lease of 1
  tick lapses before the next poll, the reaper gives up the first before the second is due,
  and a run can be deferred, leased again, abandoned and reaped, and overlap the next.
- `schedule_edits`: two editors and periods 1 and 2 are what an edit needs that puts an older
  occurrence back, and the run reaches it: without its exception the property fails in 10 steps.
- `operations`: two approvers and two handlers are what a contradiction needs; a TTL and a
  lease of 1 tick in a clock of 2 let each expire under a running handler.
- `operation_requests`: the second row is opened only after the first has ended, completed,
  failed or been cancelled; the clock leaves no room for one after an expired first, which is left
  to the theorem `OneOpenOperation`. The callback asks twice.
- `workspaces` and `workspace_live`: three requests are a start, an operation that takes it over, and a third
  that meets the leftovers of both; recovery and status reads of an owned row come on top
  without limit. Any two handlers interleave at every await.
- `usage_ledger`: the limit is the price of one call, so the second attempt is the one at the
  limit; a raise to 2 or a bypass admits it. One tick is the end of a week within a month: the
  attempt admitted before and billed after it is the case of late settlement. There is one
  version of the budget: that it is replaced before a late settlement is covered by the theorem
  `ThresholdsAlerted` only. Nothing is assumed fair.
- `durable_chat`: the user's file and the agent's are the two uploads of a turn, so each step
  of both may fail; the second conversation is the fork. The upload's deadline passes at each
  step, and the cleanup, with what it listed before, comes between any two.
- `channel_broker`: two messages make one group or two, and the second is what a poll leaves
  behind when it breaks off; a text and a file are the two counters of a delivery. The owner's
  first request connects. A second one, which edits, rotates or disconnects, is only made
  when nothing fails (`FewSettings`), so a connection made anew is not reached; the theorems
  are for any number. One request of the owner runs at a time, in the module itself: two that
  overlap are covered by neither. The composition window is on by default (1.5 seconds), so that
  the broker confirms most messages before it has dealt with them; `NothingSkipped` excepts those,
  and is about what is left of the offsets' duty: failing groups, old edits, reconnections.
- `memberships`: two members who change one another at once are what the loss of an owner takes.
  Five requests are an invitation, a promotion or transfer, and three more that meet at one
  membership; or a role defined, assigned and updated while another is invited. Two versions are
  the current and the superseded one. Nothing is assumed fair.

What is left out of a run, and why.

*Workspaces.* `open` writes the row with `update`, which looks at no token, after three awaits. So a
late open may be written over an operation under way, or over a stop or suspension that has
finished. `OwnerDecides` and `RecoveryFollowsIntent` say what is left: over a held row it changes
what the row says and neither the owner nor the container or the generation (and a restart may then
take the row as it takes an open one); and recovery restarts no workspace that was last asked to
stop, unless such an open came after. `workspace_live` has all operations and reaches the first; the
second takes four requests, which is `MCWorkspaceOpen.cfg` below.

`workspaces` has no `open`, `suspend` and `delete`, because of its two properties: the suspension of
a stopped workspace revokes by the generation it read, without owning the row, and a delete that
fails at the node leaves a row that is not deleted with a container of older grants; both are
listed as hazards. And `FinishedRuntimeIsCurrent` excludes the time after an operation that failed
or lapsed and left a container in the row, until the next claim. There are two ways then to show a
container of older grants. A restart that lapses before it destroys its container has moved
the generation on, and recovery takes the healthy old container for the workspace's own. And
a stop whose destruction fails leaves a failed row that names the container, with a generation
moved on; a create that then fails at the node leaves it there, wanted running, and recovery
takes it. The second takes four requests and was found by the proof; the three of the run do
not reach it.

*Schedules.* Edits carry no version. A PATCH of the title reads the row, another one changes the
cron, a poll queues the new cron's occurrence, and the first writes back the next occurrence that
it read, which is older and is queued by the next poll. `MissedOccurrencesSkipped` excepts the
schedules where an edit put back what another had replaced (`rewound`), and no others: what polls
or a single edit do is not excepted.

*Chat.* `ReferencesReadable` excepts the bytes of a file that a cleanup listed while its commit was
under way (`overtaken`); the run `cleanup_race` shows why.

Further configurations, to run by hand; each states one property without its exception or has a
larger instance:

| configuration | property | TLC finds |
|---|---|---|
| `MCOverlappingEdits.cfg` (`MCSchedules`) | `DowntimeIsSkipped`: schedules.ts:317, "This makes downtime a skip" | the edit put back, 10 states |
| `MCOpenUnderOperation.cfg` (`MCWorkspaces`) | `OwnerAloneDecides`: service.ts:494, "The operation owner alone decides" | an open over a stop under way, 13 states |
| `MCOpenUndoesSuspension.cfg` (`MCWorkspaces`) | `StoppedStayStopped`: workspace-guardrail-reconciliation.md:66, "remain safely stopped" | an open over a suspension, which recovery then restarts, 20 states |
| `MCOperationHeaders.cfg` (`MCGovernedOperations`) | `ExecutionCallsAreIdentified`: litellm-gateway.md:232, "The callback asks Control to claim" | the call refused before Control is asked |
| `MCWorkspaceOpen.cfg` (`MCWorkspaces`) | `OwnerDecides`, `RecoveryFollowsIntent`, four requests, one failing call | no error, 4.7 million states |

Fairness.

- `Schedules!FairSpec`: time passes, some poll keeps happening (every worker polls on an
  interval and survives errors), and an execution that has not crashed proceeds, because
  Control bounds every call it awaits. Dispatches may all be lost, and Control may crash
  at any time.
- `GovernedOperations!FairSpec`: time passes, and operations are read again and again (the
  history page, the companion, the wait tool), which is what closes overdue ones. Nothing
  is assumed of handlers, approvers or the gateway.
- `Workspaces!LiveSpec`: time passes, the recovery scan comes back (15 seconds), and Control
  and the node proceed with what they started unless they crash. Nothing is assumed of
  members. `OperationsEnd` is about workspaces meant to run: the scan looks at no others, so
  a stop whose handler died waits for the next read of the workspace.
- `DurableChat!FairSpec`: time passes, and the cleanup comes back every minute (its timer in
  `server.ts`) and gets through, as failures are bounded. A transaction that was begun is
  committed or rolled back (`Resolve`). Nothing else is assumed of turns.
- `ChannelBroker!FairSpec`: the poll timer comes back and a poll gets on: each of its calls has
  a timeout, which for a turn is `TurnFails`. Failures are bounded by `MaxFaults`. Nothing is
  assumed of Control, members or the owner.

## Proofs

All theorems hold for every value of the constants that satisfies the modules' named
assumptions. Two have a hypothesis of their own, on the set of operations that members may ask
for: `ReplacementsKeepGrants` and `FinishedRuntimesAreCurrent`. Each is an invariant proved inductive
action by action, or an action property or a refinement that follows from one. Every
property that the runs check is proved, but for liveness.

**SchedulesProofs.** `TypeCorrect`; `OneTurn` (`OneTurnPerOccurrence`); `LiveTurnsOwnTheirRun`
(`TurnOwnsRun`). Neither safety property is inductive: that a row in the queue has had no turn
depends on executions never outliving their rows. `TurnInv` says so. There is at most one
execution of an occurrence; a row of a schedule that is gone is gone; an execution that has not
ended is within its timeouts and its row is running since it began; an occurrence not begun, or
sent back, has had no turn. The reaper then cannot touch a live turn because `AccessBound +
TurnTimeout <= ReapAfter` (`TurnFitsInReapDelay`), the relation of the code's 15 and 20
minutes.

**ScheduleRunsProofs.** `CronTurnsDoNotOverlap` (`NoOverlappingCronTurns`), from `CronInv`: of
the rows of a schedule that a poll queued, one at most is claimed or running, and an execution
that has not ended has its own running (`TurnInv`). `MissedRunsAreSkipped`
(`MissedOccurrencesSkipped`), from `SkipInv`: the next occurrence of a schedule has its row
already or lies after every poll that queued one, on every schedule that no edit has put back,
and what an edit is about to write back is such an occurrence too, unless another edit has
replaced it since. Any number of edits may overlap. `RunsLiveTheirLife`
(`RunsFollowLifecycle`) is the refinement of `RunLifecycle`, occurrence by occurrence and step
by step, from `LifeInv`.

**GovernedOperationsProofs.** `TypeCorrect`; `OneOpenOperation`; `EndsAreFinal`;
`AdmissionsUnderLiveLease`; and `ImplementsOneTimeConsent`, the refinement, by step simulation.
`RowsMove` first reduces what every action does to a row to five steps (nothing, a decision, an
end, a lease, an admission). `OperationInv` then links the row to the handlers and the gateway:
an open operation holds the key of its request, and a key has one holder; what executes was
approved; an operation is leased once; an attempt that was let through belongs to the handler
that holds the lease, and no two were; a call reached the provider only after that, once. The
last is the content of the refinement. `ApproversConverge` (`DecisionsConverge`), from
`DecisionInv`: until an operation names who decided it, no task of it records a decision.
`RevokedApproversAreRefused` (`RevokedApproversDecideNothing`): of all steps one alone records
a decision, and it looks at the approvers again.

**WorkspacesProofs.** `TypeCorrect`; `RevocationsReach`, from `Generations` (no key, container,
call or handler carries a generation above the row's, and the row's only grows); `OwnersDecide`
and `RecoveryFollows`, for all operations, from `Ownership` (a held row is in an active state or an
open was written over it; a deleted row is not held; a row meant to run was asked to, or opened
after that; a recovery is fenced by a row meant to run); and `ReplacementsKeepGrants`, for instances without suspension and
deletion, from `Revokers` (a handler about to revoke works with a generation the row has left,
and only waits for the call it made). `RowSteps` reduces what any step does to the row to seven
cases, one of which is the write of an open. The theorem about revocations is stronger than what the run checks: without suspension
and deletion not even the owner deletes the current keys. `FinishedRuntimesAreCurrent`, for
instances without `open` and `delete`, suspension included, from `ShowInv`: no container
changes its number or its generation (`Numbered`); a call that is waited for carries the
generation of who waits for it, an owner that starts a container has the row's generation, and
what it is about to record runs with that (`Grounds`); and a row nobody holds names a container
of its own generation, unless the last operation left it otherwise (`Shown`). A deletion moves
the generation of a row it does not hold, and an opening writes a row it does not hold, which
is why neither is covered.

**UsageLedgerProofs.** `TypeCorrect`; `DispatchCorrect` (`DispatchedAsAdmitted`);
`OneTerminalOutcome` (`TerminalOnce`); `HardLimitsHold` (`AdmissionsFit`). The last is the one
with content: the holder of the lock decides by costs and reservations it read at two moments,
and the exposure of the period may have changed in between. `Reading` says that what it read
bounds the exposure from above all the same, as the costs that were recorded meanwhile belong
to attempts whose reservations it still counts, each within its quote (`Books`).
`TotalMonotone`, `TotalSplit` and `TotalReplace` are the facts about sums. `ThresholdsAlerted`
(`CrossedThresholdsAlerted`) adds `Filed` (only what was reserved is settled, and against a
budget there is) and is then inductive: only a settlement completes a period, and the one that
does sees every cost in it, so it raises the alert if none before it did.

**DurableChatProofs.** `TypeCorrect`, from `TypeInv`: beside the types, what the code of a turn
holds at each of its steps (`Course`). `ShownFilesAreReadable` (`ReferencesReadable`) and
`ObjectsAreRecorded` (`FinalObjectsNamed`), from `FileInv`: turns and uploads are of
conversations that exist (`Rooted`); no two turns work on one upload (`OneOwner`); where a turn
stands in an ingestion, its row names the place, and its bytes are gone only if the deadline
passed before the commit took its time, or a cleanup has listed it since (`Stages`); a cleanup
works only on what was past its deadline when it began, and if that is committed it was listed
during the commit (`SweptLate`); and a file whose commit was read back is kept (`FilesKept`),
because its handler then forgets it, so that no undo reaches its bytes, and no cleanup of it that
was not in time for the commit has begun or can begin. `TurnsEndAsRecorded` (`TurnsEndOnce`), from `EndInv`: from the last write of the
message until the run has ended, the message says what the run is about to say, and a run that
has ended is of a turn that is over.

**ChannelBrokerProofs.** `TypeCorrect`, from `TypeInv`: the types, with what the poll, the
owner's request and the requests for turns hold at each step. `MessagesGetOneTurn`
(`OneTurnPerMessage`), from `BoundsInv` and `TurnsInv`: a message that was touched and has no
row lies behind every offset that a poll, an edit under way or Telegram can start again from,
so it is never reserved afresh, and a reserved row has had no turn. `NoMessageIsSkipped`
(`NothingSkipped`), from `CoverInv`: below each of those offsets there are only messages with a
row, from before the bot, or confirmed early by the composition window.
`MembersGetWholeAnswers` (`AnswersAreWhole`), from `AnswersInv`: the member was not shown
pieces of an answer and pieces of a failure for the same message, nor is about to be
(`KindsInv`); a message of the group that is being formed has no response yet (`FreshInv`);
what the poll delivers is what the rows hold, and nothing of a connection that is gone
(`ListedInv`); what a row counts as delivered was seen, and a final row counts all of it
(`CompleteInv`).

**MembershipsProofs.** `TypeCorrect`; `OwnerRemains` (`AnOwnerRemains`); `SessionsEnd`
(`SessionsEndWithAccess`); `DelegationBounded` (`NothingBeyondDelegation`). `OwnerInv`: one
change at a time is locked, its rows exist, and what was permitted when it was locked still is,
since nothing else moves a protected role or a status. `SessionInv`: who is about to get a
session has lost no access since its row was locked, because a change that is locked has no row
in common with it. `DelegationInv`: what is promised (an invitation, an assignment that was
read, a change that is locked) is within the rights of who promised it; versions never change
once they exist, so an assignment that is inserted late is of the grants its giver saw.

Only model-checked: the liveness properties `AbandonedRunsEnd`, `OperationsEnd` (of operations and
of workspaces), `UploadsSettle` and `MessagesAreServed`, which are beyond the prover. Outside the
hypotheses named above there is no theorem: `ReplacementKeepsGrants` with suspension or deletion,
`FinishedRuntimeIsCurrent` with `open` or `delete`, for the reasons under [Runs](#runs).

## Where code and documentation disagree

Two have a run of their own, in which TLC shows the behaviour.

| run | what the code does | what is said of it |
|---|---|---|
| `cleanup_race` | `commitArtifact` compares the deadline with a time taken before its transaction and is visible only at its end; a listing that comes in between still sees the upload as finalizing and overdue, the cleanup deletes the final object, and then finds the row committed: a message shows a file whose bytes are gone | 0007-control-owned-chat-and-artifact-persistence.md:29: "reconciliation deletes both the staging locator and any partially promoted final locator before marking the upload abandoned"; durable-chat-and-artifacts.md:3: chat history and generated files "survive workspace stop, restart, node replacement, and runtime deletion" |
| `role_assignment` | a role assigned while it is updated or archived is inserted in a version that no longer counts, and the member's whole authority is then invalid, the protected role included, until somebody else unassigns the role or it is updated again | organization-rbac.md:36: "Effective authority is the union of the protected membership role and active custom-role versions." |

Four more are reached by the configurations at the end of [Runs](#runs): an edit that puts back a
next occurrence which another replaced (schedules.ts:241); an open written over an operation under
way, or over a suspension that has finished (service.ts:701); and the execution call of an approved
operation, which `executeGovernedTool` makes without the agent and invocation headers that the
callback requires (litellm-adapter/src/index.ts:1629, lemmacomputer_policy_callback.py:1581).

## What is not modelled

Inside the modelled parts: cron arithmetic and time zones (a library); the contents of
prompts, results, digests and consent documents, and the cryptography that verifies them (a
decision in the model is a verified one); the relays, networks and volumes around a
container; renaming, the egress update, `terminateRuntime` and administration commands of
a workspace; the idempotency keys of `create`, whose request identity is checked before
anything modelled here. In the ledger: corrections, rate cards and currencies (a price is given),
failures with billable units and no price, reports, the expiry column of a reservation
(nothing reads it), more than one threshold or team, and how a call is attributed to a team.
In the chat: retention classes and legal holds, the sessions of the agents' vendors, chat
memory, the library of files, the revival of a workspace. In the channels: which agent a
sender chose and the session a turn continues, the single-use grants by which tokens are
taken in, a rotation to the token of another bot, the suspension of a tenant.
In the memberships: the creation of an organization and its replay, its closure, single sign-on
and SCIM, the session of the bootstrap, second factors, rate limits, idempotency keys, earlier
invitations of an address, versions of the permission catalogue, teams, and the policy bundle.

Beside these, five things happen in the models and no property excludes them, as the code has no
way back: a row of `ChannelBroker` stays reserved when the broker stops before it stages a response; an
answer is replaced by the text of a failure when the statement after the staging fails; and
messages that the composition window confirmed early are lost when the poll then fails.
After a lapsed restart, or a failed stop and a failed create, a workspace may be shown with a
container of older grants, as above.
And when the workspace of a conversation is deleted with its content, a file that a fork in
another workspace shows stays in storage, but `getArtifact` joins the deleted conversation and
answers 404.

Outside them: connectors, sign-in, audit, activity and spend views are
transactions or queries on their own; the web application, the ingress and the gateway
proxy keep no state the others rely on; the agents in the container are third-party
programs. The remaining parts are in the plan.

## Plan

In order of importance:

1. `TenantJobs`: the leased job tables of tenant cleanup and alerts.
2. `ProviderSettings`: the saga over the database and the gateway.
3. Agent instances with the workspace's generation, and the publication of sites.
4. `Schedules` with the turn taken from `DurableChat`.

Proofs to add: the theorems of the modules above, once written; and `ReplacementsKeepGrants` with
suspensions and deletions, with an exception for the keys that an unfenced suspension revokes.
