# Perum: a TLA+ verification project

Perum runs schools for organizations. A control plane (`perum-core`) creates and
operates one Docker stack per school, on its own host or on rented nodes whose
agent is the same code (`perum-core/app/agent`). Each stack serves one school with
`perum-tenant` (FastAPI, PostgreSQL). `perum-web` and `perum-mobile` are the clients.

The project models the parts where several actors change shared state and a test
hardly reaches the interesting order of steps: three between the control plane,
nodes and schools, one on a node alone, and three on a phone against its school's
server. Each is model-checked on small instances and proved about for every
instance; the inventory and the plan say what is left.

## Running it

    tlc -workers 2 -config lifecycle_local.cfg MCSchoolLifecycle    # any .cfg with its MC module
    tlapm SchoolLifecycleProofs.tla                                 # any *Proofs module

`PROJECT.json` lists the runs with what they show, the mutant that breaks each
property, the source lines of every definition, the findings, the hazards and the
theorems.

## Inventory

| Component | State | Operations | Interacts with | What is hard | What makes it correct |
|---|---|---|---|---|---|
| School lifecycle (`core/routers/schools.py`, `services/school_provisioner.py`, `core/locks.py`) | `schools.status`, keyed asyncio locks, containers, volumes, dumps | create, reprovision, update, suspend, unsuspend, archive, purge | Docker, node agents, plan limits, rollout | status read before the lock; minutes of Docker work between commits; every Docker call can fail; core restart; lost answers of nodes | one chain per stack, no stored data lost, transitional statuses end, locks are freed, plan limit |
| Social rollout (`services/social_rollout.py`, `routers/social_rollout.py`, `routers/telemetry.py`, `agent/service.py`) | intent and generation, applied pair, `apply_status`, app environment, `_tasks`, heartbeats | set intent, reconcile, sweep, bring-up, update, agent apply, heartbeat ingest | lifecycle's lock, node agents, the app | delayed applies, rollbacks and heartbeats of old generations; retries while the agent still works | a generation stands for one intent; the app is not behind the row; a change is enforced or shown as failed |
| Support escalation (`tenant/modules/support/escalation.py`, `service.py`, `core/routers/support.py`) | school: status, outbox, cursor, receipts; core: approval, messages, ack cursor | escalate, retry, deliver, pull, acknowledge, decide, relay, reply | HTTP between app and core | lost and late requests, at-least-once delivery, concurrent acknowledgements, commits of stale answers | the school has exactly the organization's replies, in order; the organization's display is not ahead; statuses are true; every escalation ends |
| School support tickets (`tenant/modules/support`) | tickets, versions, messages, read cursors | create, reply, patch, assign, read | escalation | optimistic versions, repeated client actions | one effect per client action, monotone cursors |
| Organizations (`routers/organizations.py`, `org_self.py`) | organization and its schools' statuses | suspend/resume cascade, archive, delete | lifecycle | cascade decides from statuses read before the locks | a school suspended by hand stays suspended |
| Landing stacks (`tenant_provisioner.py`) | container per landing | deploy, remove | Docker, Caddy | as a school's stack without volumes | replacement or previous container |
| Exchange and market (`tenant/modules/exchange`, `market`) | balances, investments, stock | invest, cancel, weekly results, buy | the database | read-modify-write without locks | no amount lost, no double payment, stock not negative |
| Web rollout on a node (`agent/service.py`, `core/docker_client.py`, `main.py`) | journal row, containers `perum_web` and `perum_web.rollback`, routes, lock file | request, replace, validate, finalize, recover, startup task | core, Docker, Caddy | the agent dies or a Docker call fails, done or not, between any two steps | a proved container is always there; a clear journal means it serves; a rollout ends with its target or with what ran before |
| Sessions (`tenant/modules/auth`, `packages/api-client`, `mobile/src/auth`) | the server's current and previous refresh token; on the phone: registry, access token, clients of renders, refresh flight, traffic gate | call, refresh, rotate, commit, clear, descriptor, sign-out, launch | each other | several clients with copies of one token, late 401s, queued writes, the gate closing half-way, lost answers | a token is shown twice only after a real loss; what is published is stored; every call ends |
| Media (`tenant/modules/media`) | uploads, scan claims with leases | create, complete, scan, promote, clean up | scanner, object store | lease runs out during a scan | late verdicts are not committed |
| Mobile outboxes (`mobile/src/messages`, `support`) | rows of SQLite, one core per effect of a provider | submit, run, recover, retry, sign-out | the school's server | the app dies while sending; cores of old effects overlap with new ones; lost answers | nothing lost, nothing stored twice, a ticket in order, every message settles |
| Preference outbox (`mobile/src/preferences`, `tenant/modules/user_preferences`) | mutations with the version they are based on; the server's value, version, receipts | tap, send, recover, resolve a conflict | the server, other devices | a tap changes a mutation that is being sent; another device commits between read and write | a mutation ends decided, success is about the value sent, nothing is overwritten unseen |
| Other mobile outboxes (homework, exchange and market operations) | durable drafts | as above | tenant API | as above | as above |
| Traffic gate and descriptors (`mobile/src/auth`) | leases, revision ledger | accept a descriptor, close, switch account | all API calls | a request begun before a switch | no traffic under the wrong account |
| Nodes (`routers/nodes.py`, `enroll.py`, `services/node_*`) | tokens, capacity, heartbeats | enrol, monitor, plan | SSH, agent | mostly single-row updates | a token works once |
| DNS and Caddy, billing, releases, telemetry, notifications, news, academic modules, social messaging, push, web interface, deploy scripts | see `components` of `PROJECT.json` | | | | |

## Modules

    KeyedLocks --+--> SchoolLifecycle --> MCSchoolLifecycle
    SchoolStack -+        \-> SchoolLifecycleProofs
    KeyedLocks --+--> SocialRollout ----> MCSocialRollout,     SocialRolloutProofs
    FencedIntent +
    SupportChannel -> SupportEscalation -> MCSupportEscalation, SupportEscalationProofs
    OutboxPromise --> MobileOutbox -----> MCMobileOutbox,      MobileOutboxProofs
    VersionedSwitch > PreferencesOutbox -> MCPreferencesOutbox, PreferencesOutboxProofs
                      TenantSession ----> MCTenantSession,     TenantSessionProofs
    NodeWeb --------> WebRollout -------> MCWebRollout,        WebRolloutProofs

`FencedIntent`, `SupportChannel`, `OutboxPromise`, `VersionedSwitch` and `NodeWeb` are abstract specifications; the
module to the right of each is shown to implement it, by TLC on an instance and by a proof for all of them. A definition marked `MUTANT of X` in a comment
is a plausible bug of `X`; it takes part in nothing and is there to show that a property can fail.

In every module a worker's await (a Docker call, an HTTP request, a write of SQLite
or SecureStore, a commit) is a boundary of actions, and what it read before is kept
in the worker's record.

### KeyedLocks
`app/core/locks.py`: one FIFO queue of owners per key, its head holds the lock.
Locks live in the process: a restart of the core empties them.

### SchoolStack and SchoolLifecycle
`SchoolStack` is what Docker holds of each school (`cont`, `vols`), what users
stored (`data`, history), the dump files (`dumps`), and the *chains*: the sequences
of Docker calls of `provision_school`, `update_school`, `suspend_school`,
`unsuspend_school` and `deprovision_school` between two writes of the row. A chain is
cut where another actor can run or the process can die. Each of its steps may fail,
and a cleanup may stop anywhere, as `_safe_cleanup` does.

`SchoolLifecycle` adds the row's `status` and the jobs: a request or background task
in a slot of `Job` with its program counter and `view`, the status it loaded. `view`
is what makes check-then-act visible: `Save` writes an attribute only if it differs
from the loaded copy, as SQLAlchemy does with `expire_on_commit=False`. A school in
`Remote` is worked on by a node's agent, which has no keyed lock: the core may lose the
answer (`AnswerLost`) and the chain goes on detached.

The commit of "updating" or "provisioning", the refresh after it and the start of the task are separate
steps (`UpdateMark`, `ScheduleUpdate`; `MarkProvisioning`, `ScheduleProvision`); the organization's lock is held up to the
second. A purge may raise before it dumped anything, which leaves the status as it was (`PurgeRaises`).
A dump counts as one of the last content although the app still serves while it is made.

Left out: routes, DNS and landing pages; the organization's suspend cascade and
deletion; a request that is cancelled, or whose refresh fails, between the commit and the start of its task (a
restart there has the same effect on the row and is modelled); the node's own copy of the row; release ids; database failures before a
handler's `try`; what the app writes during `pg_dump` (a hazard of its own). A
subdomain whose row was deleted is another element of `School`.

### FencedIntent and SocialRollout
`FencedIntent` is what the fence of generations promises while pairs of a generation and a switch travel:
a pair is only ever read from the intent, an app runs a pair somebody was handed, a report tells of what an app
ran, and the functions are offered on a report of the present intent only. It has three actions: the intent
changes and takes the offer back, pairs are handed on, a report is made, accepted or lost. `SocialRollout` maps
the effective intent, every pair in the row, the containers, the node, the worker's records and the agent's calls, the
app's environment, the heartbeats and the snapshot, and what discovery answers.

One school. The row (`granted`, `enabled`, `generation`, `applied`, `status`), the
environment of the last started app container (`app`), the entry of `_tasks` (`task`), one
bring-up or update (`deploy`), both under the school's keyed lock, the calls in a node's agent (`call`),
the heartbeat under way and the snapshot discovery reads. Endpoint and ingest are one
step each, because both hold the row `FOR UPDATE` from read to commit. The task's load of the row
and its commit of "applying" are two steps (`TaskLoads`, `TaskBegins`), so a change between them is overwritten, as is
one during the apply. An apply is
cut at every Docker step: the container is replaced, found healthy, or rolled back. A node that is
unavailable, or answers with a 5xx of a proxy, may have taken the call and go on with it (`NodeUnavailable`).
`ChangeIsEnforced` is about every moment at which a change waits and no task or deploy in progress has read the row before it
(`Unopposed`): the others are those of finding 2, which no sweep takes up. It is settled by an apply, a report of the app, a failure that is shown, or
an "applying" that a restart cut off.
Answers to remote deploys are not lost (answers to applies are), and a
restart of the core drops a remote deploy.

### SupportChannel and SupportEscalation
`SupportChannel` is what the two organizations are promised: a question, one final
decision, replies sent in order and each once, received in order, and confirmed to the sender only after
they were received; a confirmation may be forgotten. It has five actions. A reply has a place in the
conversation of its ticket, and what was received and confirmed are sets of places without a gap.

`SupportEscalation` has the school's database (`esc`, `outbox`, `known`, `cursor`,
`receipts`), its one loop (`loop`, with the values it read before it waits), manual
retries in two steps (load, commit), requests under way (`intakes`, `acks`) and the core's
database (`approval`, `messages`, `acked`). A request may be lost, be handled while the loop waits, or be
handled when nobody waits any more. A failed commit, an unexpected exception and a
restart send the loop back to its start (`PullRollsBack`, `Interrupted`). Its refinement
mapping takes the id of a relay in `messages` for its place, the stored receipts for what was received and the
relays up to `outbound_ack_cursor` for what is confirmed.

The message ids of a ticket are its positions in `messages`: the ticket's row is updated, hence locked,
before the message is inserted, so the ids of one ticket follow the order of commits. The model takes this for granted: `InboxIsPrefix` and
`RelaysArrive` would not show a change of the code that inserts relays without that lock.
`intake_escalation` is one step (school row `FOR UPDATE`); `escalate_ticket` is one
step (an `UPDATE` that checks version and statuses again). `outbound_escalation` is two
reads, `ack_outbound` a read and a commit. There is one app process: the old
container is removed before the new one starts. Closed tickets, versions, assignment,
notifications and read cursors are left out; so is the limit of 20 rows a round, which the
backoff of the rows before it lifts; identical late requests are merged in a set.

### OutboxPromise and MobileOutbox
`OutboxPromise` is what the user is promised of a message that was written: it is kept until the
server has it, stored once, taken away unsent by a sign-out only, and in a support
ticket not before an earlier one that is kept.

`MobileOutbox` is the two message outboxes, which share their `outboxCore.ts` but for three points:
when a core may send (`CanSend`), which row is next (`Runnable`), and whether the
run goes on after a failure (`AfterFailure`). `Init` chooses which of them a behaviour is
about. Every effect of the provider makes a new core (`Mount`); an effect that is
cleaned up keeps what it awaits (`Unmount`), so the cores of two effects run
over the same rows. A core recovers rows a crash left in "sending" (`Recover`), picks
a row (`Pick`), marks it (`Mark`), asks again whether it may send
(`Recheck`), sends (`Send`), and writes the outcome. A request may be lost, stored without
its answer arriving, or stored after its caller gave up (`ArriveLate`). The server keeps the
`client_message_id` unique, so a second arrival stores nothing. The process may die anywhere,
the account may sign out, a capability may be taken away and given back. A sign-out is two steps: the
rows are deleted (`SignOut`), then the provider is left (`Leave`); in between the outbox still acts.
`retry()` asks for no state of the row, and neither does `RetryRead`.

Left out: read cursors, drafts, attachments, limits on the length of a queue, the
rows' `attempt` count beyond its effect on the state, and reads and writes of SQLite that fail. The order of
`(created_at, id)` is taken for the order in which messages are written, on which `TicketFifo` depends: two messages of
one millisecond, which the code orders by a random id, and a clock that is set back are not modelled.

### VersionedSwitch and PreferencesOutbox
The outbox of the preference switch with the endpoint it calls, in one module, since what
matters is between them: the version a mutation is based on, its idempotency key and the
server's receipt. `Choose` and `Put` are the two halves of a tap (read, then
`INSERT OR REPLACE`), between which a core may read the same row; `Resolve`,
`RemoveResolved` and `Put` are those of a resolved conflict. The endpoint reads the
version and commits in two steps; the key, the version compared in the `UPDATE` and the
other device (`OtherDevice`) meet there.

`VersionedSwitch` states what the two are for: a mutation is made for a version the preference has had, leaves
the outbox only when it is stored, given up or signed out, and is stored once, either as the version next to
the one it was made for (`Change`) or, if it asks for what was so then, at that version (`Agree`); the stored
receipt names that version and its value. The mapping takes the mutations with a row as the kept ones and
the receipts as the stored ones; requests, cores, transactions and conflicts are not visible in it.

### TenantSession
The session of one account. Server: the current refresh token, the one before it, whether the
session ended. Phone: the registry behind its queue of writes (`stored`, `queue`,
`writing`), the access token, the account state of `AuthProvider`, the traffic gate, the clients
of overlapping renders each with its copy of the token, calls, and the one refresh
flight per account that `packages/api-client` shares between clients. A token is
the number of the rotation that issued it. A call may be made with
the client of any render whose lease of the gate still holds. A 401 to a call whose access token was
rotated meanwhile is repeated (`LateRefusal`), any other starts the flight (it is "leading") or joins it ("waiting"); when the flight fails, those
who wait are rejected at once, the one that leads after it has cleared the account (`FlightFails`, `FlightEndsInError`),
and a call refused in between is rejected with the settled flight (`Rejected`). A
rotated token is committed through the registry's queue if the gate admits it
(`Commit`, `WriteStarts`, `RotationSaved`), otherwise forgotten (`lost`). A failed
refresh clears the account, as the code does, a broken connection included. A removal is two
steps: registry and access token (`RemovalSaved`), then local data and the account's state (`LocalDataRemoved`). Every write of the registry
may fail (`SaveFails`).

Left out: several accounts, sign-in itself, calls made after the account was removed, the screen's `busy` state, the contents of descriptors, push
registration at sign-in and sign-out, the web client.

### NodeWeb and WebRollout
`NodeWeb` is what users and the next start see of a node: the image it has, what it is being exchanged for, the
desired image, and what serves. An exchange begins, serves one of the two images or nothing while it lasts, and
ends with the new image as the desired one or with the old one and nothing changed; outside an exchange the
node's image serves. `WebRollout` maps the row's previous image and target to the two images while a journal is
open, and the running container to the node's image otherwise.

`WebRollout` is the agent's side of a Web rollout. `row` is the journal in `AgentState`; `web` and `backup`
are the containers by name; `routed` says that Caddy's routes lead to the running one. A swap
un-routes the Web, because routes dial the container's address, until the next
resync. There are two workers, the task at the start of the agent and the request that is served; each
has its own copy of the row (`view`), and a commit writes the columns it changed
(`Written`). `opened` says whether its transaction has read the row and committed
nothing yet: then a rollback expires the copy, and it is read anew (`SetBack`). Every
call of Docker may fail, done or not (`Docker`); the agent may die between any two
steps (`Die`) and Docker starts it again (`Boot`).

The row is read and the lock taken in one step, as nothing is awaited between the answer of the
database and the lock. A request that finds the lock taken, is for another
repository, or comes before enrolment changes nothing and is no step. `Validate` is one step
(digest, health, identity, routes); its failure may come before or after the routes. A failure
of the database is modelled as a death only. A call of Docker that is under way when the agent dies is done or not; one that the daemon finishes after the agent is back
is not modelled. That other containers changed is one of the failures
of `Swapped` and `ValidateTarget`. The core's time limit of 300 s has no effect on the agent. A container
that stops by itself is not modelled.

The task at the start recovers *without* the lock (`service.py:793`), beside the
requests. A request served meanwhile sets the history `overlapped`, and the
properties speak of the behaviours without it: in the others they fail (see Findings).

## Runs

| Run | Instance | Shows |
|---|---|---|
| `lifecycle_local` | 1 local school, 2 jobs, every request, failures, restarts | `OneChainPerStack`, `NoUnbackedLoss`, `RowOutlivesData`, `LocksMatchJobs` |
| `lifecycle_live` | 1 local school, 2 jobs, every request, no restart | `LocalSettles`: "provisioning" and "updating" end by themselves |
| `lifecycle_node` | 1 school on a node, 2 jobs | `JobsEnd`: no lock is kept, though the node refuses or never answers |
| `lifecycle_plan` | 2 schools, limit 1 | finding: `WithinPlan` is violated |
| `rollout` | either placement, 1 agent call, 2 attempts, 2 changes, failures, restarts | `ImplementsFence`, `AppNotBehind`, `ChangeIsEnforced` |
| `rollout_race` | host, 4 attempts, 3 changes, no failures | finding: `RevokeReachesApp` is violated |
| `escalation_safe` | 1 ticket, 2 relays, 2 retries, 2 attempts, 3 messages | `ImplementsChannel`, `InboxIsPrefix`, `DeliveredIsStored`, `StatusIsTrue` |
| `escalation_live` | 1 ticket, 1 relay, 2 retries, 2 attempts, 3 messages | `DeliveryEnds`, `RelaysArrive` |
| `outbox` | either outbox, 2 messages of one thread, 2 effects, 2 troubles | `NothingLost`, `TicketFifo`, `ImplementsPromise`, `EveryMessageSettles` |
| `preferences` | 2 choices, 2 effects, 1 trouble, 1 change by another device | `RemovedIsDecided`, `SuccessMeansStored`, `ImplementsSwitch`, `EveryMutationSettles` |
| `session` | 2 clients, 2 calls, 2 troubles | `ReuseHasACause`, `PublishedIsStored`, `EveryCallEnds` |
| `web_rollout` | 3 images of which 1 never becomes healthy, 3 troubles | `ClearRowServes`, `WebIsKept`, `EndsWithOneOfTwo`, `ImplementsNodeWeb`, `JournalEnds` |

Every passing run of a component checks its `TypeOK` too, except those that only add liveness.

### Bounds
- `Job`: two slots suffice for every race of two requests on one school; a third only
  queues behind them. The proofs hold for any number.
- `School`: one, as schools meet only in the plan limit (two in `lifecycle_plan`).
- `MaxGeneration`, `Attempts` of the rollout: two changes give an old and a new pair,
  two attempts a retry; `rollout_race` has the code's four attempts and three
  changes.
- `Call` of the rollout: one agent call under way in TLC, given up or awaited; the
  proofs hold for any number.
- `MaxAttempts` (8 in the code), `MaxMessages` of the escalation: two attempts reach both outcomes of
  `delivery_is_terminal`; three messages are the school's own and two relays, or one relay and a
  reply of the platform between.
- `Retry`: two, because the interesting retry is the one that loaded a dead letter
  which another retry has revived meanwhile.
- One ticket of the escalation: tickets share only the order in which the loop visits them.
- `Effect`: two, the effect that was cleaned up and the mounted one; `MaxMessages`
  and `MaxChoices` of the outboxes: two, the first and one behind it.
- `Client` and `Call` of the session: an old and a new render, and a call that is
  late while another refreshes.
- `MaxTroubles` is a budget for what the environment does: deaths, losses, remounts, sign-outs,
  expiries, failed calls. Two are a trouble and one during what follows
  from it; the rollout of the Web has three, so that the recovery of a
  recovery fails too. The proofs hold for any number.
- `Image`: an image that runs, one to go to, and one that never becomes healthy.

### Fairness
- Lifecycle: `JobStep` of every slot. The event loop runs every task that can run and
  a Docker or HTTP call returns or times out. Requests and restarts are not fair.
- Rollout: the task, the sweep, deploys and agent calls. Changes, heartbeats, failures and
  restarts are not fair; `ChangeIsEnforced` assumes that restarts and failures to reach the node stop.
- Escalation: the loop, the core's handlers and the passing of `next_attempt_at`. Nothing
  is assumed of admins. `DeliveryEnds` assumes that interruptions stop,
  `RelaysArrive` that failing requests stop too.
- Message outboxes: the five-second timer of a mounted effect starts its core again and
  again, promises settle, back-offs end, a request is answered or fails, React runs
  the effect after a render, a capability comes back.
- Preference outbox: as above, but no timer exists; that a mounted effect sees
  the network or the application come back again and again is an assumption about the phone.
- Session: calls, the flight, writes of the registry and the removal of local data end.
- Web rollout: Docker restarts the agent (its restart policy) and begun work goes on. `JournalEnds`
  assumes in its statement that requests keep coming: a journal left by a recovery that failed is
  taken up by the next request or restart only.

`CHECK_DEADLOCK FALSE` is set where the system may stop: when every school is purged
(lifecycle), and when the bounded user, calls and troubles are used up (`outbox`,
`preferences`, `session`).

## Findings

Two runs show that the code does not do what the repository says of it:

1. `lifecycle_plan`: `reprovision_school` decides from the status it loaded before
   the organization's lock whether the plan limit applies; a school archived
   meanwhile comes back without a check.
2. `rollout_race`: a change during the apply of the previous generation finds its
   schedule a no-op, and the apply's commit overwrites "enforcement_pending"; nobody
   takes the change up.

Met while modelling, without a run of its own; the models contain these steps, and the
properties are stated so that they hold with them:

- Lifecycle: `unsuspend_school_endpoint` checks the status before it waits for the school's
  lock, and behind an archive it makes an archived school "active" without
  containers. A node that refuses a purge answers 200 with `success=false`, and the
  core deletes the row. A restart of the core leaves a school "provisioning".
- Social rollout on a node: the agent's apply has no lock and no fence, so a call the core
  gave up can put an older pair into the app after a newer one was applied.
- Session: a 401 is compared with a rotation that happened meanwhile only if the call carried an access
  token (`api-client/src/index.ts:247`). Two calls without one, by clients of two
  renders, refresh with copies of the same token (`auth/api.ts:50`), and the second one ends the
  session (`auth/service.py:63`). `ReuseHasACause` names this cause (`blind`) beside
  real losses. Any failed refresh clears the account (`index.ts:202`), its outboxes included. A
  rotated token is forgotten if the gate closes during the refresh.
- Chat messages may overtake each other after a failure (a row in "retry_wait" holds
  nothing back); `TicketFifo` is about support tickets. There, a failed message
  holds back its ticket until the user retries it.
- Preferences: overlapping cores may answer their own mutation with a conflict; a
  tap during a send may be lost with the row; a crash between the two writes of a resolved conflict
  drops the user's choice (it is in `closed`).
- Web rollout: the task at the start of the agent recovers without the lock while requests are
  served (`main.py:254`, `service.py:793`), and may remove the backup or clear the
  journal of a rollout that has just begun; `CHANGELOG.md:24` calls rollouts serialized and
  recovered after a crash. The shortest trace to a node without any Web container (13 states,
  no failed call): the agent is restarted; a request opens a rollout (journal "prepared"); the start-up task reads this journal,
  finds the running container to be the previous one and in order, and is about to remove what has the backup's name; the
  request renames the running container to that name; the task removes it. TLC
  finds this if `~ overlapped` is taken out of `WebIsKept`.

## Proofs

Every theorem holds for all values of the constants under the `ASSUME`s of the component's modules,
which say only that the default values differ from the real ones and that bounds are numbers.

`SchoolLifecycleProofs` (`StackExclusion`, `NothingLost`, `RowDeletedAfterDump`, `LocksFollowJobs`,
`TypeCorrect`). `NoUnbackedLoss` is not inductive: whether a chain may delete a volume
depends on what the chain did before. `IInv` adds: who is past a lock's queue heads it (`JobInv`,
`LockInv`); only a job that awaits has a chain on a local school (`AwaitInv`, `ChainInv`), so by the lock
no other chain moves the stack; a purge that is about to wipe has dumped
every volume that holds data (`DumpInv`); and the volumes a bring-up would remove never held any (`MadeInv`). `LocksMatchJobs` is inductive
beside `IInv`: each step of a job joins one queue, leaves one, does both or neither, and its place in
the code says which (`MoveMatches`).

`SocialRolloutProofs` (`FencingHolds`, `HostAppNotBehind`, `RolloutKeepsPromise`, `TypeCorrect`). `IInv`
strengthens the two properties with the lock's ownership (`LockInv`), the host's lack of
agent calls (`HostInv`), and for the task and the deploy what the pair they hold is relative to row and
app (`TaskInv`, `DeployInv`). `DefaultInv` says that generation 0 is off. In the refinement of `FencedIntent` every
step but a change and a report only hands pairs on (`WorksHandOn`); `IdleInv` says that a task which rests holds
nothing. A change leaves all reports behind, as none has its generation yet; this is `GenerationFencing`,
which the refinement implies: no run checks it of its own, and it is proved for itself.

`SupportEscalationProofs` (`InboxComplete`, `DisplayNotAhead`, `StatusHolds`, `EscalationKeepsPromise`,
`TypeCorrect`). The rows of an answer on its way are the first relays after the cursor (`RowsInv`): what was
relayed since has a higher id. Every cursor the core or an acknowledgement holds is
behind the school's (`CursorInv`), which is why an acknowledgement that moves the core's
cursor back does no harm. What an answer said of the decision still holds (`SeenInv`), as a
decision is final. A row selected for delivery stays deliverable with an attempt left
(`DeliverInv`), since a retry takes dead letters only. The refinement of `SupportChannel` is proved action
by action: a step of the core on the approval is `Ask` or `Decide`, a relay is `Send` at a higher place than
all before (`RelaysGrow`), storing an answer is `Receive` without a gap because of `RowsInv` and
`InboxIsPrefix`, an acknowledgement is `Confirm` because of `CursorInv`; all others stutter.

`MobileOutboxProofs` (`MessagesAreKept`, `TicketsAreFifo`, `OutboxKeepsPromise`,
`TypeCorrect`). A row is removed by a core that was told of a success, hence the server must
have that message (`SuccessInv`). A core of an old effect may send long after it
picked its row; that nothing before it is unsent by then is `ClearedInv`, which needs
`NothingLost` for rows that are gone. The refinement of `OutboxPromise` is proved: each
action maps to a step of the promise or to a stutter.

`PreferencesOutboxProofs` (`RemovedAreDecided`, `SuccessesAreStored`,
`NothingOverwrittenUnseen`, `SwitchKeepsPromise`, `TypeCorrect`). `RequestInv` ties a request under way to the copy its
core holds, though the row may have another value by now, and the version a
transaction has read to the mutation's base. The refinement of `VersionedSwitch` needs `SwitchInv` beside
`IInv`: whoever holds a mutation holds one that was made, a conflict names a version the server has had
(a mutation made from it is then one of such a version), and a transaction knows whether its mutation agrees with the
value of the version it has read, which is the parity of the version. A commit is `Change` because the `UPDATE`
names the version that was read, or `Agree`; the write of a row keeps a mutation or, after a success, forgets one.
`NoUnseenOverwrite`, which the refinement implies and no run checks of its own, is proved for itself.

`TenantSessionProofs` (`ReuseIsExplained`, `PublishedAreStored`, `TypeCorrect`). What a flight shows
the server is current (`PostedInv`), because every call that may be refused belongs to a
client with the current token (every client there is, and the account: `AgedInv`, `CallInv`) unless a token was lost; registry and
access token are those of the last rotation except while it is being committed
(`RotationInv`); one write of the flight at most waits in the queue (`QueueInv`).

`WebRolloutProofs` (`TheWebIsKept`, `ClearRowsServe`, `RolloutsEnd`, `NodeKeepsPromise`, `TypeCorrect`). While a
rollout is on record the containers are in one of three positions, from which recovery can
go on or back (`Resumable`): the old one in its place, aside, or gone with the
target proved. At each of the 33 places of the code the position is known and the worker's
copy is the row (`InPlace`), as long as one worker is at work (`Sole`). For the refinement of `NodeWeb`, a step
either leaves the row, and the containers too if no journal is open, or writes one of five things to the
row and touches no container (`Moves`, `StepMoves`); each of these is a step of `NodeWeb` or a
stutter, by what `Resumable` says before and after it (`MovesMap`). As the other properties, the refinement
speaks of the steps until a request overlaps with the task at the start.

Two conventions of the proofs: no `EXCEPT` names the same element twice
(`[f EXCEPT ![x] = [@ EXCEPT !.a = .., !.b = ..]]` instead), since the SMT translation
of the other form lets it prove anything; and every action of every module was
tried as a hypothesis for `FALSE`, which no prover found.

Only model-checked: liveness (`LocalSettles`, `JobsEnd`, `ChangeIsEnforced`,
`DeliveryEnds`, `RelaysArrive`, `EveryMessageSettles`, `EveryMutationSettles`,
`EveryCallEnds`, `JournalEnds`), which is out of the prover's reach. Every invariant, action property and
refinement that a passing run checks has its theorem.

## Not modelled

The components marked `not_modelled` in `PROJECT.json` with the reason of each. Those with
interleavings worth a module are in the plan. Most of the TypeScript of the repository
is generated API types (`packages/api-schema`, `perum-web/src/types`) and pages and
components that show one response and send one request: they hold no state that two actors
change. The deploy scripts and contract checkers are sequential tools. Data that no
property distinguishes (texts, names, layout, pagination, metrics) is left out everywhere.

## Plan

Done: the seven components of the module diagram with their proofs.

Next, in this order:
1. `Wallet`: exchange and market. Reads and writes of balances, investments and
   stock as steps of two requests and the weekly job; abstract specification: a ledger whose
   operations are atomic. Properties: no amount lost, an investment paid once, the session's limit, stock
   not negative. Runs: two students' requests and one job.
2. `MediaScan`: claims with leases and attempts; a verdict is committed only under
   its own claim. Theorem: one owner per claim.
3. The organization's cascade and deletion as more actions of `SchoolLifecycle`.
4. The core's fan-out of Web rollouts (`web_rollout.py`), composed with `WebRollout`.
5. The other mobile outboxes, and the revision ledger and account switch of the traffic gate.

Each of them with an abstract specification and a proof, as the seven have.
