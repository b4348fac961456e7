# TLA+ models of CodeSpar

CodeSpar runs agents for software projects: chat channels and an HTTP API feed
messages to agents that deploy, review, fix and report, with approvals, tool
servers (MCP) behind sessions, and payment mandates. It is a Node.js process
(TypeScript); what is hard in it is asynchronous: promises, timers, child
processes, files and webhooks whose callbacks interleave between two awaits.

The modules here model the parts whose correctness rests on such interleavings.
TLC checks them on small instances; TLAPS proves theorems about some of
them for all values of the constants. Paths below are under `src/packages/`.

## Inventory

| Component | State | Operations | Hard behaviour | What makes it correct |
|---|---|---|---|---|
| MCP process manager, `core/src/mcp/process-manager.ts` | cache of child handles per (session, server); per handle: pending requests, FIFO of ids, timers, `exited` | `call`, `listTools`, `closeSession`; stdout, exit and error events, timeouts, kill timer | replies out of order, late or twice; a child dying with requests in flight; closing while a call spawns; a failed spawn | every call settles once with its own result; the cache is exact; closing ends |
| HTTP sessions, `core/src/server/routes/sessions.ts`, `sessions/`, `chat-loop/` | session status; running chat loops and streams; counters of mocks | create, execute, send, DELETE | a call between the start and the end of a DELETE; a chat loop that outlives its session; a stream and its loop waking each other; calls sharing a counter | no child outlives its session; mocks answer in order; streams end |
| Channel sessions, `findOrCreateSession`, and the WhatsApp adapter | session rows; the cache of seen events | webhook, find, touch, expire, create | two messages at once; a touch after a close; a webhook delivered again | one active session per user; a message handled once |
| Slack adapter, `channels/slack`, and installations, `oauth-github.ts` | installations per team, the last team | mention, message, click, reply; callback | another team's mention while a reply is awaited; a save that fails between two | a reply uses its own team's token |
| Channel routes and alerts, `core/src/routing`, `routes/channel-routing.ts`, `agents/supervisor` | a router with its routes, the copy the alerts use, the stored list | list, put, remove; alert | first requests that load at once; saves that overtake each other; a restart | the stored list is what the changes made; alerts go where routes send them |
| Mandate store, `core/src/mandate/file-backend.ts` | cache, `loaded`, write queue, data file | `put`, `get`, `getActive`, `markUsed`, `markRevoked`, `load` | concurrent loads, failing writes, crashes | used at most once, never after a revocation, acknowledged = durable |
| Mandate generator, deny list, `core/src/mandate` | the backend's mandates, an ordered set | create, use, revoke, isValid, deny | synchronous calls of an asynchronous backend; eviction | one use; a denied id stays denied until pushed out |
| Approvals and deploys, `core/src/approval`, `agents/deploy`, `agents/project` | requests and votes, shared; deploy history per agent | request, approve, roll back, dashboard vote, auto deploy | follow-ups of votes end out of order or fail; votes through several channels | no deploy without its quorum; a quorum is followed by the deploy |
| Coding tasks, `agents/task`, `agents/project`, `core/src/execution/claude-bridge.ts` | slots, a waiting list, branches at GitHub | instruct, fix | tasks that share a branch, pushes of others, failures at any await | slots and tasks agree; every task is answered; no commit undoes another |
| Project agent's state, `agents/project`, `server/start.mjs` | state, autonomy level, task count; two stores of it | messages, CI events, dashboard actions, start | saves that overlap, crashes, two stores read one over the other | a level that was chosen survives |
| Agents and projects, `agents/supervisor`, `routes/agents.ts`, `core/src/router` | running agents, routes, lists of projects | create, delete, restart, restore | a failure or a restart in the middle | agents and lists agree |
| Coordinator, `agents/coordinator` | projects and agents it was told of, cascades | register, status, forward, cascade | creations that overlap | it follows the router; cascades keep their order |
| Deploy webhooks, `routes/webhooks.ts`, and the health monitor, `core/src/observability` | seen deliveries, incidents, monitors with timers | deliver, monitor, check, cancel | overlapping checks, timeouts, deliveries repeated or after a restart | one alert, a verdict, a rollback only after two bad counts |
| Scheduler, `core/src/scheduler` | tasks and timers by name | schedule, cancel, pause, shutdown | an immediate run awaited before the timer exists | a cancelled or replaced task never runs again |
| Container pool and sandbox, `core/src/execution` | available and active containers | warm up, acquire, release, drain; execute, cleanup | room checked before an await; Docker failing at any call | exclusive use, nothing leaks |
| Task queue and event bus, `core/src/queue` | Redis streams, groups, channels, or arrays | enqueue, dequeue, acknowledge; publish, subscribe | Redis flushed, connections lost, resubscribing | order, and once |
| File storage, `core/src/storage/file-storage.ts` | JSON files | every read and change | unlocked read-modify-write, truncation | nothing is lost but by an overlap |
| Postgres storage, `core/src/storage/pg-storage.ts` | tables | projects, sessions | statements of several requests interleave | one default project |
| Credentials, `core/src/server/api-token.ts`, `webhook-secret.ts` | files, a config row, hooks at GitHub | resolve, provision, reconcile | replicas or requests at once | what was handed out is what is stored |
| A2A client, routes and policy, `core/src/a2a` | tasks in memory; spending windows | submit, cancel, status; evaluate, record | retries of what was obeyed; calls in flight | no second task; overspending is bounded |
| Rate limit, `core/src/server/webhook-server.ts` | entries per key | check, clean up | window borders | at most two windows' worth |
| Plugins, `core/src/plugins` | hooks by name | load, register, dispatch | names claimed twice, late registrations | a name goes to its plugin |
| Semantic memory, `core/src/memory` | entries with vectors, weights | add, search, reindex | weights out of date | a match ranks first |
| Discord, Telegram and CLI adapters; incident, review, lens and planning agents | little of their own | I/O, parsing, formatting | | |

Who talks to whom: channel adapters and HTTP routes call the supervisor's
router, which calls a project agent or the coordinator; a project agent calls
its deploy agent and task agents. Deploy agents of all projects and the
dashboard's vote route share one `ApprovalManager`. The session routes and the
chat loop share one MCP bridge, which wraps one process manager. Deploy webhooks
start health monitors. All of them append to the audit log in storage, and most
await that write between two changes of their own state.

`PROJECT.json` lists the components with their status and the hazards with
their lines.

## Modules

| Module | Models |
|---|---|
| `McpBridge` | the process manager, its children and their events |
| `McpSessions` | EXTENDS it with the routes, the session status and chat loops |
| `ChatSession` | the tool calls of one session: mocks, `/execute`, the chat loop, its stream |
| `ChannelSessions` | WhatsApp's webhook up to the session and its answer |
| `SlackTeams` | Slack's installations and replies of several workspaces |
| `ChannelRoutes` | the dashboard's routes and where alerts go |
| `MandateLedger` | what a persistent mandate backend promises |
| `MandateFile` | the file backend, shown to implement the ledger |
| `MandateGenerator` | the generator over either kind of backend, with the deny list |
| `Deployments` | approval manager, deploy agents, project agent's guards, dashboard votes |
| `TaskAgents` | coding tasks from the command to the pull request |
| `AgentDesk` | one project agent's state and its saves, through crashes |
| `AgentFleet` | which agents run and for which projects |
| `Coordinator` | the coordinator beside the router |
| `HealthMonitor`, `Webhooks` | the watch over a deploy; EXTENDS it with deliveries and alerts |
| `WebhookSecrets`, `ApiToken` | GitHub's signing secret; the API token of several replicas |
| `Scheduler`, `ContainerPool`, `DockerSandbox` | these components |
| `TaskQueues`, `LiveEvents` | the queues; the event bus and the dashboard's clients |
| `FileStore`, `PgProjects` | one file of the file storage; projects in Postgres |
| `A2ATasks`, `OutboundPolicy`, `RateLimiter` | tasks at another runtime; budgets; the rate limit |
| `Plugins`, `VectorMemory` | these components |
| `Undefined` | the constant `None` they share |
| `McpBridgeProofs`, `McpSessionsProofs`, `MandateFileProofs`, `DeploymentsProofs`, `TaskAgentsProofs`, `WebhooksProofs` | theorems about the module they are named after (`WebhooksProofs`: with `HealthMonitor`) |
| `StorageProofs` | theorems about `PgProjects`, `FileStore`, `ApiToken`, `VectorMemory`, `MandateGenerator` and `WebhookSecrets` |
| `ServicesProofs` | theorems about the other modules that `MCServices` puts side by side, and about all of them together |
| `MC*` | model values, sets for the constants, symmetry; `MCServices` puts the small modules side by side |

### Granularity

JavaScript runs one macrotask at a time to its end, with the microtasks it
queues. A step of `McpBridge` is such a macrotask: no handler of the process
manager overlaps another, and the continuation of a settled promise belongs to
the step that settles it (`ExitEvent` includes the continuations of every
`#killChild` that waits for it). In the other modules each await on a file, a
database, Docker, GitHub, a model or the audit log ends a step. Two processes
(`ApiToken`, `TaskQueues`, the passes of `WebhookSecrets`) interleave at every
access to what they share.

### McpBridge

`children`, `pending`, `pendingOrder`, `nextRpcId` are the fields of the code;
`proc` is what the operating system and Node know of a process: *alive*, *dead*
(ended, exit event not delivered), *exited* (delivered, `handle.exited`), and
*failed* for a spawn that emitted only an error. A request or reply is reduced
to its id and the call it belongs to; a line of stdout to its kind: a result, a
result of unknown shape, an error, no JSON, or JSON without an id. The child
answers what it was sent, in any order, however late, several times or never.
Buffering of partial lines and stderr are left out. A write to a child that
has ended is dropped: Node reports it, if at all, by an event on the stream.

`call` and `listTools` differ only in what they make of a result, so both are
`Submit`. `closeSession` begins in `CloseSession`; the SIGTERM has no effect of
its own, since a child may end or ignore it (`ChildDies`), and `SigKill` is the
timer two seconds later. Each closeSession has its own set of awaited handles
and kill timers, because each registers its own listener.

### McpSessions and ChatSession

`Execute` checks the status and calls in one macrotask: `getSessionById` finds
HTTP sessions in memory and its promise is already resolved. A chat loop checks
the status once (`Send`), lists the tools of every server and then makes calls
one at a time, with a model's reply of any length in between. `Delete` and
`ChildExit` mark the session closed in the step in which closeSession returns.
Two history variables note what the properties are about: `overlapped`, the
sessions for which a call was made after a DELETE had begun, and `inFlight`, of
the calls each DELETE found in flight those without an answer yet.

`ChatSession` has what `McpSessions` leaves open: whether a tool is answered by
a mock, a plugin's hook, the built-in tool or a server (`AnswerByMock`, the
branches of `/execute` and of the loop), the turns a loop builds for the model,
and the stream, whose consumer sleeps on a promise that the loop's events
resolve. It has no closing; the two share no state but the session's status.

### ChannelSessions and SlackTeams

A delivery of WhatsApp's webhook is looked up in the deduplication cache, marked
seen and acknowledged, and then handled by the bridge of `start.mjs`, which
nobody awaits: find a session, touch it or create one, answer. `together` and
`forgotten` are history: handlers that another one or a DELETE came between,
and events the cache has evicted. `SlackTeams` has the adapter with
`_lastTeamId`, the look-up of a token when a reply is sent, and the callback
that stores an installation for an organization and then for the bot.

### MandateLedger, MandateFile, MandateGenerator

The ledger is the state on disk. In the abstract specification a call is asked,
takes effect at most once in a `Commit` step if the ledger allows it, and is
answered *ok* only after that. A failed call may still take effect later: the
file backend leaves its change in memory and a later flush writes it. Time
stamps are the calls that set them, so that "used once" can be told from "used
twice with the later stamp". `openedFirst` says whether the backend comes from
`open()` or from `new`, in which case the first calls load the file. What is
read is merged entry by entry as the code does. `Crash` ends the process and
starts another on the same file. A mandate file with malformed contents is left
out, except as a load that throws (`ReadFails`).

`MandateGenerator` puts the generator's calls on top, in both forms, over a
backend that answers at once or by a promise; the latter is taken as applying a
call in one step or failing, which `MandateFile` justifies for an opened store.

### Deployments and TaskAgents

Tokens are positions in the sequence of requests. `Approve` is `handleApprove`
up to its await, `FinishApprove` the rest, found through `EntryFor`, which is
the token's id and the first entry with that id; `AuditFails` is an audit write
that throws. Requests by deploy and by rollback are actions, with the id of a
rollback, a time stamp, free to coincide with another of the same agent.
`strayed` is a history variable: tokens with a vote whose follow-up went missing. Chat
has no message for a denial, the dashboard has.

In `TaskAgents` a task is admitted or waits, fetches the repository, asks
Claude, and commits file by file, either through the bridge or through
`maybeCreatePR`. Branches are those at GitHub: a file there is the version of
the default branch it goes back to, with the set of tasks whose edits are in it;
a sha stands for exactly that, and a commit with another sha is refused.

### AgentDesk, AgentFleet, Coordinator

`AgentDesk` follows one agent: each message and event saves the number of
tasks through a read and a write of the memory file, which holds the level too;
the dashboard and the stop of the process write the agents' states; a start
reads one over the other. `AgentFleet` has the maps of supervisor and router,
the lists in storage and the requests that change both, step by step, with a
restart of the process at any point. `Coordinator` adds the agents the
coordinator was told of and its cascades.

### HealthMonitor, Webhooks

A check is counting, found healthy or unhealthy, or in its callback; `streak`
counts unhealthy ones. Checks of one monitor overlap. `Webhooks` EXTENDS it:
a delivery checks the map of recent ones and the audit log, alerts, records
and starts a watch. `excused` is a history variable with the cases in which a
second alert is unavoidable (see `AlertedOnce`).

### The small modules

`Scheduler`: timers, runs in flight and tasks waiting for their first run.
`ContainerPool` and `DockerSandbox`: the lists, what a release or a drain has
in hand, and a container per execution with Docker calls that fail before or
after having effect. `FileStore` has an operation's read and write, truncation
as a step of its own; `PgProjects` a statement per step. `WebhookSecrets`
has a config row, the secret in each GitHub hook and the marks on projects.
`ApiToken` interleaves replicas at each file access. `TaskQueues` has stream,
group, pending list and what Redis loses; `LiveEvents` the bus and both its
connections, in memory or over Redis. Both send commands by one shared
ioredis client, which after a lost connection sends again, in order, every command without
a reply, and fails them when it cannot connect: a command may take effect twice, or take
effect and be reported as failed. `Enqueue` and `Dequeue` do so at once (`times`,
`answered`); `LiveEvents` keeps the commands without a reply (`unanswered`) and how many of
them Redis has executed on this connection (`executed`), and a message remembers
over how many connections its PUBLISH was sent. `A2ATasks` has requests that are
repeated, arrive late or lose their reply. `OutboundPolicy`, `RateLimiter`
count time in ticks. `Plugins` loads specs in order, with registrations that
come late. `ChannelRoutes` has a router per request that made one, since two first
requests make one each; an alert's type and project are one value, its kind,
and a route is the set of kinds it matches. `VectorMemory` keeps a weight per term by its sign, for entries of
one distinct term each.

## What the runs check

| Run | Instance | Shows |
|---|---|---|
| `bridge_calls` | one key, 3 calls (one untimed, one listTools), 2 spawns, one closeSession, 1 unread line | `NoLostCall`, `ReplyIsOwn`, `SettledOnce`, `OldestTakesTheBlame`: replies, timers and exits in all orders, with a respawn after the first child |
| `bridge_live` | 2 sessions, 2 servers (one unknown), 2 calls (one whose write throws), 2 closeSession calls, fair | `CacheIsExact`, `CloseIsScoped`, `TimedCallSettles`, `CloseSessionReturns` |
| `bridge_spawnfail` | a command that cannot be spawned, fair | **violated**: closeSession never returns |
| `sessions_lifecycle` | one execute, one chat loop that lists and calls, 2 DELETEs | `QuietCloseLeavesNoChild`, `DeleteAnswersCalls`: every call a DELETE finds in flight has its answer when it returns |
| `sessions_execute` | 2 servers, 2 executes, one DELETE | **violated**: a child is alive when the 204 is sent |
| `mandate_ledger` | one mandate, 3 calls, opened first or not, failing writes, crashes, fair | `AcknowledgedIsDurable`, `UsedOnce`, `CallIsAnswered`, and `ImplementsLedger`: the abstract specification |
| `deployments_quorum` | 2 agents, 3 users, 2 requests, 1 automatic deploy | `DeployedWithQuorum`, `DeployedIsFinal`, `FollowedUpVotesAgree` |
| `deployments_prod` | 1 agent, 1 request, with the spelling `prod` | **violated**: production without two approvals |
| `tasks_slots` | 3 tasks, 2 slots, one file, one push, fair | `SlotsMatchTasks`, `TaskIsAnswered`, `CommitsUndoNothing` |
| `tasks_applied` | 2 tasks, 2 files, 2 windows | **violated**: an answer says a refused change was applied |
| `webhooks_watch` | 2 deliveries of 2 deploys or an issue, 2 checks, a restart, fair | `WebhooksHold` (`AlertedOnce` and `ArmedIsRegistered`), `RollbackNeedsTwoCounts`, `WatchEnds` |
| `services` | 22 small modules, one in each behaviour | the invariants below |

`services` checks `ServicesTypeOK`, the type invariant of the part that runs, and:

| Property | Part | States |
|---|---|---|
| `TicksAreRegistered` | scheduler | no interval outlives its registration |
| `ContainersHold` | pool, sandbox | exclusive use; none forgotten; nothing runs on after its answer |
| `KeepsOneDefault` | projects | an organization has one default project |
| `LostOnlyByOverlap` | file | a change is lost only to one that overlapped it |
| `MessagesFindTheirWay` | hooks, slack, routes | handled once, one active session; replies with their team's token; alerts where the routes send them |
| `MarkedHooksVerify` | secrets | GitHub signs with the secret that verifies |
| `AgentsFollowLists` | fleet | listed projects have one agent, others none |
| `SessionAnswers` | chat | mocks in order, paired turns, streams that wake |
| `ChoiceSurvives` | desk | a confirmed level is the one a start gives |
| `CallsKeepLimits` | a2a, policy, rates | no second task; overspending bounded by what overlaps; at most two windows |
| `ServesItsFile` | token | a replica serves the token of its file |
| `NamesKeepTheirPlugin` | plugins | dispatch goes to the plugin that owns the name |
| `DeliveredInOrder` | events, queues | tasks in order and once; events in order, again only after a lost connection or a second subscription |
| `PermitsHold` | permits | one use, none after a revocation; denied until pushed out |
| `CoordinatorKeepsUp` | coordinator | it has the router's agents; cascades keep their order |
| `ReindexedRanksMatches` | vectors | after a reindex an exact match ranks first |

Most of these have an exception, stated with the property: the interleaving or
failure in which the code cannot or does not keep what it keeps otherwise,
recorded by a history variable. Dropping the exception gives a counterexample;
the more telling ones are among the observations below.

The violated properties state what a comment or a text of the repository says;
the findings in `PROJECT.json` quote it.

### Bounds, and why they are enough

Invariants and action properties are proved for every value of the constants (below), so
that for them the bounds decide only whether the interesting states are reached at all:
each property is refuted under the same bounds by a mutated definition of the model. For
liveness the bounds are all there is.

* Calls, closers and handles are the bounds of `McpBridge`: each call is made
  once and each handle spawned once. Three calls put two requests in flight on
  one child while a third settles or respawns, which is the most that any
  property relates (the oldest, another, and one on the next child). One unread
  line is enough because the lines of different children, and the order in
  which one child writes, are already free; a second buffered line only delays.
* Two concurrent closeSession calls are what it takes to race their
  continuations. In `bridge_live` the call that cannot be serialised spawns and
  leaves no request behind, so a respawn fits into a run with liveness.
* Three mandate calls allow a put, a use and a revocation or a competing use, with
  any number of crashes. Mandates do not interact but through the shared flush,
  which one mandate with several queued changes already shows.
* Three users are one more than any quorum, and one of them requests. Two
  requests allow a deploy and its rollback, or two rollbacks sharing an id.
  `MaxRequests` and `MaxAutoDeploys` are guards of the actions.
* Three tasks on two slots make one wait; they share the branch, which is the
  worst case for commits, and one file, since files do not interact. One push
  makes every sha stale once. `MaxWindow` lets ids differ in `tasks_applied`.
* Two deliveries are what it takes to repeat an event or to replace a watch;
  two checks overlap at most, of one monitor, which lets a late one end first.
* In `services` two or three actors race on one or two items, the numbers being
  in `Services_small.cfg`: two events on one channel, each sent twice at most, are
  what it takes to reorder or repeat one, for instance. Where a limit is a constant
  of the code (50 entries to a reindex, 5 clients of a small team, 100 requests a
  minute) a small one stands for it, large enough to be crossed. `CONSTRAINT WhileSure` stops
  the secrets' part where `MarkedHooksVerify` claims nothing any more. Parts
  that do not run stay in an initial state, so the run is the sum of its parts.
* Runs do not check deadlock: each stops when its calls are used up.

Symmetry is used for handles, agents and users and, in `services`, for three
values that stand for interchangeable calls; only in runs without liveness.

The largest runs: `sessions_lifecycle` has 2,390,000 states (70 s with two workers),
`services` 881,000 (a bit over three minutes), `deployments_quorum` 715,000 (40 s),
`webhooks_watch` 686,000 (100 s).

### Fairness

`McpBridge`: timers fire, SIGKILL included, and the exit event of an ended
process is delivered; nothing is assumed of a child, which may stay silent and
ignore SIGTERM. These are promises of Node and the kernel.
`MandateFile`: a file operation ends, well or badly, and the continuation runs.
Starting or finishing a write is one disjunction, because a failed write is not
owed to anyone but ends the job as well. No fairness is assumed of the process
not crashing: a call lost in a crash counts as answered by that.
`TaskAgents`: each request of a task to GitHub or to Claude ends, by an answer
or an error: Claude's has a timeout in the code, the others are given up by
`fetch`. Nothing is assumed of pushes or of how a request ends.
`Webhooks`: the overall timeout of a monitor that is armed fires. Checks may hang
for ever: a count that never ends does not keep the watch from ending.

## What is proved

`McpBridgeProofs` proves, for all sets of sessions, servers, calls and handles,
from the assumptions `SubsetAssumption`, `NoneAssumption`, `MaxLinesAssumption` and
`OutcomeAssumption` of `McpBridge`:

* `TypeCorrect`: `Spec => []TypeOK`
* `CacheExact`: `Spec => []CacheIsExact`
* `OwnReplies`: `Spec => []ReplyIsOwn`
* `CallsAreKept`: `Spec => []NoLostCall`
* `ResultsAreFinal`: `Spec => SettledOnce`
* `OldestIsBlamed`: `Spec => OldestTakesTheBlame`
* `ClosesAreScoped`: `Spec => []CloseIsScoped`

None of the invariants after the first is inductive alone. `CacheInv` adds that an unborn
handle has no key, without which a spawn could re-key a cached handle.
`RequestInv` adds that ids written to a child are below `nextRpcId` and unique
over `stdin` and `pending`, and that a line on stdout answers a request of that
child; a reply then meets its own entry or none. `CallInv` adds that a call has
one entry over all handles and that every entry is in `pendingOrder`: the exit
handler walks that list, so only through it does the death of a child settle
every call on it, and a call not yet made has no outcome. `BridgeInv` is the
conjunction (`BridgeInvariant`). Each step lemma has one step per action of `Next`. The helpers on
sequences (`RemoveFirst`, the `indexOf` and `splice` of the code) are lemmas of
their own; `LeastElement`, by well-founded induction from the library, makes
the `CHOOSE` in `RemoveFirst` usable.

`ResultsAreFinal` is an action property that follows from it: what a step
settles is a call made in that step or one that has an entry, and by
`NoEarlyOutcome` and `NoLostCall` neither has a result yet. `ScopeInv` adds
`CacheInv` to `CloseIsScoped`, because `closeSession` finds its handles by the
key they are cached under and judges them by it for as long as it waits;
`KeysAreKept` says a handle never changes its key.

`OldestIsBlamed` rests on `QueueIsAscending`: `pendingOrder` is strictly ascending
and all of it lies below `nextRpcId`. Requests are appended with a fresh id and
`splice` keeps the order of what is left (`RemoveAtOrder`, `AppendOrder`), and
every entry is in the list, so its head is the least id of any entry
(`HeadIsOldest`), which is the one `resolveOldestPending` settles.

`McpSessionsProofs` proves of the session routes, with the two assumptions of
`McpSessions` on top of those above:

* `SystemTypeCorrect`: `SystemSpec => []SystemTypeOK`
* `SystemIsBridge`: `SystemSpec => Spec`
* `QuietClose`: `SystemSpec => []QuietCloseLeavesNoChild`
* `DeleteAnswers`: `SystemSpec => []DeleteAnswersCalls`

`SystemIsBridge` carries every theorem about `Spec` over to the system: the
routes never step outside what `McpBridge` lets its callers do. `QuietClose`
rests on `DeleteInv`. `ChildrenAreAwaited` says that, while no call overlaps
them, every DELETE of a session awaits all children the session has; it holds
when the DELETE begins because the cache is exact, so no child is missing from
what `closeSession` looks up, and stays true because a child leaves that set
only by its "exit" event. `ClosedByDelete` says some DELETE of a closed session
awaits nothing any more; together they leave the session no child.

`DeleteAnswers` needs no such condition on overlaps. `InFlightAreAwaited` says that a
call found in flight and not answered yet has its entry on a child the DELETE still
awaits. At the beginning that is `NoLostCall` (the call has an entry on a child that has not
exited) with the exactness of the cache (`closeSession` finds that child). Afterwards a
call gets no second entry (`EntriesAreKept`), and a child leaves the wait by its "exit" only,
after which `NoLostCall` says that a call without an answer has its entry elsewhere.

`DeploymentsProofs`, from `BoundsAssumption` of `Deployments`:

* `DeployTypeCorrect`: `Spec => []TypeOK`
* `QuorumBeforeDeploy`: `Spec => []DeployedWithQuorum`
* `DeploysAreFinal`: `Spec => DeployedIsFinal`
* `VotesAreFollowedUp`: `Spec => []FollowedUpVotesAgree`

`DeployInv` says of requests that each user votes at most once, so that counting
votes counts people, and that an approved one has its quorum and no denial; of entries
that the id of a deploy is its token and that a rollback shares its id with
rollbacks only, so that looking an entry up by id and taking the first cannot
hand one deploy the votes of another; of follow-ups that none carries "denied"
and one carries "approved" only if its request is. `FollowInv` adds what the last
theorem needs: a token has one entry, a follow-up of a request that did not stray
is at the agent that holds the entry, and what an entry lacks of the votes is in
flight.

`MandateFileProofs`, from the assumptions of `MandateFile`, of a store made by
`open()`:

* `MandateTypeCorrect`: `Spec => []TypeOK`
* `AcknowledgedStays`: `Spec => []AcknowledgedIsDurable`
* `MandateUsedOnce`: `Spec => []UsedOnce`
* `FileImplementsLedger`: `Spec => ImplementsLedger`, the refinement

`MandateInv` relates the three places a mandate is in: the file, the payload of
the running write, the cache. Each leads to the next by changes of calls that are
still flushing or whose flush failed (`FileLeadsToCache`), and a call that was
answered has its effect in all of them; the queue holds the flushing calls once
each, and a running job is that of its head. A step of the backend is then a
step of the ledger: a finished write commits the changes of the calls it
brings to the file, which the ledger allows one after the other, any other step
changes no file.

`TaskAgentsProofs`, from `SlotsAssumption`, `BoundsAssumption` and `NoneAssumption`:

* `TasksTypeCorrect`: `TasksSpec => []TasksTypeOK`
* `SlotsAreExact`: `TasksSpec => []SlotsMatchTasks`
* `CommitsAreSafe`: `TasksSpec => CommitsUndoNothing`

`SlotsMatchTasks` is inductive with its types: as no task waits while a slot is
free, the end of one lets in one at most (`OneIsAdmitted`), although
`processQueue` loops. `CommitsAreSafe` needs `WorkIsSound`: a task that works has
its id, one that commits has its branch, and what it commits to a fix branch it
has read; a commit that is accepted then goes onto the very version it was made
from, with nobody's edits in between.

`WebhooksProofs`, from `EventsAssumption` of `Webhooks` and the assumptions of
`HealthMonitor`:

* `AlertsAndWatches`: `WatchSpec => []WebhooksHold`
* `TwoCountsRollBack`: `WatchSpec => RollbackNeedsTwoCounts`

`WatchInv` has two halves. Of the monitors: an armed one was started and is the one in
the map, checks are only in flight for those, and a streak has begun only after a bad
count. Of the deliveries: while one is past its check the map in memory has its event,
of two that are on their way to the alert handler with one event one is excused, and
after the alert the audit trail has the event and no other delivery is past its check.
An incident is opened once while its group is there.

`StorageProofs`, from the assumptions of the modules it is about:

* `OneDefaultIsKept`: `ProjectsSpec => []KeepsOneDefault`. `ProjectsInv`: a
  deletion that was decided is not of the default project unless a promotion
  raced it, and there is nothing before the first project.
* `LossNeedsOverlap`: `FileSpec => []LostOnlyByOverlap`. `FileInv`: calls at work
  at the same time have been seen to overlap, without a fault the file is torn only
  while it is written, and on keys no overlap touched both what a call is about to
  write and the file are current.
* `ServedTokenIsInFile`: `TokenSpec => []ServesItsFile`. `TokenInv`: a
  file holds no token of a start to come, a writer has its own, a process that can find
  a token still has one before it in its search, and a readable file that others could
  read too was there from the beginning.
* `MatchesRankFirst`: `MemorySpec => []ReindexedRanksMatches`. `VectorInv`: after a
  reindex each vector has the weight its term has in the cache, of the same sign.
* `PermitsAreKept`: `PermitsSpec => []PermitsHold`. `ChargeInv`: what
  callers were told is what the backend has, which takes nothing back (`AppliedKeeps`),
  no call is answered before it is settled, and one that asked too late meets the
  revocation. `DenyInv`: the list and its queue have the same ids, each once, and
  whatever stands behind an id in the queue was counted as coming after it, so that
  maxSize different ones came before it is pushed out (`DistinctCount`).
* `MarkedDeliveriesVerify`: `SecretsSpec => []MarkedHooksVerify`. `SecretsInv`: until
  `unsure` the operator has not configured the channel, one registration at most
  generates a secret, and only when there is none, each hands GitHub none but the one the
  channel resolves to, and a pass signs a hook before it marks the project.

`ServicesProofs` extends `MCServices` and `StorageProofs`. Each of its theorems about one
component has an inductive invariant (`SandboxInv`, `FleetInv`, ...), one lemma for each
action or group of actions that keeps it, and a lemma that it holds in every state
(`SandboxInvariant`, ...). What the invariants add to the property:

| Theorem | Property | The invariant adds |
|---|---|---|
| `TicksStayRegistered` | `TicksAreRegistered` | a first run that is awaited is in flight and has no interval yet, and its name stands for it unless something came between |
| `UseIsExclusive`, `NoneIsForgotten` | two parts of `ContainersHold` | an execution has a container exactly as long as it runs in it or releases it, no two have the same, what the pool offers is nobody's |
| `NothingIsLeftRunning` | the third, `NothingRunsOn` | what is removed or swept was created |
| `AgentsAreFollowed` | `AgentsFollowLists` | a project that is clear is in one list at most, has one request under way at most, and is at each await what that request makes of it half way |
| `NamesAreKept` | `NamesKeepTheirPlugin` | the loader is at its place in the list; a name that was registered is claimed by its plugin and has a hook of that plugin |
| `MessagesAreHandledOnce` | `MessagesReachSessions` | what was handled is in the cache or was forgotten; one session is active at most; handlers at work together are noted, and one that was alone has found the active session or there is none |
| `TeamsHaveTheirTokens` | `RepliesWithOwnToken`, `ConnectedIsInstalled` | at each await of an event that nothing displaced, its team is the last one or the one asked for and the bot has its token; a callback has saved what its stage says |
| `AlertsKeepTheirRoutes` | `RoutesAreKept`, `AlertsFollowRoutes` | a save knows how many changes it has; unless `uncertain`, the cached router has all of them and the last is stored, being saved or has overtaken those that still are; what an alert has left is where the routes at the last start sent it |
| `CoordinatorIsUpToDate` | `CoordinatorKeepsUp` | of a project's agents that the coordinator is still to be told of, the last is the router's; with none left, it has that one |
| `ChoicesSurvive` | `ChoiceSurvives` | what each stage of a request says of its kind; a choice that nothing interfered with is alone, but for events and restarts; after it, what is read, written and saved is its level |
| `SessionsAnswer` | `SessionAnswers` | a tool's counter and what was served of its mock go together; for each stage of a request, which replies have all their results; a consumer sleeps without an event only before its loop is done |
| `RetriesAreHarmless` | `RetriesMakeNoTask` | requests are on their way once, a task in the store was made by a call that submits it, and a call makes one more than there were restarts at most |
| `OverlapIsAllThatOverspends` | `OverspentByOverlap` | what is recorded leaves room for the calls in flight, one as it was estimated and the others at `perCallMax`, up to the budget and one `perCallMax` for each but one of those at once |
| `LimitHoldsTwice` | `AtMostTwoWindows` | the requests of the last window's time split into those of the entry's window and those before it, each a limit at most |
| `EventsGoInOrder` | `EventsInOrder` | in memory a channel's handler is the last listener attached, and the only one unless it was subscribed to again; messages on the wire come after those that came; commands without a reply get newer and were sent less often one after the other, those that Redis will execute come after all it sent, and those it executed were sent at least as often as any message that is not older |
| `TasksGoInOrder` | `HandedOutInOrder` | numbers rise along each list; what the group has not reached is newer than all that was handed out, and what it is past was handed out or is pending |

The theorems about `ServicesSpec` put these together: `ContainersAreHeld`,
`MessagesArrive`, `LimitsAreKept` and `OrderIsKept` are the four invariants of the run
that join several components, and `ServicesTypeCorrect` is `ServicesTypeOK`, all 22 of them
with their types. `PartsStart` and `PartsStep` are all they need: a step of the run is a
step of each part or leaves it alone. Some bounds in the types need arguments of
their own: a chat request has replies of the model left whenever it asks (`LoopsFit`), and
a call has made no more tasks than it has attempts, those on their way counted
(`CopiesFollowAttempts`).

The assumptions about constants beyond bounds being numbers say that `None` is none of
the records, names or messages it stands beside (`QueuesAssumption`, `EventsAssumption`,
`RecordsAssumption`, `TeamsAssumption`, `TasksAssumption`, `CallsAssumption`,
`PermitAssumption` and so on, as in the code `null` is no object), that the sets counted
are finite, and that lists of commands, stages and actors do not meet where one variable
holds both.

TLC evaluates every assumption in the runs of these modules.

Every invariant and every action property of the passing runs is a theorem. Only
model-checked: liveness (`TimedCallSettles`, `CloseSessionReturns`, `CallIsAnswered`,
`TaskIsAnswered`, `WatchEnds`), which the prover's temporal backend does not reach under
fairness (nor does it know ENABLED). What recursive definitions compute would be out of
its reach too; no module has one.

## Observations

What the code does that a reader of it may not expect, met while modelling. The four
violated runs are the ones in which a comment or a text of the repository says otherwise
of something checked here; these are stated for the record. Paths as above.

Kept by a property only under its exception, or visible in a counterexample once
the exception is dropped:

* A command that cannot be spawned emits no "exit": its handle stays cached and
  a closeSession that finds it never returns (`bridge_spawnfail`).
* DELETE closes the children of the cache as it stands; a call made while it waits
  starts another (`sessions_execute`).
* Two instances of the file backend made by `new` that load at once drop a use made
  in between; `open()` does not.
* A command of a task that has pushed keeps its answer "applied" for changes
  GitHub refused (`tasks_applied`); `maybeCreatePR` takes back a push made between
  its read and its sha (`agents/task/src/task-agent.ts:302`).
* A level chosen in the chat after one on the dashboard is overridden at the next
  start by `agent-states.json` (`server/start.mjs:374`), and the dashboard's
  `set_autonomy` writes to a copy of the status (`routes/agents.ts:513`), so the
  running agent keeps its level until a restart.
* Slack replies use the token of the workspace that mentioned the bot last
  (`_lastTeamId`, `channels/slack`); a callback that fails between its two saves shows
  "connected" though the bot has no token.
* Vector search: the first entries' weights are log(1/2) < 0 until the reindex at
  50 entries, so an exact match scores −1, below unrelated entries, and the
  project agent's threshold hides it (`memory/vector-store.ts:271`).
* An approved rollback marks its own entry deployed and leaves the deploy it
  was for as it is (`agents/deploy/src/deploy-agent.ts:305`).
* In Postgres a project promoted to default after its deletion was decided leaves the
  organization without one; `FileStorage.createProject` leaves two when asked for one.
* A tool's answer of a server whose id contains "__" is attributed to another
  (`splitNamespacedToolName`), and the chat loop calls servers that are not
  among its session's.

Outside what a property states:

* Queued tasks: results go to the console only; with Redis nobody dequeues; a dead
  consumer's pending entry is not delivered again, although the header says
  "at-least-once"; the cached `groupCreated` is stale once Redis loses its data.
* A command that ioredis sends again may take effect twice: a task may be in the stream
  twice, an entry read may stay pending, and subscribers and dashboard may get an
  event twice; nothing compares ids.
* Event bus: forwarding passes the project's id as the organization's; one failing
  subscription at start leaves the rest unforwarded; a second subscribe on Redis
  silences the first handler, in memory both stay.
* Health monitor: a check in flight at cancel still calls onUnhealthy, and the promise
  of `monitor()` stays pending; the end of an older healthy watch resolves all
  open PagerDuty incidents.
* `DockerSandbox.cleanup()` removes the pool's containers too, as both carry one
  label (`execution/container-pool.ts:130`), and the pool still lists them; a command
  stopped by it that exits 0 on SIGTERM is reported as a success.
* The generator's synchronous methods throw over an asynchronous backend although the
  backend goes on, so `use()` throws and the mandate is used.
* Deny list: adding an id again does not refresh its age.
* Plugins: `registry.ts` lists definitions in the order of keys, dispatch takes the last
  registrant; a registration made after its `register()` resolved is
  attributed to another spec.
* Router: an agent is looked up before parseIntent is awaited, so a removed one may
  still get the message; a partial alias may take a message's first word.
* Coordinator: `unregisterProject` and `advanceCascade` have no caller, so removed
  projects stay in "all status"; agents created over HTTP are unknown to it.
* `createAgent` stores an organization's project in the default storage, DELETE and
  the restore at start use the organization's.
* Webhook secrets: hooks already marked keep the old secret when the environment's
  is set later; the pass writes back a config read before a call to GitHub.
* A2A: the header says "Retries only on 5xx", the code also retries on timeouts; a
  submit without id that is retried makes several tasks; a retried submit or cancel
  is answered 409 or 400 though it was obeyed. `OutboundPolicy`'s evaluator has no caller.
* File storage: `appendAudit` swallows a failed write; the header's "Thread-safe for
  single-process use" does not extend to overlapping operations. In Postgres the
  audit chain forks when two entries read the same last hash (`pg-storage.ts:176`).
* Slack and GitHub callbacks: up to four `setMemory` writes of one file may interleave.
* Test mode: `docs/test-mode.md` says the runtime cannot reach a real provider, but calls of
  channel sessions go to the bridge (`mock-dispatch.ts:131`) and the catalogue
  of tools lists those of real servers. `mocks.ts` says empty arrays are rejected at create
  time; `validateMocksShape` accepts them and the call answers 503.
* Channel routes: two first requests make a router each, and the routes set in one are
  missing from the other; a load from Postgres that fails leaves the router empty, and the
  next change stores a list of one; saves may overtake each other.
  Alerts use the routes `start.mjs` loaded, so a change takes effect at the next
  start, and those of other organizations than the default never do.
* Identity store: linking a channel again leaves the old entry in the index until a restart; a
  registration sets the role to operator; each start registers the local user anew.
* Linear: two alerts of one project search before either has made its ticket, and make two.
* Process manager: a `stdin` without an "error" listener ends the runtime when a
  child's pipe breaks (`mcp/process-manager.ts:225`).
* Rate limit: the comment says "sliding window", the windows are fixed.
* Supervisor: channels connect before saved states are restored; a failing progress
  note drops the command; an agent says IDLE while it handles another message; suspend
  has no effect on a running agent.
* The dashboard's votes do not reach the deploy agent: a quorum reached there
  deploys nothing.

## Not modelled

Cryptography, prompting, text formats, the platforms' client libraries, and what
happens inside Redis, Postgres, Docker, GitHub and a model's provider. The
Discord, Telegram and CLI adapters and the incident, review, lens and planning
agents keep little state of their own: a request in, a text out. The
observability routes read what other components keep; the intent parser is a list
of patterns. `buildToolCatalog` and the authentication of HTTP requests are read-only too.
In the modelled components the header of each module says what it leaves out.

## Plan

1. Abstract specifications of the pool, the queue and the event bus, with the
   refinements proved as `FileImplementsLedger` is.
2. `IdentityStore`: links of channel users, the role a registration sets, and what a
   restart resolves; it has one caller that changes it and no concurrent one.
3. Messages routed by alias, where the meaning of a partial alias depends on
   which agents the last start restored.
4. The Linear tickets of the alert handler.
