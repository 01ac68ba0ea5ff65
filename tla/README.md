# AICT in TLA+

AICT runs teams of LLM agents for a project: a FastAPI backend keeps one asyncio
worker per agent, the workers run agent sessions against PostgreSQL, a separate
pool manager (or an orchestrator on Kubernetes) hands out sandboxes, and a browser shows
the tasks. This directory holds
TLA+ models of the parts where the order of steps decides whether the system is
correct, the TLC configurations that check them on small instances, and proofs
checked by TLAPS that hold for every size. Paths below are relative to `src/`.

| file | what it is |
| --- | --- |
| `MessageRouter.tla` | the wake-up queues (`backend/workers/message_router.py`), shared by the two modules below |
| `Mailbox.tla` | abstract: what message delivery promises |
| `MessageDelivery.tla` | wake cycles, their transactions, senders, replay and retries |
| `WorkerManager.tla` | worker tasks: spawn, interrupt, remove, crash, respawn, reconcile, stop |
| `PoolManager.tla` | the sandbox host's units, ports and budget: endpoints, background resets, health and sweep loops, restarts |
| `Machines.tla` | what the pool manager makes and removes on its host: containers, volumes, disks, domains, forwarding rules |
| `Watchdog.tla` | the process that replaces a pool manager that does not answer |
| `SandboxOrchestrator.tla` | the pool manager's service on Kubernetes: cache, agent map, pods and their labels |
| `Sandboxes.tla` | the backend's rows of sandboxes, and the pool they stand for |
| `ScreenRelay.tla` | viewers of a sandbox's screen and the relay they share |
| `LogStream.tla` | the backend's log from its handler to the page |
| `Conversation.tla` | one agent session: the list of messages, stages, tool batches, compaction, the adapters of the LLM providers |
| `Routing.tla` | provider and key of an LLM call |
| `Spending.tla` | budgets, rate limits and the usage that sessions record in their transactions |
| `Tasks.tla` | tasks and the agents' current tasks under overlapping transactions |
| `Board.tla` | the browser's board: events, fetch and responses against the committed tasks |
| `Documents.tla` | an architecture document and its version history |
| `Toolbox.tla` | the rows of an agent's tools under pages, sessions, syncs with MCP servers and releases |
| `PromptBuilder.tla` | the page that edits prompt blocks, and the rows it edits |
| `Knowledge.tla` | uploads to the knowledge base, their quota and their chunks |
| `Billing.tla` | a user's tier and subscription row against Stripe and its webhooks |
| `Clusters.tla` | the agents of a project under manifests, people and tools |
| `Shell.tla` | an agent's commands, from the backend's client to the sandbox server |
| `Capture.tla` | the sandbox server's capture of the screen, and who watches |
| `Accounts.tla` | the rows of users and OAuth connections that overlapping logins find or create |
| `*Proofs.tla` | theorems, section 16: `MessageDelivery` (with its refinement of `Mailbox`), `WorkerManager`, `PoolManager`, `Backends` (`SandboxOrchestrator`, `Machines`), `Pages` (`Sandboxes`, `ScreenRelay`, `LogStream`, `Knowledge`), `Records` (`Tasks`, `PromptBuilder`, `Documents`, `Toolbox`, `Board`, `Billing`, `Clusters`), `Conversation` (with `Shell`, `Capture`), `Spending` |
| `MC*.tla`, `MC*.cfg` | instances for TLC, one `.cfg` per run |
| `PROJECT.json` | components, runs, mutants, source lines per definition, findings, hazards, theorems |

To check: `tlc -config MCDeliverySafety.cfg MCMessageDelivery`, `tlapm MessageDeliveryProofs.tla`.

## 1. Inventory

### Message delivery

**MessageRouter** (`backend/workers/message_router.py`). State: `_queues`, agent to
`asyncio.Queue`. Operations: `register`, `unregister`, `notify`, `replay`. A queue holds
sentinels without content: a wake-up says "look into the database". Hard: a notify
without a queue is dropped; `unregister` removes whatever entry the agent has.

**AgentWorker** (`backend/workers/agent_worker.py`). State: its queue, `_interrupt`,
`_task`, one database session per wake-up. Operations: `run`, `interrupt`. Hard: the
order of bookkeeping, cancellation, rollback and commit in its nested `try`s; wake-ups
that arrive at any time.
Correct if: nothing a session reads is lost, nothing of a session that did not end well
is kept, every wake-up leads to a look at the database that comes after the commit it
stands for, or something else makes up for it.

**Agent loop** (`backend/agents/agent.py`, `helpers.py`, `workers/loop.py`). Bootstrap
(read unread messages, mark them received), iterations of LLM call and tools, a mid-loop
read every fifth iteration, ends by END, plain text, budget, iteration limit or error.

**Senders.** `api/v1/messages.py`, `api_internal/messaging.py`, `api/v1/agents.py`
(wake): commit, then notify. `tools/executors/messaging.py`: flush inside the session's
transaction, notify at once. `services/task_service.py` with `services/orchestrator.py`
(assign): notify, then write, then commit. `run_abort_task`: flush, no notify.

**Reconciler** (`backend/workers/reconciler.py`). Every 180 s
(`RECONCILE_INTERVAL_SECONDS`; `docs/backend/workers.md:230` says 30): workers for
orphan agents, stuck active agents, orphaned session rows, messages unread for longer
than a threshold (the 50 oldest), dead letters, cluster drift, budgets, sandboxes.
Correct if it repairs what crashes leave behind and disturbs nothing that is healthy.

### Worker lifecycle

**WorkerManager** (`backend/workers/worker_manager.py`). State: `_workers`, `_tasks`,
`_task_meta`, `_removing`, `_stopping`. Operations: `start`, `stop`, `spawn_worker`,
`ensure_workers_for_all_agents`, `interrupt_agent`, `remove_worker`, `_on_worker_done`.
Callers: `main.py` (lifespan), the reconciler, `api/v1/repositories.py`,
`api/v1/agents.py`, `tools/executors/agents.py`, `cluster/spec.py`. Hard: every method
awaits in the middle, cancellation of a task that awaits another task, callbacks that
run after the lists have changed, rows that are uncommitted while their worker starts
or ends. Correct if an agent with a row has one worker, the router reaches it, and a
removed agent has none.

### Sandboxes

**Pool manager** (`sandbox/pool_manager/`). State: units (`models.py`, persisted),
`agent_map`, ports, capacity budget; a health loop and a sweep loop. Operations: session start and
end, assign, release, restart, destroy, promote, demote, background resets, health
checks, idle sweep, restart of the process. Hard: every endpoint awaits Docker between
reading a unit and writing it back, so two calls, or a call and the monitor, see the
same unit; ports and budget are released by hand. Correct if ports and units
correspond, the budget is what the units use, an agent has at most one unit and a unit
at most one agent.

**Kubernetes orchestrator** (`sandbox/k8s_orchestrator/`). The same API over pods. State:
`_sandbox_cache`, `_agent_map`, the pods with their labels, their services. Operations:
provision, create, session start and end, claim, release, restart, restore, destroy,
rebuild. Hard: handlers hold a cache entry across awaits in which the cache is rebuilt or
the entry is deleted; the labels are all that survives a restart. Correct if map, cache
and labels name the same agent, and every pod is counted.

**SandboxService** (`backend/services/sandbox_service.py`, `api/v1/sandboxes.py`, the
sandbox tools, the reconciler's pass): `sandboxes` rows with owner, agent, unit and status;
calls of the pool between reads and writes. Hard: two creations at the limit, updates of
columns found by an old read, a pool call that fails or a row that is rolled back after
it. Correct if a row and the pool agree on the agent, and a user stays within the limit.

**The pool manager's host** (`sandbox/pool_manager/docker_manager.py`, `vm_manager.py`).
State: containers, volumes, QCOW2 images, libvirt domains, iptables rules, none of it
transactional. Hard: an operation is a list of commands in a thread, each of which may fail
half way; two operations on a unit overlap; the process may die between two commands.
Correct if what is on the host belongs to a unit, or is known to be left over, and a VM is
reached at its port.

**Watchdog** (`sandbox/pool_manager/watchdog.py`). A loop and an HTTP thread with one state
and no lock. Correct if a manager that does not answer is replaced or the alert is on.

**Screens** (`backend/websocket/screen_stream.py`): one relay task for all viewers of a
sandbox, cancelled by the last to leave. Correct if whoever watches is served.

**Sandbox server** (`sandbox/server/`, with `backend/services/sandbox_client.py`). State: the
processes of commands, shell sessions with a ring buffer each, one `ffmpeg` and the task that
reads it. Hard: the client cannot tell a lost command from a late one, and tries the other way in;
starting a capture takes awaits after which viewers may have gone. Correct if a command runs once
where its answer arrived, and a screen is captured exactly while somebody watches it.

### Agent sessions

**Agent.run and PromptAssembly** (`backend/agents/agent.py`, `prompts/assembly.py`,
`llm/providers/`). State: the messages, the session's stage, its iteration, a dirty flag
set by `agents/config_listener.py`. Hard: compaction in the middle of a batch of tool
calls, results shortened by position, reloads in a stage. Correct if every request pairs
calls and results, a result is seen in full once, and the session ends.

**Budgets and usage** (`agents/helpers.py`, `db/repositories/llm_usage.py`,
`project_settings.py`). Before each call a session sums the project's usage, which other
sessions record in transactions of their own. Correct if a budget is passed by a bounded
amount and a pause ends.

### Tasks and the board

**TaskService** (`backend/services/task_service.py`): `tasks` rows with status and
assignee, `agents.current_task_id`. Requests and sessions validate what they read and write
later. Correct if an agent's current task is one that is assigned to it.

**WebSocket manager and board** (`backend/websocket/manager.py`,
`frontend/src/hooks/useTasks.ts`, `useWebSocket.ts`): events are sent inside the
transaction. Correct if the board shows the committed tasks when nothing is under way.

**Log stream** (`backend/core/ws_backend_log_stream.py`,
`frontend/src/contexts/AgentStreamContext.tsx`): a ring, a queue, a
snapshot at the connection. Correct if the page shows one stretch of the log.

### Rows that people edit

**Documents** (`db/repositories/project_documents.py`, `tools/executors/docs.py`): a document and
its capped history. Correct if what an edit overwrites is in the history.

**Tool configurations** (`db/repositories/tool_configs.py`, `mcp_servers.py`): rows of an
agent's tools, added by whoever looks first. Correct if a tool has one row and one that is
switched off stays off.

**Clusters** (`cluster/spec.py`, `api/v1/cluster.py`, `services/agent_service.py`): a manifest is
compared with the agents and worked off one agent at a time, while others make, change and
delete them. Correct if it leaves the agents it asks for when nobody interferes.

**Prompt builder** (`api/v1/prompt_blocks.py`, `frontend/src/components/PromptBuilder/`): a page
that saves whole lists while answers of earlier requests are on their way. Correct if an
agent's blocks do not become another's.

**Knowledge base** (`services/knowledge_service.py`, `api/v1/knowledge.py`): uploads that check a
quota, then read, cut and embed. Correct if the quota is passed by a bounded amount and the
chunks are the text.

### Users

**Tiers and billing** (`services/stripe_service.py`, `api/v1/billing.py`): one row and one column,
written by webhooks. Correct if the tier is the one that is paid for when Stripe has told
everything.

**Accounts** (`core/auth.py`, `services/oauth_service.py`): rows found or made by overlapping first
requests. Correct if everybody gets in.

**Keys and models** (`llm/router.py`, `services/llm_service.py`, `api/v1/api_keys.py`): which provider, whose key. Correct if a user's
key is used for the user's agents.

### The rest of the backend

| component | state | why it is outside the models |
| --- | --- | --- |
| SessionService | `agent_sessions` | rows inside the cycle's transaction; nobody decides by them but the reconciler (section 3) |
| git; the sandbox server's mouse, keyboard and VNC | files, streams | external calls and byte streams |
| access control | none | stateless checks |
| pages and forms of the frontend but those above | none that is shared | display |

`PROJECT.json` lists every component with its status and the hazards at their lines.

## 2. Plan

Order and composition:

1. `MessageRouter`, `Mailbox`, `MessageDelivery`: the central promise of the backend, that
   messages reach agents and sessions act atomically. `MessageDelivery` instantiates
   `MessageRouter` (queues named by agents) and implements `Mailbox`. Done and proved.
2. `WorkerManager`: the assumption of (1) that workers come back and are reachable,
   with real tasks, lists and cancellation. It extends `MessageRouter` with queues of
   their own per worker. Done and proved.
3. `PoolManager`: units, ports, budget, agent map; endpoints and loops split at their
   awaits. Done and proved. `Machines` and `Watchdog`: below and above it. Done, `Machines` proved.
4. `SandboxOrchestrator`: the second implementation of the same API. Done and proved.
5. `Sandboxes`: what the backend makes of either, with a pool that may do whatever
   (3) or (4) allow its callers to see. Done and proved.
6. `Conversation`, `Spending` and `Routing`: a session from the inside. `Conversation` leaves to the
   environment when a limit is reached, `Spending` is about just that. Done, both proved.
7. Rows of overlapping transactions and what pages see of them: `Tasks`, `Board`, `Documents`,
   `Toolbox`, `PromptBuilder`, `Knowledge`, `LogStream`, `ScreenRelay`, `Billing`, `Accounts`,
   `Clusters`. Done, all but `Accounts` proved, of which liveness is checked.
8. The sandbox's own server: `Shell`, `Capture`. Done and proved.

Components that share no state are checked in one run, in which `part` says who moves: `MCPoolManager`
(two instances of `PoolManager`), `MCConversation` (`Conversation`, `Shell`, `Capture`), `MCBackends`
(`SandboxOrchestrator`, `Machines`), `MCPages` (`Sandboxes`, `Knowledge`, `LogStream`,
`ScreenRelay`), `MCServices` (`Spending`, `Accounts`, `Watchdog`), `MCRecords` (`Tasks`, `Board`,
`Billing`, `Documents`, `Toolbox`, `PromptBuilder`, `Clusters`). The states of such a run are the sum of those
of its parts, not their product: the parts that rest stay in one state.

## 3. MessageDelivery

### What it says

*A wake cycle is one database transaction.* `AgentWorker.run` opens a session per
wake-up and hands it to everything the agent does; nothing below it commits or rolls back
(`agents/`, `tools/`, and the services the tools call use `flush`). So what a session
marks received (`recv`) and writes (`out`, `woken`) is invisible until `Commit`, the
end of the `finally` block. `status`, `addr`, `agentStatus` are the committed rows.

| code | model |
| --- | --- |
| `WorkerManager.start` and replay, readiness gate | `Start`, `WorkerReady`, `StartReplay`; requests need `phase = "up"` |
| `AgentWorker.run`: `queue.get()`, rows loaded, `status = "active"` flushed | `WorkerWake`, `BeginSession`, `Claim` |
| `Agent._bootstrap`, `_inject_mid_loop_messages` | `Bootstrap`, `MidLoopRead`, both by `Unread` and `IsBatch` (the limit) |
| the tools that write messages or agents rows | `ToolSend`, `ToolUpdateMemory`, `ToolAbortTask`, `ToolAssign`, `ToolFlush` |
| the `finally` block after a return; its commit failing | `Commit`, `CommitFail` |
| cancelled or failed sessions: rollback, status alone committed | `Interrupt`, `SessionError`, `Rollback` |
| the cleanup raises: the task dies, `_on_worker_done` | `WorkerCrash`, `Respawn` |
| send endpoints; wake endpoint | `ApiSend`, `ApiNotify`; `ApiWake` |
| `TaskService.assign` in a request | `AssignWake`, `AssignFlush`, `AssignCommit`, `AssignAbort` |
| reconciler: stuck messages; stuck agents | `RetryStuck`; `FixStuckAgent` |
| the process ends | `Crash` |

*Row locks.* An `UPDATE` of an `agents` row keeps it locked until its transaction ends,
and sessions last for many LLM calls. `holder` says who has written a row, `wants` whom a
tool call waits for. `Claim`, `ToolFlush`, `AssignFlush`, `Commit`, `Rollback` and
`FixStuckAgent` wait for it.

*Choices that stand for data.* Which unread messages a read at its limit returns (they
are ordered by creation time in the code, which the model does not keep). Whether an
assign inside a session sets the status: SQLAlchemy's identity map may hold an older
copy of the row, so it depends on what the session has read before. Where a task has a
previous assignee, the code's autoflush takes the row's lock before the notify; the
model takes it after.

*Left out.* Message contents, users as targets and broadcasts (nobody is woken, nobody's
unread set contains them), the cluster index (`route_to_cluster` has no caller), dead
letters (`dead_letter_messages` is created by no migration, the pass returns at once),
the cap of 50 rows per retry, connection limits.

### What is checked

`MCDeliverySafety` (842,726 states): two agents, one of them a manager, two messages,
one fault. Two agents make a lock chain of the longest allowed length; two messages make
a read that takes one while the other is being written. Messages are symmetric.

* `NoStranded`: without faults a message committed by the API never waits for the
  reconciler. Its wake-up is in the queue, or a cycle that has not read yet is on its
  way, or a session has it.
* `LockChainsEnd`: with at most one manager, waits for row locks form chains of at most two.
  A manager's session may wait for a worker that waits for its own tool call; nobody
  waits for the manager and is waited for by it. With two managers this fails (both
  may assign to each other): the API and a cluster spec can create a second manager, and
  PostgreSQL then aborts one transaction, which is `SessionError`.
* `AbortedTurnLeavesNothing`: the cleanup's commit of the status does not commit what
  the interrupted session had read or written.
* `ImplementsMailbox`: the committed rows behave like `Mailbox`: messages posted once and
  consumed once by their addressee, sessions as indivisible turns. The mapping hides
  the address of rows that do not exist.

`MCDeliveryLive` (two agents, one message, two faults; 66,795 states): `Delivered`, every
committed message is consumed in the end. Two faults let a retry fail after a crash. The same
holds of a backlog, in which wake-ups are used up by cycles that could not read everything:
`Agents = {a1}`, `Messages = {m1, m2}`, `ReadLimit = 1`, `MaxTokens = 2`, `MaxFaults = 2` gives
23,210 states and no error. `Delivered` rests on the reconciler for tool sends, assigns and aborts, whose
wake-ups precede the commit or do not exist.

### Fairness

`FairSpec` assumes weak fairness of start-up, of the end of an assign request and of the
retry of each message, and strong fairness of each agent's cycle and of the end of its
session. Strong, because a step that waits for a row lock is enabled only between other
holders: PostgreSQL serves waiters for a row in turn. Sessions end because iterations
are limited (`MAX_ITERATIONS`) and LLM calls time out. Tools have no time limit of their
own; the assumption is that none hangs. There is no fairness of sends, interrupts or
faults, and none of `FixStuckAgent`, which delivery does not need.

### Bounds

`MaxTokens` bounds a queue: a notify that would exceed it does not happen. The code's
queue is unbounded; more than one waiting wake-up is needed to tell "emptied" from
"decremented", and start-up needs as many as there are messages. `MaxFaults` bounds
interrupts, errors, crashes and restarts together. `ReadLimit` is the code's 100, made
small so that it is reached.

## 4. WorkerManager

### What it says

Workers are tasks with identities of their own. Their places follow the awaits of
`AgentWorker.run`; one action is what a coroutine does between two awaits.

| code | model |
| --- | --- |
| `run` before the loop, `get`, load, await of `Agent.run`, `finally` | `WorkerStart`, `Wake`, `Load`, `SessionReturns`, `CancelReaches`, `CycleDone`, `WorkerExit` |
| `Task.cancel` | `CancelledAt`: where the error surfaces, by place |
| `AgentWorker.interrupt` | `InterruptedAt` and `flag` |
| `start`: spawns, waits (five seconds each) | `Boot`, `StartWorker`, `StartDone` |
| `_spawn_tracked_worker`, `spawn_worker` | `Spawn`, `SpawnUnlessTracked` |
| `_on_worker_done` | `WorkerDone`, `ForgottenDone`, and part of `RemovedDone` |
| the respawn it schedules | `Respawn` |
| `remove_worker` before and after its await | `RemoveBegin`, `RemovedDone`, `RemoveAtOnce` |
| `ensure_workers_for_all_agents` at its awaits | `EnsureBegin`, `EnsureRows`, `EnsureVisit`, `EnsureEnd` |
| `stop`, end of the process | `Shutdown`, `StopNext`, `ProcessEnds` |
| creators and deleters of agents rows | `CreateAgent`, `CreatorSpawns`, `ToolSpawn`, `ToolCommits`, `ToolRollsBack`, `DeleteCommits`, `DeleteRollsBack` |

`_on_worker_done` and the continuation of the `remove_worker` that awaits the task are
consecutive callbacks of that task, hence one action. Between `_on_worker_done` and the
respawn it schedules the model lets other steps happen that the event loop would run
later: it allows more than the code. `StartDone` has no readiness guard, since the waits
may time out. The callers of `remove_worker` (a tool, two endpoints, the cluster
reconcile) are one generic caller that deletes the row afterwards and commits or rolls
back.

### What is checked

`MCWorkers` (241,641 states): one agent, three tasks (a live one, an ending one, a
replacement), two events of any kind (a crash, an interrupt, a removal, a shutdown).

* `OneWorkerPerAgent`, `TrackedIsReachable`, `RemovalSuppressesRespawn`: no second
  worker, no tracked worker without its queue, no respawn after a removal. They are stated
  for histories without a crash. After one, the scheduled respawn does not look whether
  the reconciler or a creator was faster, and the end of the older of two workers
  unregisters the queue of the younger; the model exaggerates the window (above), so
  nothing is claimed either way.

The same run checks `EveryAgentServed`, an agent with a row has a queue again after any of
the events, and `ShutdownEnds`, a shutdown ends if no interrupt or removal came before it.

Fairness is weak throughout: the event loop runs ready callbacks, sessions end, the
reconciler comes round. Nobody has to create, remove, interrupt or stop.

`MaxEvents` bounds crashes, interrupts and removals, and shutdowns together,
`MaxRespawns` the respawns scheduled at once, the number of `Queues` the tasks alive at
once (identities are reused).

## 5. PoolManager

### What it says

The pool manager is one event loop. Its endpoints, the resets they leave behind and the
two loops of `HealthMonitor` await Docker, libvirt or a unit's answer in the middle, and
an action is what one of them does between two awaits. Each is in the middle of at most
one thing, its entry in `job`: the unit it works on, the unit it is making, the agent it
has noted. What the backend does is the choice between success and failure.

| code | model |
| --- | --- |
| `PoolState` (`_units`, the objects, `_agent_map`) | `pool`; `Added`, `Removed`, `Updated`, `Assigned`, `Cleared` are its methods |
| `PortAllocator`, `CapacityBudget` | `ports`, `budget`; `NextPort`, `Fits`, `Reserved`, `Released`, `MayPromote`, `Promoted`, `Demoted`, `Rebuilt` |
| `session_start`: own unit, idle unit, new unit; `create_sandbox` | `SessionReuse`, `SessionTakeIdle`, `SessionCreate`; `CreateSandbox` |
| `_create_headless`, `_create_desktop` | `BeginCreation`, then `Created` or `CreationFailed` |
| `session_end`, by persistence and type | `SessionEndPersistent`, `SessionEndHeadless`, `SessionEndDesktop` |
| `_background_reset_headless` | `StartReset`, `ResetDone` |
| `promote_unit`, `demote_unit` | `Promote`, `PromoteWithoutPort`, `PromotionFailed`; `Demote`, `DemoteWithoutPort`, `DemotionFailed`; both end with `Swapped` |
| delete; assign, release, restart, persistent | `DestroyUnit`; `AssignUnit`, `ReleaseHeadless`, `ReleaseDesktop`, `RestartUnit` (`Restarted`, `RestartNotReady`, `RestartFailed`), `SetPersistent` |
| the last lines of `_destroy_unit` and `_evict` | `Destroyed` |
| health loop: list, visit, ping, restart, eviction, zombies | `StartPass`, `CheckSkip`, `CheckEvict`, `CheckZombie`, `CheckPing`, `PingDone`, `PingRecovered`, `PingFailed`, `HealBooting`, `HealDone`, `HealFailed`, `StartZombieReset`, `ZombieReset` |
| sweep loop | `StartSweep`, `SweepSkip`, `SweepEvict` |
| the process ends, `lifespan` starts it again | `Restart(dead)`, `dead` the units that are not running any more |

A loop holds a list of the unit *objects*: it reads a status that may belong to a unit
that was removed, and `update` puts that unit back. The model keeps a unit's record after
its removal and separates it from `pool.held`, the keys of `_units`. Ids are drawn at
random and taken as never drawn twice; an id that nothing refers to any more stands for
one not drawn yet.

*Choices that stand for data.* Ages and idle times (a boot grace period, a zombie, an
idle unit) are free choices. `health_failures` is `failing`, true when positive. The
threshold is above one, so `PingFailed` needs a failure before; the model may reach the
threshold earlier than the code. Any idle unit may be handed out, where the code takes
the first.

*Left out.* The containers and VMs themselves, the proxy endpoints, setup scripts, the
watchdog, a failing write of the state file, an exception of the file migration within
promote or demote (it catches what its commands raise; only a host without `rsync` gets there), hosts without libvirt.

### Where the code gives its promises up

Nothing in the pool manager stops two operations from working on one unit, and the code
does not survive all of their meetings. Instead of leaving those steps out, the model
takes them and remembers them in history variables, and the invariants say what holds
until then:

* `crossed`: an operation that removes a unit, or puts it back, finds that another
  has removed it, or is swapping it: `Destroyed` of a unit that is gone or being swapped,
  `Swapped`, a failed swap, and a loop's `update` of a unit that is gone, a second swap
  of one unit. Port and budget are then given back twice, or a unit comes back without
  them.
* `astray`: the rollback of a demotion was refused (another desktop has taken the
  place), so the budget stays demoted; or a restart of the process kept an unhealthy unit
  (which the rebuilt budget does not count) or a desktop that was being demoted (its
  place may have been given away, and now there are two).
* `left`: a unit whose operation ended without taking it out of transition: a restart
  that raised, a refused rollback, and whatever a restart of the process cut off.

Everything else is *not* excused: resets, restarts, assignments, pings and healing that
overlap with each other, destructions and evictions of units that are being reset,
restarted, pinged or healed up to the point where a second one puts the unit back,
creations and swaps that overlap and fail.

### What is checked

* `BooksExact`: the running totals are the costs of the units of the pool and the ones
  being made, a swap counting as its outcome; so the units, not only the counters, stay within
  `MAX_TOTAL_UNITS` and `MAX_DESKTOP`. Not within `MAX_HEADLESS`: `demote` looks at no limit.
  Restarts of the process keep it.
* `PortsExclusive`: the used ports are those of these units, one each.
* `NobodyForgotten`: the health loop passes over a unit that is resetting, promoting or
  demoting; somebody is at work on every such unit, but for those in `left`.

* `IndInv`, the inductive invariant of section 16.

`MCPoolManager` (246,958 states) has two instances. "swaps": three headless and two desktop ids, two
requests, no agent, three ports and two, at most one desktop and three units. That is two overlapping
swaps, a third creation at the total limit, a rollback that is refused, an allocator
without a desktop port. "loops" (the instance `Narrow`): an id and a port of each kind, an
agent, a request and both loops in turns, and a total of two.

Both cut the search where the invariants promise nothing more: `Bounds` takes no step into
states with `crossed` or `astray` (and, for size, with persistent headless
units; nor with `left` in "swaps", where "loops" goes on). The two loops
work in turns in "loops": their overlap is that of two destructions, which is
`crossed`, or touches different units. A `VIEW` hides what no action reads: the record of
a unit that nothing refers to, and claims and flags where there is neither agent nor loop.

## 6. SandboxOrchestrator

### What it says

One process, one event loop; a handler is cut at its awaits and waits in a slot of `job`.
`restart` and `restore` run their cluster calls in a thread, so these are steps too.

| code | model |
| --- | --- |
| `_sandbox_cache`, `_agent_map` | `cache` (status "absent": no entry), `agentMap` |
| pods with phase and agent label; services | `pod`, `services` |
| an entry object a handler holds while the cache has another one | `held` in `job`, taken away by `Detached` |
| `provision_warm`, `create_sandbox`, `session_start` | `ProvisionWarm`, `CreateSandbox`, `StartTakesIdle`, `StartCreates`, `CreationFails` |
| `session_end`, `claim_sandbox`, `destroy_sandbox` | `SessionEnd`, `Claim`, `Destroy` |
| `release_sandbox` around its wipe | `ReleasePersistent`, `ReleaseBegin`, `ReleaseDone` |
| `restart_sandbox`, `restore_snapshot` | `RestartBegin`, `RestoreBegin`, `VolumeSwap`, `PodDelete`, `PodCreate`, `PodCreateFails`, `WaitEnds` |
| `_rebuild_cache` at a start and by `GET /pool/debug` | `Crash`, `PoolDebug` by `RebuiltEntry`, `RebuiltMap` |
| the cluster | `PodRuns`, `PodBreaks` |

`agentMap` keeps entries of sandboxes that are gone where the code does. Labels distinguish
"no label" (`NoAgent`) from the empty string that `update_pod_labels` writes (`Blank`): the
rebuilt entry of the second has an agent that is not `None`. `drawn` makes ids fresh.
History: `resold`, sandboxes assigned while a release of them was wiping; `strays`, pods
that the cache did not know when they came up. Left out: volumes and snapshots as objects,
images, the proxy.

### What is checked

`MCBackends` (with `Machines`): three ids of which two may exist, two agents, two
suspended handlers, one fault. Two handlers are what a race needs; the third id is one that
a destroyed sandbox is replaced by. `OneSandboxOrQuiet` cuts the search: two suspended
handlers, or one of them and a fault, meet on one sandbox; a second one is drawn where nothing has
failed and at most one handler, a release, is suspended. Without the constraint the invariants
were checked to 4.5 million states, and the proofs of section 16 do not depend on it.

* `MapPointsHome`: the sandbox an agent is mapped to is cached and names that agent, but for
  a sandbox in `resold`.
* `LabelNeverForeign`: a label never names an agent its entry does not, so a rebuild gives
  nobody a sandbox that was taken from him.
* `PodsAccounted`: every pod is in the cache and counted, every cached sandbox has a
  service, and `MAX_SANDBOXES` bounds them, but for `strays`: a pod whose creation raised
  after making it, and one that a restart made again after the sandbox was destroyed.

No liveness: nothing has to come back.

## 7. Sandboxes

### What it says

The rows of `sandboxes` (`row`), the pool's units as far as a caller sees them (`unit`) and
operations in slots (`call`). An operation loads its row (`seen`), awaits the pool, and
writes the columns that differ from what it loaded (`Merged`): that is the unit of work of
SQLAlchemy, and why a late write of one operation does not undo all of another's. From its
flush to its commit it holds the row, so flush, the pool's call between them and commit are
one step.

| code | model |
| --- | --- |
| `create_sandbox` with the limit, provisioning, the row taken over if the unit has one | `CreateBegin`, `Provision`, `CreateDone` by `Recorded`, `NewRow` |
| `acquire_sandbox_for_agent` in a session's transaction | `AcquireBegin`, `AcquireDone`, `AcquireRolledBack` |
| assign, unassign, transfer | `AssignBegin`, `AssignDone`, `UnassignBegin`, `UnassignDone`, `TransferBegin`, `TransferDone` |
| `release_agent_sandbox` | `ReleaseBegin`, `ReleaseCall`, `ReleaseDone` |
| restart, with the provisioning that makes up for a failure | `RestartBegin`, `RestartCall`, `RestartDone` |
| destroy, and the reconciler's pass over stale sandboxes | `DestroyBegin`, `StaleBegin`, `DestroyCall`, `DestroyDone` |
| `sync_pool_status`, health checks, `ON DELETE SET NULL` | `SyncStatus`, `Health`, `AgentDeleted` |
| what the pool does by itself | `PoolDrops`; `Offered` is any unit `session_start` may answer with |

The unique index on an agent's sandboxes, the unique unit and the foreign key are `Allowed`;
what violates them `Fails`. `received` are rows that changed owner by a transfer or by being
taken over, `odd` the rows that one of these causes may have put at odds with the pool:
operations that overlap on a row, a pool call that failed, a unit the pool lost, the
transfer of a sandbox in use and an agent's deletion (the pool is not told), a unit
that was taken over.

### What is checked

`MCPages`, of whose 330,000 states these are 261,700: two users, an agent, three rows, three units, two slots,
three operations, one sandbox per user.

* `AgreesWithPool`: a row and the pool agree on who has the sandbox, for every row whose
  history has none of these causes.
* `LimitOvershoot`: creations that overlap pass the limit, each by one; nothing else does.

`CHECK_DEADLOCK FALSE`: the number of operations is bounded (`MaxRequests`), and so is what
happens in the other parts of that run. The unit type
is left out (all are headless): every operation treats a desktop the same way, with a limit
of its own in the unique index.

## 8. Conversation

### What it says

One session. `messages` is `PromptAssembly.messages`: role, calls, the call a result
answers, and of texts only whether a result is in full, shortened or a remark, with `seen`,
how often it was sent in full. A batch of calls is run one by one; each may be
`compact_history`, which cuts the list.

| code | model |
| --- | --- |
| `_bootstrap` and `load_history` | `Init` |
| `_run_iteration` up to the call: reload, new messages, hint, budget gates, expiry | `Iterate` by `Reload`, `Injected`, `Expired` |
| the rate-limit pause | `PauseEnds`, `Interrupted` |
| the response: stages, text only, `end` alone or not, tools | `Respond`, `Transition`, `ExecutionPrompt` |
| `_execute_tool_batch` | `RunTool`, `CompactCrashes` |
| `compact_messages`, `_repair_dangling_tool_use` | `Compacted`, `Repaired` |
| the adapters' `_build_messages` | `ToAnthropic`, `ToOpenAI`, `ToGemini` |
| limits, errors, interrupts | `Exhausted`, `CallFails`, `Interrupted` |
| `ConfigListener`, messages that come in | `Change` |
| `scripts/validate_llm_messages.py` | `Validated` |

`Validated` is the repository's own check of a list, and a part of `WireWellFormed` says what it is
worth: a list it accepts is sent by the adapters as the script has built it.

`compact_history` with `keep_recent = 0` keeps everything (`ms[-0:]`); one that is not a
number raises outside the handler's `try`.

### What is checked

`MCConversation` (598,064 states with the sandbox server): three iterations, batches of two, `keep_recent` two or no
number, two messages of past sessions, one change. Three iterations are a batch, a
compaction in the next, and a request after it. `CHECK_DEADLOCK FALSE`: sessions end.

* `WireWellFormed`: in what each adapter sends, every call has its result in the block right
  behind it, and for Anthropic and Gemini no result is without a call and Anthropic's
  list ends with the user. `_repair_dangling_tool_use`, quoted by the property, is part of it.
* `SeenFullOnce`: a result is sent in full at most once and none is shortened before.
* `SessionEnds`, under weak fairness of the loop: a pause ends after ten minutes, requests
  and tools end. It needs that iterations count responses, whatever is in them.

The same run has the sandbox server's two modules (section 12).

## 9. Spending

Each agent's session reads the usage of the project in its own transaction: what is
committed and what it has recorded itself (`TokensToday`, `CallsLastHour`). `Gate` is
`_check_budget_gates`, `Poll` a turn of `rate_limit_soft_pause`, `Call` a call with its
usage, `Ends` and `Abort` the two ends of the wake cycle's transaction. The row of the
settings is read at bootstrap (`Wake`), at a reload and in a pause; within one pause the
session's identity map gives the first poll's row to all later ones (`RowAtPoll`). The cost
budget is the token budget in another unit. `HourPasses` and `Midnight` forget; budgets of
zero (none) promise nothing and are not among `Budgets`.

`MCServices` (373,000 states with `Accounts` and `Watchdog`): two agents, budgets one and two, with and without a rate
limit, calls of up to two tokens, two polls, two calls an hour.

* `Overshoot`: what one agent's sessions of a day record stays below the largest budget
  plus one call, whatever commits in between and however often the budget is changed. For
  the project that is the number of its agents times the budget; the code has no
  reservation that would bound it more closely.
* `PauseEnds`, under weak fairness of `Gate`, `Poll` and `Call`: the sleeps of the pause end,
  a request has a timeout. The daily budget is not looked at again after a pause, which
  `Overshoot` covers.

`MaxCalls` bounds the calls of an hour where there is no rate limit.

## 10. Tasks

Transactions (`tx`) of requests (one operation) and sessions (many). An operation reads its
task and validates (`AskStatus`, `AskPatch`, `AskAssign`, `AskAbort`, `AskDelete`), then
flushes what differs from what it read (`Flush` by `Written`, `Sets`, `Clears`; `Clear` and
`Delete`); rows are locked from their flush to `Commit` or `Rollback`. `row` and `current`
are committed, `work` and `workCurrent` what the holder of the lock sees. An
agent's session reads its own agents row once (`loaded`), so `abort_task` works on the task
that was current at the start. The foreign key from `agents.current_task_id` is in
`BeingDeleted` and in `Delete`'s guard.

`MCRecords` (821,000 states in its six parts): two tasks, an engineer and a manager, two transactions, three operations.

* `CurrentIsAssigned`: an agent's current task exists and is assigned to it, unless two
  transactions had that task in hand at once, or its assignee was patched (`crossed`). That
  an assignment clears the previous agent's pointer, an abort its own and a deletion
  everybody's is what makes it true.

A deadlock of PostgreSQL's row locks is `Rollback` of one of the transactions.

## 11. Board

The tasks of one browser. The service flushes, locks, reads back and broadcasts before the
commit (`Create`, `Update`, `Delete`; `RefreshOnly` and `Tell` are an update that changes
nothing and so locks nothing); a transaction ends by `Commit` or `Rollback`. The browser
handles events in their order (`HandleEvent`), responses to its own requests (`HandleReply`)
and the fetch of the page (`FetchRead`, `FetchApplied`, `FetchFailed`) in any order, loses
its socket and gets it back (`Disconnect`, `Connect`), and may be opened again (`Reload`). A row
is its version.

`MCRecords`: one task, two transactions, up to four writes. Tasks do not
interact on the board; two transactions are enough to lock, overtake and roll back.

* `BoardCurrent`: with nothing under way, the board shows the committed version of every task
  that is not `astray`. `astray` collects, per task and until its next event, the ways in which
  the code lets the board go wrong: an event sent while the socket was down, a rollback
  after an event, a deletion (no event tells of it), an event of a row that was not locked, a
  fetch or a response applied after a newer event.

## 12. The pool manager's host

### Machines

An operation of the pool manager on a unit is, on the host, a list of commands run in a
thread. `calls` says which command each operation comes to next; every command may fail
(`Fault`), and what it has done until then stays. The units' status and who may begin what is
`PoolManager`'s business: here a unit is registered or not (`pool`), so operations overlap more
freely than the pool manager lets them.

| code | model |
| --- | --- |
| `docker_manager.py`: volume, `run`, recreate, remove | `EnsureVolume`, `CreateContainer`, `ClearContainer`, `RecreateContainer`, `DestroyContainer`, `RemoveVolume` |
| `vm_manager.py`: image and ISO, forwarding, define and start, shutdown, undefine, files | `MakeDisk`, `SetupPortForward`, `Launch`, `StopVM`, `StartVM`, `UndefineVM`, `CleanVM` |
| `main.py`: the endpoints and `_background_reset` around them; what a failure undoes | `Create`, `Promote`, `Demote`, `Destroy`, `Reset`, `Reboot`, `Enter`, `CreationFails` |
| machines that die or switch themselves off; the end of the process and `lifespan` | `Dies`, `GuestOff`, `ProcessRestarts` |

`MCBackends`: two ids, one headless port and two for desktops, two operations, two faults. One id is made
and unmade by a swap while the other is destroyed; a port has a second owner; an undefine that failed is
followed by the end of the process.

* `HostInOrder`: a container, volume, disk or domain that belongs to no unit nobody works on is in
  `left`, which names how it came to stay: a removal that failed, a machine made again by a
  reset that outlived its destruction, the volume of a unit that was found dead at a start, a VM
  half made when the process ended. And a desktop's port has its rules in all three chains, unless they
  went with another unit that had had the port (`cut`): a late second destruction, or a unit that the end
  of the process found half made or already without its rules.

### Watchdog

`Look`, `Probe`, `Decide` are one turn of the loop; `Attempt`, `Limit`, `Kill`, `Killed`, `StartManager` a
restart, which loop and HTTP thread (`PostRestart`) may be in the middle of at once, on the same
`_state`. Processes boot, serve, hang, exit (`Boot`, `Fails`); one that finds the port taken
exits. `Ages` lets a restart fall out of the window of `MAX_RESTARTS`.

`MCServices`: four processes, one crash, hang or kill that does not work, one request.

* `ManagerComesBack` (`Recovers`): whenever no manager answers, later one does, or the alert is on.
  Fairness is weak, of the loop's steps and of each thread's restart: threads run, and
  nothing is assumed of the processes. The loop's own end (a restart that raises) is the third
  outcome, `pc["loop"] = "dead"`.

### Shell and Capture

They are what runs inside a sandbox, and are checked in `MCConversation`.

**Shell**: two commands, chunks of two sizes, a ring buffer smaller than two of them. `Execute` is the tool,
`Arrive`, `Run` the server's REST handler, `Answer` and `Lose` what the client hears of it, `Connect`,
`Drained`, `Leave` the client's other way through a terminal, `Close` the session's end, `Read` and
`Drop` the ring buffer. The server is one event loop, so while `RingBuffer.write` turns (`full`) it does
nothing else (`Serving`). `RunOnce`: a command that was started and tried again is one whose answer
did not arrive, and not on a desktop; a command goes on beside the next one only in that case, or
in a terminal that is about to be closed.

**Capture**: two viewers, two captures. `holder` is who has the lock of `ScreenStreamer`; the task of a
capture starts its process (`Spawn`), reads (`Frame`, `EndOfOutput`), sends (`Send`) and is cancelled
(`Cancel`, `Cancelled`), and whoever stops it goes through `Kill`, `Forget`, `Cancel`, `Stopped`. `_proc` is set
by the task, later than `add_client` looks at it. `CaptureFollows`: outside the lock, only the known process is
alive, none without a viewer, and a viewer has a task that reads unless the last process
ended by itself (`failed`), all of it as long as no capture was begun before another had ended
(`crossed`).

`ServerInOrder` is both.

## 13. Rows that people edit, and streams

Each of these is small and is about one promise; bounds are in the `.cfg` of the run named.

**Documents** (`MCRecords`: three transactions, history of two, five edits). An edit reads
the row (`Read`), inserts what it is about to overwrite as version `current_version + 1`
(`Snapshot`, which prunes too) and updates (`Update`); the unique key of the version numbers makes
the second of two edits of one content wait and fail. `EditKept`: what a committed edit overwrites
is in the history, unless a session's own edits have pruned it, or the edit was `overtaken` by more
edits than the history holds. Stated for a document created once: nothing prevents two.

**Toolbox** (`MCRecords`: two servers, two prefixes that may collide after normalisation, two rows, three
changes). `Ensure` is the backfill of a page or a session, `Sync` and `SyncAfresh` bring a server's
rows in line with `listed`, `Deploy` is a release with a new tool. `DuplicatesHaveACause`: two
rows have one name only if two transactions that added rows overlapped or two servers have had the
prefix. `SwitchedOffStaysOff`: no sync replaces a row that is off by one that is on, as long as
its server lists the tool.

**Clusters** (`MCRecords`: three ids, two transactions, three requests, manifests of three prefixes, of which one
begins another, and one that is not valid). `Apply` compares (`Items` by `Member`, `Desired`), `ApplyCreate`, `ApplyUpdate`, `ApplyDelete`, `ApplySkip`
are the turns of its loop, `Create`, `SpawnUnnamed`, `Update`, `Remove`, `UpdateMemory` what people, managers
and agents do; a flush waits for the row's lock (`Put`). `Converges`: a manifest that is committed and
during which nobody else has flushed (`alone`) leaves as many agents as it has replicas, numbered from 1,
of its model, and touches no others that were no members.

**PromptBuilder** (`MCRecords`: two agents, two requests, two saves, three clicks). The page's state and
its requests on one side, the transactions (`Look`, `Delete`, `Commit`) on the other. `ForeignHasACause`:
blocks of one agent get into another's list only if an answer came after its agent was left, a fetch
failed, or a list was saved before the agent's own had come (`mixed`); each of these happens.

**Knowledge** (`MCPages`: three documents, two uploads at once, texts of up to two paragraphs of up
to two sentences). `Chunks` is `_chunk`, a fold over sentences with a buffer and the tail that
overlaps. `QuotaOvershoot`: what is indexed and under way passes the quotas by less than the uploads
that may run at once, in number and in bytes. `ChunksCover`: the chunks of a document are its
sentences, in order, each once; a chunk longer than the limit is one sentence. A failed upload
leaves no row: the status "failed" that `ingest` sets is rolled back with the rest.

**LogStream** (`MCPages`: a ring of two, three lines, two connections, one reconnect). `Connect` registers
and sends the snapshot in one go, `Broadcast` sends a line to the connections there were when it
was taken from the queue; the page drops what it has by number (`Snapshot`, `Receive`).
`LogsComplete`: no gap and no line twice, and the end of the log when nothing is on its way.

**ScreenRelay** (`MCPages`: two viewers, two relays, two attempts). `AddViewer`, `RemoveViewer` and the
places of `_relay_loop` (`Resolve`, `FanOut`, `Check`, `Wake`, `Leave`). `ViewersServed`: who watches is
registered and its relay works, unless that has made its attempts, did not find the sandbox, or
was leaving for want of viewers when this one came: `_NeedsRelay` looks at a task that is not done yet.

## 14. Users

**Billing** (`MCRecords`: two subscriptions, two checkouts, three events, one fault). `stripe` is what Stripe has,
`events` what it has still to tell: in any order, again after an error or a lost answer, never again
after an answer. A handler reads the user (`FindUser`), the row (`FindRow`), writes what differs
(`Apply` by `Merged`). `FollowsStripe`: when everything has been told, in order and of one subscription
at a time (`astray`, `mixed` otherwise), the tier is the one that is paid for, and the user is
blocked exactly while a payment is due.

**Accounts** (`MCServices`: one person, one OpenAI account, addresses that may coincide or be missing, two
requests, one fault). Unique keys decide at the commit of `InsertUser` and `WriteConn`; the loser is
refused. `EverybodyGetsIn`: a person whose address is not another account's gets an answer in the end. Fairness:
requests are answered (weak), and a person who is refused tries again (strong, because another
request may take the place of this one in between).

**Routing** (`MCRouting`, a counterexample, section 15): `SelectProvider`, `KeyProvider`, `FirstConfigured`,
`ResolveProvider` are the functions of these names; `LookUp` finds the user's key, `Normalized` is the
facade's rebuilding of the request, `GetProvider` the router.

## 15. Disagreements

Three runs end with a counterexample. `MCRemovalReturns`: `remove_worker` stops a worker
permanently, says its docstring (`worker_manager.py:218`). It sets the interrupt flag and
cancels; a worker in a session receives one cancellation, finds the flag, swallows it as an
interrupt and waits for its queue, and `remove_worker` waits for the worker. `MCRouting`: "Add your own
API keys so agents use your account directly. Server keys are used as fallback."
(`frontend/src/components/APIKeyManager.tsx`); `normalize_request_tool_names` builds a new request
without `api_key` as soon as the agent has a tool or the history a call, and the server's key is used.
`MCShell`: "Byte ring buffer that drops oldest data when full" (`sandbox/server/shell_handler.py`): the
round that drops the oldest chunk puts the truncation notice in front, and the next round drops the
notice and puts it there again. As soon as a session has printed more than the buffer holds, `write` does not return; it
has no await, so the server answers nobody any more. Fairness is weak, of these rounds alone.

The following are properties in the modules that no run checks, each false of the code and
violated within seconds when it is put into a `.cfg`:

| property | what was promised | what the code does |
| --- | --- | --- |
| `MessageDelivery!InterruptAtBoundary` (one agent, message, fault) | `docs/backend/workers.md:136`: an interrupt takes effect at the next iteration boundary, nothing is cancelled in mid-execution | cancels `Agent.run` and rolls the session back |
| `MessageDelivery!ResetOnlyWithoutSession` (the same, no fault) | `docs/backend/workers.md:243`: an active agent is reset when it has no running session | the session's row is uncommitted, so every active agent looks like that |
| `WorkerManager!PermanentlyStopped` (one agent) | the docstring of `remove_worker` | between its return and the commit of the deletion a reconciler pass sees the row and spawns a worker |
| `PoolManager!FreePorts` (three headless ids, two calls) | `port_allocator.py:23`: "the next free port" | two deletions of a unit release its port twice, the second time it is a new unit's, and a third unit gets it too |
| `SandboxOrchestrator!IdleIsTakeable` | docstring of `session_start` (`k8s_orchestrator/main.py:336`): an idle sandbox with a matching OS is assigned | one that was released before the cache was rebuilt has the agent `""`, which is not `None` |
| `Sandboxes!OwnerKept` (seven steps) | "sandboxes are user-owned resources", `api/v1/sandboxes.py`: "Transfer sandbox ownership to another user. Owner only." | a unit handed out again takes its row over from whoever owns it (`sandbox_service.py:527`) |
| `Sandboxes!StaleUnassigned` (eleven steps) | `reconciler.py`: "idle (ready, unassigned) for >30 min, destroy to free" | the pass destroys by a list it read before its awaits; an agent may have the sandbox by then |
| `Spending!RaiseTakesEffect` | `helpers.py:191`: "Each poll re-reads project settings so a user adjusting limits ... takes effect within one cycle" | from the second poll on the session's identity map answers |
| `Documents!OneDocument` | `project_documents.py:131`, `constraint="uq_project_documents_project_type"` | no migration creates the constraint: two requests create two rows, and an agent's upsert fails |
| `Tasks!DoneIsTerminal` (seven steps) | `task_service.py:24`: `"done": []`, "Terminal state" | a transaction that validated earlier writes after the one that finished the task |

Met while reading, and not in a model because one line decides them:

* Sandboxes: the clients of promote and demote send no body and the pool manager requires one
  (422); the reconciler's orphan pass calls `svc.release`, which does not exist; Kubernetes'
  list answers "sandbox_id" where `sync_pool_status` looks for "unit_id", so every row becomes
  "released"; restart's "unreachable" is rolled back by the 502 that follows it; the sync turns
  "ready" into "idle", which the stale pass does not look for; `/images` and `/capacity` come
  after `/{sandbox_id}` and are never reached.
* Tasks: assign looks at no status, so a finished task can be handed out; `PATCH` with
  `assigned_agent_id` leaves both agents' `current_task_id` as they were; `abort_task` clears
  its agent's pointer even when a newer assignment has set it.
* Board: the fetch of a page and its socket's connection are unordered; the handlers of
  `useTasks` are lost when the token appears later, for `subscribe` depends on nothing; an event
  is sent to a slow browser while the row is locked.
* Sessions: a reload takes the stage's block out of the prompt and offers all tools in the thinking
  stage; a history of nothing but orphaned results becomes an empty list for Anthropic; a compacted
  history may begin with results, which the OpenAI adapter keeps; a compaction in a batch answers
  the calls that are still to be run; `LegacyGemini` sends calls that were never run.
* Spending: usage is recorded in the wake cycle's transaction, so an interrupted session's
  spending is forgotten; `BudgetService.check_llm_budget` is called by tests only, and
  `TierService.record_usage` by nothing that runs.
* Billing: `customer.subscription.updated` does not sync the tier; the deletion of an old
  subscription downgrades a user who has a new one (`mixed`).
* Knowledge: `api/v1/knowledge.py:99` promises a row of status 'failed', which is rolled back; the
  keyword search after an error of pgvector runs in the aborted transaction; a CSV file is one
  paragraph, which only its sentences cut.
* Streams: `attempt = 0` inside the relay's `for` resets nothing, so a relay ends after its attempts
  however long its connections lasted; the endpoint's map of channels lacks usage and documents;
  `unsubscribe` of one channel has no effect under ALL; the page's `disconnect` does not cancel
  the timer of the reconnect.
* Clusters: the comment of `compute_diff` says that agents are identified by their label; it goes by
  role and prefix of the name, so a manifest deletes the agents of another cluster whose prefix begins with its own
  (`Member`); a noop never labels; its deletions leave tasks assigned that `remove_agent` would give
  back; its update writes over a memory that the agent has changed since; workers
  start before the commit; `spawn_engineer` counts to find a name, which after a removal exists already.
* Sandbox server: a second viewer who joins before the first one's process is known starts a second capture, against
  "Manages a single ffmpeg" (`stream_handler.py`), and the first process is never stopped (`crossed`); the
  terminal's marker is found in the echo of the command, so `exit_code` is always None that way.
* `scripts/validate_llm_messages.py`: its rule of alternating roles refuses what the Anthropic adapter sends
  when two tools are called; its builders "mirror production exactly" without the adapters' repairs.
* The reconciler runs every 180 s; `docs/backend/workers.md:230` says 30.

## 16. What is proved

`tlapm` checks every step; the constants are arbitrary within the named assumptions, each in the
module that declares the constants and evaluated by the runs. They say what model values have to be apart
(`DeliveryAssumption`, `ManagerAssumption`, `PoolAssumption`, `OrchestratorAssumption`, `SandboxesAssumption`,
`TasksAssumption`, `ServerAssumption`), that bounds are numbers (`SpendingAssumption`, `LogAssumption`,
`ConversationAssumption`; `KnowledgeAssumption`, with texts of paragraphs of sentences that have lengths and
finitely many documents), and two facts of the code: `HostAssumption`, the two ranges of ports are apart
(`config.py`); `RecordsAssumption`, a server lists finitely many tools, none of the program's own tools
has a server's prefix, and the prefix of a manifest is words. So they hold of any number of
agents, messages (finitely many, for cardinalities), workers, units, rows and faults.

`MessageDeliveryProofs`. `IndInv` is inductive: `TypeOK`; `WorkersRegistered` (an entry
in the router exactly while `run` is at work), `TransactionsIsolated` (nobody else sees,
reuses or consumes uncommitted rows), `RowsAddressed`, `LocksOwned` (a row is locked by
its own agent's cycle, a manager's, or an open request for it), `DownIsDown`,
`Undisturbed`, `UnreadUntilCommit`. The last is not inductive alone: that a message in
`recv[a]` stays unread when another cycle commits needs to know that it is addressed to
`a`, and that no open transaction inserts the same row twice. From it:

* `TypeCorrect`, `UnreadSafe`, `LockChainsSafe` (from `LocksOwned`: a blocker is the row's
  own agent or the manager, and a manager wants only while locking),
  `AbortSafe`, each the property of the same name in the runs;
* `StrandedSafe`: `NoStranded`, under the assumption `NoBacklog` that a read takes everything
  (`Cardinality(Messages) <= ReadLimit`, as in the run). With a backlog beyond the
  limit it is false, and `Delivered` is what remains.
* `MailboxImplemented`: initial states map to initial states; `Commit` maps to `Turn`, `ApiSend`
  and `AssignCommit` to `Post`, everything else to a stutter.

`WorkerManagerProofs`. `IndInv` adds `Bookkeeping` and `Orderly`: while no worker has
died of an error the two lists agree, hold every running task, one per agent, and a task
ends only because somebody who will clean up has cancelled it. From it `TypeCorrect`,
`RoutedSafe`, `OneWorker`, `Reachable`, `NoRespawn`.

`PoolManagerProofs`, under `PoolAssumption`. `PortsExclusive` is not inductive alone: the
end of a creation adds a unit and the end of a failed one frees a port, and that
is right only because the unit being made is nobody else's. `IndInv` adds what is missing:

* `JobsWhole`: what each kind of job refers to;
* `Ported`: every unit that may still be put into the pool has a port, so the restart of the
  process reclaims real ones;
* `MadeApart`: no list, job or pool entry knows a unit being made, and no two jobs make
  the same; all that the allocator's "lowest free port" has to contribute is that the port
  was free;
* `Attended`: `NobodyForgotten` without pings, since a ping may end without a word.

After `crossed` only the first two and the types remain. Three lemmas carry the proof:
`QuietStep` for the actions that work on one unit that is there, `BeginStep` for those
that begin to make one, `EndStep` for the ends of creations, swaps and destructions. From it
`TypeCorrect`, `PortsSafe`, `NobodyForgottenSafe`.

Its second part is about the same steps and the budget. `BooksExact` subtracts, from the units there
are and those being made, one for each swap under way, and a step changes two or three of these
numbers at once. The proof follows a set instead, the units that stay (`Staying`: those a swap is
about to take out are left out), whose size is the counter. `Books` adds to `IndInv`:

* `SwapsWhole`: a swap goes from a unit of one kind to a unit of the other;
* `SwapsApart`: what it takes out is in the pool, and no other swap takes it out, until `crossed`;
* `SizesExact`: the totals are those of the units that stay, within the limits, until `crossed` or
  `astray`.

`CountedIs` turns the set's size into the differences of `BooksExact`. `ReservedExact`, `ReleasedExact`
and `MovedExact` are the three things that happen to the totals; after a restart of the process they are rebuilt,
and `PoolFits` (a unit that a swap is about to take out has the one that takes its place) keeps the limits. `BooksStep` is the
step, `BooksSafe` is `BooksExact` as a theorem of the specification. TLC checked `Books` on both
instances of the pool first.

`BackendsProofs`. Of `SandboxOrchestrator`, `IInv` is `TypeOK` and

* `Sound` of every sandbox: a label is of a pod and names its entry's agent, a pod is cached and a cached
  sandbox has a service but for the strays, ids in use are drawn;
* `Home` of every agent: what it is mapped to names it or was resold;
* `Held` of every handler: the entry it holds is in the cache, and nobody is mapped to a sandbox whose
  entry a release will free, but one that was resold;
* `WithinLimit`, the limit of `PodsAccounted`.

`MapPointsHome` is not inductive without `Held`: the end of a release writes through the entry it has
held since before its wipe. From it `TypeCorrect`, `MapSafe`, `LabelsSafe`, `PodsSafe`, and `SharedSafe`:
no two agents are mapped to one sandbox, but for one that was resold.

Of `Machines`, `HostInv`. `HostInOrder` speaks of units nobody works on; an operation has taken some things
away and not yet others. Besides types and what each operation has in hand:

* `Alone`: a unit being made is nobody else's, and has what the steps so far have made;
* `GoneAccounted`, `LeavingAccounted`: of a unit that is not there, or is about to be taken out, what is
  still on the host is in `left`, step by step;
* `OwnersApart`, `OwnedIsTaken`, `RulesThere`: a desktop port outside `cut` has one owner, which keeps it
  taken, and the rules are there from the forwarding to the last command before the unit goes.

The proof found a case that one fault did not reach: a demotion whose `undefine` failed has removed the
rules, and when the process ends before the unit is taken out, `lifespan` finds the unit registered and running, without
its rules. That belongs to `cut` (`GoingOut`); the run allows two faults now, and without it finds
`HostInOrder` violated. `HostSafe` is the theorem.

`PagesProofs`. Of `Sandboxes`: `AgreesWithPool` compares rows with units, but an operation acts on what it once read.
`IInv` is `TypeOK` and

* `CallsWhole`: what each kind of operation has in hand; `UnitsApart`: no two rows are of one unit;
  `GoneIsFree`: a unit that is not there is nobody's;
* `RowsSound`, of every row that is not `odd`: it agrees with the pool, or an operation has told the pool
  what it has yet to write (`Agrees`); whoever has loaded it saw it as it is (`SeenAsItIs`); and a
  release that has told the pool left a unit that is still free, or has overlapped another operation
  (`ReleasedIsFree`);
* `Counted`: a user's rows and the creations under way for the user are together within the limit plus
  one less than the operations at a time. `LimitOvershoot` counts rows only, and a commit adds one.

TLC checked it on the run and, with three slots and four requests, on 4.8 million states.
From it `TypeCorrect`, `AgreesSafe`, `OvershootSafe`.

Of `ScreenRelay`, `ScreenInv`: an entry's task is not cancelled, a cancelled one has yet to end, the entry
knows those who watch, and a task that leaves somebody has a cause. `ViewersSafe`.

Of `LogStream`, `LogInv`. `LogsComplete` compares the page with the log when nothing is on its way; in between
lines are in the queue, in the hand of the broadcast, on the wire, and behind a snapshot that
has not arrived. All of these are stretches of one numbered sequence (`Stretch`): `QueueHolds`, the queue is its
end; `HeldNext`, the line in hand is the one before; `WireFollows`, the lines on the wire end at what has been
sent and begin with a snapshot, or not later than behind what the page has; `PageFollows`, the page
has the newest it has seen, as many as fit unless it was cleared; `WithoutGap`. From it `LogSafe`.

Of `Knowledge`, `BaseInv`: types, the chunks of a document are those of its text from the parsing on
(`ChunksOfText`), a file under way is not larger than a file may be (`FilesInSize`), and no more are under
way than may be (`AtOnce`). `QuotaOvershoot` is inductive with them: `UploadKeeps` is where it is decided,
all other steps add nothing (`NothingAdded`). Most of the proof is about the operators. `Chunks` is a fold
over paragraphs that folds over sentences, and measures each piece by a third fold; `Bytes` sums over a
set a fold of folds. A fold is a function chosen by its recursive equation, so that it exists has to be shown first
(`FoldExists`, `JoinExists`, `SumsExist`), then what it is after each element (`FoldSteps`), by induction up
to a number (`UpTo`). `Collected` is the invariant of the buffer of `_chunk`: what is done and what is
collected are together what was put in, in order, and what is done has its size. `FlushKeeps`,
`PieceKeeps`, `SentencesKeep` and `ParagraphKeeps` carry it through, and `ChunksRight` follows for every
text. That the sum does not depend on the order the documents are taken in is `TotalExists`; from it, that
it grows with the set and with each size (`TotalLess`, `TotalMore`). From these `QuotaSafe` and `ChunksSafe`.

`SpendingProofs`. `IndInv` is `TypeOK`, `Bounded` (an agent that may make a call, its own usage and what is
pending counted, is below some budget, whatever the budget is by now) and `Overshoot`. From it
`TypeCorrect`, `OvershootSafe`.

`RecordsProofs`. Of `Tasks`: `CurrentIsAssigned` is about what is committed, and a commit publishes what its
transaction flushed against what it had once read. `IInv` is `TypeOK` and

* `Whole` of every transaction: what each kind of operation has in hand; `Known`: a task that is there
  or asked for has been created;
* `Pointed`: a pointer, committed or not, is to a task that is there for those who see it; a task that
  is being deleted is nobody's but that of an agent whose row the deletion holds, and whoever points to
  a task that is being created holds both rows. This is the foreign key, with its waits;
* `Apart`: a task that is not `crossed` is touched by one transaction at most, and `SeenAsItIs`: that
  one finds it as it read it;
* `Assigned` of every transaction: as it sees the rows, what is committed and its own writes, a current
  task is assigned to the agent that has it. A commit makes that what everybody sees.

`Clears` is where it is decided: an assignment writes the new agent into the task and the pointer, and
the old agent is the one it read, which `SeenAsItIs` makes the one there is. From it `TypeCorrect`,
`CurrentSafe`.

Each of the others has its own invariant and theorem:

* `PromptInv` (`PromptsSafe`): until a cause is met, rows, the answers under way and the page's list are those
  of the agent they are of (`RowsOwn`, `ListsOwn`, `ShownOwn`);
* `DocInv` (`EditsKept`): `NumbersApart`, no two transactions have inserted one number, which is the unique
  key; and of a transaction that was not overtaken, `EditCurrent`: it has read, saved or is about to save
  the document as it is. `EditKept` is about a step, and follows from what the invariant says before a commit;
* `ToolInv` (`DuplicatesSafe`, `SwitchedOffSafe`): tools are named after a server that has had the prefix
  (`NamesOwned`), the rows a transaction adds have ids of their own (`IdsApart`), a row that was switched off
  stays so (`OffMeansOff`), and as long as no cause was met names stay apart when what is open is committed
  (`RowsApart`);
* `BoardInv` (`BoardSafe`): a row is as committed unless one transaction has it locked; the last event under way
  of a task that is not astray tells the version there is, and with none the board shows it (`Told`); the
  event of a creation is the first of its task (`Newborn`);
* `BillInv` (`BillSafe`): until something went astray webhooks are applied in turn (`InTurn`) and there is one
  customer; as long as none is overdue, row and tier are what the newest applied event told (`AsTold`), the
  events still to come are complete (`NoneLost`), follow from it (`OneAfterAnother`), and end at what
  Stripe has (`UpToStripe`);
* `FleetInv` (`ConvergesSafe`): a row that nobody has locked is as committed (`UnlockedIsCommitted`), an id not
  drawn has no agent, and of a transaction that is still alone with its manifest (`OnTrack`): nobody else has
  locked a row, it has touched members only (`Spared`), and what it sees and what it has yet to do make a
  `Plan`: no two members have one name, every item is of what it was made for (`ItemRight`), and every
  name and every member that is not as desired has its item (`NamePlanned`, `AgentPlanned`). `Plan` is an operator of a
  manifest, agents and items: `DiffIsPlan`, `PlanCreate`, `PlanUpdate`, `PlanDelete` and `PlanDone` say what
  comparing, each item and the end make of it, the steps only who sees what. `Converges` is about a step, and
  follows from what the invariant says before the commit.

`ConversationProofs`. Of the sandbox server, `ShellInv` (what each command has left in the two ways to run
it) and `CameraInv` (until `crossed`: one capture goes on, it is the one that is known, the process is its own,
and who holds the lock stops it or starts it again); `ServerSafe` joins both.

Of `Conversation`, `TalkInv`: a text in full has been sent exactly when the model has answered since (`Good`), and
before a call none is in full that was answered (`Fresh`). From it `ShownOnce`.

`WireWellFormed` is about what the adapters build, and no list they build is part of the state: the invariant is
about the history they build it from. `PairInv`, checked with TLC on all states of the run first, says of
it (`Sound`):

* `Shapes`: only the model calls, and ids have been given out; `Single`: no id is called twice;
* `Behind`: a result is behind its call with nothing but results between;
* `Rooted`: a result without its call is at the front, where a compaction has cut;

and where the session is in a batch, `Due`: results may come next, as behind the message that
called there are only results, or it was cut off; before a request the model did not have the last word
(`Turned`). A history is sound whatever calls are still unanswered: the repair makes it complete.
What `Repaired`, `WithoutOrphans` and the adapters make of a sound history is stated about `FlattenSeq` in
lemmas of their own (`Marks`, `Kept`, `RemarkedOn`). From these `WireSafe`.

The library's induction theorems take an operator, which the provers cannot instantiate. What is said of
lists of any length (`FlattenSeq`, stretches of a log, folds) is proved by the least counterexample instead:
a set of numbers that is not empty has a least one (`Least`, from the well-foundedness of `<`).

Only model-checked:

* liveness, which is out of the prover's reach: `Delivered`, `EveryAgentServed`, `ShutdownEnds`,
  `SessionEnds`, `PauseEnds`, `EverybodyGetsIn`, `ManagerComesBack`;
* the three counterexamples of the runs that expect a violation.

## 17. Mutants

For every property of every passing run `PROJECT.json` names a change of one definition
(the operator just before it, marked as a mutant) that breaks the property: a rollback
that is forgotten, a query without its target, a tool without its role check, an exit that does
not unregister, a reconciler that does not look twice, a failed creation that keeps its budget,
a label that is left behind, remarks that come at the end of a history, a gate that looks at
other sessions' spending only.

## 18. Not modelled

The sandbox server's mouse, keyboard, screenshots and VNC relay: input and output. Session rows: written and committed with the
wake cycle, read by nothing that acts on them but the reconciler. Dead letters, the cluster
index: without a table or a caller. The cap of 50 rows of the message retry
(`reconciler.py:183`): it needs a table of more than fifty messages. The connections that sessions
hold while they wait for a model (`db/session.py:33`): a pool of a fixed size, a number and not an order of
steps. Checkout and portal sessions, token exchange, encryption of keys, MCP calls, embeddings
and vector search, git, prompt texts: external calls. Access control: stateless checks. Of the
frontend, all but the board, the log and the prompt builder: display. Of the `sandboxes`
endpoints, desktop input and snapshots: they pass a call on.
