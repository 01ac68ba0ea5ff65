---------------------------- MODULE WorkerManager ----------------------------
(***************************************************************************)
(* Which worker tasks run for which agents: WorkerManager                  *)
(* (backend/workers/worker_manager.py), the life of an AgentWorker task as *)
(* cancellations see it (backend/workers/agent_worker.py), the tools and   *)
(* endpoints that create and delete agents, and the reconciler's pass 1.   *)
(*                                                                         *)
(* One action is what a coroutine does between two awaits that matter to   *)
(* the tracking.  What a session does with messages is MessageDelivery's.  *)
(***************************************************************************)
EXTENDS MessageRouter, FiniteSets

CONSTANTS
  NoAgent,        \* owner of a worker that does not exist
  NoWorker,       \* "not awaiting any task"
  MaxEvents,      \* bound of the model: crashes, interrupts, removals, shutdowns
  MaxRespawns     \* bound of the model: respawns scheduled at a time

ASSUME ManagerAssumption ==
  /\ NoQueue \notin Queues /\ NoWorker \notin Queues
  /\ NoAgent \notin Agents
  /\ {MaxTokens, MaxRespawns} \subseteq Nat \ {0}
  /\ MaxEvents \in Nat

\* A worker is named by its queue.
Workers == Queues

VARIABLES
  \* the worker tasks
  pc,          \* where the task of each worker is, see Places
  owner,       \* the agent the worker was made for
  flag,        \* AgentWorker._interrupt
  \* WorkerManager
  tracked,     \* _workers
  tasks,       \* _task_meta, with _tasks
  removing,    \* _removing
  respawns,    \* agent -> _spawn_tracked_worker tasks created, not yet run
  \* callers of the manager in the middle of something
  awaited,     \* agent -> the task its remove_worker awaits, or NoWorker
  creating,    \* agents committed whose creator has not called spawn_worker yet
  known,       \* ensure_workers_for_all_agents: registered_ids
  todo,        \* ... and the agents it still has to visit
  ensuring,    \* "no", "reading" the agent rows or "visiting" the agents
  \* the process
  phase,       \* "down", "starting", "up" or "stopping"
  startList,   \* start: the agents it still has to spawn a worker for
  stopList,    \* stop: the tasks it still has to cancel
  stopAt,      \* stop: the task it awaits, or NoWorker
  \* agents rows
  life,        \* "none", "flushed" by an open session, "live", "dropping" or "gone"
  removed,     \* agents whose remove_worker has returned
  \* history and bound
  crashes,     \* worker tasks that died of an error
  flagged,     \* calls of interrupt_agent and remove_worker
  shutdowns    \* calls of stop

workerVars == <<pc, owner, flag>>
routerVars == <<queueOf, tokens>>
managerVars == <<tracked, tasks, removing, respawns>>
ensureVars == <<known, todo, ensuring>>
processVars == <<phase, startList, stopList, stopAt>>
rowVars == <<creating, life, removed>>
bounds == <<crashes, flagged, shutdowns>>
vars == <<workerVars, routerVars, managerVars, awaited, ensureVars, processVars,
          rowVars, bounds>>

(***************************************************************************)
(* unused      no such task (any more)                                     *)
(* created     create_task was called, run() has not started               *)
(* idle        awaiting queue.get()                                        *)
(* loading     reading the agent row, up to the Agent.run task's creation  *)
(* session     awaiting the Agent.run task                                 *)
(* cancelling  as session, but the Agent.run task has been cancelled       *)
(* aborting    cleaning up after a cancellation that was an interrupt      *)
(* ending      in the finally block of a cycle that ended by itself        *)
(* exiting     a CancelledError or an error is on its way out of run()     *)
(* exited      run() is over, its done callbacks have not run yet          *)
(***************************************************************************)
Places == {"unused", "created", "idle", "loading", "session", "cancelling",
           "aborting", "ending", "exiting", "exited"}

Running(w) == pc[w] \notin {"unused", "exited"}
WorkersOf(a, S) == {w \in S : owner[w] = a}
HasRow(a) == life[a] \in {"live", "dropping"}

TypeOK ==
  /\ pc \in [Workers -> Places]
  /\ owner \in [Workers -> Agents \cup {NoAgent}]
  /\ flag \in [Workers -> BOOLEAN]
  /\ RouterTypeOK
  /\ tracked \in SUBSET Workers /\ tasks \in SUBSET Workers
  /\ removing \in SUBSET Agents
  /\ respawns \in [Agents -> 0..MaxRespawns]
  /\ awaited \in [Agents -> Workers \cup {NoWorker}]
  /\ creating \in SUBSET Agents
  /\ known \in SUBSET Agents /\ todo \in SUBSET Agents
  /\ ensuring \in {"no", "reading", "visiting"}
  /\ phase \in {"down", "starting", "up", "stopping"}
  /\ startList \in SUBSET Agents /\ stopList \in SUBSET Workers
  /\ stopAt \in Workers \cup {NoWorker}
  /\ life \in [Agents -> {"none", "flushed", "live", "dropping", "gone"}]
  /\ removed \in SUBSET Agents
  /\ {crashes, flagged, shutdowns} \subseteq 0..MaxEvents

Init ==
  /\ pc = [w \in Workers |-> "unused"]
  /\ owner = [w \in Workers |-> NoAgent]
  /\ flag = [w \in Workers |-> FALSE]
  /\ RouterInit
  /\ tracked = {} /\ tasks = {} /\ removing = {}
  /\ respawns = [a \in Agents |-> 0]
  /\ awaited = [a \in Agents |-> NoWorker]
  /\ known = {} /\ todo = {} /\ ensuring = "no"
  /\ phase = "down" /\ startList = {} /\ stopList = {} /\ stopAt = NoWorker
  /\ life \in [Agents -> {"none", "live"}]
  /\ creating = {} /\ removed = {}
  /\ crashes = 0 /\ flagged = 0 /\ shutdowns = 0

\* Requests, tools and the reconciler run; tools also while stop() waits.
Serving == phase \in {"up", "stopping"}

MoreEvents == crashes + flagged + shutdowns < MaxEvents

-----------------------------------------------------------------------------
(* A worker task, as cancellation sees it: AgentWorker.run                 *)

WorkerStart(w) ==
  /\ pc[w] = "created"
  /\ pc' = [pc EXCEPT ![w] = "idle"]
  /\ Register(owner[w], w)
  /\ UNCHANGED <<owner, flag, tokens, managerVars, awaited, ensureVars, processVars,
                 rowVars, bounds>>

Wake(w) ==
  /\ pc[w] = "idle"
  /\ Take(w)
  /\ pc' = [pc EXCEPT ![w] = "loading"]
  /\ flag' = [flag EXCEPT ![w] = FALSE]
  /\ UNCHANGED <<owner, managerVars, awaited, ensureVars, processVars, rowVars, bounds>>

\* Moves that only change where the task is.
Goes(w, from, to) ==
  /\ pc[w] \in from
  /\ pc' = [pc EXCEPT ![w] = to]
  /\ UNCHANGED <<owner, flag, routerVars, managerVars, awaited, ensureVars,
                 processVars, rowVars, bounds>>

\* "Agent not found, skip wake" when no committed row is there.
Load(w) == Goes(w, {"loading"}, IF HasRow(owner[w]) THEN "session" ELSE "ending")

SessionReturns(w) == Goes(w, {"session"}, "ending")

\* Mutant: worker_shutdown is not looked at, every cancellation is swallowed.
CancelSwallowed(w) == Goes(w, {"cancelling"}, "aborting")

\* The handler around "await self._task": a cancellation is an interrupt, and
\* swallowed, if and only if the flag is set.
CancelReaches(w) ==
  Goes(w, {"cancelling"}, IF flag[w] THEN "aborting" ELSE "exiting")

CycleDone(w) == Goes(w, {"aborting", "ending"}, "idle")

\* The cleanup itself raises.
WorkerCrash(w) ==
  /\ pc[w] \in {"aborting", "ending"}
  /\ MoreEvents
  /\ crashes' = crashes + 1
  /\ pc' = [pc EXCEPT ![w] = "exiting"]
  /\ UNCHANGED <<owner, flag, routerVars, managerVars, awaited, ensureVars,
                 processVars, rowVars, flagged, shutdowns>>

\* The outermost finally: the agent's entry goes, whose queue ever it holds.
WorkerExit(w) ==
  /\ pc[w] = "exiting"
  /\ pc' = [pc EXCEPT ![w] = "exited"]
  /\ Unregister(owner[w])
  /\ UNCHANGED <<owner, flag, tokens, managerVars, awaited, ensureVars, processVars,
                 rowVars, bounds>>

\* Task.cancel: the CancelledError surfaces at the await the task is in.  A
\* task that has not started never runs.  A task that awaits the Agent.run
\* task hands the cancellation to that, where a second one merges with it.
CancelledAt ==
  [p \in Places |->
     IF p = "created" THEN "exited"
     ELSE IF p \in {"session", "cancelling"} THEN "cancelling"
     ELSE IF p \in {"unused", "exited"} THEN p
     ELSE "exiting"]

\* AgentWorker.interrupt.
InterruptedAt == [p \in Places |-> IF p = "session" THEN "cancelling" ELSE p]

-----------------------------------------------------------------------------
(* WorkerManager                                                           *)

\* _spawn_tracked_worker.
Spawn(a, w) ==
  /\ pc[w] = "unused"
  /\ pc' = [pc EXCEPT ![w] = "created"]
  /\ owner' = [owner EXCEPT ![w] = a]
  /\ flag' = [flag EXCEPT ![w] = FALSE]
  /\ tracked' = tracked \cup {w}
  /\ tasks' = tasks \cup {w}

\* spawn_worker: the check and the creation are one step, nothing is awaited
\* between them.
SpawnUnlessTracked(a) ==
  IF WorkersOf(a, tracked) = {}
  THEN \E w \in Workers : Spawn(a, w)
  ELSE UNCHANGED <<workerVars, tracked, tasks>>

\* start(): one worker per row ...
Boot ==
  /\ phase = "down"
  /\ phase' = "starting"
  /\ startList' = {a \in Agents : HasRow(a)}
  /\ UNCHANGED <<workerVars, routerVars, managerVars, awaited, ensureVars,
                 stopList, stopAt, rowVars, bounds>>

StartWorker(a) ==
  /\ phase = "starting"
  /\ a \in startList
  /\ startList' = startList \ {a}
  /\ \E w \in Workers : Spawn(a, w)
  /\ UNCHANGED <<routerVars, removing, respawns, awaited, ensureVars, phase,
                 stopList, stopAt, rowVars, bounds>>

\* ... and a bounded wait for their queues, which may time out.
StartDone ==
  /\ phase = "starting"
  /\ startList = {}
  /\ phase' = "up"
  /\ UNCHANGED <<workerVars, routerVars, managerVars, awaited, ensureVars,
                 startList, stopList, stopAt, rowVars, bounds>>

\* What the end of the task of w leaves of it.
Bury(w) ==
  /\ pc' = [pc EXCEPT ![w] = "unused"]
  /\ owner' = [owner EXCEPT ![w] = NoAgent]
  /\ flag' = [flag EXCEPT ![w] = FALSE]
  /\ tokens' = [tokens EXCEPT ![w] = 0]
  /\ stopList' = stopList \ {w}
  /\ stopAt' = IF stopAt = w THEN NoWorker ELSE stopAt

RespawnIfUnexpected(a) ==
  IF phase = "stopping" \/ a \in removing
  THEN UNCHANGED respawns
  ELSE /\ respawns[a] < MaxRespawns
       /\ respawns' = [respawns EXCEPT ![a] = @ + 1]

\* _on_worker_done, as done callback of a task the manager still knows.
WorkerDone(w) ==
  LET a == owner[w] IN
  /\ pc[w] = "exited"
  /\ w \in tasks
  /\ awaited[a] # w
  /\ tasks' = tasks \ {w}
  /\ tracked' = tracked \ WorkersOf(a, tracked)
  /\ removing' = removing \ {a}
  /\ RespawnIfUnexpected(a)
  /\ Bury(w)
  /\ UNCHANGED <<queueOf, awaited, ensureVars, phase, startList, rowVars, bounds>>

\* The same of a task remove_worker has forgotten meanwhile.
ForgottenDone(w) ==
  /\ pc[w] = "exited"
  /\ w \notin tasks
  /\ Bury(w)
  /\ UNCHANGED <<queueOf, managerVars, awaited, ensureVars, phase, startList,
                 rowVars, bounds>>

\* The respawn task runs: unlike spawn_worker it does not look first.
Respawn(a) ==
  /\ respawns[a] > 0
  /\ respawns' = [respawns EXCEPT ![a] = @ - 1]
  /\ \E w \in Workers : Spawn(a, w)
  /\ UNCHANGED <<routerVars, removing, awaited, ensureVars, processVars, rowVars, bounds>>

\* interrupt_agent: the first worker listed for the agent.
Interrupt(a) ==
  /\ Serving
  /\ MoreEvents
  /\ flagged' = flagged + 1
  /\ \E w \in WorkersOf(a, tracked) :
       /\ flag' = [flag EXCEPT ![w] = TRUE]
       /\ pc' = [pc EXCEPT ![w] = InterruptedAt[@]]
  /\ UNCHANGED <<owner, routerVars, managerVars, awaited, ensureVars, processVars,
                 rowVars, crashes, shutdowns>>

\* Mutant: the agent is not marked as being removed.
RemoveBeginUnmarked(a) ==
  /\ Serving
  /\ life[a] = "live" /\ awaited[a] = NoWorker
  /\ MoreEvents
  /\ flagged' = flagged + 1
  /\ \E t \in WorkersOf(a, tasks), w \in WorkersOf(a, tracked) :
       /\ Running(t)
       /\ awaited' = [awaited EXCEPT ![a] = t]
       /\ flag' = [flag EXCEPT ![w] = TRUE]
       /\ LET interrupted == [pc EXCEPT ![w] = InterruptedAt[@]]
          IN  pc' = [interrupted EXCEPT ![t] = CancelledAt[@]]
  /\ UNCHANGED <<owner, routerVars, managerVars, ensureVars, processVars, rowVars,
                 crashes, shutdowns>>

\* remove_worker up to its await: interrupt the first worker listed for the
\* agent, cancel its first task.
RemoveBegin(a) ==
  /\ Serving
  /\ life[a] = "live" /\ awaited[a] = NoWorker
  /\ MoreEvents
  /\ flagged' = flagged + 1
  /\ removing' = removing \cup {a}
  /\ \E t \in WorkersOf(a, tasks), w \in WorkersOf(a, tracked) :
       /\ Running(t)
       /\ awaited' = [awaited EXCEPT ![a] = t]
       /\ flag' = [flag EXCEPT ![w] = TRUE]
       /\ LET interrupted == [pc EXCEPT ![w] = InterruptedAt[@]]
          IN  pc' = [interrupted EXCEPT ![t] = CancelledAt[@]]
  /\ UNCHANGED <<owner, routerVars, tracked, tasks, respawns, ensureVars,
                 processVars, rowVars, crashes, shutdowns>>

\* The rest of remove_worker, and the caller's delete, still uncommitted.
RemoveEnd(a) ==
  /\ tracked' = tracked \ WorkersOf(a, tracked)
  /\ tasks' = tasks \ WorkersOf(a, tasks)
  /\ removing' = removing \ {a}
  /\ Unregister(a)
  /\ removed' = removed \cup {a}
  /\ life' = [life EXCEPT ![a] = "dropping"]

\* There is no task to wait for, or it is over already.
RemoveAtOnce(a) ==
  /\ Serving
  /\ life[a] = "live" /\ awaited[a] = NoWorker
  /\ MoreEvents
  /\ flagged' = flagged + 1
  /\ \/ WorkersOf(a, tasks) = {}
     \/ \E t \in WorkersOf(a, tasks) : ~Running(t)
  /\ RemoveEnd(a)
  /\ UNCHANGED <<workerVars, tokens, respawns, awaited, ensureVars, processVars,
                 creating, crashes, shutdowns>>

\* The task remove_worker awaits is over: _on_worker_done and remove_worker's
\* continuation are consecutive callbacks of the same task.
RemovedDone(w) ==
  LET a == owner[w] IN
  /\ pc[w] = "exited"
  /\ awaited[a] = w
  /\ awaited' = [awaited EXCEPT ![a] = NoWorker]
  /\ RespawnIfUnexpected(a)
  /\ RemoveEnd(a)
  /\ Bury(w)
  /\ UNCHANGED <<ensureVars, phase, startList, creating, bounds>>

\* stop(): cancel and await one task after the other.
Shutdown ==
  /\ phase = "up"
  /\ MoreEvents
  /\ shutdowns' = shutdowns + 1
  /\ phase' = "stopping"
  /\ stopList' = tasks
  /\ UNCHANGED <<workerVars, routerVars, managerVars, awaited, ensureVars,
                 startList, stopAt, rowVars, crashes, flagged>>

StopNext(w) ==
  /\ phase = "stopping"
  /\ stopAt = NoWorker
  /\ w \in stopList
  /\ stopList' = stopList \ {w}
  /\ stopAt' = IF Running(w) THEN w ELSE NoWorker
  /\ pc' = [pc EXCEPT ![w] = CancelledAt[@]]
  /\ UNCHANGED <<owner, flag, routerVars, managerVars, awaited, ensureVars, phase,
                 startList, rowVars, bounds>>

\* stop() returns and the process ends: open transactions are rolled back.
ProcessEnds ==
  /\ phase = "stopping" /\ stopList = {} /\ stopAt = NoWorker
  /\ phase' = "down"
  /\ pc' = [w \in Workers |-> "unused"]
  /\ owner' = [w \in Workers |-> NoAgent]
  /\ flag' = [w \in Workers |-> FALSE]
  /\ queueOf' = [a \in Agents |-> NoQueue]
  /\ tokens' = [w \in Workers |-> 0]
  /\ tracked' = {} /\ tasks' = {} /\ removing' = {}
  /\ respawns' = [a \in Agents |-> 0]
  /\ awaited' = [a \in Agents |-> NoWorker]
  /\ known' = {} /\ todo' = {} /\ ensuring' = "no"
  /\ creating' = {}
  /\ life' = [a \in Agents |-> CASE life[a] = "flushed" -> "gone"
                                 [] life[a] = "dropping" -> "live"
                                 [] OTHER -> life[a]]
  /\ removed' = {a \in removed : life[a] = "gone"}
  /\ UNCHANGED <<startList, stopList, stopAt, bounds>>

-----------------------------------------------------------------------------
(* ensure_workers_for_all_agents, by the reconciler                        *)

EnsureBegin ==
  /\ Serving /\ ensuring = "no"
  /\ ensuring' = "reading"
  /\ known' = {owner[w] : w \in tracked}
  /\ UNCHANGED <<workerVars, routerVars, managerVars, awaited, todo, processVars,
                 rowVars, bounds>>

\* Mutant: the membership test is turned round.
EnsureRowsSwapped ==
  /\ ensuring = "reading"
  /\ ensuring' = "visiting"
  /\ todo' = {a \in Agents : HasRow(a)} \cap known
  /\ known' = {}
  /\ UNCHANGED <<workerVars, routerVars, managerVars, awaited, processVars,
                 rowVars, bounds>>

EnsureRows ==
  /\ ensuring = "reading"
  /\ ensuring' = "visiting"
  /\ todo' = {a \in Agents : HasRow(a)} \ known
  /\ known' = {}
  /\ UNCHANGED <<workerVars, routerVars, managerVars, awaited, processVars,
                 rowVars, bounds>>

\* Mutant: spawning without looking again after the awaits.
EnsureVisitUnchecked(a) ==
  /\ ensuring = "visiting"
  /\ a \in todo
  /\ todo' = todo \ {a}
  /\ \E w \in Workers : Spawn(a, w)
  /\ UNCHANGED <<routerVars, removing, respawns, awaited, known, ensuring,
                 processVars, rowVars, bounds>>

EnsureVisit(a) ==
  /\ ensuring = "visiting"
  /\ a \in todo
  /\ todo' = todo \ {a}
  /\ SpawnUnlessTracked(a)
  /\ UNCHANGED <<routerVars, removing, respawns, awaited, known, ensuring,
                 processVars, rowVars, bounds>>

EnsureEnd ==
  /\ ensuring = "visiting" /\ todo = {}
  /\ ensuring' = "no"
  /\ UNCHANGED <<workerVars, routerVars, managerVars, awaited, known, todo,
                 processVars, rowVars, bounds>>

-----------------------------------------------------------------------------
(* Agents come and go                                                      *)

\* Endpoints commit the row, then call spawn_worker.
CreateAgent(a) ==
  /\ phase = "up"
  /\ life[a] = "none"
  /\ life' = [life EXCEPT ![a] = "live"]
  /\ creating' = creating \cup {a}
  /\ UNCHANGED <<workerVars, routerVars, managerVars, awaited, ensureVars,
                 processVars, removed, bounds>>

CreatorSpawns(a) ==
  /\ a \in creating
  /\ creating' = creating \ {a}
  /\ SpawnUnlessTracked(a)
  /\ UNCHANGED <<routerVars, removing, respawns, awaited, ensureVars, processVars,
                 life, removed, bounds>>

\* The spawn tool and the cluster reconcile call spawn_worker with the row
\* flushed; the commit comes at the end of their transaction, or never.
ToolSpawn(a) ==
  /\ Serving
  /\ life[a] = "none"
  /\ life' = [life EXCEPT ![a] = "flushed"]
  /\ SpawnUnlessTracked(a)
  /\ UNCHANGED <<routerVars, removing, respawns, awaited, ensureVars, processVars,
                 creating, removed, bounds>>

RowSettles(a, from, to) ==
  /\ life[a] = from
  /\ life' = [life EXCEPT ![a] = to]
  /\ UNCHANGED <<workerVars, routerVars, managerVars, awaited, ensureVars,
                 processVars, creating, bounds>>

ToolCommits(a) == RowSettles(a, "flushed", "live") /\ UNCHANGED removed
ToolRollsBack(a) == RowSettles(a, "flushed", "gone") /\ UNCHANGED removed
DeleteRollsBack(a) == RowSettles(a, "dropping", "live") /\ removed' = removed \ {a}

\* Mutant: the queue is deregistered after the commit, not in remove_worker.
DeleteUnregisters(a) ==
  /\ life[a] = "dropping"
  /\ life' = [life EXCEPT ![a] = "gone"]
  /\ Unregister(a)
  /\ UNCHANGED <<workerVars, tokens, managerVars, awaited, ensureVars, processVars,
                 creating, removed, bounds>>

DeleteCommits(a) == RowSettles(a, "dropping", "gone") /\ UNCHANGED removed

\* Anybody's MessageRouter.notify.
NotifyAgent(a) ==
  /\ Serving
  /\ Notify(a)
  /\ UNCHANGED <<workerVars, managerVars, awaited, ensureVars, processVars,
                 rowVars, bounds>>

-----------------------------------------------------------------------------

WorkerStep(w) ==
  \/ WorkerStart(w) \/ Wake(w) \/ Load(w) \/ SessionReturns(w) \/ CancelReaches(w)
  \/ CycleDone(w) \/ WorkerExit(w)
  \/ WorkerDone(w) \/ ForgottenDone(w) \/ RemovedDone(w)

AgentStep(a) ==
  \/ StartWorker(a) \/ Respawn(a) \/ EnsureVisit(a) \/ CreatorSpawns(a)
  \/ ToolCommits(a) \/ ToolRollsBack(a) \/ DeleteCommits(a) \/ DeleteRollsBack(a)

Next ==
  \/ \E w \in Workers : WorkerStep(w) \/ WorkerCrash(w) \/ StopNext(w)
  \/ \E a \in Agents : \/ AgentStep(a) \/ Interrupt(a) \/ RemoveBegin(a)
                       \/ RemoveAtOnce(a) \/ CreateAgent(a) \/ ToolSpawn(a)
                       \/ NotifyAgent(a)
  \/ Boot \/ StartDone \/ Shutdown \/ ProcessEnds
  \/ EnsureBegin \/ EnsureRows \/ EnsureEnd

Spec == Init /\ [][Next]_vars

\* The event loop runs every ready callback, a session's own steps are
\* bounded, the reconciler comes round; nobody has to send, interrupt, create,
\* remove or shut down.
Fairness ==
  /\ \A w \in Workers : WF_vars(WorkerStep(w)) /\ WF_vars(StopNext(w))
  /\ \A a \in Agents : /\ WF_vars(StartWorker(a)) /\ WF_vars(Respawn(a))
                       /\ WF_vars(EnsureVisit(a)) /\ WF_vars(CreatorSpawns(a))
                       /\ WF_vars(ToolCommits(a) \/ ToolRollsBack(a))
                       /\ WF_vars(DeleteCommits(a) \/ DeleteRollsBack(a))
  /\ WF_vars(Boot) /\ WF_vars(StartDone) /\ WF_vars(ProcessEnds)
  /\ WF_vars(EnsureBegin) /\ WF_vars(EnsureRows) /\ WF_vars(EnsureEnd)

FairSpec == Spec /\ Fairness

-----------------------------------------------------------------------------
(* Properties                                                              *)

\* A queue the router can push to is listened on by a worker of that agent:
\* neither a late unregister nor a respawn leaves an entry behind.
RoutedIsAlive ==
  \A a \in Agents : queueOf[a] # NoQueue =>
    /\ owner[queueOf[a]] = a
    /\ pc[queueOf[a]] \notin {"unused", "created", "exited"}

\* Two workers of one agent would run two sessions on its rows and take each
\* other's wake-ups.  As long as no worker task dies, there is at most one:
\* start, creators, tools, reconciler and removals cannot overtake each other
\* into a second one.
OneWorkerPerAgent ==
  crashes = 0 =>
    \A v, w \in Workers : Running(v) /\ Running(w) /\ owner[v] = owner[w] => v = w

\* A worker the manager counts as serving its agent is the one the router
\* reaches: otherwise spawn_worker and the reconciler see no need to repair.
TrackedIsReachable ==
  crashes = 0 =>
    \A w \in tracked :
      pc[w] \notin {"unused", "created", "exiting", "exited"} => queueOf[owner[w]] = w

\* The end of a worker that remove_worker has cancelled does not look like a
\* crash: nothing is scheduled that would bring the agent's worker back.
RemovalSuppressesRespawn ==
  crashes = 0 => \A a \in removed : respawns[a] = 0

\* Whatever crashes, is rolled back or is restarted: an agent with a row has a
\* queue again after a while.
EveryAgentServed ==
  \A a \in Agents : life[a] = "live" ~> (queueOf[a] # NoQueue \/ life[a] # "live")

\* stop() comes to its end, unless a worker has been interrupted or removed.
ShutdownEnds ==
  phase = "stopping" /\ flagged = 0 ~> phase = "down" \/ flagged > 0

\* worker_manager.py, remove_worker: "Permanently stop a worker and prevent
\* auto-respawn."  So the call gets its worker stopped and returns.
RemovalReturns == \A a \in Agents : awaited[a] # NoWorker ~> awaited[a] = NoWorker

\* The same docstring: once it has returned, no worker of the agent runs.
PermanentlyStopped ==
  \A a \in removed : \A w \in Workers : owner[w] = a => ~Running(w)

-----------------------------------------------------------------------------
(* The inductive invariant                                                 *)

\* A worker belongs to an agent while its task exists, and the lists hold no
\* others.
Bookkeeping ==
  /\ \A w \in Workers : owner[w] \in Agents <=> pc[w] # "unused"
  /\ \A w \in tasks : pc[w] # "unused"
  /\ tracked \subseteq tasks
  /\ phase \in {"down", "starting"} => creating = {} /\ todo = {} /\ ensuring = "no"

\* What leaves run() for good, when nothing crashes.
Doomed(w) == pc[w] \in {"exiting", "exited"} \/ (pc[w] = "cancelling" /\ ~flag[w])

\* While no worker task dies of an error, the two lists agree and hold at most
\* one task per agent and all that run; a task ends only because stop() or the
\* remove_worker that awaits it has cancelled it; so no respawn is scheduled.
Orderly ==
  crashes = 0 =>
    /\ \A a \in Agents : respawns[a] = 0
    /\ tracked = tasks
    /\ \A w \in Workers : Running(w) => w \in tasks
    /\ \A v, w \in tasks : owner[v] = owner[w] => v = w
    /\ \A w \in tasks : Doomed(w) => phase = "stopping" \/ awaited[owner[w]] = w
    /\ \A a \in Agents : awaited[a] # NoWorker =>
         awaited[a] \in tasks /\ owner[awaited[a]] = a /\ a \in removing
    /\ phase = "down" => tasks = {}
    /\ phase = "starting" => \A w \in tasks : owner[w] \notin startList

IndInv ==
  /\ TypeOK /\ Bookkeeping /\ RoutedIsAlive /\ Orderly /\ TrackedIsReachable
=============================================================================
