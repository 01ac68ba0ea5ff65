------------------------ MODULE WorkerManagerProofs ------------------------
(***************************************************************************)
(* Theorems about WorkerManager for every set of agents, any number of     *)
(* worker tasks and any number of events.                                  *)
(***************************************************************************)
EXTENDS WorkerManager, TLAPS

\* A cancellation starts no task, and revives or buries none that runs.
LEMMA Cancellation ==
  ASSUME NEW p \in Places
  PROVE  /\ CancelledAt[p] \in Places /\ InterruptedAt[p] \in Places
         /\ CancelledAt[p] = "unused" <=> p = "unused"
         /\ InterruptedAt[p] = "unused" <=> p = "unused"
         /\ p \notin {"unused", "created", "exited"} =>
              /\ CancelledAt[p] \in {"cancelling", "exiting"}
              /\ InterruptedAt[p] \notin {"unused", "created", "exited"}
         /\ p = "created" => CancelledAt[p] = "exited" /\ InterruptedAt[p] = "created"
         /\ p \in {"exiting", "exited"} => CancelledAt[p] = p /\ InterruptedAt[p] = p
  BY DEF CancelledAt, InterruptedAt, Places

(***************************************************************************)
(* Types, bookkeeping and the router's entries: nothing here depends on    *)
(* what the tasks' ends were caused by.                                    *)
(***************************************************************************)
Base == TypeOK /\ Bookkeeping /\ RoutedIsAlive

\* Types, bookkeeping and the router's entries hold in the initial states ...
LEMMA BaseInit == Init => Base
  BY ManagerAssumption DEF Init, RouterInit, Base, TypeOK, RouterTypeOK, Bookkeeping,
     RoutedIsAlive, Places, Workers

\* ... and every step of the manager, the workers and their callers keeps them.
LEMMA BaseStep == Base /\ [Next]_vars => Base'
<1> SUFFICES ASSUME Base, [Next]_vars PROVE Base'
  OBVIOUS
<1> USE ManagerAssumption
<1> USE DEF Base, TypeOK, RouterTypeOK, Bookkeeping, RoutedIsAlive, Places, Workers,
      Serving, MoreEvents, WorkersOf,
      workerVars, routerVars, managerVars, ensureVars, processVars, rowVars, bounds
<1>1. ASSUME Boot PROVE Base'
  BY <1>1 DEF Boot
<1>2. ASSUME NEW a \in Agents, StartWorker(a) PROVE Base'
  BY <1>2 DEF StartWorker, Spawn
<1>3. ASSUME StartDone PROVE Base'
  BY <1>3 DEF StartDone
<1>4. ASSUME NEW w \in Workers, WorkerStart(w) PROVE Base'
  BY <1>4 DEF WorkerStart, Register
<1>5. ASSUME NEW w \in Workers, Wake(w) PROVE Base'
  BY <1>5 DEF Wake, Take
<1>6. ASSUME NEW w \in Workers, Load(w) PROVE Base'
  BY <1>6 DEF Load, Goes
<1>7. ASSUME NEW w \in Workers, SessionReturns(w) PROVE Base'
  BY <1>7 DEF SessionReturns, Goes
<1>8. ASSUME NEW w \in Workers, CancelReaches(w) PROVE Base'
  BY <1>8 DEF CancelReaches, Goes
<1>9. ASSUME NEW w \in Workers, CycleDone(w) PROVE Base'
  BY <1>9 DEF CycleDone, Goes
<1>10. ASSUME NEW w \in Workers, WorkerCrash(w) PROVE Base'
  BY <1>10 DEF WorkerCrash
<1>11. ASSUME NEW w \in Workers, WorkerExit(w) PROVE Base'
  BY <1>11 DEF WorkerExit, Unregister
<1>12. ASSUME NEW w \in Workers, WorkerDone(w) PROVE Base'
  BY <1>12 DEF WorkerDone, Bury, RespawnIfUnexpected
<1>13. ASSUME NEW w \in Workers, ForgottenDone(w) PROVE Base'
  BY <1>13 DEF ForgottenDone, Bury
<1>14. ASSUME NEW w \in Workers, RemovedDone(w) PROVE Base'
  BY <1>14 DEF RemovedDone, RemoveEnd, Unregister, Bury, RespawnIfUnexpected
<1>15. ASSUME NEW a \in Agents, Respawn(a) PROVE Base'
  BY <1>15 DEF Respawn, Spawn
<1>16. ASSUME NEW a \in Agents, Interrupt(a) PROVE Base'
  BY <1>16 DEF Interrupt, InterruptedAt
<1>17. ASSUME NEW a \in Agents, RemoveBegin(a) PROVE Base'
  <2>1. PICK t \in WorkersOf(a, tasks), u \in WorkersOf(a, tracked) :
          /\ Running(t)
          /\ awaited' = [awaited EXCEPT ![a] = t]
          /\ flag' = [flag EXCEPT ![u] = TRUE]
          /\ LET interrupted == [pc EXCEPT ![u] = InterruptedAt[@]]
             IN  pc' = [interrupted EXCEPT ![t] = CancelledAt[@]]
    BY <1>17 DEF RemoveBegin
  <2>3. pc' = [w \in Workers |->
                 LET p == IF w = u THEN InterruptedAt[pc[w]] ELSE pc[w]
                 IN  IF w = t THEN CancelledAt[p] ELSE p]
    BY <2>1
  <2>2. /\ t \in Workers /\ pc[t] # "unused"
        /\ pc' \in [Workers -> Places]
        /\ \A w \in Workers : (pc'[w] = "unused") <=> (pc[w] = "unused")
        /\ \A w \in Workers : pc[w] \notin {"unused", "created", "exited"} =>
             pc'[w] \notin {"unused", "created", "exited"}
    BY <2>1, <2>3, Cancellation
  <2> QED
    BY <1>17, <2>1, <2>2 DEF RemoveBegin
<1>18. ASSUME NEW a \in Agents, RemoveAtOnce(a) PROVE Base'
  BY <1>18 DEF RemoveAtOnce, RemoveEnd, Unregister
<1>19. ASSUME Shutdown PROVE Base'
  BY <1>19 DEF Shutdown
<1>20. ASSUME NEW w \in Workers, StopNext(w) PROVE Base'
  BY <1>20 DEF StopNext, CancelledAt
<1>21. ASSUME ProcessEnds PROVE Base'
  BY <1>21 DEF ProcessEnds
<1>22. ASSUME EnsureBegin PROVE Base'
  BY <1>22 DEF EnsureBegin
<1>23. ASSUME EnsureRows PROVE Base'
  BY <1>23 DEF EnsureRows
<1>24. ASSUME NEW a \in Agents, EnsureVisit(a) PROVE Base'
  <2>1. CASE WorkersOf(a, tracked) = {}
    <3>1. PICK w \in Workers : Spawn(a, w)
      BY <2>1, <1>24 DEF EnsureVisit, SpawnUnlessTracked
    <3> QED  BY <1>24, <3>1 DEF EnsureVisit, Spawn
  <2>2. CASE WorkersOf(a, tracked) # {}
    BY <2>2, <1>24 DEF EnsureVisit, SpawnUnlessTracked
  <2> QED  BY <2>1, <2>2
<1>25. ASSUME EnsureEnd PROVE Base'
  BY <1>25 DEF EnsureEnd
<1>26. ASSUME NEW a \in Agents, CreateAgent(a) PROVE Base'
  BY <1>26 DEF CreateAgent
<1>27. ASSUME NEW a \in Agents, CreatorSpawns(a) PROVE Base'
  <2>1. CASE WorkersOf(a, tracked) = {}
    <3>1. PICK w \in Workers : Spawn(a, w)
      BY <2>1, <1>27 DEF CreatorSpawns, SpawnUnlessTracked
    <3> QED  BY <1>27, <3>1 DEF CreatorSpawns, Spawn
  <2>2. CASE WorkersOf(a, tracked) # {}
    BY <2>2, <1>27 DEF CreatorSpawns, SpawnUnlessTracked
  <2> QED  BY <2>1, <2>2
<1>28. ASSUME NEW a \in Agents, ToolSpawn(a) PROVE Base'
  <2>1. CASE WorkersOf(a, tracked) = {}
    <3>1. PICK w \in Workers : Spawn(a, w)
      BY <2>1, <1>28 DEF ToolSpawn, SpawnUnlessTracked
    <3> QED  BY <1>28, <3>1 DEF ToolSpawn, Spawn
  <2>2. CASE WorkersOf(a, tracked) # {}
    BY <2>2, <1>28 DEF ToolSpawn, SpawnUnlessTracked
  <2> QED  BY <2>1, <2>2
<1>29. ASSUME NEW a \in Agents, ToolCommits(a) PROVE Base'
  BY <1>29 DEF ToolCommits, RowSettles
<1>30. ASSUME NEW a \in Agents, ToolRollsBack(a) PROVE Base'
  BY <1>30 DEF ToolRollsBack, RowSettles
<1>31. ASSUME NEW a \in Agents, DeleteCommits(a) PROVE Base'
  BY <1>31 DEF DeleteCommits, RowSettles
<1>32. ASSUME NEW a \in Agents, DeleteRollsBack(a) PROVE Base'
  BY <1>32 DEF DeleteRollsBack, RowSettles
<1>33. ASSUME NEW a \in Agents, NotifyAgent(a) PROVE Base'
  BY <1>33 DEF NotifyAgent, Notify, Dropped, Pushed
<1>34. ASSUME UNCHANGED vars PROVE Base'
  BY <1>34 DEF vars
<1> QED
  BY <1>1, <1>2, <1>3, <1>4, <1>5, <1>6, <1>7, <1>8, <1>9, <1>10, <1>11,
     <1>12, <1>13, <1>14, <1>15, <1>16, <1>17, <1>18, <1>19, <1>20, <1>21,
     <1>22, <1>23, <1>24, <1>25, <1>26, <1>27, <1>28, <1>29, <1>30, <1>31,
     <1>32, <1>33, <1>34 DEF Next, WorkerStep, AgentStep

(***************************************************************************)
(* What holds as long as no worker task dies of an error.                  *)
(***************************************************************************)
\* Nothing is tracked before the process is up.
LEMMA OrderlyInit == Init => Orderly /\ TrackedIsReachable
  BY DEF Init, RouterInit, Orderly, TrackedIsReachable, Running, Doomed, Workers

\* The steps of the two lists, the tasks and what runs.
LEMMA OrderlyStep ==
  ASSUME Base, Base', Orderly, TrackedIsReachable, [Next]_vars
  PROVE  Orderly' /\ TrackedIsReachable'
<1> SUFFICES ASSUME crashes' = 0 PROVE Orderly' /\ TrackedIsReachable'
  BY DEF Orderly, TrackedIsReachable
<1> USE ManagerAssumption
<1> USE DEF Base, TypeOK, RouterTypeOK, Bookkeeping, RoutedIsAlive, Places, Workers,
      Orderly, TrackedIsReachable, Running, Doomed, Serving, MoreEvents, WorkersOf,
      workerVars, routerVars, managerVars, ensureVars, processVars, rowVars, bounds
<1>1. ASSUME Boot
       PROVE  Orderly' /\ TrackedIsReachable'
  BY <1>1 DEF Boot
<1>2. ASSUME NEW a \in Agents, StartWorker(a)
       PROVE  Orderly' /\ TrackedIsReachable'
  BY <1>2 DEF StartWorker, Spawn
<1>3. ASSUME StartDone
       PROVE  Orderly' /\ TrackedIsReachable'
  BY <1>3 DEF StartDone
<1>4. ASSUME NEW w \in Workers, WorkerStart(w)
       PROVE  Orderly' /\ TrackedIsReachable'
  BY <1>4 DEF WorkerStart, Register
<1>5. ASSUME NEW w \in Workers, Wake(w)
       PROVE  Orderly' /\ TrackedIsReachable'
  BY <1>5 DEF Wake, Take
<1>6. ASSUME NEW w \in Workers, Load(w)
       PROVE  Orderly' /\ TrackedIsReachable'
  BY <1>6 DEF Load, Goes
<1>7. ASSUME NEW w \in Workers, SessionReturns(w)
       PROVE  Orderly' /\ TrackedIsReachable'
  BY <1>7 DEF SessionReturns, Goes
<1>8. ASSUME NEW w \in Workers, CancelReaches(w)
       PROVE  Orderly' /\ TrackedIsReachable'
  BY <1>8 DEF CancelReaches, Goes
<1>9. ASSUME NEW w \in Workers, CycleDone(w)
       PROVE  Orderly' /\ TrackedIsReachable'
  BY <1>9 DEF CycleDone, Goes
<1>10. ASSUME NEW w \in Workers, WorkerCrash(w)
       PROVE  Orderly' /\ TrackedIsReachable'
  BY <1>10 DEF WorkerCrash
<1>11. ASSUME NEW w \in Workers, WorkerExit(w)
       PROVE  Orderly' /\ TrackedIsReachable'
  BY <1>11 DEF WorkerExit, Unregister
<1>12. ASSUME NEW w \in Workers, WorkerDone(w)
       PROVE  Orderly' /\ TrackedIsReachable'
  BY <1>12 DEF WorkerDone, Bury, RespawnIfUnexpected
<1>13. ASSUME NEW w \in Workers, ForgottenDone(w)
       PROVE  Orderly' /\ TrackedIsReachable'
  BY <1>13 DEF ForgottenDone, Bury
<1>14. ASSUME NEW w \in Workers, RemovedDone(w)
       PROVE  Orderly' /\ TrackedIsReachable'
  BY <1>14 DEF RemovedDone, RemoveEnd, Unregister, Bury, RespawnIfUnexpected
<1>15. ASSUME NEW a \in Agents, Respawn(a)
       PROVE  Orderly' /\ TrackedIsReachable'
  BY <1>15 DEF Respawn, Spawn
<1>16. ASSUME NEW a \in Agents, Interrupt(a)
       PROVE  Orderly' /\ TrackedIsReachable'
  BY <1>16 DEF Interrupt, InterruptedAt
<1>17. ASSUME NEW a \in Agents, RemoveBegin(a)
       PROVE  Orderly' /\ TrackedIsReachable'
  <2>1. PICK t \in WorkersOf(a, tasks), u \in WorkersOf(a, tracked) :
          /\ Running(t)
          /\ awaited' = [awaited EXCEPT ![a] = t]
          /\ flag' = [flag EXCEPT ![u] = TRUE]
          /\ LET interrupted == [pc EXCEPT ![u] = InterruptedAt[@]]
             IN  pc' = [interrupted EXCEPT ![t] = CancelledAt[@]]
    BY <1>17 DEF RemoveBegin
  <2>0. u = t
    BY <2>1, <1>17 DEF RemoveBegin
  <2>9. pc' = [pc EXCEPT ![t] = CancelledAt[InterruptedAt[pc[t]]]]
    BY <2>0, <2>1
  <2>2. /\ pc' \in [Workers -> Places]
        /\ pc'[t] \notin {"unused", "created", "idle", "loading", "session"}
        /\ \A w \in Workers : w # t => pc'[w] = pc[w]
    BY <2>1, <2>9, Cancellation
  <2>3. /\ UNCHANGED <<owner, tracked, tasks, respawns, phase, startList>>
        /\ queueOf' = queueOf /\ removing' = removing \cup {a}
        /\ crashes' = crashes
    BY <1>17 DEF RemoveBegin
  <2>4. pc[t] \notin {"exiting", "exited"} => queueOf[a] = t \/ pc[t] = "created"
    BY <2>0, <2>1, <2>3
  <2>5. pc'[t] \notin {"unused", "created", "exiting", "exited"} => queueOf[a] = t
    BY <2>1, <2>4, <2>9, Cancellation
  <2>6. awaited'[a] = t /\ \A b \in Agents : b # a => awaited'[b] = awaited[b]
    BY <2>1
  <2>7. TrackedIsReachable'
    BY <2>1, <2>2, <2>3, <2>5
  <2>8. Orderly'
    BY <2>1, <2>2, <2>3, <2>6
  <2> QED  BY <2>7, <2>8
<1>18. ASSUME NEW a \in Agents, RemoveAtOnce(a)
       PROVE  Orderly' /\ TrackedIsReachable'
  BY <1>18 DEF RemoveAtOnce, RemoveEnd, Unregister
<1>19. ASSUME Shutdown
       PROVE  Orderly' /\ TrackedIsReachable'
  BY <1>19 DEF Shutdown
<1>20. ASSUME NEW w \in Workers, StopNext(w)
       PROVE  Orderly' /\ TrackedIsReachable'
  BY <1>20 DEF StopNext, CancelledAt
<1>21. ASSUME ProcessEnds
       PROVE  Orderly' /\ TrackedIsReachable'
  BY <1>21 DEF ProcessEnds
<1>22. ASSUME EnsureBegin
       PROVE  Orderly' /\ TrackedIsReachable'
  BY <1>22 DEF EnsureBegin
<1>23. ASSUME EnsureRows
       PROVE  Orderly' /\ TrackedIsReachable'
  BY <1>23 DEF EnsureRows
<1>24. ASSUME NEW a \in Agents, EnsureVisit(a)
       PROVE  Orderly' /\ TrackedIsReachable'
  <2>1. CASE WorkersOf(a, tracked) = {}
    <3>1. PICK w \in Workers : Spawn(a, w)
      BY <2>1, <1>24 DEF EnsureVisit, SpawnUnlessTracked
    <3> QED  BY <1>24, <2>1, <3>1 DEF EnsureVisit, Spawn
  <2>2. CASE WorkersOf(a, tracked) # {}
    BY <2>2, <1>24 DEF EnsureVisit, SpawnUnlessTracked
  <2> QED  BY <2>1, <2>2
<1>25. ASSUME EnsureEnd
       PROVE  Orderly' /\ TrackedIsReachable'
  BY <1>25 DEF EnsureEnd
<1>26. ASSUME NEW a \in Agents, CreateAgent(a)
       PROVE  Orderly' /\ TrackedIsReachable'
  BY <1>26 DEF CreateAgent
<1>27. ASSUME NEW a \in Agents, CreatorSpawns(a)
       PROVE  Orderly' /\ TrackedIsReachable'
  <2>1. CASE WorkersOf(a, tracked) = {}
    <3>1. PICK w \in Workers : Spawn(a, w)
      BY <2>1, <1>27 DEF CreatorSpawns, SpawnUnlessTracked
    <3> QED  BY <1>27, <2>1, <3>1 DEF CreatorSpawns, Spawn
  <2>2. CASE WorkersOf(a, tracked) # {}
    BY <2>2, <1>27 DEF CreatorSpawns, SpawnUnlessTracked
  <2> QED  BY <2>1, <2>2
<1>28. ASSUME NEW a \in Agents, ToolSpawn(a)
       PROVE  Orderly' /\ TrackedIsReachable'
  <2>1. CASE WorkersOf(a, tracked) = {}
    <3>1. PICK w \in Workers : Spawn(a, w)
      BY <2>1, <1>28 DEF ToolSpawn, SpawnUnlessTracked
    <3> QED  BY <1>28, <2>1, <3>1 DEF ToolSpawn, Spawn
  <2>2. CASE WorkersOf(a, tracked) # {}
    BY <2>2, <1>28 DEF ToolSpawn, SpawnUnlessTracked
  <2> QED  BY <2>1, <2>2
<1>29. ASSUME NEW a \in Agents, ToolCommits(a)
       PROVE  Orderly' /\ TrackedIsReachable'
  BY <1>29 DEF ToolCommits, RowSettles
<1>30. ASSUME NEW a \in Agents, ToolRollsBack(a)
       PROVE  Orderly' /\ TrackedIsReachable'
  BY <1>30 DEF ToolRollsBack, RowSettles
<1>31. ASSUME NEW a \in Agents, DeleteCommits(a)
       PROVE  Orderly' /\ TrackedIsReachable'
  BY <1>31 DEF DeleteCommits, RowSettles
<1>32. ASSUME NEW a \in Agents, DeleteRollsBack(a)
       PROVE  Orderly' /\ TrackedIsReachable'
  BY <1>32 DEF DeleteRollsBack, RowSettles
<1>33. ASSUME NEW a \in Agents, NotifyAgent(a)
       PROVE  Orderly' /\ TrackedIsReachable'
  BY <1>33 DEF NotifyAgent, Notify, Dropped, Pushed
<1>34. ASSUME UNCHANGED vars PROVE Orderly' /\ TrackedIsReachable'
  BY <1>34 DEF vars
<1> QED
  BY <1>1, <1>2, <1>3, <1>4, <1>5, <1>6, <1>7, <1>8, <1>9, <1>10, <1>11,
     <1>12, <1>13, <1>14, <1>15, <1>16, <1>17, <1>18, <1>19, <1>20, <1>21,
     <1>22, <1>23, <1>24, <1>25, <1>26, <1>27, <1>28, <1>29, <1>30, <1>31,
     <1>32, <1>33, <1>34 DEF Next, WorkerStep, AgentStep

\* The two halves proved separately are the inductive invariant TLC checks.
LEMMA Whole == IndInv <=> Base /\ Orderly /\ TrackedIsReachable
  BY DEF IndInv, Base

\* The invariant of the tracking: types, bookkeeping, and who may run.
THEOREM Invariance == Spec => []IndInv
<1>1. Init => IndInv
  BY BaseInit, OrderlyInit, Whole
<1>2. IndInv /\ [Next]_vars => IndInv'
  BY BaseStep, OrderlyStep DEF IndInv, Base
<1> QED  BY <1>1, <1>2, PTL DEF Spec

\* Every variable of the worker manager keeps its type.
THEOREM TypeCorrect == Spec => []TypeOK
<1>1. IndInv => TypeOK
  BY DEF IndInv
<1> QED  BY <1>1, Invariance, PTL

\* Whatever crashes, is removed or shut down: the router's entry of an agent
\* is the queue of a worker of that agent, whose task is inside run().
THEOREM RoutedSafe == Spec => []RoutedIsAlive
<1>1. IndInv => RoutedIsAlive
  BY DEF IndInv
<1> QED  BY <1>1, Invariance, PTL

\* start, spawn_worker, the reconciler's ensure, removals and interrupts never
\* overlap into two running workers of one agent, if no worker task dies.
THEOREM OneWorker == Spec => []OneWorkerPerAgent
<1>1. IndInv => OneWorkerPerAgent
  BY DEF IndInv, Orderly, OneWorkerPerAgent
<1> QED  BY <1>1, Invariance, PTL

\* The worker the manager tracks for an agent is the one notify wakes.
THEOREM Reachable == Spec => []TrackedIsReachable
<1>1. IndInv => TrackedIsReachable
  BY DEF IndInv
<1> QED  BY <1>1, Invariance, PTL

\* A removal schedules no respawn of the agent it removes.
THEOREM NoRespawn == Spec => []RemovalSuppressesRespawn
<1>1. IndInv => RemovalSuppressesRespawn
  BY DEF IndInv, TypeOK, Orderly, RemovalSuppressesRespawn
<1> QED  BY <1>1, Invariance, PTL

=============================================================================
