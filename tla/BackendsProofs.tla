---------------------- MODULE BackendsProofs ----------------------
(***************************************************************************)
(* Theorems about SandboxOrchestrator for any sandboxes, agents, suspended *)
(* handlers, limit and number of faults, and about Machines for any ranges *)
(* of ports that are apart, operations at a time and number of faults.     *)
(***************************************************************************)
EXTENDS MCBackends, FiniteSetTheorems, WellFoundedInduction, TLAPS

IsCached(s) == cache[s].status # "absent"
IsPod(s) == pod[s].phase # "none"

\* One sandbox: ids in use are drawn; a label is of a pod and names the entry's agent; a pod
\* is cached and a cached sandbox has a service, but for the strays.
Sound(s) ==
  /\ IsCached(s) \/ IsPod(s) => s \in drawn
  /\ ~IsPod(s) => pod[s].agent = NoAgent
  /\ IsCached(s) /\ pod[s].agent \in Agents => cache[s].agent = pod[s].agent
  /\ IsPod(s) => IsCached(s) \/ s \in strays
  /\ IsCached(s) => s \in services \/ s \in strays

\* One agent: what it is mapped to was drawn, and names it or was resold.
Home(a) ==
  agentMap[a] # NoSandbox =>
    /\ agentMap[a] \in drawn
    /\ \/ IsCached(agentMap[a]) /\ cache[agentMap[a]].agent = a
       \/ agentMap[a] \in resold

\* One handler: it works on an id that was drawn, the entry it holds is cached, and nobody is
\* mapped to the sandbox whose entry a release will free, but one that was resold.
Held(c) ==
  /\ job[c].op # "none" \/ job[c].at # "none" \/ job[c].held => job[c].on \in drawn
  /\ job[c].held => IsCached(job[c].on)
  /\ job[c].op = "release" /\ job[c].held =>
       \A a \in Agents : agentMap[a] = job[c].on => job[c].on \in resold

WithinLimit == Cardinality(Cached \ strays) <= MaxSandboxes

IInv ==
  /\ TypeOK
  /\ \A s \in Sandboxes : Sound(s)
  /\ \A a \in Agents : Home(a)
  /\ \A c \in Calls : Held(c)
  /\ WithinLimit

-----------------------------------------------------------------------------
(* The limit.                                                              *)

\* The set that is counted is finite.
LEMMA Counted ==
  ASSUME NEW S \in SUBSET Sandboxes
  PROVE  IsFiniteSet(S) /\ Cardinality(S) \in Nat
  BY OrchestratorAssumption, FS_Subset, FS_CardinalityType

\* Where nothing new is counted the limit is kept.
LEMMA Fewer ==
  ASSUME TypeOK, WithinLimit, (Cached \ strays)' \subseteq Cached \ strays
  PROVE  WithinLimit'
<1> DEFINE old == Cached \ strays
           new == (Cached \ strays)'
<1>1. old \in SUBSET Sandboxes
  BY DEF Cached
<1>2. Cardinality(new) <= Cardinality(old) /\ IsFiniteSet(new)
  BY <1>1, Counted, FS_Subset
<1>3. new \in SUBSET Sandboxes
  BY <1>1
<1>4. Cardinality(new) \in Nat /\ Cardinality(old) \in Nat
  BY <1>1, <1>3, Counted
<1>5. Cardinality(old) <= MaxSandboxes
  BY DEF WithinLimit
<1>6. Cardinality(new) <= MaxSandboxes
  <2> HIDE DEF old, new
  <2> QED
    BY <1>2, <1>4, <1>5, OrchestratorAssumption
<1> QED
  BY <1>6 DEF WithinLimit

\* A creation is within the limit of what is cached.
LEMMA OneMore ==
  ASSUME TypeOK, MayCreate, NEW s \in Sandboxes, Cached' \subseteq Cached \cup {s}
  PROVE  WithinLimit'
<1> DEFINE new == (Cached \ strays)'
           all == Cached \cup {s}
<1>1. Cached \in SUBSET Sandboxes /\ all \in SUBSET Sandboxes /\ new \subseteq all
  BY DEF Cached
<1>2. IsFiniteSet(Cached) /\ Cardinality(Cached) \in Nat /\ IsFiniteSet(all)
  BY <1>1, Counted
<1>3. Cardinality(all) <= Cardinality(Cached) + 1
  BY <1>2, FS_AddElement
<1>4. Cardinality(new) <= Cardinality(all)
  BY <1>1, <1>2, FS_Subset
<1>5. Cardinality(new) \in Nat /\ Cardinality(all) \in Nat
  BY <1>1, Counted
<1>6. Cardinality(Cached) < MaxSandboxes
  BY DEF MayCreate
<1>7. Cardinality(new) <= MaxSandboxes
  <2> HIDE DEF new, all
  <2> QED
    BY <1>2, <1>3, <1>4, <1>5, <1>6, OrchestratorAssumption
<1> QED
  BY <1>7 DEF WithinLimit

-----------------------------------------------------------------------------
(* Types.                                                                  *)

\* What the handlers write into the cache.
LEMMA CacheTypes ==
  ASSUME TypeOK
  PROVE  /\ \A s \in Sandboxes, a \in Labels, st \in Statuses :
              [cache EXCEPT ![s] = [status |-> st, agent |-> a]] \in [Sandboxes -> Entries]
         /\ \A s \in Sandboxes, st \in Statuses :
              [cache EXCEPT ![s].status = st] \in [Sandboxes -> Entries]
         /\ \A s \in Sandboxes : [cache EXCEPT ![s] = NoEntry] \in [Sandboxes -> Entries]
         /\ \A c \in Calls, st \in Statuses : EntryStatus(c, st) \in [Sandboxes -> Entries]
<1> USE DEF Entries, NoEntry, Labels, Statuses
<1>1. \A s \in Sandboxes, a \in Labels, st \in Statuses :
        [cache EXCEPT ![s] = [status |-> st, agent |-> a]] \in [Sandboxes -> Entries]
  BY DEF TypeOK
<1>2. \A s \in Sandboxes, st \in Statuses :
        [cache EXCEPT ![s].status = st] \in [Sandboxes -> Entries]
  BY DEF TypeOK
<1>3. \A s \in Sandboxes : [cache EXCEPT ![s] = NoEntry] \in [Sandboxes -> Entries]
  BY DEF TypeOK
<1>4. \A c \in Calls, st \in Statuses : EntryStatus(c, st) \in [Sandboxes -> Entries]
  <2> SUFFICES ASSUME NEW c \in Calls, NEW st \in Statuses
               PROVE  EntryStatus(c, st) \in [Sandboxes -> Entries]
    OBVIOUS
  <2>1. CASE job[c].on \in Sandboxes
    BY <1>2, <2>1 DEF EntryStatus, TypeOK
  <2>2. CASE job[c].on \notin Sandboxes
    <3>1. [cache EXCEPT ![job[c].on].status = st] = cache
      BY <2>2 DEF TypeOK
    <3> QED
      BY <3>1 DEF EntryStatus, TypeOK
  <2> QED
    BY <2>1, <2>2
<1> QED
  BY <1>1, <1>2, <1>3, <1>4

\* ... into the map,
LEMMA MapTypes ==
  ASSUME TypeOK
  PROVE  /\ \A a \in Labels : Popped(agentMap, a) \in [Agents -> Sandboxes \cup {NoSandbox}]
         /\ \A a \in Labels, s \in Sandboxes :
              Mapped(agentMap, a, s) \in [Agents -> Sandboxes \cup {NoSandbox}]
  BY DEF TypeOK, Popped, Mapped

\* ... into the cluster,
LEMMA PodTypes ==
  ASSUME TypeOK, NEW s \in Sandboxes
  PROVE  /\ \A a \in Labels : Labelled(pod, s, a) \in [Sandboxes -> PodStates]
         /\ \A a \in Labels :
              [pod EXCEPT ![s] = [phase |-> "starting", agent |-> a]] \in [Sandboxes -> PodStates]
         /\ [pod EXCEPT ![s] = [NoPod EXCEPT !.phase = "starting"]] \in [Sandboxes -> PodStates]
         /\ [pod EXCEPT ![s] = NoPod] \in [Sandboxes -> PodStates]
         /\ \A ph \in Phases : [pod EXCEPT ![s].phase = ph] \in [Sandboxes -> PodStates]
<1> USE DEF TypeOK, PodStates, NoPod, Labels, Phases
<1>1. \A a \in Labels : Labelled(pod, s, a) \in [Sandboxes -> PodStates]
  BY DEF Labelled
<1>2. \A a \in Labels :
        [pod EXCEPT ![s] = [phase |-> "starting", agent |-> a]] \in [Sandboxes -> PodStates]
  OBVIOUS
<1>3. [pod EXCEPT ![s] = [NoPod EXCEPT !.phase = "starting"]] \in [Sandboxes -> PodStates]
  OBVIOUS
<1>4. [pod EXCEPT ![s] = NoPod] \in [Sandboxes -> PodStates]
  OBVIOUS
<1>5. \A ph \in Phases : [pod EXCEPT ![s].phase = ph] \in [Sandboxes -> PodStates]
  OBVIOUS
<1> QED
  BY <1>1, <1>2, <1>3, <1>4, <1>5

\* ... and into the slots.
LEMMA JobTypes ==
  ASSUME TypeOK
  PROVE  /\ \A S : Detached(job, S) \in [Calls -> Handlers]
         /\ \A c \in Calls : [job EXCEPT ![c] = NoJob] \in [Calls -> Handlers]
         /\ \A c \in Calls, w \in {"wait", "delete", "create"} :
              [job EXCEPT ![c].at = w] \in [Calls -> Handlers]
         /\ \A c \in Calls, op \in {"provision", "release", "restart", "restore"},
               at \in {"wait", "wipe", "swap", "delete"}, s \in Sandboxes,
               back \in Statuses :
              Suspend(c, op, at, s, back) => job' \in [Calls -> Handlers]
<1> USE DEF TypeOK, Handlers, NoJob, Statuses
<1>1. \A S : Detached(job, S) \in [Calls -> Handlers]
  <2> SUFFICES ASSUME NEW S, NEW c \in Calls
               PROVE  Detached(job, S)[c] \in Handlers
    BY DEF Detached
  <2>1. [job[c] EXCEPT !.held = FALSE] \in Handlers
    OBVIOUS
  <2> QED
    BY <2>1 DEF Detached
<1>2. \A c \in Calls : [job EXCEPT ![c] = NoJob] \in [Calls -> Handlers]
  OBVIOUS
<1>3. \A c \in Calls, w \in {"wait", "delete", "create"} :
        [job EXCEPT ![c].at = w] \in [Calls -> Handlers]
  OBVIOUS
<1>4. ASSUME NEW c \in Calls, NEW op \in {"provision", "release", "restart", "restore"},
             NEW at \in {"wait", "wipe", "swap", "delete"}, NEW s \in Sandboxes,
             NEW back \in Statuses, Suspend(c, op, at, s, back)
      PROVE  job' \in [Calls -> Handlers]
  <2>1. [op |-> op, at |-> at, on |-> s, held |-> TRUE, back |-> back] \in Handlers
    OBVIOUS
  <2> QED
    BY <1>4, <2>1 DEF Suspend
<1> QED
  BY <1>1, <1>2, <1>3, <1>4

\* Types are kept.  That a handler works on an id (Held) is part of it.
LEMMA TypeStep ==
  ASSUME TypeOK, \A c \in Calls : Held(c), [Next]_vars
  PROVE  TypeOK'
<1> USE OrchestratorAssumption, CacheTypes, MapTypes, PodTypes, JobTypes
<1>l. Agents \cup {NoAgent, Blank} = Labels /\ {"starting", "idle", "assigned", "unhealthy"} \subseteq Statuses
      /\ {"starting", "running", "unhealthy"} \subseteq Phases
  BY DEF Labels, Statuses, Phases
<1>f. \A s \in Sandboxes : cache[s].agent \in Labels /\ (s \in Cached => cache[s].status \in Statuses)
  BY DEF TypeOK, Entries, Cached
<1>g. \A c \in Calls : job[c].back \in Statuses /\ job[c].on \in Sandboxes \cup {NoSandbox}
  BY DEF TypeOK, Handlers
<1>o. \A c \in Calls : job[c].op # "none" \/ job[c].at # "none" => job[c].on \in Sandboxes
  BY DEF Held, TypeOK
<1>z. NoEntry \in Entries
  BY DEF Entries, NoEntry, Labels
<1>r. Rebuild => cache' \in [Sandboxes -> Entries]
  <2>1. \A s \in Sandboxes : RebuiltEntry(s) \in Entries
    BY <1>z DEF RebuiltEntry, Entries, TypeOK, PodStates, Statuses, Phases
  <2> QED
    BY <2>1 DEF Rebuild
<1>1. ASSUME NEW s \in Sandboxes, CreationFails(s)
      PROVE  TypeOK'
  <2>1. pod' \in [Sandboxes -> PodStates] /\ strays' \subseteq Sandboxes
    BY <1>1 DEF TypeOK, CreationFails
  <2> QED
    BY <1>1, <2>1 DEF TypeOK, CreationFails, Fault
<1>2. ASSUME NEW s \in Sandboxes, CreateSandbox(s)
      PROVE  TypeOK'
  BY <1>2, <1>l, <1>f, <1>g DEF TypeOK, CreateSandbox, Created, cluster, history
<1>3. ASSUME NEW s \in Sandboxes, ReleasePersistent(s)
      PROVE  TypeOK'
  BY <1>3, <1>l, <1>f, <1>g DEF TypeOK, ReleasePersistent, ReleaseEntry, cluster, history
<1>4. ASSUME NEW s \in Sandboxes, Destroy(s)
      PROVE  TypeOK'
  BY <1>4, <1>l, <1>f, <1>g DEF TypeOK, Destroy, ClusterDestroy, cluster, history
<1>5. ASSUME NEW s \in Sandboxes, PodRuns(s)
      PROVE  TypeOK'
  BY <1>5, <1>l, <1>f, <1>g DEF TypeOK, PodRuns, cluster, history
<1>6. ASSUME NEW s \in Sandboxes, PodBreaks(s)
      PROVE  TypeOK'
  <2>1. pod' \in [Sandboxes -> PodStates]
    <3>1. [pod EXCEPT ![s].phase = "unhealthy"] \in [Sandboxes -> PodStates]
      BY <1>l
    <3>2. [pod EXCEPT ![s] = NoPod] \in [Sandboxes -> PodStates]
      OBVIOUS
    <3> QED
      BY <1>6, <3>1, <3>2 DEF PodBreaks
  <2> QED
    BY <1>6, <2>1 DEF TypeOK, PodBreaks, Fault, history
<1>7. ASSUME NEW s \in Sandboxes, NEW a \in Agents, StartTakesIdle(a, s)
      PROVE  TypeOK'
  BY <1>7, <1>l, <1>f, <1>g DEF TypeOK, StartTakesIdle, Wiping, cluster, history
<1>8. ASSUME NEW s \in Sandboxes, NEW a \in Agents, Claim(s, a)
      PROVE  TypeOK'
  BY <1>8, <1>l, <1>f, <1>g DEF TypeOK, Claim, Wiping, cluster, history
<1>9. ASSUME NEW s \in Sandboxes, NEW a \in Agents \cup {NoAgent}, StartCreates(a, s)
      PROVE  TypeOK'
  BY <1>9, <1>l, <1>f, <1>g DEF TypeOK, StartCreates, Created, cluster, history
<1>10. ASSUME NEW a \in Agents, SessionEnd(a)
      PROVE  TypeOK'
  <2>1. agentMap[a] \in Sandboxes /\ NoAgent \in Labels /\ Blank \in Labels /\ a \in Labels
    BY <1>10, <1>l DEF SessionEnd, TypeOK
  <2>2. agentMap' \in [Agents -> Sandboxes \cup {NoSandbox}]
    <3>1. Popped(agentMap, a) \in [Agents -> Sandboxes \cup {NoSandbox}]
      BY <2>1
    <3> QED
      BY <1>10, <3>1 DEF SessionEnd
  <2>3. cache' \in [Sandboxes -> Entries]
    <3>1. [cache EXCEPT ![agentMap[a]] = [status |-> "idle", agent |-> NoAgent]]
            \in [Sandboxes -> Entries]
      BY <2>1, <1>l
    <3>2. [cache EXCEPT ![agentMap[a]] = NoEntry] \in [Sandboxes -> Entries]
      BY <2>1
    <3> QED
      BY <1>10, <3>1, <3>2 DEF SessionEnd, TypeOK
  <2>4. pod' \in [Sandboxes -> PodStates]
    <3>1. Labelled(pod, agentMap[a], Blank) \in [Sandboxes -> PodStates]
      BY <2>1
    <3>2. [pod EXCEPT ![agentMap[a]] = NoPod] \in [Sandboxes -> PodStates]
      BY <2>1
    <3> QED
      BY <1>10, <3>1, <3>2 DEF SessionEnd, ClusterDestroy, cluster, TypeOK
  <2>5. job' \in [Calls -> Handlers]
    BY <1>10 DEF SessionEnd, TypeOK
  <2>6. services' \subseteq Sandboxes
    BY <1>10 DEF SessionEnd, ClusterDestroy, cluster, TypeOK
  <2> QED
    BY <1>10, <2>2, <2>3, <2>4, <2>5, <2>6 DEF SessionEnd, TypeOK, history
<1>11. ASSUME NEW c \in Calls, NEW s \in Sandboxes, ProvisionWarm(c, s)
      PROVE  TypeOK'
  BY <1>11, <1>l, <1>f, <1>g DEF TypeOK, ProvisionWarm, Created, cluster, history
<1>12. ASSUME NEW c \in Calls, NEW s \in Sandboxes, ReleaseBegin(c, s)
      PROVE  TypeOK'
  BY <1>12, <1>l, <1>f, <1>g DEF TypeOK, ReleaseBegin, cluster, history
<1>13. ASSUME NEW c \in Calls, NEW s \in Sandboxes, RestartBegin(c, s)
      PROVE  TypeOK'
  BY <1>13, <1>l, <1>f, <1>g DEF TypeOK, RestartBegin, cluster, history
<1>14. ASSUME NEW c \in Calls, NEW s \in Sandboxes, RestoreBegin(c, s)
      PROVE  TypeOK'
  <2>1. job' \in [Calls -> Handlers]
    BY <1>14, <1>f DEF RestoreBegin
  <2>2. cache' \in [Sandboxes -> Entries]
    <3>1. "restoring" \in Statuses
      BY DEF Statuses
    <3> QED
      BY <1>14, <3>1 DEF RestoreBegin
  <2> QED
    BY <1>14, <2>1, <2>2 DEF TypeOK, RestoreBegin, cluster, history
<1>15. ASSUME NEW c \in Calls, ReleaseDone(c)
      PROVE  TypeOK'
  <2>1. job' \in [Calls -> Handlers]
    BY <1>15 DEF ReleaseDone, Answer
  <2>2. job[c].on \in Sandboxes
    BY <1>15, <1>o DEF ReleaseDone
  <2>3. pod' \in [Sandboxes -> PodStates]
    BY <1>15, <1>l, <2>2 DEF ReleaseDone, ReleaseEntry
  <2>4. cache' \in [Sandboxes -> Entries]
    BY <1>15, <1>l, <2>2 DEF ReleaseDone, ReleaseEntry, TypeOK
  <2> QED
    BY <1>15, <2>1, <2>3, <2>4 DEF TypeOK, ReleaseDone, history
<1>16. ASSUME NEW c \in Calls, VolumeSwap(c)
      PROVE  TypeOK'
  <2>1. job' \in [Calls -> Handlers]
    <3>1. [job EXCEPT ![c].at = "delete"] \in [Calls -> Handlers]
      OBVIOUS
    <3> QED
      BY <1>16, <3>1 DEF VolumeSwap, Answer
  <2>2. cache' \in [Sandboxes -> Entries]
    BY <1>16, <1>g DEF VolumeSwap, TypeOK
  <2> QED
    BY <1>16, <2>1, <2>2 DEF TypeOK, VolumeSwap, Fault, history
<1>17. ASSUME NEW c \in Calls, PodDelete(c)
      PROVE  TypeOK'
  <2>1. job' \in [Calls -> Handlers]
    <3>1. [job EXCEPT ![c].at = "create"] \in [Calls -> Handlers]
      OBVIOUS
    <3>2. [job EXCEPT ![c].at = "wait"] \in [Calls -> Handlers]
      OBVIOUS
    <3> QED
      BY <1>17, <3>1, <3>2 DEF PodDelete, Answer
  <2>2. pod' \in [Sandboxes -> PodStates]
    BY <1>17, <1>g DEF PodDelete, TypeOK, Pods
  <2> QED
    BY <1>17, <2>1, <2>2 DEF TypeOK, PodDelete, history
<1>18. ASSUME NEW c \in Calls, PodCreate(c)
      PROVE  TypeOK'
  <2>1. job' \in [Calls -> Handlers]
    BY <1>18 DEF PodCreate
  <2>2. job[c].on \in Sandboxes
    BY <1>18, <1>o DEF PodCreate
  <2>3. pod' \in [Sandboxes -> PodStates]
    BY <1>18, <2>2, <1>l DEF PodCreate
  <2>4. services' \subseteq Sandboxes /\ strays' \subseteq Sandboxes
    BY <1>18, <2>2 DEF PodCreate, TypeOK
  <2> QED
    BY <1>18, <2>1, <2>3, <2>4 DEF TypeOK, PodCreate
<1>19. ASSUME NEW c \in Calls, PodCreateFails(c)
      PROVE  TypeOK'
  <2>1. job' \in [Calls -> Handlers]
    BY <1>19 DEF PodCreateFails, Answer
  <2>2. cache' \in [Sandboxes -> Entries]
    BY <1>19, <1>g DEF PodCreateFails, TypeOK
  <2> QED
    BY <1>19, <2>1, <2>2 DEF TypeOK, PodCreateFails, Fault, cluster, history
<1>20. ASSUME NEW c \in Calls, WaitEnds(c)
      PROVE  TypeOK'
  BY <1>20, <1>l, <1>f, <1>g DEF TypeOK, WaitEnds, Answer, cluster, history
<1>21. ASSUME PoolDebug
      PROVE  TypeOK'
  <2>1. job' \in [Calls -> Handlers]
    BY <1>21 DEF PoolDebug
  <2> QED
    BY <1>21, <1>r, <2>1 DEF TypeOK, PoolDebug, Rebuild, cluster, history
<1>22. ASSUME Crash
      PROVE  TypeOK'
  <2>1. job' \in [Calls -> Handlers]
    BY <1>22 DEF Crash, Handlers, NoJob, Statuses
  <2> QED
    BY <1>22, <1>r, <2>1 DEF TypeOK, Crash, Rebuild, Fault, cluster, history
<1>23. ASSUME UNCHANGED vars
      PROVE  TypeOK'
  BY <1>23 DEF vars, TypeOK
<1> HIDE OrchestratorAssumption, CacheTypes, MapTypes, PodTypes, JobTypes
<1> QED
  BY <1>1, <1>2, <1>3, <1>4, <1>5, <1>6, <1>7, <1>8, <1>9, <1>10, <1>11, <1>12, <1>13, <1>14, <1>15, <1>16, <1>17, <1>18, <1>19, <1>20, <1>21, <1>22, <1>23 DEF Next
-----------------------------------------------------------------------------
(* The parts of the invariant, one action after the other.                 *)

\* What a suspended handler writes at its end touches nothing but the status of an entry
\* that is cached.
LEMMA StatusOnly ==
  ASSUME TypeOK, NEW c \in Calls, Held(c), NEW st \in Statuses, NEW s \in Sandboxes
  PROVE  /\ EntryStatus(c, st)[s].agent = cache[s].agent
         /\ EntryStatus(c, st)[s].status # "absent" <=> cache[s].status # "absent"
<1>1. CASE job[c].held /\ job[c].on = s
  <2>1. EntryStatus(c, st)[s] = [cache[s] EXCEPT !.status = st]
    BY <1>1 DEF EntryStatus, TypeOK
  <2>2. cache[s].status # "absent"
    BY <1>1 DEF Held, IsCached
  <2> QED
    BY <2>1, <2>2 DEF TypeOK, Entries, Statuses
<1>2. CASE ~(job[c].held /\ job[c].on = s)
  <2>1. EntryStatus(c, st)[s] = cache[s]
    BY <1>2 DEF EntryStatus, TypeOK
  <2> QED
    BY <2>1
<1> QED
  BY <1>1, <1>2

\* A sandbox stays sound: what an action does not touch is as it was, and a pod or an entry
\* comes with what it needs.
LEMMA SoundStep ==
  ASSUME IInv, TypeOK', [Next]_vars, NEW t \in Sandboxes
  PROVE  Sound(t)'
<1> USE OrchestratorAssumption DEF IInv, TypeOK, Entries, PodStates, Handlers, Labels, Statuses, Phases,
      NoEntry, NoPod, NoJob, cluster, history, Sound, IsCached, IsPod, Held
<1>1. ASSUME NEW s \in Sandboxes, CreationFails(s)
      PROVE  Sound(t)'
  BY <1>1 DEF CreationFails
<1>2. ASSUME NEW s \in Sandboxes, CreateSandbox(s)
      PROVE  Sound(t)'
  BY <1>2 DEF CreateSandbox, Created, Mapped
<1>3. ASSUME NEW s \in Sandboxes, ReleasePersistent(s)
      PROVE  Sound(t)'
  BY <1>3 DEF ReleasePersistent, ReleaseEntry, Labelled, Popped, Cached
<1>4. ASSUME NEW s \in Sandboxes, Destroy(s)
      PROVE  Sound(t)'
  BY <1>4 DEF Destroy, ClusterDestroy, Detached, Popped, Cached
<1>5. ASSUME NEW s \in Sandboxes, PodRuns(s)
      PROVE  Sound(t)'
  BY <1>5 DEF PodRuns
<1>6. ASSUME NEW s \in Sandboxes, PodBreaks(s)
      PROVE  Sound(t)'
  BY <1>6 DEF PodBreaks
<1>7. ASSUME NEW s \in Sandboxes, NEW a \in Agents, StartTakesIdle(a, s)
      PROVE  Sound(t)'
  BY <1>7 DEF StartTakesIdle, Labelled, Takeable, Wiping, Cached
<1>8. ASSUME NEW s \in Sandboxes, NEW a \in Agents, Claim(s, a)
      PROVE  Sound(t)'
  BY <1>8 DEF Claim, Labelled, Takeable, Wiping, Cached
<1>9. ASSUME NEW s \in Sandboxes, NEW a \in Agents \cup {NoAgent}, StartCreates(a, s)
      PROVE  Sound(t)'
  BY <1>9 DEF StartCreates, Created, Mapped
<1>10. ASSUME NEW a \in Agents, SessionEnd(a)
      PROVE  Sound(t)'
  BY <1>10 DEF SessionEnd, ClusterDestroy, Detached, Labelled, Popped, Cached
<1>11. ASSUME NEW c \in Calls, NEW s \in Sandboxes, ProvisionWarm(c, s)
      PROVE  Sound(t)'
  BY <1>11 DEF ProvisionWarm, Created, Mapped, Suspend
<1>12. ASSUME NEW c \in Calls, NEW s \in Sandboxes, ReleaseBegin(c, s)
      PROVE  Sound(t)'
  BY <1>12 DEF ReleaseBegin, Suspend, Popped, Cached
<1>13. ASSUME NEW c \in Calls, NEW s \in Sandboxes, RestartBegin(c, s)
      PROVE  Sound(t)'
  BY <1>13 DEF RestartBegin, Suspend, Cached
<1>14. ASSUME NEW c \in Calls, NEW s \in Sandboxes, RestoreBegin(c, s)
      PROVE  Sound(t)'
  BY <1>14 DEF RestoreBegin, Suspend, Cached
<1>15. ASSUME NEW c \in Calls, ReleaseDone(c)
      PROVE  Sound(t)'
  BY <1>15 DEF ReleaseDone, ReleaseEntry, Answer, Labelled
<1>16. ASSUME NEW c \in Calls, VolumeSwap(c)
      PROVE  Sound(t)'
  <2>1. job[c].back \in Statuses
    OBVIOUS
  <2>2. \A s \in Sandboxes : cache'[s].agent = cache[s].agent /\ (IsCached(s)' <=> IsCached(s))
    BY <1>16, <2>1, StatusOnly DEF VolumeSwap
  <2> QED
    BY <1>16, <2>2 DEF VolumeSwap, Answer
<1>17. ASSUME NEW c \in Calls, PodDelete(c)
      PROVE  Sound(t)'
  BY <1>17 DEF PodDelete, Answer, Pods
<1>18. ASSUME NEW c \in Calls, PodCreate(c)
      PROVE  Sound(t)'
  BY <1>18 DEF PodCreate, Pods, Cached
<1>19. ASSUME NEW c \in Calls, PodCreateFails(c)
      PROVE  Sound(t)'
  BY <1>19 DEF PodCreateFails, EntryStatus, Answer, Pods
<1>20. ASSUME NEW c \in Calls, WaitEnds(c)
      PROVE  Sound(t)'
  <2>1. job[c].back \in Statuses
    OBVIOUS
  <2>2. \A s \in Sandboxes : cache'[s].agent = cache[s].agent /\ (IsCached(s)' <=> IsCached(s))
    BY <1>20, <2>1, StatusOnly DEF WaitEnds
  <2> QED
    BY <1>20, <2>2 DEF WaitEnds, Answer
<1>21. ASSUME PoolDebug
      PROVE  Sound(t)'
  BY <1>21 DEF PoolDebug, Rebuild, RebuiltEntry, RebuiltMap, PodsOf, Pods, Detached
<1>22. ASSUME Crash
      PROVE  Sound(t)'
  BY <1>22 DEF Crash, Rebuild, RebuiltEntry, RebuiltMap, PodsOf, Pods
<1>23. ASSUME UNCHANGED vars
      PROVE  Sound(t)'
  BY <1>23 DEF vars
<1> HIDE OrchestratorAssumption DEF IInv, TypeOK, Sound, IsCached, IsPod, Held
<1> QED
  BY <1>1, <1>2, <1>3, <1>4, <1>5, <1>6, <1>7, <1>8, <1>9, <1>10, <1>11, <1>12, <1>13, <1>14, <1>15, <1>16, <1>17, <1>18, <1>19, <1>20, <1>21, <1>22, <1>23 DEF Next

\* An agent stays mapped to a sandbox that names it, whoever ends what on that sandbox: a
\* release that is wiping frees only a sandbox nobody is mapped to, or a resold one.
LEMMA HomeStep ==
  ASSUME IInv, TypeOK', [Next]_vars, NEW b \in Agents
  PROVE  Home(b)'
<1> USE OrchestratorAssumption DEF IInv, TypeOK, Entries, PodStates, Handlers, Labels, Statuses, Phases,
      NoEntry, NoPod, NoJob, cluster, history, Home, Sound, IsCached, IsPod, Held
<1>1. ASSUME NEW s \in Sandboxes, CreationFails(s)
      PROVE  Home(b)'
  BY <1>1 DEF CreationFails
<1>2. ASSUME NEW s \in Sandboxes, CreateSandbox(s)
      PROVE  Home(b)'
  BY <1>2 DEF CreateSandbox, Created, Mapped
<1>3. ASSUME NEW s \in Sandboxes, ReleasePersistent(s)
      PROVE  Home(b)'
  BY <1>3 DEF ReleasePersistent, ReleaseEntry, Labelled, Popped, Cached
<1>4. ASSUME NEW s \in Sandboxes, Destroy(s)
      PROVE  Home(b)'
  BY <1>4 DEF Destroy, ClusterDestroy, Detached, Popped, Cached
<1>5. ASSUME NEW s \in Sandboxes, PodRuns(s)
      PROVE  Home(b)'
  BY <1>5 DEF PodRuns
<1>6. ASSUME NEW s \in Sandboxes, PodBreaks(s)
      PROVE  Home(b)'
  BY <1>6 DEF PodBreaks
<1>7. ASSUME NEW s \in Sandboxes, NEW a \in Agents, StartTakesIdle(a, s)
      PROVE  Home(b)'
  BY <1>7 DEF StartTakesIdle, Labelled, Takeable, Wiping, Cached
<1>8. ASSUME NEW s \in Sandboxes, NEW a \in Agents, Claim(s, a)
      PROVE  Home(b)'
  BY <1>8 DEF Claim, Labelled, Takeable, Wiping, Cached
<1>9. ASSUME NEW s \in Sandboxes, NEW a \in Agents \cup {NoAgent}, StartCreates(a, s)
      PROVE  Home(b)'
  BY <1>9 DEF StartCreates, Created, Mapped
<1>10. ASSUME NEW a \in Agents, SessionEnd(a)
      PROVE  Home(b)'
  BY <1>10 DEF SessionEnd, ClusterDestroy, Detached, Labelled, Popped, Cached
<1>11. ASSUME NEW c \in Calls, NEW s \in Sandboxes, ProvisionWarm(c, s)
      PROVE  Home(b)'
  BY <1>11 DEF ProvisionWarm, Created, Mapped, Suspend
<1>12. ASSUME NEW c \in Calls, NEW s \in Sandboxes, ReleaseBegin(c, s)
      PROVE  Home(b)'
  BY <1>12 DEF ReleaseBegin, Suspend, Popped, Cached
<1>13. ASSUME NEW c \in Calls, NEW s \in Sandboxes, RestartBegin(c, s)
      PROVE  Home(b)'
  BY <1>13 DEF RestartBegin, Suspend, Cached
<1>14. ASSUME NEW c \in Calls, NEW s \in Sandboxes, RestoreBegin(c, s)
      PROVE  Home(b)'
  BY <1>14 DEF RestoreBegin, Suspend, Cached
<1>15. ASSUME NEW c \in Calls, ReleaseDone(c)
      PROVE  Home(b)'
  BY <1>15 DEF ReleaseDone, ReleaseEntry, Answer, Labelled
<1>16. ASSUME NEW c \in Calls, VolumeSwap(c)
      PROVE  Home(b)'
  <2>1. job[c].back \in Statuses
    OBVIOUS
  <2>2. \A s \in Sandboxes : cache'[s].agent = cache[s].agent /\ (IsCached(s)' <=> IsCached(s))
    BY <1>16, <2>1, StatusOnly DEF VolumeSwap
  <2> QED
    BY <1>16, <2>2 DEF VolumeSwap, Answer
<1>17. ASSUME NEW c \in Calls, PodDelete(c)
      PROVE  Home(b)'
  BY <1>17 DEF PodDelete, Answer, Pods
<1>18. ASSUME NEW c \in Calls, PodCreate(c)
      PROVE  Home(b)'
  BY <1>18 DEF PodCreate, Pods, Cached
<1>19. ASSUME NEW c \in Calls, PodCreateFails(c)
      PROVE  Home(b)'
  BY <1>19 DEF PodCreateFails, EntryStatus, Answer, Pods
<1>20. ASSUME NEW c \in Calls, WaitEnds(c)
      PROVE  Home(b)'
  <2>1. job[c].back \in Statuses
    OBVIOUS
  <2>2. \A s \in Sandboxes : cache'[s].agent = cache[s].agent /\ (IsCached(s)' <=> IsCached(s))
    BY <1>20, <2>1, StatusOnly DEF WaitEnds
  <2> QED
    BY <1>20, <2>2 DEF WaitEnds, Answer
<1>21. ASSUME PoolDebug
      PROVE  Home(b)'
  BY <1>21 DEF PoolDebug, Rebuild, RebuiltEntry, RebuiltMap, PodsOf, Pods, Detached
<1>22. ASSUME Crash
      PROVE  Home(b)'
  BY <1>22 DEF Crash, Rebuild, RebuiltEntry, RebuiltMap, PodsOf, Pods
<1>23. ASSUME UNCHANGED vars
      PROVE  Home(b)'
  BY <1>23 DEF vars
<1> HIDE OrchestratorAssumption DEF IInv, TypeOK, Home, Sound, IsCached, IsPod, Held
<1> QED
  BY <1>1, <1>2, <1>3, <1>4, <1>5, <1>6, <1>7, <1>8, <1>9, <1>10, <1>11, <1>12, <1>13, <1>14, <1>15, <1>16, <1>17, <1>18, <1>19, <1>20, <1>21, <1>22, <1>23 DEF Next

\* A handler holds the cached entry until somebody removes it.
LEMMA HeldStep ==
  ASSUME IInv, TypeOK', [Next]_vars, NEW d \in Calls
  PROVE  Held(d)'
<1> USE OrchestratorAssumption DEF IInv, TypeOK, Entries, PodStates, Handlers, Labels, Statuses, Phases,
      NoEntry, NoPod, NoJob, cluster, history, Held, Home, Sound, IsCached, IsPod
<1>1. ASSUME NEW s \in Sandboxes, CreationFails(s)
      PROVE  Held(d)'
  BY <1>1 DEF CreationFails
<1>2. ASSUME NEW s \in Sandboxes, CreateSandbox(s)
      PROVE  Held(d)'
  BY <1>2 DEF CreateSandbox, Created, Mapped
<1>3. ASSUME NEW s \in Sandboxes, ReleasePersistent(s)
      PROVE  Held(d)'
  BY <1>3 DEF ReleasePersistent, ReleaseEntry, Labelled, Popped, Cached
<1>4. ASSUME NEW s \in Sandboxes, Destroy(s)
      PROVE  Held(d)'
  BY <1>4 DEF Destroy, ClusterDestroy, Detached, Popped, Cached
<1>5. ASSUME NEW s \in Sandboxes, PodRuns(s)
      PROVE  Held(d)'
  BY <1>5 DEF PodRuns
<1>6. ASSUME NEW s \in Sandboxes, PodBreaks(s)
      PROVE  Held(d)'
  BY <1>6 DEF PodBreaks
<1>7. ASSUME NEW s \in Sandboxes, NEW a \in Agents, StartTakesIdle(a, s)
      PROVE  Held(d)'
  BY <1>7 DEF StartTakesIdle, Labelled, Takeable, Wiping, Cached
<1>8. ASSUME NEW s \in Sandboxes, NEW a \in Agents, Claim(s, a)
      PROVE  Held(d)'
  BY <1>8 DEF Claim, Labelled, Takeable, Wiping, Cached
<1>9. ASSUME NEW s \in Sandboxes, NEW a \in Agents \cup {NoAgent}, StartCreates(a, s)
      PROVE  Held(d)'
  BY <1>9 DEF StartCreates, Created, Mapped
<1>10. ASSUME NEW a \in Agents, SessionEnd(a)
      PROVE  Held(d)'
  BY <1>10 DEF SessionEnd, ClusterDestroy, Detached, Labelled, Popped, Cached
<1>11. ASSUME NEW c \in Calls, NEW s \in Sandboxes, ProvisionWarm(c, s)
      PROVE  Held(d)'
  BY <1>11 DEF ProvisionWarm, Created, Mapped, Suspend
<1>12. ASSUME NEW c \in Calls, NEW s \in Sandboxes, ReleaseBegin(c, s)
      PROVE  Held(d)'
  BY <1>12 DEF ReleaseBegin, Suspend, Popped, Cached
<1>13. ASSUME NEW c \in Calls, NEW s \in Sandboxes, RestartBegin(c, s)
      PROVE  Held(d)'
  BY <1>13 DEF RestartBegin, Suspend, Cached
<1>14. ASSUME NEW c \in Calls, NEW s \in Sandboxes, RestoreBegin(c, s)
      PROVE  Held(d)'
  BY <1>14 DEF RestoreBegin, Suspend, Cached
<1>15. ASSUME NEW c \in Calls, ReleaseDone(c)
      PROVE  Held(d)'
  BY <1>15 DEF ReleaseDone, ReleaseEntry, Answer, Labelled
<1>16. ASSUME NEW c \in Calls, VolumeSwap(c)
      PROVE  Held(d)'
  <2>1. job[c].back \in Statuses
    OBVIOUS
  <2>2. \A s \in Sandboxes : cache'[s].agent = cache[s].agent /\ (IsCached(s)' <=> IsCached(s))
    BY <1>16, <2>1, StatusOnly DEF VolumeSwap
  <2> QED
    BY <1>16, <2>2 DEF VolumeSwap, Answer
<1>17. ASSUME NEW c \in Calls, PodDelete(c)
      PROVE  Held(d)'
  BY <1>17 DEF PodDelete, Answer, Pods
<1>18. ASSUME NEW c \in Calls, PodCreate(c)
      PROVE  Held(d)'
  BY <1>18 DEF PodCreate, Pods, Cached
<1>19. ASSUME NEW c \in Calls, PodCreateFails(c)
      PROVE  Held(d)'
  BY <1>19 DEF PodCreateFails, EntryStatus, Answer, Pods
<1>20. ASSUME NEW c \in Calls, WaitEnds(c)
      PROVE  Held(d)'
  <2>1. job[c].back \in Statuses
    OBVIOUS
  <2>2. \A s \in Sandboxes : cache'[s].agent = cache[s].agent /\ (IsCached(s)' <=> IsCached(s))
    BY <1>20, <2>1, StatusOnly DEF WaitEnds
  <2> QED
    BY <1>20, <2>2 DEF WaitEnds, Answer
<1>21. ASSUME PoolDebug
      PROVE  Held(d)'
  BY <1>21 DEF PoolDebug, Rebuild, RebuiltEntry, RebuiltMap, PodsOf, Pods, Detached
<1>22. ASSUME Crash
      PROVE  Held(d)'
  BY <1>22 DEF Crash, Rebuild, RebuiltEntry, RebuiltMap, PodsOf, Pods
<1>23. ASSUME UNCHANGED vars
      PROVE  Held(d)'
  BY <1>23 DEF vars
<1> HIDE OrchestratorAssumption DEF IInv, TypeOK, Held, Home, Sound, IsCached, IsPod
<1> QED
  BY <1>1, <1>2, <1>3, <1>4, <1>5, <1>6, <1>7, <1>8, <1>9, <1>10, <1>11, <1>12, <1>13, <1>14, <1>15, <1>16, <1>17, <1>18, <1>19, <1>20, <1>21, <1>22, <1>23 DEF Next

\* The limit: only a creation adds to what is counted.
LEMMA LimitStep ==
  ASSUME IInv, TypeOK', [Next]_vars
  PROVE  WithinLimit'
<1> USE DEF NoEntry, NoPod, NoJob, cluster, history, Statuses
<1>0. ASSUME (Cached \ strays)' \subseteq Cached \ strays
      PROVE  WithinLimit'
  BY <1>0, Fewer DEF IInv
<1>a. \A s \in Sandboxes : cache[s] \in Entries
  BY DEF IInv, TypeOK
<1>1. ASSUME NEW s \in Sandboxes, CreationFails(s)
      PROVE  WithinLimit'
  BY <1>1, <1>0 DEF CreationFails, Cached, IInv, TypeOK
<1>2. ASSUME NEW s \in Sandboxes, CreateSandbox(s)
      PROVE  WithinLimit'
  <2>1. MayCreate /\ Cached' \subseteq Cached \cup {s}
    BY <1>2 DEF CreateSandbox, Created, Cached, IInv, TypeOK
  <2> QED
    BY <2>1, OneMore DEF IInv
<1>3. ASSUME NEW s \in Sandboxes, ReleasePersistent(s)
      PROVE  WithinLimit'
  BY <1>3, <1>0 DEF ReleasePersistent, ReleaseEntry, Cached, IInv, TypeOK
<1>4. ASSUME NEW s \in Sandboxes, Destroy(s)
      PROVE  WithinLimit'
  BY <1>4, <1>0 DEF Destroy, ClusterDestroy, Cached, IInv, TypeOK
<1>5. ASSUME NEW s \in Sandboxes, PodRuns(s)
      PROVE  WithinLimit'
  BY <1>5, <1>0 DEF PodRuns, Cached, IInv, TypeOK
<1>6. ASSUME NEW s \in Sandboxes, PodBreaks(s)
      PROVE  WithinLimit'
  BY <1>6, <1>0 DEF PodBreaks, Cached, IInv, TypeOK
<1>7. ASSUME NEW s \in Sandboxes, NEW a \in Agents, StartTakesIdle(a, s)
      PROVE  WithinLimit'
  BY <1>7, <1>0 DEF StartTakesIdle, Takeable, Cached, IInv, TypeOK
<1>8. ASSUME NEW s \in Sandboxes, NEW a \in Agents, Claim(s, a)
      PROVE  WithinLimit'
  BY <1>8, <1>0 DEF Claim, Takeable, Cached, IInv, TypeOK
<1>9. ASSUME NEW s \in Sandboxes, NEW a \in Agents \cup {NoAgent}, StartCreates(a, s)
      PROVE  WithinLimit'
  <2>1. MayCreate /\ Cached' \subseteq Cached \cup {s}
    BY <1>9 DEF StartCreates, Created, Cached, IInv, TypeOK
  <2> QED
    BY <2>1, OneMore DEF IInv
<1>10. ASSUME NEW a \in Agents, SessionEnd(a)
      PROVE  WithinLimit'
  BY <1>10, <1>0 DEF SessionEnd, ClusterDestroy, Cached, IInv, TypeOK
<1>11. ASSUME NEW c \in Calls, NEW s \in Sandboxes, ProvisionWarm(c, s)
      PROVE  WithinLimit'
  <2>1. MayCreate /\ Cached' \subseteq Cached \cup {s}
    BY <1>11 DEF ProvisionWarm, Created, Cached, IInv, TypeOK
  <2> QED
    BY <2>1, OneMore DEF IInv
<1>12. ASSUME NEW c \in Calls, NEW s \in Sandboxes, ReleaseBegin(c, s)
      PROVE  WithinLimit'
  BY <1>12, <1>0 DEF ReleaseBegin, Cached, IInv, TypeOK
<1>13. ASSUME NEW c \in Calls, NEW s \in Sandboxes, RestartBegin(c, s)
      PROVE  WithinLimit'
  BY <1>13, <1>0 DEF RestartBegin, Cached, IInv, TypeOK
<1>14. ASSUME NEW c \in Calls, NEW s \in Sandboxes, RestoreBegin(c, s)
      PROVE  WithinLimit'
  BY <1>14, <1>0 DEF RestoreBegin, Cached, IInv, TypeOK
<1>15. ASSUME NEW c \in Calls, ReleaseDone(c)
      PROVE  WithinLimit'
  <2>1. job[c].held => job[c].on \in Cached
    BY DEF IInv, Held, IsCached, Cached, TypeOK
  <2>2. Cached' \subseteq Cached
    BY <1>15, <2>1 DEF ReleaseDone, ReleaseEntry, Cached, IInv, TypeOK
  <2> QED
    BY <1>15, <1>0, <2>2 DEF ReleaseDone
<1>16. ASSUME NEW c \in Calls, VolumeSwap(c)
      PROVE  WithinLimit'
  <2>1. job[c].back \in Statuses /\ Held(c) /\ TypeOK
    BY DEF IInv, TypeOK, Handlers
  <2>2. \A s \in Sandboxes : IsCached(s)' <=> IsCached(s)
    BY <1>16, <2>1, StatusOnly DEF VolumeSwap, IsCached
  <2> QED
    BY <1>16, <1>0, <2>2 DEF VolumeSwap, Cached, IsCached
<1>17. ASSUME NEW c \in Calls, PodDelete(c)
      PROVE  WithinLimit'
  BY <1>17, <1>0 DEF PodDelete, Cached, IInv, TypeOK
<1>18. ASSUME NEW c \in Calls, PodCreate(c)
      PROVE  WithinLimit'
  BY <1>18, <1>0 DEF PodCreate, Cached, IInv, TypeOK
<1>19. ASSUME NEW c \in Calls, PodCreateFails(c)
      PROVE  WithinLimit'
  <2>1. job[c].back \in Statuses /\ Held(c) /\ TypeOK
    BY DEF IInv, TypeOK, Handlers
  <2>2. \A s \in Sandboxes : IsCached(s)' <=> IsCached(s)
    BY <1>19, <2>1, StatusOnly DEF PodCreateFails, IsCached
  <2> QED
    BY <1>19, <1>0, <2>2 DEF PodCreateFails, Cached, IsCached
<1>20. ASSUME NEW c \in Calls, WaitEnds(c)
      PROVE  WithinLimit'
  <2>1. job[c].back \in Statuses /\ Held(c) /\ TypeOK
    BY DEF IInv, TypeOK, Handlers
  <2>2. \A s \in Sandboxes : IsCached(s)' <=> IsCached(s)
    BY <1>20, <2>1, StatusOnly DEF WaitEnds, IsCached
  <2> QED
    BY <1>20, <1>0, <2>2 DEF WaitEnds, Cached, IsCached
<1>21. ASSUME PoolDebug
      PROVE  WithinLimit'
  <2>1. \A s \in Sandboxes : IsCached(s)' => IsPod(s)
    BY <1>21 DEF PoolDebug, Rebuild, RebuiltEntry, IsCached, IsPod
  <2>2. \A s \in Sandboxes : IsPod(s) => s \in Cached \/ s \in strays
    BY DEF IInv, Sound, IsCached, Cached
  <2> QED
    BY <1>21, <1>0, <2>1, <2>2 DEF PoolDebug, Rebuild, Cached, IsCached
<1>22. ASSUME Crash
      PROVE  WithinLimit'
  <2>1. \A s \in Sandboxes : IsCached(s)' => IsPod(s)
    BY <1>22 DEF Crash, Rebuild, RebuiltEntry, IsCached, IsPod
  <2>2. \A s \in Sandboxes : IsPod(s) => s \in Cached \/ s \in strays
    BY DEF IInv, Sound, IsCached, Cached
  <2> QED
    BY <1>22, <1>0, <2>1, <2>2 DEF Crash, Rebuild, Cached, IsCached
<1>23. ASSUME UNCHANGED vars
      PROVE  WithinLimit'
  BY <1>23, <1>0 DEF vars, Cached
<1> HIDE DEF NoEntry, NoPod, NoJob, cluster, history, Statuses
<1> QED
  BY <1>1, <1>2, <1>3, <1>4, <1>5, <1>6, <1>7, <1>8, <1>9, <1>10, <1>11, <1>12, <1>13, <1>14, <1>15, <1>16, <1>17, <1>18, <1>19, <1>20, <1>21, <1>22, <1>23 DEF Next

-----------------------------------------------------------------------------
(* The theorems.                                                           *)

\* The inductive invariant holds in every reachable state: for any number of sandboxes,
\* agents, suspended handlers and faults.
THEOREM Invariance == Spec => []IInv
<1>1. Init => IInv
  <2> SUFFICES ASSUME Init
               PROVE  IInv
    OBVIOUS
  <2>1. TypeOK
    BY OrchestratorAssumption DEF Init, TypeOK, Entries, PodStates, Handlers, NoEntry, NoPod,
      NoJob, Labels, Statuses
  <2>2. \A s \in Sandboxes : Sound(s)
    BY OrchestratorAssumption DEF Init, Sound, IsCached, IsPod, NoEntry, NoPod
  <2>3. (\A a \in Agents : Home(a)) /\ \A c \in Calls : Held(c)
    BY DEF Init, Home, Held, NoJob
  <2>4. WithinLimit
    <3>1. Cached \ strays = {}
      BY DEF Init, Cached, NoEntry
    <3> QED
      BY <3>1, FS_EmptySet, OrchestratorAssumption DEF WithinLimit
  <2> QED
    BY <2>1, <2>2, <2>3, <2>4 DEF IInv
<1>2. IInv /\ [Next]_vars => IInv'
  <2> SUFFICES ASSUME IInv, [Next]_vars
               PROVE  IInv'
    OBVIOUS
  <2>1. TypeOK'
    BY TypeStep DEF IInv
  <2>2. \A s \in Sandboxes : Sound(s)'
    BY <2>1, SoundStep
  <2>3. \A a \in Agents : Home(a)'
    BY <2>1, HomeStep
  <2>4. \A c \in Calls : Held(c)'
    BY <2>1, HeldStep
  <2>5. WithinLimit'
    BY <2>1, LimitStep
  <2> QED
    BY <2>1, <2>2, <2>3, <2>4, <2>5 DEF IInv
<1> QED
  BY <1>1, <1>2, PTL DEF Spec

\* Every variable keeps its type.
THEOREM TypeCorrect == Spec => []TypeOK
<1>1. IInv => TypeOK
  BY DEF IInv
<1> QED
  BY <1>1, Invariance, PTL

\* The map and the entries agree: what an agent is mapped to is cached and names that agent,
\* but for a sandbox that was assigned while a release of it was wiping.
THEOREM MapSafe == Spec => []MapPointsHome
<1>1. IInv => MapPointsHome
  BY DEF IInv, MapPointsHome, Home, IsCached
<1> QED
  BY <1>1, Invariance, PTL

\* So no two agents are served by one sandbox, with that exception.
THEOREM SharedSafe == Spec => []NotShared
<1>1. IInv => NotShared
  BY DEF IInv, NotShared, Home, IsCached
<1> QED
  BY <1>1, Invariance, PTL

\* A pod's label never names an agent its entry does not, so a cache that is rebuilt from the
\* labels gives nobody a sandbox that was taken from him.
THEOREM LabelsSafe == Spec => []LabelNeverForeign
<1>1. IInv => LabelNeverForeign
  BY DEF IInv, LabelNeverForeign, Sound, Cached, IsCached
<1> QED
  BY <1>1, Invariance, PTL

\* Every pod is counted, every counted sandbox has a service and the limit holds, but for pods
\* that a failed creation left or a restart made again after their destruction.
THEOREM PodsSafe == Spec => []PodsAccounted
<1>1. IInv => PodsAccounted
  BY DEF IInv, PodsAccounted, WithinLimit, Sound, Cached, Pods, IsCached, IsPod
<1> QED
  BY <1>1, Invariance, PTL


(***************************************************************************)
(* Machines: what is on the host is what the pool manager's books say.     *)
(* The invariant follows every unit through the operations under way: of a *)
(* unit that is being made there is what its steps so far have made, and   *)
(* nobody else works on it; of a unit that is taken out, what of it is     *)
(* still there is known to be left; a port that no late destruction may    *)
(* have touched is one unit's and its rules are there while it needs them. *)
(***************************************************************************)
Creations == {"create", "promote", "demote"}
TakesOut == {"promote", "demote", "destroy"}
OnVM == {"disk", "forward", "launch", "undefine", "clean", "shutdown", "startVM"}
HostCalls ==
  [at : {"rest", "volume", "run", "clear", "recreate", "stop", "wipe", "enter"} \cup OnVM,
   op : {"none", "destroy", "reset", "reboot"} \cup Creations, id : 0 .. NumIds, old : 0 .. NumIds]
HostTypes ==
  /\ units \in [Host!Ids -> {"none", "headless", "desktop"}]
  /\ port \in [Host!Ids -> HeadlessPorts \cup DesktopPorts \cup {0}]
  /\ taken \in SUBSET (HeadlessPorts \cup DesktopPorts) /\ used \in 0 .. NumIds
  /\ container \in [Host!Ids -> {"none", "made", "runs"}]
  /\ domain \in [Host!Ids -> {"none", "off", "runs", "stopping"}]
  /\ volumes \in SUBSET Host!Ids /\ disks \in SUBSET Host!Ids
  /\ rules \in [DesktopPorts -> [Host!Chains -> Nat]]
  /\ calls \in [Calls -> HostCalls]
  /\ orphans \in SUBSET (Host!Ids \X {"container", "volume", "vm"}) /\ cut \in SUBSET DesktopPorts

\* An operation has the units, of the kinds, that its steps are about.
Numbers == 1 .. used
OfHeadless(i) == i \in Numbers /\ port[i] \in HeadlessPorts
OfDesktop(i) == i \in Numbers /\ port[i] \in DesktopPorts
CallWhole(k) ==
  /\ k.op = "none" => k = Host!Idle
  /\ k.at = "rest" <=> k.op = "none"
  /\ k.op \in Creations => k.id \in Numbers /\ k.id # k.old
  /\ k.op = "create" => k.old = 0
  /\ k.op = "promote" => OfDesktop(k.id) /\ OfHeadless(k.old)
  /\ k.op = "demote" => OfHeadless(k.id) /\ OfDesktop(k.old)
  /\ k.op \in {"destroy", "reset", "reboot"} => k.id \in Numbers /\ k.id = k.old
  /\ k.at \in {"volume", "run"} => k.op \in {"create", "demote"} /\ OfHeadless(k.id)
  /\ k.at \in {"disk", "forward", "launch"} => k.op \in {"create", "promote"} /\ OfDesktop(k.id)
  /\ k.at \in {"stop", "wipe"} => k.op \in {"promote", "destroy"} /\ OfHeadless(k.old)
  /\ k.at \in {"undefine", "clean"} => k.op \in {"demote", "destroy"} /\ OfDesktop(k.old)
  /\ k.at \in {"clear", "recreate"} <=> k.op = "reset"
  /\ k.at \in {"shutdown", "startVM"} <=> k.op = "reboot"
  /\ k.op = "reset" => OfHeadless(k.old)
  /\ k.op = "reboot" => OfDesktop(k.old)

\* Of a unit that is not made yet there is nothing; others are of one kind.
NothingOf(i) == container[i] = "none" /\ i \notin volumes /\ domain[i] = "none" /\ i \notin disks
KindOf(i) ==
  /\ i \notin Numbers => units[i] = "none" /\ NothingOf(i)
  /\ i \in Numbers => port[i] # 0
  /\ port[i] \in HeadlessPorts => units[i] # "desktop" /\ domain[i] = "none" /\ i \notin disks
  /\ port[i] \in DesktopPorts => units[i] # "headless" /\ container[i] = "none" /\ i \notin volumes

\* A unit being made is worked on by nobody else and has what the steps so far have made.
Alone(c) ==
  calls[c].op \in Creations =>
    /\ units[calls[c].id] = "none"
    /\ \A d \in Calls \ {c} : calls[d].id # calls[c].id /\ calls[d].old # calls[c].id
    /\ calls[c].at = "volume" => calls[c].id \notin volumes
    /\ calls[c].at \in {"volume", "run"} => container[calls[c].id] = "none"
    /\ calls[c].at = "disk" => calls[c].id \notin disks
    /\ calls[c].at \in {"disk", "forward", "launch"} => domain[calls[c].id] = "none"

\* A unit that was taken out is accounted for; of one that is about to be, what has been removed.
Accounted(i) ==
  /\ container[i] # "none" => <<i, "container">> \in orphans
  /\ i \in volumes => <<i, "volume">> \in orphans
  /\ domain[i] # "none" \/ i \in disks => <<i, "vm">> \in orphans
BeingMade(i) == \E c \in Calls : calls[c].op \in Creations /\ calls[c].id = i
GoneAccounted == \A i \in Host!Ids : units[i] = "none" /\ ~BeingMade(i) => Accounted(i)
LeavingAccounted(c) ==
  calls[c].op \in TakesOut =>
    /\ calls[c].at = "wipe" /\ container[calls[c].old] # "none" => <<calls[c].old, "container">> \in orphans
    /\ calls[c].at = "clean" /\ domain[calls[c].old] # "none" => <<calls[c].old, "vm">> \in orphans
    /\ calls[c].at = "enter" => Accounted(calls[c].old)

\* A port, if nobody else's steps may have touched it, is one unit's, whose rules are there until
\* they are removed with it.
Owner(i) == units[i] # "none" \/ BeingMade(i)
Untouched(i) == port[i] \in DesktopPorts \ cut
OwnersApart ==
  \A i, j \in Host!Ids : Owner(i) /\ Owner(j) /\ Untouched(i) /\ port[i] = port[j] => i = j
OwnedIsTaken == \A i \in Host!Ids : Owner(i) /\ Untouched(i) => port[i] \in taken
Forwarded(i) == \A k \in Host!Chains : rules[port[i]][k] > 0
Opened == {"launch", "stop", "wipe", "enter"}
Needs(i) ==
  \/ units[i] # "none" /\ \A c \in Calls : ~(calls[c].at = "enter" /\ calls[c].old = i)
  \/ \E c \in Calls : calls[c].op \in Creations /\ calls[c].id = i /\ calls[c].at \in Opened
RulesThere == \A i \in Host!Ids : Untouched(i) /\ Needs(i) => Forwarded(i)

HostInv ==
  /\ HostTypes
  /\ \A c \in Calls : CallWhole(calls[c]) /\ Alone(c) /\ LeavingAccounted(c)
  /\ \A i \in Host!Ids : KindOf(i)
  /\ GoneAccounted /\ OwnersApart /\ OwnedIsTaken /\ RulesThere

LEMMA NumbersAreIds ==
  ASSUME HostTypes
  PROVE  /\ Numbers \subseteq Host!Ids /\ 0 \notin Numbers /\ used \in Nat /\ NumIds \in Nat
         /\ Host!Ids = 1 .. NumIds /\ 0 \notin Host!Ids
  BY HostAssumption DEF HostAssumption, HostTypes, Numbers, Host!Ids

LEMMA IdleIs ==
  /\ Host!Idle \in HostCalls /\ Host!Idle.at = "rest" /\ Host!Idle.op = "none" /\ Host!Idle.id = 0
  /\ Host!Idle.old = 0
  BY HostAssumption DEF HostAssumption, Host!Idle, HostCalls

LEMMA GoesTo ==
  ASSUME HostTypes, NEW c \in Calls,
         NEW place \in {"rest", "volume", "run", "clear", "recreate", "stop", "wipe", "enter"} \cup OnVM,
         Host!Goes(c, place)
  PROVE  /\ calls' \in [Calls -> HostCalls]
         /\ \A d \in Calls \ {c} : calls'[d] = calls[d]
         /\ calls'[c].at = place /\ calls'[c].op = calls[c].op /\ calls'[c].id = calls[c].id
         /\ calls'[c].old = calls[c].old
<1>1. calls \in [Calls -> HostCalls] /\ calls[c] \in HostCalls
  BY DEF HostTypes
<1>2. PICK k : k = [calls[c] EXCEPT !.at = place]
  OBVIOUS
<1>3. calls' = [calls EXCEPT ![c] = k]
  BY <1>1, <1>2 DEF Host!Goes
<1>4. k = [at |-> place, op |-> calls[c].op, id |-> calls[c].id, old |-> calls[c].old]
  BY <1>1, <1>2 DEF HostCalls
<1>5. k \in HostCalls
  BY <1>1, <1>4 DEF HostCalls
<1> QED BY <1>1, <1>3, <1>4, <1>5

LEMMA EndsWith ==
  ASSUME HostTypes, NEW c \in Calls, Host!Ends(c)
  PROVE  /\ calls' \in [Calls -> HostCalls]
         /\ \A d \in Calls \ {c} : calls'[d] = calls[d]
         /\ calls'[c] = Host!Idle
  BY IdleIs DEF HostTypes, Host!Ends

LEMMA HostStarts == Host!Init => HostInv
<1> SUFFICES ASSUME Host!Init PROVE HostInv
  OBVIOUS
<1> USE HostAssumption DEF HostAssumption, Host!Init
<1>1. HostTypes
  BY IdleIs DEF HostTypes, Host!NoPort, Host!NoRules, Host!Chains
<1>2. \A c \in Calls : CallWhole(calls[c]) /\ Alone(c) /\ LeavingAccounted(c)
  BY IdleIs DEF CallWhole, Alone, LeavingAccounted, Creations, TakesOut
<1>3. \A i \in Host!Ids : KindOf(i)
  BY DEF KindOf, NothingOf, Numbers, Host!NoPort
<1>4. GoneAccounted
  BY DEF GoneAccounted, Accounted
<1>5. \A i \in Host!Ids : ~Owner(i)
  BY IdleIs DEF Owner, BeingMade, Creations
<1>6. OwnersApart /\ OwnedIsTaken /\ RulesThere
  BY <1>5, IdleIs DEF OwnersApart, OwnedIsTaken, RulesThere, Creations, Owner, Needs, Opened, BeingMade
<1> QED BY <1>1, <1>2, <1>3, <1>4, <1>6 DEF HostInv

\* An operation goes on, or ends, and changes what there is of one unit, i.
Moves(c, k) ==
  /\ calls' = [calls EXCEPT ![c] = k] /\ k \in HostCalls /\ CallWhole(k)
  /\ k = Host!Idle \/ (k.op = calls[c].op /\ k.id = calls[c].id /\ k.old = calls[c].old)
  /\ UNCHANGED <<units, port, used>>
OnlyOf(i) ==
  /\ container' \in [Host!Ids -> {"none", "made", "runs"}]
  /\ domain' \in [Host!Ids -> {"none", "off", "runs", "stopping"}]
  /\ volumes' \in SUBSET Host!Ids /\ disks' \in SUBSET Host!Ids /\ taken' \in SUBSET taken
  /\ rules' \in [DesktopPorts -> [Host!Chains -> Nat]] /\ cut' \in SUBSET DesktopPorts
  /\ orphans' \in SUBSET (Host!Ids \X {"container", "volume", "vm"}) /\ orphans \in SUBSET orphans'
  /\ \A j \in Host!Ids \ {i} :
       /\ container'[j] = container[j] /\ domain'[j] = domain[j]
       /\ j \in volumes' <=> j \in volumes
       /\ j \in disks' <=> j \in disks
  /\ port[i] \in HeadlessPorts => domain'[i] = "none" /\ i \notin disks'
  /\ port[i] \in DesktopPorts => container'[i] = "none" /\ i \notin volumes'

\* The unit is the operation's, and stays accounted for.
Accounts(c, k, i) ==
  /\ calls[c].op \in Creations /\ k = Host!Idle => calls[c].id = i
  /\ units[i] = "none" => BeingMade(i)' \/ Accounted(i)'
  /\ \A d \in Calls \ {c} : calls[d].op \in Creations => calls[d].id # i
  /\ Alone(c)' /\ LeavingAccounted(c)'
  /\ \A d \in Calls \ {c} : calls[d].op \in TakesOut /\ calls[d].old = i => LeavingAccounted(d)'

\* Of its port alone rules change, and the unit is the port's owner or its rules are no longer
\* known to be in order.
ItsPort(c, k, i) ==
  /\ calls[c].at # "enter" /\ cut \in SUBSET cut'
  /\ \A p \in taken \ taken' : k = Host!Idle /\ calls[c].op \in Creations /\ p = port[calls[c].id]
  /\ \A p \in DesktopPorts : p # port[i] => rules'[p] = rules[p]
  /\ rules' = rules \/ Owner(i) \/ ~Untouched(i)'
  /\ port[i] \in DesktopPorts =>
       rules'[port[i]] = rules[port[i]] \/ Forwarded(i)' \/ ~Needs(i)' \/ ~Untouched(i)'
  /\ k.op \in Creations /\ k.at \in Opened /\ Untouched(k.id)' =>
       calls[c].at \in Opened \/ (k.id = i /\ Forwarded(i)')

LEMMA UnitKept ==
  ASSUME HostInv, NEW c \in Calls, NEW k, NEW i \in Numbers, Moves(c, k), OnlyOf(i), Accounts(c, k, i)
  PROVE  /\ HostTypes' /\ GoneAccounted' /\ \A j \in Host!Ids : KindOf(j)'
         /\ \A d \in Calls : CallWhole(calls[d])' /\ Alone(d)' /\ LeavingAccounted(d)'
<1> USE NumbersAreIds DEF HostInv, Moves, OnlyOf, Accounts
<1>1. calls'[c] = k /\ \A d \in Calls \ {c} : calls'[d] = calls[d]
  BY DEF HostTypes
<1>2. HostTypes'
  <2>1. calls' \in [Calls -> HostCalls] /\ taken' \in SUBSET (HeadlessPorts \cup DesktopPorts)
    BY DEF HostTypes
  <2> QED BY <2>1 DEF HostTypes
<1>3. \A j \in Host!Ids : KindOf(j)'
  BY DEF KindOf, NothingOf, Numbers
<1>4. ASSUME NEW d \in Calls PROVE CallWhole(calls[d])'
  <2>1. CallWhole(calls'[d])
    BY <1>1
  <2> QED BY <2>1 DEF CallWhole, OfHeadless, OfDesktop, Numbers
<1>5. ASSUME NEW d \in Calls \ {c} PROVE Alone(d)' /\ LeavingAccounted(d)'
  <2>1. CallWhole(calls[d]) /\ CallWhole(calls[c])
    OBVIOUS
  <2>2. Alone(d)'
    <3> SUFFICES ASSUME calls[d].op \in Creations PROVE Alone(d)'
      BY <1>1 DEF Alone
    <3>1. calls[d].id \in Host!Ids \ {i} /\ calls[d].id # 0
      BY <2>1, NumbersAreIds DEF CallWhole
    <3>2. \A e \in Calls \ {d} : calls'[e].id # calls[d].id /\ calls'[e].old # calls[d].id
      BY <1>1, <3>1, IdleIs DEF Alone
    <3> QED BY <1>1, <3>1, <3>2 DEF Alone
  <2>3. LeavingAccounted(d)'
    <3> SUFFICES ASSUME calls[d].op \in TakesOut, calls[d].old # i PROVE LeavingAccounted(d)'
      BY <1>1 DEF LeavingAccounted
    <3>1. calls[d].old \in Host!Ids \ {i}
      BY <2>1, NumbersAreIds DEF CallWhole, TakesOut, OfHeadless, OfDesktop
    <3> QED BY <1>1, <3>1 DEF LeavingAccounted, Accounted
  <2> QED BY <2>2, <2>3
<1>6. GoneAccounted'
  <2> SUFFICES ASSUME NEW j \in Host!Ids \ {i}, units[j] = "none", ~BeingMade(j)' PROVE Accounted(j)'
    BY DEF GoneAccounted
  <2>1. ~BeingMade(j)
    BY <1>1 DEF BeingMade
  <2>2. Accounted(j)
    BY <2>1 DEF GoneAccounted
  <2> QED BY <2>2 DEF Accounted
<1> QED BY <1>2, <1>3, <1>4, <1>5, <1>6

LEMMA PortsKept ==
  ASSUME HostInv, NEW c \in Calls, NEW k, NEW i \in Numbers, Moves(c, k), ItsPort(c, k, i)
  PROVE  OwnersApart' /\ OwnedIsTaken' /\ RulesThere'
<1> USE NumbersAreIds DEF HostInv, Moves, ItsPort
<1>1. calls'[c] = k /\ \A d \in Calls \ {c} : calls'[d] = calls[d]
  BY DEF HostTypes
<1>2. \A j \in Host!Ids : BeingMade(j)' => BeingMade(j)
  BY <1>1, IdleIs DEF BeingMade, Creations
<1>3. \A j \in Host!Ids : (Owner(j)' => Owner(j)) /\ (Untouched(j)' => Untouched(j))
  BY <1>2 DEF Owner, Untouched
<1>4. OwnersApart'
  BY <1>3 DEF OwnersApart
<1>5. OwnedIsTaken'
  <2> SUFFICES ASSUME NEW j \in Host!Ids, Owner(j)', Untouched(j)' PROVE port[j] \in taken'
    BY DEF OwnedIsTaken
  <2>1. Owner(j) /\ Untouched(j) /\ port[j] \in taken
    BY <1>3 DEF OwnedIsTaken
  <2> SUFFICES ASSUME k = Host!Idle, calls[c].op \in Creations, port[j] = port[calls[c].id] PROVE FALSE
    BY <2>1
  <2>2. calls[c].id \in Host!Ids /\ Owner(calls[c].id)
    BY NumbersAreIds DEF CallWhole, Owner, BeingMade
  <2>3. j = calls[c].id
    BY <2>1, <2>2 DEF OwnersApart
  <2>4. units[j] = "none" /\ ~BeingMade(j)'
    BY <1>1, <2>3, IdleIs DEF Alone, BeingMade, Creations
  <2> QED BY <2>4 DEF Owner
<1>6. RulesThere'
  <2> SUFFICES ASSUME NEW j \in Host!Ids, Untouched(j)', Needs(j)' PROVE Forwarded(j)'
    BY DEF RulesThere
  <2>1. Needs(j) \/ Forwarded(j)'
    BY <1>1, <1>3, IdleIs DEF Needs, Creations
  <2>2. Owner(j)' /\ Owner(j) /\ Untouched(j)
    BY <1>3 DEF Owner, Needs, BeingMade
  <2>3. CASE port[j] # port[i]
    <3>1. rules'[port[j]] = rules[port[j]]
      BY <2>2, <2>3 DEF Untouched
    <3> QED BY <2>1, <2>2, <3>1 DEF RulesThere, Forwarded
  <2>4. CASE port[j] = port[i] /\ rules'[port[j]] = rules[port[j]]
    BY <2>1, <2>2, <2>4 DEF RulesThere, Forwarded
  <2>5. CASE port[j] = port[i] /\ rules'[port[j]] # rules[port[j]]
    <3>1. Owner(i) /\ Untouched(i)'
      BY <2>5 DEF Untouched
    <3>2. i = j
      BY <2>2, <2>5, <3>1 DEF OwnersApart
    <3> QED BY <2>5, <3>1, <3>2 DEF Untouched
  <2> QED BY <2>3, <2>4, <2>5
<1> QED BY <1>4, <1>5, <1>6

LEMMA StepKeeps ==
  ASSUME HostInv, NEW c \in Calls, NEW k, NEW i \in Numbers, Moves(c, k), OnlyOf(i), Accounts(c, k, i),
         ItsPort(c, k, i)
  PROVE  HostInv'
<1>1. HostTypes' /\ GoneAccounted' /\ \A j \in Host!Ids : KindOf(j)'
  BY UnitKept
<1>2. \A d \in Calls : CallWhole(calls[d])' /\ Alone(d)' /\ LeavingAccounted(d)'
  BY UnitKept
<1>3. OwnersApart' /\ OwnedIsTaken' /\ RulesThere'
  BY PortsKept
<1> QED BY <1>1, <1>2, <1>3 DEF HostInv, Host!Ids

LEMMA PlaceFacts ==
  ASSUME HostInv, NEW c \in Calls
  PROVE  /\ calls[c] \in HostCalls /\ CallWhole(calls[c]) /\ Alone(c) /\ LeavingAccounted(c) /\ HostTypes
         /\ \A i \in Host!Ids : KindOf(i)
         /\ HeadlessPorts \cap DesktopPorts = {}
         /\ calls[c].op \in Creations => units[calls[c].id] = "none" /\ BeingMade(calls[c].id)
         /\ \A d \in Calls \ {c} : Alone(d) /\ LeavingAccounted(d)
  BY HostAssumption DEF HostInv, HostTypes, HostAssumption, BeingMade, Alone

LEMMA Placed ==
  ASSUME HostInv, NEW c \in Calls,
         NEW place \in {"rest", "volume", "run", "clear", "recreate", "stop", "wipe", "enter"} \cup OnVM,
         Host!Goes(c, place)
  PROVE  \E k \in HostCalls :
           /\ calls' = [calls EXCEPT ![c] = k] /\ calls'[c] = k /\ \A d \in Calls \ {c} : calls'[d] = calls[d]
           /\ k.at = place /\ k.op = calls[c].op /\ k.id = calls[c].id /\ k.old = calls[c].old
<1>1. HostTypes
  BY DEF HostInv
<1>2. \A d \in Calls \ {c} : calls'[d] = calls[d]
  BY <1>1, GoesTo
<1>3. calls'[c] \in HostCalls /\ calls' = [calls EXCEPT ![c] = calls'[c]]
  BY <1>1, GoesTo DEF HostTypes
<1>4. calls'[c].at = place /\ calls'[c].op = calls[c].op /\ calls'[c].id = calls[c].id /\ calls'[c].old = calls[c].old
  BY <1>1, GoesTo
<1> QED BY <1>2, <1>3, <1>4

LEMMA Ended ==
  ASSUME HostInv, NEW c \in Calls, Host!Ends(c), UNCHANGED <<units, port, used>>
  PROVE  /\ Moves(c, Host!Idle) /\ calls'[c] = Host!Idle /\ \A d \in Calls \ {c} : calls'[d] = calls[d]
         /\ Alone(c)' /\ LeavingAccounted(c)'
<1>1. HostTypes
  BY DEF HostInv
<1>2. calls'[c] = Host!Idle /\ \A d \in Calls \ {c} : calls'[d] = calls[d]
  BY <1>1, EndsWith
<1>3. CallWhole(Host!Idle)
  BY IdleIs DEF CallWhole, Creations
<1>4. Alone(c)' /\ LeavingAccounted(c)'
  BY <1>2, IdleIs DEF Alone, LeavingAccounted, Creations, TakesOut
<1> QED BY <1>2, <1>3, <1>4, IdleIs DEF Moves, Host!Ends

LEMMA EnsureVolumeKeeps ==
  ASSUME HostInv, NEW c \in Calls, Host!EnsureVolume(c)
  PROVE  HostInv'
<1> PICK i : i = calls[c].id
  OBVIOUS
<1> USE DEF Host!EnsureVolume, Host!registry
<1>1. i \in Numbers /\ i \in Host!Ids /\ OfHeadless(i) /\ calls[c].op \in {"create", "demote"} /\ calls[c].at = "volume"
  BY PlaceFacts, NumbersAreIds DEF CallWhole, OfHeadless
<1>2. units[i] = "none" /\ BeingMade(i) /\ i \notin volumes /\ container[i] = "none"
  BY <1>1, PlaceFacts DEF Alone, Creations
<1>3. domain[i] = "none" /\ i \notin disks /\ port[i] \in HeadlessPorts /\ port[i] \notin DesktopPorts
  BY <1>1, PlaceFacts DEF KindOf, OfHeadless
<1>4. \A d \in Calls \ {c} : calls[d].id # i /\ calls[d].old # i
  BY <1>1, PlaceFacts DEF Alone, Creations
<1>5. CASE Host!Goes(c, "run") /\ volumes' = volumes \cup {i} /\ UNCHANGED <<units, port, taken, used>>
  <2>1. PICK k \in HostCalls :
          /\ calls' = [calls EXCEPT ![c] = k] /\ calls'[c] = k /\ \A d \in Calls \ {c} : calls'[d] = calls[d]
          /\ k.at = "run" /\ k.op = calls[c].op /\ k.id = calls[c].id /\ k.old = calls[c].old
    BY <1>5, Placed
  <2>2. Moves(c, k)
    BY <1>1, <1>5, <2>1, PlaceFacts DEF Moves, CallWhole, Creations
  <2>3. OnlyOf(i)
    BY <1>1, <1>3, <1>5, PlaceFacts DEF OnlyOf, HostTypes
  <2>4. Accounts(c, k, i)
    BY <1>1, <1>2, <1>4, <1>5, <2>1, PlaceFacts DEF Accounts, Alone, LeavingAccounted, BeingMade, Creations, TakesOut
  <2>5. ItsPort(c, k, i)
    BY <1>1, <1>3, <1>5, <2>1 DEF ItsPort, Opened
  <2> QED BY <1>1, <2>2, <2>3, <2>4, <2>5, StepKeeps
<1>6. CASE Host!CreationFails(c) /\ UNCHANGED volumes
  <2>1. /\ Moves(c, Host!Idle) /\ calls'[c] = Host!Idle /\ \A d \in Calls \ {c} : calls'[d] = calls[d]
        /\ Alone(c)' /\ LeavingAccounted(c)'
    BY <1>6, Ended DEF Host!CreationFails
  <2>2. OnlyOf(i)
    BY <1>1, <1>3, <1>6, PlaceFacts DEF OnlyOf, HostTypes, Host!CreationFails
  <2>3. Accounts(c, Host!Idle, i)
    <3>1. Accounted(i)'
      BY <1>2, <1>3, <1>6 DEF Accounted
    <3> QED BY <1>4, <2>1, <3>1 DEF Accounts
  <2>4. ItsPort(c, Host!Idle, i)
    BY <1>1, <1>3, <1>6, <2>1, IdleIs DEF ItsPort, Host!CreationFails, Creations
  <2> QED BY <1>1, <2>1, <2>2, <2>3, <2>4, StepKeeps
<1> QED BY <1>5, <1>6

\* Of a creation: its unit is nobody else's.
LEMMA MadeAlone ==
  ASSUME HostInv, NEW c \in Calls, NEW i, i = calls[c].id, calls[c].op \in Creations
  PROVE  /\ i \in Numbers /\ i \in Host!Ids /\ units[i] = "none" /\ BeingMade(i) /\ Owner(i)
         /\ \A d \in Calls \ {c} : calls[d].id # i /\ calls[d].old # i
         /\ calls[c].old # i
<1>1. i \in Numbers /\ calls[c].old # i
  BY PlaceFacts DEF CallWhole
<1>2. units[i] = "none" /\ BeingMade(i) /\ \A d \in Calls \ {c} : calls[d].id # i /\ calls[d].old # i
  BY PlaceFacts DEF Alone
<1> QED BY <1>1, <1>2, NumbersAreIds DEF Owner, HostInv

LEMMA MadeFails ==
  ASSUME HostInv, NEW c \in Calls, NEW i, i = calls[c].id, calls[c].op \in Creations, Host!CreationFails(c),
         i \in Numbers
  PROVE  /\ Moves(c, Host!Idle) /\ calls'[c] = Host!Idle /\ \A d \in Calls \ {c} : calls'[d] = calls[d]
         /\ Alone(c)' /\ LeavingAccounted(c)' /\ UNCHANGED <<units, port, used>> /\ taken' \in SUBSET taken
         /\ ~Needs(i)'
         /\ Accounted(i)' => Accounts(c, Host!Idle, i)
         /\ \A p \in taken \ taken' : p = port[calls[c].id]
<1>1. UNCHANGED <<units, port, used>> /\ taken' = taken \ {port[i]} /\ Host!Ends(c)
  BY DEF Host!CreationFails
<1>2. /\ Moves(c, Host!Idle) /\ calls'[c] = Host!Idle /\ \A d \in Calls \ {c} : calls'[d] = calls[d]
      /\ Alone(c)' /\ LeavingAccounted(c)'
  BY <1>1, Ended
<1>3. units[i] = "none" /\ \A d \in Calls \ {c} : calls[d].id # i /\ calls[d].old # i
  BY MadeAlone
<1>4. ~Needs(i)'
  BY <1>1, <1>2, <1>3, IdleIs DEF Needs, Creations
<1>5. Accounted(i)' => Accounts(c, Host!Idle, i)
  BY <1>2, <1>3 DEF Accounts
<1> QED BY <1>1, <1>2, <1>4, <1>5

LEMMA CreateContainerKeeps ==
  ASSUME HostInv, NEW c \in Calls, Host!CreateContainer(c)
  PROVE  HostInv'
<1> PICK i : i = calls[c].id
  OBVIOUS
<1> USE DEF Host!CreateContainer, Host!registry
<1>1. i \in Numbers /\ i \in Host!Ids /\ OfHeadless(i) /\ calls[c].op \in {"create", "demote"} /\ calls[c].at = "run"
  BY PlaceFacts, NumbersAreIds DEF CallWhole, OfHeadless
<1>2. calls[c].op \in Creations /\ units[i] = "none" /\ container[i] = "none"
  BY <1>1, PlaceFacts DEF Alone, Creations
<1>3. domain[i] = "none" /\ i \notin disks /\ port[i] \in HeadlessPorts /\ port[i] \notin DesktopPorts
  BY <1>1, PlaceFacts DEF KindOf, OfHeadless
<1>4. \A d \in Calls \ {c} : calls[d].id # i /\ calls[d].old # i
  BY <1>2, MadeAlone
<1>5. CASE Host!Run(i, TRUE) /\ Host!Goes(c, IF calls[c].op = "demote" THEN "undefine" ELSE "enter")
           /\ UNCHANGED <<units, port, taken, used, orphans>>
  <2>1. PICK k \in HostCalls :
          /\ calls' = [calls EXCEPT ![c] = k] /\ calls'[c] = k /\ \A d \in Calls \ {c} : calls'[d] = calls[d]
          /\ k.at = (IF calls[c].op = "demote" THEN "undefine" ELSE "enter")
          /\ k.op = calls[c].op /\ k.id = calls[c].id /\ k.old = calls[c].old
    BY <1>5, Placed DEF OnVM
  <2>2. Moves(c, k)
    BY <1>1, <1>5, <2>1, PlaceFacts DEF Moves, CallWhole, Creations
  <2>3. OnlyOf(i)
    BY <1>1, <1>3, <1>5, PlaceFacts DEF OnlyOf, HostTypes, Host!Run
  <2>4. BeingMade(i)' /\ Alone(c)'
    BY <1>1, <1>2, <1>4, <1>5, <2>1 DEF Alone, BeingMade
  <2>5. LeavingAccounted(c)'
    BY <1>1, <2>1 DEF LeavingAccounted, TakesOut
  <2>6. Accounts(c, k, i)
    BY <1>4, <2>4, <2>5 DEF Accounts
  <2>7. ItsPort(c, k, i)
    BY <1>1, <1>3, <1>5, <2>1 DEF ItsPort, Opened, Untouched
  <2> QED BY <1>1, <2>2, <2>3, <2>6, <2>7, StepKeeps
<1>6. CASE /\ Host!Run(i, FALSE) \/ UNCHANGED <<container, volumes>>
           /\ Host!Leaves({i} \X {"container", "volume"}) /\ Host!CreationFails(c)
  <2>1. Moves(c, Host!Idle) /\ Accounted(i)' => Accounts(c, Host!Idle, i)
    BY <1>1, <1>2, <1>6, MadeFails
  <2>2. Moves(c, Host!Idle) /\ taken' \in SUBSET taken /\ \A p \in taken \ taken' : p = port[calls[c].id]
    BY <1>1, <1>2, <1>6, MadeFails
  <2>3. OnlyOf(i)
    <3>1. /\ orphans' \in SUBSET (Host!Ids \X {"container", "volume", "vm"}) /\ orphans \in SUBSET orphans'
      BY <1>1, <1>6, PlaceFacts DEF HostTypes, Host!Leaves
    <3>2. /\ container' \in [Host!Ids -> {"none", "made", "runs"}] /\ volumes' \in SUBSET Host!Ids
          /\ \A j \in Host!Ids \ {i} : container'[j] = container[j] /\ (j \in volumes' <=> j \in volumes)
      BY <1>1, <1>6, PlaceFacts DEF HostTypes, Host!Run
    <3> QED BY <1>1, <1>3, <2>2, <3>1, <3>2, PlaceFacts DEF OnlyOf, HostTypes
  <2>4. Accounted(i)'
    BY <1>3, <1>6, <2>3 DEF Accounted, Host!Leaves, Host!Run
  <2>5. ItsPort(c, Host!Idle, i)
    BY <1>1, <1>2, <1>3, <1>6, <2>2, IdleIs DEF ItsPort, Creations
  <2> QED BY <1>1, <2>1, <2>2, <2>3, <2>4, <2>5, StepKeeps
<1> QED BY <1>5, <1>6

\* Of an operation that takes out, resets or restarts a unit.
LEMMA OldOnes ==
  ASSUME HostInv, NEW c \in Calls, NEW i, i = calls[c].old,
         calls[c].at \in {"clear", "recreate", "stop", "wipe", "undefine", "clean", "shutdown", "startVM"}
  PROVE  /\ i \in Numbers /\ i \in Host!Ids
         /\ \A d \in Calls : calls[d].op \in Creations => calls[d].id # i
         /\ ~BeingMade(i)
         /\ calls[c].op \in {"promote", "demote", "destroy", "reset", "reboot"}
         /\ calls[c].at \in {"clear", "recreate", "stop", "wipe"} =>
              /\ port[i] \in HeadlessPorts \ DesktopPorts /\ units[i] # "desktop"
              /\ domain[i] = "none" /\ i \notin disks
         /\ calls[c].at \in {"undefine", "clean", "shutdown", "startVM"} =>
              /\ port[i] \in DesktopPorts \ HeadlessPorts /\ units[i] # "headless"
              /\ container[i] = "none" /\ i \notin volumes
<1>1. CallWhole(calls[c]) /\ calls[c] \in HostCalls
  BY PlaceFacts
<1>2. calls[c].op \in {"promote", "demote", "destroy", "reset", "reboot"}
  BY <1>1 DEF CallWhole, HostCalls, Creations
<1>3. /\ i \in Numbers /\ i \in Host!Ids
      /\ calls[c].at \in {"clear", "recreate", "stop", "wipe"} => OfHeadless(i)
      /\ calls[c].at \in {"undefine", "clean", "shutdown", "startVM"} => OfDesktop(i)
  BY <1>1, <1>2, PlaceFacts, NumbersAreIds DEF CallWhole, OfHeadless, OfDesktop, Creations
<1>4. KindOf(i) /\ HeadlessPorts \cap DesktopPorts = {}
  BY <1>3, PlaceFacts
<1>5. \A d \in Calls : calls[d].op \in Creations => calls[d].id # i
  <2> SUFFICES ASSUME NEW d \in Calls, calls[d].op \in Creations PROVE calls[d].id # i
    OBVIOUS
  <2>1. CASE d = c
    BY <1>1, <2>1 DEF CallWhole
  <2>2. CASE d # c
    BY <2>2, PlaceFacts DEF Alone
  <2> QED BY <2>1, <2>2
<1>6. ~BeingMade(i)
  BY <1>5 DEF BeingMade
<1> QED BY <1>2, <1>3, <1>4, <1>5, <1>6 DEF KindOf, OfHeadless, OfDesktop

\* Of the unit nothing comes to be that is not known to be left.
NothingMade(i) ==
  /\ container'[i] # "none" => container[i] # "none" \/ <<i, "container">> \in orphans'
  /\ i \in volumes' => i \in volumes \/ <<i, "volume">> \in orphans'
  /\ domain'[i] # "none" => domain[i] # "none" \/ <<i, "vm">> \in orphans'
  /\ i \in disks' => i \in disks \/ <<i, "vm">> \in orphans'

LEMMA OldKeeps ==
  ASSUME HostInv, NEW c \in Calls, NEW k, NEW i, i = calls[c].old,
         calls[c].at \in {"clear", "recreate", "stop", "wipe", "undefine", "clean", "shutdown", "startVM"},
         Moves(c, k), OnlyOf(i), NothingMade(i), LeavingAccounted(c)',
         k = Host!Idle => calls[c].op \notin Creations,
         k.at \notin {"volume", "run", "disk", "forward", "launch"}
  PROVE  Accounts(c, k, i)
<1>1. /\ i \in Host!Ids /\ ~BeingMade(i) /\ \A d \in Calls : calls[d].op \in Creations => calls[d].id # i
  BY OldOnes
<1>2. calls'[c] = k /\ \A d \in Calls \ {c} : calls'[d] = calls[d]
  BY PlaceFacts DEF Moves, HostTypes
<1>3. Accounted(i) => Accounted(i)'
  BY DEF Accounted, NothingMade, OnlyOf
<1>4. units[i] = "none" => Accounted(i)'
  BY <1>1, <1>3 DEF HostInv, GoneAccounted
<1>5. Alone(c)'
  <2>1. k = Host!Idle \/ (k.op = calls[c].op /\ k.id = calls[c].id)
    BY DEF Moves
  <2> QED BY <1>2, <2>1, IdleIs, PlaceFacts DEF Alone, Moves, Creations
<1>6. ASSUME NEW d \in Calls \ {c}, calls[d].op \in TakesOut, calls[d].old = i PROVE LeavingAccounted(d)'
  <2>1. LeavingAccounted(d) /\ orphans \in SUBSET orphans' /\ calls'[d] = calls[d]
    BY <1>2, PlaceFacts DEF OnlyOf
  <2>2. /\ calls[d].at = "wipe" /\ container'[i] # "none" => <<i, "container">> \in orphans'
        /\ calls[d].at = "clean" /\ domain'[i] # "none" => <<i, "vm">> \in orphans'
        /\ calls[d].at = "enter" => Accounted(i)'
    BY <1>3, <1>6, <2>1 DEF LeavingAccounted, NothingMade
  <2> QED BY <1>6, <2>1, <2>2 DEF LeavingAccounted
<1> QED BY <1>1, <1>4, <1>5, <1>6 DEF Accounts

LEMMA ClearContainerKeeps ==
  ASSUME HostInv, NEW c \in Calls, Host!ClearContainer(c)
  PROVE  HostInv'
<1> PICK i : i = calls[c].old
  OBVIOUS
<1> USE DEF Host!ClearContainer, Host!registry
<1>1. /\ calls[c].at = "clear" /\ calls[c].op = "reset" /\ calls[c].id = i
      /\ UNCHANGED <<units, port, taken, used, volumes, disks, domain, rules, orphans, cut>>
  BY PlaceFacts DEF CallWhole
<1>2. i \in Numbers /\ i \in Host!Ids /\ port[i] \in HeadlessPorts \ DesktopPorts /\ domain[i] = "none" /\ i \notin disks
  BY <1>1, OldOnes
<1>3. CASE Host!Goes(c, "recreate") /\ container' = [container EXCEPT ![i] = "none"]
  <2>1. PICK k \in HostCalls :
          /\ calls' = [calls EXCEPT ![c] = k] /\ calls'[c] = k /\ \A d \in Calls \ {c} : calls'[d] = calls[d]
          /\ k.at = "recreate" /\ k.op = calls[c].op /\ k.id = calls[c].id /\ k.old = calls[c].old
    BY <1>3, Placed
  <2>2. Moves(c, k)
    BY <1>1, <1>3, <2>1, PlaceFacts DEF Moves, CallWhole, Creations
  <2>3. OnlyOf(i)
    BY <1>1, <1>2, <1>3, PlaceFacts DEF OnlyOf, HostTypes
  <2>4. NothingMade(i)
    BY <1>1, <1>2, <1>3, PlaceFacts DEF NothingMade, HostTypes
  <2>5. Accounts(c, k, i)
    BY <1>1, <2>1, <2>2, <2>3, <2>4, OldKeeps, IdleIs DEF LeavingAccounted, TakesOut
  <2>6. ItsPort(c, k, i)
    BY <1>1, <1>2, <2>1 DEF ItsPort, Creations
  <2> QED BY <1>2, <2>2, <2>3, <2>5, <2>6, StepKeeps
<1>4. CASE Host!Ends(c) /\ UNCHANGED container
  <2>1. Moves(c, Host!Idle) /\ LeavingAccounted(c)'
    BY <1>1, <1>4, Ended
  <2>2. OnlyOf(i)
    BY <1>1, <1>2, <1>4, PlaceFacts DEF OnlyOf, HostTypes
  <2>3. NothingMade(i)
    BY <1>1, <1>4 DEF NothingMade
  <2>4. Accounts(c, Host!Idle, i)
    BY <1>1, <2>1, <2>2, <2>3, OldKeeps, IdleIs DEF Creations
  <2>5. ItsPort(c, Host!Idle, i)
    BY <1>1, <1>2, IdleIs DEF ItsPort, Creations
  <2> QED BY <1>2, <2>1, <2>2, <2>4, <2>5, StepKeeps
<1> QED BY <1>1, <1>3, <1>4

LEMMA RecreateContainerKeeps ==
  ASSUME HostInv, NEW c \in Calls, Host!RecreateContainer(c)
  PROVE  HostInv'
<1> PICK i : i = calls[c].old
  OBVIOUS
<1> USE DEF Host!RecreateContainer, Host!registry
<1>1. /\ calls[c].at = "recreate" /\ calls[c].op = "reset" /\ calls[c].id = i
  BY PlaceFacts DEF CallWhole
<1>2. i \in Numbers /\ i \in Host!Ids /\ port[i] \in HeadlessPorts \ DesktopPorts /\ domain[i] = "none" /\ i \notin disks
  BY <1>1, OldOnes
<1>3. /\ Host!Ends(c) /\ UNCHANGED <<units, port, taken, used, disks, domain, rules, cut>>
      /\ orphans' = orphans \cup (IF Host!Leaving(i) THEN {i} \X {"container", "volume"} ELSE {})
      /\ Host!Run(i, TRUE) \/ Host!Run(i, FALSE) \/ UNCHANGED <<container, volumes>>
  BY <1>1 DEF Host!Leaves
<1>4. /\ Moves(c, Host!Idle) /\ calls'[c] = Host!Idle /\ \A d \in Calls \ {c} : calls'[d] = calls[d]
      /\ Alone(c)' /\ LeavingAccounted(c)'
  BY <1>3, Ended
<1>5. OnlyOf(i)
  <2>1. orphans' \in SUBSET (Host!Ids \X {"container", "volume", "vm"}) /\ orphans \in SUBSET orphans'
    BY <1>2, <1>3, PlaceFacts DEF HostTypes
  <2>2. /\ container' \in [Host!Ids -> {"none", "made", "runs"}] /\ volumes' \in SUBSET Host!Ids
        /\ \A j \in Host!Ids \ {i} : container'[j] = container[j] /\ (j \in volumes' <=> j \in volumes)
    BY <1>2, <1>3, PlaceFacts DEF HostTypes, Host!Run
  <2> QED BY <1>2, <1>3, <2>1, <2>2, PlaceFacts DEF OnlyOf, HostTypes
<1>6. ItsPort(c, Host!Idle, i)
  BY <1>1, <1>2, <1>3, IdleIs DEF ItsPort, Creations
<1>7. CASE Host!Leaving(i)
  <2>1. NothingMade(i)
    BY <1>2, <1>3, <1>7 DEF NothingMade
  <2>2. Accounts(c, Host!Idle, i)
    BY <1>1, <1>4, <1>5, <2>1, OldKeeps, IdleIs DEF Creations
  <2> QED BY <1>2, <1>4, <1>5, <1>6, <2>2, StepKeeps
<1>8. CASE ~Host!Leaving(i)
  <2>1. units[i] # "none" /\ \A d \in Calls : calls[d].op \in TakesOut => calls[d].old # i
    BY <1>8 DEF Host!Leaving, TakesOut
  <2>2. \A d \in Calls : calls[d].op \in Creations => calls[d].id # i
    BY <1>1, OldOnes
  <2>3. Accounts(c, Host!Idle, i)
    BY <1>1, <1>4, <2>1, <2>2 DEF Accounts
  <2> QED BY <1>2, <1>4, <1>5, <1>6, <2>3, StepKeeps
<1> QED BY <1>7, <1>8

LEMMA DestroyContainerKeeps ==
  ASSUME HostInv, NEW c \in Calls, Host!DestroyContainer(c)
  PROVE  HostInv'
<1> PICK i : i = calls[c].old
  OBVIOUS
<1> USE DEF Host!DestroyContainer, Host!registry
<1>1. calls[c].at = "stop" /\ calls[c].op \in {"promote", "destroy"}
  BY PlaceFacts DEF CallWhole
<1>2. i \in Numbers /\ i \in Host!Ids /\ port[i] \in HeadlessPorts \ DesktopPorts /\ domain[i] = "none" /\ i \notin disks
  BY <1>1, OldOnes
<1>3. /\ UNCHANGED <<units, port, taken, used, volumes, disks, domain, rules, cut>>
      /\ \E place \in {"wipe", "enter"} : Host!Goes(c, place)
      /\ \/ /\ container' = [container EXCEPT ![i] = "none"] /\ UNCHANGED orphans /\ Host!Goes(c, "wipe")
         \/ UNCHANGED container /\ orphans' = orphans \cup ({i} \X {"container", "volume"})
  BY DEF Host!Leaves
<1>4. PICK place \in {"wipe", "enter"} : Host!Goes(c, place)
  BY <1>3
<1>5. PICK k \in HostCalls :
        /\ calls' = [calls EXCEPT ![c] = k] /\ calls'[c] = k /\ \A d \in Calls \ {c} : calls'[d] = calls[d]
        /\ k.at = place /\ k.op = calls[c].op /\ k.id = calls[c].id /\ k.old = calls[c].old
  BY <1>4, Placed
<1>6. Moves(c, k)
  BY <1>1, <1>3, <1>5, PlaceFacts DEF Moves, CallWhole, Creations
<1>7. OnlyOf(i)
  BY <1>2, <1>3, PlaceFacts DEF OnlyOf, HostTypes
<1>8. NothingMade(i)
  BY <1>2, <1>3, PlaceFacts DEF NothingMade, HostTypes
<1>9. LeavingAccounted(c)'
  <2>1. k.at = "enter" => UNCHANGED container /\ orphans' = orphans \cup ({i} \X {"container", "volume"})
    <3>1. Host!Goes(c, "wipe") => k.at = "wipe"
      BY <1>5, PlaceFacts, GoesTo
    <3> QED BY <1>3, <3>1
  <2>2. k.at = "enter" => Accounted(i)'
    BY <1>2, <1>3, <2>1 DEF Accounted
  <2>3. container'[i] # "none" => <<i, "container">> \in orphans'
    BY <1>2, <1>3, PlaceFacts DEF HostTypes
  <2> QED BY <1>5, <2>2, <2>3 DEF LeavingAccounted
<1>10. Accounts(c, k, i)
  BY <1>1, <1>5, <1>6, <1>7, <1>8, <1>9, OldKeeps, IdleIs
<1>11. ItsPort(c, k, i)
  BY <1>1, <1>2, <1>3, <1>5 DEF ItsPort, Opened
<1> QED BY <1>2, <1>6, <1>7, <1>10, <1>11, StepKeeps

LEMMA RemoveVolumeKeeps ==
  ASSUME HostInv, NEW c \in Calls, Host!RemoveVolume(c)
  PROVE  HostInv'
<1> PICK i : i = calls[c].old
  OBVIOUS
<1> USE DEF Host!RemoveVolume, Host!registry
<1>1. calls[c].at = "wipe" /\ calls[c].op \in {"promote", "destroy"}
  BY PlaceFacts DEF CallWhole
<1>2. i \in Numbers /\ i \in Host!Ids /\ port[i] \in HeadlessPorts \ DesktopPorts /\ domain[i] = "none" /\ i \notin disks
  BY <1>1, OldOnes
<1>3. /\ UNCHANGED <<units, port, taken, used, container, disks, domain, rules, cut>> /\ Host!Goes(c, "enter")
      /\ \/ volumes' = volumes \ {i} /\ UNCHANGED orphans
         \/ UNCHANGED volumes /\ orphans' = orphans \cup {<<i, "volume">>}
  BY DEF Host!Leaves
<1>5. PICK k \in HostCalls :
        /\ calls' = [calls EXCEPT ![c] = k] /\ calls'[c] = k /\ \A d \in Calls \ {c} : calls'[d] = calls[d]
        /\ k.at = "enter" /\ k.op = calls[c].op /\ k.id = calls[c].id /\ k.old = calls[c].old
  BY <1>3, Placed
<1>6. Moves(c, k)
  BY <1>1, <1>3, <1>5, PlaceFacts DEF Moves, CallWhole, Creations
<1>7. OnlyOf(i)
  BY <1>2, <1>3, PlaceFacts DEF OnlyOf, HostTypes
<1>8. NothingMade(i)
  BY <1>2, <1>3, PlaceFacts DEF NothingMade, HostTypes
<1>9. LeavingAccounted(c)'
  <2>1. LeavingAccounted(c)
    BY PlaceFacts
  <2>2. container'[i] # "none" => <<i, "container">> \in orphans'
    BY <1>1, <1>3, <2>1 DEF LeavingAccounted, TakesOut
  <2>3. Accounted(i)'
    BY <1>2, <1>3, <2>2 DEF Accounted
  <2> QED BY <1>5, <2>3 DEF LeavingAccounted
<1>10. Accounts(c, k, i)
  BY <1>1, <1>5, <1>6, <1>7, <1>8, <1>9, OldKeeps, IdleIs
<1>11. ItsPort(c, k, i)
  BY <1>1, <1>2, <1>3, <1>5 DEF ItsPort, Opened
<1> QED BY <1>2, <1>6, <1>7, <1>10, <1>11, StepKeeps

LEMMA UndefineVMKeeps ==
  ASSUME HostInv, NEW c \in Calls, Host!UndefineVM(c)
  PROVE  HostInv'
<1> PICK i : i = calls[c].old
  OBVIOUS
<1> USE DEF Host!UndefineVM, Host!registry
<1>1. calls[c].at = "undefine" /\ calls[c].op \in {"demote", "destroy"}
  BY PlaceFacts DEF CallWhole
<1>2. i \in Numbers /\ i \in Host!Ids /\ port[i] \in DesktopPorts \ HeadlessPorts /\ container[i] = "none" /\ i \notin volumes
  BY <1>1, OldOnes
<1>3. /\ UNCHANGED <<units, port, taken, used, container, volumes, disks, rules, cut>>
      /\ \/ domain' = [domain EXCEPT ![i] = "none"] /\ UNCHANGED orphans /\ Host!Goes(c, "clean")
         \/ /\ UNCHANGED domain /\ orphans' = orphans \cup {<<i, "vm">>}
            /\ Host!Goes(c, "clean") \/ Host!Goes(c, "enter")
  BY DEF Host!Leaves
<1>4. PICK place \in {"clean", "enter"} : Host!Goes(c, place)
  BY <1>3
<1>5. PICK k \in HostCalls :
        /\ calls' = [calls EXCEPT ![c] = k] /\ calls'[c] = k /\ \A d \in Calls \ {c} : calls'[d] = calls[d]
        /\ k.at = place /\ k.op = calls[c].op /\ k.id = calls[c].id /\ k.old = calls[c].old
  BY <1>4, Placed DEF OnVM
<1>6. Moves(c, k)
  BY <1>1, <1>3, <1>5, PlaceFacts DEF Moves, CallWhole, Creations
<1>7. OnlyOf(i)
  BY <1>2, <1>3, PlaceFacts DEF OnlyOf, HostTypes
<1>8. NothingMade(i)
  BY <1>2, <1>3, PlaceFacts DEF NothingMade, HostTypes
<1>9. LeavingAccounted(c)'
  <2>1. k.at = "enter" => orphans' = orphans \cup {<<i, "vm">>}
    <3>1. Host!Goes(c, "clean") => k.at = "clean"
      BY <1>5, PlaceFacts, GoesTo DEF OnVM
    <3> QED BY <1>3, <3>1
  <2>2. k.at = "enter" => Accounted(i)'
    BY <1>2, <1>3, <2>1 DEF Accounted
  <2>3. domain'[i] # "none" => <<i, "vm">> \in orphans'
    BY <1>2, <1>3, PlaceFacts DEF HostTypes
  <2> QED BY <1>5, <2>2, <2>3 DEF LeavingAccounted
<1>10. Accounts(c, k, i)
  BY <1>1, <1>5, <1>6, <1>7, <1>8, <1>9, OldKeeps, IdleIs
<1>11. ItsPort(c, k, i)
  <2>1. k.op \in Creations /\ Untouched(k.id)' => FALSE
    BY <1>1, <1>3, <1>5, PlaceFacts DEF CallWhole, Untouched, OfHeadless, Creations
  <2> QED BY <1>1, <1>2, <1>3, <2>1 DEF ItsPort
<1> QED BY <1>2, <1>6, <1>7, <1>10, <1>11, StepKeeps

LEMMA RemovedTypes ==
  ASSUME HostTypes, NEW p \in DesktopPorts
  PROVE  /\ Host!Removed(p) \in [DesktopPorts -> [Host!Chains -> Nat]]
         /\ \A q \in DesktopPorts : q # p => Host!Removed(p)[q] = rules[q]
  BY DEF HostTypes, Host!Removed

LEMMA CleanVMKeeps ==
  ASSUME HostInv, NEW c \in Calls, Host!CleanVM(c)
  PROVE  HostInv'
<1> PICK i : i = calls[c].old
  OBVIOUS
<1> USE DEF Host!CleanVM, Host!registry
<1>1. calls[c].at = "clean" /\ calls[c].op \in {"demote", "destroy"}
  BY PlaceFacts DEF CallWhole
<1>2. i \in Numbers /\ i \in Host!Ids /\ port[i] \in DesktopPorts \ HeadlessPorts /\ container[i] = "none" /\ i \notin volumes
  BY <1>1, OldOnes
<1>3. /\ UNCHANGED <<units, port, taken, used, container, volumes, domain, orphans>>
      /\ Host!Goes(c, "enter") /\ disks' = disks \ {i} /\ rules' = Host!Removed(port[i])
      /\ cut' = IF units[i] = "none" THEN cut \cup {port[i]} ELSE cut
  OBVIOUS
<1>5. PICK k \in HostCalls :
        /\ calls' = [calls EXCEPT ![c] = k] /\ calls'[c] = k /\ \A d \in Calls \ {c} : calls'[d] = calls[d]
        /\ k.at = "enter" /\ k.op = calls[c].op /\ k.id = calls[c].id /\ k.old = calls[c].old
  BY <1>3, Placed
<1>6. Moves(c, k)
  BY <1>1, <1>3, <1>5, PlaceFacts DEF Moves, CallWhole, Creations
<1>7. OnlyOf(i)
  <2>1. rules' \in [DesktopPorts -> [Host!Chains -> Nat]] /\ cut' \in SUBSET DesktopPorts
    BY <1>2, <1>3, RemovedTypes, PlaceFacts DEF HostTypes
  <2> QED BY <1>2, <1>3, <2>1, PlaceFacts DEF OnlyOf, HostTypes
<1>8. NothingMade(i)
  BY <1>2, <1>3, PlaceFacts DEF NothingMade, HostTypes
<1>9. LeavingAccounted(c)'
  <2>1. domain[i] # "none" => <<i, "vm">> \in orphans
    BY <1>1, PlaceFacts DEF LeavingAccounted, TakesOut
  <2>2. Accounted(i)'
    BY <1>2, <1>3, <2>1 DEF Accounted
  <2> QED BY <1>5, <2>2 DEF LeavingAccounted
<1>10. Accounts(c, k, i)
  BY <1>1, <1>5, <1>6, <1>7, <1>8, <1>9, OldKeeps, IdleIs
<1>11. ItsPort(c, k, i)
  <2>1. k.op \in Creations /\ Untouched(k.id)' => FALSE
    BY <1>1, <1>3, <1>5, PlaceFacts DEF CallWhole, Untouched, OfHeadless, Creations
  <2>2. \A p \in DesktopPorts : p # port[i] => rules'[p] = rules[p]
    BY <1>2, <1>3, RemovedTypes, PlaceFacts
  <2>3. Owner(i) \/ ~Untouched(i)'
    BY <1>2, <1>3 DEF Owner, Untouched
  <2>4. ~Needs(i)'
    <3>1. \A d \in Calls : calls[d].op \in Creations => calls[d].id # i
      BY <1>1, OldOnes
    <3> QED BY <1>5, <3>1 DEF Needs
  <2> QED BY <1>1, <1>2, <1>3, <2>1, <2>2, <2>3, <2>4 DEF ItsPort
<1> QED BY <1>2, <1>6, <1>7, <1>10, <1>11, StepKeeps

LEMMA StopVMKeeps ==
  ASSUME HostInv, NEW c \in Calls, Host!StopVM(c)
  PROVE  HostInv'
<1> PICK i : i = calls[c].old
  OBVIOUS
<1> USE DEF Host!StopVM, Host!registry
<1>1. calls[c].at = "shutdown" /\ calls[c].op = "reboot" /\ calls[c].id = i
  BY PlaceFacts DEF CallWhole
<1>2. i \in Numbers /\ i \in Host!Ids /\ port[i] \in DesktopPorts \ HeadlessPorts /\ container[i] = "none" /\ i \notin volumes
  BY <1>1, OldOnes
<1>3. /\ UNCHANGED <<units, port, taken, used, container, volumes, disks, rules, orphans, cut>> /\ Host!Goes(c, "startVM")
      /\ domain' = [domain EXCEPT ![i] = IF @ = "runs" THEN "stopping" ELSE @]
  BY <1>1
<1>5. PICK k \in HostCalls :
        /\ calls' = [calls EXCEPT ![c] = k] /\ calls'[c] = k /\ \A d \in Calls \ {c} : calls'[d] = calls[d]
        /\ k.at = "startVM" /\ k.op = calls[c].op /\ k.id = calls[c].id /\ k.old = calls[c].old
  BY <1>3, Placed DEF OnVM
<1>6. Moves(c, k)
  BY <1>1, <1>3, <1>5, PlaceFacts DEF Moves, CallWhole, Creations
<1>7. OnlyOf(i)
  BY <1>2, <1>3, PlaceFacts DEF OnlyOf, HostTypes
<1>8. NothingMade(i)
  BY <1>2, <1>3, PlaceFacts DEF NothingMade, HostTypes
<1>9. LeavingAccounted(c)'
  BY <1>1, <1>5 DEF LeavingAccounted, TakesOut
<1>10. Accounts(c, k, i)
  BY <1>1, <1>5, <1>6, <1>7, <1>8, <1>9, OldKeeps, IdleIs
<1>11. ItsPort(c, k, i)
  BY <1>1, <1>2, <1>3, <1>5 DEF ItsPort, Creations
<1> QED BY <1>2, <1>6, <1>7, <1>10, <1>11, StepKeeps

LEMMA StartVMKeeps ==
  ASSUME HostInv, NEW c \in Calls, Host!StartVM(c)
  PROVE  HostInv'
<1> PICK i : i = calls[c].old
  OBVIOUS
<1> USE DEF Host!StartVM, Host!registry
<1>1. calls[c].at = "startVM" /\ calls[c].op = "reboot" /\ calls[c].id = i
  BY PlaceFacts DEF CallWhole
<1>2. i \in Numbers /\ i \in Host!Ids /\ port[i] \in DesktopPorts \ HeadlessPorts /\ container[i] = "none" /\ i \notin volumes
  BY <1>1, OldOnes
<1>3. /\ UNCHANGED <<units, port, taken, used, container, volumes, disks, rules, orphans, cut>> /\ Host!Ends(c)
      /\ domain' = [domain EXCEPT ![i] = IF @ = "off" THEN "runs" ELSE @]
  BY <1>1
<1>4. Moves(c, Host!Idle) /\ LeavingAccounted(c)'
  BY <1>3, Ended
<1>7. OnlyOf(i)
  BY <1>2, <1>3, PlaceFacts DEF OnlyOf, HostTypes
<1>8. NothingMade(i)
  BY <1>2, <1>3, PlaceFacts DEF NothingMade, HostTypes
<1>10. Accounts(c, Host!Idle, i)
  BY <1>1, <1>4, <1>7, <1>8, OldKeeps, IdleIs DEF Creations
<1>11. ItsPort(c, Host!Idle, i)
  BY <1>1, <1>2, <1>3, IdleIs DEF ItsPort, Creations
<1> QED BY <1>2, <1>4, <1>7, <1>10, <1>11, StepKeeps

\* Of a VM that is being made.
LEMMA MadeVM ==
  ASSUME HostInv, NEW c \in Calls, NEW i, i = calls[c].id, calls[c].at \in {"disk", "forward", "launch"}
  PROVE  /\ calls[c].op \in {"create", "promote"} /\ calls[c].op \in Creations
         /\ i \in Numbers /\ i \in Host!Ids /\ port[i] \in DesktopPorts \ HeadlessPorts /\ port[i] \in DesktopPorts
         /\ units[i] = "none" /\ Owner(i) /\ BeingMade(i)
         /\ container[i] = "none" /\ i \notin volumes /\ domain[i] = "none"
         /\ calls[c].at = "disk" => i \notin disks
         /\ \A d \in Calls \ {c} : calls[d].id # i /\ calls[d].old # i
<1>1. calls[c].op \in {"create", "promote"} /\ calls[c].op \in Creations /\ OfDesktop(i)
  BY PlaceFacts DEF CallWhole, Creations
<1>2. /\ i \in Numbers /\ i \in Host!Ids /\ units[i] = "none" /\ BeingMade(i) /\ Owner(i)
      /\ \A d \in Calls \ {c} : calls[d].id # i /\ calls[d].old # i
  BY <1>1, MadeAlone
<1>3. KindOf(i) /\ HeadlessPorts \cap DesktopPorts = {}
  BY <1>2, PlaceFacts
<1>4. domain[i] = "none" /\ (calls[c].at = "disk" => i \notin disks)
  BY <1>1, PlaceFacts DEF Alone
<1> QED BY <1>1, <1>2, <1>3, <1>4 DEF KindOf, OfDesktop

LEMMA AddedTypes ==
  ASSUME HostTypes, NEW p \in DesktopPorts, NEW chains
  PROVE  /\ Host!Added(p, chains) \in [DesktopPorts -> [Host!Chains -> Nat]]
         /\ \A q \in DesktopPorts : q # p => Host!Added(p, chains)[q] = rules[q]
         /\ \A k \in Host!Chains \cap chains : Host!Added(p, chains)[p][k] > 0
<1>1. rules \in [DesktopPorts -> [Host!Chains -> Nat]] /\ rules[p] \in [Host!Chains -> Nat]
  BY DEF HostTypes
<1>2. PICK f : f = [k \in Host!Chains |-> IF k \in chains THEN rules[p][k] + 1 ELSE rules[p][k]]
  OBVIOUS
<1>3. Host!Added(p, chains) = [rules EXCEPT ![p] = f]
  BY <1>1, <1>2 DEF Host!Added
<1>4. f \in [Host!Chains -> Nat] /\ \A k \in Host!Chains \cap chains : f[k] > 0
  BY <1>1, <1>2
<1> QED BY <1>1, <1>3, <1>4

\* A creation that goes on: what it has to have made by then.
LEMMA MadeGoesOn ==
  ASSUME HostInv, NEW c \in Calls, NEW k, NEW i, i = calls[c].id, calls[c].at \in {"disk", "forward", "launch"},
         Moves(c, k), k # Host!Idle, k.at \notin {"volume", "run", "disk", "wipe", "clean"},
         k.at = "enter" => k.op = "create",
         k.at \in {"forward", "launch"} => domain'[i] = "none"
  PROVE  Accounts(c, k, i)
<1>1. /\ calls'[c] = k /\ \A d \in Calls \ {c} : calls'[d] = calls[d]
      /\ k.op = calls[c].op /\ k.id = i /\ k.old = calls[c].old /\ UNCHANGED units
  BY PlaceFacts DEF Moves, HostTypes
<1>2. /\ units[i] = "none" /\ calls[c].op \in Creations
      /\ \A d \in Calls \ {c} : calls[d].id # i /\ calls[d].old # i
  BY MadeVM
<1>3. BeingMade(i)' /\ Alone(c)'
  BY <1>1, <1>2 DEF BeingMade, Alone
<1>4. LeavingAccounted(c)'
  BY <1>1 DEF LeavingAccounted, TakesOut
<1> QED BY <1>2, <1>3, <1>4 DEF Accounts

LEMMA MakeDiskKeeps ==
  ASSUME HostInv, NEW c \in Calls, Host!MakeDisk(c)
  PROVE  HostInv'
<1> PICK i : i = calls[c].id
  OBVIOUS
<1> USE DEF Host!MakeDisk, Host!registry
<1>1. /\ calls[c].at = "disk" /\ calls[c].op \in {"create", "promote"} /\ calls[c].op \in Creations
      /\ i \in Numbers /\ i \in Host!Ids /\ port[i] \in DesktopPorts \ HeadlessPorts
      /\ container[i] = "none" /\ i \notin volumes /\ domain[i] = "none" /\ i \notin disks
  BY MadeVM
<1>2. UNCHANGED <<container, volumes, domain, rules, cut>>
  OBVIOUS
<1>5. CASE Host!Goes(c, "forward") /\ disks' = disks \cup {i} /\ UNCHANGED <<units, port, taken, used, orphans>>
  <2>1. PICK k \in HostCalls :
          /\ calls' = [calls EXCEPT ![c] = k] /\ calls'[c] = k /\ \A d \in Calls \ {c} : calls'[d] = calls[d]
          /\ k.at = "forward" /\ k.op = calls[c].op /\ k.id = calls[c].id /\ k.old = calls[c].old
    BY <1>5, Placed DEF OnVM
  <2>2. Moves(c, k)
    BY <1>1, <1>5, <2>1, PlaceFacts DEF Moves, CallWhole, Creations
  <2>3. OnlyOf(i)
    BY <1>1, <1>2, <1>5, PlaceFacts DEF OnlyOf, HostTypes
  <2>4. Accounts(c, k, i)
    BY <1>1, <1>2, <2>1, <2>2, MadeGoesOn, IdleIs
  <2>5. ItsPort(c, k, i)
    BY <1>1, <1>2, <1>5, <2>1 DEF ItsPort, Opened
  <2> QED BY <1>1, <2>2, <2>3, <2>4, <2>5, StepKeeps
<1>6. CASE /\ Host!CreationFails(c)
           /\ UNCHANGED <<disks, orphans>> \/ (disks' = disks \cup {i} /\ Host!Leaves({<<i, "vm">>}))
  <2>1. Moves(c, Host!Idle) /\ (Accounted(i)' => Accounts(c, Host!Idle, i))
    BY <1>1, <1>6, MadeFails
  <2>2. taken' \in SUBSET taken /\ \A p \in taken \ taken' : p = port[calls[c].id]
    BY <1>1, <1>6, MadeFails
  <2>3. OnlyOf(i)
    BY <1>1, <1>2, <1>6, <2>2, PlaceFacts DEF OnlyOf, HostTypes, Host!Leaves
  <2>4. Accounted(i)'
    BY <1>1, <1>2, <1>6 DEF Accounted, Host!Leaves
  <2>5. ItsPort(c, Host!Idle, i)
    BY <1>1, <1>2, <2>2, IdleIs DEF ItsPort, Creations
  <2> QED BY <1>1, <2>1, <2>3, <2>4, <2>5, StepKeeps
<1> QED BY <1>5, <1>6

LEMMA SetupPortForwardKeeps ==
  ASSUME HostInv, NEW c \in Calls, Host!SetupPortForward(c)
  PROVE  HostInv'
<1> PICK i : i = calls[c].id
  OBVIOUS
<1> USE DEF Host!SetupPortForward, Host!registry
<1>1. /\ calls[c].at = "forward" /\ calls[c].op \in {"create", "promote"} /\ calls[c].op \in Creations
      /\ i \in Numbers /\ i \in Host!Ids /\ port[i] \in DesktopPorts \ HeadlessPorts
      /\ container[i] = "none" /\ i \notin volumes /\ domain[i] = "none" /\ Owner(i)
  BY MadeVM
<1>2. UNCHANGED <<container, volumes, domain, orphans, cut>>
  OBVIOUS
<1>5. CASE Host!Goes(c, "launch") /\ rules' = Host!Added(port[i], Host!Chains) /\ UNCHANGED <<units, port, taken, used, disks>>
  <2>1. PICK k \in HostCalls :
          /\ calls' = [calls EXCEPT ![c] = k] /\ calls'[c] = k /\ \A d \in Calls \ {c} : calls'[d] = calls[d]
          /\ k.at = "launch" /\ k.op = calls[c].op /\ k.id = calls[c].id /\ k.old = calls[c].old
    BY <1>5, Placed DEF OnVM
  <2>2. Moves(c, k)
    BY <1>1, <1>5, <2>1, PlaceFacts DEF Moves, CallWhole, Creations
  <2>6. /\ rules' \in [DesktopPorts -> [Host!Chains -> Nat]] /\ \A q \in DesktopPorts : q # port[i] => rules'[q] = rules[q]
        /\ Forwarded(i)'
    BY <1>1, <1>5, AddedTypes, PlaceFacts DEF Forwarded
  <2>3. OnlyOf(i)
    BY <1>1, <1>2, <1>5, <2>6, PlaceFacts DEF OnlyOf, HostTypes
  <2>4. Accounts(c, k, i)
    BY <1>1, <1>2, <2>1, <2>2, MadeGoesOn, IdleIs
  <2>5. ItsPort(c, k, i)
    BY <1>1, <1>2, <1>5, <2>1, <2>6 DEF ItsPort, Opened
  <2> QED BY <1>1, <2>2, <2>3, <2>4, <2>5, StepKeeps
<1>6. CASE Host!CreationFails(c) /\ disks' = disks \ {i} /\ \E before : rules' = Host!Added(port[i], before)
  <2>1. Moves(c, Host!Idle) /\ (Accounted(i)' => Accounts(c, Host!Idle, i)) /\ ~Needs(i)'
    BY <1>1, <1>6, MadeFails
  <2>2. taken' \in SUBSET taken /\ \A p \in taken \ taken' : p = port[calls[c].id]
    BY <1>1, <1>6, MadeFails
  <2>6. /\ rules' \in [DesktopPorts -> [Host!Chains -> Nat]] /\ \A q \in DesktopPorts : q # port[i] => rules'[q] = rules[q]
    BY <1>1, <1>6, AddedTypes, PlaceFacts
  <2>3. OnlyOf(i)
    BY <1>1, <1>2, <1>6, <2>2, <2>6, PlaceFacts DEF OnlyOf, HostTypes
  <2>4. Accounted(i)'
    BY <1>1, <1>2, <1>6 DEF Accounted
  <2>5. ItsPort(c, Host!Idle, i)
    BY <1>1, <1>2, <2>1, <2>2, <2>6, IdleIs DEF ItsPort, Creations
  <2> QED BY <1>1, <2>1, <2>3, <2>4, <2>5, StepKeeps
<1> QED BY <1>5, <1>6

LEMMA LaunchKeeps ==
  ASSUME HostInv, NEW c \in Calls, Host!Launch(c)
  PROVE  HostInv'
<1> PICK i : i = calls[c].id
  OBVIOUS
<1> USE DEF Host!Launch, Host!registry
<1>1. /\ calls[c].at = "launch" /\ calls[c].op \in {"create", "promote"} /\ calls[c].op \in Creations
      /\ i \in Numbers /\ i \in Host!Ids /\ port[i] \in DesktopPorts \ HeadlessPorts
      /\ container[i] = "none" /\ i \notin volumes /\ domain[i] = "none" /\ Owner(i)
  BY MadeVM
<1>2. UNCHANGED <<container, volumes, cut>>
  OBVIOUS
<1>5. CASE /\ Host!Goes(c, IF calls[c].op = "promote" THEN "stop" ELSE "enter")
           /\ domain' = [domain EXCEPT ![i] = "runs"] /\ UNCHANGED <<units, port, taken, used, disks, rules, orphans>>
  <2>1. PICK k \in HostCalls :
          /\ calls' = [calls EXCEPT ![c] = k] /\ calls'[c] = k /\ \A d \in Calls \ {c} : calls'[d] = calls[d]
          /\ k.at = (IF calls[c].op = "promote" THEN "stop" ELSE "enter")
          /\ k.op = calls[c].op /\ k.id = calls[c].id /\ k.old = calls[c].old
    BY <1>5, Placed
  <2>2. Moves(c, k)
    BY <1>1, <1>5, <2>1, PlaceFacts DEF Moves, CallWhole, Creations
  <2>3. OnlyOf(i)
    BY <1>1, <1>2, <1>5, PlaceFacts DEF OnlyOf, HostTypes
  <2>4. Accounts(c, k, i)
    BY <1>1, <1>2, <2>1, <2>2, MadeGoesOn, IdleIs
  <2>5. ItsPort(c, k, i)
    BY <1>1, <1>2, <1>5, <2>1 DEF ItsPort, Opened
  <2> QED BY <1>1, <2>2, <2>3, <2>4, <2>5, StepKeeps
<1>6. CASE /\ Host!CreationFails(c)
           /\ \/ Host!Leaves({<<i, "vm">>}) /\ UNCHANGED <<domain, rules, disks>>
              \/ /\ rules' = Host!Removed(port[i]) /\ disks' = disks \ {i}
                 /\ \/ UNCHANGED <<domain, orphans>>
                    \/ domain' = [domain EXCEPT ![i] = "off"] /\ Host!Leaves({<<i, "vm">>})
  <2>1. Moves(c, Host!Idle) /\ (Accounted(i)' => Accounts(c, Host!Idle, i)) /\ ~Needs(i)'
    BY <1>1, <1>6, MadeFails
  <2>2. taken' \in SUBSET taken /\ \A p \in taken \ taken' : p = port[calls[c].id]
    BY <1>1, <1>6, MadeFails
  <2>6. /\ rules' \in [DesktopPorts -> [Host!Chains -> Nat]] /\ \A q \in DesktopPorts : q # port[i] => rules'[q] = rules[q]
    <3>1. CASE rules' = Host!Removed(port[i])
      BY <1>1, <3>1, RemovedTypes, PlaceFacts
    <3>2. CASE UNCHANGED rules
      BY <3>2, PlaceFacts DEF HostTypes
    <3> QED BY <1>6, <3>1, <3>2
  <2>3. OnlyOf(i)
    <3>1. /\ orphans' \in SUBSET (Host!Ids \X {"container", "volume", "vm"}) /\ orphans \in SUBSET orphans'
      BY <1>1, <1>6, PlaceFacts DEF HostTypes, Host!Leaves
    <3>2. /\ domain' \in [Host!Ids -> {"none", "off", "runs", "stopping"}]
          /\ \A j \in Host!Ids \ {i} : domain'[j] = domain[j]
      BY <1>1, <1>6, PlaceFacts DEF HostTypes
    <3>3. disks' \in SUBSET Host!Ids /\ \A j \in Host!Ids \ {i} : (j \in disks' <=> j \in disks)
      BY <1>1, <1>6, PlaceFacts DEF HostTypes
    <3> QED BY <1>1, <1>2, <2>2, <2>6, <3>1, <3>2, <3>3, PlaceFacts DEF OnlyOf, HostTypes
  <2>4. Accounted(i)'
    BY <1>1, <1>2, <1>6 DEF Accounted, Host!Leaves
  <2>5. ItsPort(c, Host!Idle, i)
    BY <1>1, <1>2, <2>1, <2>2, <2>6, IdleIs DEF ItsPort, Creations
  <2> QED BY <1>1, <2>1, <2>3, <2>4, <2>5, StepKeeps
<1> QED BY <1>5, <1>6

\* A unit that is registered.
LEMMA Registered ==
  ASSUME HostInv, NEW i \in Host!Ids, units[i] # "none"
  PROVE  /\ i \in Numbers /\ i # 0 /\ Owner(i)
         /\ units[i] = "headless" => OfHeadless(i)
         /\ units[i] = "desktop" => OfDesktop(i)
         /\ \A d \in Calls : calls[d].op \in Creations => calls[d].id # i
<1>1. HostTypes /\ KindOf(i) /\ i # 0
  BY NumbersAreIds DEF HostInv
<1>2. i \in Numbers /\ port[i] # 0 /\ port[i] \in HeadlessPorts \cup DesktopPorts
  BY <1>1 DEF KindOf, HostTypes
<1>3. \A d \in Calls : calls[d].op \in Creations => calls[d].id # i
  BY PlaceFacts
<1> QED BY <1>1, <1>2, <1>3 DEF KindOf, OfHeadless, OfDesktop, Owner

LEMMA OnKeeps ==
  ASSUME HostInv, NEW c \in Calls, NEW kind, NEW op, NEW place, Host!On(c, kind, op, place),
         <<kind, op, place>> \in {<<"headless", "destroy", "stop">>, <<"desktop", "destroy", "undefine">>,
                                  <<"headless", "reset", "clear">>, <<"desktop", "reboot", "shutdown">>}
  PROVE  HostInv'
<1> USE DEF Host!On, Host!registry, Host!host
<1>1. PICK i \in Host!Ids :
        /\ units[i] = kind
        /\ calls' = [calls EXCEPT ![c] = [at |-> place, op |-> op, id |-> i, old |-> i]]
  OBVIOUS
<1>2. /\ UNCHANGED <<units, port, taken, used, container, volumes, disks, domain, rules, orphans, cut>>
      /\ calls[c] = Host!Idle
  OBVIOUS
<1>3. PICK k : k = [at |-> place, op |-> op, id |-> i, old |-> i]
  OBVIOUS
<1>4. k.at = place /\ k.op = op /\ k.id = i /\ k.old = i
  BY <1>3
<1>5. i \in Numbers /\ (kind = "headless" => OfHeadless(i)) /\ (kind = "desktop" => OfDesktop(i))
  BY <1>1, Registered
<1>6. k \in HostCalls
  BY <1>3, <1>5, NumbersAreIds DEF HostCalls, OnVM, Creations, HostInv
<1>7. calls'[c] = k /\ (\A d \in Calls \ {c} : calls'[d] = calls[d]) /\ calls' \in [Calls -> HostCalls]
  BY <1>1, <1>3, <1>6 DEF HostInv, HostTypes
<1>8. HostTypes'
  BY <1>2, <1>7 DEF HostInv, HostTypes
<1>9. CallWhole(k)
  BY <1>4, <1>5 DEF CallWhole, Creations
<1>10. ASSUME NEW d \in Calls PROVE CallWhole(calls[d])'
  <2>1. CallWhole(calls'[d])
    BY <1>7, <1>9, PlaceFacts
  <2> QED BY <1>2, <2>1 DEF CallWhole, OfHeadless, OfDesktop, Numbers
<1>11. k.op \notin Creations /\ Host!Idle.op \notin Creations
  BY <1>4, IdleIs DEF Creations
<1>12. ASSUME NEW d \in Calls PROVE Alone(d)'
  <2>1. CASE d = c
    BY <1>7, <1>11, <2>1 DEF Alone
  <2>2. CASE d # c
    <3>1. Alone(d)
      BY PlaceFacts
    <3>2. calls[d].op \in Creations => calls[d].id # i
      BY <1>1, Registered
    <3> QED BY <1>2, <1>4, <1>7, <2>2, <3>1, <3>2 DEF Alone
  <2> QED BY <2>1, <2>2
<1>13. ASSUME NEW d \in Calls PROVE LeavingAccounted(d)'
  <2>1. CASE d = c
    BY <1>4, <1>7, <2>1 DEF LeavingAccounted
  <2>2. CASE d # c
    BY <1>2, <1>7, <2>2, PlaceFacts DEF LeavingAccounted, Accounted
  <2> QED BY <2>1, <2>2
<1>14. \A j \in Host!Ids : (BeingMade(j)' <=> BeingMade(j)) /\ KindOf(j)'
  <2>1. \A j \in Host!Ids : BeingMade(j)' <=> BeingMade(j)
    BY <1>2, <1>7, <1>11 DEF BeingMade
  <2> QED BY <1>2, <2>1, PlaceFacts DEF KindOf, NothingOf, Numbers
<1>15. \A j \in Host!Ids : (Owner(j)' <=> Owner(j)) /\ (Untouched(j)' <=> Untouched(j)) /\ (Needs(j)' => Needs(j))
  <2>1. \A j \in Host!Ids : (Owner(j)' <=> Owner(j)) /\ (Untouched(j)' <=> Untouched(j))
    BY <1>2, <1>14 DEF Owner, Untouched
  <2>2. calls[c].at # "enter"
    BY <1>2, IdleIs
  <2>3. \A j \in Host!Ids : Needs(j)' => Needs(j)
    BY <1>2, <1>7, <1>11, <2>2 DEF Needs
  <2> QED BY <2>1, <2>3
<1>16. GoneAccounted'
  BY <1>2, <1>14 DEF HostInv, GoneAccounted, Accounted
<1>17. OwnersApart' /\ OwnedIsTaken' /\ RulesThere'
  BY <1>2, <1>15 DEF HostInv, OwnersApart, OwnedIsTaken, RulesThere, Forwarded
<1> QED BY <1>8, <1>10, <1>12, <1>13, <1>14, <1>16, <1>17 DEF HostInv, Host!Ids

\* The host itself: a guest or a container stops.
LEMMA StopsKeep ==
  ASSUME HostInv, Host!GuestOff \/ Host!Dies
  PROVE  HostInv'
<1> USE DEF Host!GuestOff, Host!Dies, Host!registry, Host!host
<1>1. UNCHANGED <<units, port, taken, used, volumes, disks, rules, calls, orphans, cut>>
  OBVIOUS
<1>2. /\ container' \in [Host!Ids -> {"none", "made", "runs"}]
      /\ domain' \in [Host!Ids -> {"none", "off", "runs", "stopping"}]
      /\ \A i \in Host!Ids : (container'[i] = "none" <=> container[i] = "none") /\ (domain'[i] = "none" <=> domain[i] = "none")
  BY DEF HostInv, HostTypes
<1>3. HostTypes'
  BY <1>1, <1>2 DEF HostInv, HostTypes
<1>4. \A i \in Host!Ids : (Accounted(i)' <=> Accounted(i)) /\ KindOf(i)'
  BY <1>1, <1>2, PlaceFacts DEF HostInv, KindOf, NothingOf, Numbers, Accounted
<1>5. ASSUME NEW c \in Calls PROVE CallWhole(calls[c])' /\ Alone(c)' /\ LeavingAccounted(c)'
  <2>1. CallWhole(calls[c])'
    BY <1>1, PlaceFacts DEF CallWhole, OfHeadless, OfDesktop, Numbers
  <2>2. calls[c].op \in Creations => calls[c].id \in Host!Ids
    BY PlaceFacts, NumbersAreIds DEF CallWhole
  <2>3. calls[c].op \in TakesOut => calls[c].old \in Host!Ids
    BY PlaceFacts, NumbersAreIds DEF CallWhole, TakesOut, OfHeadless, OfDesktop
  <2>4. Alone(c)'
    BY <1>1, <1>2, <2>2, PlaceFacts DEF Alone
  <2>5. LeavingAccounted(c)'
    BY <1>1, <1>2, <1>4, <2>3, PlaceFacts DEF LeavingAccounted
  <2> QED BY <2>1, <2>4, <2>5
<1>6. GoneAccounted'
  BY <1>1, <1>4 DEF HostInv, GoneAccounted, BeingMade
<1>7. OwnersApart' /\ OwnedIsTaken' /\ RulesThere'
  BY <1>1 DEF HostInv, OwnersApart, OwnedIsTaken, RulesThere, Forwarded, Owner, Untouched, Needs, BeingMade
<1> QED BY <1>3, <1>4, <1>5, <1>6, <1>7 DEF HostInv, Host!Ids

\* Ports and ids of operations.
LEMMA WorkedOnAre ==
  ASSUME HostInv, NEW c \in Calls
  PROVE  /\ calls[c].id \in Numbers \cup {0} /\ calls[c].old \in Numbers \cup {0}
         /\ calls[c].op # "none" => calls[c].id \in Numbers
         /\ calls[c].op \notin {"none", "create"} => calls[c].old \in Numbers
         /\ calls[c].op \in {"none", "destroy", "reset", "reboot"} \cup Creations
  BY PlaceFacts, IdleIs DEF CallWhole, HostCalls, Creations, OfHeadless, OfDesktop

LEMMA EnterKeeps ==
  ASSUME HostInv, NEW c \in Calls, Host!Enter(c)
  PROVE  HostInv'
<1> USE DEF Host!Enter, Host!host
<1>1. PICK i, o : i = calls[c].id /\ o = calls[c].old
  OBVIOUS
<1>2. /\ calls[c].at = "enter" /\ Host!Ends(c)
      /\ UNCHANGED <<port, used, container, volumes, disks, domain, rules, orphans>>
      /\ units' = [j \in Host!Ids |-> CASE j = o -> "none"
                                        [] j = i /\ j # o -> (IF port[i] \in HeadlessPorts THEN "headless" ELSE "desktop")
                                        [] OTHER -> units[j]]
      /\ taken' = (IF o = 0 THEN taken ELSE taken \ {port[o]})
      /\ cut' = IF o # 0 /\ units[o] = "none" THEN cut \cup ({port[o]} \cap DesktopPorts) ELSE cut
  BY <1>1
<1>3. /\ calls' \in [Calls -> HostCalls] /\ calls'[c] = Host!Idle /\ \A d \in Calls \ {c} : calls'[d] = calls[d]
  BY <1>2, EndsWith DEF HostInv
<1>4. /\ calls[c].op \in {"destroy"} \cup Creations /\ i \in Numbers
      /\ calls[c].op = "destroy" => i = o
      /\ calls[c].op \in Creations => i # o /\ units[i] = "none" /\ \A d \in Calls \ {c} : calls[d].id # i /\ calls[d].old # i
      /\ o # 0 => o \in Numbers /\ calls[c].op \in TakesOut
      /\ o \in Host!Ids \cup {0} /\ i \in Host!Ids
  <2>1. CallWhole(calls[c]) /\ Alone(c)
    BY PlaceFacts
  <2>2. calls[c].op \in {"destroy"} \cup Creations
    BY <1>2, <2>1, WorkedOnAre DEF CallWhole
  <2> QED BY <1>1, <2>1, <2>2, WorkedOnAre, NumbersAreIds DEF CallWhole, Alone, Creations, TakesOut, HostInv
<1>5. HostTypes'
  <2>1. units' \in [Host!Ids -> {"none", "headless", "desktop"}]
    BY <1>2 DEF HostInv, HostTypes
  <2>2. taken' \in SUBSET (HeadlessPorts \cup DesktopPorts) /\ cut' \in SUBSET DesktopPorts
    BY <1>2 DEF HostInv, HostTypes
  <2> QED BY <1>2, <1>3, <2>1, <2>2 DEF HostInv, HostTypes
<1>6. \A j \in Host!Ids \ {i, o} : units'[j] = units[j]
  BY <1>2
<1>7. /\ o \in Host!Ids => units'[o] = "none"
      /\ i # o => units'[i] # "none"
  BY <1>2, <1>4
<1>8. \A j \in Host!Ids : KindOf(j)'
  <2> SUFFICES ASSUME NEW j \in Host!Ids PROVE KindOf(j)'
    OBVIOUS
  <2>1. KindOf(j) /\ HeadlessPorts \cap DesktopPorts = {} /\ Numbers' = Numbers
    BY <1>2, PlaceFacts DEF Numbers
  <2>2. /\ j \notin Numbers => units'[j] = "none"
        /\ port[j] \in HeadlessPorts => units'[j] # "desktop"
        /\ port[j] \in DesktopPorts => units'[j] # "headless"
    BY <1>2, <1>4, <2>1 DEF KindOf
  <2> QED BY <1>2, <2>1, <2>2 DEF KindOf, NothingOf
<1>9. ASSUME NEW d \in Calls PROVE CallWhole(calls[d])' /\ Alone(d)' /\ LeavingAccounted(d)'
  <2>1. CallWhole(calls'[d])
    BY <1>3, PlaceFacts, IdleIs DEF CallWhole, Creations
  <2>2. CallWhole(calls[d])'
    BY <1>2, <2>1 DEF CallWhole, OfHeadless, OfDesktop, Numbers
  <2>3. CASE d = c
    <3>1. calls'[d].op \notin Creations \cup TakesOut
      BY <1>3, <2>3, IdleIs DEF Creations, TakesOut
    <3> QED BY <2>2, <3>1 DEF Alone, LeavingAccounted
  <2>4. CASE d # c
    <3>1. LeavingAccounted(d)'
      BY <1>2, <1>3, <2>4, PlaceFacts DEF LeavingAccounted, Accounted
    <3>2. Alone(d)'
      <4> SUFFICES ASSUME calls[d].op \in Creations PROVE Alone(d)'
        BY <1>3, <2>4 DEF Alone
      <4>1. Alone(d) /\ calls[d].id # i /\ calls[d].id # o /\ calls[d].id \in Host!Ids
        BY <1>1, <2>4, PlaceFacts, MadeAlone DEF Alone
      <4>2. units'[calls[d].id] = "none"
        BY <1>6, <4>1 DEF Alone
      <4>3. calls[d].id # 0
        BY <4>1, NumbersAreIds DEF HostInv
      <4>4. \A e \in Calls \ {d} : calls'[e].id # calls[d].id /\ calls'[e].old # calls[d].id
        BY <1>3, <4>1, <4>3, IdleIs DEF Alone
      <4> QED BY <1>2, <1>3, <2>4, <4>1, <4>2, <4>4 DEF Alone
    <3> QED BY <2>2, <3>1, <3>2
  <2> QED BY <2>3, <2>4
<1>10. \A j \in Host!Ids : (BeingMade(j)' => BeingMade(j)) /\ (BeingMade(j) => j = i \/ BeingMade(j)')
  BY <1>1, <1>3, IdleIs DEF BeingMade, Creations
<1>11. \A j \in Host!Ids : (Owner(j)' => Owner(j)) /\ (Untouched(j)' => Untouched(j))
  <2>1. i # o => BeingMade(i)
    BY <1>1, <1>4 DEF BeingMade
  <2> QED BY <1>2, <1>6, <1>7, <1>10, <2>1 DEF Owner, Untouched
<1>12. ~BeingMade(o)'
  BY <1>1, <1>3, <1>4, PlaceFacts, IdleIs DEF BeingMade, Alone, Creations
<1>13. GoneAccounted'
  <2> SUFFICES ASSUME NEW j \in Host!Ids, units'[j] = "none", ~BeingMade(j)' PROVE Accounted(j)'
    BY DEF GoneAccounted
  <2>1. CASE j = o
    <3>1. Accounted(o)
      BY <1>1, <1>2, <1>4, <2>1, NumbersAreIds, PlaceFacts DEF LeavingAccounted
    <3> QED BY <1>2, <2>1, <3>1 DEF Accounted
  <2>2. CASE j # o
    <3>1. j # i /\ units[j] = "none" /\ ~BeingMade(j)
      BY <1>6, <1>7, <1>10, <2>2
    <3>2. Accounted(j)
      BY <3>1 DEF HostInv, GoneAccounted
    <3> QED BY <1>2, <3>2 DEF Accounted
  <2> QED BY <2>1, <2>2
<1>14. OwnersApart'
  BY <1>2, <1>11 DEF HostInv, OwnersApart
<1>15. OwnedIsTaken'
  <2> SUFFICES ASSUME NEW j \in Host!Ids, Owner(j)', Untouched(j)' PROVE port[j] \in taken'
    BY <1>2 DEF OwnedIsTaken
  <2>1. Owner(j) /\ Untouched(j) /\ port[j] \in taken
    BY <1>11 DEF HostInv, OwnedIsTaken
  <2> SUFFICES ASSUME o # 0, port[j] = port[o] PROVE FALSE
    BY <1>2, <2>1
  <2>2. o \in Host!Ids /\ units[o] # "none"
    BY <1>2, <1>4 DEF Untouched
  <2>3. j = o
    BY <2>1, <2>2 DEF HostInv, OwnersApart, Owner
  <2> QED BY <1>7, <1>12, <2>2, <2>3 DEF Owner
<1>16. RulesThere'
  <2> SUFFICES ASSUME NEW j \in Host!Ids, Untouched(j)', Needs(j)' PROVE Forwarded(j)
    BY <1>2 DEF RulesThere, Forwarded
  <2>1. Needs(j)
    <3>1. CASE j = i /\ i # o
      <4>1. calls[c].op \in Creations /\ calls[c].at \in Opened
        BY <1>2, <1>4, <3>1 DEF Opened
      <4> QED BY <1>1, <3>1, <4>1 DEF Needs
    <3>2. CASE j # i \/ i = o
      <4>1. \A d \in Calls : calls'[d].op \in Creations /\ calls'[d].at \in Opened => d # c
        BY <1>3, IdleIs DEF Creations
      <4>2. units'[j] # "none" => j # o /\ units[j] # "none"
        BY <1>6, <1>7, <3>2
      <4> QED BY <1>1, <1>3, <3>2, <4>1, <4>2 DEF Needs
    <3> QED BY <3>1, <3>2
  <2> QED BY <1>11, <2>1 DEF HostInv, RulesThere
<1> QED BY <1>5, <1>8, <1>9, <1>13, <1>14, <1>15, <1>16 DEF HostInv, Host!Ids

LessThan == {r \in Nat \X Nat : r[1] < r[2]}

LEMMA LowestIs ==
  ASSUME NEW S \in SUBSET Nat, S # {}
  PROVE  Host!Lowest(S) \in S
<1>1. IsWellFoundedOn(LessThan, Nat)
  BY NatLessThanWellFounded DEF OpToRel, LessThan
<1>2. PICK p \in S : \A q \in S : <<q, p>> \notin LessThan
  BY <1>1, WFMin
<1>3. ASSUME NEW q \in S PROVE p <= q
  <2>1. p \in Nat /\ q \in Nat /\ ~(q < p)
    BY <1>2 DEF LessThan
  <2> QED BY <2>1
<1> QED BY <1>3 DEF Host!Lowest

LEMMA BeginKeeps ==
  ASSUME HostInv, NEW c \in Calls, NEW kind, NEW op, NEW old, Host!Begin(c, op, kind, old),
         \/ op = "create" /\ kind \in {"headless", "desktop"} /\ old = 0
         \/ op = "promote" /\ kind = "desktop" /\ old \in Host!Ids /\ units[old] = "headless"
         \/ op = "demote" /\ kind = "headless" /\ old \in Host!Ids /\ units[old] = "desktop"
  PROVE  HostInv'
<1> PICK n : n = used + 1
  OBVIOUS
<1> PICK free : free = Host!Free(IF kind = "headless" THEN HeadlessPorts ELSE DesktopPorts)
  OBVIOUS
<1> PICK q : q = Host!Lowest(free)
  OBVIOUS
<1> PICK k : k = [at |-> IF kind = "headless" THEN "volume" ELSE "disk", op |-> op, id |-> n, old |-> old]
  OBVIOUS
<1>1. /\ calls[c] = Host!Idle /\ used < NumIds /\ free # {} /\ used' = n
      /\ port' = [port EXCEPT ![n] = q] /\ taken' = taken \cup {q}
      /\ calls' = [calls EXCEPT ![c] = k]
      /\ UNCHANGED <<units, container, volumes, disks, domain, rules, orphans, cut>>
  BY DEF Host!Begin, Host!host
<1>2. /\ q \notin taken /\ q # 0
      /\ kind = "headless" => q \in HeadlessPorts \ DesktopPorts
      /\ kind = "desktop" => q \in DesktopPorts \ HeadlessPorts
  <2>1. free \in SUBSET Nat
    BY HostAssumption DEF HostAssumption, Host!Free
  <2>2. q \in free
    BY <1>1, <2>1, LowestIs
  <2> QED BY <2>2, HostAssumption DEF HostAssumption, Host!Free
<1>3. n \in Host!Ids /\ n \notin Numbers /\ Numbers' = Numbers \cup {n} /\ n # 0 /\ HostTypes
  BY <1>1, NumbersAreIds DEF HostInv, Numbers
<1>4. KindOf(n) /\ units[n] = "none" /\ NothingOf(n)
  BY <1>3, PlaceFacts DEF KindOf
<1>5. k.at = (IF kind = "headless" THEN "volume" ELSE "disk") /\ k.op = op /\ k.id = n /\ k.old = old
  OBVIOUS
<1>6. /\ old \in Numbers \cup {0} /\ old # n
      /\ op = "promote" => OfHeadless(old)
      /\ op = "demote" => OfDesktop(old)
      /\ op \in Creations /\ \A d \in Calls : calls[d].op \in Creations => calls[d].id # old
      /\ op # "create" => units[old] # "none"
  <2>1. CASE old = 0
    <3>1. \A d \in Calls : calls[d].op \in Creations => calls[d].id # 0
      BY WorkedOnAre, NumbersAreIds DEF HostInv, Creations
    <3>2. 0 \notin Host!Ids
      BY NumbersAreIds DEF HostInv
    <3> QED BY <1>3, <2>1, <3>1, <3>2 DEF Creations
  <2>2. CASE old \in Host!Ids /\ units[old] # "none"
    BY <1>3, <2>2, Registered, NumbersAreIds DEF Creations
  <2> QED BY <2>1, <2>2
<1>7. k \in HostCalls
  BY <1>3, <1>6, NumbersAreIds DEF HostCalls, OnVM, Creations
<1>8. calls'[c] = k /\ (\A d \in Calls \ {c} : calls'[d] = calls[d]) /\ calls' \in [Calls -> HostCalls]
  BY <1>1, <1>3, <1>7 DEF HostTypes
<1>9. port'[n] = q /\ \A j \in Host!Ids \ {n} : port'[j] = port[j]
  BY <1>1, <1>3 DEF HostTypes
<1>10. HostTypes'
  <2>1. port' \in [Host!Ids -> HeadlessPorts \cup DesktopPorts \cup {0}]
    BY <1>1, <1>2, <1>3 DEF HostTypes
  <2>2. taken' \in SUBSET (HeadlessPorts \cup DesktopPorts) /\ used' \in 0 .. NumIds
    BY <1>1, <1>2, <1>3, NumbersAreIds DEF HostTypes
  <2> QED BY <1>1, <1>3, <1>8, <2>1, <2>2 DEF HostTypes
<1>11. \A j \in Host!Ids : (OfHeadless(j) => OfHeadless(j)') /\ (OfDesktop(j) => OfDesktop(j)')
  BY <1>3, <1>9 DEF OfHeadless, OfDesktop
<1>12. ASSUME NEW d \in Calls PROVE CallWhole(calls[d])'
  <2>1. CASE d = c
    <3>1. /\ n \in Numbers' /\ (kind = "headless" => OfHeadless(n)') /\ (kind = "desktop" => OfDesktop(n)')
          /\ op = "promote" => OfHeadless(old)'
          /\ op = "demote" => OfDesktop(old)'
      BY <1>2, <1>3, <1>6, <1>9 DEF OfHeadless, OfDesktop
    <3>2. k.op \notin {"none", "destroy", "reset", "reboot"} /\ k.at \in {"volume", "disk"}
      BY <1>5
    <3> QED BY <1>5, <1>6, <1>8, <2>1, <3>1, <3>2 DEF CallWhole, OfHeadless, OfDesktop
  <2>2. CASE d # c
    <3>1. CallWhole(calls[d]) /\ calls'[d] = calls[d]
      BY <1>8, <2>2, PlaceFacts
    <3>2. \A j : (OfHeadless(j) => OfHeadless(j)') /\ (OfDesktop(j) => OfDesktop(j)')
      BY <1>3, <1>11, NumbersAreIds DEF OfHeadless, OfDesktop
    <3> QED BY <1>3, <3>1, <3>2 DEF CallWhole, OfHeadless, OfDesktop
  <2> QED BY <2>1, <2>2
<1>13. \A d \in Calls : calls[d].id # n /\ calls[d].old # n
  BY <1>3, WorkedOnAre
<1>14. ASSUME NEW d \in Calls PROVE Alone(d)'
  <2>1. CASE d = c
    BY <1>1, <1>4, <1>5, <1>6, <1>8, <1>13, <2>1 DEF Alone, NothingOf
  <2>2. CASE d # c
    <3>1. Alone(d) /\ (calls[d].op \in Creations => calls[d].id # old /\ calls[d].id # n)
      BY <1>6, <1>13, PlaceFacts
    <3> QED BY <1>1, <1>5, <1>8, <2>2, <3>1 DEF Alone
  <2> QED BY <2>1, <2>2
<1>15. ASSUME NEW d \in Calls PROVE LeavingAccounted(d)'
  <2>1. CASE d = c
    BY <1>5, <1>8, <2>1 DEF LeavingAccounted
  <2>2. CASE d # c
    BY <1>1, <1>8, <2>2, PlaceFacts DEF LeavingAccounted, Accounted
  <2> QED BY <2>1, <2>2
<1>16. \A j \in Host!Ids : KindOf(j)'
  <2> SUFFICES ASSUME NEW j \in Host!Ids PROVE KindOf(j)'
    OBVIOUS
  <2>1. CASE j = n
    BY <1>1, <1>2, <1>3, <1>4, <1>9, <2>1 DEF KindOf, NothingOf
  <2>2. CASE j # n
    BY <1>1, <1>3, <1>9, <2>2, PlaceFacts DEF KindOf, NothingOf
  <2> QED BY <2>1, <2>2
<1>17. \A j \in Host!Ids \ {n} : BeingMade(j)' <=> BeingMade(j)
  BY <1>1, <1>5, <1>8, IdleIs DEF BeingMade, Creations
<1>18. BeingMade(n)'
  BY <1>5, <1>6, <1>8 DEF BeingMade
<1>19. \A j \in Host!Ids \ {n} : (Owner(j)' <=> Owner(j)) /\ (Untouched(j)' <=> Untouched(j))
  BY <1>1, <1>9, <1>17 DEF Owner, Untouched
<1>20. GoneAccounted'
  BY <1>1, <1>17, <1>18 DEF HostInv, GoneAccounted, Accounted
<1>21. \A j \in Host!Ids \ {n} : Owner(j)' /\ Untouched(j)' => port[j] \in taken /\ port[j] # q
  BY <1>2, <1>19 DEF HostInv, OwnedIsTaken
<1>22. OwnersApart'
  <2> SUFFICES ASSUME NEW j \in Host!Ids, NEW l \in Host!Ids, Owner(j)', Owner(l)', Untouched(j)', port'[j] = port'[l]
               PROVE  j = l
    BY DEF OwnersApart
  <2>1. Untouched(l)'
    BY DEF Untouched
  <2>2. CASE j # n /\ l # n
    BY <1>9, <1>19, <2>2 DEF HostInv, OwnersApart
  <2>3. CASE j = n \/ l = n
    BY <1>9, <1>21, <2>1, <2>3
  <2> QED BY <2>2, <2>3
<1>23. OwnedIsTaken'
  BY <1>1, <1>9, <1>21 DEF OwnedIsTaken
<1>24. RulesThere'
  <2> SUFFICES ASSUME NEW j \in Host!Ids, Untouched(j)', Needs(j)' PROVE Forwarded(j)'
    BY DEF RulesThere
  <2>1. k.at \notin Opened
    BY <1>5 DEF Opened
  <2>2. j # n
    BY <1>1, <1>4, <1>8, <1>13, <2>1 DEF Needs
  <2>3. Needs(j)
    BY <1>1, <1>5, <1>8, <2>1, IdleIs DEF Needs, Opened
  <2> QED BY <1>1, <1>9, <1>19, <2>2, <2>3 DEF HostInv, RulesThere, Forwarded
<1> QED BY <1>10, <1>12, <1>14, <1>15, <1>16, <1>20, <1>22, <1>23, <1>24 DEF HostInv, Host!Ids

\* How many units of a set have a port, of which as many rules are removed.
LEMMA CountIs ==
  ASSUME HostTypes, NEW S \in SUBSET Host!Ids
  PROVE  Host!Cardinality(S) \in Nat /\ Host!Cardinality({}) = 0
<1>1. Host!Cardinality(S) = Cardinality(S) /\ Host!Cardinality({}) = Cardinality({})
  BY DEF Host!Cardinality, Cardinality
<1>2. IsFiniteSet(Host!Ids)
  BY NumbersAreIds, FS_Interval
<1> QED BY <1>1, <1>2, FS_Subset, FS_CardinalityType, FS_EmptySet

LEMMA RulesAfterIs ==
  ASSUME HostTypes, NEW S \in SUBSET Host!Ids
  PROVE  /\ Host!RulesAfter(S) \in [DesktopPorts -> [Host!Chains -> Nat]]
         /\ \A p \in DesktopPorts : (\A i \in S : port[i] # p) => Host!RulesAfter(S)[p] = rules[p]
<1> DEFINE of(p) == {i \in S : port[i] = p}
<1> DEFINE made(p, k) == IF rules[p][k] > Host!Cardinality(of(p)) THEN rules[p][k] - Host!Cardinality(of(p)) ELSE 0
<1>1. Host!RulesAfter(S) = [p \in DesktopPorts |-> [k \in Host!Chains |-> made(p, k)]]
  BY DEF Host!RulesAfter
<1>2. \A p \in DesktopPorts : Host!Cardinality(of(p)) \in Nat
  BY CountIs
<1>3. \A p \in DesktopPorts, k \in Host!Chains : rules[p][k] \in Nat
  BY DEF HostTypes
<1>4. \A p \in DesktopPorts, k \in Host!Chains : made(p, k) \in Nat
  BY <1>2, <1>3
<1>5. ASSUME NEW p \in DesktopPorts, \A i \in S : port[i] # p
      PROVE  [k \in Host!Chains |-> made(p, k)] = rules[p]
  <2>1. of(p) = {}
    BY <1>5
  <2>2. Host!Cardinality(of(p)) = 0
    BY <2>1, CountIs
  <2>3. \A k \in Host!Chains : made(p, k) = rules[p][k]
    BY <1>3, <2>2
  <2>4. rules[p] \in [Host!Chains -> Nat]
    BY DEF HostTypes
  <2> QED BY <2>3, <2>4
<1> HIDE DEF made
<1>6. Host!RulesAfter(S) \in [DesktopPorts -> [Host!Chains -> Nat]]
  BY <1>1, <1>4
<1>7. \A p \in DesktopPorts : (\A i \in S : port[i] # p) => Host!RulesAfter(S)[p] = rules[p]
  BY <1>1, <1>5
<1> QED BY <1>6, <1>7

LEMMA HalfMadeAre ==
  ASSUME HostInv
  PROVE  /\ Host!HalfMade \in SUBSET Host!Ids
         /\ \A i \in Host!Ids : BeingMade(i) => i \in Host!HalfMade
<1>1. ASSUME NEW c \in Calls, calls[c] # Host!Idle PROVE calls[c].id \in Host!Ids
  BY <1>1, PlaceFacts, WorkedOnAre, NumbersAreIds DEF CallWhole, HostInv
<1>2. ASSUME NEW c \in Calls, calls[c].at \in {"stop", "wipe", "undefine", "clean"} PROVE calls[c].old \in Host!Ids
  BY <1>2, OldOnes
<1>3. ASSUME NEW i \in Host!Ids, BeingMade(i) PROVE i \in Host!HalfMade
  BY <1>3, IdleIs DEF BeingMade, Host!HalfMade, Creations
<1> QED BY <1>1, <1>2, <1>3 DEF Host!HalfMade

LEMMA RestartKeeps ==
  ASSUME HostInv, Host!ProcessRestarts
  PROVE  HostInv'
<1>1. PICK unsure \in SUBSET Host!Ids :
        /\ container' = [i \in Host!Ids |-> IF i \in (Host!Stale \cup Host!Unregistered) \ unsure THEN "none" ELSE container[i]]
        /\ domain' = [i \in Host!Ids |-> IF i \in Host!StaleVMs \ unsure THEN "none" ELSE domain[i]]
        /\ rules' = Host!RulesAfter(Host!StaleVMs \ unsure)
        /\ disks' = disks \ (Host!StaleVMs \ unsure)
        /\ orphans' = {l \in orphans : l[2] # "container"} \cup (unsure \X {"container", "vm"})
                      \cup ((Host!Stale \cup Host!HalfMade) \X {"volume"}) \cup (Host!HalfMade \X {"vm"})
  BY DEF Host!ProcessRestarts, Host!Restart
<1>2. /\ units' = [i \in Host!Ids |-> IF i \in Host!Stale THEN "none" ELSE units[i]]
      /\ taken' = {port[i] : i \in {j \in Host!Ids : units'[j] # "none"}}
      /\ cut' = cut \cup ({port[i] : i \in Host!HalfMade \cup Host!GoingOut} \cap DesktopPorts)
      /\ calls' = [c \in Calls |-> Host!Idle]
      /\ UNCHANGED <<port, used, volumes>>
  BY DEF Host!ProcessRestarts, Host!Restart
<1> PICK stale, gone : stale = Host!Stale /\ gone = Host!StaleVMs \ unsure
  OBVIOUS
<1>3. /\ stale \in SUBSET Host!Ids /\ gone \in SUBSET stale
      /\ \A i \in stale : units[i] # "none" /\ (i \in gone <=> units[i] = "desktop" /\ i \notin unsure)
  BY DEF Host!Stale, Host!StaleVMs
<1>4. HostTypes /\ Host!HalfMade \in SUBSET Host!Ids
  BY HalfMadeAre DEF HostInv
<1>5. \A c \in Calls : calls'[c] = Host!Idle
  BY <1>2
<1>6. HostTypes'
  <2>1. calls' \in [Calls -> HostCalls] /\ units' \in [Host!Ids -> {"none", "headless", "desktop"}]
    BY <1>2, <1>4, IdleIs DEF HostTypes
  <2>2. container' \in [Host!Ids -> {"none", "made", "runs"}]
    BY <1>1, <1>4 DEF HostTypes
  <2>3. domain' \in [Host!Ids -> {"none", "off", "runs", "stopping"}] /\ disks' \in SUBSET Host!Ids
    BY <1>1, <1>4 DEF HostTypes
  <2>4. rules' \in [DesktopPorts -> [Host!Chains -> Nat]]
    BY <1>1, <1>3, <1>4, RulesAfterIs
  <2>5. orphans' \in SUBSET (Host!Ids \X {"container", "volume", "vm"})
    BY <1>1, <1>3, <1>4 DEF HostTypes
  <2>6. taken' \in SUBSET (HeadlessPorts \cup DesktopPorts)
    <3>1. ASSUME NEW i \in Host!Ids, units'[i] # "none" PROVE port[i] \in HeadlessPorts \cup DesktopPorts
      <4>1. units[i] # "none"
        BY <1>2, <3>1
      <4> QED BY <4>1, Registered DEF OfHeadless, OfDesktop, HostTypes, HostInv
    <3> QED BY <1>2, <3>1
  <2>7. cut' \in SUBSET DesktopPorts
    BY <1>2, <1>4 DEF HostTypes
  <2> QED BY <1>2, <1>4, <2>1, <2>2, <2>3, <2>4, <2>5, <2>6, <2>7 DEF HostTypes
<1>7. ASSUME NEW c \in Calls PROVE CallWhole(calls[c])' /\ Alone(c)' /\ LeavingAccounted(c)'
  BY <1>5, IdleIs DEF CallWhole, Alone, LeavingAccounted, Creations, TakesOut
<1>8. \A i \in Host!Ids : KindOf(i)'
  <2> SUFFICES ASSUME NEW i \in Host!Ids PROVE KindOf(i)'
    OBVIOUS
  <2>1. KindOf(i) /\ Numbers' = Numbers /\ port'[i] = port[i]
    BY <1>2 DEF HostInv, Numbers
  <2>2. /\ units'[i] \in {units[i], "none"} /\ container'[i] \in {container[i], "none"}
        /\ domain'[i] \in {domain[i], "none"} /\ (i \in disks' => i \in disks) /\ (i \in volumes' <=> i \in volumes)
    BY <1>1, <1>2
  <2> QED BY <2>1, <2>2 DEF KindOf, NothingOf
<1>9. GoneAccounted'
  <2> SUFFICES ASSUME NEW i \in Host!Ids, units'[i] = "none" PROVE Accounted(i)'
    BY DEF GoneAccounted
  <2>1. KindOf(i) /\ units[i] \in {"none", "headless", "desktop"}
    BY <1>4 DEF HostInv, HostTypes
  <2>2. i \in unsure => <<i, "container">> \in orphans' /\ <<i, "vm">> \in orphans'
    BY <1>1
  <2>3. CASE i \in stale
    <3>1. <<i, "volume">> \in orphans'
      BY <1>1, <2>3
    <3>2. i \notin unsure => container'[i] = "none"
      BY <1>1, <2>3
    <3>3. i \notin unsure => domain'[i] = "none" /\ i \notin disks'
      <4>1. CASE i \in gone
        BY <1>1, <4>1
      <4>2. CASE i \notin gone
        <5>1. i \notin unsure => units[i] = "headless"
          BY <1>3, <2>1, <2>3, <4>2
        <5>2. units[i] = "headless" => domain[i] = "none" /\ i \notin disks
          BY Registered, <2>1 DEF KindOf, OfHeadless
        <5> QED BY <1>1, <5>1, <5>2
      <4> QED BY <4>1, <4>2
    <3> QED BY <2>2, <3>1, <3>2, <3>3 DEF Accounted
  <2>4. CASE i \notin stale
    <3>1. units[i] = "none"
      BY <1>2, <2>4
    <3>2. i \notin unsure => container'[i] = "none"
      BY <1>1, <3>1 DEF Host!Unregistered
    <3>3. (i \in volumes' => i \in volumes) /\ (domain'[i] # "none" => domain[i] # "none") /\ (i \in disks' => i \in disks)
      BY <1>1, <1>2
    <3>4. CASE BeingMade(i)
      <4>1. <<i, "volume">> \in orphans' /\ <<i, "vm">> \in orphans'
        BY <1>1, <3>4, HalfMadeAre
      <4> QED BY <2>2, <3>2, <4>1 DEF Accounted
    <3>5. CASE ~BeingMade(i)
      <4>1. Accounted(i)
        BY <3>1, <3>5 DEF HostInv, GoneAccounted
      <4>2. /\ <<i, "volume">> \in orphans => <<i, "volume">> \in orphans'
            /\ <<i, "vm">> \in orphans => <<i, "vm">> \in orphans'
        BY <1>1
      <4> QED BY <2>2, <3>2, <3>3, <4>1, <4>2 DEF Accounted
    <3> QED BY <3>4, <3>5
  <2> QED BY <2>3, <2>4
<1>10. \A i \in Host!Ids : ~BeingMade(i)'
  BY <1>5, IdleIs DEF BeingMade, Creations
<1>11. \A i \in Host!Ids : Owner(i)' => units'[i] # "none" /\ i \notin stale /\ units[i] # "none" /\ Owner(i)
  BY <1>2, <1>10 DEF Owner
<1>12. \A i \in Host!Ids : (Untouched(i)' => Untouched(i)) /\ port'[i] = port[i]
  BY <1>2 DEF Untouched
<1>13. OwnersApart'
  BY <1>11, <1>12 DEF HostInv, OwnersApart
<1>14. OwnedIsTaken'
  BY <1>2, <1>11 DEF OwnedIsTaken
<1>15. RulesThere'
  <2> SUFFICES ASSUME NEW i \in Host!Ids, Untouched(i)', Needs(i)' PROVE Forwarded(i)'
    BY DEF RulesThere
  <2>1. Owner(i)'
    BY <1>5, IdleIs DEF Needs, Owner, Creations
  <2>2. Untouched(i) /\ Owner(i) /\ units[i] # "none" /\ i \notin stale
    BY <1>11, <1>12, <2>1
  <2>3. \A j \in gone : port[j] # port[i]
    <3> SUFFICES ASSUME NEW j \in gone, port[j] = port[i] PROVE FALSE
      OBVIOUS
    <3>1. j \in stale /\ j \in Host!Ids /\ Owner(j)
      BY <1>3 DEF Owner
    <3> QED BY <2>2, <3>1 DEF HostInv, OwnersApart
  <2>4. port[i] \in DesktopPorts /\ rules'[port[i]] = rules[port[i]]
    BY <1>1, <1>3, <1>4, <2>2, <2>3, RulesAfterIs DEF Untouched
  <2>5. \A c \in Calls : ~(calls[c].at = "enter" /\ calls[c].old = i)
    BY <1>2, <2>4 DEF Untouched, Host!GoingOut
  <2>6. Forwarded(i)
    BY <2>2, <2>5 DEF HostInv, RulesThere, Needs
  <2> QED BY <1>12, <2>4, <2>6 DEF Forwarded
<1> QED BY <1>6, <1>7, <1>8, <1>9, <1>13, <1>14, <1>15 DEF HostInv, Host!Ids

LEMMA HostKeeps == HostInv /\ [Host!Next]_(Host!vars) => HostInv'
<1> SUFFICES ASSUME HostInv, [Host!Next]_(Host!vars) PROVE HostInv'
  OBVIOUS
<1>1. ASSUME NEW c \in Calls, Host!Create(c) \/ Host!Promote(c) \/ Host!Demote(c) PROVE HostInv'
  <2>1. CASE Host!Create(c)
    BY <2>1, BeginKeeps DEF Host!Create
  <2>2. CASE Host!Promote(c)
    BY <2>2, BeginKeeps DEF Host!Promote
  <2>3. CASE Host!Demote(c)
    BY <2>3, BeginKeeps DEF Host!Demote
  <2> QED BY <1>1, <2>1, <2>2, <2>3
<1>2. ASSUME NEW c \in Calls, Host!Destroy(c) \/ Host!Reset(c) \/ Host!Reboot(c) PROVE HostInv'
  <2>1. CASE Host!Destroy(c)
    BY <2>1, OnKeeps DEF Host!Destroy
  <2>2. CASE Host!Reset(c)
    BY <2>2, OnKeeps DEF Host!Reset
  <2>3. CASE Host!Reboot(c)
    BY <2>3, OnKeeps DEF Host!Reboot
  <2> QED BY <1>2, <2>1, <2>2, <2>3
<1>3. ASSUME NEW c \in Calls,
             \/ Host!EnsureVolume(c) \/ Host!CreateContainer(c) \/ Host!ClearContainer(c)
             \/ Host!RecreateContainer(c) \/ Host!DestroyContainer(c) \/ Host!RemoveVolume(c)
      PROVE  HostInv'
  BY <1>3, EnsureVolumeKeeps, CreateContainerKeeps, ClearContainerKeeps, RecreateContainerKeeps,
     DestroyContainerKeeps, RemoveVolumeKeeps
<1>4. ASSUME NEW c \in Calls,
             \/ Host!MakeDisk(c) \/ Host!SetupPortForward(c) \/ Host!Launch(c) \/ Host!UndefineVM(c)
             \/ Host!CleanVM(c) \/ Host!StopVM(c) \/ Host!StartVM(c) \/ Host!Enter(c)
      PROVE  HostInv'
  BY <1>4, MakeDiskKeeps, SetupPortForwardKeeps, LaunchKeeps, UndefineVMKeeps, CleanVMKeeps, StopVMKeeps,
     StartVMKeeps, EnterKeeps
<1>5. CASE UNCHANGED Host!vars
  BY <1>5 DEF Host!vars, Host!registry, Host!host, HostInv, HostTypes, CallWhole, Alone, LeavingAccounted,
     KindOf, NothingOf, GoneAccounted, OwnersApart, OwnedIsTaken, RulesThere, Owner, BeingMade, Untouched,
     Needs, Forwarded, Accounted, OfHeadless, OfDesktop, Numbers, Host!Ids
<1> QED BY <1>1, <1>2, <1>3, <1>4, <1>5, StopsKeep, RestartKeeps DEF Host!Next

LEMMA InOrderFromInv == HostInv => HostInOrder
<1> SUFFICES ASSUME HostInv PROVE HostInOrder
  OBVIOUS
<1>1. Host!NothingLeftBehind
  <2> SUFFICES ASSUME NEW i \in Host!Unregistered, ~Host!WorkedOn(i)
               PROVE  /\ container[i] # "none" => <<i, "container">> \in orphans
                      /\ i \in volumes => <<i, "volume">> \in orphans
                      /\ domain[i] # "none" \/ i \in disks => <<i, "vm">> \in orphans
    BY DEF Host!NothingLeftBehind
  <2>1. i \in Host!Ids /\ units[i] = "none"
    BY DEF Host!Unregistered
  <2>2. ~BeingMade(i)
    BY IdleIs DEF BeingMade, Host!WorkedOn, Creations
  <2> QED BY <2>1, <2>2 DEF HostInv, GoneAccounted, Accounted
<1>2. Host!PortsForwarded
  <2> SUFFICES ASSUME NEW i \in Host!Ids, units[i] = "desktop", ~Host!WorkedOn(i), port[i] \notin cut
               PROVE  \A k \in Host!Chains : rules[port[i]][k] > 0
    BY DEF Host!PortsForwarded
  <2>1. Untouched(i)
    BY Registered DEF Untouched, OfDesktop
  <2>2. Needs(i)
    BY IdleIs DEF Needs, Host!WorkedOn
  <2> QED BY <2>1, <2>2 DEF HostInv, RulesThere, Forwarded
<1> QED BY <1>1, <1>2 DEF HostInOrder, Host!HostInOrder

\* What of a unit that is not registered is on the host is known to be left there, and a
\* registered VM has its rules in every chain unless a late destruction or a restart amid
\* operations may have taken them, whatever fails, however operations on a unit overlap and
\* whenever the process restarts (docker_manager.py, vm_manager.py, main.py's lifespan).
THEOREM HostSafe == Host!Spec => []HostInOrder
<1>1. HostInv /\ [Host!Next]_(Host!vars) => HostInv'
  BY HostKeeps
<1>2. HostInv => HostInOrder
  BY InOrderFromInv
<1>3. Host!Init => HostInv
  BY HostStarts
<1> QED BY <1>1, <1>2, <1>3, PTL DEF Host!Spec, Host!vars
=============================================================================
