------------------------ MODULE SandboxOrchestrator ------------------------
(***************************************************************************)
(* The sandbox orchestrator on Kubernetes (sandbox/k8s_orchestrator): the  *)
(* service keeps a cache of sandboxes and a map from agents to sandboxes,  *)
(* both rebuilt from the pods' labels when it starts.  Handlers run on one *)
(* event loop and interleave at their awaits: the wipe of release, the     *)
(* wait of provision, and restart and restore, whose cluster calls run in  *)
(* a thread.  The image catalogue has one image, so images are left out.   *)
(* Whether a sandbox is persistent may be set either way at any moment      *)
(* (POST /sandbox/{id}/persistent), so the handlers that ask take either    *)
(* branch.                                                                  *)
(***************************************************************************)
EXTENDS Naturals, FiniteSets

CONSTANTS
  Sandboxes,     \* ids a creation may draw (secrets.token_hex: never drawn twice)
  Agents,        \* agent ids the backend passes
  Calls,         \* slots for handlers suspended at an await
  MaxSandboxes,  \* config.MAX_SANDBOXES
  MaxFaults,     \* bound on cluster faults: failed creations, lost pods, crashes
  NoAgent, NoSandbox,
  Blank          \* the empty string, which release and session end write into an agent's label

ASSUME OrchestratorAssumption ==
  /\ IsFiniteSet(Sandboxes)
  /\ NoAgent \notin Agents /\ Blank \notin Agents \cup {NoAgent} /\ NoSandbox \notin Sandboxes
  /\ MaxSandboxes \in Nat /\ MaxFaults \in Nat

VARIABLES
  cache,     \* _sandbox_cache: the entry of each sandbox, status "absent" when there is none
  agentMap,  \* _agent_map
  pod,       \* the pods: phase ("none" when there is none) and the labels the code reads
  services,  \* sandboxes with a ClusterIP service
  job,       \* per slot, the handler suspended there
  drawn,     \* ids used up
  faults,
  strays,    \* history: ids that were a pod the cache did not know
  resold     \* history: sandboxes assigned while a release of them was wiping

vars == <<cache, agentMap, pod, services, job, drawn, faults, strays, resold>>
cluster == <<pod, services>>
history == <<strays, resold>>

Statuses == {"starting", "idle", "assigned", "restoring", "unhealthy", "stopped"}
Phases == {"starting", "running", "unhealthy", "stopped"}

\* What a pod's agent label may say: an agent, nothing (there is no label), or "".
Labels == Agents \cup {NoAgent, Blank}

NoEntry == [status |-> "absent", agent |-> NoAgent]
NoPod == [phase |-> "none", agent |-> NoAgent]
\* held: the entry the handler holds is still the cached one.  back: the status it will
\* write in the end.
NoJob == [op |-> "none", at |-> "none", on |-> NoSandbox, held |-> FALSE,
          back |-> "idle"]

Cached == {s \in Sandboxes : cache[s].status # "absent"}
Pods == {s \in Sandboxes : pod[s].phase # "none"}

Entries == [status : Statuses \cup {"absent"}, agent : Labels]
PodStates == [phase : Phases \cup {"none"}, agent : Labels]
Handlers == [op : {"none", "provision", "release", "restart", "restore"},
             at : {"none", "wait", "wipe", "swap", "delete", "create"},
             on : Sandboxes \cup {NoSandbox}, held : BOOLEAN, back : Statuses]

TypeOK ==
  /\ cache \in [Sandboxes -> Entries]
  /\ agentMap \in [Agents -> Sandboxes \cup {NoSandbox}]
  /\ pod \in [Sandboxes -> PodStates]
  /\ services \subseteq Sandboxes
  /\ job \in [Calls -> Handlers]
  /\ drawn \subseteq Sandboxes /\ faults \in 0..MaxFaults
  /\ strays \subseteq Sandboxes /\ resold \subseteq Sandboxes

Init ==
  /\ cache = [s \in Sandboxes |-> NoEntry] /\ agentMap = [a \in Agents |-> NoSandbox]
  /\ pod = [s \in Sandboxes |-> NoPod] /\ services = {}
  /\ job = [c \in Calls |-> NoJob]
  /\ drawn = {} /\ faults = 0 /\ strays = {} /\ resold = {}

-----------------------------------------------------------------------------
(* The cache and the map.                                                  *)

\* _agent_map.pop(agent, None), for an agent that may be None.
Popped(m, a) == IF a \in Agents THEN [m EXCEPT ![a] = NoSandbox] ELSE m
Mapped(m, a, s) == IF a \in Agents THEN [m EXCEPT ![a] = s] ELSE m

\* Handlers suspended on s go on with an entry that is no longer the cached one.
Detached(j, S) == [c \in Calls |-> IF j[c].on \in S THEN [j[c] EXCEPT !.held = FALSE] ELSE j[c]]

\* What a suspended handler writes into the entry it holds.
EntryStatus(c, st) ==
  IF job[c].held THEN [cache EXCEPT ![job[c].on].status = st] ELSE cache

Suspend(c, op, at, s, back) ==
  /\ job[c] = NoJob
  /\ job' = [job EXCEPT ![c] = [op |-> op, at |-> at, on |-> s, held |-> TRUE,
                                back |-> back]]
Answer(c) == job' = [job EXCEPT ![c] = NoJob]

\* update_pod_labels: a pod that is gone (404) is passed over.
Labelled(p, s, a) == IF p[s].phase = "none" THEN p ELSE [p EXCEPT ![s].agent = a]

Wiping(s) == \E c \in Calls : job[c].op = "release" /\ job[c].on = s

Fault == faults < MaxFaults /\ faults' = faults + 1

\* The entries and the map _rebuild_cache makes of the pods (an empty label makes an entry
\* whose agent is "", which is not None); of two pods with one
\* agent's label the later one listed is mapped.
RebuiltEntry(s) ==
  IF pod[s].phase = "none" THEN NoEntry
  ELSE [status |-> IF pod[s].agent \in Agents THEN "assigned"
                   ELSE IF pod[s].phase = "running" THEN "idle" ELSE pod[s].phase,
        agent |-> pod[s].agent]
PodsOf(a) == {s \in Pods : pod[s].agent = a}
RebuiltMap(m) ==
  \A a \in Agents : IF PodsOf(a) = {} THEN m[a] = NoSandbox ELSE m[a] \in PodsOf(a)

-----------------------------------------------------------------------------
(* Creating: provision, create, session start.                             *)

\* Mutant: one more than there may be.
MayCreateOneMore == Cardinality(Cached) <= MaxSandboxes

MayCreate == Cardinality(Cached) < MaxSandboxes

\* create_sandbox_pod makes pod and service (and a volume, which nothing here reads); then
\* come the entry, the map and the agent's label.
Created(s, a, st) ==
  /\ MayCreate /\ s \in Sandboxes \ drawn
  /\ drawn' = drawn \cup {s}
  /\ services' = services \cup {s}
  /\ pod' = [pod EXCEPT ![s] = [phase |-> "starting", agent |-> a]]
  /\ cache' = [cache EXCEPT ![s] = [status |-> st, agent |-> a]]
  /\ agentMap' = Mapped(agentMap, a, s)
  /\ UNCHANGED <<faults, history>>

\* ... which raises before the pod, or after it: the caller answers 500 and
\* caches nothing.
CreationFails(s) ==
  /\ MayCreate /\ s \in Sandboxes \ drawn /\ Fault
  /\ drawn' = drawn \cup {s}
  /\ \/ UNCHANGED <<pod, strays>>
     \/ /\ pod' = [pod EXCEPT ![s] = [NoPod EXCEPT !.phase = "starting"]]
        /\ strays' = strays \cup {s}
  /\ UNCHANGED <<cache, agentMap, services, job, resold>>

\* POST /pool/provision: "idle" before it is ready, and again whatever has happened since.
ProvisionWarm(c, s) ==
  /\ Created(s, NoAgent, "idle")
  /\ Suspend(c, "provision", "wait", s, "idle")

\* POST /sandbox/create: stays "starting".
CreateSandbox(s) == Created(s, NoAgent, "starting") /\ UNCHANGED job

\* session_start 1: the agent's own sandbox serves it and nothing changes.
HasOwn(a) ==
  a \in Agents /\ agentMap[a] \in Cached
               /\ cache[agentMap[a]].status \in {"assigned", "idle", "starting"}
Takeable == {s \in Cached : cache[s].status = "idle" /\ cache[s].agent = NoAgent}

\* session_start 2: an idle one is assigned (without an agent it is returned as it is).
StartTakesIdle(a, s) ==
  /\ ~HasOwn(a) /\ s \in Takeable
  /\ cache' = [cache EXCEPT ![s] = [status |-> "assigned", agent |-> a]]
  /\ agentMap' = [agentMap EXCEPT ![a] = s]
  /\ pod' = Labelled(pod, s, a)
  /\ resold' = IF Wiping(s) THEN resold \cup {s} ELSE resold
  /\ UNCHANGED <<services, job, drawn, faults, strays>>

\* session_start 3: a new one.
StartCreates(a, s) ==
  /\ ~HasOwn(a) /\ Takeable = {}
  /\ Created(s, a, IF a = NoAgent THEN "starting" ELSE "assigned")
  /\ UNCHANGED job

-----------------------------------------------------------------------------
(* Giving back: session end, claim, release, destroy.                      *)

\* destroy_sandbox of the manager: pod and service go, if they are there.
ClusterDestroy(s) ==
  /\ pod' = [pod EXCEPT ![s] = NoPod]
  /\ services' = services \ {s}

\* POST /session/end: a persistent sandbox becomes idle with its files, another is destroyed.
SessionEnd(a) ==
  LET s == agentMap[a] IN
  /\ s # NoSandbox
  /\ agentMap' = Popped(agentMap, a)
  /\ \/ /\ s \in Cached  \* persistent
        /\ cache' = [cache EXCEPT ![s] = [status |-> "idle", agent |-> NoAgent]]
        /\ pod' = Labelled(pod, s, Blank)
        /\ UNCHANGED <<services, job>>
     \/ /\ s \in Cached  \* not persistent
        /\ ClusterDestroy(s)
        /\ cache' = [cache EXCEPT ![s] = NoEntry] /\ job' = Detached(job, {s})
     \/ s \notin Cached /\ UNCHANGED <<cache, job, cluster>>
  /\ UNCHANGED <<drawn, faults, history>>

\* POST /sandbox/{id}/claim
Claim(s, a) ==
  /\ s \in Takeable
  /\ cache' = [cache EXCEPT ![s] = [status |-> "assigned", agent |-> a]]
  /\ agentMap' = [agentMap EXCEPT ![a] = s]
  /\ pod' = Labelled(pod, s, a)
  /\ resold' = IF Wiping(s) THEN resold \cup {s} ELSE resold
  /\ UNCHANGED <<services, job, drawn, faults, strays>>

\* Mutant: the label is left.
ReleaseEntryOnly(s, held) ==
  /\ cache' = IF held THEN [cache EXCEPT ![s] = [status |-> "idle", agent |-> NoAgent]]
             ELSE cache
  /\ UNCHANGED pod

\* The end of release: the entry is idle and nobody's; the pod's label stays, empty.
ReleaseEntry(s, held) ==
  /\ cache' = IF held THEN [cache EXCEPT ![s] = [status |-> "idle", agent |-> NoAgent]]
             ELSE cache
  /\ pod' = Labelled(pod, s, Blank)

\* POST /sandbox/{id}/release: the map first; a persistent sandbox keeps its files ...
ReleasePersistent(s) ==
  /\ s \in Cached
  /\ agentMap' = Popped(agentMap, cache[s].agent)
  /\ ReleaseEntry(s, TRUE)
  /\ UNCHANGED <<services, job, drawn, faults, history>>

\* ... the files of another are wiped, which is awaited, and only then it is idle.
ReleaseBegin(c, s) ==
  /\ s \in Cached
  /\ agentMap' = Popped(agentMap, cache[s].agent)
  /\ Suspend(c, "release", "wipe", s, "idle")
  /\ UNCHANGED <<cache, cluster, drawn, faults, history>>

ReleaseDone(c) ==
  /\ job[c].op = "release"
  /\ ReleaseEntry(job[c].on, job[c].held)
  /\ Answer(c)
  /\ UNCHANGED <<agentMap, services, drawn, faults, history>>

\* Mutant: the agent stays mapped.
DestroyKeepsMap(s) ==
  /\ s \in Cached
  /\ ClusterDestroy(s)
  /\ cache' = [cache EXCEPT ![s] = NoEntry] /\ job' = Detached(job, {s})
  /\ UNCHANGED <<agentMap, drawn, faults, history>>

\* DELETE /sandbox/{id}
Destroy(s) ==
  /\ s \in Cached
  /\ agentMap' = Popped(agentMap, cache[s].agent)
  /\ ClusterDestroy(s)
  /\ cache' = [cache EXCEPT ![s] = NoEntry] /\ job' = Detached(job, {s})
  /\ UNCHANGED <<drawn, faults, history>>

-----------------------------------------------------------------------------
(* Restart and restore.                                                    *)

\* POST /sandbox/{id}/restart: the status to come back to is decided before the await.
RestartBegin(c, s) ==
  /\ s \in Cached
  /\ Suspend(c, "restart", "delete", s, IF cache[s].agent \in Agents THEN "assigned" ELSE "idle")
  /\ UNCHANGED <<cache, agentMap, cluster, drawn, faults, history>>

\* POST /sandbox/{id}/restore
RestoreBegin(c, s) ==
  /\ s \in Cached
  /\ Suspend(c, "restore", "swap", s, cache[s].status)
  /\ cache' = [cache EXCEPT ![s].status = "restoring"]
  /\ UNCHANGED <<agentMap, cluster, drawn, faults, history>>

\* restore_from_snapshot replaces the volume (not a variable: nothing reads it); when that
\* fails the entry gets the status it had before.
VolumeSwap(c) ==
  /\ job[c].at = "swap"
  /\ \/ job' = [job EXCEPT ![c].at = "delete"] /\ UNCHANGED <<cache, faults>>
     \/ Fault /\ Answer(c) /\ cache' = EntryStatus(c, job[c].back)
  /\ UNCHANGED <<agentMap, pod, services, drawn, history>>

\* restart_sandbox reads the labels and deletes the pod; without a pod restart answers 500
\* and restore goes on to wait.
PodDelete(c) ==
  LET s == job[c].on IN
  /\ job[c].at = "delete"
  /\ \/ /\ s \in Pods /\ pod' = [pod EXCEPT ![s] = NoPod]
        /\ job' = [job EXCEPT ![c].at = "create"]
     \/ s \notin Pods /\ job[c].op = "restart" /\ Answer(c) /\ UNCHANGED pod
     \/ s \notin Pods /\ job[c].op = "restore" /\ UNCHANGED pod
        /\ job' = [job EXCEPT ![c].at = "wait"]
  /\ UNCHANGED <<cache, agentMap, services, drawn, faults, history>>

\* ... and creates it again, without an agent's label.
PodCreate(c) ==
  LET s == job[c].on IN
  /\ job[c].at = "create" /\ s \notin Pods
  /\ pod' = [pod EXCEPT ![s] = [phase |-> "starting", agent |-> NoAgent]]
  /\ services' = services \cup {s}
  /\ strays' = IF s \in Cached THEN strays ELSE strays \cup {s}
  /\ job' = [job EXCEPT ![c].at = "wait"]
  /\ UNCHANGED <<cache, agentMap, drawn, faults, resold>>

\* The name is taken by the pod of another restart, or the API refuses.
PodCreateFails(c) ==
  /\ job[c].at = "create"
  /\ (job[c].on \in Pods /\ UNCHANGED faults) \/ Fault
  /\ cache' = IF job[c].op = "restore" THEN EntryStatus(c, job[c].back) ELSE cache
  /\ Answer(c)
  /\ UNCHANGED <<agentMap, cluster, drawn, history>>

\* _wait_for_pod_ready: true only of a running pod; false in time whatever it does.
\* provision and restart write the status decided before, restore looks at the entry.
\* A handler whose entry is detached writes into an object nobody reads.
WaitEnds(c) ==
  LET s == job[c].on
      back == IF job[c].op = "restore"
              THEN IF cache[s].agent \in Agents THEN "assigned" ELSE "idle"
              ELSE job[c].back IN
  /\ job[c].at = "wait"
  /\ \/ pod[s].phase = "running" /\ cache' = EntryStatus(c, back)
     \/ cache' = EntryStatus(c, "unhealthy")
  /\ Answer(c)
  /\ UNCHANGED <<agentMap, cluster, drawn, faults, history>>

-----------------------------------------------------------------------------
(* The process and the cluster.                                            *)

Rebuild ==
  /\ cache' = [s \in Sandboxes |-> RebuiltEntry(s)]
  /\ agentMap' \in [Agents -> Sandboxes \cup {NoSandbox}] /\ RebuiltMap(agentMap')
  /\ UNCHANGED <<cluster, drawn, history>>

\* GET /pool/debug rebuilds under the handlers' feet: they hold entries of the old cache.
PoolDebug == Rebuild /\ job' = Detached(job, Sandboxes) /\ UNCHANGED faults

\* The process dies, with its handlers and their threads, and starts again.
Crash == Rebuild /\ job' = [c \in Calls |-> NoJob] /\ Fault

\* The cluster: a pod gets ready, breaks, or is taken away (node drained).
PodRuns(s) ==
  /\ pod[s].phase = "starting"
  /\ pod' = [pod EXCEPT ![s].phase = "running"]
  /\ UNCHANGED <<cache, agentMap, services, job, drawn, faults, history>>
PodBreaks(s) ==
  /\ pod[s].phase = "running" /\ Fault
  /\ \/ pod' = [pod EXCEPT ![s].phase = "unhealthy"]
     \/ pod' = [pod EXCEPT ![s] = NoPod]
  /\ UNCHANGED <<cache, agentMap, services, job, drawn, history>>

Next ==
  \/ \E s \in Sandboxes :
       \/ CreationFails(s) \/ CreateSandbox(s)
       \/ ReleasePersistent(s) \/ Destroy(s)
       \/ PodRuns(s) \/ PodBreaks(s)
  \/ \E s \in Sandboxes, a \in Agents : StartTakesIdle(a, s) \/ Claim(s, a)
  \/ \E s \in Sandboxes, a \in Agents \cup {NoAgent} : StartCreates(a, s)
  \/ \E a \in Agents : SessionEnd(a)
  \/ \E c \in Calls, s \in Sandboxes :
       \/ ProvisionWarm(c, s) \/ ReleaseBegin(c, s) \/ RestartBegin(c, s) \/ RestoreBegin(c, s)
  \/ \E c \in Calls :
       \/ ReleaseDone(c) \/ VolumeSwap(c) \/ PodDelete(c) \/ PodCreate(c)
       \/ PodCreateFails(c) \/ WaitEnds(c)
  \/ PoolDebug \/ Crash

Spec == Init /\ [][Next]_vars

-----------------------------------------------------------------------------
(* Properties.                                                             *)

\* The map and the entries agree: the sandbox an agent is mapped to is cached and says so,
\* whatever handlers interleave, the process restarts or the cluster loses.  One case is
\* excepted: release frees the sandbox after its wipe whoever has it by then, and an idle
\* one, or one whose release overlaps another, may have been assigned during the wipe.
MapPointsHome ==
  \A a \in Agents : agentMap[a] # NoSandbox =>
    \/ cache[agentMap[a]].status # "absent" /\ cache[agentMap[a]].agent = a
    \/ agentMap[a] \in resold

\* So no two agents are served by one sandbox, with that one exception.
NotShared ==
  \A a, b \in Agents :
    a # b /\ agentMap[a] = agentMap[b] => agentMap[a] \in resold \cup {NoSandbox}

\* A pod's label never names an agent its entry does not: a sandbox that was taken from an
\* agent is not given back to it when the cache is rebuilt from the labels.
LabelNeverForeign ==
  \A s \in Cached : pod[s].agent \in Agents => cache[s].agent = pod[s].agent

\* Every pod is counted, and every counted sandbox has an address, except the pods that a
\* failed creation left and the ones a restart brought back after their destruction.
PodsAccounted ==
  /\ Pods \subseteq Cached \cup strays
  /\ Cached \subseteq services \cup strays
  /\ Cardinality(Cached \ strays) <= MaxSandboxes

\* What the docstring of session_start promises, "Idle sandbox with matching OS available ->
\* assign it": an idle sandbox that no agent has can be assigned.  One that was released
\* before the cache was rebuilt cannot: its agent is "" and not None.
IdleIsTakeable ==
  \A s \in Cached : cache[s].status = "idle" /\ cache[s].agent \notin Agents => s \in Takeable

=============================================================================
