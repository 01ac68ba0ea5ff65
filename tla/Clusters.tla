------------------------------- MODULE Clusters -------------------------------
(***************************************************************************)
(* The agents of a project under manifests, people and tools.  Applying a  *)
(* manifest compares it with the agents of its role whose names begin with *)
(* its prefix, makes, changes and deletes agents one by one, and commits   *)
(* all of it; people, managers and the agents themselves make, change and  *)
(* delete agents meanwhile.  Of a name its words and its number are kept,  *)
(* of the memory the cluster an agent is labelled with.  The workers are   *)
(* WorkerManager's, the tasks of an agent Tasks'.                          *)
(***************************************************************************)
EXTENDS Naturals, Sequences, FiniteSets

CONSTANTS
  Agents,       \* ids, each drawn once
  Calls,        \* transactions open at a time
  Manifests,    \* what is applied: cluster, role, prefix, replicas and model
  Chosen,       \* the names people and managers give
  NoAgent, NoManifest,
  MaxRequests   \* bound on the operations begun

VARIABLES
  row,       \* agents, committed
  work,      \* the same as the holder of the row's lock sees them
  tx,        \* the transactions
  used,      \* ids drawn
  requests   \* operations begun

vars == <<row, work, tx, used, requests>>

\* validate_role, of a manifest; an agent's role is a label.
Roles == {"manager", "cto", "engineer", "worker", "researcher", "reviewer"}
Models == {m.model : m \in Manifests}
Labels == {m.cluster : m \in Manifests} \cup {"none"}
Name(words, i) == [words |-> words, number |-> i]

\* ClusterManifest and its parts: what else a manifest says is kept, or not used.
Valid(m) == m.role \in Roles /\ m.replicas \in 1..20 /\ m.cluster # "none"

Absent == [role |-> "absent"]
Agent(role, name, model, label) ==
  [role |-> role, name |-> name, model |-> model, label |-> label]

\* alone (history): nobody else has written since the manifest was compared.
Closed == [manifest |-> NoManifest, todo |-> {}, locks |-> {}, alone |-> FALSE]

Sees(c, a) == IF a \in tx[c].locks THEN work[a] ELSE row[a]

TypeOK ==
  /\ \A a \in Agents : {row[a], work[a]} \subseteq
       {Absent} \cup [role : Roles, name : [words : Seq(STRING), number : Nat],
                      model : Models, label : Labels]
  /\ \A c \in Calls : tx[c].locks \subseteq Agents /\ tx[c].alone \in BOOLEAN
  /\ used \subseteq Agents /\ requests \in 0..MaxRequests

Init ==
  /\ row = [a \in Agents |-> Absent] /\ work = row
  /\ tx = [c \in Calls |-> Closed]
  /\ used = {} /\ requests = 0

\* One row is flushed, in a transaction that has become x: nobody else is alone any more.
Put(c, a, agent, x) ==
  /\ \A d \in Calls \ {c} : a \notin tx[d].locks
  /\ work' = [work EXCEPT ![a] = agent]
  /\ tx' = [d \in Calls |-> IF d = c THEN [x EXCEPT !.locks = x.locks \cup {a}]
                            ELSE [tx[d] EXCEPT !.alone = FALSE]]
  /\ UNCHANGED row

-----------------------------------------------------------------------------
(* Manifests                                                               *)

\* The mutant counts as range() does.
NamesFromZero(m) == {Name(m.prefix, i) : i \in 0..(m.replicas - 1)}
Desired(m) == {Name(m.prefix, i) : i \in 1..m.replicas}

Begins(name, prefix) ==
  Len(prefix) <= Len(name.words) /\ SubSeq(name.words, 1, Len(prefix)) = prefix

Member(m, agent) == agent # Absent /\ agent.role = m.role /\ Begins(agent.name, m.prefix)

\* What compute_diff makes of the agents it keeps, one of each name, without the noops.
Items(m, kept) ==
  {[action |-> "create", agent |-> NoAgent, name |-> n] :
     n \in Desired(m) \ {row[a].name : a \in kept}}
  \cup {[action |-> "update", agent |-> a, name |-> row[a].name] :
     a \in {b \in kept : row[b].name \in Desired(m) /\ row[b].model # m.model}}
  \cup {[action |-> "delete", agent |-> a, name |-> row[a].name] :
     a \in {b \in kept : row[b].name \notin Desired(m)}}

Unique(S) == \A a, b \in S : row[a].name = row[b].name => a = b

\* POST /clusters/apply; of two agents of one name the dictionary has either.
Apply(c, m) ==
  LET members == {a \in Agents : Member(m, row[a])} IN
  /\ requests < MaxRequests /\ requests' = requests + 1
  /\ Valid(m) /\ tx[c] = Closed
  /\ \E kept \in SUBSET members :
       /\ Unique(kept) /\ {row[a].name : a \in kept} = {row[a].name : a \in members}
       /\ tx' = [tx EXCEPT ![c] =
            [manifest |-> m, todo |-> Items(m, kept), locks |-> {},
             alone |-> Unique(members) /\ \A d \in Calls : tx[d].locks = {}]]
  /\ UNCHANGED <<row, work, used>>

\* Items are done in their order: the replicas by number, then the deletions.
IsNext(c, i) ==
  /\ i \in tx[c].todo
  /\ \A j \in tx[c].todo :
       IF i.action = "delete" THEN j.action = "delete"
       ELSE j.action = "delete" \/ i.name.number <= j.name.number
DoneWith(c, i) == [tx[c] EXCEPT !.todo = tx[c].todo \ {i}]

ApplyCreate(c, i, a) ==
  LET m == tx[c].manifest IN
  /\ IsNext(c, i) /\ i.action = "create" /\ a \notin used
  /\ Put(c, a, Agent(m.role, i.name, m.model, m.cluster), DoneWith(c, i))
  /\ used' = used \cup {a}
  /\ UNCHANGED requests

\* The model and the label are written, whatever the row has become meanwhile.
ApplyUpdate(c, i) ==
  LET m == tx[c].manifest IN
  /\ IsNext(c, i) /\ i.action = "update" /\ Sees(c, i.agent) # Absent
  /\ Put(c, i.agent, [Sees(c, i.agent) EXCEPT !.model = m.model, !.label = m.cluster],
         DoneWith(c, i))
  /\ UNCHANGED <<used, requests>>

ApplyDelete(c, i) ==
  /\ IsNext(c, i) /\ i.action = "delete" /\ Sees(c, i.agent) # Absent
  /\ Put(c, i.agent, Absent, DoneWith(c, i))
  /\ UNCHANGED <<used, requests>>

\* The agent is gone by now.
ApplySkip(c, i) ==
  /\ IsNext(c, i) /\ i.action # "create" /\ Sees(c, i.agent) = Absent
  /\ tx' = [tx EXCEPT ![c] = DoneWith(c, i)]
  /\ UNCHANGED <<row, work, used, requests>>

-----------------------------------------------------------------------------
(* People and tools                                                        *)

\* A request of its own, or one more tool of a session.
Request(c) ==
  /\ requests < MaxRequests /\ requests' = requests + 1
  /\ tx[c].manifest = NoManifest

\* create_agent, spawn_engineer and spawn_from_template, with a name; a template's model.
Create(c, a, role, name, model) ==
  /\ Request(c) /\ a \notin used
  /\ Put(c, a, Agent(role, name, model, "none"), tx[c])
  /\ used' = used \cup {a}

\* spawn_engineer without one: engineers are counted.
SpawnUnnamed(c, a, model) ==
  LET engineers == {b \in Agents : Sees(c, b) # Absent /\ Sees(c, b).role = "engineer"} IN
  Create(c, a, "engineer", Name(<<"Engineer">>, Cardinality(engineers) + 1), model)

\* PATCH /agents/{id}: the name or the model.
Update(c, a) ==
  /\ Request(c) /\ Sees(c, a) # Absent
  /\ \/ \E name \in Chosen : Put(c, a, [Sees(c, a) EXCEPT !.name = name], tx[c])
     \/ \E model \in Models : Put(c, a, [Sees(c, a) EXCEPT !.model = model], tx[c])
  /\ UNCHANGED used

\* remove_agent, which a manager may not do to a manager or a CTO; a user may.
Remove(c, a) ==
  /\ Request(c) /\ Sees(c, a) # Absent
  /\ Put(c, a, Absent, tx[c])
  /\ UNCHANGED used

\* update_memory: the memory is the text now, and the label is gone.
UpdateMemory(c, a) ==
  /\ Request(c) /\ Sees(c, a) # Absent
  /\ Put(c, a, [Sees(c, a) EXCEPT !.label = "none"], tx[c])
  /\ UNCHANGED used

Commit(c) ==
  /\ tx[c] # Closed /\ tx[c].todo = {}
  /\ row' = [a \in Agents |-> Sees(c, a)]
  /\ work' = [a \in Agents |-> IF \E d \in Calls \ {c} : a \in tx[d].locks THEN work[a]
                               ELSE Sees(c, a)]
  /\ tx' = [tx EXCEPT ![c] = Closed]
  /\ UNCHANGED <<used, requests>>

\* An error, of the database or of a worker's start.
Rollback(c) ==
  /\ tx[c] # Closed
  /\ work' = [a \in Agents |-> IF a \in tx[c].locks THEN row[a] ELSE work[a]]
  /\ tx' = [tx EXCEPT ![c] = Closed]
  /\ UNCHANGED <<row, used, requests>>

Next ==
  \E c \in Calls :
    \/ \E m \in Manifests : Apply(c, m)
    \/ \E i \in tx[c].todo :
         ApplyUpdate(c, i) \/ ApplyDelete(c, i) \/ ApplySkip(c, i)
           \/ \E a \in Agents : ApplyCreate(c, i, a)
    \/ \E a \in Agents, model \in Models :
         \/ \E role \in {m.role : m \in Manifests}, name \in Chosen :
              Create(c, a, role, name, model)
         \/ SpawnUnnamed(c, a, model)
    \/ \E a \in Agents : Update(c, a) \/ Remove(c, a) \/ UpdateMemory(c, a)
    \/ Commit(c) \/ Rollback(c)

Spec == Init /\ [][Next]_vars

-----------------------------------------------------------------------------
(* Properties.                                                             *)

\* "Creates, updates, and deletes agents to converge the live cluster toward the desired state"
\* (cluster.py): what is committed of a manifest, during whose application nobody else has
\* written, is replicas agents of its role that begin with its prefix, numbered from 1, all of
\* its model; and no agent but those is touched.
Converges ==
  [][\A c \in Calls :
       Commit(c) /\ tx[c].manifest # NoManifest /\ tx[c].alone =>
         LET m == tx[c].manifest
             members == {a \in Agents : Member(m, row'[a])} IN
         /\ Cardinality(members) = m.replicas
         /\ {row'[a].name.number : a \in members} = 1..m.replicas
         /\ \A a \in members : row'[a].name.words = m.prefix /\ row'[a].model = m.model
         /\ \A a \in Agents \ members :
              row[a] # Absent /\ ~Member(m, row[a]) => row'[a] = row[a]]_vars
=============================================================================
