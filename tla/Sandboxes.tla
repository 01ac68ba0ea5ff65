----------------------------- MODULE Sandboxes -----------------------------
(***************************************************************************)
(* The backend's sandboxes: rows owned by users (SandboxService and        *)
(* /sandboxes), the units of the pool they stand for, and the requests,    *)
(* agent tools and reconciler passes that work on both.  A request loads   *)
(* its row, calls the pool manager, which is an await, and writes what it  *)
(* changed in the row it loaded: columns it found as it wants them are not *)
(* written (SQLAlchemy), and a row that is gone makes it fail.  From its   *)
(* flush to its commit it holds the row's lock, and others read the old    *)
(* row, so flush, the pool call between them and commit are one step.      *)
(* The units are headless; the pool's own rules are in PoolManager, here   *)
(* it may offer any unit that nobody is assigned to, or make a new one.    *)
(***************************************************************************)
EXTENDS Naturals, FiniteSets

CONSTANTS
  Users, Agents, Rows, Units,
  Calls,        \* slots for requests, tools and passes at an await
  OwnerOf,      \* the owner of an agent's project
  MaxPerUser,   \* DEFAULT_MAX_SANDBOXES_PER_USER
  MaxRequests,  \* bound on the operations that begin
  None

ASSUME SandboxesAssumption ==
  /\ OwnerOf \in [Agents -> Users] /\ IsFiniteSet(Calls) /\ Calls # {}
  /\ MaxPerUser \in Nat /\ MaxRequests \in Nat
  /\ None \notin Users \cup Agents \cup Rows \cup Units

VARIABLES
  row,       \* the committed rows (NoRow: none)
  unit,      \* the pool: state of each unit and the agent it is assigned to
  call,      \* per slot, the operation suspended there
  begun,     \* operations begun
  deleted,   \* agents whose row is deleted
  received,  \* history: rows whose owner did not create them
  odd        \* history: rows that a race, a pool call that failed, a unit that was lost, a
             \* transfer or an agent's deletion may have put at odds with the pool

vars == <<row, unit, call, begun, deleted, received, odd>>
history == <<received, odd>>

\* Of the statuses that nothing tells apart ("released", "unhealthy", "resetting") is "out".
Statuses == {"ready", "assigned", "idle", "unreachable", "out"}
RowType == [owner : Users, agent : Agents \cup {None}, unit : Units,
            status : Statuses, released : BOOLEAN]
NoRow == [owner |-> None, agent |-> None, unit |-> None, status |-> "out", released |-> FALSE]
NoCall == [op |-> "none", at |-> "none", user |-> None, agent |-> None,
           row |-> None, seen |-> NoRow, unit |-> None]

Present == {r \in Rows : row[r] # NoRow}
OwnedBy(x) == {r \in Present : row[r].owner = x}
RowsOfUnit(u) == {r \in Present : row[r].unit = u}
RowsOfAgent(a) == {r \in Present : row[r].agent = a}
Unassigned == {u \in Units : unit[u].st = "up" /\ unit[u].agent = None}

TypeOK ==
  /\ row \in [Rows -> RowType \cup {NoRow}]
  /\ unit \in [Units -> [st : {"new", "up", "gone"}, agent : Agents \cup {None}]]
  /\ call \in [Calls -> [op : {"none", "create", "acquire", "assign", "unassign", "transfer",
                               "restart", "destroy", "release", "stale"},
                         at : {"none", "pool", "write"}, user : Users \cup {None},
                         agent : Agents \cup {None}, row : Rows \cup {None},
                         seen : RowType \cup {NoRow}, unit : Units \cup {None}]]
  /\ begun \in 0..MaxRequests
  /\ deleted \subseteq Agents /\ received \subseteq Rows /\ odd \subseteq Rows

Init ==
  /\ row = [r \in Rows |-> NoRow]
  /\ unit = [u \in Units |-> [st |-> "new", agent |-> None]]
  /\ call = [c \in Calls |-> NoCall]
  /\ begun = 0 /\ deleted = {} /\ received = {} /\ odd = {}

-----------------------------------------------------------------------------
(* Steps of an operation.                                                  *)

Begin(c, k) ==
  /\ call[c] = NoCall /\ begun < MaxRequests
  /\ begun' = begun + 1
  /\ call' = [call EXCEPT ![c] = k]
  /\ UNCHANGED <<row, unit, deleted, history>>

\* One that loads row r first.
Load(c, op, at, r, x, a) ==
  r \in Present /\ Begin(c, [NoCall EXCEPT !.op = op, !.at = at, !.row = r, !.seen = row[r],
                                           !.user = x, !.agent = a])

\* The pool has answered, with a unit where one was asked for.
Goes(c, u) == call' = [call EXCEPT ![c] = [@ EXCEPT !.at = "write", !.unit = u]]
Answer(c) == call' = [call EXCEPT ![c] = NoCall] /\ UNCHANGED <<begun, deleted>>

\* The UPDATE of a row that was loaded as old and is now to be new.
Merged(r, old, new) ==
  LET Column(f) == IF old[f] = new[f] THEN row[r][f] ELSE new[f] IN
  [owner |-> Column("owner"), agent |-> Column("agent"), unit |-> Column("unit"),
   status |-> Column("status"), released |-> Column("released")]

\* It obeys the unique index on (agent_id, unit_type), the unique orchestrator_sandbox_id
\* and the foreign key of the agent.
Allowed(r, new) ==
  /\ new.agent = None \/ (new.agent \notin deleted /\ RowsOfAgent(new.agent) \subseteq {r})
  /\ RowsOfUnit(new.unit) \subseteq {r}

Update(c, new) ==
  LET r == call[c].row IN
  /\ r \in Present /\ Allowed(r, Merged(r, call[c].seen, new))
  /\ row' = [row EXCEPT ![r] = Merged(r, call[c].seen, new)]

\* Another operation has loaded the row and not ended.
Overlaps(c, r) == \E d \in Calls \ {c} : call[d].row = r
\* The rows the unit has got since the operation loaded its own.
Others(c) == RowsOfUnit(call[c].seen.unit) \ {call[c].row}
Blamed(c, cond) ==
  Others(c) \cup IF cond \/ Overlaps(c, call[c].row) THEN {call[c].row} ELSE {}
Blame(r, cond) == odd' = IF cond THEN odd \cup {r} ELSE odd

\* claim, then assign: refused (404, 409) unless the unit is there and nobody's.
Claimed(u, a) == IF u \in Unassigned THEN [unit EXCEPT ![u].agent = a] ELSE unit
Freed(u) == IF unit[u].st = "up" THEN [unit EXCEPT ![u].agent = None] ELSE unit

\* A failure of the database, or of what it obeys: nothing is written.
Fails(c) ==
  /\ call[c].at = "write" /\ call[c].op # "acquire"
  /\ \/ UNCHANGED unit
     \/ /\ call[c].row \in Present
        /\ \/ call[c].op = "assign" /\ unit' = Claimed(call[c].seen.unit, call[c].agent)
           \/ call[c].op = "unassign" /\ unit' = Freed(call[c].seen.unit)
  /\ odd' = odd \cup IF call[c].op = "create" THEN {} ELSE Others(c) \cup {call[c].row}
  /\ Answer(c)
  /\ UNCHANGED <<row, received>>

\* A unit session_start answers with: the agent's own, one that is nobody's, or a new one.
Offered(a) == {u \in Units : \/ u \in Unassigned \/ unit[u].st = "new"
                             \/ a # None /\ unit[u] = [st |-> "up", agent |-> a]}
Started(u, a) ==
  unit' = [unit EXCEPT ![u] = [st |-> "up", agent |-> IF a = None THEN @.agent ELSE a]]

-----------------------------------------------------------------------------
(* Creating.                                                               *)

\* Mutant: one more than the limit.
MayCreateAtLimit(x) == Cardinality(OwnedBy(x)) <= MaxPerUser
MayCreate(x) == Cardinality(OwnedBy(x)) < MaxPerUser

\* POST /sandboxes; a clone is one too, after a snapshot of a sandbox of its user.
CreateBegin(c, x) ==
  MayCreate(x) /\ Begin(c, [NoCall EXCEPT !.op = "create", !.at = "pool", !.user = x])

\* acquire_sandbox_for_agent for an agent without a sandbox, for the owner of its project.
AcquireBegin(c, a) ==
  /\ a \notin deleted /\ RowsOfAgent(a) = {} /\ MayCreate(OwnerOf[a])
  /\ Begin(c, [NoCall EXCEPT !.op = "acquire", !.at = "pool", !.user = OwnerOf[a], !.agent = a])

\* The pool answers, without an assignment; or it fails, with or without a new unit.
Provision(c) ==
  /\ call[c].op \in {"create", "acquire"} /\ call[c].at = "pool"
  /\ \E u \in Offered(None) :
       /\ Started(u, None)
       /\ \/ Goes(c, u) /\ UNCHANGED <<begun, deleted>>
          \/ Answer(c)
  /\ UNCHANGED <<row, history>>

NewRow(c, a) == [owner |-> call[c].user, agent |-> a, unit |-> call[c].unit,
                 status |-> IF a = None THEN "ready" ELSE "assigned", released |-> FALSE]
\* The row of a unit that has one is taken over, another unit gets a row.
Recorded(c, a, failed) ==
  LET u == call[c].unit
      taken == RowsOfUnit(u) IN
  /\ a = None \/ (a \notin deleted /\ RowsOfAgent(a) \subseteq taken)
  /\ \E r \in IF taken # {} THEN taken ELSE {r \in Rows \ Present : ~Overlaps(c, r)} :
       /\ row' = [row EXCEPT ![r] = NewRow(c, a)]
       /\ received' = IF r \in taken /\ row[r].owner # call[c].user THEN received \cup {r}
                      ELSE IF r \in taken THEN received ELSE received \ {r}
       /\ Blame(r, failed \/ u \notin Unassigned \/ Overlaps(c, r))

CreateDone(c) ==
  /\ call[c].op = "create" /\ call[c].at = "write"
  /\ Recorded(c, None, FALSE)
  /\ Answer(c)
  /\ UNCHANGED unit

\* Mutant: the pool is not told.
AcquireUntold(c) ==
  /\ call[c].op = "acquire" /\ call[c].at = "write"
  /\ Recorded(c, call[c].agent, FALSE)
  /\ Answer(c)
  /\ UNCHANGED unit

\* The agent's transaction commits at the end of its wake cycle, its claim of the unit may
\* have failed ...
AcquireDone(c) ==
  /\ call[c].op = "acquire" /\ call[c].at = "write"
  /\ \E failed \in BOOLEAN :
       /\ Recorded(c, call[c].agent, failed)
       /\ unit' = IF failed THEN unit ELSE Claimed(call[c].unit, call[c].agent)
  /\ Answer(c)

\* ... or is rolled back, and the pool keeps the assignment.
AcquireRolledBack(c) ==
  LET u == call[c].unit IN
  /\ call[c].op = "acquire" /\ call[c].at = "write"
  /\ unit' \in {unit, Claimed(u, call[c].agent)}
  /\ Answer(c)
  /\ UNCHANGED <<row, received>>
  /\ odd' = odd \cup IF unit' = unit THEN {} ELSE RowsOfUnit(u)

-----------------------------------------------------------------------------
(* Assigning.                                                              *)

AssignBegin(c, x, r, a) ==
  row[r].owner = x /\ row[r].agent = None /\ Load(c, "assign", "write", r, x, a)

\* The notification of the pool is best effort.
AssignDone(c) ==
  LET a == call[c].agent
      u == call[c].seen.unit IN
  /\ call[c].op = "assign"
  /\ Update(c, [call[c].seen EXCEPT !.agent = a, !.status = "assigned"])
  /\ unit' \in {unit, Claimed(u, a)}
  /\ odd' = odd \cup Blamed(c, unit' = unit)
  /\ Answer(c)
  /\ UNCHANGED received

UnassignBegin(c, x, r) == row[r].owner = x /\ Load(c, "unassign", "write", r, x, None)
UnassignDone(c) ==
  LET u == call[c].seen.unit IN
  /\ call[c].op = "unassign"
  /\ Update(c, [call[c].seen EXCEPT !.agent = None, !.status = "ready", !.released = TRUE])
  /\ \/ unit' = Freed(u) /\ odd' = odd \cup Blamed(c, FALSE)
     \/ unit' = unit /\ odd' = odd \cup Blamed(c, TRUE)
  /\ Answer(c)
  /\ UNCHANGED received

\* The pool is not told that the agent has lost it.
TransferBegin(c, x, r, y) ==
  row[r].owner = x /\ r \in Present
  /\ Begin(c, [NoCall EXCEPT !.op = "transfer", !.at = "write", !.row = r, !.seen = row[r],
                             !.user = y])
TransferDone(c) ==
  LET old == call[c].seen
      kept == [old EXCEPT !.owner = call[c].user] IN
  /\ call[c].op = "transfer"
  /\ Update(c, IF old.agent = None THEN kept
               ELSE [kept EXCEPT !.agent = None, !.status = "ready", !.released = TRUE])
  /\ received' = received \cup {call[c].row}
  /\ Blame(call[c].row, Overlaps(c, call[c].row) \/ old.agent # None)
  /\ Answer(c)
  /\ UNCHANGED unit

\* sandbox_end_session and remove_agent: the pool first, then the row, committed with the
\* wake cycle.
ReleaseBegin(c, a) ==
  \E r \in RowsOfAgent(a) : Load(c, "release", "pool", r, None, a)
ReleaseCall(c) ==
  /\ call[c].op = "release" /\ call[c].at = "pool"
  /\ \/ unit' = Freed(call[c].seen.unit) /\ odd' = odd \cup Others(c)
     \/ unit' = unit /\ Blame(call[c].row, TRUE)
  /\ Goes(c, call[c].unit)
  /\ UNCHANGED <<row, begun, deleted, received>>
ReleaseDone(c) ==
  /\ call[c].op = "release" /\ call[c].at = "write"
  /\ Update(c, [call[c].seen EXCEPT !.agent = None, !.status = "idle", !.released = TRUE])
  /\ Blame(call[c].row, Overlaps(c, call[c].row))
  /\ Answer(c)
  /\ UNCHANGED <<unit, received>>

\* The agent's row is deleted: ON DELETE SET NULL.
AgentDeleted(a) ==
  /\ row' = [r \in Rows |-> IF row[r].agent = a THEN [row[r] EXCEPT !.agent = None] ELSE row[r]]
  /\ a \notin deleted /\ deleted' = deleted \cup {a}
  /\ odd' = odd \cup RowsOfAgent(a)
  /\ UNCHANGED <<unit, call, begun, received>>

-----------------------------------------------------------------------------
(* Restarting, destroying, looking.                                        *)

RestartBegin(c, r) == Load(c, "restart", "pool", r, None, None)

\* The unit restarts; when the pool fails or has lost it a unit is provisioned in its place,
\* and the old one is left; when that fails too nothing is written.
RestartCall(c) ==
  LET u == call[c].seen.unit
      a == call[c].seen.agent IN
  /\ call[c].op = "restart" /\ call[c].at = "pool"
  /\ \/ /\ unit[u].st = "up" /\ UNCHANGED <<unit, odd>>
        /\ Goes(c, u)
     \/ \E v \in Offered(a) :
          /\ Started(v, a)
          /\ odd' = odd \cup (RowsOfUnit(v) \ {call[c].row})
          /\ Goes(c, v)
     \/ call' = [call EXCEPT ![c] = NoCall] /\ UNCHANGED <<unit, odd>>
  /\ UNCHANGED <<row, begun, deleted, received>>
RestartDone(c) ==
  LET old == call[c].seen IN
  /\ call[c].op = "restart" /\ call[c].at = "write"
  /\ Update(c, [old EXCEPT !.unit = call[c].unit, !.status = "ready",
                           !.released = IF call[c].unit = old.unit THEN @ ELSE FALSE])
  /\ Blame(call[c].row, Overlaps(c, call[c].row) \/ unit[call[c].unit].agent # old.agent)
  /\ Answer(c)
  /\ UNCHANGED <<unit, received>>

\* DELETE /sandboxes/{id}, and the reconciler's pass over sandboxes that were ready,
\* unassigned and released half an hour ago when it read them. Its pass over assigned
\* ones is Health; its pass over rows of deleted agents finds none, for the foreign key
\* clears agent_id.
DestroyBegin(c, x, r) == row[r].owner = x /\ Load(c, "destroy", "pool", r, x, None)
Stale(r) == r \in Present /\ row[r].status = "ready" /\ row[r].agent = None /\ row[r].released
StaleBegin(c, r) ==
  /\ Stale(r) /\ Load(c, "stale", "pool", r, None, None)
  /\ \A d \in Calls : call[d].row = r => call[d].op = "release"   \* no request is as old
DestroyCall(c) ==
  LET u == call[c].seen.unit IN
  /\ call[c].op \in {"destroy", "stale"} /\ call[c].at = "pool"
  /\ unit' \in {unit, [unit EXCEPT ![u] = [st |-> "gone", agent |-> None]]}
  /\ odd' = odd \cup Others(c)
  /\ Goes(c, call[c].unit)
  /\ UNCHANGED <<row, begun, deleted, received>>
DestroyDone(c) ==
  LET r == call[c].row IN
  /\ call[c].op \in {"destroy", "stale"} /\ call[c].at = "write" /\ r \in Present
  /\ row' = [row EXCEPT ![r] = NoRow]
  /\ received' = received \ {r}
  /\ odd' = odd \ {r}
  /\ Answer(c)
  /\ UNCHANGED unit

\* GET /sandboxes: the statuses of a user's rows follow the pool.
Synced(r) ==
  IF unit[row[r].unit].st # "up" THEN "out"
  ELSE IF unit[row[r].unit].agent = None THEN "idle" ELSE "assigned"
SyncStatus(x) ==
  /\ row' = [r \in Rows |-> IF r \in OwnedBy(x) THEN [row[r] EXCEPT !.status = Synced(r)]
                            ELSE row[r]]
  /\ UNCHANGED <<unit, call, begun, deleted, history>>

\* GET /sandboxes/{id}/health, and the reconciler's look at assigned sandboxes.
Health(r) ==
  /\ r \in Present
  /\ \/ /\ unit[row[r].unit].st = "up" /\ row[r].status = "unreachable"
        /\ row' = [row EXCEPT ![r].status = "ready"]
     \/ row' = [row EXCEPT ![r].status = "unreachable"]
     \/ row[r].status = "assigned" /\ row' = [row EXCEPT ![r].status = "out"]
  /\ UNCHANGED <<unit, call, begun, deleted, history>>

\* The pool reaps an idle unit, or loses one.
PoolDrops(u) ==
  /\ unit[u].st = "up"
  /\ unit' = [unit EXCEPT ![u] = [st |-> "gone", agent |-> None]]
  /\ odd' = odd \cup RowsOfUnit(u)
  /\ UNCHANGED <<row, call, begun, deleted, received>>

Next ==
  \/ \E c \in Calls, x \in Users : CreateBegin(c, x)
  \/ \E c \in Calls, a \in Agents : AcquireBegin(c, a) \/ ReleaseBegin(c, a)
  \/ \E c \in Calls, x \in Users, r \in Rows :
       \/ UnassignBegin(c, x, r) \/ DestroyBegin(c, x, r)
       \/ \E a \in Agents : AssignBegin(c, x, r, a)
       \/ \E y \in Users : TransferBegin(c, x, r, y)
  \/ \E c \in Calls, r \in Rows : RestartBegin(c, r) \/ StaleBegin(c, r)
  \/ \E c \in Calls :
       \/ Provision(c) \/ CreateDone(c) \/ AcquireDone(c) \/ AcquireRolledBack(c)
       \/ AssignDone(c) \/ UnassignDone(c) \/ TransferDone(c) \/ ReleaseCall(c) \/ ReleaseDone(c)
       \/ RestartCall(c) \/ RestartDone(c) \/ DestroyCall(c) \/ DestroyDone(c) \/ Fails(c)
  \/ \E a \in Agents : AgentDeleted(a)
  \/ \E x \in Users : SyncStatus(x)
  \/ \E r \in Rows : Health(r)
  \/ \E u \in Units : PoolDrops(u)

Spec == Init /\ [][Next]_vars

-----------------------------------------------------------------------------
(* Properties.                                                             *)

\* A row and the pool agree on the agent that has the sandbox, once what is under way on the
\* row has ended, and unless one of the causes history records has come up.
AgreesWithPool ==
  \A r \in Present \ odd :
    \/ unit[row[r].unit].agent = row[r].agent
    \/ \E c \in Calls : call[c].row = r /\ call[c].at = "write"

\* A user has at most one sandbox beyond the limit for each creation that overlapped
\* another, not counting those that somebody else created.
LimitOvershoot ==
  \A x \in Users :
    Cardinality(OwnedBy(x) \ received) <= MaxPerUser + Cardinality(Calls) - 1

\* "sandboxes are user-owned resources" (sandbox_service.py:5), to be given away by
\* "Transfer sandbox ownership to another user. Owner only." (api/v1/sandboxes.py): an owner
\* changes by a transfer only.
OwnerKept ==
  [][\A r \in Rows :
       row[r] # NoRow /\ row'[r] # NoRow /\ row'[r].owner # row[r].owner
         => \E c \in Calls : call[c].op = "transfer" /\ call[c].row = r]_vars

\* "3. Stale idle sandboxes: idle (ready, unassigned) for >30 min, destroy to free."
\* (reconciler.py): the reconciler destroys no sandbox that an agent has.
StaleUnassigned ==
  [][\A c \in Calls : call[c].op = "stale" /\ DestroyDone(c) => row[call[c].row].agent = None]_vars

=============================================================================
