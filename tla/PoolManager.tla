----------------------------- MODULE PoolManager -----------------------------
(***************************************************************************)
(* The pool manager of the sandbox host (sandbox/pool_manager): units that *)
(* are headless containers or desktop VMs (models.py), the ports they      *)
(* listen on (port_allocator.py), the resource budget (capacity_budget.py),*)
(* the endpoints that create, swap, restart and destroy units (main.py)    *)
(* and the health and sweep loops (health_monitor.py).                     *)
(*                                                                         *)
(* The process is one event loop: an action is what a coroutine does       *)
(* between two awaits that matter to the pool.  What Docker and libvirt do *)
(* is the choice between an operation succeeding and raising.              *)
(***************************************************************************)
EXTENDS Integers, FiniteSets

CONSTANTS
  Agents,
  HeadlessUnits, DesktopUnits,  \* unit ids: token_hex(8), never given twice
  HeadlessPorts, DesktopPorts,  \* the two port ranges of config.py
  Cost,        \* kind -> resource -> what one unit takes of it
  Capacity,    \* resource -> BUDGET_CPU, BUDGET_RAM_GB, BUDGET_DISK_GB
  Limit,       \* kind -> MAX_HEADLESS, MAX_DESKTOP
  MaxTotal,    \* MAX_TOTAL_UNITS
  Calls,       \* bound of the model: requests and background tasks at a time
  Monitor, Sweeper,             \* the two loops of HealthMonitor
  NoUnit, NoAgent

Units == HeadlessUnits \cup DesktopUnits
Kinds == {"headless", "desktop"}
Resources == {"cpu", "ram", "disk"}
PortsOf(k) == IF k = "headless" THEN HeadlessPorts ELSE DesktopPorts
Ports == HeadlessPorts \cup DesktopPorts
Slots == Calls \cup {Monitor, Sweeper}

ASSUME PoolAssumption ==
  /\ HeadlessUnits \cap DesktopUnits = {} /\ NoUnit \notin Units
  /\ IsFiniteSet(Units)
  /\ NoAgent \notin Agents
  /\ HeadlessPorts \cap DesktopPorts = {} /\ Ports \subseteq Nat \ {0}
  /\ Cost \in [Kinds -> [Resources -> Nat]] /\ Capacity \in [Resources -> Nat]
  /\ \A r \in Resources : Cost["headless"][r] <= Cost["desktop"][r]
  /\ Limit \in [Kinds -> Nat] /\ MaxTotal \in Nat
  /\ Monitor \notin Calls /\ Sweeper \notin Calls /\ Monitor # Sweeper

Kind(u) == IF u \in DesktopUnits THEN "desktop" ELSE "headless"

VARIABLES
  pool,     \* PoolState: held (the keys of _units), unit (the objects), map (_agent_map)
  ports,    \* PortAllocator._used
  budget,   \* CapacityBudget: count (_headless, _desktop) and load (_cpu, _ram_gb, _disk_gb)
  job,      \* what each request, background task and loop is in the middle of
  toCheck,  \* units of the health loop's list it has not visited yet
  toSweep,  \* ... and of the sweep loop's
  crossed,  \* history: two operations that take a unit out, or put it back, met on it
  astray,   \* history: a rollback was refused, or a restart of the process kept a unit that
            \* was unhealthy or being demoted
  left      \* history: units whose operation ended without taking them out of transition

loopVars == <<toCheck, toSweep>>
vars == <<pool, ports, budget, job, loopVars, crossed, astray, left>>

Transitional == {"resetting", "promoting", "demoting"}
Statuses == {"idle", "assigned", "unhealthy"} \cup Transitional

(***************************************************************************)
(* remove        _destroy_unit or _evict: the destruction is awaited       *)
(* resetQueued, reset, zombieQueued, zombieReset                           *)
(*               background resets, created and running                    *)
(* ping          the health loop awaits the unit's answer                  *)
(* heal, healWait   _restart: the backend works; then the unit boots       *)
(***************************************************************************)
Ops == {"free", "create", "remove", "promote", "demote", "restart", "resetQueued",
        "reset", "zombieQueued", "zombieReset", "ping", "heal", "healWait"}

Jobs == [op : Ops, on : Units \cup {NoUnit}, new : Units \cup {NoUnit},
         for : Agents \cup {NoAgent}]
Free == [op |-> "free", on |-> NoUnit, new |-> NoUnit, for |-> NoAgent]

TypeOK ==
  /\ pool \in [held : SUBSET Units,
               unit : [Units -> [status : Statuses, agent : Agents \cup {NoAgent},
                                 port : Ports \cup {0}, persistent : BOOLEAN,
                                 failing : BOOLEAN]],
               map : [Agents -> Units \cup {NoUnit}]]
  /\ ports \subseteq Ports
  /\ budget \in [count : [Kinds -> Int], load : [Resources -> Int]]
  /\ job \in [Slots -> Jobs]
  /\ toCheck \subseteq Units /\ toSweep \subseteq Units
  /\ crossed \in BOOLEAN /\ astray \in BOOLEAN /\ left \subseteq pool.held

-----------------------------------------------------------------------------
(* CapacityBudget *)

Total(b) == b.count["headless"] + b.count["desktop"]

\* reserve raises nothing.
Fits(b, k) ==
  /\ b.count[k] < Limit[k] /\ Total(b) < MaxTotal
  /\ \A r \in Resources : b.load[r] + Cost[k][r] <= Capacity[r]

Reserved(b, k) == [count |-> [b.count EXCEPT ![k] = @ + 1],
                   load |-> [r \in Resources |-> b.load[r] + Cost[k][r]]]

AtLeastZero(n) == IF n < 0 THEN 0 ELSE n

Released(b, k) ==
  [count |-> [b.count EXCEPT ![k] = AtLeastZero(@ - 1)],
   load |-> [r \in Resources |-> AtLeastZero(b.load[r] - Cost[k][r])]]

Net(r) == Cost["desktop"][r] - Cost["headless"][r]

\* promote raises nothing: it looks at no disk, unlike can_promote.
MayPromote(b) ==
  /\ b.count["desktop"] < Limit["desktop"]
  /\ \A r \in {"cpu", "ram"} : b.load[r] + Net(r) <= Capacity[r]

Promoted(b) == [count |-> [k \in Kinds |-> b.count[k] + (IF k = "desktop" THEN 1 ELSE -1)],
                load |-> [r \in Resources |-> b.load[r] + Net(r)]]
Demoted(b) == [count |-> [k \in Kinds |-> b.count[k] - (IF k = "desktop" THEN 1 ELSE -1)],
               load |-> [r \in Resources |-> b.load[r] - Net(r)]]

\* rebuild_from_units
Rebuilt(n) == [count |-> n,
               load |-> [r \in Resources |-> n["headless"] * Cost["headless"][r]
                                             + n["desktop"] * Cost["desktop"][r]]]

-----------------------------------------------------------------------------
(* PortAllocator *)

Available(k) == PortsOf(k) \ ports

\* allocate: the lowest free port of the range
NextPort(k) == CHOOSE p \in Available(k) : \A q \in Available(k) : p <= q

-----------------------------------------------------------------------------
(* PoolState *)

Status(u) == pool.unit[u].status
Agent(u) == pool.unit[u].agent
Port(u) == pool.unit[u].port

Unmapped(p, a) == IF a = NoAgent THEN p ELSE [p EXCEPT !.map[a] = NoUnit]

\* the UnitState of a unit being made, not in the pool yet
Prepared(p, u, port, persistent) ==
  [p EXCEPT !.unit[u] = [status |-> "idle", agent |-> NoAgent, port |-> port,
                         persistent |-> persistent, failing |-> FALSE]]

Added(p, u) == [p EXCEPT !.held = @ \cup {u}]

Removed(p, u) ==
  IF u \in p.held THEN [Unmapped(p, p.unit[u].agent) EXCEPT !.held = @ \ {u}] ELSE p

\* u.status = s; update(u): the unit is in the pool afterwards, come what may.
Updated(p, u, s) == [p EXCEPT !.held = @ \cup {u}, !.unit[u].status = s]

Assigned(p, u, a) ==
  IF a = NoAgent THEN p
  ELSE [p EXCEPT !.unit[u] = [@ EXCEPT !.agent = a, !.status = "assigned"], !.map[a] = u]

\* the common part of release and mark_resetting
Cleared(p, u, s) ==
  IF u \in p.held
  THEN [Unmapped(p, p.unit[u].agent) EXCEPT
          !.unit[u] = [@ EXCEPT !.agent = NoAgent, !.status = s, !.failing = FALSE]]
  ELSE p

\* the status promote, demote and _restart give back to a unit
StatusFor(a) == IF a = NoAgent THEN "idle" ELSE "assigned"

\* active_count
Active(p, k) == Cardinality({u \in p.held : Kind(u) = k /\ p.unit[u].status # "unhealthy"})

-----------------------------------------------------------------------------
(* Jobs and history *)

Begin(s, op, u) == job' = [job EXCEPT ![s] = [Free EXCEPT !.op = op, !.on = u]]
BeginMaking(s, op, u, new, a) ==
  job' = [job EXCEPT ![s] = [op |-> op, on |-> u, new |-> new, for |-> a]]
End(s) == job' = [job EXCEPT ![s] = Free]

\* ids nothing refers to any more stand for the ones not drawn yet
Fresh(k) ==
  {u \in Units \ (pool.held \cup toCheck \cup toSweep) :
     /\ Kind(u) = k
     /\ \A s \in Slots : u \notin {job[s].on, job[s].new}
     /\ \A a \in Agents : pool.map[a] # u}

\* What the history remembers of a step: x, two operations met on its unit; o, it left
\* the books wrong; S, units it may leave in transition with no one to end it.
Remember(x, o, S) ==
  /\ crossed' = (crossed \/ x)
  /\ astray' = (astray \/ o)
  /\ left' = {u \in (left \cup S) \cap pool'.held : pool'.unit[u].status \in Transitional}
Quietly == Remember(FALSE, FALSE, {})

\* another operation has removed u, or is swapping it
Gone(u) == u \notin pool.held
Swapping(u) == {s \in Slots : job[s].op \in {"promote", "demote"} /\ job[s].on = u}

Init ==
  /\ pool = [held |-> {},
             unit |-> [u \in Units |-> [status |-> "idle", agent |-> NoAgent, port |-> 0,
                                        persistent |-> FALSE, failing |-> FALSE]],
             map |-> [a \in Agents |-> NoUnit]]
  /\ ports = {}
  /\ budget = Rebuilt([k \in Kinds |-> 0])
  /\ job = [s \in Slots |-> Free]
  /\ toCheck = {} /\ toSweep = {}
  /\ crossed = FALSE /\ astray = FALSE /\ left = {}

-----------------------------------------------------------------------------
(* Endpoints that finish at once *)

\* session_start 1: the agent's own unit serves it.
HasUnit(a) == a \in Agents /\ pool.map[a] \in pool.held
                           /\ Status(pool.map[a]) \in {"assigned", "idle"}
IdleUnits(k) == {u \in pool.held : Kind(u) = k /\ Status(u) = "idle"}

Unaffected == UNCHANGED <<ports, budget, loopVars>> /\ Quietly

SessionReuse(a) ==
  /\ HasUnit(a) /\ Status(pool.map[a]) = "idle"
  /\ pool' = Assigned(pool, pool.map[a], a)
  /\ UNCHANGED job /\ Unaffected

\* session_start 2: an idle unit of the kind
SessionTakeIdle(a, k) ==
  /\ ~HasUnit(a)
  /\ \E u \in IdleUnits(k) : pool' = Assigned(pool, u, a)
  /\ UNCHANGED job /\ Unaffected

SessionEndPersistent(a) ==
  LET u == pool.map[a] IN
  /\ u \in pool.held /\ pool.unit[u].persistent
  /\ pool' = Cleared(pool, u, "idle")
  /\ UNCHANGED job /\ Unaffected

AssignUnit(u, a) ==
  /\ u \in pool.held /\ Status(u) # "assigned"
  /\ pool' = Assigned(pool, u, a)
  /\ UNCHANGED job /\ Unaffected

ReleaseDesktop(u) ==
  /\ u \in pool.held /\ Kind(u) = "desktop"
  /\ pool' = Cleared(pool, u, "idle")
  /\ UNCHANGED job /\ Unaffected

SetPersistent(u, persistent) ==
  /\ u \in pool.held
  /\ pool' = [pool EXCEPT !.unit[u].persistent = persistent]
  /\ UNCHANGED job /\ Unaffected

-----------------------------------------------------------------------------
(* Creating and destroying *)

\* The budget and a port are taken before the backend is awaited.
BeginCreation(c, a, k, persistent) ==
  /\ job[c] = Free
  /\ Fits(budget, k) /\ Available(k) # {}
  /\ budget' = Reserved(budget, k)
  /\ ports' = ports \cup {NextPort(k)}
  /\ \E u \in Fresh(k) :
       /\ pool' = Prepared(pool, u, NextPort(k), persistent)
       /\ BeginMaking(c, "create", NoUnit, u, a)
  /\ UNCHANGED loopVars /\ Quietly

\* session_start 3
SessionCreate(c, a, k, persistent) ==
  /\ ~HasUnit(a) /\ IdleUnits(k) = {}
  /\ k = "desktop" => persistent
  /\ BeginCreation(c, a, k, persistent)

\* /api/sandbox/create: one more headless unit, idle ones or not
CreateSandbox(c) == BeginCreation(c, NoAgent, "headless", FALSE)

Created(c) ==
  LET j == job[c] IN
  /\ j.op = "create"
  /\ pool' = Assigned(Added(pool, j.new), j.new, j.for)
  /\ End(c) /\ Unaffected

\* Mutant of CreationFailed: the budget is kept.
CreationFailedKeepsBudget(c) ==
  LET u == job[c].new IN
  /\ job[c].op = "create"
  /\ ports' = ports \ {Port(u)}
  /\ End(c)
  /\ UNCHANGED <<pool, budget, loopVars>> /\ Quietly

CreationFailed(c) ==
  LET u == job[c].new IN
  /\ job[c].op = "create"
  /\ ports' = ports \ {Port(u)}
  /\ budget' = Released(budget, Kind(u))
  /\ End(c)
  /\ UNCHANGED <<pool, loopVars>> /\ Quietly

DestroyUnit(c, u) ==
  /\ job[c] = Free /\ u \in pool.held
  /\ Begin(c, "remove", u)
  /\ UNCHANGED pool /\ Unaffected

SessionEndDesktop(c, a) ==
  LET u == pool.map[a] IN
  /\ u \in pool.held /\ ~pool.unit[u].persistent /\ Kind(u) = "desktop"
  /\ DestroyUnit(c, u)

\* The last lines of _destroy_unit and of _evict: they ask nothing of the pool.
Destroyed(s) ==
  LET u == job[s].on IN
  /\ job[s].op = "remove"
  /\ ports' = ports \ {Port(u)}
  /\ pool' = Removed(pool, u)
  /\ budget' = Released(budget, Kind(u))
  /\ End(s)
  /\ UNCHANGED loopVars
  /\ Remember(Gone(u) \/ Swapping(u) # {}, FALSE, {})

-----------------------------------------------------------------------------
(* Resetting *)

QueueReset(c, u, op) ==
  /\ job[c] = Free
  /\ pool' = Cleared(pool, u, "resetting")
  /\ Begin(c, op, u)

ReleaseHeadless(c, u) ==
  /\ u \in pool.held /\ Kind(u) = "headless"
  /\ QueueReset(c, u, "resetQueued") /\ Unaffected

SessionEndHeadless(c, a) ==
  LET u == pool.map[a] IN
  /\ u \in pool.held /\ ~pool.unit[u].persistent
  /\ ReleaseHeadless(c, u)

\* _background_reset_headless gives up when the unit is gone.
StartReset(c) ==
  /\ job[c].op = "resetQueued"
  /\ IF job[c].on \in pool.held THEN Begin(c, "reset", job[c].on) ELSE End(c)
  /\ UNCHANGED pool /\ Unaffected

\* Mutant of ResetDone: a unit that is not ready is left as it is.
ResetDoneSilent(c) ==
  LET u == job[c].on IN
  /\ job[c].op = "reset"
  /\ \/ pool' = Cleared(pool, u, "idle")
     \/ pool' = pool
  /\ End(c) /\ Unaffected

\* ready: release; not ready, or the reset raised: unhealthy
ResetDone(c) ==
  LET u == job[c].on IN
  /\ job[c].op = "reset"
  /\ \/ pool' = Cleared(pool, u, "idle")
     \/ /\ u \in pool.held
        /\ pool' = Updated(pool, u, "unhealthy")
  /\ End(c) /\ Unaffected

RestartUnit(c, u) ==
  /\ job[c] = Free /\ u \in pool.held
  /\ pool' = Cleared(pool, u, "resetting")
  /\ BeginMaking(c, "restart", u, NoUnit, Agent(u))
  /\ Unaffected

\* assign raises for a unit that is gone, with nothing changed.
Restarted(c) ==
  LET j == job[c] IN
  /\ j.op = "restart"
  /\ pool' = IF j.on \in pool.held THEN Assigned(Cleared(pool, j.on, "idle"), j.on, j.for)
                                   ELSE pool
  /\ End(c) /\ Unaffected

RestartNotReady(c) ==
  LET u == job[c].on IN
  /\ job[c].op = "restart"
  /\ pool' = IF u \in pool.held THEN Updated(pool, u, "unhealthy") ELSE pool
  /\ End(c) /\ Unaffected

\* The backend raised: the endpoint answers 500 and the unit stays as it is.
RestartFailed(c) ==
  /\ job[c].op = "restart"
  /\ End(c)
  /\ UNCHANGED <<pool, ports, budget, loopVars>>
  /\ Remember(FALSE, FALSE, {job[c].on})

-----------------------------------------------------------------------------
(* Promoting and demoting: a unit of the other kind takes over *)

\* No look at the status of the unit, nor at what else works on it.
Promote(c, u) ==
  /\ job[c] = Free
  /\ u \in pool.held /\ Kind(u) = "headless"
  /\ MayPromote(budget) /\ Available("desktop") # {}
  /\ budget' = Promoted(budget)
  /\ ports' = ports \cup {NextPort("desktop")}
  /\ \E new \in Fresh("desktop") :
       /\ pool' = Updated(Prepared(pool, new, NextPort("desktop"), FALSE), u, "promoting")
       /\ BeginMaking(c, "promote", u, new, Agent(u))
  /\ UNCHANGED loopVars /\ Remember(Swapping(u) # {}, FALSE, {})

Demote(c, u) ==
  /\ job[c] = Free
  /\ u \in pool.held /\ Kind(u) = "desktop"
  /\ Available("headless") # {}
  /\ budget' = Demoted(budget)
  /\ ports' = ports \cup {NextPort("headless")}
  /\ \E new \in Fresh("headless") :
       /\ pool' = Updated(Prepared(pool, new, NextPort("headless"), FALSE), u, "demoting")
       /\ BeginMaking(c, "demote", u, new, Agent(u))
  /\ UNCHANGED loopVars /\ Remember(Swapping(u) # {}, FALSE, {})

\* Without a port the budget is put back and the unit gets a status for its agent.
PromoteWithoutPort(u) ==
  /\ u \in pool.held /\ Kind(u) = "headless"
  /\ MayPromote(budget) /\ Available("desktop") = {}
  /\ pool' = Updated(pool, u, StatusFor(Agent(u)))
  /\ UNCHANGED job /\ Unaffected

\* The rollback of a demotion is a promotion: ExhaustedError escapes from it.
RollBackDemotion(b, u, a) ==
  IF MayPromote(b)
  THEN /\ budget' = Promoted(b)
       /\ pool' = Updated(pool, u, StatusFor(a))
       /\ Remember(Gone(u), FALSE, {})
  ELSE /\ budget' = b
       /\ pool' = pool
       /\ Remember(FALSE, TRUE, {u})

DemoteWithoutPort(u) ==
  /\ u \in pool.held /\ Kind(u) = "desktop"
  /\ Available("headless") = {}
  /\ IF MayPromote(Demoted(budget))
     THEN /\ budget' = budget
          /\ pool' = Updated(pool, u, StatusFor(Agent(u)))
          /\ Quietly
     ELSE /\ budget' = Demoted(budget)
          /\ pool' = Updated(pool, u, "demoting")
          /\ Remember(FALSE, TRUE, {u})
  /\ UNCHANGED <<ports, job, loopVars>>

\* The new unit is in, the old one is out; the budget moved when the swap began.
Swapped(c) ==
  LET j == job[c] IN
  /\ j.op \in {"promote", "demote"}
  /\ ports' = ports \ {Port(j.on)}
  /\ pool' = Assigned(Added(Removed(pool, j.on), j.new), j.new, j.for)
  /\ End(c)
  /\ UNCHANGED <<budget, loopVars>>
  /\ Remember(Gone(j.on), FALSE, {})

\* Mutant of PromotionFailed: the port of the desktop is kept.
PromotionFailedKeepsPort(c) ==
  LET j == job[c] IN
  /\ j.op = "promote"
  /\ budget' = Demoted(budget)
  /\ pool' = Updated(pool, j.on, StatusFor(j.for))
  /\ End(c)
  /\ UNCHANGED <<ports, loopVars>>
  /\ Remember(Gone(j.on), FALSE, {})

PromotionFailed(c) ==
  LET j == job[c] IN
  /\ j.op = "promote"
  /\ ports' = ports \ {Port(j.new)}
  /\ budget' = Demoted(budget)
  /\ pool' = Updated(pool, j.on, StatusFor(j.for))
  /\ End(c)
  /\ UNCHANGED loopVars
  /\ Remember(Gone(j.on), FALSE, {})

DemotionFailed(c) ==
  LET j == job[c] IN
  /\ j.op = "demote"
  /\ ports' = ports \ {Port(j.new)}
  /\ RollBackDemotion(budget, j.on, j.for)
  /\ End(c)
  /\ UNCHANGED loopVars

-----------------------------------------------------------------------------
(* The health loop and the sweep loop: each works on the list it read, unit by unit *)

StartPass ==
  /\ job[Monitor] = Free /\ toCheck = {}
  /\ toCheck' = pool.held
  /\ UNCHANGED <<pool, ports, budget, job, toSweep>> /\ Quietly

Visit(u) ==
  /\ job[Monitor] = Free /\ u \in toCheck
  /\ toCheck' = toCheck \ {u}
  /\ UNCHANGED <<ports, budget, toSweep>>

\* A unit in transition, and a desktop in its boot grace period, is passed over.
CheckSkip(u) ==
  /\ Visit(u)
  /\ Status(u) \in Transitional \/ Kind(u) = "desktop"
  /\ UNCHANGED <<pool, job>> /\ Quietly

CheckEvict(u) ==
  /\ Visit(u)
  /\ Status(u) = "unhealthy"
  /\ Begin(Monitor, "remove", u)
  /\ UNCHANGED pool /\ Quietly

\* The guard against zombies: mark_resetting does nothing for a unit that is gone.
CheckZombie(u) ==
  /\ Visit(u)
  /\ Status(u) = "assigned" /\ ~pool.unit[u].persistent
  /\ \E c \in Calls : QueueReset(c, u, "zombieQueued")
  /\ Quietly

CheckPing(u) ==
  /\ Visit(u)
  /\ Status(u) \in {"idle", "assigned"}
  /\ Begin(Monitor, "ping", u)
  /\ UNCHANGED pool /\ Quietly

\* healthy with no failure before, or a failure below the threshold: health_failures
\* changes on the object alone
PingDone ==
  LET u == job[Monitor].on IN
  /\ job[Monitor].op = "ping"
  /\ \/ ~pool.unit[u].failing /\ pool' = pool
     \/ pool' = [pool EXCEPT !.unit[u].failing = TRUE]
  /\ End(Monitor) /\ Unaffected

\* healthy after failures: update(u)
PingRecovered ==
  LET u == job[Monitor].on IN
  /\ job[Monitor].op = "ping" /\ pool.unit[u].failing
  /\ pool' = [Updated(pool, u, Status(u)) EXCEPT !.unit[u].failing = FALSE]
  /\ End(Monitor)
  /\ UNCHANGED <<ports, budget, loopVars>>
  /\ Remember(Gone(u), FALSE, {})

\* The threshold (3 in config.py) is above one: some ping failed before.
PingFailed ==
  LET u == job[Monitor].on IN
  /\ job[Monitor].op = "ping" /\ pool.unit[u].failing
  /\ pool' = Updated(pool, u, "unhealthy")
  /\ Begin(Monitor, "heal", u)
  /\ UNCHANGED <<ports, budget, loopVars>>
  /\ Remember(Gone(u), FALSE, {})

HealBooting ==
  LET u == job[Monitor].on IN
  /\ job[Monitor].op = "heal"
  /\ pool' = [Updated(pool, u, Status(u)) EXCEPT !.unit[u].failing = FALSE]
  /\ Begin(Monitor, "healWait", u)
  /\ UNCHANGED <<ports, budget, loopVars>>
  /\ Remember(Gone(u), FALSE, {})

HealDone ==
  LET u == job[Monitor].on IN
  /\ job[Monitor].op = "healWait"
  /\ \E s \in {StatusFor(Agent(u)), "unhealthy"} : pool' = Updated(pool, u, s)
  /\ End(Monitor)
  /\ UNCHANGED <<ports, budget, loopVars>>
  /\ Remember(Gone(u), FALSE, {})

HealFailed ==
  /\ job[Monitor].op = "heal"
  /\ Begin(Monitor, "remove", job[Monitor].on)
  /\ UNCHANGED pool /\ Unaffected

\* Mutant of StartZombieReset: a desktop is given up without being released.
StartZombieResetForgets(c) ==
  LET u == job[c].on IN
  /\ job[c].op = "zombieQueued"
  /\ pool' = pool
  /\ IF Kind(u) = "desktop" THEN End(c) ELSE Begin(c, "zombieReset", u)
  /\ Unaffected

\* _reset_unit, created by the health loop; a desktop is released at once
StartZombieReset(c) ==
  LET u == job[c].on IN
  /\ job[c].op = "zombieQueued"
  /\ IF Kind(u) = "desktop"
     THEN pool' = Cleared(pool, u, "idle") /\ End(c)
     ELSE pool' = pool /\ Begin(c, "zombieReset", u)
  /\ Unaffected

ZombieReset(c) ==
  LET u == job[c].on IN
  /\ job[c].op = "zombieReset"
  /\ \/ pool' = Cleared(pool, u, "idle") /\ End(c)
     \/ pool' = pool /\ Begin(c, "remove", u)
  /\ Unaffected

StartSweep ==
  /\ job[Sweeper] = Free /\ toSweep = {}
  /\ toSweep' = pool.held
  /\ UNCHANGED <<pool, ports, budget, job, toCheck>> /\ Quietly

\* not temporary, not at rest, or used a moment ago
SweepSkip(u) ==
  /\ job[Sweeper] = Free /\ u \in toSweep
  /\ toSweep' = toSweep \ {u}
  /\ UNCHANGED <<pool, ports, budget, job, toCheck>> /\ Quietly

SweepEvict(u) ==
  /\ job[Sweeper] = Free /\ u \in toSweep
  /\ ~pool.unit[u].persistent /\ Status(u) \in {"idle", "assigned"}
  /\ toSweep' = toSweep \ {u}
  /\ Begin(Sweeper, "remove", u)
  /\ UNCHANGED <<pool, ports, budget, toCheck>> /\ Quietly

-----------------------------------------------------------------------------
(* The process stops, crashes or not, and lifespan reads the state file back. *)

RemovedAll(p, S) ==
  [p EXCEPT !.held = @ \ S,
            !.map = [a \in Agents |-> IF \E u \in S : p.unit[u].agent = a THEN NoUnit
                                                                        ELSE p.map[a]]]

Restart(dead) ==
  /\ dead \subseteq pool.held
  /\ pool' = RemovedAll(pool, dead)
  /\ ports' = {Port(u) : u \in pool'.held}
  /\ budget' = Rebuilt([k \in Kinds |-> Active(pool', k)])
  /\ job' = [s \in Slots |-> Free]
  /\ toCheck' = {} /\ toSweep' = {}
  /\ LET Off(u) == \/ pool.unit[u].status = "unhealthy"
                   \/ Kind(u) = "desktop" /\ Swapping(u) # {}
     IN  Remember(FALSE, \E u \in pool'.held : Off(u), pool'.held)

-----------------------------------------------------------------------------
AtOnce ==
  \/ \E a \in Agents : SessionReuse(a) \/ SessionEndPersistent(a)
  \/ \E a \in Agents, k \in Kinds : SessionTakeIdle(a, k)
  \/ \E u \in Units, a \in Agents : AssignUnit(u, a)
  \/ \E u \in Units, persistent \in BOOLEAN : SetPersistent(u, persistent)
  \/ \E u \in Units : ReleaseDesktop(u) \/ PromoteWithoutPort(u) \/ DemoteWithoutPort(u)

CallBegins(c) ==
  \/ \E a \in Agents \cup {NoAgent}, k \in Kinds, persistent \in BOOLEAN :
       SessionCreate(c, a, k, persistent)
  \/ CreateSandbox(c)
  \/ \E a \in Agents : SessionEndDesktop(c, a) \/ SessionEndHeadless(c, a)
  \/ \E u \in Units : \/ DestroyUnit(c, u) \/ ReleaseHeadless(c, u) \/ RestartUnit(c, u)
                      \/ Promote(c, u) \/ Demote(c, u)

CallGoesOn(c) ==
  \/ Created(c) \/ CreationFailed(c) \/ StartReset(c) \/ ResetDone(c)
  \/ Restarted(c) \/ RestartNotReady(c) \/ RestartFailed(c)
  \/ Swapped(c) \/ PromotionFailed(c) \/ DemotionFailed(c)
  \/ StartZombieReset(c) \/ ZombieReset(c)

Loops ==
  \/ StartPass \/ StartSweep
  \/ \E u \in Units : \/ CheckSkip(u) \/ CheckEvict(u) \/ CheckZombie(u) \/ CheckPing(u)
                      \/ SweepSkip(u) \/ SweepEvict(u)
  \/ PingDone \/ PingRecovered \/ PingFailed \/ HealBooting \/ HealDone \/ HealFailed

Next ==
  \/ AtOnce
  \/ \E c \in Calls : CallBegins(c) \/ CallGoesOn(c)
  \/ \E s \in Slots : Destroyed(s)
  \/ Loops
  \/ \E dead \in SUBSET pool.held : Restart(dead)

Spec == Init /\ [][Next]_vars

-----------------------------------------------------------------------------
(* Properties.  crossed and astray say where the code itself gives up the promise: *)
(* see the README for the steps that set them.                                     *)

Making == {s \in Slots : job[s].op \in {"create", "promote", "demote"}}
Made == {job[s].new : s \in Making}
Swaps(k) == {s \in Slots : job[s].op \in {"promote", "demote"} /\ Kind(job[s].on) = k}

\* What the budget is to count of kind k: the units of the pool and the ones being made,
\* less the ones that a swap is about to take out.
Counted(k) ==
  Cardinality({u \in pool.held \cup Made : Kind(u) = k}) - Cardinality(Swaps(k))

\* Through creations that fail, swaps that fail at each of their steps, evictions and
\* restarts of the process, the running totals of CapacityBudget are those of the units
\* there are: nothing is charged twice, given back twice or kept.  So the units themselves,
\* and not only the counters, stay within MAX_TOTAL_UNITS and MAX_DESKTOP; MAX_HEADLESS is
\* not here: demote looks at no limit.
BooksExact ==
  ~crossed /\ ~astray =>
    /\ budget = Rebuilt([k \in Kinds |-> Counted(k)])
    /\ Counted("headless") + Counted("desktop") <= MaxTotal
    /\ Counted("desktop") <= Limit["desktop"]

\* A port is marked used exactly while a unit of the pool or one being made has it, and
\* no two have the same: no path leaks a port, none frees one that is in use.
PortsExclusive ==
  ~crossed => /\ ports = {Port(u) : u \in pool.held \cup Made}
              /\ \A u, v \in pool.held \cup Made : Port(u) = Port(v) => u = v

\* The health loop passes over a unit that is resetting, promoting or demoting, so some
\* coroutine must still be working on it: else it is lost to the pool for good.  The
\* exceptions are the ones the code makes: a restart that raises, a demotion whose
\* rollback is refused, a restart of the process.
NobodyForgotten ==
  ~crossed => \A u \in pool.held : Status(u) \in Transitional =>
                u \in left \/ \E s \in Slots : job[s].on = u

\* The allocator returns "the next free port": no two units of the pool have one port.
\* The code breaks it, when a unit is destroyed twice.
FreePorts == \A u, v \in pool.held : Port(u) = Port(v) => u = v

-----------------------------------------------------------------------------
(* The inductive invariant behind TypeOK, PortsExclusive and NobodyForgotten *)

\* what each kind of job refers to
JobsWhole ==
  \A s \in Slots : /\ (job[s].op \in {"free", "create"}) <=> (job[s].on = NoUnit)
                   /\ s \in Making => job[s].new \in Units

Known == pool.held \cup toCheck \cup toSweep \cup {job[s].on : s \in Slots}

\* Whatever a restart of the process may find in the state file has a port.
Ported == \A u \in (Known \cup Made) \ {NoUnit} : Port(u) # 0

\* A unit being made is known to its own job alone, and nothing has touched it.
MadeApart ==
  ~crossed => \A s \in Making : /\ job[s].new \notin Known /\ Status(job[s].new) = "idle"
                                /\ \A t \in Making : job[t].new = job[s].new => t = s

\* A ping is no one to rely on: it may end without a word.
Attended ==
  ~crossed => \A u \in pool.held : Status(u) \in Transitional =>
                u \in left \/ \E s \in Slots : job[s].on = u /\ job[s].op # "ping"

\* What every step of the pool manager keeps: a unit in transition has a job that ends it,
\* a unit being made is nobody else's, and the ports are those of all of these units.
IndInv == TypeOK /\ JobsWhole /\ Ported /\ MadeApart /\ PortsExclusive /\ Attended
=============================================================================
