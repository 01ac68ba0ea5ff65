-------------------------- MODULE PoolManagerProofs --------------------------
(***************************************************************************)
(* Theorems about PoolManager for any number of units, ports, agents and   *)
(* requests, and any limits.                                               *)
(*                                                                         *)
(* Most actions work on one unit that is there (QuietStep).  The others    *)
(* begin to make a unit (BeginStep), or end a job that made or removed one *)
(* (EndStep); a restart of the process is on its own.                      *)
(***************************************************************************)
EXTENDS PoolManager, FiniteSetTheorems, WellFoundedInduction, TLAPS

\* the types of TypeOK by name
UnitStates == [status : Statuses, agent : Agents \cup {NoAgent}, port : Ports \cup {0},
               persistent : BOOLEAN, failing : BOOLEAN]
Pools == [held : SUBSET Units, unit : [Units -> UnitStates],
          map : [Agents -> Units \cup {NoUnit}]]

\* the order of Nat as a relation
Less == {ss \in Nat \X Nat : ss[1] < ss[2]}

\* A set of natural numbers that is not empty has a least element.
LEMMA LeastExists ==
  ASSUME NEW S \in SUBSET Nat, S # {}
  PROVE  \E p \in S : \A q \in S : p <= q
<1>1. IsWellFoundedOn(Less, Nat)
  BY NatLessThanWellFounded DEF OpToRel, Less
<1>2. PICK p \in S : \A q \in S : <<q, p>> \notin Less
  BY <1>1, WFMin
<1>3. ASSUME NEW q \in S PROVE p <= q
  <2>1. p \in Nat /\ q \in Nat
    OBVIOUS
  <2>2. ~ (q < p)
    BY <1>2, <2>1 DEF Less
  <2> QED BY <2>1, <2>2
<1> QED BY <1>3

\* allocate returns a port of the range that is free.
LEMMA NextPortIsFree ==
  ASSUME NEW k \in Kinds, Available(k) # {}
  PROVE  NextPort(k) \in Ports /\ NextPort(k) \notin ports
<1>1. Available(k) \subseteq Ports /\ Available(k) \cap ports = {} /\ Ports \subseteq Nat
  BY PoolAssumption DEF Available, PortsOf, Ports
<1>2. \E p \in Available(k) : \A q \in Available(k) : p <= q
  BY <1>1, LeastExists
<1>3. NextPort(k) \in Available(k)
  BY <1>2 DEF NextPort
<1> QED BY <1>1, <1>3

\* remove takes the unit out and changes no unit.
LEMMA RemovedIs ==
  ASSUME NEW p \in Pools, NEW u
  PROVE  /\ Removed(p, u) \in Pools
         /\ Removed(p, u).held = p.held \ {u}
         /\ Removed(p, u).unit = p.unit
  BY DEF Removed, Unmapped, Pools

\* add puts the unit in and changes no unit.
LEMMA AddedIs ==
  ASSUME NEW p \in Pools, NEW u \in Units
  PROVE  /\ Added(p, u) \in Pools
         /\ Added(p, u).held = p.held \cup {u}
         /\ Added(p, u).unit = p.unit
  BY DEF Added, Pools

\* update changes the status of its unit alone.
LEMMA UpdatedIs ==
  ASSUME NEW p \in Pools, NEW u \in Units, NEW s \in Statuses
  PROVE  /\ Updated(p, u, s) \in Pools
         /\ Updated(p, u, s).held = p.held \cup {u}
         /\ \A v \in Units : Updated(p, u, s).unit[v].port = p.unit[v].port
         /\ \A v \in Units \ {u} : Updated(p, u, s).unit[v] = p.unit[v]
         /\ Updated(p, u, s).unit[u].status = s
<1> DEFINE r == [p.unit[u] EXCEPT !.status = s]
           unit == [p.unit EXCEPT ![u] = r]
<1>1. r \in UnitStates /\ r.status = s /\ r.port = p.unit[u].port
  BY DEF Pools, UnitStates
<1>2. unit \in [Units -> UnitStates]
  BY <1>1 DEF Pools
<1>3. Updated(p, u, s).unit = unit
  BY DEF Updated, Pools
<1>4. Updated(p, u, s) = [p EXCEPT !.held = p.held \cup {u}, !.unit = unit]
  BY <1>3 DEF Updated, Pools
<1> HIDE DEF r, unit
<1>5. Updated(p, u, s) \in Pools /\ Updated(p, u, s).held = p.held \cup {u}
  BY <1>2, <1>4 DEF Pools
<1> QED BY <1>1, <1>3, <1>5 DEF Pools, unit

\* release and mark_resetting change their unit alone, and only if it is in the pool.
LEMMA ClearedIs ==
  ASSUME NEW p \in Pools, NEW u \in Units, NEW s \in Statuses
  PROVE  /\ Cleared(p, u, s) \in Pools
         /\ Cleared(p, u, s).held = p.held
         /\ \A v \in Units : Cleared(p, u, s).unit[v].port = p.unit[v].port
         /\ \A v \in Units \ {u} : Cleared(p, u, s).unit[v] = p.unit[v]
         /\ u \in p.held => Cleared(p, u, s).unit[u].status = s
         /\ u \notin p.held => Cleared(p, u, s) = p
<1> DEFINE r == [p.unit[u] EXCEPT !.agent = NoAgent, !.status = s, !.failing = FALSE]
           unit == [p.unit EXCEPT ![u] = r]
           freed == Unmapped(p, p.unit[u].agent)
<1>1. r \in UnitStates /\ r.status = s /\ r.port = p.unit[u].port
  BY DEF Pools, UnitStates
<1>2. unit \in [Units -> UnitStates]
  BY <1>1 DEF Pools
<1>3. freed \in Pools /\ freed.held = p.held /\ freed.unit = p.unit
  BY DEF Unmapped, Pools
<1>4. CASE u \in p.held
  <2>1. Cleared(p, u, s) = [freed EXCEPT !.unit[u] = [@ EXCEPT !.agent = NoAgent,
                                                            !.status = s, !.failing = FALSE]]
    BY <1>4 DEF Cleared
  <2> HIDE DEF freed
  <2>2. Cleared(p, u, s).unit = unit
    BY <1>3, <2>1 DEF Pools
  <2>3. Cleared(p, u, s) = [freed EXCEPT !.unit = unit]
    BY <1>3, <2>1, <2>2 DEF Pools
  <2> HIDE DEF r, unit
  <2>4. Cleared(p, u, s) \in Pools /\ Cleared(p, u, s).held = p.held
    BY <1>2, <1>3, <2>3 DEF Pools
  <2> QED BY <1>1, <1>4, <2>2, <2>4 DEF Pools, unit
<1>5. CASE u \notin p.held
  BY <1>5 DEF Cleared
<1> QED BY <1>4, <1>5

\* assign changes its unit alone: it is assigned, or nothing changes.
LEMMA AssignedIs ==
  ASSUME NEW p \in Pools, NEW u \in Units, NEW a \in Agents \cup {NoAgent}
  PROVE  /\ Assigned(p, u, a) \in Pools
         /\ Assigned(p, u, a).held = p.held
         /\ \A v \in Units : Assigned(p, u, a).unit[v].port = p.unit[v].port
         /\ \A v \in Units \ {u} : Assigned(p, u, a).unit[v] = p.unit[v]
         /\ Assigned(p, u, a).unit[u].status \in {"assigned", p.unit[u].status}
<1> DEFINE r == [p.unit[u] EXCEPT !.agent = a, !.status = "assigned"]
           unit == [p.unit EXCEPT ![u] = r]
<1>1. r \in UnitStates /\ r.status = "assigned" /\ r.port = p.unit[u].port
  BY DEF Pools, UnitStates, Statuses
<1>2. unit \in [Units -> UnitStates]
  BY <1>1 DEF Pools
<1>3. CASE a # NoAgent
  <2>1. Assigned(p, u, a) = [p EXCEPT !.unit[u] = [@ EXCEPT !.agent = a, !.status = "assigned"],
                                      !.map[a] = u]
    BY <1>3 DEF Assigned
  <2>2. Assigned(p, u, a).unit = unit
    BY <2>1 DEF Pools
  <2> DEFINE map == [p.map EXCEPT ![a] = u]
  <2>3. Assigned(p, u, a) = [p EXCEPT !.unit = unit, !.map = map]
    BY <2>1, <2>2 DEF Pools
  <2>4. map \in [Agents -> Units \cup {NoUnit}]
    BY <1>3 DEF Pools
  <2> HIDE DEF r, unit, map
  <2>5. Assigned(p, u, a) \in Pools /\ Assigned(p, u, a).held = p.held
    BY <1>2, <2>3, <2>4 DEF Pools
  <2> QED BY <1>1, <2>2, <2>5 DEF Pools, unit
<1>4. CASE a = NoAgent
  BY <1>4 DEF Assigned
<1> QED BY <1>3, <1>4

\* health_failures says nothing about ports and statuses ...
LEMMA FailingIs ==
  ASSUME NEW p \in Pools, NEW u \in Units, NEW q, q = [p EXCEPT !.unit[u].failing = TRUE]
  PROVE  /\ q \in Pools /\ q.held = p.held
         /\ \A v \in Units : /\ q.unit[v].port = p.unit[v].port
                             /\ q.unit[v].status = p.unit[v].status
<1> DEFINE r == [p.unit[u] EXCEPT !.failing = TRUE]
           unit == [p.unit EXCEPT ![u] = r]
<1>1. r \in UnitStates /\ r.status = p.unit[u].status /\ r.port = p.unit[u].port
  BY DEF Pools, UnitStates
<1>2. unit \in [Units -> UnitStates]
  BY <1>1 DEF Pools
<1>3. q = [p EXCEPT !.unit = unit]
  BY DEF Pools
<1> QED BY <1>1, <1>2, <1>3 DEF Pools

\* health_failures = 0
Well(p, u) == [p EXCEPT !.unit[u].failing = FALSE]

\* ... counted up or put back to zero.
LEMMA WellIs ==
  ASSUME NEW p \in Pools, NEW u \in Units
  PROVE  /\ Well(p, u) \in Pools /\ Well(p, u).held = p.held
         /\ \A v \in Units : /\ Well(p, u).unit[v].port = p.unit[v].port
                             /\ Well(p, u).unit[v].status = p.unit[v].status
<1> DEFINE r == [p.unit[u] EXCEPT !.failing = FALSE]
           unit == [p.unit EXCEPT ![u] = r]
<1>1. r \in UnitStates /\ r.status = p.unit[u].status /\ r.port = p.unit[u].port
  BY DEF Pools, UnitStates
<1>2. unit \in [Units -> UnitStates]
  BY <1>1 DEF Pools
<1>3. Well(p, u) = [p EXCEPT !.unit = unit]
  BY DEF Pools, Well
<1> QED BY <1>1, <1>2, <1>3 DEF Pools

\* A new UnitState has the port given out for it, and is at rest.
LEMMA PreparedIs ==
  ASSUME NEW p \in Pools, NEW u \in Units, NEW port \in Ports, NEW b \in BOOLEAN
  PROVE  /\ Prepared(p, u, port, b) \in Pools
         /\ Prepared(p, u, port, b).held = p.held
         /\ \A v \in Units \ {u} : Prepared(p, u, port, b).unit[v] = p.unit[v]
         /\ Prepared(p, u, port, b).unit[u].port = port
         /\ Prepared(p, u, port, b).unit[u].status = "idle"
  BY DEF Prepared, Pools, UnitStates, Statuses

-----------------------------------------------------------------------------
(* The budget and the jobs *)

Budgets == [count : [Kinds -> Int], load : [Resources -> Int]]

\* The arithmetic of CapacityBudget stays within the integers.
LEMMA BudgetsKept ==
  ASSUME NEW b \in Budgets, NEW k \in Kinds
  PROVE  /\ Reserved(b, k) \in Budgets /\ Released(b, k) \in Budgets
         /\ Promoted(b) \in Budgets /\ Demoted(b) \in Budgets
<1>1. Cost["headless"] \in [Resources -> Nat] /\ Cost["desktop"] \in [Resources -> Nat]
      /\ Cost[k] \in [Resources -> Nat]
  BY PoolAssumption DEF Kinds
<1>2. Reserved(b, k) \in Budgets
  BY <1>1 DEF Reserved, Budgets
<1>3. Released(b, k) \in Budgets
  BY <1>1 DEF Released, Budgets, AtLeastZero
<1>4. Promoted(b) \in Budgets /\ Demoted(b) \in Budgets
  BY <1>1 DEF Promoted, Demoted, Net, Budgets
<1> QED BY <1>2, <1>3, <1>4

\* The type invariant in the words of this module.
LEMMA TypeOKIs ==
  TypeOK <=> /\ pool \in Pools /\ ports \subseteq Ports /\ budget \in Budgets
             /\ job \in [Slots -> Jobs] /\ toCheck \subseteq Units /\ toSweep \subseteq Units
             /\ crossed \in BOOLEAN /\ astray \in BOOLEAN /\ left \subseteq pool.held
  BY DEF TypeOK, Pools, UnitStates, Budgets

\* Nobody at work.
LEMMA FreeIsJob == Free \in Jobs /\ Free.op = "free" /\ Free.on = NoUnit
  BY DEF Free, Jobs, Ops

-----------------------------------------------------------------------------
(* Most steps work on one unit u in one slot s and make no unit. *)

MakingOps == {"create", "promote", "demote"}

\* u is as it should be when the step is over.
LeftInGoodHands(u, s, S) ==
  \/ pool'.unit[u].status \notin Transitional
  \/ u \in S
  \/ job'[s].on = u /\ job'[s].op # "ping"
  \/ /\ pool'.unit[u].status = pool.unit[u].status
     /\ job' = job \/ job[s].op \in {"free", "ping"}

\* Ports and membership stay, and so do all statuses but that of u.
Touched(u) ==
  /\ pool' \in Pools /\ pool'.held = pool.held
  /\ \A v \in Units : pool'.unit[v].port = pool.unit[v].port
  /\ \A v \in Units \ {u} : pool'.unit[v].status = pool.unit[v].status

\* The job of slot s, if it changes, is a job on u before and after, or none.
Worked(u, s, j) ==
  \/ job' = job
  \/ /\ job' = [job EXCEPT ![s] = j] /\ j \in Jobs
     /\ job[s].op \notin MakingOps /\ j.op \notin MakingOps
     /\ \/ j.op = "free" /\ j.on = NoUnit
        \/ j.op # "free" /\ j.on = u /\ u # NoUnit
     /\ job[s].op = "ping" \/ job[s].on \in {u, NoUnit}

QuietMove(u, s, j, o, S) ==
  /\ u \in Known \cup {NoUnit} /\ s \in Slots /\ o \in BOOLEAN
  /\ Remember(FALSE, o, S)
  /\ Touched(u) /\ Worked(u, s, j)
  /\ ports' = ports /\ budget' \in Budgets
  /\ toCheck' \subseteq toCheck \cup pool.held /\ toSweep' \subseteq toSweep \cup pool.held
  /\ u \in pool.held => LeftInGoodHands(u, s, S)

\* A step that makes no unit and changes no port keeps Ported.
LEMMA PortedKept ==
  ASSUME Ported, TypeOK', JobsWhole',
         (Known \cup Made)' \subseteq Known \cup Made \cup {NoUnit},
         \A v \in Units : pool'.unit[v].port = pool.unit[v].port
  PROVE  Ported'
<1>1. ((Known \cup Made) \ {NoUnit})' \subseteq Units
  <2>1. \A s \in Slots : job'[s].on \in Units \cup {NoUnit}
    BY DEF TypeOK, Jobs
  <2>2. Made' \subseteq Units
    BY DEF JobsWhole, Made, Making
  <2>3. pool'.held \subseteq Units /\ toCheck' \subseteq Units /\ toSweep' \subseteq Units
    BY DEF TypeOK
  <2> QED BY <2>1, <2>2, <2>3 DEF Known
<1> QED BY <1>1 DEF Ported, Port

\* A step that makes no unit and moves none in or out keeps the invariant.
LEMMA QuietStep ==
  ASSUME IndInv, NEW u, NEW s, NEW j, NEW o, NEW S, QuietMove(u, s, j, o, S)
  PROVE  IndInv'
<1>1. /\ pool \in Pools /\ ports \subseteq Ports /\ job \in [Slots -> Jobs]
      /\ toCheck \subseteq Units /\ toSweep \subseteq Units /\ left \subseteq pool.held
      /\ crossed \in BOOLEAN /\ astray \in BOOLEAN
  BY TypeOKIs DEF IndInv
<1>2. job' \in [Slots -> Jobs]
  BY <1>1 DEF QuietMove, Touched, Worked
<1>3. TypeOK'
  <2>1. toCheck' \subseteq Units /\ toSweep' \subseteq Units
    BY <1>1 DEF QuietMove, Touched, Worked, Pools
  <2>2. crossed' \in BOOLEAN /\ astray' \in BOOLEAN /\ left' \subseteq pool'.held
    BY <1>1 DEF QuietMove, Remember, Touched, Worked
  <2> QED BY <1>1, <1>2, <2>1, <2>2 DEF QuietMove, Touched, Worked, TypeOK, Pools, UnitStates, Budgets
<1>4. \A t \in Slots : \/ job'[t] = job[t]
                       \/ t = s /\ job' = [job EXCEPT ![s] = j] /\ job'[t] = j
                          /\ job[t].op \notin MakingOps /\ job'[t].op \notin MakingOps
  BY <1>1 DEF QuietMove, Touched, Worked
<1>5. JobsWhole'
  BY <1>4 DEF IndInv, JobsWhole, Making, MakingOps, QuietMove, Worked
<1>6. Making' = Making /\ \A t \in Making : job'[t] = job[t]
  BY <1>4 DEF Making, MakingOps
<1>7. ASSUME ~ crossed' PROVE ~ crossed /\ pool'.held = pool.held
  BY <1>7 DEF QuietMove, Touched, Worked, Remember
<1>8. Known' \subseteq Known \cup {NoUnit}
  BY <1>4 DEF Known, QuietMove, Touched, Worked
<1>9. MadeApart'
  <2>1. SUFFICES ASSUME ~ crossed' PROVE MadeApart'
    BY DEF MadeApart
  <2>2. Known' \subseteq Known \cup {NoUnit}
    BY <1>8
  <2>3. \A t \in Making : /\ job[t].new \in Units /\ job[t].new \notin Known \cup {NoUnit}
                          /\ Status(job[t].new) = "idle"
                          /\ \A r \in Making : job[r].new = job[t].new => r = t
    <3>1. \A t \in Making : t \in Slots /\ job[t].new \in Units
      BY DEF IndInv, JobsWhole, Making
    <3>2. NoUnit \notin Units
      BY PoolAssumption
    <3> QED BY <1>7, <2>1, <3>1, <3>2 DEF IndInv, MadeApart
  <2>4. \A t \in Making : pool'.unit[job[t].new].status = "idle"
    BY <2>3 DEF QuietMove, Touched, Worked, Status
  <2> QED BY <1>6, <2>2, <2>3, <2>4 DEF MadeApart, Status
<1>10. Ported'
  <2>1. Made' = Made
    BY <1>6 DEF Made
  <2> QED BY <1>3, <1>5, <1>8, <2>1, PortedKept DEF IndInv, QuietMove, Touched
<1>11. PortsExclusive'
  <2>1. SUFFICES ASSUME ~ crossed' PROVE PortsExclusive'
    BY DEF PortsExclusive
  <2>2. Made' = Made /\ Made \subseteq Units
    <3>1. \A t \in Making : t \in Slots /\ job[t].new \in Units
      BY DEF IndInv, JobsWhole, Making
    <3>2. Made' = {job'[t].new : t \in Making} /\ Made = {job[t].new : t \in Making}
      BY <1>6 DEF Made
    <3> QED BY <1>6, <3>1, <3>2
  <2>3. pool.held \subseteq Units
    BY <1>1 DEF Pools
  <2> QED BY <1>7, <2>1, <2>2, <2>3 DEF IndInv, PortsExclusive, Port, QuietMove, Touched
<1>12. Attended'
  <2>1. SUFFICES ASSUME ~ crossed', NEW v \in pool'.held,
                        pool'.unit[v].status \in Transitional
                 PROVE  v \in left' \/ \E t \in Slots : job'[t].on = v /\ job'[t].op # "ping"
    BY DEF Attended, Status
  <2>2. v \in pool.held /\ v \in Units /\ v # NoUnit
    BY <1>1, <1>7, <2>1, PoolAssumption DEF Pools
  <2>3. v \in left \cup S => v \in left'
    BY <2>1 DEF QuietMove, Touched, Worked, Remember
  <2>4. CASE v \notin S /\ ~ (job'[s].on = v /\ job'[s].op # "ping")
    <3>1. /\ pool'.unit[v].status = pool.unit[v].status
          /\ v = u => job' = job \/ job[s].op \in {"free", "ping"}
      BY <1>7, <2>1, <2>2, <2>4 DEF QuietMove, Touched, Worked, LeftInGoodHands
    <3>2. v \in left \/ \E t \in Slots : job[t].on = v /\ job[t].op # "ping"
      BY <1>7, <2>1, <2>2, <3>1 DEF IndInv, Attended, Status
    <3>3. ASSUME NEW t \in Slots, job[t].on = v, job[t].op # "ping"
          PROVE  job'[t] = job[t]
      <4>1. job[t].op # "free"
        BY <2>2, <3>3 DEF IndInv, JobsWhole
      <4> QED BY <1>4, <2>2, <3>1, <3>3, <4>1 DEF QuietMove, Touched, Worked
    <3> QED BY <2>3, <3>2, <3>3
  <2> QED BY <2>3, <2>4 DEF QuietMove, Touched, Worked
<1> QED BY <1>3, <1>5, <1>10, <1>9, <1>11, <1>12 DEF IndInv
-----------------------------------------------------------------------------
(* The quiet steps, action by action *)

\* What most proofs take from the invariant and the assumptions.
LEMMA Basics ==
  ASSUME IndInv
  PROVE  /\ pool \in Pools /\ ports \subseteq Ports /\ budget \in Budgets
         /\ job \in [Slots -> Jobs] /\ toCheck \subseteq Units /\ toSweep \subseteq Units
         /\ pool.held \subseteq Units /\ left \subseteq pool.held
         /\ crossed \in BOOLEAN /\ astray \in BOOLEAN
         /\ \A s \in Slots : /\ job[s].on \in Units \cup {NoUnit}
                             /\ (job[s].op \in {"free", "create"}) <=> (job[s].on = NoUnit)
         /\ NoUnit \notin Units /\ Monitor \in Slots /\ Sweeper \in Slots
         /\ Statuses \cap {"idle", "unhealthy", "assigned"} = {"idle", "unhealthy", "assigned"}
         /\ Transitional \subseteq Statuses /\ "idle" \notin Transitional
         /\ "unhealthy" \notin Transitional /\ "assigned" \notin Transitional
<1>1. TypeOK /\ JobsWhole
  BY DEF IndInv
<1> QED BY <1>1, TypeOKIs, PoolAssumption
        DEF Pools, Jobs, JobsWhole, Slots, Statuses, Transitional

\* The status that promote, demote and _restart give back is one of rest.
LEMMA StatusForIs ==
  ASSUME NEW a PROVE StatusFor(a) \in Statuses /\ StatusFor(a) \notin Transitional
  BY DEF StatusFor, Statuses, Transitional

\* release and mark_resetting touch one unit.
LEMMA TouchedByClear ==
  ASSUME pool \in Pools, NEW u \in Units, NEW s \in Statuses, pool' = Cleared(pool, u, s)
  PROVE  /\ Touched(u)
         /\ u \in pool.held => pool'.unit[u].status = s
         /\ u \notin pool.held => pool' = pool
  BY ClearedIs DEF Touched

\* assign touches one unit.
LEMMA TouchedByAssign ==
  ASSUME pool \in Pools, NEW u \in Units, NEW a \in Agents \cup {NoAgent},
         pool' = Assigned(pool, u, a)
  PROVE  /\ Touched(u)
         /\ pool'.unit[u].status \in {"assigned", pool.unit[u].status}
  BY AssignedIs DEF Touched

\* update touches one unit when it is in the pool.
LEMMA TouchedByUpdate ==
  ASSUME pool \in Pools, NEW u \in Units, u \in pool.held, NEW s \in Statuses,
         pool' = Updated(pool, u, s)
  PROVE  Touched(u) /\ pool'.unit[u].status = s
<1>1. pool'.held = pool.held \cup {u} /\ pool.held \cup {u} = pool.held
  BY UpdatedIs
<1> QED BY <1>1, UpdatedIs DEF Touched

\* A failed ping touches one unit.
LEMMA TouchedByFailing ==
  ASSUME pool \in Pools, NEW u \in Units, pool' = [pool EXCEPT !.unit[u].failing = TRUE]
  PROVE  Touched(u) /\ pool'.unit[u].status = pool.unit[u].status
<1>1. /\ pool' \in Pools /\ pool'.held = pool.held
      /\ \A v \in Units : /\ pool'.unit[v].port = pool.unit[v].port
                          /\ pool'.unit[v].status = pool.unit[v].status
  BY FailingIs
<1> QED BY <1>1 DEF Touched

\* What the health loop writes back when a unit answers again, or boots.
LEMMA WrittenBackIs ==
  ASSUME pool \in Pools, NEW u \in Units, NEW s \in Statuses,
         pool' = Well(Updated(pool, u, s), u)
  PROVE  /\ pool' \in Pools /\ pool'.held = pool.held \cup {u} /\ pool'.unit[u].status = s
         /\ \A v \in Units : pool'.unit[v].port = pool.unit[v].port
         /\ \A v \in Units \ {u} : pool'.unit[v].status = pool.unit[v].status
<1> DEFINE q == Updated(pool, u, s)
<1>1. pool' = Well(q, u)
  OBVIOUS
<1> HIDE DEF q
<1>2. /\ q \in Pools /\ q.held = pool.held \cup {u} /\ q.unit[u].status = s
      /\ \A v \in Units : q.unit[v].port = pool.unit[v].port
      /\ \A v \in Units \ {u} : q.unit[v] = pool.unit[v]
  BY UpdatedIs DEF q
<1>3. /\ Well(q, u) \in Pools /\ Well(q, u).held = q.held
      /\ \A v \in Units : /\ Well(q, u).unit[v].port = q.unit[v].port
                          /\ Well(q, u).unit[v].status = q.unit[v].status
  BY ONLY u \in Units, <1>2, WellIs
<1> HIDE DEF Pools
<1> QED BY ONLY u \in Units, <1>1, <1>2, <1>3

\* No change at all.
LEMMA TouchedByNothing ==
  ASSUME pool \in Pools, NEW u, pool' = pool
  PROVE  Touched(u)
  BY DEF Touched

\* An endpoint that finishes at once changes one unit of the pool and nothing else.
LEMMA UnaffectedIsQuiet ==
  ASSUME NEW u \in Units, u \in pool.held, budget \in Budgets, Touched(u), Unaffected,
         UNCHANGED job,
         pool'.unit[u].status \in Transitional => pool'.unit[u].status = pool.unit[u].status
  PROVE  QuietMove(u, Monitor, Free, FALSE, {})
<1>1. LeftInGoodHands(u, Monitor, {})
  BY DEF LeftInGoodHands
<1>2. Worked(u, Monitor, Free) /\ u \in Known /\ Monitor \in Slots
  BY DEF Worked, Known, Slots
<1> QED BY <1>1, <1>2 DEF Unaffected, Quietly, QuietMove, loopVars

\* The endpoints that finish at once are quiet.
LEMMA AtOnceKeeps ==
  ASSUME IndInv, AtOnce
  PROVE  IndInv'
<1> USE Basics
<1>1. ASSUME NEW a \in Agents, SessionReuse(a) PROVE IndInv'
  <2> DEFINE u == pool.map[a]
  <2>1. u \in pool.held /\ u \in Units /\ pool' = Assigned(pool, u, a)
    BY <1>1 DEF SessionReuse, HasUnit
  <2>2. QuietMove(u, Monitor, Free, FALSE, {})
    BY <1>1, <2>1, TouchedByAssign, UnaffectedIsQuiet DEF SessionReuse, Transitional
  <2> QED BY <2>2, QuietStep
<1>2. ASSUME NEW a \in Agents, SessionEndPersistent(a) PROVE IndInv'
  <2> DEFINE u == pool.map[a]
  <2>1. u \in pool.held /\ u \in Units /\ pool' = Cleared(pool, u, "idle")
    BY <1>2 DEF SessionEndPersistent
  <2>2. QuietMove(u, Monitor, Free, FALSE, {})
    BY <1>2, <2>1, TouchedByClear, UnaffectedIsQuiet DEF SessionEndPersistent, Transitional
  <2> QED BY <2>2, QuietStep
<1>3. ASSUME NEW a \in Agents, NEW k \in Kinds, SessionTakeIdle(a, k) PROVE IndInv'
  <2>1. PICK u \in IdleUnits(k) : pool' = Assigned(pool, u, a)
    BY <1>3 DEF SessionTakeIdle
  <2>2. u \in pool.held /\ u \in Units
    BY DEF IdleUnits
  <2>3. QuietMove(u, Monitor, Free, FALSE, {})
    BY <1>3, <2>1, <2>2, TouchedByAssign, UnaffectedIsQuiet DEF SessionTakeIdle, Transitional
  <2> QED BY <2>3, QuietStep
<1>4. ASSUME NEW u \in Units, NEW a \in Agents, AssignUnit(u, a) PROVE IndInv'
  <2>1. QuietMove(u, Monitor, Free, FALSE, {})
    BY <1>4, TouchedByAssign, UnaffectedIsQuiet DEF AssignUnit, Transitional
  <2> QED BY <2>1, QuietStep
<1>5. ASSUME NEW u \in Units, ReleaseDesktop(u) PROVE IndInv'
  <2>1. QuietMove(u, Monitor, Free, FALSE, {})
    BY <1>5, TouchedByClear, UnaffectedIsQuiet DEF ReleaseDesktop, Transitional
  <2> QED BY <2>1, QuietStep
<1>6. ASSUME NEW u \in Units, NEW b \in BOOLEAN, SetPersistent(u, b) PROVE IndInv'
  <2> DEFINE r == [pool.unit[u] EXCEPT !.persistent = b]
             unit == [pool.unit EXCEPT ![u] = r]
  <2>1. pool' = [pool EXCEPT !.unit = unit]
    BY <1>6 DEF SetPersistent, Pools
  <2>2. r \in UnitStates /\ r.status = pool.unit[u].status /\ r.port = pool.unit[u].port
    BY DEF Pools, UnitStates
  <2>3. Touched(u) /\ pool'.unit[u].status = pool.unit[u].status
    BY <2>1, <2>2 DEF Touched, Pools
  <2>4. QuietMove(u, Monitor, Free, FALSE, {})
    BY <1>6, <2>3, UnaffectedIsQuiet DEF SetPersistent
  <2> QED BY <2>4, QuietStep
<1>7. ASSUME NEW u \in Units, PromoteWithoutPort(u) PROVE IndInv'
  <2> DEFINE s == StatusFor(Agent(u))
  <2>1. s \in Statuses /\ s \notin Transitional
    BY StatusForIs
  <2>2. u \in pool.held /\ pool' = Updated(pool, u, s)
    BY <1>7 DEF PromoteWithoutPort
  <2>3. Touched(u) /\ pool'.unit[u].status = s
    BY <2>1, <2>2, TouchedByUpdate
  <2>4. QuietMove(u, Monitor, Free, FALSE, {})
    BY <1>7, <2>1, <2>2, <2>3, UnaffectedIsQuiet DEF PromoteWithoutPort
  <2> QED BY <2>4, QuietStep
<1>8. ASSUME NEW u \in Units, DemoteWithoutPort(u) PROVE IndInv'
  <2> DEFINE s == StatusFor(Agent(u))
  <2>1. u \in pool.held /\ Demoted(budget) \in Budgets
    BY <1>8, BudgetsKept DEF DemoteWithoutPort, Kinds
  <2>2. s \in Statuses /\ s \notin Transitional /\ "demoting" \in Statuses
    BY StatusForIs DEF Statuses, Transitional
  <2>3. pool' = Updated(pool, u, s) => Touched(u) /\ pool'.unit[u].status = s
    BY <2>1, <2>2, TouchedByUpdate
  <2>4. pool' = Updated(pool, u, "demoting") => Touched(u)
    BY <2>1, <2>2, TouchedByUpdate
  <2>5. \/ QuietMove(u, Monitor, Free, FALSE, {})
        \/ QuietMove(u, Monitor, Free, TRUE, {u})
    BY <1>8, <2>1, <2>2, <2>3, <2>4
       DEF DemoteWithoutPort, Quietly, QuietMove, Worked, LeftInGoodHands, Known, loopVars
  <2> QED BY <2>5, QuietStep
<1> QED BY <1>1, <1>2, <1>3, <1>4, <1>5, <1>6, <1>7, <1>8 DEF AtOnce

\* The quiet beginnings of a request
JobOn(op, u) == [Free EXCEPT !.op = op, !.on = u]

\* A job on one unit begins, or follows another on the same unit.
LEMMA BegunIs ==
  ASSUME IndInv, NEW s \in Slots, NEW op \in Ops, op \notin MakingOps, op # "free",
         NEW u \in Units, job[s].op \notin MakingOps,
         job[s].op = "ping" \/ job[s].on \in {u, NoUnit},
         Begin(s, op, u)
  PROVE  Worked(u, s, JobOn(op, u)) /\ job'[s].on = u /\ job'[s].op = op
<1>1. JobOn(op, u) \in Jobs /\ JobOn(op, u).op = op /\ JobOn(op, u).on = u
  BY DEF JobOn, Free, Jobs, Ops
<1>2. job' = [job EXCEPT ![s] = JobOn(op, u)]
  BY DEF Begin, JobOn
<1>3. u # NoUnit /\ job'[s] = JobOn(op, u)
  BY <1>2, Basics
<1> QED BY <1>1, <1>2, <1>3 DEF Worked

\* A job that makes no unit ends.
LEMMA EndedIs ==
  ASSUME IndInv, NEW s \in Slots, job[s].op \notin MakingOps, End(s)
  PROVE  Worked(job[s].on, s, Free)
  BY FreeIsJob DEF End, Worked, MakingOps

\* Once operations have met on a unit, only the types are left to keep.
LEMMA MetStep ==
  ASSUME IndInv, crossed', NEW x, NEW o, NEW S, Remember(x, o, S),
         pool' \in Pools, ports' \subseteq Ports, budget' \in Budgets,
         job' \in [Slots -> Jobs], JobsWhole', toCheck' \subseteq Units, toSweep' \subseteq Units,
         (Known \cup Made)' \subseteq Known \cup Made \cup {NoUnit},
         \A v \in Units : pool'.unit[v].port = pool.unit[v].port
  PROVE  IndInv'
<1>1. crossed' \in BOOLEAN /\ astray' \in BOOLEAN /\ left' \subseteq pool'.held
  BY DEF Remember
<1>2. TypeOK'
  BY <1>1 DEF TypeOK, Pools, UnitStates, Budgets
<1>3. MadeApart' /\ PortsExclusive' /\ Attended'
  BY DEF MadeApart, PortsExclusive, Attended
<1>4. Ported'
  BY <1>2, PortedKept DEF IndInv
<1> QED BY <1>2, <1>3, <1>4 DEF IndInv

\* Work on one unit keeps the jobs whole and makes nothing.
LEMMA WorkedKeepsJobs ==
  ASSUME IndInv, NEW u \in Units, NEW s \in Slots, NEW j, Worked(u, s, j)
  PROVE  /\ job' \in [Slots -> Jobs] /\ JobsWhole' /\ Made' = Made
         /\ \A t \in Slots : job'[t].on \in {job[t].on, u, NoUnit}
<1>1. job' = job \/ (job' # job /\ \A t \in Slots : job'[t] = IF t = s THEN j ELSE job[t])
  BY Basics DEF Worked
<1>2. JobsWhole'
  BY <1>1, Basics DEF Worked, JobsWhole, IndInv, Making, MakingOps
<1>3. Made' = Made
  <2>1. Making' = Making /\ \A t \in Making : job'[t] = job[t]
    BY <1>1 DEF Making, MakingOps, Worked
  <2> QED BY <2>1 DEF Made
<1>4. \A t \in Slots : job'[t].on \in {job[t].on, u, NoUnit}
  BY <1>1 DEF Worked
<1> QED BY <1>2, <1>3, <1>4, Basics DEF Worked

\* mark_resetting and create_task of a reset are quiet.
LEMMA QueueResetKeeps ==
  ASSUME IndInv, NEW c \in Slots, NEW u \in Units, u \in Known,
         NEW op \in {"resetQueued", "zombieQueued"},
         QueueReset(c, u, op), Quietly, UNCHANGED <<ports, budget>>,
         toCheck' \subseteq toCheck, toSweep' \subseteq toSweep
  PROVE  IndInv'
<1>1. /\ Worked(u, c, JobOn(op, u))
      /\ job'[c].on = u /\ job'[c].op = op
  <2>1. job[c].op = "free" /\ job[c].on = NoUnit /\ Begin(c, op, u)
    BY FreeIsJob DEF QueueReset
  <2>2. op \in Ops /\ op \notin MakingOps /\ op # "free" /\ "free" \notin MakingOps
    BY DEF Ops, MakingOps
  <2> QED BY <2>1, <2>2, BegunIs
<1>2. Touched(u)
  BY TouchedByClear, Basics DEF QueueReset, Transitional
<1>3. QuietMove(u, c, JobOn(op, u), FALSE, {})
  BY <1>1, <1>2, Basics DEF QuietMove, Quietly, LeftInGoodHands
<1> QED BY <1>3, QuietStep

\* The start of _destroy_unit is quiet.
LEMMA DestroyUnitKeeps ==
  ASSUME IndInv, NEW c \in Slots, NEW u \in Units, DestroyUnit(c, u)
  PROVE  IndInv'
<1>1. /\ Worked(u, c, JobOn("remove", u))
      /\ job'[c].on = u /\ job'[c].op = "remove"
  <2>1. job[c].op = "free" /\ job[c].on = NoUnit /\ Begin(c, "remove", u)
    BY FreeIsJob DEF DestroyUnit
  <2>2. "remove" \in Ops /\ "remove" \notin MakingOps /\ "free" \notin MakingOps
    BY DEF Ops, MakingOps
  <2> QED BY <2>1, <2>2, BegunIs
<1>2. Touched(u)
  BY TouchedByNothing, Basics DEF DestroyUnit
<1>3. QuietMove(u, c, JobOn("remove", u), FALSE, {})
  BY <1>1, <1>2, Basics
     DEF DestroyUnit, Unaffected, Quietly, QuietMove, LeftInGoodHands, Known, loopVars
<1> QED BY <1>3, QuietStep

\* The release of a headless unit is quiet.
LEMMA ReleaseHeadlessKeeps ==
  ASSUME IndInv, NEW c \in Slots, NEW u \in Units, ReleaseHeadless(c, u)
  PROVE  IndInv'
  BY QueueResetKeeps DEF ReleaseHeadless, Unaffected, Known, loopVars

\* The start of the restart of a unit is quiet.
LEMMA RestartUnitKeeps ==
  ASSUME IndInv, NEW c \in Slots, NEW u \in Units, RestartUnit(c, u)
  PROVE  IndInv'
<1> DEFINE j == [op |-> "restart", on |-> u, new |-> NoUnit, for |-> Agent(u)]
<1>1. j \in Jobs
  <2>1. Agent(u) \in Agents \cup {NoAgent}
    BY Basics DEF Agent, Pools, UnitStates
  <2> QED BY <2>1 DEF Jobs, Ops
<1>2. job[c].op = "free" /\ job[c].on = NoUnit /\ job' = [job EXCEPT ![c] = j]
  BY FreeIsJob DEF RestartUnit, BeginMaking
<1>3. u # NoUnit /\ job'[c] = j
  BY <1>2, Basics
<1>4. Worked(u, c, j)
  BY <1>1, <1>2, <1>3 DEF Worked, MakingOps
<1>5. Touched(u)
  BY TouchedByClear, Basics DEF RestartUnit, Transitional
<1>6. job'[c].op = "restart" /\ job'[c].on = u
  BY <1>3
<1> HIDE DEF j
<1>7. QuietMove(u, c, j, FALSE, {})
  BY <1>4, <1>5, <1>6, Basics
     DEF RestartUnit, Unaffected, Quietly, QuietMove, LeftInGoodHands, Known, loopVars
<1> QED BY <1>7, QuietStep

\* A request or task of slot c goes on; none of these makes a unit.
LEMMA GoesOnQuietly ==
  ASSUME IndInv, NEW c \in Slots,
         \/ StartReset(c) \/ ResetDone(c) \/ Restarted(c) \/ RestartNotReady(c)
         \/ RestartFailed(c) \/ StartZombieReset(c) \/ ZombieReset(c)
  PROVE  IndInv'
<1> DEFINE u == job[c].on
<1> USE Basics
<1>1. /\ u \in Units /\ u # NoUnit /\ u \in Known
      /\ job[c].op \notin MakingOps /\ job[c].op \notin {"free", "ping"}
  BY DEF StartReset, ResetDone, Restarted, RestartNotReady, RestartFailed, StartZombieReset,
         ZombieReset, MakingOps, Known
<1>2. ASSUME End(c) PROVE Worked(u, c, Free)
  BY <1>1, <1>2, EndedIs
<1>3. ASSUME NEW op \in {"reset", "zombieReset", "remove"}, Begin(c, op, u)
      PROVE  Worked(u, c, JobOn(op, u)) /\ job'[c].on = u /\ job'[c].op # "ping"
  <2>1. op \in Ops /\ op \notin MakingOps /\ op \notin {"free", "ping"}
    BY DEF Ops, MakingOps
  <2> QED BY <1>1, <1>3, <2>1, BegunIs
<1>4. /\ {"idle", "unhealthy", "assigned", "resetting"} \subseteq Statuses
  BY DEF Statuses, Transitional
<1> HIDE DEF u
<1>5. CASE StartReset(c)
  <2>1. Touched(u)
    BY <1>5, TouchedByNothing DEF StartReset
  <2>2. CASE u \in pool.held
    <3>1. Begin(c, "reset", u)
      BY <1>5, <2>2 DEF StartReset, u
    <3>2. QuietMove(u, c, JobOn("reset", u), FALSE, {})
      BY <1>1, <1>3, <1>5, <2>1, <3>1
         DEF StartReset, QuietMove, LeftInGoodHands, Quietly, Unaffected, loopVars
    <3> QED BY <3>2, QuietStep
  <2>3. CASE u \notin pool.held
    <3>1. End(c)
      BY <1>5, <2>3 DEF StartReset, u
    <3>2. QuietMove(u, c, Free, FALSE, {})
      BY <1>1, <1>2, <1>5, <2>1, <2>3, <3>1
         DEF StartReset, QuietMove, Quietly, Unaffected, loopVars
    <3> QED BY <3>2, QuietStep
  <2> QED BY <2>2, <2>3
<1>6. CASE ResetDone(c)
  <2>1. /\ Touched(u)
        /\ u \in pool.held => pool'.unit[u].status \in {"idle", "unhealthy"}
    BY <1>1, <1>4, <1>6, TouchedByClear, TouchedByUpdate DEF ResetDone, u
  <2>2. QuietMove(u, c, Free, FALSE, {})
    BY <1>1, <1>2, <1>6, <2>1
       DEF ResetDone, QuietMove, LeftInGoodHands, Quietly, Unaffected, loopVars
  <2> QED BY <2>2, QuietStep
<1>7. CASE Restarted(c)
  <2>1. /\ Touched(u)
        /\ u \in pool.held => pool'.unit[u].status \in {"idle", "assigned"}
    <3> DEFINE p == Cleared(pool, u, "idle")
    <3>1. job[c].for \in Agents \cup {NoAgent}
      BY DEF Jobs
    <3>2. /\ p \in Pools /\ p.held = pool.held
          /\ \A v \in Units : p.unit[v].port = pool.unit[v].port
          /\ \A v \in Units \ {u} : p.unit[v] = pool.unit[v]
          /\ u \in pool.held => p.unit[u].status = "idle"
      BY <1>1, <1>4, ClearedIs
    <3>3. pool' = IF u \in pool.held THEN Assigned(p, u, job[c].for) ELSE pool
      BY <1>7 DEF Restarted, u
    <3> HIDE DEF p
    <3> QED BY <1>1, <3>1, <3>2, <3>3, AssignedIs, TouchedByNothing DEF Touched
  <2>2. QuietMove(u, c, Free, FALSE, {})
    BY <1>1, <1>2, <1>7, <2>1
       DEF Restarted, QuietMove, LeftInGoodHands, Quietly, Unaffected, loopVars
  <2> QED BY <2>2, QuietStep
<1>8. CASE RestartNotReady(c)
  <2>1. /\ Touched(u)
        /\ u \in pool.held => pool'.unit[u].status = "unhealthy"
    BY <1>1, <1>4, <1>8, TouchedByNothing, TouchedByUpdate DEF RestartNotReady, u
  <2>2. QuietMove(u, c, Free, FALSE, {})
    BY <1>1, <1>2, <1>8, <2>1
       DEF RestartNotReady, QuietMove, LeftInGoodHands, Quietly, Unaffected, loopVars
  <2> QED BY <2>2, QuietStep
<1>9. CASE RestartFailed(c)
  <2>1. Touched(u)
    BY <1>9, TouchedByNothing DEF RestartFailed
  <2>2. QuietMove(u, c, Free, FALSE, {u})
    BY <1>1, <1>2, <1>9, <2>1
       DEF RestartFailed, QuietMove, LeftInGoodHands, loopVars, u
  <2> QED BY <2>2, QuietStep
<1>10. CASE StartZombieReset(c)
  <2>1. CASE End(c) /\ pool' = Cleared(pool, u, "idle")
    <3>1. Touched(u) /\ (u \in pool.held => pool'.unit[u].status = "idle")
      BY <1>1, <1>4, <2>1, TouchedByClear
    <3>2. QuietMove(u, c, Free, FALSE, {})
      BY <1>1, <1>2, <1>10, <2>1, <3>1
         DEF StartZombieReset, QuietMove, LeftInGoodHands, Quietly, Unaffected, loopVars
    <3> QED BY <3>2, QuietStep
  <2>2. CASE Begin(c, "zombieReset", u) /\ pool' = pool
    <3>1. QuietMove(u, c, JobOn("zombieReset", u), FALSE, {})
      BY <1>1, <1>3, <1>10, <2>2, TouchedByNothing
         DEF StartZombieReset, QuietMove, LeftInGoodHands, Quietly, Unaffected, loopVars
    <3> QED BY <3>1, QuietStep
  <2> QED BY <1>10, <2>1, <2>2 DEF StartZombieReset, u
<1>11. CASE ZombieReset(c)
  <2>1. CASE End(c) /\ pool' = Cleared(pool, u, "idle")
    <3>1. Touched(u) /\ (u \in pool.held => pool'.unit[u].status = "idle")
      BY <1>1, <1>4, <2>1, TouchedByClear
    <3>2. QuietMove(u, c, Free, FALSE, {})
      BY <1>1, <1>2, <1>11, <2>1, <3>1
         DEF ZombieReset, QuietMove, LeftInGoodHands, Quietly, Unaffected, loopVars
    <3> QED BY <3>2, QuietStep
  <2>2. CASE Begin(c, "remove", u) /\ pool' = pool
    <3>1. QuietMove(u, c, JobOn("remove", u), FALSE, {})
      BY <1>1, <1>3, <1>11, <2>2, TouchedByNothing
         DEF ZombieReset, QuietMove, LeftInGoodHands, Quietly, Unaffected, loopVars
    <3> QED BY <3>1, QuietStep
  <2> QED BY <1>11, <2>1, <2>2 DEF ZombieReset, u
<1> QED BY <1>5, <1>6, <1>7, <1>8, <1>9, <1>10, <1>11

-----------------------------------------------------------------------------
(* The loops *)

\* The health loop takes the next unit of its list.
LEMMA VisitIs ==
  ASSUME IndInv, NEW u \in Units, Visit(u)
  PROVE  /\ u \in Known /\ u # NoUnit
         /\ job[Monitor].op = "free" /\ job[Monitor].on = NoUnit
         /\ UNCHANGED <<ports, budget>> /\ toCheck' \subseteq toCheck /\ toSweep' = toSweep
  BY Basics, FreeIsJob DEF Visit, Known

\* A step of the health loop that puts the unit it works on back into the pool.
LEMMA WriteBackStep ==
  ASSUME IndInv, job[Monitor].op \in {"ping", "heal", "healWait"},
         NEW j, Worked(job[Monitor].on, Monitor, j),
         pool' \in Pools, pool'.held = pool.held \cup {job[Monitor].on},
         \A v \in Units : pool'.unit[v].port = pool.unit[v].port,
         \A v \in Units \ {job[Monitor].on} : pool'.unit[v].status = pool.unit[v].status,
         LeftInGoodHands(job[Monitor].on, Monitor, {}),
         UNCHANGED <<ports, budget, loopVars>>,
         Remember(Gone(job[Monitor].on), FALSE, {})
  PROVE  IndInv'
<1> DEFINE u == job[Monitor].on
<1>1. u \in Units /\ u \in Known
  BY Basics DEF Known
<1>2. CASE Gone(u)
  <2>1. crossed'
    BY <1>2 DEF Remember
  <2>2. /\ job' \in [Slots -> Jobs] /\ JobsWhole' /\ Made' = Made
        /\ \A t \in Slots : job'[t].on \in {job[t].on, u, NoUnit}
    BY <1>1, Basics, WorkedKeepsJobs
  <2>3. (Known \cup Made)' \subseteq Known \cup Made \cup {NoUnit}
    BY <1>1, <2>2 DEF Known, loopVars
  <2> QED BY <2>1, <2>2, <2>3, Basics, MetStep DEF loopVars
<1>3. CASE ~ Gone(u)
  <2>1. Remember(FALSE, FALSE, {})
    BY <1>3 DEF Remember
  <2>2. Touched(u)
    BY <1>3 DEF Touched, Gone
  <2>3. QuietMove(u, Monitor, j, FALSE, {})
    BY <1>1, <2>1, <2>2, Basics DEF QuietMove, loopVars
  <2> QED BY <2>3, QuietStep
<1> QED BY <1>2, <1>3

\* Every step of the two loops but the end of an eviction keeps the invariant.
LEMMA LoopsKeep ==
  ASSUME IndInv, Loops
  PROVE  IndInv'
<1> USE Basics
<1>1. CASE StartPass \/ StartSweep
  <2>1. QuietMove(NoUnit, Monitor, Free, FALSE, {})
    BY <1>1, TouchedByNothing
       DEF StartPass, StartSweep, QuietMove, Worked, Quietly
  <2> QED BY <2>1, QuietStep
<1>2. ASSUME NEW u \in Units, CheckSkip(u) PROVE IndInv'
  <2>1. QuietMove(u, Monitor, Free, FALSE, {})
    BY <1>2, VisitIs, TouchedByNothing
       DEF CheckSkip, QuietMove, Worked, LeftInGoodHands, Quietly
  <2> QED BY <2>1, QuietStep
<1>3. ASSUME NEW u \in Units, NEW op \in {"remove", "ping"}, Visit(u), Begin(Monitor, op, u),
             UNCHANGED pool, Quietly
      PROVE  IndInv'
  <2>1. op \in Ops /\ op \notin MakingOps /\ op # "free" /\ "free" \notin MakingOps
    BY DEF Ops, MakingOps
  <2>2. Worked(u, Monitor, JobOn(op, u))
    BY <1>3, <2>1, VisitIs, BegunIs
  <2>3. Touched(u)
    BY <1>3, TouchedByNothing
  <2>4. QuietMove(u, Monitor, JobOn(op, u), FALSE, {})
    BY <1>3, <2>2, <2>3, VisitIs DEF QuietMove, LeftInGoodHands, Quietly
  <2> QED BY <2>4, QuietStep
<1>4. ASSUME NEW u \in Units, CheckEvict(u) PROVE IndInv'
  BY <1>3, <1>4 DEF CheckEvict
<1>5. ASSUME NEW u \in Units, CheckPing(u) PROVE IndInv'
  BY <1>3, <1>5 DEF CheckPing
<1>6. ASSUME NEW u \in Units, CheckZombie(u) PROVE IndInv'
  <2>1. PICK c \in Calls : QueueReset(c, u, "zombieQueued")
    BY <1>6 DEF CheckZombie
  <2>2. c \in Slots
    BY DEF Slots
  <2> QED BY <1>6, <2>1, <2>2, VisitIs, QueueResetKeeps DEF CheckZombie
<1>7. ASSUME NEW u \in Units, SweepSkip(u) PROVE IndInv'
  <2>1. QuietMove(u, Sweeper, Free, FALSE, {})
    BY <1>7, TouchedByNothing
       DEF SweepSkip, QuietMove, Worked, LeftInGoodHands, Quietly, Known
  <2> QED BY <2>1, QuietStep
<1>8. ASSUME NEW u \in Units, SweepEvict(u) PROVE IndInv'
  <2>1. "remove" \in Ops /\ "remove" \notin MakingOps /\ "free" \notin MakingOps
    BY DEF Ops, MakingOps
  <2>2. Worked(u, Sweeper, JobOn("remove", u)) /\ job'[Sweeper].on = u /\ job'[Sweeper].op = "remove"
    BY <1>8, <2>1, FreeIsJob, BegunIs DEF SweepEvict
  <2>3. Touched(u)
    BY <1>8, TouchedByNothing DEF SweepEvict
  <2>4. QuietMove(u, Sweeper, JobOn("remove", u), FALSE, {})
    BY <1>8, <2>2, <2>3 DEF SweepEvict, QuietMove, LeftInGoodHands, Quietly, Known
  <2> QED BY <2>4, QuietStep
<1> DEFINE u == job[Monitor].on
<1>9. ASSUME job[Monitor].op \in {"ping", "heal", "healWait"}
      PROVE  /\ u \in Units /\ u \in Known /\ u # NoUnit /\ job[Monitor].op \notin MakingOps
             /\ pool.unit[u] \in UnitStates /\ {"unhealthy"} \subseteq Statuses
  BY <1>9 DEF Known, Pools, MakingOps, Statuses
<1>10. ASSUME job[Monitor].op \in {"ping", "heal", "healWait"}, End(Monitor)
       PROVE  Worked(u, Monitor, Free)
  BY <1>9, <1>10, EndedIs
<1>11. ASSUME job[Monitor].op \in {"ping", "heal", "healWait"},
              NEW op \in {"heal", "healWait", "remove"}, Begin(Monitor, op, u)
       PROVE  Worked(u, Monitor, JobOn(op, u)) /\ job'[Monitor].on = u /\ job'[Monitor].op # "ping"
  <2>1. op \in Ops /\ op \notin MakingOps /\ op \notin {"free", "ping"}
    BY DEF Ops, MakingOps
  <2> QED BY <1>9, <1>11, <2>1, BegunIs
<1> HIDE DEF u
<1>12. CASE PingDone
  <2>1. u \in Units /\ u \in Known
    BY <1>9, <1>12 DEF PingDone
  <2>2. Touched(u) /\ pool'.unit[u].status = pool.unit[u].status
    <3>1. CASE pool' = pool
      BY <3>1, TouchedByNothing
    <3>2. CASE pool' = [pool EXCEPT !.unit[u].failing = TRUE]
      BY <2>1, <3>2, TouchedByFailing
    <3> QED BY <1>12, <3>1, <3>2 DEF PingDone, u
  <2>3. QuietMove(u, Monitor, Free, FALSE, {})
    BY <1>10, <1>12, <2>1, <2>2
       DEF PingDone, QuietMove, LeftInGoodHands, Quietly, Unaffected, loopVars
  <2> QED BY <2>3, QuietStep
<1>13. CASE PingRecovered
  <2>1. u \in Units /\ Status(u) \in Statuses
    BY <1>9, <1>13 DEF PingRecovered, UnitStates, Status
  <2>2. pool' = Well(Updated(pool, u, Status(u)), u)
    BY <1>13 DEF PingRecovered, Well, u
  <2>3. LeftInGoodHands(u, Monitor, {})
    BY WrittenBackIs, <1>13, <2>1, <2>2 DEF PingRecovered, LeftInGoodHands, Status
  <2> QED BY <1>10, WrittenBackIs, <1>13, <2>1, <2>2, <2>3, WriteBackStep DEF PingRecovered, u
<1>14. CASE PingFailed
  <2>1. u \in Units /\ "unhealthy" \in Statuses /\ pool' = Updated(pool, u, "unhealthy")
    BY <1>9, <1>14 DEF PingFailed, u
  <2>2. LeftInGoodHands(u, Monitor, {})
    BY <2>1, UpdatedIs DEF LeftInGoodHands
  <2>3. Worked(u, Monitor, JobOn("heal", u))
    BY <1>11, <1>14 DEF PingFailed, u
  <2>4. /\ pool' \in Pools /\ pool'.held = pool.held \cup {u}
        /\ \A v \in Units : pool'.unit[v].port = pool.unit[v].port
        /\ \A v \in Units \ {u} : pool'.unit[v].status = pool.unit[v].status
    BY <2>1, UpdatedIs
  <2> QED BY <1>14, <2>1, <2>2, <2>3, <2>4, WriteBackStep DEF PingFailed, u
<1>15. CASE HealBooting
  <2>1. u \in Units /\ Status(u) \in Statuses
    BY <1>9, <1>15 DEF HealBooting, UnitStates, Status
  <2>2. pool' = Well(Updated(pool, u, Status(u)), u)
    BY <1>15 DEF HealBooting, Well, u
  <2>3. Worked(u, Monitor, JobOn("healWait", u)) /\ LeftInGoodHands(u, Monitor, {})
    BY <1>11, <1>15 DEF HealBooting, LeftInGoodHands, u
  <2>4. /\ pool' \in Pools /\ pool'.held = pool.held \cup {u}
        /\ \A v \in Units : pool'.unit[v].port = pool.unit[v].port
        /\ \A v \in Units \ {u} : pool'.unit[v].status = pool.unit[v].status
    BY <2>1, <2>2, WrittenBackIs
  <2> QED BY <1>15, <2>3, <2>4, WriteBackStep DEF HealBooting, u
<1>16. CASE HealDone
  <2>1. PICK s \in {StatusFor(Agent(u)), "unhealthy"} : pool' = Updated(pool, u, s)
    BY <1>16 DEF HealDone, u
  <2>2. u \in Units /\ s \in Statuses /\ s \notin Transitional
    BY <1>9, <1>16, StatusForIs DEF HealDone
  <2>3. LeftInGoodHands(u, Monitor, {})
    BY <2>1, <2>2, UpdatedIs DEF LeftInGoodHands
  <2>4. /\ pool' \in Pools /\ pool'.held = pool.held \cup {u}
        /\ \A v \in Units : pool'.unit[v].port = pool.unit[v].port
        /\ \A v \in Units \ {u} : pool'.unit[v].status = pool.unit[v].status
    BY <2>1, <2>2, UpdatedIs
  <2> QED BY <1>10, <1>16, <2>2, <2>3, <2>4, WriteBackStep DEF HealDone, u
<1>17. CASE HealFailed
  <2>1. Touched(u) /\ u \in Known
    BY <1>9, <1>17, TouchedByNothing DEF HealFailed
  <2>2. QuietMove(u, Monitor, JobOn("remove", u), FALSE, {})
    BY <1>11, <1>17, <2>1
       DEF HealFailed, QuietMove, LeftInGoodHands, Quietly, Unaffected, loopVars, u
  <2> QED BY <2>2, QuietStep
<1> QED BY <1>1, <1>2, <1>4, <1>5, <1>6, <1>7, <1>8, <1>12, <1>13, <1>14, <1>15, <1>16, <1>17
        DEF Loops
-----------------------------------------------------------------------------
(* Units being made: a creation or a swap begins *)

\* what Remember(x, o, S) does, whatever x and o are
Recalled(S) ==
  /\ crossed' \in BOOLEAN /\ astray' \in BOOLEAN /\ (~ crossed' => ~ crossed)
  /\ left' = {u \in (left \cup S) \cap pool'.held : pool'.unit[u].status \in Transitional}

\* A creation or a swap begins: one more unit is being made.
LEMMA BegunMaking ==
  ASSUME IndInv, NEW c \in Slots, NEW new \in Units, NEW j \in Jobs,
         job[c] = Free, j.op \in MakingOps, j.new = new,
         (j.op = "create") <=> (j.on = NoUnit), job' = [job EXCEPT ![c] = j]
  PROVE  /\ job' \in [Slots -> Jobs] /\ JobsWhole'
         /\ job'[c] = j /\ \A t \in Slots \ {c} : job'[t] = job[t]
         /\ c \notin Making /\ Making' = Making \cup {c} /\ Made' = Made \cup {new}
<1> USE Basics
<1>1. job' \in [Slots -> Jobs] /\ job'[c] = j /\ \A t \in Slots \ {c} : job'[t] = job[t]
  OBVIOUS
<1>2. c \notin Making /\ Making' = Making \cup {c}
  BY <1>1, FreeIsJob DEF Making, MakingOps
<1>3. Made' = Made \cup {new}
  <2>1. \A t \in Making : job'[t].new = job[t].new
    BY <1>1, <1>2 DEF Making
  <2> QED BY <1>1, <1>2, <2>1 DEF Made
<1>4. JobsWhole'
  <2>1. \A t \in Slots : (job'[t].op \in {"free", "create"}) <=> (job'[t].on = NoUnit)
    BY <1>1 DEF MakingOps
  <2>2. \A t \in Making \cup {c} : job'[t].new \in Units
    BY <1>1, <1>2 DEF IndInv, JobsWhole, Making
  <2> QED BY <1>2, <2>1, <2>2 DEF JobsWhole
<1> QED BY <1>1, <1>2, <1>3, <1>4

\* Its port is new and its unit unknown: the invariant is kept.
LEMMA BeginStep ==
  ASSUME IndInv, NEW c \in Slots, NEW k \in Kinds, NEW new \in Fresh(k), NEW j \in Jobs,
         job[c] = Free, j.op \in MakingOps, j.new = new,
         (j.op = "create") <=> (j.on = NoUnit), j.on \in pool.held \cup {NoUnit},
         job' = [job EXCEPT ![c] = j],
         pool' \in Pools, pool'.held = pool.held,
         pool'.unit[new].port = NextPort(k), pool'.unit[new].status = "idle",
         \A v \in Units \ {new} : pool'.unit[v].port = pool.unit[v].port,
         \A v \in Units \ {new, j.on} : pool'.unit[v].status = pool.unit[v].status,
         Available(k) # {}, ports' = ports \cup {NextPort(k)}, budget' \in Budgets,
         UNCHANGED loopVars, Recalled({})
  PROVE  IndInv'
<1> USE Basics
<1>1. /\ new \in Units /\ new \notin pool.held /\ new # NoUnit
      /\ new \notin Known /\ new \notin Made
  BY DEF Fresh, Known, Made, Making
<1>2. NextPort(k) \in Ports /\ NextPort(k) \notin ports /\ NextPort(k) # 0
  BY NextPortIsFree, PoolAssumption
<1>3. /\ job' \in [Slots -> Jobs] /\ JobsWhole'
      /\ job'[c] = j /\ \A t \in Slots \ {c} : job'[t] = job[t]
      /\ c \notin Making /\ Making' = Making \cup {c} /\ Made' = Made \cup {new}
  BY <1>1, BegunMaking
<1>4. TypeOK'
  <2>1. left' \subseteq pool'.held /\ crossed' \in BOOLEAN /\ astray' \in BOOLEAN
    BY DEF Recalled
  <2> QED BY <1>2, <1>3, <2>1 DEF TypeOK, Pools, UnitStates, Budgets, loopVars
<1>5. Known' \subseteq Known \cup {NoUnit}
  BY <1>3 DEF Known, loopVars
<1>6. Ported'
  <2>1. ((Known \cup Made) \ {NoUnit})' \subseteq ((Known \cup Made) \ {NoUnit}) \cup {new}
    BY <1>3, <1>5
  <2>2. (Known \cup Made) \ {NoUnit} \subseteq Units
    <3>1. Made \subseteq Units
      BY DEF IndInv, JobsWhole, Made, Making
    <3> QED BY <3>1 DEF Known
  <2> QED BY <1>1, <1>2, <2>1, <2>2 DEF IndInv, Ported, Port
<1>7. ~ crossed' => ~ crossed
  BY DEF Recalled
<1>8. MadeApart'
  <2>1. SUFFICES ASSUME ~ crossed' PROVE MadeApart'
    BY DEF MadeApart
  <2>2. \A t \in Making : /\ t # c /\ job[t].new \in Units /\ job[t].new \notin Known
                          /\ job[t].new # new /\ Status(job[t].new) = "idle"
                          /\ \A r \in Making : job[r].new = job[t].new => r = t
    <3>1. \A t \in Making : job[t].new \in Units
      BY DEF IndInv, JobsWhole, Making
    <3> QED BY <1>1, <1>3, <1>7, <2>1, <3>1 DEF IndInv, MadeApart, Made
  <2>3. j.on # new /\ \A t \in Making : job[t].new # j.on
    BY <1>1, <2>2 DEF Known
  <2>4. \A t \in Making : job'[t] = job[t] /\ pool'.unit[job[t].new].status = "idle"
    BY <1>3, <2>2, <2>3 DEF Making, Status
  <2>5. \A t \in Making \cup {c} : /\ job'[t].new \notin Known'
                                   /\ pool'.unit[job'[t].new].status = "idle"
    <3>1. \A t \in Making \cup {c} : job'[t].new \in Units
      BY <1>1, <1>3, <2>2, <2>4
    <3> QED BY <1>1, <1>3, <1>5, <2>2, <2>4, <3>1
  <2>6. \A t, r \in Making \cup {c} : job'[r].new = job'[t].new => r = t
    BY <1>3, <2>2, <2>4
  <2> QED BY <1>3, <2>5, <2>6 DEF MadeApart, Status
<1>9. PortsExclusive'
  <2>1. SUFFICES ASSUME ~ crossed' PROVE PortsExclusive'
    BY DEF PortsExclusive
  <2> DEFINE Live == pool.held \cup Made
  <2>2. (pool.held \cup Made)' = Live \cup {new} /\ new \notin Live /\ Live \subseteq Units
    BY <1>1, <1>3 DEF IndInv, JobsWhole, Made, Making
  <2>3. \A v \in Live : Port(v)' = Port(v)
    BY <2>2 DEF Port
  <2>4. ports = {Port(v) : v \in Live} /\ \A v, w \in Live : Port(v) = Port(w) => v = w
    BY <1>7, <2>1 DEF IndInv, PortsExclusive
  <2>5. Port(new)' = NextPort(k)
    BY DEF Port
  <2> HIDE DEF Live
  <2>6. ports' = {Port(v)' : v \in Live \cup {new}}
    BY <2>3, <2>4, <2>5
  <2>7. \A v, w \in Live \cup {new} : Port(v)' = Port(w)' => v = w
    BY <1>2, <2>3, <2>4, <2>5
  <2> QED BY <2>2, <2>6, <2>7 DEF PortsExclusive
<1>10. Attended'
  <2>1. SUFFICES ASSUME ~ crossed', NEW v \in pool'.held,
                        pool'.unit[v].status \in Transitional
                 PROVE  v \in left' \/ \E t \in Slots : job'[t].on = v /\ job'[t].op # "ping"
    BY DEF Attended, Status
  <2>2. CASE v = j.on
    BY <1>3, <2>2 DEF MakingOps
  <2>3. CASE v # j.on
    <3>1. v # NoUnit /\ v \in Units /\ pool.unit[v].status = pool'.unit[v].status
      BY <1>1, <2>3
    <3>2. v \in left \/ \E t \in Slots : job[t].on = v /\ job[t].op # "ping"
      BY <1>7, <2>1, <3>1 DEF IndInv, Attended, Status
    <3>3. \A t \in Slots : job[t].on = v => job'[t] = job[t]
      BY <1>3, <3>1, FreeIsJob
    <3>4. v \in left => v \in left'
      BY <2>1 DEF Recalled
    <3> QED BY <3>2, <3>3, <3>4
  <2> QED BY <2>2, <2>3
<1> QED BY <1>3, <1>4, <1>6, <1>8, <1>9, <1>10 DEF IndInv

-----------------------------------------------------------------------------
(* An operation ends: it may take its unit out, and put in or give up the one it made. *)

EndOps == MakingOps \cup {"remove"}

\* A job that made a unit, or removed one, ends.
LEMMA EndedJob ==
  ASSUME IndInv, NEW c \in Slots, job[c].op \in EndOps, End(c)
  PROVE  /\ job' \in [Slots -> Jobs] /\ JobsWhole'
         /\ job'[c] = Free /\ \A t \in Slots \ {c} : job'[t] = job[t]
         /\ Making' = Making \ {c} /\ (c \in Making <=> job[c].op # "remove")
         /\ c \in Making => job[c].new \in Units
         /\ Made' \subseteq Made
<1> USE Basics
<1>1. job' \in [Slots -> Jobs] /\ job'[c] = Free /\ \A t \in Slots \ {c} : job'[t] = job[t]
  BY FreeIsJob DEF End
<1>2. Making' = Making \ {c} /\ (c \in Making <=> job[c].op # "remove")
  BY <1>1, FreeIsJob DEF Making, EndOps, MakingOps
<1>3. c \in Making => job[c].new \in Units
  BY DEF IndInv, JobsWhole
<1>4. Made' \subseteq Made
  <2>1. \A t \in Making' : t \in Making /\ job'[t] = job[t]
    BY <1>1, <1>2 DEF Making
  <2> QED BY <2>1 DEF Made
<1>5. JobsWhole'
  <2>1. \A t \in Slots : (job'[t].op \in {"free", "create"}) <=> (job'[t].on = NoUnit)
    BY <1>1, FreeIsJob
  <2>2. \A t \in Making \ {c} : job'[t].new \in Units
    BY <1>1 DEF IndInv, JobsWhole, Making
  <2> QED BY <1>2, <2>1, <2>2 DEF JobsWhole
<1> QED BY <1>1, <1>2, <1>3, <1>4, <1>5

\* release of the ports of the units in W
PortsFreed(W) == ports' = ports \ {Port(w) : w \in W}

\* what a job that ends may bring into the pool: the unit it made
Incoming(c, N) == \A v \in N : c \in Making /\ v = job[c].new

\* A job ends with its unit in, out or given up: the invariant is kept.
\* N: what comes into the pool.  W: what leaves it, or was being made and is given up.
LEMMA EndStep ==
  ASSUME IndInv, NEW c \in Slots, job[c].op \in EndOps, End(c),
         NEW N, NEW W, NEW S, Recalled(S),
         Incoming(c, N),
         pool' \in Pools, pool'.held \subseteq Known \cup N, budget' \in Budgets,
         ~ crossed' => pool'.held \subseteq pool.held \cup N,
         \A v \in Units : pool'.unit[v].port = pool.unit[v].port,
         \A v \in Units \ ({job[c].on} \cup N) : pool'.unit[v].status = pool.unit[v].status,
         ~ crossed' => \A v \in {job[c].on} \cup N :
            v \in pool'.held => pool'.unit[v].status \notin Transitional \/ v \in S,
         ~ crossed' => /\ W \subseteq pool.held \cup Made
                       /\ (pool.held \cup Made)' = (pool.held \cup Made) \ W,
         ports' \subseteq ports, ~ crossed' => PortsFreed(W),
         UNCHANGED loopVars
  PROVE  IndInv'
<1> USE Basics
<1>1. /\ job' \in [Slots -> Jobs] /\ JobsWhole'
      /\ job'[c] = Free /\ \A t \in Slots \ {c} : job'[t] = job[t]
      /\ Making' = Making \ {c} /\ (c \in Making => job[c].new \in Units)
      /\ Made' \subseteq Made
  BY EndedJob
<1>2. TypeOK'
  <2>1. left' \subseteq pool'.held /\ crossed' \in BOOLEAN /\ astray' \in BOOLEAN
    BY DEF Recalled
  <2> QED BY <1>1, <2>1 DEF TypeOK, Pools, UnitStates, Budgets, loopVars
<1>3. \A v \in N : c \in Making /\ v = job[c].new
  BY DEF Incoming
<1>4. N \subseteq Made
  BY <1>3 DEF Made
<1>5. Known' \subseteq Known \cup N \cup {NoUnit}
  BY <1>1, FreeIsJob DEF Known, loopVars
<1>6. Ported'
  BY <1>1, <1>2, <1>4, <1>5, PortedKept DEF IndInv
<1>7. ~ crossed' => ~ crossed
  BY DEF Recalled
<1>8. ASSUME ~ crossed' PROVE MadeApart'
  <2>1. \A t \in Making \ {c} : /\ job'[t] = job[t] /\ job[t].new \in Units
                                /\ job[t].new \notin Known \cup N \cup {NoUnit}
                                /\ Status(job[t].new) = "idle"
                                /\ \A r \in Making : job[r].new = job[t].new => r = t
    <3>1. \A t \in Making : t \in Slots /\ job[t].new \in Units
      BY DEF IndInv, JobsWhole, Making
    <3>2. \A t \in Making : /\ job[t].new \notin Known /\ Status(job[t].new) = "idle"
                            /\ \A r \in Making : job[r].new = job[t].new => r = t
      BY <1>7, <1>8 DEF IndInv, MadeApart
    <3> QED BY <1>1, <1>3, <3>1, <3>2
  <2>2. \A t \in Making \ {c} : job[t].new # job[c].on
    BY <2>1 DEF Known
  <2>3. \A t \in Making \ {c} : pool'.unit[job[t].new].status = "idle"
    BY <2>1, <2>2 DEF Status
  <2> QED BY <1>1, <1>5, <2>1, <2>3 DEF MadeApart, Status
<1>9. ASSUME ~ crossed' PROVE PortsExclusive'
  <2> DEFINE Live == pool.held \cup Made
  <2>1. Live \subseteq Units /\ W \subseteq Live /\ (pool.held \cup Made)' = Live \ W
    BY <1>9 DEF IndInv, JobsWhole, Made, Making
  <2>2. ports = {Port(v) : v \in Live} /\ \A v, w \in Live : Port(v) = Port(w) => v = w
    BY <1>7, <1>9 DEF IndInv, PortsExclusive
  <2>3. ports' = ports \ {Port(w) : w \in W} /\ \A v \in Units : Port(v)' = Port(v)
    BY <1>9 DEF Port, PortsFreed
  <2> HIDE DEF Live
  <2>4. ports' = {Port(v)' : v \in Live \ W}
    BY <2>1, <2>2, <2>3
  <2>5. \A v, w \in Live \ W : Port(v)' = Port(w)' => v = w
    BY <2>1, <2>2, <2>3
  <2> QED BY <2>1, <2>4, <2>5 DEF PortsExclusive
<1>10. Attended'
  <2>1. SUFFICES ASSUME ~ crossed', NEW v \in pool'.held,
                        pool'.unit[v].status \in Transitional
                 PROVE  v \in left' \/ \E t \in Slots : job'[t].on = v /\ job'[t].op # "ping"
    BY DEF Attended, Status
  <2>2. v \in Units /\ (v \in left \cup S => v \in left')
    BY <2>1 DEF Recalled, Pools
  <2>3. CASE v \in {job[c].on} \cup N
    BY <2>1, <2>2, <2>3
  <2>4. CASE v \notin {job[c].on} \cup N
    <3>1. v \in pool.held /\ pool.unit[v].status = pool'.unit[v].status
      BY <2>1, <2>2, <2>4
    <3>2. v \in left \/ \E t \in Slots : job[t].on = v /\ job[t].op # "ping"
      BY <1>7, <2>1, <3>1 DEF IndInv, Attended, Status
    <3>3. \A t \in Slots : job[t].on = v => job'[t] = job[t]
      BY <1>1, <2>4
    <3> QED BY <2>2, <3>2, <3>3
  <2> QED BY <2>3, <2>4
<1>11. MadeApart' /\ PortsExclusive'
  BY <1>8, <1>9 DEF MadeApart, PortsExclusive
<1> QED BY <1>1, <1>2, <1>6, <1>10, <1>11 DEF IndInv

\* The two endpoints that create a unit keep the invariant.
LEMMA CreationBegins ==
  ASSUME IndInv, NEW c \in Slots, NEW a \in Agents \cup {NoAgent}, NEW k \in Kinds,
         NEW b \in BOOLEAN, BeginCreation(c, a, k, b)
  PROVE  IndInv'
<1> USE Basics
<1>1. PICK u \in Fresh(k) : /\ pool' = Prepared(pool, u, NextPort(k), b)
                            /\ BeginMaking(c, "create", NoUnit, u, a)
  BY DEF BeginCreation
<1> DEFINE j == [op |-> "create", on |-> NoUnit, new |-> u, for |-> a]
<1>2. u \in Units /\ j \in Jobs /\ job' = [job EXCEPT ![c] = j]
  BY <1>1 DEF Fresh, Jobs, Ops, BeginMaking
<1>3. j.op = "create" /\ j.op \in MakingOps /\ j.new = u /\ j.on = NoUnit
  BY DEF MakingOps
<1>4. NextPort(k) \in Ports /\ Available(k) # {} /\ Reserved(budget, k) \in Budgets
  BY NextPortIsFree, BudgetsKept DEF BeginCreation
<1>5. /\ pool' \in Pools /\ pool'.held = pool.held
      /\ \A v \in Units \ {u} : pool'.unit[v] = pool.unit[v]
      /\ pool'.unit[u].port = NextPort(k) /\ pool'.unit[u].status = "idle"
  BY <1>1, <1>2, <1>4, PreparedIs
<1>6. Recalled({})
  BY DEF BeginCreation, Quietly, Remember, Recalled
<1>7. /\ job[c] = Free /\ UNCHANGED loopVars
      /\ ports' = ports \cup {NextPort(k)} /\ budget' \in Budgets
  BY <1>4 DEF BeginCreation
<1>8. /\ (j.op = "create") <=> (j.on = NoUnit)
      /\ j.on \in pool.held \cup {NoUnit}
  BY <1>3
<1>9. /\ \A v \in Units \ {u} : pool'.unit[v].port = pool.unit[v].port
      /\ \A v \in Units \ {u, j.on} : pool'.unit[v].status = pool.unit[v].status
  BY <1>5
<1> HIDE DEF j
<1> QED BY <1>2, <1>3, <1>4, <1>5, <1>6, <1>7, <1>8, <1>9, BeginStep

\* PreparedIs for the unit that takes over.
LEMMA FreshIs ==
  ASSUME pool \in Pools, NEW u \in Units, NEW port \in Ports
  PROVE  /\ Prepared(pool, u, port, FALSE) \in Pools
         /\ Prepared(pool, u, port, FALSE).held = pool.held
         /\ \A v \in Units \ {u} : Prepared(pool, u, port, FALSE).unit[v] = pool.unit[v]
         /\ Prepared(pool, u, port, FALSE).unit[u].port = port
         /\ Prepared(pool, u, port, FALSE).unit[u].status = "idle"
  BY DEF Prepared, Pools, UnitStates, Statuses

\* A promotion or demotion keeps the invariant when it begins.
LEMMA SwapBegins ==
  ASSUME IndInv, NEW c \in Slots, NEW u \in pool.held, NEW k \in Kinds, NEW new \in Fresh(k),
         NEW op \in {"promote", "demote"}, NEW s \in Statuses, job[c] = Free,
         Available(k) # {}, ports' = ports \cup {NextPort(k)}, budget' \in Budgets,
         NEW p \in Pools, p.held = pool.held, pool' = Updated(p, u, s),
         \A v \in Units \ {new} : p.unit[v] = pool.unit[v],
         p.unit[new].port = NextPort(k), p.unit[new].status = "idle",
         BeginMaking(c, op, u, new, Agent(u)),
         UNCHANGED loopVars, Recalled({})
  PROVE  IndInv'
<1> USE Basics
<1> DEFINE j == [op |-> op, on |-> u, new |-> new, for |-> Agent(u)]
<1>1. u \in Units /\ new \in Units /\ u # new /\ u # NoUnit
  BY DEF Fresh
<1>2. j \in Jobs /\ job' = [job EXCEPT ![c] = j]
  <2>1. Agent(u) \in Agents \cup {NoAgent}
    BY <1>1 DEF Agent, Pools, UnitStates
  <2> QED BY <1>1, <2>1 DEF Jobs, Ops, BeginMaking
<1>3. j.op # "create" /\ j.op \in MakingOps /\ j.new = new /\ j.on = u
  BY DEF MakingOps
<1> HIDE DEF j
<1>4. /\ pool' \in Pools /\ pool'.held = pool.held
      /\ \A v \in Units \ {new} : pool'.unit[v].port = pool.unit[v].port
      /\ \A v \in Units \ {new, u} : pool'.unit[v].status = pool.unit[v].status
      /\ pool'.unit[new].port = NextPort(k) /\ pool'.unit[new].status = "idle"
  <2>1. /\ pool' \in Pools /\ pool'.held = p.held \cup {u}
        /\ \A v \in Units : pool'.unit[v].port = p.unit[v].port
        /\ \A v \in Units \ {u} : pool'.unit[v] = p.unit[v]
    BY <1>1, UpdatedIs
  <2> QED BY <1>1, <2>1
<1> QED BY <1>2, <1>3, <1>4, BeginStep

\* Every request keeps the invariant when it begins.
LEMMA CallBeginsKeeps ==
  ASSUME IndInv, NEW c \in Calls, CallBegins(c)
  PROVE  IndInv'
<1> USE Basics
<1>1. c \in Slots
  BY DEF Slots
<1>2. ASSUME NEW a \in Agents \cup {NoAgent}, NEW k \in Kinds, NEW b \in BOOLEAN,
             SessionCreate(c, a, k, b)
      PROVE  IndInv'
  BY <1>1, <1>2, CreationBegins DEF SessionCreate
<1>3. CASE CreateSandbox(c)
  BY <1>1, <1>3, CreationBegins DEF CreateSandbox, Kinds
<1>4. ASSUME NEW a \in Agents, SessionEndDesktop(c, a) PROVE IndInv'
  BY <1>1, <1>4, DestroyUnitKeeps DEF SessionEndDesktop
<1>5. ASSUME NEW a \in Agents, SessionEndHeadless(c, a) PROVE IndInv'
  BY <1>1, <1>5, ReleaseHeadlessKeeps DEF SessionEndHeadless
<1>6. ASSUME NEW u \in Units, DestroyUnit(c, u) PROVE IndInv'
  BY <1>1, <1>6, DestroyUnitKeeps
<1>7. ASSUME NEW u \in Units, ReleaseHeadless(c, u) PROVE IndInv'
  BY <1>1, <1>7, ReleaseHeadlessKeeps
<1>8. ASSUME NEW u \in Units, RestartUnit(c, u) PROVE IndInv'
  BY <1>1, <1>8, RestartUnitKeeps
<1>9. Promoted(budget) \in Budgets /\ Demoted(budget) \in Budgets
  BY BudgetsKept DEF Kinds
<1>10. {"promoting", "demoting"} \subseteq Statuses /\ {"headless", "desktop"} = Kinds
  BY DEF Statuses, Transitional, Kinds
<1>11. ASSUME NEW u \in Units, Promote(c, u) PROVE IndInv'
  <2>1. PICK new \in Fresh("desktop") :
          /\ pool' = Updated(Prepared(pool, new, NextPort("desktop"), FALSE), u, "promoting")
          /\ BeginMaking(c, "promote", u, new, Agent(u))
    BY <1>11 DEF Promote
  <2> DEFINE p == Prepared(pool, new, NextPort("desktop"), FALSE)
  <2>2. u \in pool.held /\ u \in Units /\ new \in Units /\ Available("desktop") # {}
        /\ NextPort("desktop") \in Ports
    BY <1>10, <1>11, NextPortIsFree DEF Promote, Fresh
  <2>3. /\ p \in Pools /\ p.held = pool.held
        /\ \A v \in Units \ {new} : p.unit[v] = pool.unit[v]
        /\ p.unit[new].port = NextPort("desktop") /\ p.unit[new].status = "idle"
    <3>1. PICK port \in Ports : port = NextPort("desktop")
      BY <2>2
    <3>2. pool \in Pools /\ new \in Units
      BY <2>2
    <3> HIDE DEF Pools
    <3> QED BY ONLY <3>1, <3>2, FreshIs
  <2>4. Recalled({})
    BY <1>11 DEF Promote, Remember, Recalled
  <2>5. pool' = Updated(p, u, "promoting")
    BY <2>1
  <2>6. /\ job[c] = Free /\ UNCHANGED loopVars /\ budget' \in Budgets
        /\ ports' = ports \cup {NextPort("desktop")}
    BY <1>9, <1>11 DEF Promote
  <2>7. /\ "desktop" \in Kinds /\ "promoting" \in Statuses
        /\ "promote" \in {"promote", "demote"}
    BY <1>10
  <2> HIDE DEF p
  <2> QED BY ONLY IndInv, <1>1, <2>1, <2>2, <2>3, <2>4, <2>5, <2>6, <2>7, SwapBegins
<1>12. ASSUME NEW u \in Units, Demote(c, u) PROVE IndInv'
  <2>1. PICK new \in Fresh("headless") :
          /\ pool' = Updated(Prepared(pool, new, NextPort("headless"), FALSE), u, "demoting")
          /\ BeginMaking(c, "demote", u, new, Agent(u))
    BY <1>12 DEF Demote
  <2> DEFINE p == Prepared(pool, new, NextPort("headless"), FALSE)
  <2>2. u \in pool.held /\ u \in Units /\ new \in Units /\ Available("headless") # {}
        /\ NextPort("headless") \in Ports
    BY <1>10, <1>12, NextPortIsFree DEF Demote, Fresh
  <2>3. /\ p \in Pools /\ p.held = pool.held
        /\ \A v \in Units \ {new} : p.unit[v] = pool.unit[v]
        /\ p.unit[new].port = NextPort("headless") /\ p.unit[new].status = "idle"
    <3>1. PICK port \in Ports : port = NextPort("headless")
      BY <2>2
    <3>2. pool \in Pools /\ new \in Units
      BY <2>2
    <3> HIDE DEF Pools
    <3> QED BY ONLY <3>1, <3>2, FreshIs
  <2>4. Recalled({})
    BY <1>12 DEF Demote, Remember, Recalled
  <2>5. pool' = Updated(p, u, "demoting")
    BY <2>1
  <2>6. /\ job[c] = Free /\ UNCHANGED loopVars /\ budget' \in Budgets
        /\ ports' = ports \cup {NextPort("headless")}
    BY <1>9, <1>12 DEF Demote
  <2>7. /\ "headless" \in Kinds /\ "demoting" \in Statuses
        /\ "demote" \in {"promote", "demote"}
    BY <1>10
  <2> HIDE DEF p
  <2> QED BY ONLY IndInv, <1>1, <2>1, <2>2, <2>3, <2>4, <2>5, <2>6, <2>7, SwapBegins
<1> QED BY <1>2, <1>3, <1>4, <1>5, <1>6, <1>7, <1>8, <1>11, <1>12 DEF CallBegins

-----------------------------------------------------------------------------
(* The ends, action by action *)

\* Where no operations have met, a unit being made is its own job's alone.
LEMMA MadeIsApart ==
  ASSUME IndInv, ~ crossed, NEW c \in Making
  PROVE  /\ job[c].new \in Units /\ job[c].new \notin Known /\ job[c].new \in Made
         /\ Status(job[c].new) = "idle"
         /\ End(c) => Made' = Made \ {job[c].new}
<1>1. /\ c \in Slots /\ job[c].new \notin Known /\ Status(job[c].new) = "idle"
      /\ \A t \in Making : job[t].new = job[c].new => t = c
  BY DEF IndInv, MadeApart, Making
<1>2. job[c].new \in Units /\ job[c].new \in Made
  BY <1>1 DEF IndInv, JobsWhole, Made
<1>3. ASSUME End(c) PROVE Made' = Made \ {job[c].new}
  <2>1. job[c].op \in EndOps
    BY DEF Making, EndOps, MakingOps
  <2>2. Making' = Making \ {c} /\ \A t \in Slots \ {c} : job'[t] = job[t]
    BY <1>1, <1>3, <2>1, EndedJob
  <2>3. \A t \in Making \ {c} : t \in Slots \ {c}
    BY DEF Making
  <2> QED BY <1>1, <2>2, <2>3 DEF Made
<1> QED BY <1>1, <1>2, <1>3

\* A creation that succeeds keeps the invariant.
LEMMA CreatedKeeps ==
  ASSUME IndInv, NEW c \in Slots, Created(c)
  PROVE  IndInv'
<1> USE Basics
<1> DEFINE new == job[c].new
           p == Added(pool, new)
<1>1. /\ job[c].op = "create" /\ job[c].op \in EndOps /\ c \in Making /\ job[c].on = NoUnit
      /\ End(c) /\ UNCHANGED <<ports, budget, loopVars>> /\ Quietly
  BY DEF Created, EndOps, MakingOps, Making, Unaffected
<1>2. new \in Units /\ new \in Made /\ Recalled({})
  BY <1>1 DEF IndInv, JobsWhole, Made, Quietly, Remember, Recalled
<1>3. job[c].for \in Agents \cup {NoAgent} /\ pool' = Assigned(p, new, job[c].for)
  BY DEF Created, Jobs
<1>4. p \in Pools /\ p.held = pool.held \cup {new} /\ p.unit = pool.unit
  BY <1>2, AddedIs
<1> HIDE DEF p
<1>5. /\ pool' \in Pools /\ pool'.held = pool.held \cup {new}
      /\ \A v \in Units : pool'.unit[v].port = pool.unit[v].port
      /\ \A v \in Units \ {new} : pool'.unit[v].status = pool.unit[v].status
      /\ pool'.unit[new].status \in {"assigned", pool.unit[new].status}
  BY <1>2, <1>3, <1>4, AssignedIs
<1>6. ASSUME ~ crossed'
      PROVE  /\ (pool.held \cup Made)' = (pool.held \cup Made) \ {}
             /\ pool'.unit[new].status \notin Transitional
  <2>1. ~ crossed
    BY <1>2, <1>6 DEF Recalled
  <2>2. Made' = Made \ {new} /\ pool.unit[new].status = "idle"
    BY <1>1, <2>1, MadeIsApart DEF Status
  <2> QED BY <1>2, <1>5, <2>2
<1>7. PortsFreed({}) /\ ports' \subseteq ports
  BY <1>1 DEF PortsFreed
<1>8. pool'.held \subseteq Known \cup {new} /\ budget' \in Budgets /\ UNCHANGED loopVars
  BY <1>1, <1>5 DEF Known
<1>9. \A v \in Units \ ({job[c].on} \cup {new}) : pool'.unit[v].status = pool.unit[v].status
  BY <1>5
<1>10. ~ crossed' => \A v \in {job[c].on} \cup {new} :
          v \in pool'.held => pool'.unit[v].status \notin Transitional \/ v \in {}
  BY <1>1, <1>5, <1>6
<1>11. Incoming(c, {new})
  BY <1>1 DEF Incoming
<1> QED BY <1>1, <1>2, <1>5, <1>6, <1>7, <1>8, <1>9, <1>10, <1>11, EndStep

\* CreationFailed, PromotionFailed and DemotionFailed: the unit being made is given up.
LEMMA GivenUpKeeps ==
  ASSUME IndInv, NEW c \in Making, End(c), NEW S, Recalled(S),
         ports' = ports \ {Port(job[c].new)}, budget' \in Budgets, UNCHANGED loopVars,
         pool' \in Pools, pool'.held \subseteq pool.held \cup {job[c].on},
         ~ crossed' => pool'.held = pool.held,
         \A v \in Units : pool'.unit[v].port = pool.unit[v].port,
         \A v \in Units \ {job[c].on} : pool'.unit[v].status = pool.unit[v].status,
         ~ crossed' /\ job[c].on \in pool.held =>
           pool'.unit[job[c].on].status \notin Transitional \/ job[c].on \in S
  PROVE  IndInv'
<1> USE Basics
<1>1. c \in Slots /\ job[c].op \in EndOps
  BY DEF Making, EndOps, MakingOps
<1>2. ~ crossed' => /\ {job[c].new} \subseteq pool.held \cup Made
                    /\ (pool.held \cup Made)' = (pool.held \cup Made) \ {job[c].new}
  <2>1. SUFFICES ASSUME ~ crossed'
                 PROVE  /\ {job[c].new} \subseteq pool.held \cup Made
                        /\ (pool.held \cup Made)' = (pool.held \cup Made) \ {job[c].new}
    OBVIOUS
  <2>2. ~ crossed
    BY <2>1 DEF Recalled
  <2>3. Made' = Made \ {job[c].new} /\ job[c].new \in Made /\ job[c].new \notin pool.held
    BY <2>2, MadeIsApart DEF Known
  <2> QED BY <2>1, <2>3
<1> DEFINE N == {}
           W == {job[c].new}
<1>3. Incoming(c, N)
  BY DEF Incoming
<1>4. /\ ports' \subseteq ports
      /\ PortsFreed(W)
      /\ ~ crossed' => /\ W \subseteq pool.held \cup Made
                       /\ (pool.held \cup Made)' = (pool.held \cup Made) \ W
  BY <1>2 DEF PortsFreed
<1>5. pool'.held \subseteq Known \cup N
  BY <1>1 DEF Known
<1>6. ~ crossed' => \A v \in {job[c].on} \cup N :
         v \in pool'.held => pool'.unit[v].status \notin Transitional \/ v \in S
  OBVIOUS
<1>7. \A v \in Units \ ({job[c].on} \cup N) : pool'.unit[v].status = pool.unit[v].status
  OBVIOUS
<1>8. ~ crossed' => pool'.held \subseteq pool.held \cup N
  OBVIOUS
<1> HIDE DEF N, W
<1> QED BY <1>1, <1>2, <1>3, <1>4, <1>5, <1>6, <1>7, <1>8, EndStep

\* A creation that fails keeps the invariant.
LEMMA CreationFailedKeeps ==
  ASSUME IndInv, NEW c \in Slots, CreationFailed(c)
  PROVE  IndInv'
<1> USE Basics
<1>1. c \in Making /\ job[c].on = NoUnit /\ job[c].new \in Units /\ End(c)
  BY DEF CreationFailed, Making, IndInv, JobsWhole
<1>2. Kind(job[c].new) \in Kinds
  BY DEF Kind, Kinds
<1>3. budget' \in Budgets
  BY <1>2, BudgetsKept DEF CreationFailed
<1>4. Recalled({})
  BY DEF CreationFailed, Quietly, Remember, Recalled
<1>5. UNCHANGED <<pool, loopVars>> /\ ports' = ports \ {Port(job[c].new)}
  BY DEF CreationFailed
<1> QED BY <1>1, <1>3, <1>4, <1>5, GivenUpKeeps

\* PromotionFailed, and DemotionFailed when its rollback is not refused
LEMMA PutBackKeeps ==
  ASSUME IndInv, NEW c \in Slots, job[c].op \in {"promote", "demote"}, End(c),
         NEW a, pool' = Updated(pool, job[c].on, StatusFor(a)),
         ports' = ports \ {Port(job[c].new)}, budget' \in Budgets, UNCHANGED loopVars,
         Remember(Gone(job[c].on), FALSE, {})
  PROVE  IndInv'
<1> USE Basics
<1> DEFINE u == job[c].on
<1>1. c \in Making /\ u \in Units
  BY DEF Making
<1>2. Recalled({}) /\ (~ crossed' => u \in pool.held)
  BY DEF Remember, Recalled, Gone
<1>3. /\ pool' \in Pools /\ pool'.held = pool.held \cup {u}
      /\ \A v \in Units : pool'.unit[v].port = pool.unit[v].port
      /\ \A v \in Units \ {u} : pool'.unit[v] = pool.unit[v]
      /\ pool'.unit[u].status \notin Transitional
  BY <1>1, StatusForIs, UpdatedIs
<1>4. ~ crossed' => pool'.held = pool.held
  BY <1>2, <1>3
<1> QED BY <1>1, <1>2, <1>3, <1>4, GivenUpKeeps

\* A swap that fails keeps the invariant, rolled back or not.
LEMMA SwapFailedKeeps ==
  ASSUME IndInv, NEW c \in Slots, PromotionFailed(c) \/ DemotionFailed(c)
  PROVE  IndInv'
<1> USE Basics
<1> DEFINE u == job[c].on
<1>1. /\ job[c].op \in {"promote", "demote"} /\ End(c) /\ UNCHANGED loopVars
      /\ ports' = ports \ {Port(job[c].new)}
  BY DEF PromotionFailed, DemotionFailed
<1>2. Demoted(budget) \in Budgets /\ Promoted(budget) \in Budgets
  BY BudgetsKept DEF Kinds
<1>3. CASE pool' = pool
  <2>1. CASE DemotionFailed(c) /\ ~ MayPromote(budget)
    <3>1. budget' = budget /\ Remember(FALSE, TRUE, {u})
      BY <2>1 DEF DemotionFailed, RollBackDemotion
    <3>2. c \in Making /\ Recalled({u})
      BY <1>1, <3>1 DEF Making, Remember, Recalled
    <3> QED BY <1>1, <1>3, <3>1, <3>2, GivenUpKeeps
  <2>2. CASE ~ (DemotionFailed(c) /\ ~ MayPromote(budget))
    <3>1. /\ pool' = Updated(pool, u, StatusFor(job[c].for))
          /\ budget' \in Budgets /\ Remember(Gone(u), FALSE, {})
      BY <1>2, <2>2 DEF PromotionFailed, DemotionFailed, RollBackDemotion
    <3> QED BY <1>1, <3>1, PutBackKeeps
  <2> QED BY <2>1, <2>2
<1>4. CASE pool' # pool
  <2>1. /\ pool' = Updated(pool, u, StatusFor(job[c].for))
        /\ budget' \in Budgets /\ Remember(Gone(u), FALSE, {})
    BY <1>2, <1>4 DEF PromotionFailed, DemotionFailed, RollBackDemotion
  <2> QED BY <1>1, <2>1, PutBackKeeps
<1> QED BY <1>3, <1>4

\* the end of promote_unit and demote_unit: remove, add, assign
Replaced(p, u, new, a) == Assigned(Added(Removed(p, u), new), new, a)

\* The three calls at the end of a swap change the new unit alone.
LEMMA ReplacedIs ==
  ASSUME NEW p \in Pools, NEW u \in Units, NEW new \in Units, NEW a \in Agents \cup {NoAgent}
  PROVE  /\ Replaced(p, u, new, a) \in Pools
         /\ Replaced(p, u, new, a).held = (p.held \ {u}) \cup {new}
         /\ \A v \in Units : Replaced(p, u, new, a).unit[v].port = p.unit[v].port
         /\ \A v \in Units \ {new} : Replaced(p, u, new, a).unit[v].status = p.unit[v].status
         /\ Replaced(p, u, new, a).unit[new].status \in {"assigned", p.unit[new].status}
<1> DEFINE q == Added(Removed(p, u), new)
<1>1. q \in Pools /\ q.held = (p.held \ {u}) \cup {new} /\ q.unit = p.unit
  BY RemovedIs, AddedIs
<1>2. Replaced(p, u, new, a) = Assigned(q, new, a)
  BY DEF Replaced
<1> HIDE DEF q
<1>3. q \in Pools
  BY <1>1
<1>4. /\ Assigned(q, new, a) \in Pools /\ Assigned(q, new, a).held = q.held
      /\ \A v \in Units : Assigned(q, new, a).unit[v].port = q.unit[v].port
      /\ \A v \in Units \ {new} : Assigned(q, new, a).unit[v] = q.unit[v]
      /\ Assigned(q, new, a).unit[new].status \in {"assigned", q.unit[new].status}
  BY <1>3, AssignedIs
<1> QED BY <1>1, <1>2, <1>4

\* A swap that succeeds keeps the invariant.
LEMMA SwappedKeeps ==
  ASSUME IndInv, NEW c \in Slots, Swapped(c)
  PROVE  IndInv'
<1> USE Basics
<1> DEFINE u == job[c].on
           new == job[c].new
           N == {new}
           W == {u}
<1>1. /\ job[c].op \in EndOps /\ c \in Making /\ u \in Units /\ u \in Known /\ new \in Units
      /\ End(c) /\ UNCHANGED <<budget, loopVars>> /\ ports' = ports \ {Port(u)}
  BY DEF Swapped, EndOps, MakingOps, Making, Known, IndInv, JobsWhole
<1>2. Recalled({}) /\ (~ crossed' => u \in pool.held)
  BY DEF Swapped, Remember, Recalled, Gone
<1>3. job[c].for \in Agents \cup {NoAgent} /\ pool' = Replaced(pool, u, new, job[c].for)
  BY DEF Swapped, Jobs, Replaced
<1>4. /\ pool' \in Pools /\ pool'.held = (pool.held \ {u}) \cup {new}
      /\ \A v \in Units : pool'.unit[v].port = pool.unit[v].port
      /\ \A v \in Units \ {new} : pool'.unit[v].status = pool.unit[v].status
      /\ pool'.unit[new].status \in {"assigned", pool.unit[new].status}
  <2> DEFINE r == Replaced(pool, u, new, job[c].for)
  <2>1. /\ r \in Pools /\ r.held = (pool.held \ {u}) \cup {new}
        /\ \A v \in Units : r.unit[v].port = pool.unit[v].port
        /\ \A v \in Units \ {new} : r.unit[v].status = pool.unit[v].status
        /\ r.unit[new].status \in {"assigned", pool.unit[new].status}
    <3>1. pool \in Pools /\ u \in Units /\ new \in Units /\ job[c].for \in Agents \cup {NoAgent}
      BY <1>1, <1>3
    <3> DEFINE a == job[c].for
    <3> HIDE DEF u, new, a
    <3> QED BY ONLY <3>1, ReplacedIs DEF a
  <2>2. pool' = r
    BY <1>3
  <2> HIDE DEF r
  <2> QED BY ONLY <2>1, <2>2
<1>5. ASSUME ~ crossed'
      PROVE  /\ W \subseteq pool.held \cup Made
             /\ (pool.held \cup Made)' = (pool.held \cup Made) \ W
             /\ u \notin pool'.held /\ pool'.unit[new].status \notin Transitional
  <2>1. ~ crossed
    BY <1>2, <1>5 DEF Recalled
  <2>2. /\ Made' = Made \ {new} /\ new \in Made /\ pool.unit[new].status = "idle"
        /\ new \notin Known
    BY <1>1, <2>1, MadeIsApart DEF Status
  <2>3. u \notin Made
    BY <1>1, <2>1, MadeIsApart DEF Made
  <2> QED BY <1>1, <1>2, <1>4, <1>5, <2>2, <2>3
<1>6. PortsFreed(W) /\ ports' \subseteq ports
  BY <1>1 DEF PortsFreed
<1>7. /\ pool'.held \subseteq Known \cup N
      /\ ~ crossed' => pool'.held \subseteq pool.held \cup N
      /\ budget' \in Budgets /\ UNCHANGED loopVars
  BY <1>1, <1>4 DEF Known
<1>8. \A v \in Units \ ({job[c].on} \cup N) : pool'.unit[v].status = pool.unit[v].status
  BY <1>4
<1>9. ~ crossed' => \A v \in {job[c].on} \cup N :
          v \in pool'.held => pool'.unit[v].status \notin Transitional \/ v \in {}
  BY <1>5
<1>10. Incoming(c, N)
  BY <1>1 DEF Incoming
<1> HIDE DEF N, W
<1> QED BY <1>1, <1>2, <1>4, <1>5, <1>6, <1>7, <1>8, <1>9, <1>10, EndStep

\* The end of _destroy_unit and of _evict keeps the invariant.
LEMMA DestroyedKeeps ==
  ASSUME IndInv, NEW c \in Slots, Destroyed(c)
  PROVE  IndInv'
<1> USE Basics
<1> DEFINE u == job[c].on
           N == {}
           W == {u}
           S == {}
<1>1. /\ job[c].op = "remove" /\ job[c].op \in EndOps /\ c \notin Making
      /\ u \in Units /\ u \in Known
      /\ End(c) /\ UNCHANGED loopVars /\ ports' = ports \ {Port(u)}
  BY DEF Destroyed, EndOps, Making, Known
<1>2. Recalled(S) /\ (~ crossed' => u \in pool.held)
  BY DEF Destroyed, Remember, Recalled, Gone
<1>3. /\ pool' \in Pools /\ pool'.held = pool.held \ {u} /\ pool'.unit = pool.unit
  BY RemovedIs DEF Destroyed
<1>4. Kind(u) \in Kinds /\ budget' = Released(budget, Kind(u))
  BY DEF Destroyed, Kind, Kinds
<1>5. budget' \in Budgets
  BY <1>4, BudgetsKept
<1>6. Made' = Made
  <2>1. Making' = Making /\ \A t \in Making : job'[t] = job[t]
    <3>1. Making' = Making \ {c} /\ \A t \in Slots \ {c} : job'[t] = job[t]
      BY <1>1, EndedJob
    <3>2. \A t \in Making : t \in Slots \ {c}
      BY <1>1 DEF Making
    <3> QED BY <1>1, <3>1, <3>2
  <2> QED BY <2>1 DEF Made
<1>7. ASSUME ~ crossed'
      PROVE  /\ W \subseteq pool.held \cup Made
             /\ (pool.held \cup Made)' = (pool.held \cup Made) \ W
  <2>1. ~ crossed
    BY <1>2, <1>7 DEF Recalled
  <2>2. u \notin Made
    BY <1>1, <2>1, MadeIsApart DEF Made
  <2> QED BY <1>2, <1>3, <1>6, <1>7, <2>2
<1>8. PortsFreed(W) /\ ports' \subseteq ports
  BY <1>1 DEF PortsFreed
<1>9. /\ pool'.held \subseteq Known \cup N
      /\ ~ crossed' => pool'.held \subseteq pool.held \cup N
  BY <1>3 DEF Known
<1>10. Incoming(c, N)
  BY DEF Incoming
<1>11. \A v \in Units \ ({job[c].on} \cup N) : pool'.unit[v].status = pool.unit[v].status
  BY <1>3
<1>12. ~ crossed' => \A v \in {job[c].on} \cup N :
          v \in pool'.held => pool'.unit[v].status \notin Transitional \/ v \in S
  BY <1>3
<1>13. pool' \in Pools /\ \A v \in Units : pool'.unit[v].port = pool.unit[v].port
  BY <1>3
<1>14. ~ crossed' => pool'.held \subseteq pool.held \cup N
  BY <1>3
<1>15. /\ c \in Slots /\ job[c].op \in EndOps /\ End(c) /\ UNCHANGED loopVars
       /\ Recalled(S)
  BY <1>1, <1>2
<1> HIDE DEF N, W, S, u
<1> QED BY ONLY IndInv, <1>5, <1>7, <1>8, <1>9, <1>11, <1>12, <1>13, <1>14, <1>15, <1>10, EndStep

-----------------------------------------------------------------------------
(* A restart of the process, and the theorems *)

\* lifespan takes the dead units out and changes no unit.
LEMMA RemovedAllIs ==
  ASSUME NEW p \in Pools, NEW dead \in SUBSET p.held
  PROVE  /\ RemovedAll(p, dead) \in Pools /\ RemovedAll(p, dead).held = p.held \ dead
         /\ RemovedAll(p, dead).unit = p.unit
  BY DEF RemovedAll, Pools

\* rebuild_from_units yields a budget.
LEMMA RebuiltIs ==
  ASSUME NEW n \in [Kinds -> Int]
  PROVE  Rebuilt(n) \in Budgets
<1>1. Cost["headless"] \in [Resources -> Nat] /\ Cost["desktop"] \in [Resources -> Nat]
      /\ n["headless"] \in Int /\ n["desktop"] \in Int
  BY PoolAssumption DEF Kinds
<1> QED BY <1>1 DEF Rebuilt, Budgets

\* Where nothing is under way, nothing is being made.
LEMMA AtRest ==
  ASSUME job = [s \in Slots |-> Free], toCheck = {}, toSweep = {}, pool \in Pools
  PROVE  /\ job \in [Slots -> Jobs] /\ JobsWhole /\ MadeApart /\ Made = {}
         /\ \A s \in Slots : job[s].on = NoUnit
<1>1. job \in [Slots -> Jobs] /\ \A s \in Slots : job[s].op = "free" /\ job[s].on = NoUnit
  BY FreeIsJob
<1>2. Making = {}
  BY <1>1 DEF Making
<1> QED BY <1>1, <1>2 DEF JobsWhole, MadeApart, Made

\* The invariant holds at the start.
LEMMA InitKeeps ==
  ASSUME Init
  PROVE  IndInv
<1>1. pool \in Pools /\ pool.held = {}
  <2>1. [status |-> "idle", agent |-> NoAgent, port |-> 0, persistent |-> FALSE,
         failing |-> FALSE] \in UnitStates
    BY DEF UnitStates, Statuses
  <2> QED BY <2>1 DEF Init, Pools
<1>2. /\ job \in [Slots -> Jobs] /\ JobsWhole /\ MadeApart /\ Made = {}
      /\ \A s \in Slots : job[s].on = NoUnit
  BY <1>1, AtRest DEF Init
<1>3. budget \in Budgets
  <2>1. [k \in Kinds |-> 0] \in [Kinds -> Int]
    OBVIOUS
  <2> QED BY <2>1, RebuiltIs DEF Init
<1>4. TypeOK
  BY <1>1, <1>2, <1>3, TypeOKIs DEF Init
<1>5. (Known \cup Made) \ {NoUnit} = {}
  BY <1>1, <1>2 DEF Init, Known
<1>6. Ported /\ Attended
  BY <1>1, <1>5 DEF Ported, Attended
<1>7. PortsExclusive
  BY <1>1, <1>2 DEF Init, PortsExclusive
<1> QED BY <1>2, <1>4, <1>6, <1>7 DEF IndInv

\* A restart of the process keeps the invariant: no job outlives it.
LEMMA RestartKeeps ==
  ASSUME IndInv, NEW dead \in SUBSET pool.held, Restart(dead)
  PROVE  IndInv'
<1> USE Basics
<1>1. pool' \in Pools /\ pool'.held \subseteq pool.held /\ pool'.unit = pool.unit
  BY RemovedAllIs DEF Restart
<1>2. /\ job' \in [Slots -> Jobs] /\ JobsWhole' /\ MadeApart' /\ Made' = {}
      /\ \A s \in Slots : job'[s].on = NoUnit
  <2>1. job' = [s \in Slots |-> Free] /\ toCheck' = {} /\ toSweep' = {}
    BY DEF Restart
  <2>2. job' \in [Slots -> Jobs] /\ \A s \in Slots : job'[s].op = "free" /\ job'[s].on = NoUnit
    BY <2>1, FreeIsJob
  <2>3. Making' = {}
    BY <2>2 DEF Making
  <2> QED BY <2>2, <2>3 DEF JobsWhole, MadeApart, Made
<1>3. budget' \in Budgets
  <2>1. \A k \in Kinds : Active(pool', k) \in Int
    <3>1. ASSUME NEW k \in Kinds PROVE Active(pool', k) \in Int
      <4> DEFINE S == {u \in pool'.held : Kind(u) = k /\ pool'.unit[u].status # "unhealthy"}
      <4>1. IsFiniteSet(Units) /\ S \subseteq Units
        BY <1>1, PoolAssumption
      <4>2. Active(pool', k) = Cardinality(S)
        BY DEF Active
      <4> HIDE DEF S
      <4> QED BY <4>1, <4>2, FS_Subset, FS_CardinalityType
    <3> QED BY <3>1
  <2> QED BY <2>1, RebuiltIs DEF Restart
<1>4. /\ ports' = {Port(u) : u \in pool'.held}
      /\ crossed' \in BOOLEAN /\ astray' \in BOOLEAN /\ (~ crossed' => ~ crossed)
      /\ left' = {u \in pool'.held : pool'.unit[u].status \in Transitional}
  BY <1>1 DEF Restart, Remember
<1>5. (Known \cup Made)' \subseteq pool'.held \cup {NoUnit}
  BY <1>2 DEF Restart, Known
<1>6. Ported'
  BY <1>1, <1>5 DEF IndInv, Ported, Port, Known
<1>7. ports' \subseteq Ports
  <2>1. ASSUME NEW u \in pool'.held PROVE Port(u) \in Ports
    <3>1. u \in Units /\ u \in Known /\ u # NoUnit
      BY <1>1 DEF Known
    <3>2. Port(u) # 0
      BY <3>1 DEF IndInv, Ported
    <3>3. Port(u) \in Ports \cup {0}
      BY <3>1 DEF Port, Pools, UnitStates
    <3> QED BY <3>2, <3>3
  <2> QED BY <1>4, <2>1
<1>8. TypeOK'
  BY <1>1, <1>2, <1>3, <1>4, <1>7 DEF TypeOK, Pools, UnitStates, Budgets, Restart
<1>9. PortsExclusive'
  <2>1. SUFFICES ASSUME ~ crossed' PROVE PortsExclusive'
    BY DEF PortsExclusive
  <2>2. \A u, v \in pool.held \cup Made : Port(u) = Port(v) => u = v
    BY <1>4, <2>1 DEF IndInv, PortsExclusive
  <2>3. \A u \in pool'.held : pool'.unit[u].port = Port(u)
    BY <1>1 DEF Port
  <2>4. (pool.held \cup Made)' = pool'.held
    BY <1>2
  <2>5. ports' = {pool'.unit[u].port : u \in pool'.held}
    BY <1>4, <2>3
  <2> QED BY <1>1, <2>2, <2>3, <2>4, <2>5 DEF PortsExclusive, Port
<1>10. Attended'
  BY <1>4 DEF Attended, Status
<1> QED BY <1>2, <1>6, <1>8, <1>9, <1>10 DEF IndInv

\* A step that changes nothing keeps what holds.
LEMMA StutterKeeps ==
  ASSUME IndInv, UNCHANGED vars
  PROVE  IndInv'
<1> USE DEF vars, loopVars
<1>1. TypeOK'
  BY DEF IndInv, TypeOK
<1>2. Making' = Making /\ Made' = Made /\ Known' = Known
  BY DEF Making, Made, Known
<1>3. JobsWhole' /\ Ported'
  BY <1>2 DEF IndInv, JobsWhole, Ported, Port
<1>4. MadeApart'
  BY <1>2 DEF IndInv, MadeApart, Status
<1>5. PortsExclusive'
  BY <1>2 DEF IndInv, PortsExclusive, Port
<1>6. Attended'
  BY DEF IndInv, Attended, Status
<1> QED BY <1>1, <1>3, <1>4, <1>5, <1>6 DEF IndInv

\* Every step of the pool manager keeps the inductive invariant.
THEOREM Step ==
  ASSUME IndInv, [Next]_vars
  PROVE  IndInv'
<1>1. CASE AtOnce
  BY <1>1, AtOnceKeeps
<1>2. ASSUME NEW c \in Calls, CallBegins(c) PROVE IndInv'
  BY <1>2, CallBeginsKeeps
<1>3. ASSUME NEW c \in Calls, CallGoesOn(c) PROVE IndInv'
  <2>1. c \in Slots
    BY DEF Slots
  <2> QED BY <1>3, <2>1, CreatedKeeps, CreationFailedKeeps, SwappedKeeps, SwapFailedKeeps,
             GoesOnQuietly DEF CallGoesOn
<1>4. ASSUME NEW s \in Slots, Destroyed(s) PROVE IndInv'
  BY <1>4, DestroyedKeeps
<1>5. CASE Loops
  BY <1>5, LoopsKeep
<1>6. ASSUME NEW dead \in SUBSET pool.held, Restart(dead) PROVE IndInv'
  BY <1>6, RestartKeeps
<1>7. CASE UNCHANGED vars
  BY <1>7, StutterKeeps
<1> QED BY <1>1, <1>2, <1>3, <1>4, <1>5, <1>6, <1>7 DEF Next

\* The inductive invariant holds in every behaviour of the pool manager, for any number of
\* units, ports, agents, requests and limits.
THEOREM Invariance == Spec => []IndInv
<1>1. Init => IndInv
  BY InitKeeps
<1>2. IndInv /\ [Next]_vars => IndInv'
  BY Step
<1> QED BY <1>1, <1>2, PTL DEF Spec

\* The state of the pool manager is well formed.
THEOREM TypeCorrect == Spec => []TypeOK
<1>1. IndInv => TypeOK
  BY DEF IndInv
<1> QED BY <1>1, Invariance, PTL

\* No path of main.py or health_monitor.py leaks a port or gives one out twice, unless two
\* operations meet on one unit.
THEOREM PortsSafe == Spec => []PortsExclusive
<1>1. IndInv => PortsExclusive
  BY DEF IndInv
<1> QED BY <1>1, Invariance, PTL

\* A unit in transition is one that some coroutine is working on, unless two operations meet
\* on one unit or the code itself gave the unit up.
THEOREM NobodyForgottenSafe == Spec => []NobodyForgotten
<1>1. IndInv => NobodyForgotten
  BY DEF IndInv, Attended, NobodyForgotten
<1> QED BY <1>1, Invariance, PTL

-----------------------------------------------------------------------------
(*****************************************************************************)
(* The books of PoolManager are exact, for any number of units, ports,       *)
(* agents and requests, and any limits and costs.                            *)
(*                                                                           *)
(* The budget counts the units that stay: those of the pool and those being  *)
(* made, without the ones a swap is about to take out.  That set is what     *)
(* the proof follows (Staying); the differences of cardinalities in          *)
(* BooksExact are its size (CountedIs).                                      *)
(*****************************************************************************)
SwapOps == {"promote", "demote"}
Leaves(u) == \E s \in Slots : job[s].op \in SwapOps /\ job[s].on = u
Staying(k) == {u \in pool.held \cup Made : Kind(u) = k /\ ~Leaves(u)}
Size(k) == Cardinality(Staying(k))

\* A swap goes from a unit of one kind to a unit of the other.
SwapsWhole ==
  \A s \in Slots :
    /\ job[s].op = "promote" => Kind(job[s].on) = "headless" /\ Kind(job[s].new) = "desktop"
    /\ job[s].op = "demote" => Kind(job[s].on) = "desktop" /\ Kind(job[s].new) = "headless"

\* What it takes out is there, and no other swap takes it out.
SwapsApart ==
  ~crossed =>
    \A s \in Slots : job[s].op \in SwapOps =>
      /\ job[s].on \in pool.held
      /\ \A t \in Slots : job[t].op \in SwapOps /\ job[t].on = job[s].on => t = s

\* BooksExact in terms of the units that stay.
SizesExact ==
  ~crossed /\ ~astray =>
    /\ budget = Rebuilt([k \in Kinds |-> Size(k)])
    /\ Size("headless") + Size("desktop") <= MaxTotal
    /\ Size("desktop") <= Limit["desktop"]

Books == SwapsWhole /\ SwapsApart /\ SizesExact

-----------------------------------------------------------------------------
(* Sizes *)

\* The units that are counted are finitely many.
LEMMA SizeIs ==
  ASSUME IndInv, NEW k \in Kinds
  PROVE  Staying(k) \subseteq Units /\ IsFiniteSet(Staying(k)) /\ Size(k) \in Nat
<1>1. Staying(k) \subseteq Units
  BY Basics DEF IndInv, JobsWhole, Staying, Made, Making, Pools
<1> QED
  BY <1>1, PoolAssumption, FS_Subset, FS_CardinalityType DEF Size

\* One unit more that stays, one more that is counted, ...
LEMMA SizeUp ==
  ASSUME IndInv, NEW k \in Kinds, NEW u, u \notin Staying(k), Staying(k)' = Staying(k) \cup {u}
  PROVE  Size(k)' = Size(k) + 1
  BY SizeIs, FS_AddElement DEF Size

\* ... and one less.
LEMMA SizeDown ==
  ASSUME IndInv, NEW k \in Kinds, NEW u \in Staying(k), Staying(k)' = Staying(k) \ {u}
  PROVE  Size(k)' = Size(k) - 1
  BY SizeIs, FS_RemoveElement DEF Size

\* The units a swap is about to take out are as many as there are swaps: what BooksExact
\* counts is the size of what stays.
LEMMA CountedIs ==
  ASSUME IndInv, SwapsWhole, SwapsApart, ~crossed, NEW k \in Kinds
  PROVE  Counted(k) = Size(k)
<1> DEFINE All == {u \in pool.held \cup Made : Kind(u) = k}
           Leaving == {u \in All : Leaves(u)}
           f == [s \in Swaps(k) |-> job[s].on]
<1>1. All \subseteq Units
  BY Basics DEF IndInv, JobsWhole, Made, Making, Pools
<1>2. IsFiniteSet(All) /\ IsFiniteSet(Leaving)
  BY <1>1, PoolAssumption, FS_Subset
<1>3. f \in [Swaps(k) -> Leaving]
  BY DEF SwapsApart, SwapOps, Swaps, Leaves
<1>4. \A s, t \in Swaps(k) : f[s] = f[t] => s = t
  BY DEF SwapsApart, SwapOps, Swaps
<1>5. \A u \in Leaving : \E s \in Swaps(k) : f[s] = u
  BY DEF SwapOps, Swaps, Leaves
<1>6. f \in Injection(Swaps(k), Leaving) /\ f \in Surjection(Swaps(k), Leaving)
  <2> HIDE DEF f, Leaving
  <2> QED
    BY <1>3, <1>4, <1>5 DEF Injection, Surjection, IsInjective
<1>7. Cardinality(Swaps(k)) = Cardinality(Leaving)
  BY <1>2, <1>6, FS_Injection
<1>8. Staying(k) = All \ Leaving /\ All \cap Leaving = Leaving
  BY DEF Staying
<1>9. Size(k) = Cardinality(All) - Cardinality(Leaving)
  BY <1>2, <1>8, FS_Difference DEF Size
<1> QED
  BY <1>7, <1>9 DEF Counted

\* So the two ways of saying it are the same.
LEMMA BooksMatch ==
  ASSUME IndInv, Books
  PROVE  BooksExact
<1> SUFFICES ASSUME ~crossed, ~astray
             PROVE  BooksExact
  BY DEF BooksExact
<1>1. \A k \in Kinds : Counted(k) = Size(k)
  BY CountedIs DEF Books
<1>2. [k \in Kinds |-> Counted(k)] = [k \in Kinds |-> Size(k)]
  BY <1>1
<1> QED
  BY <1>1, <1>2 DEF Books, SizesExact, BooksExact, Kinds

-----------------------------------------------------------------------------
(* The arithmetic of CapacityBudget on exact books *)

Plus(n, k) == [n EXCEPT ![k] = n[k] + 1]
Minus(n, k) == [n EXCEPT ![k] = n[k] - 1]
Counts == [Kinds -> Nat]

\* The few facts about products that the solver needs to be told.
LEMMA Products ==
  ASSUME NEW m \in Nat, NEW c \in Nat
  PROVE  /\ (m + 1) * c = m * c + c
         /\ m > 0 => (m - 1) * c = m * c - c
         /\ m * c \in Nat
         /\ m > 0 => m * c >= c
<1>1. (m + 1) * c = m * c + c /\ m * c \in Nat
  OBVIOUS
<1>2. ASSUME m > 0
      PROVE  (m - 1) * c = m * c - c /\ m * c >= c
  <2>1. PICK d \in Nat : m = d + 1
    BY <1>2
  <2>2. m * c = d * c + c /\ d * c \in Nat
    BY <2>1
  <2> QED
    BY <2>1, <2>2
<1> QED
  BY <1>1, <1>2

\* The costs are natural numbers.
LEMMA CostIs ==
  ASSUME NEW k \in Kinds, NEW r \in Resources
  PROVE  Cost[k][r] \in Nat
  BY PoolAssumption

\* reserve adds one unit to exact books, ...
LEMMA ReservedExact ==
  ASSUME NEW n \in Counts, NEW k \in Kinds
  PROVE  Reserved(Rebuilt(n), k) = Rebuilt(Plus(n, k))
<1>1. \A r \in Resources : Rebuilt(n).load[r] + Cost[k][r] = Rebuilt(Plus(n, k)).load[r]
  <2> SUFFICES ASSUME NEW r \in Resources
               PROVE  Rebuilt(n).load[r] + Cost[k][r] = Rebuilt(Plus(n, k)).load[r]
    OBVIOUS
  <2>1. Cost["headless"][r] \in Nat /\ Cost["desktop"][r] \in Nat
    BY CostIs DEF Kinds
  <2>2. n["headless"] \in Nat /\ n["desktop"] \in Nat
    BY DEF Counts, Kinds
  <2>3. CASE k = "headless"
    <3>1. Plus(n, k)["headless"] = n["headless"] + 1 /\ Plus(n, k)["desktop"] = n["desktop"]
      BY <2>3 DEF Plus, Counts, Kinds
    <3>2. (n["headless"] + 1) * Cost["headless"][r]
            = n["headless"] * Cost["headless"][r] + Cost["headless"][r]
      BY <2>1, <2>2, Products
    <3> QED
      BY <2>1, <2>2, <2>3, <3>1, <3>2 DEF Rebuilt
  <2>4. CASE k = "desktop"
    <3>1. Plus(n, k)["desktop"] = n["desktop"] + 1 /\ Plus(n, k)["headless"] = n["headless"]
      BY <2>4 DEF Plus, Counts, Kinds
    <3>2. (n["desktop"] + 1) * Cost["desktop"][r]
            = n["desktop"] * Cost["desktop"][r] + Cost["desktop"][r]
      BY <2>1, <2>2, Products
    <3> QED
      BY <2>1, <2>2, <2>4, <3>1, <3>2 DEF Rebuilt
  <2> QED
    BY <2>3, <2>4 DEF Kinds
<1> QED
  BY <1>1 DEF Reserved, Rebuilt, Plus

\* ... release takes one off without meeting its floor of zero, ...
LEMMA ReleasedExact ==
  ASSUME NEW n \in Counts, NEW k \in Kinds, n[k] > 0
  PROVE  Released(Rebuilt(n), k) = Rebuilt(Minus(n, k))
<1>1. \A r \in Resources :
        AtLeastZero(Rebuilt(n).load[r] - Cost[k][r]) = Rebuilt(Minus(n, k)).load[r]
  <2> SUFFICES ASSUME NEW r \in Resources
               PROVE  AtLeastZero(Rebuilt(n).load[r] - Cost[k][r])
                        = Rebuilt(Minus(n, k)).load[r]
    OBVIOUS
  <2> DEFINE h == Cost["headless"][r]
             d == Cost["desktop"][r]
  <2>1. h \in Nat /\ d \in Nat
    BY CostIs DEF Kinds
  <2>2. n["headless"] \in Nat /\ n["desktop"] \in Nat
    BY DEF Counts, Kinds
  <2>3. n["headless"] * h \in Nat /\ n["desktop"] * d \in Nat
    BY <2>1, <2>2, Products
  <2>4. CASE k = "headless"
    <3>1. Minus(n, k)["headless"] = n["headless"] - 1 /\ Minus(n, k)["desktop"] = n["desktop"]
      BY <2>4 DEF Minus, Counts, Kinds
    <3>2. (n["headless"] - 1) * h = n["headless"] * h - h /\ n["headless"] * h >= h
      BY <2>1, <2>2, <2>4, Products
    <3>3. Rebuilt(n).load[r] - Cost[k][r] = Rebuilt(Minus(n, k)).load[r]
      BY <2>1, <2>3, <2>4, <3>1, <3>2 DEF Rebuilt
    <3>4. Rebuilt(n).load[r] - Cost[k][r] >= 0
      BY <2>1, <2>3, <2>4, <3>2 DEF Rebuilt
    <3>5. Rebuilt(n).load[r] - Cost[k][r] \in Int
      BY <2>1, <2>3, <2>4 DEF Rebuilt
    <3> QED
      BY <3>3, <3>4, <3>5 DEF AtLeastZero
  <2>5. CASE k = "desktop"
    <3>1. Minus(n, k)["desktop"] = n["desktop"] - 1 /\ Minus(n, k)["headless"] = n["headless"]
      BY <2>5 DEF Minus, Counts, Kinds
    <3>2. (n["desktop"] - 1) * d = n["desktop"] * d - d /\ n["desktop"] * d >= d
      BY <2>1, <2>2, <2>5, Products
    <3>3. Rebuilt(n).load[r] - Cost[k][r] = Rebuilt(Minus(n, k)).load[r]
      BY <2>1, <2>3, <2>5, <3>1, <3>2 DEF Rebuilt
    <3>4. Rebuilt(n).load[r] - Cost[k][r] >= 0
      BY <2>1, <2>3, <2>5, <3>2 DEF Rebuilt
    <3>5. Rebuilt(n).load[r] - Cost[k][r] \in Int
      BY <2>1, <2>3, <2>5 DEF Rebuilt
    <3> QED
      BY <3>3, <3>4, <3>5 DEF AtLeastZero
  <2> QED
    BY <2>4, <2>5 DEF Kinds
<1>2. AtLeastZero(n[k] - 1) = n[k] - 1
  BY DEF AtLeastZero, Counts
<1>3. Rebuilt(n).count = n
  BY DEF Rebuilt
<1> QED
  BY <1>1, <1>2, <1>3 DEF Released, Rebuilt, Minus

\* ... and promote and demote move one over.
LEMMA MovedExact ==
  ASSUME NEW n \in Counts
  PROVE  /\ n["headless"] > 0 =>
              Promoted(Rebuilt(n)) = Rebuilt(Plus(Minus(n, "headless"), "desktop"))
         /\ n["desktop"] > 0 =>
              Demoted(Rebuilt(n)) = Rebuilt(Plus(Minus(n, "desktop"), "headless"))
<1>1. n["headless"] \in Nat /\ n["desktop"] \in Nat
  BY DEF Counts, Kinds
<1>2. /\ Plus(Minus(n, "headless"), "desktop")
           = [k \in Kinds |-> n[k] + (IF k = "desktop" THEN 1 ELSE -1)]
      /\ Plus(Minus(n, "desktop"), "headless")
           = [k \in Kinds |-> n[k] - (IF k = "desktop" THEN 1 ELSE -1)]
  <2>1. ASSUME NEW k \in Kinds, NEW l \in Kinds, k # l
        PROVE  Plus(Minus(n, k), l) = [i \in Kinds |-> IF i = k THEN n[i] - 1 ELSE n[i] + 1]
    <3> DEFINE m == Minus(n, k)
    <3>1. m = [i \in Kinds |-> IF i = k THEN n[i] - 1 ELSE n[i]]
      BY DEF Minus, Counts
    <3>2. m[l] = n[l]
      BY <2>1, <3>1
    <3> HIDE DEF m
    <3>3. Plus(m, l) = [i \in Kinds |-> IF i = l THEN n[l] + 1 ELSE m[i]]
      BY <3>1, <3>2 DEF Plus
    <3>4. \A i \in Kinds : i = k \/ i = l
      BY <2>1 DEF Kinds
    <3>5. Plus(m, l) = [i \in Kinds |-> IF i = k THEN n[i] - 1 ELSE n[i] + 1]
      BY <2>1, <3>1, <3>3, <3>4
    <3> QED
      BY <3>5 DEF m
  <2>2. "headless" \in Kinds /\ "desktop" \in Kinds /\ "headless" # "desktop"
    BY DEF Kinds
  <2>3. /\ Plus(Minus(n, "headless"), "desktop")
             = [i \in Kinds |-> IF i = "headless" THEN n[i] - 1 ELSE n[i] + 1]
        /\ Plus(Minus(n, "desktop"), "headless")
             = [i \in Kinds |-> IF i = "desktop" THEN n[i] - 1 ELSE n[i] + 1]
    BY <2>1, <2>2
  <2>4. \A i \in Kinds :
          /\ (IF i = "headless" THEN n[i] - 1 ELSE n[i] + 1)
               = n[i] + (IF i = "desktop" THEN 1 ELSE -1)
          /\ (IF i = "desktop" THEN n[i] - 1 ELSE n[i] + 1)
               = n[i] - (IF i = "desktop" THEN 1 ELSE -1)
    BY DEF Kinds, Counts
  <2> QED
    BY <2>3, <2>4
<1>3. ASSUME n["headless"] > 0
      PROVE  \A r \in Resources :
               Rebuilt(n).load[r] + Net(r)
                 = (n["headless"] - 1) * Cost["headless"][r]
                     + (n["desktop"] + 1) * Cost["desktop"][r]
  <2> SUFFICES ASSUME NEW r \in Resources
               PROVE  Rebuilt(n).load[r] + Net(r)
                        = (n["headless"] - 1) * Cost["headless"][r]
                            + (n["desktop"] + 1) * Cost["desktop"][r]
    OBVIOUS
  <2> DEFINE h == Cost["headless"][r]
             d == Cost["desktop"][r]
  <2>1. h \in Nat /\ d \in Nat
    BY CostIs DEF Kinds
  <2>2. /\ (n["headless"] - 1) * h = n["headless"] * h - h
        /\ (n["desktop"] + 1) * d = n["desktop"] * d + d
        /\ n["headless"] * h \in Nat /\ n["desktop"] * d \in Nat
    BY <1>1, <1>3, <2>1, Products
  <2> QED
    BY <2>1, <2>2 DEF Rebuilt, Net
<1>4. ASSUME n["desktop"] > 0
      PROVE  \A r \in Resources :
               Rebuilt(n).load[r] - Net(r)
                 = (n["headless"] + 1) * Cost["headless"][r]
                     + (n["desktop"] - 1) * Cost["desktop"][r]
  <2> SUFFICES ASSUME NEW r \in Resources
               PROVE  Rebuilt(n).load[r] - Net(r)
                        = (n["headless"] + 1) * Cost["headless"][r]
                            + (n["desktop"] - 1) * Cost["desktop"][r]
    OBVIOUS
  <2> DEFINE h == Cost["headless"][r]
             d == Cost["desktop"][r]
  <2>1. h \in Nat /\ d \in Nat
    BY CostIs DEF Kinds
  <2>2. /\ (n["headless"] + 1) * h = n["headless"] * h + h
        /\ (n["desktop"] - 1) * d = n["desktop"] * d - d
        /\ n["headless"] * h \in Nat /\ n["desktop"] * d \in Nat
    BY <1>1, <1>4, <2>1, Products
  <2> QED
    BY <2>1, <2>2 DEF Rebuilt, Net
<1>5. Rebuilt(n).count = n
  BY DEF Rebuilt
<1>6. ASSUME n["headless"] > 0
      PROVE  Promoted(Rebuilt(n)) = Rebuilt(Plus(Minus(n, "headless"), "desktop"))
  <2> DEFINE m == [k \in Kinds |-> n[k] + (IF k = "desktop" THEN 1 ELSE -1)]
  <2>1. m["headless"] = n["headless"] - 1 /\ m["desktop"] = n["desktop"] + 1
    BY <1>1 DEF Kinds
  <2>2. Promoted(Rebuilt(n)) = Rebuilt(m)
    BY <1>3, <1>5, <1>6, <2>1 DEF Promoted, Rebuilt
  <2> QED
    BY <1>2, <2>2
<1>7. ASSUME n["desktop"] > 0
      PROVE  Demoted(Rebuilt(n)) = Rebuilt(Plus(Minus(n, "desktop"), "headless"))
  <2> DEFINE m == [k \in Kinds |-> n[k] - (IF k = "desktop" THEN 1 ELSE -1)]
  <2>1. m["headless"] = n["headless"] + 1 /\ m["desktop"] = n["desktop"] - 1
    BY <1>1 DEF Kinds
  <2>2. Demoted(Rebuilt(n)) = Rebuilt(m)
    BY <1>4, <1>5, <1>7, <2>1 DEF Demoted, Rebuilt
  <2> QED
    BY <1>2, <2>2
<1> QED
  BY <1>6, <1>7

-----------------------------------------------------------------------------
(* Steps that move no unit and no money *)

\* Nothing moves: units, money, and what is being made or swapped; or the history tells.
Calm ==
  /\ ~crossed' => ~crossed /\ pool'.held = pool.held
  /\ ~astray' => ~astray /\ budget' = budget
  /\ \A s \in Slots : \/ job'[s] = job[s]
                      \/ job[s].op \notin MakingOps /\ job'[s].op \notin MakingOps

\* Then the books stay exact.
LEMMA CalmKeeps ==
  ASSUME IndInv, Books, Calm
  PROVE  Books'
<1>1. \A s \in Slots : /\ job[s].op \in MakingOps <=> job'[s].op \in MakingOps
                       /\ job[s].op \in MakingOps => job'[s] = job[s]
                       /\ job[s].op \in SwapOps <=> job'[s].op \in SwapOps
  BY DEF Calm, MakingOps, SwapOps
<1>2. SwapsWhole'
  BY <1>1 DEF Books, SwapsWhole, MakingOps
<1>3. SwapsApart'
  BY <1>1 DEF Books, SwapsApart, MakingOps, SwapOps, Calm
<1>4. Made' = Made /\ \A u : Leaves(u)' <=> Leaves(u)
  BY <1>1 DEF Made, Making, Leaves, MakingOps, SwapOps
<1>5. ~crossed' => \A k \in Kinds : Staying(k)' = Staying(k)
  BY <1>4 DEF Staying, Calm
<1>6. ~crossed' => \A k \in Kinds : Size(k)' = Size(k)
  BY <1>5 DEF Size
<1>7. SizesExact'
  <2> SUFFICES ASSUME ~crossed', ~astray'
               PROVE  SizesExact'
    BY DEF SizesExact
  <2>1. [k \in Kinds |-> Size(k)]' = [k \in Kinds |-> Size(k)]
    BY <1>6
  <2> QED
    BY <1>6, <2>1 DEF Books, SizesExact, Calm, Kinds
<1> QED
  BY <1>2, <1>3, <1>7 DEF Books

\* Of the methods of PoolState only add, remove and update move a unit.
LEMMA HeldOf ==
  ASSUME NEW p \in Pools
  PROVE  /\ \A u, s : Cleared(p, u, s).held = p.held
         /\ \A u, a : Assigned(p, u, a).held = p.held
         /\ \A u, s : Updated(p, u, s).held = p.held \cup {u}
         /\ \A u, s : [Updated(p, u, s) EXCEPT !.unit[u].failing = FALSE].held = p.held \cup {u}
  BY DEF Pools, Cleared, Unmapped, Assigned, Updated

\* Jobs that make nothing come and go without a change to what is made or swapped.
JobsCalm ==
  \A s \in Slots : \/ job'[s] = job[s]
                   \/ job[s].op \notin MakingOps /\ job'[s].op \notin MakingOps

\* A job of one of the other operations, ended or replaced by another.
LEMMA BegunCalm ==
  ASSUME job \in [Slots -> Jobs], NEW s \in Slots, job[s].op \notin MakingOps,
         \/ End(s)
         \/ \E op \in Ops \ MakingOps : \E u, new, a :
              Begin(s, op, u) \/ BeginMaking(s, op, u, new, a)
  PROVE  JobsCalm
<1>1. CASE End(s)
  BY <1>1 DEF JobsCalm, End, Free, MakingOps
<1>2. ASSUME NEW op \in Ops \ MakingOps, NEW u, NEW new, NEW a,
             Begin(s, op, u) \/ BeginMaking(s, op, u, new, a)
      PROVE  JobsCalm
  <2>1. PICK j : job' = [job EXCEPT ![s] = j] /\ j.op = op
    <3>1. CASE Begin(s, op, u)
      <4>1. [Free EXCEPT !.op = op, !.on = u].op = op
        BY DEF Free
      <4> QED
        BY <3>1, <4>1 DEF Begin
    <3>2. CASE BeginMaking(s, op, u, new, a)
      <4>1. [op |-> op, on |-> u, new |-> new, for |-> a].op = op
        OBVIOUS
      <4> QED
        BY <3>2, <4>1 DEF BeginMaking
    <3> QED
      BY <1>2, <3>1, <3>2
  <2>2. \A t \in Slots : job'[t] = IF t = s THEN j ELSE job[t]
    BY <2>1
  <2> QED
    BY <2>1, <2>2 DEF JobsCalm
<1> QED
  BY <1>1, <1>2

\* The endpoints that finish at once.  A demotion without a port takes the money of the
\* swap and puts it back, or goes astray.
LEMMA AtOnceIsCalm ==
  ASSUME IndInv, AtOnce
  PROVE  Calm
<1> USE Basics, HeldOf
<1>0. ASSUME NEW u \in Units, DemoteWithoutPort(u)
      PROVE  Calm
  <2>1. u \in pool.held /\ UNCHANGED job
    BY <1>0 DEF DemoteWithoutPort
  <2>2. /\ pool'.held = pool.held
        /\ ~crossed' => ~crossed
        /\ ~astray' => ~astray /\ budget' = budget
    <3>1. \A s : Updated(pool, u, s).held = pool.held
      <4>1. \A s : Updated(pool, u, s).held = pool.held \cup {u}
        OBVIOUS
      <4>2. pool.held \cup {u} = pool.held
        BY <2>1
      <4> QED
        BY ONLY <4>1, <4>2
    <3>2. CASE MayPromote(Demoted(budget))
      BY ONLY <1>0, <3>1, <3>2 DEF DemoteWithoutPort, Quietly, Remember
    <3>3. CASE ~MayPromote(Demoted(budget))
      BY ONLY <1>0, <3>1, <3>3 DEF DemoteWithoutPort, Remember
    <3> QED
      BY <3>2, <3>3
  <2> QED
    BY <2>1, <2>2 DEF Calm
<1> SUFFICES ASSUME \A u \in Units : ~DemoteWithoutPort(u)
             PROVE  Calm
  BY <1>0
<1>1. UNCHANGED job /\ budget' = budget /\ Quietly
  BY DEF AtOnce, SessionReuse, SessionEndPersistent, SessionTakeIdle, AssignUnit,
    SetPersistent, ReleaseDesktop, PromoteWithoutPort, Unaffected
<1>2. pool'.held = pool.held
  <2>1. ASSUME NEW a \in Agents, SessionReuse(a) \/ SessionEndPersistent(a)
        PROVE  pool'.held = pool.held
    BY <2>1 DEF SessionReuse, SessionEndPersistent
  <2>2. ASSUME NEW a \in Agents, NEW k \in Kinds, SessionTakeIdle(a, k)
        PROVE  pool'.held = pool.held
    BY <2>2 DEF SessionTakeIdle
  <2>3. ASSUME NEW u \in Units, NEW a \in Agents, AssignUnit(u, a)
        PROVE  pool'.held = pool.held
    BY <2>3 DEF AssignUnit
  <2>4. ASSUME NEW u \in Units, NEW persistent \in BOOLEAN, SetPersistent(u, persistent)
        PROVE  pool'.held = pool.held
    BY <2>4 DEF SetPersistent, Pools
  <2>5. ASSUME NEW u \in Units, ReleaseDesktop(u) \/ PromoteWithoutPort(u)
        PROVE  pool'.held = pool.held
    <3>1. CASE ReleaseDesktop(u)
      BY <3>1 DEF ReleaseDesktop
    <3>2. CASE PromoteWithoutPort(u)
      <4>1. u \in pool.held /\ pool' = Updated(pool, u, StatusFor(Agent(u)))
        BY <3>2 DEF PromoteWithoutPort
      <4>2. Updated(pool, u, StatusFor(Agent(u))).held = pool.held \cup {u}
        OBVIOUS
      <4> QED
        BY <4>1, <4>2
    <3> QED
      BY <2>5, <3>1, <3>2
  <2> QED
    BY <2>1, <2>2, <2>3, <2>4, <2>5 DEF AtOnce
<1> QED
  BY <1>1, <1>2 DEF Calm, Quietly, Remember

\* Requests that make nothing, when they begin ...
LEMMA CallBeginsCalm ==
  ASSUME IndInv, NEW c \in Calls,
         \/ \E a \in Agents : SessionEndDesktop(c, a) \/ SessionEndHeadless(c, a)
         \/ \E u \in Units : DestroyUnit(c, u) \/ ReleaseHeadless(c, u) \/ RestartUnit(c, u)
  PROVE  Calm
<1> USE Basics, HeldOf
<1>1. c \in Slots
  BY DEF Slots
<1>2. \E u : DestroyUnit(c, u) \/ ReleaseHeadless(c, u) \/ RestartUnit(c, u)
  BY DEF SessionEndDesktop, SessionEndHeadless
<1>3. PICK u : DestroyUnit(c, u) \/ ReleaseHeadless(c, u) \/ RestartUnit(c, u)
  BY <1>2
<1>4. budget' = budget /\ Quietly /\ job[c] = Free
  BY <1>3 DEF DestroyUnit, ReleaseHeadless, RestartUnit, QueueReset, Unaffected
<1>5. pool'.held = pool.held
  BY <1>3 DEF DestroyUnit, ReleaseHeadless, RestartUnit, QueueReset
<1>6. JobsCalm
  <2>1. job[c].op \notin MakingOps
    BY <1>4 DEF Free, MakingOps
  <2>2. {"remove", "resetQueued", "restart"} \subseteq Ops \ MakingOps
    BY DEF Ops, MakingOps
  <2>3. \E op \in Ops \ MakingOps : \E v, new, a :
          Begin(c, op, v) \/ BeginMaking(c, op, v, new, a)
    BY <1>3, <2>2 DEF DestroyUnit, ReleaseHeadless, RestartUnit, QueueReset
  <2> QED
    BY <1>1, <2>1, <2>3, BegunCalm
<1> QED
  BY <1>4, <1>5, <1>6 DEF Calm, JobsCalm, Quietly, Remember

\* ... and as they go on.
LEMMA GoesOnCalm ==
  ASSUME IndInv, NEW c \in Calls,
         \/ StartReset(c) \/ ResetDone(c) \/ Restarted(c) \/ RestartNotReady(c)
         \/ RestartFailed(c) \/ StartZombieReset(c) \/ ZombieReset(c)
  PROVE  Calm
<1> USE Basics, HeldOf
<1>1. c \in Slots
  BY DEF Slots
<1>2. budget' = budget /\ (~astray' => ~astray) /\ (~crossed' => ~crossed)
  BY DEF StartReset, ResetDone, Restarted, RestartNotReady, RestartFailed, StartZombieReset,
    ZombieReset, Unaffected, Quietly, Remember
<1>3. pool'.held = pool.held
  <2>1. Cleared(pool, job[c].on, "idle") \in Pools
        /\ Cleared(pool, job[c].on, "idle").held = pool.held
    <3>1. CASE job[c].on \in Units
      BY <3>1, ClearedIs
    <3>2. CASE job[c].on \notin Units
      BY <3>2 DEF Cleared, Pools
    <3> QED
      BY <3>1, <3>2
  <2>2. Assigned(Cleared(pool, job[c].on, "idle"), job[c].on, job[c].for).held = pool.held
    BY <2>1
  <2>3. job[c].on \in pool.held => Updated(pool, job[c].on, "unhealthy").held = pool.held
    <3>1. Updated(pool, job[c].on, "unhealthy").held = pool.held \cup {job[c].on}
      OBVIOUS
    <3>2. \A S, T, x : T = S \cup {x} /\ x \in S => T = S
      OBVIOUS
    <3> QED
      BY ONLY <3>1, <3>2
  <2>4. CASE StartReset(c) \/ RestartFailed(c) \/ StartZombieReset(c) \/ ZombieReset(c)
    BY <2>1, <2>4 DEF StartReset, RestartFailed, StartZombieReset, ZombieReset
  <2>5. CASE ResetDone(c)
    BY <2>1, <2>3, <2>5 DEF ResetDone
  <2>6. CASE Restarted(c)
    BY <2>2, <2>6 DEF Restarted
  <2>7. CASE RestartNotReady(c)
    BY <2>3, <2>7 DEF RestartNotReady
  <2> QED
    BY <2>4, <2>5, <2>6, <2>7
<1>4. JobsCalm
  <2>1. job[c].op \notin MakingOps
    BY DEF StartReset, ResetDone, Restarted, RestartNotReady, RestartFailed, StartZombieReset,
      ZombieReset, MakingOps
  <2>2. {"reset", "remove", "zombieReset"} \subseteq Ops \ MakingOps
    BY DEF Ops, MakingOps
  <2>3. \/ End(c)
        \/ \E op \in Ops \ MakingOps : \E u, new, a :
              Begin(c, op, u) \/ BeginMaking(c, op, u, new, a)
    BY <2>2 DEF StartReset, ResetDone, Restarted, RestartNotReady, RestartFailed,
      StartZombieReset, ZombieReset
  <2> QED
    BY <1>1, <2>1, <2>3, BegunCalm
<1> QED
  BY <1>2, <1>3, <1>4 DEF Calm, JobsCalm

\* The loops: a unit they write back was there, or its removal met with them.
LEMMA LoopsAreCalm ==
  ASSUME IndInv, Loops
  PROVE  Calm
<1> USE Basics, HeldOf
<1>1. budget' = budget /\ (~crossed' => ~crossed) /\ (~astray' => ~astray)
  BY DEF Loops, StartPass, StartSweep, CheckSkip, CheckEvict, CheckZombie, CheckPing, Visit,
    SweepSkip, SweepEvict, PingDone, PingRecovered, PingFailed, HealBooting, HealDone,
    HealFailed, Unaffected, Quietly, Remember
<1>2. ~crossed' => pool'.held = pool.held
  <2>1. ASSUME StartPass \/ StartSweep \/ HealFailed
        PROVE  pool'.held = pool.held
    BY <2>1 DEF StartPass, StartSweep, HealFailed
  <2>2. ASSUME NEW u \in Units, \/ CheckSkip(u) \/ CheckEvict(u) \/ CheckPing(u)
                               \/ SweepSkip(u) \/ SweepEvict(u)
        PROVE  pool'.held = pool.held
    BY <2>2 DEF CheckSkip, CheckEvict, CheckPing, SweepSkip, SweepEvict
  <2>3. ASSUME NEW u \in Units, CheckZombie(u)
        PROVE  pool'.held = pool.held
    BY <2>3 DEF CheckZombie, QueueReset
  <2>4. ASSUME PingDone
        PROVE  pool'.held = pool.held
    BY <2>4 DEF PingDone, Pools
  <2>5. ASSUME PingRecovered \/ HealBooting \/ PingFailed \/ HealDone, ~crossed'
        PROVE  pool'.held = pool.held
    <3> DEFINE u == job[Monitor].on
    <3>1. u \in pool.held
      BY <2>5 DEF PingRecovered, HealBooting, PingFailed, HealDone, Remember, Gone
    <3>2. pool'.held = pool.held \cup {u}
      <4>1. /\ \A s : Updated(pool, u, s).held = pool.held \cup {u}
            /\ \A s : [Updated(pool, u, s) EXCEPT !.unit[u].failing = FALSE].held
                      = pool.held \cup {u}
        OBVIOUS
      <4> HIDE DEF u
      <4>2. CASE PingRecovered
        BY <4>1, <4>2 DEF PingRecovered, u
      <4>3. CASE HealBooting
        BY <4>1, <4>3 DEF HealBooting, u
      <4>4. CASE PingFailed
        BY <4>1, <4>4 DEF PingFailed, u
      <4>5. CASE HealDone
        BY <4>1, <4>5 DEF HealDone, u
      <4> QED
        BY <2>5, <4>2, <4>3, <4>4, <4>5
    <3> QED
      BY <3>1, <3>2
  <2> QED
    BY <2>1, <2>2, <2>3, <2>4, <2>5 DEF Loops
<1>3. JobsCalm
  <2>0. {"remove", "zombieQueued", "ping", "heal", "healWait", "free"} \subseteq Ops \ MakingOps
        /\ Free.op = "free"
    BY DEF Ops, MakingOps, Free
  <2>1. ASSUME NEW u \in Units, CheckZombie(u)
        PROVE  JobsCalm
    <3>1. PICK c \in Calls : QueueReset(c, u, "zombieQueued")
      BY <2>1 DEF CheckZombie
    <3>2. c \in Slots /\ job[c].op \notin MakingOps
      BY <2>0, <3>1 DEF Slots, QueueReset
    <3>3. Begin(c, "zombieQueued", u)
      BY <3>1 DEF QueueReset
    <3> QED
      BY <2>0, <3>2, <3>3, BegunCalm
  <2>2. ASSUME NEW u \in Units, CheckEvict(u) \/ CheckPing(u) \/ SweepEvict(u)
        PROVE  JobsCalm
    <3>1. PICK s \in {Monitor, Sweeper}, op \in {"remove", "ping"} :
             job[s] = Free /\ Begin(s, op, u)
      BY <2>2 DEF CheckEvict, CheckPing, SweepEvict, Visit
    <3>2. s \in Slots /\ job[s].op \notin MakingOps
      BY <2>0, <3>1
    <3> QED
      BY <2>0, <3>1, <3>2, BegunCalm
  <2>3. ASSUME \/ StartPass \/ StartSweep
               \/ \E u \in Units : CheckSkip(u) \/ SweepSkip(u)
        PROVE  JobsCalm
    <3>1. job' = job
      BY <2>3 DEF StartPass, StartSweep, CheckSkip, SweepSkip
    <3> QED
      BY <3>1 DEF JobsCalm
  <2>4. ASSUME PingDone \/ PingRecovered \/ HealDone
        PROVE  JobsCalm
    <3>1. job[Monitor].op \in {"ping", "healWait"} /\ End(Monitor)
      BY <2>4 DEF PingDone, PingRecovered, HealDone
    <3> QED
      BY <2>0, <3>1, BegunCalm
  <2>5. ASSUME PingFailed \/ HealBooting \/ HealFailed
        PROVE  JobsCalm
    <3>1. job[Monitor].op \in {"ping", "heal"}
      BY <2>5 DEF PingFailed, HealBooting, HealFailed
    <3>2. PICK op \in {"heal", "healWait", "remove"} : Begin(Monitor, op, job[Monitor].on)
      BY <2>5 DEF PingFailed, HealBooting, HealFailed
    <3>3. job[Monitor].op \notin MakingOps
      BY <2>0, <3>1
    <3> QED
      BY <2>0, <3>2, <3>3, BegunCalm
  <2> QED
    BY <2>1, <2>2, <2>3, <2>4, <2>5 DEF Loops
<1> QED
  BY <1>1, <1>2, <1>3 DEF Calm, JobsCalm

-----------------------------------------------------------------------------
(* Steps that move units: how the sizes follow *)

Sizes == [k \in Kinds |-> Size(k)]

\* A unit that stays is counted.
LEMMA SizesAre ==
  ASSUME IndInv
  PROVE  /\ Sizes \in Counts
         /\ \A k \in Kinds : Sizes[k] = Size(k) /\ Size(k) \in Nat
         /\ \A k \in Kinds : Staying(k) # {} => Size(k) > 0
<1>1. ASSUME NEW k \in Kinds
      PROVE  Size(k) \in Nat /\ (Staying(k) # {} => Size(k) > 0)
  BY SizeIs, FS_EmptySet DEF Size
<1> QED
  BY <1>1 DEF Sizes, Counts

\* The limits of the configuration, in terms of the units that stay.
Within == /\ Size("headless") + Size("desktop") <= MaxTotal
          /\ Size("desktop") <= Limit["desktop"]

\* Nothing comes or goes.
LEMMA SameSizes ==
  ASSUME IndInv, \A k \in Kinds : Staying(k)' = Staying(k)
  PROVE  Sizes' = Sizes /\ (Within => Within')
<1>1. \A k \in Kinds : Size(k)' = Size(k)
  BY DEF Size
<1> QED
  BY <1>1 DEF Sizes, Within, Kinds

\* One unit more of kind k, ...
LEMMA MoreSizes ==
  ASSUME IndInv, NEW k \in Kinds, NEW u, u \notin Staying(k),
         Staying(k)' = Staying(k) \cup {u},
         \A l \in Kinds \ {k} : Staying(l)' = Staying(l)
  PROVE  /\ Sizes' = Plus(Sizes, k)
         /\ /\ Within /\ Size("headless") + Size("desktop") < MaxTotal
            /\ k = "desktop" => Size(k) < Limit[k]
            => Within'
<1>1. Size(k)' = Size(k) + 1
  BY SizeUp
<1>2. \A l \in Kinds \ {k} : Size(l)' = Size(l)
  BY DEF Size
<1>3. Sizes' = Plus(Sizes, k)
  BY <1>1, <1>2 DEF Sizes, Plus
<1>4. Size("headless") \in Nat /\ Size("desktop") \in Nat /\ MaxTotal \in Nat
      /\ Limit["desktop"] \in Nat
  BY SizesAre, PoolAssumption DEF Kinds
<1>5. CASE k = "headless"
  <2>1. Size("headless")' = Size("headless") + 1 /\ Size("desktop")' = Size("desktop")
    BY <1>1, <1>2, <1>5 DEF Kinds
  <2> QED
    BY <1>3, <1>4, <2>1 DEF Within
<1>6. CASE k = "desktop"
  <2>1. Size("desktop")' = Size("desktop") + 1 /\ Size("headless")' = Size("headless")
    BY <1>1, <1>2, <1>6 DEF Kinds
  <2> QED
    BY <1>3, <1>4, <1>6, <2>1 DEF Within
<1> QED
  BY <1>5, <1>6 DEF Kinds

\* ... one unit less, ...
LEMMA LessSizes ==
  ASSUME IndInv, NEW k \in Kinds, NEW u \in Staying(k),
         Staying(k)' = Staying(k) \ {u},
         \A l \in Kinds \ {k} : Staying(l)' = Staying(l)
  PROVE  Sizes' = Minus(Sizes, k) /\ Sizes[k] > 0 /\ (Within => Within')
<1>1. Size(k)' = Size(k) - 1
  BY SizeDown
<1>2. \A l \in Kinds \ {k} : Size(l)' = Size(l)
  BY DEF Size
<1>3. Sizes' = Minus(Sizes, k)
  BY <1>1, <1>2 DEF Sizes, Minus
<1>4. Size("headless") \in Nat /\ Size("desktop") \in Nat /\ MaxTotal \in Nat
      /\ Limit["desktop"] \in Nat /\ Sizes[k] > 0
  BY SizesAre, PoolAssumption DEF Kinds
<1>5. CASE k = "headless"
  <2>1. Size("headless")' = Size("headless") - 1 /\ Size("desktop")' = Size("desktop")
    BY <1>1, <1>2, <1>5 DEF Kinds
  <2> QED
    BY <1>3, <1>4, <2>1 DEF Within
<1>6. CASE k = "desktop"
  <2>1. Size("desktop")' = Size("desktop") - 1 /\ Size("headless")' = Size("headless")
    BY <1>1, <1>2, <1>6 DEF Kinds
  <2> QED
    BY <1>3, <1>4, <2>1 DEF Within
<1> QED
  BY <1>5, <1>6 DEF Kinds

\* ... or one unit of kind k for one of kind l.
LEMMA MovedSizes ==
  ASSUME IndInv, NEW k \in Kinds, NEW l \in Kinds, k # l, NEW u \in Staying(k), NEW v,
         v \notin Staying(l), Staying(k)' = Staying(k) \ {u}, Staying(l)' = Staying(l) \cup {v}
  PROVE  /\ Sizes' = Plus(Minus(Sizes, k), l) /\ Sizes[k] > 0
         /\ /\ Within
            /\ l = "desktop" => Size("desktop") < Limit["desktop"]
            => Within'
<1>1. Size(k)' = Size(k) - 1 /\ Size(l)' = Size(l) + 1
  BY SizeDown, SizeUp
<1>2. \A i \in Kinds : i = k \/ i = l
  BY DEF Kinds
<1>3. Sizes' = Plus(Minus(Sizes, k), l)
  <2> DEFINE m == Minus(Sizes, k)
  <2>1. m = [i \in Kinds |-> IF i = k THEN Size(k) - 1 ELSE Size(i)]
    BY DEF Minus, Sizes
  <2>2. m[l] = Size(l)
    BY <2>1
  <2> HIDE DEF m
  <2>3. Plus(m, l) = [i \in Kinds |-> IF i = l THEN Size(l) + 1 ELSE m[i]]
    BY <2>1, <2>2 DEF Plus
  <2>4. \A i \in Kinds : (IF i = l THEN Size(l) + 1 ELSE m[i]) = Size(i)'
    BY <1>1, <1>2, <2>1
  <2>5. Plus(m, l) = Sizes'
    BY <2>3, <2>4 DEF Sizes
  <2> QED
    BY <2>5 DEF m
<1>4. Size("headless") \in Nat /\ Size("desktop") \in Nat /\ MaxTotal \in Nat
      /\ Limit["desktop"] \in Nat /\ Sizes[k] > 0
  BY SizesAre, PoolAssumption DEF Kinds
<1>5. CASE k = "headless"
  <2>1. l = "desktop"
    BY <1>5 DEF Kinds
  <2> QED
    BY <1>1, <1>3, <1>4, <1>5, <2>1 DEF Within
<1>6. CASE k = "desktop"
  <2>1. l = "headless"
    BY <1>6 DEF Kinds
  <2> QED
    BY <1>1, <1>3, <1>4, <1>6, <2>1 DEF Within
<1> QED
  BY <1>5, <1>6 DEF Kinds

-----------------------------------------------------------------------------
(* One job begins or ends. *)

\* A swap that begins takes its unit out of those that stay, and is in order; a creation
\* takes none.
LEMMA BegunSwaps ==
  ASSUME IndInv, Books, NEW c \in Slots, NEW j, job[c] = Free, job' = [job EXCEPT ![c] = j],
         pool'.held = pool.held,
         ~crossed' => ~crossed /\ (j.op \in SwapOps => j.on \in pool.held /\ ~Leaves(j.on)),
         j.op = "promote" => Kind(j.on) = "headless" /\ Kind(j.new) = "desktop",
         j.op = "demote" => Kind(j.on) = "desktop" /\ Kind(j.new) = "headless"
  PROVE  /\ SwapsWhole' /\ SwapsApart'
         /\ \A u : Leaves(u)' <=> Leaves(u) \/ (j.op \in SwapOps /\ u = j.on)
<1>1. \A t \in Slots : job'[t] = IF t = c THEN j ELSE job[t]
  BY Basics
<1>2. job[c].op \notin SwapOps
  BY FreeIsJob DEF SwapOps
<1>3. SwapsWhole'
  BY <1>1 DEF Books, SwapsWhole
<1>4. SwapsApart'
  <2> SUFFICES ASSUME ~crossed', NEW s \in Slots, job'[s].op \in SwapOps
               PROVE  /\ job'[s].on \in pool'.held
                      /\ \A t \in Slots : job'[t].op \in SwapOps /\ job'[t].on = job'[s].on
                                            => t = s
    BY DEF SwapsApart
  <2>1. CASE s = c
    <3>1. \A t \in Slots \ {c} : ~(job[t].op \in SwapOps /\ job[t].on = j.on)
      BY <1>1, <2>1 DEF Leaves
    <3> QED
      BY <1>1, <2>1, <3>1
  <2>2. CASE s # c
    <3>1. /\ job[s].op \in SwapOps /\ job[s].on \in pool.held /\ Leaves(job[s].on)
          /\ \A t \in Slots : job[t].op \in SwapOps /\ job[t].on = job[s].on => t = s
      BY <1>1, <2>2 DEF Books, SwapsApart, Leaves
    <3> QED
      BY <1>1, <2>2, <3>1
  <2> QED
    BY <2>1, <2>2
<1>5. ASSUME NEW u
      PROVE  Leaves(u)' <=> Leaves(u) \/ (j.op \in SwapOps /\ u = j.on)
  BY <1>1, <1>2 DEF Leaves
<1> QED
  BY <1>3, <1>4, <1>5

\* A job that ends leaves the other swaps as they were, and no swap on its own unit.
LEMMA EndedSwaps ==
  ASSUME IndInv, Books, NEW c \in Slots, End(c),
         ~crossed' => /\ ~crossed
                      /\ \A t \in Slots \ {c} : job[t].op \in SwapOps => job[t].on \in pool'.held
  PROVE  /\ SwapsWhole' /\ SwapsApart'
         /\ job[c].op \notin SwapOps => \A u : Leaves(u)' <=> Leaves(u)
         /\ ~crossed /\ job[c].op \in SwapOps =>
              /\ job[c].on \in pool.held /\ Leaves(job[c].on)
              /\ \A u : Leaves(u)' <=> Leaves(u) /\ u # job[c].on
<1>1. \A t \in Slots : job'[t] = IF t = c THEN Free ELSE job[t]
  BY Basics DEF End
<1>2. Free.op \notin SwapOps /\ Free.op \notin {"promote", "demote"}
  BY FreeIsJob DEF SwapOps
<1>3. SwapsWhole'
  BY <1>1, <1>2 DEF Books, SwapsWhole
<1>4. SwapsApart'
  BY <1>1, <1>2 DEF Books, SwapsApart
<1>5. ASSUME job[c].op \notin SwapOps, NEW u
      PROVE  Leaves(u)' <=> Leaves(u)
  BY <1>1, <1>2, <1>5 DEF Leaves
<1>6. ASSUME ~crossed, job[c].op \in SwapOps, NEW u
      PROVE  /\ job[c].on \in pool.held /\ Leaves(job[c].on)
             /\ Leaves(u)' <=> Leaves(u) /\ u # job[c].on
  BY <1>1, <1>2, <1>6 DEF Books, SwapsApart, Leaves
<1> QED
  BY <1>3, <1>4, <1>5, <1>6

\* SizesExact where it is to be shown, from the budget and the limits.
LEMMA SizesExactIs ==
  /\ SizesExact <=> (~crossed /\ ~astray => budget = Rebuilt(Sizes) /\ Within)
  /\ SizesExact' <=> (~crossed' /\ ~astray' => budget' = Rebuilt(Sizes') /\ Within')
  BY DEF SizesExact, Sizes, Within

\* A unit drawn for a creation or a swap is nobody's.
LEMMA FreshStays ==
  ASSUME IndInv, NEW k \in Kinds, NEW u \in Fresh(k)
  PROVE  /\ u \in Units /\ Kind(u) = k /\ u \notin pool.held /\ u \notin Made
         /\ ~Leaves(u) /\ \A s \in Slots : u # job[s].on
  BY DEF Fresh, Made, Making, Leaves

\* A creation that begins: the budget has room for the unit it makes.
LEMMA CreationBooks ==
  ASSUME IndInv, Books, NEW c \in Slots, NEW a \in Agents \cup {NoAgent}, NEW k \in Kinds,
         NEW b \in BOOLEAN, BeginCreation(c, a, k, b)
  PROVE  Books'
<1> USE Basics
<1>1. PICK u \in Fresh(k) : /\ pool' = Prepared(pool, u, NextPort(k), b)
                            /\ BeginMaking(c, "create", NoUnit, u, a)
  BY DEF BeginCreation
<1> DEFINE j == [op |-> "create", on |-> NoUnit, new |-> u, for |-> a]
<1>2. /\ u \in Units /\ Kind(u) = k /\ u \notin pool.held /\ u \notin Made
      /\ ~Leaves(u) /\ \A s \in Slots : u # job[s].on
  BY <1>1, FreshStays
<1>3. j \in Jobs /\ j.op = "create" /\ j.on = NoUnit /\ j.new = u
  BY <1>2 DEF Jobs, Ops
<1>4. job[c] = Free /\ job' = [job EXCEPT ![c] = j]
  BY <1>1 DEF BeginCreation, BeginMaking
<1>5. pool'.held = pool.held
  BY <1>1 DEF Prepared, Pools
<1>6. (~crossed' => ~crossed) /\ (~astray' => ~astray) /\ budget' = Reserved(budget, k)
  BY DEF BeginCreation, Quietly, Remember
<1> HIDE DEF j
<1>7. Made' = Made \cup {u}
  BY <1>2, <1>3, <1>4, BegunMaking DEF MakingOps
<1>8. SwapsWhole' /\ SwapsApart' /\ \A v : Leaves(v)' <=> Leaves(v)
  BY <1>3, <1>4, <1>5, <1>6, BegunSwaps DEF SwapOps
<1>9. /\ Staying(k)' = Staying(k) \cup {u} /\ u \notin Staying(k)
      /\ \A l \in Kinds \ {k} : Staying(l)' = Staying(l)
  BY <1>2, <1>5, <1>7, <1>8 DEF Staying
<1>10. SizesExact'
  <2> SUFFICES ASSUME ~crossed', ~astray'
               PROVE  budget' = Rebuilt(Sizes') /\ Within'
    BY SizesExactIs
  <2>1. budget = Rebuilt(Sizes) /\ Within
    BY <1>6, SizesExactIs DEF Books
  <2>2. budget.count[k] < Limit[k] /\ Total(budget) < MaxTotal
    BY DEF BeginCreation, Fits
  <2>3. budget.count[k] = Size(k) /\ Total(budget) = Size("headless") + Size("desktop")
    BY <2>1, SizesAre DEF Rebuilt, Total, Kinds
  <2>4. Sizes' = Plus(Sizes, k) /\ Within'
    BY <1>9, <2>1, <2>2, <2>3, MoreSizes
  <2>5. Reserved(Rebuilt(Sizes), k) = Rebuilt(Plus(Sizes, k))
    BY SizesAre, ReservedExact
  <2> QED
    BY <1>6, <2>1, <2>4, <2>5
<1> QED
  BY <1>8, <1>10 DEF Books

\* A creation that succeeds: its unit stays on.
LEMMA CreatedBooks ==
  ASSUME IndInv, Books, NEW c \in Slots, Created(c)
  PROVE  Books'
<1> USE Basics
<1> DEFINE new == job[c].new
<1>1. /\ job[c].op = "create" /\ c \in Making /\ End(c) /\ job[c].op \notin SwapOps
      /\ (~crossed' => ~crossed) /\ (~astray' => ~astray) /\ budget' = budget
  BY DEF Created, Making, Unaffected, Quietly, Remember, SwapOps
<1>2. new \in Units
  BY <1>1 DEF IndInv, JobsWhole
<1>3. pool'.held = pool.held \cup {new}
  <2>1. Added(pool, new) \in Pools /\ Added(pool, new).held = pool.held \cup {new}
    BY <1>2, AddedIs
  <2>2. Assigned(Added(pool, new), new, job[c].for).held = Added(pool, new).held
    BY <2>1, HeldOf
  <2> QED
    BY <2>1, <2>2 DEF Created
<1>4. ~crossed => \A t \in Slots \ {c} : job[t].op \in SwapOps => job[t].on \in pool'.held
  BY <1>3 DEF Books, SwapsApart
<1>5. SwapsWhole' /\ SwapsApart' /\ \A u : Leaves(u)' <=> Leaves(u)
  BY <1>1, <1>4, EndedSwaps
<1>6. ASSUME ~crossed'
      PROVE  \A k \in Kinds : Staying(k)' = Staying(k)
  <2>1. Made' = Made \ {new} /\ new \in Made
    BY <1>1, <1>6, MadeIsApart
  <2> QED
    BY <1>3, <1>5, <2>1 DEF Staying
<1>7. SizesExact'
  BY <1>1, <1>6, SameSizes, SizesExactIs DEF Books
<1> QED
  BY <1>5, <1>7 DEF Books

\* A creation that fails: its unit is given up, and its money given back.
LEMMA CreationFailedBooks ==
  ASSUME IndInv, Books, NEW c \in Slots, CreationFailed(c)
  PROVE  Books'
<1> USE Basics
<1>0. PICK u : u = job[c].new
  OBVIOUS
<1> DEFINE k == Kind(u)
<1>1. /\ c \in Making /\ End(c) /\ job[c].op \notin SwapOps
      /\ (~crossed' => ~crossed) /\ (~astray' => ~astray) /\ budget' = Released(budget, k)
      /\ pool'.held = pool.held
  BY <1>0 DEF CreationFailed, Making, Quietly, Remember, SwapOps
<1>2. ~crossed => \A t \in Slots \ {c} : job[t].op \in SwapOps => job[t].on \in pool'.held
  BY <1>1 DEF Books, SwapsApart
<1>3. SwapsWhole' /\ SwapsApart' /\ \A v : Leaves(v)' <=> Leaves(v)
  BY <1>1, <1>2, EndedSwaps
<1>4. SizesExact'
  <2> SUFFICES ASSUME ~crossed', ~astray'
               PROVE  budget' = Rebuilt(Sizes') /\ Within'
    BY SizesExactIs
  <2>1. budget = Rebuilt(Sizes) /\ Within
    BY <1>1, SizesExactIs DEF Books
  <2>2. k \in Kinds
    BY DEF Kind, Kinds
  <2>3. Made' = Made \ {u} /\ u \in Made /\ u \notin Known
    BY <1>0, <1>1, MadeIsApart
  <2>4. u \notin pool.held /\ ~Leaves(u)
    BY <2>3 DEF Known, Leaves
  <2>5. /\ Staying(k)' = Staying(k) \ {u} /\ u \in Staying(k)
        /\ \A l \in Kinds \ {k} : Staying(l)' = Staying(l)
    BY <1>1, <1>3, <2>3, <2>4 DEF Staying
  <2> HIDE DEF k
  <2>6. Sizes' = Minus(Sizes, k) /\ Sizes[k] > 0 /\ Within'
    BY <2>1, <2>2, <2>5, LessSizes
  <2>7. Released(Rebuilt(Sizes), k) = Rebuilt(Minus(Sizes, k))
    BY <2>2, <2>6, SizesAre, ReleasedExact
  <2> QED
    BY <1>1, <2>1, <2>6, <2>7
<1> QED
  BY <1>3, <1>4 DEF Books

\* A destruction: unless it met another operation, the unit was there and stayed.
LEMMA DestroyedBooks ==
  ASSUME IndInv, Books, NEW c \in Slots, Destroyed(c)
  PROVE  Books'
<1> USE Basics
<1>0. PICK u : u = job[c].on
  OBVIOUS
<1> DEFINE k == Kind(u)
<1>1. /\ job[c].op = "remove" /\ End(c) /\ job[c].op \notin SwapOps
      /\ (~astray' => ~astray) /\ budget' = Released(budget, k)
      /\ ~crossed' => ~crossed /\ u \in pool.held /\ Swapping(u) = {}
  BY <1>0 DEF Destroyed, Remember, SwapOps, Gone
<1>2. pool'.held = pool.held \ {u}
  BY <1>0, RemovedIs DEF Destroyed
<1>3. ~crossed' => ~Leaves(u)
  BY <1>1 DEF Swapping, Leaves, SwapOps
<1>4. ~crossed' => \A t \in Slots \ {c} : job[t].op \in SwapOps => job[t].on \in pool'.held
  BY <1>1, <1>2, <1>3 DEF Books, SwapsApart, Leaves
<1>5. SwapsWhole' /\ SwapsApart' /\ \A v : Leaves(v)' <=> Leaves(v)
  BY <1>1, <1>4, EndedSwaps
<1>6. SizesExact'
  <2> SUFFICES ASSUME ~crossed', ~astray'
               PROVE  budget' = Rebuilt(Sizes') /\ Within'
    BY SizesExactIs
  <2>1. budget = Rebuilt(Sizes) /\ Within
    BY <1>1, SizesExactIs DEF Books
  <2>2. k \in Kinds
    BY DEF Kind, Kinds
  <2>3. Made' = Made
    <3>1. Making' = Making /\ \A t \in Making : job'[t] = job[t]
      BY <1>1, FreeIsJob DEF End, Making
    <3> QED
      BY <3>1 DEF Made
  <2>4. u \notin Made
    BY <1>0, <1>1 DEF IndInv, MadeApart, Made, Known
  <2>5. /\ Staying(k)' = Staying(k) \ {u} /\ u \in Staying(k)
        /\ \A l \in Kinds \ {k} : Staying(l)' = Staying(l)
    BY <1>1, <1>2, <1>3, <1>5, <2>3, <2>4 DEF Staying
  <2> HIDE DEF k
  <2>6. Sizes' = Minus(Sizes, k) /\ Sizes[k] > 0 /\ Within'
    BY <2>1, <2>2, <2>5, LessSizes
  <2>7. Released(Rebuilt(Sizes), k) = Rebuilt(Minus(Sizes, k))
    BY <2>2, <2>6, SizesAre, ReleasedExact
  <2> QED
    BY <1>1, <2>1, <2>6, <2>7
<1> QED
  BY <1>5, <1>6 DEF Books

\* the kind that a swap takes out
SwapFrom(op) == IF op = "promote" THEN "headless" ELSE "desktop"

\* What a swap of u that begins remembers: it is not the first one of u.
SwapRecalled(u) == Remember(Swapping(u) # {}, FALSE, {})

\* A swap that begins, of either kind: the unit it replaces no longer stays, the one it
\* makes does.
LEMMA SwapStarts ==
  ASSUME IndInv, Books, NEW c \in Slots, NEW k \in Kinds, NEW l \in Kinds, k # l,
         NEW op \in SwapOps, k = SwapFrom(op),
         NEW u \in pool.held, Kind(u) = k, NEW new \in Fresh(l), NEW a \in Agents \cup {NoAgent},
         job[c] = Free, BeginMaking(c, op, u, new, a), pool'.held = pool.held,
         SwapRecalled(u)
  PROVE  /\ SwapsWhole' /\ SwapsApart'
         /\ (~crossed' => ~crossed) /\ (~astray' => ~astray)
         /\ ~crossed' =>
              /\ u \in Staying(k) /\ new \notin Staying(l)
              /\ Staying(k)' = Staying(k) \ {u} /\ Staying(l)' = Staying(l) \cup {new}
<1> USE Basics
<1> DEFINE j == [op |-> op, on |-> u, new |-> new, for |-> a]
<1>1. /\ new \in Units /\ Kind(new) = l /\ new \notin pool.held /\ new \notin Made
      /\ ~Leaves(new) /\ \A s \in Slots : new # job[s].on
  BY FreshStays
<1>2. j \in Jobs /\ j.op = op /\ j.on = u /\ j.new = new
  BY <1>1 DEF Jobs, Ops, SwapOps
<1>3. job' = [job EXCEPT ![c] = j] /\ u # NoUnit
  BY DEF BeginMaking
<1>4. (~crossed' => ~crossed) /\ (~astray' => ~astray)
  BY DEF SwapRecalled, Remember
<1>5. ~crossed' => ~Leaves(u)
  BY DEF SwapRecalled, Remember, Swapping, Leaves, SwapOps
<1> HIDE DEF j
<1>6. op \in MakingOps /\ op # "create"
  BY DEF SwapOps, MakingOps
<1>7. Made' = Made \cup {new}
  BY <1>1, <1>2, <1>3, <1>6, BegunMaking
<1>8. /\ op = "promote" => Kind(u) = "headless" /\ Kind(new) = "desktop"
      /\ op = "demote" => Kind(u) = "desktop" /\ Kind(new) = "headless"
  BY <1>1 DEF Kinds, SwapOps, SwapFrom
<1>9. SwapsWhole' /\ SwapsApart' /\ \A v : Leaves(v)' <=> Leaves(v) \/ v = u
  BY <1>2, <1>3, <1>4, <1>5, <1>8, BegunSwaps
<1>10. u \notin Made \/ crossed
  BY DEF IndInv, MadeApart, Made, Known
<1>11. ASSUME ~crossed'
       PROVE  /\ u \in Staying(k) /\ new \notin Staying(l)
              /\ Staying(k)' = Staying(k) \ {u} /\ Staying(l)' = Staying(l) \cup {new}
  BY <1>1, <1>5, <1>7, <1>9, <1>11 DEF Staying
<1> QED
  BY <1>4, <1>9, <1>11

\* A promotion that begins: the limit on desktops is looked at.
LEMMA PromoteBooks ==
  ASSUME IndInv, Books, NEW c \in Slots, NEW u \in Units, Promote(c, u)
  PROVE  Books'
<1> USE Basics
<1>0. PICK a : a = Agent(u)
  OBVIOUS
<1>1. PICK new \in Fresh("desktop") :
        /\ pool' = Updated(Prepared(pool, new, NextPort("desktop"), FALSE), u, "promoting")
        /\ BeginMaking(c, "promote", u, new, a)
  BY <1>0 DEF Promote
<1>2. /\ u \in pool.held /\ Kind(u) = "headless" /\ job[c] = Free
      /\ MayPromote(budget) /\ budget' = Promoted(budget)
      /\ SwapRecalled(u)
  BY DEF Promote, SwapRecalled
<1>3. /\ "headless" \in Kinds /\ "desktop" \in Kinds /\ "headless" # "desktop"
      /\ "promote" \in SwapOps /\ a \in Agents \cup {NoAgent} /\ c \in Slots
      /\ "headless" = SwapFrom("promote")
  BY <1>0 DEF Kinds, SwapOps, SwapFrom, Agent, Pools, UnitStates
<1>4. pool'.held = pool.held
  <2> DEFINE p == Prepared(pool, new, NextPort("desktop"), FALSE)
  <2>1. p \in Pools /\ p.held = pool.held
    <3>1. new \in Units /\ Available("desktop") # {}
      BY <1>1 DEF Fresh, Promote
    <3> QED
      BY <1>3, <3>1, FreshIs, NextPortIsFree
  <2> HIDE DEF p
  <2>2. Updated(p, u, "promoting").held = p.held \cup {u}
    BY <2>1, HeldOf
  <2> QED
    BY <1>1, <1>2, <2>1, <2>2 DEF p
<1>5. /\ SwapsWhole' /\ SwapsApart'
      /\ (~crossed' => ~crossed) /\ (~astray' => ~astray)
      /\ ~crossed' =>
           /\ u \in Staying("headless") /\ new \notin Staying("desktop")
           /\ Staying("headless")' = Staying("headless") \ {u}
           /\ Staying("desktop")' = Staying("desktop") \cup {new}
  <2>1. PICK k \in Kinds, l \in Kinds, op \in SwapOps : k = "headless" /\ l = "desktop" /\ op = "promote"
    BY <1>3
  <2>2. /\ BeginMaking(c, op, u, new, a) /\ new \in Fresh(l) /\ k = SwapFrom(op) /\ k # l
        /\ u \in pool.held /\ Kind(u) = k /\ job[c] = Free /\ SwapRecalled(u)
    BY <1>1, <1>2, <1>3, <2>1
  <2>3. c \in Slots /\ a \in Agents \cup {NoAgent}
    BY <1>3
  <2>4. /\ SwapsWhole' /\ SwapsApart'
        /\ (~crossed' => ~crossed) /\ (~astray' => ~astray)
        /\ ~crossed' =>
             /\ u \in Staying(k) /\ new \notin Staying(l)
             /\ Staying(k)' = Staying(k) \ {u} /\ Staying(l)' = Staying(l) \cup {new}
    BY ONLY IndInv, Books, k \in Kinds, l \in Kinds, op \in SwapOps,
            <1>4, <2>2, <2>3, SwapStarts
  <2> QED
    BY ONLY <2>1, <2>4
<1>6. SizesExact'
  <2> SUFFICES ASSUME ~crossed', ~astray'
               PROVE  budget' = Rebuilt(Sizes') /\ Within'
    BY SizesExactIs
  <2>1. budget = Rebuilt(Sizes) /\ Within
    BY <1>5, SizesExactIs DEF Books
  <2>2. Size("desktop") < Limit["desktop"]
    BY <1>2, <1>3, <2>1, SizesAre DEF MayPromote, Rebuilt
  <2>3. /\ Sizes' = Plus(Minus(Sizes, "headless"), "desktop") /\ Sizes["headless"] > 0
        /\ Within'
    BY <1>3, <1>5, <2>1, <2>2, MovedSizes
  <2>4. Promoted(Rebuilt(Sizes)) = Rebuilt(Plus(Minus(Sizes, "headless"), "desktop"))
    BY <2>3, SizesAre, MovedExact
  <2> QED
    BY <1>2, <2>1, <2>3, <2>4
<1> QED
  BY <1>5, <1>6 DEF Books

\* A demotion that begins: it gives money back.
LEMMA DemoteBooks ==
  ASSUME IndInv, Books, NEW c \in Slots, NEW u \in Units, Demote(c, u)
  PROVE  Books'
<1> USE Basics
<1>0. PICK a : a = Agent(u)
  OBVIOUS
<1>1. PICK new \in Fresh("headless") :
        /\ pool' = Updated(Prepared(pool, new, NextPort("headless"), FALSE), u, "demoting")
        /\ BeginMaking(c, "demote", u, new, a)
  BY <1>0 DEF Demote
<1>2. /\ u \in pool.held /\ Kind(u) = "desktop" /\ job[c] = Free
      /\ budget' = Demoted(budget) /\ SwapRecalled(u)
  BY DEF Demote, SwapRecalled
<1>3. /\ "headless" \in Kinds /\ "desktop" \in Kinds /\ "headless" # "desktop"
      /\ "demote" \in SwapOps /\ a \in Agents \cup {NoAgent} /\ c \in Slots
      /\ "desktop" = SwapFrom("demote")
  BY <1>0 DEF Kinds, SwapOps, SwapFrom, Agent, Pools, UnitStates
<1>4. pool'.held = pool.held
  <2> DEFINE p == Prepared(pool, new, NextPort("headless"), FALSE)
  <2>1. p \in Pools /\ p.held = pool.held
    <3>1. new \in Units /\ Available("headless") # {}
      BY <1>1 DEF Fresh, Demote
    <3> QED
      BY <1>3, <3>1, FreshIs, NextPortIsFree
  <2> HIDE DEF p
  <2>2. Updated(p, u, "demoting").held = p.held \cup {u}
    BY <2>1, HeldOf
  <2> QED
    BY <1>1, <1>2, <2>1, <2>2 DEF p
<1>5. /\ SwapsWhole' /\ SwapsApart'
      /\ (~crossed' => ~crossed) /\ (~astray' => ~astray)
      /\ ~crossed' =>
           /\ u \in Staying("desktop") /\ new \notin Staying("headless")
           /\ Staying("desktop")' = Staying("desktop") \ {u}
           /\ Staying("headless")' = Staying("headless") \cup {new}
  <2>1. PICK k \in Kinds, l \in Kinds, op \in SwapOps : k = "desktop" /\ l = "headless" /\ op = "demote"
    BY <1>3
  <2>2. /\ BeginMaking(c, op, u, new, a) /\ new \in Fresh(l) /\ k = SwapFrom(op) /\ k # l
        /\ u \in pool.held /\ Kind(u) = k /\ job[c] = Free /\ SwapRecalled(u)
    BY <1>1, <1>2, <1>3, <2>1
  <2>3. c \in Slots /\ a \in Agents \cup {NoAgent}
    BY <1>3
  <2>4. /\ SwapsWhole' /\ SwapsApart'
        /\ (~crossed' => ~crossed) /\ (~astray' => ~astray)
        /\ ~crossed' =>
             /\ u \in Staying(k) /\ new \notin Staying(l)
             /\ Staying(k)' = Staying(k) \ {u} /\ Staying(l)' = Staying(l) \cup {new}
    BY ONLY IndInv, Books, k \in Kinds, l \in Kinds, op \in SwapOps,
            <1>4, <2>2, <2>3, SwapStarts
  <2> QED
    BY ONLY <2>1, <2>4
<1>6. SizesExact'
  <2> SUFFICES ASSUME ~crossed', ~astray'
               PROVE  budget' = Rebuilt(Sizes') /\ Within'
    BY SizesExactIs
  <2>1. budget = Rebuilt(Sizes) /\ Within
    BY <1>5, SizesExactIs DEF Books
  <2>2. /\ Sizes' = Plus(Minus(Sizes, "desktop"), "headless") /\ Sizes["desktop"] > 0
        /\ Within'
    BY <1>3, <1>5, <2>1, MovedSizes
  <2>3. Demoted(Rebuilt(Sizes)) = Rebuilt(Plus(Minus(Sizes, "desktop"), "headless"))
    BY <2>2, SizesAre, MovedExact
  <2> QED
    BY <1>2, <2>1, <2>2, <2>3
<1> QED
  BY <1>5, <1>6 DEF Books

\* A swap that succeeds: the one that stayed already comes in, the other leaves.
LEMMA SwappedBooks ==
  ASSUME IndInv, Books, NEW c \in Slots, Swapped(c)
  PROVE  Books'
<1> USE Basics
<1>0. PICK u, new : u = job[c].on /\ new = job[c].new
  OBVIOUS
<1>1. /\ job[c].op \in SwapOps /\ c \in Making /\ End(c) /\ budget' = budget
      /\ (~crossed' => ~crossed) /\ (~astray' => ~astray)
  BY DEF Swapped, Making, Remember, SwapOps
<1>2. new \in Units /\ u \in Units
  BY <1>0, <1>1 DEF IndInv, JobsWhole, SwapOps
<1>3. pool'.held = (pool.held \ {u}) \cup {new}
  <2>1. job[c].for \in Agents \cup {NoAgent}
    BY DEF Jobs
  <2>2. Replaced(pool, u, new, job[c].for).held = (pool.held \ {u}) \cup {new}
    BY <1>2, <2>1, ReplacedIs
  <2> QED
    BY <1>0, <2>2 DEF Swapped, Replaced
<1>4. ~crossed => \A t \in Slots \ {c} : job[t].op \in SwapOps => job[t].on \in pool'.held
  BY <1>0, <1>1, <1>3 DEF Books, SwapsApart
<1>5. /\ SwapsWhole' /\ SwapsApart'
      /\ ~crossed => /\ u \in pool.held /\ Leaves(u)
                     /\ \A v : Leaves(v)' <=> Leaves(v) /\ v # u
  BY <1>0, <1>1, <1>4, EndedSwaps
<1>6. ASSUME ~crossed'
      PROVE  \A k \in Kinds : Staying(k)' = Staying(k)
  <2>1. Made' = Made \ {new} /\ new \in Made
    BY <1>0, <1>1, <1>6, MadeIsApart
  <2>2. u \notin Made
    BY <1>0, <1>1, <1>6 DEF IndInv, MadeApart, Made, Known
  <2> QED
    BY <1>1, <1>3, <1>5, <1>6, <2>1, <2>2 DEF Staying
<1>7. SizesExact'
  BY <1>1, <1>6, SameSizes, SizesExactIs DEF Books
<1> QED
  BY <1>5, <1>7 DEF Books

\* A swap that fails: its unit stays after all, and the one being made is given up.
LEMMA SwapGivenUp ==
  ASSUME IndInv, Books, NEW c \in Slots, NEW k \in Kinds, NEW l \in Kinds, k # l,
         job[c].op \in SwapOps, job[c].op = "promote" <=> k = "headless", End(c),
         NEW u, NEW new, u = job[c].on, new = job[c].new,
         pool'.held \subseteq pool.held \cup {u}, pool.held \subseteq pool'.held,
         ~crossed' => ~crossed
  PROVE  /\ SwapsWhole' /\ SwapsApart'
         /\ ~crossed' =>
              /\ u \notin Staying(k) /\ new \in Staying(l)
              /\ Staying(k)' = Staying(k) \cup {u} /\ Staying(l)' = Staying(l) \ {new}
<1> USE Basics
<1>1. c \in Making /\ u \in Units
  BY DEF Making, SwapOps
<1>2. ~crossed => \A t \in Slots \ {c} : job[t].op \in SwapOps => job[t].on \in pool'.held
  BY DEF Books, SwapsApart
<1>3. /\ SwapsWhole' /\ SwapsApart'
      /\ ~crossed => /\ u \in pool.held /\ Leaves(u)
                     /\ \A v : Leaves(v)' <=> Leaves(v) /\ v # u
  BY <1>2, EndedSwaps
<1>4. ASSUME ~crossed'
      PROVE  /\ u \notin Staying(k) /\ new \in Staying(l)
             /\ Staying(k)' = Staying(k) \cup {u} /\ Staying(l)' = Staying(l) \ {new}
  <2>1. Made' = Made \ {new} /\ new \in Made /\ new \notin Known
    BY <1>1, <1>4, MadeIsApart
  <2>2. pool'.held = pool.held
    BY <1>3, <1>4
  <2>3. Kind(u) = k /\ Kind(new) = l
    BY DEF Books, SwapsWhole, Kinds, SwapOps
  <2>4. ~Leaves(new) /\ new \notin pool.held
    BY <2>1 DEF Leaves, Known
  <2> QED
    BY <1>3, <1>4, <2>1, <2>2, <2>3, <2>4 DEF Staying
<1> QED
  BY <1>3, <1>4

\* The failure of a promotion, and its rollback
LEMMA PromotionFailedBooks ==
  ASSUME IndInv, Books, NEW c \in Slots, PromotionFailed(c)
  PROVE  Books'
<1> USE Basics
<1>0. PICK u, new : u = job[c].on /\ new = job[c].new
  OBVIOUS
<1>1. /\ job[c].op = "promote" /\ job[c].op \in SwapOps /\ End(c)
      /\ budget' = Demoted(budget)
      /\ (~crossed' => ~crossed) /\ (~astray' => ~astray)
  BY DEF PromotionFailed, Remember, SwapOps
<1>2. pool'.held = pool.held \cup {u}
  <2>1. Updated(pool, u, StatusFor(job[c].for)).held = pool.held \cup {u}
    BY HeldOf
  <2> QED
    BY <1>0, <2>1 DEF PromotionFailed
<1>3. "headless" \in Kinds /\ "desktop" \in Kinds /\ "headless" # "desktop"
  BY DEF Kinds
<1>4. /\ SwapsWhole' /\ SwapsApart'
      /\ ~crossed' =>
           /\ u \notin Staying("headless") /\ new \in Staying("desktop")
           /\ Staying("headless")' = Staying("headless") \cup {u}
           /\ Staying("desktop")' = Staying("desktop") \ {new}
  BY <1>0, <1>1, <1>2, <1>3, SwapGivenUp
<1>5. SizesExact'
  <2> SUFFICES ASSUME ~crossed', ~astray'
               PROVE  budget' = Rebuilt(Sizes') /\ Within'
    BY SizesExactIs
  <2>1. budget = Rebuilt(Sizes) /\ Within
    BY <1>1, SizesExactIs DEF Books
  <2>2. /\ Sizes' = Plus(Minus(Sizes, "desktop"), "headless") /\ Sizes["desktop"] > 0
        /\ Within'
    BY <1>3, <1>4, <2>1, MovedSizes
  <2>3. Demoted(Rebuilt(Sizes)) = Rebuilt(Plus(Minus(Sizes, "desktop"), "headless"))
    BY <2>2, SizesAre, MovedExact
  <2> QED
    BY <1>1, <2>1, <2>2, <2>3
<1> QED
  BY <1>4, <1>5 DEF Books

\* The failure of a demotion: its rollback is a promotion, and may be refused.
LEMMA DemotionFailedBooks ==
  ASSUME IndInv, Books, NEW c \in Slots, DemotionFailed(c)
  PROVE  Books'
<1> USE Basics
<1>0. PICK u, new : u = job[c].on /\ new = job[c].new
  OBVIOUS
<1>1. /\ job[c].op = "demote" /\ job[c].op # "promote" /\ job[c].op \in SwapOps /\ End(c)
      /\ RollBackDemotion(budget, u, job[c].for)
  BY <1>0 DEF DemotionFailed, SwapOps
<1>2. /\ ~crossed' => ~crossed
      /\ ~astray' => ~astray /\ MayPromote(budget) /\ budget' = Promoted(budget)
  BY <1>1 DEF RollBackDemotion, Remember
<1>3. pool'.held \subseteq pool.held \cup {u} /\ pool.held \subseteq pool'.held
  <2>1. Updated(pool, u, StatusFor(job[c].for)).held = pool.held \cup {u}
    BY HeldOf
  <2> QED
    BY <1>1, <2>1 DEF RollBackDemotion
<1>4. "headless" \in Kinds /\ "desktop" \in Kinds /\ "headless" # "desktop"
  BY DEF Kinds
<1>5. /\ SwapsWhole' /\ SwapsApart'
      /\ ~crossed' =>
           /\ u \notin Staying("desktop") /\ new \in Staying("headless")
           /\ Staying("desktop")' = Staying("desktop") \cup {u}
           /\ Staying("headless")' = Staying("headless") \ {new}
  BY <1>0, <1>1, <1>2, <1>3, <1>4, SwapGivenUp
<1>6. SizesExact'
  <2> SUFFICES ASSUME ~crossed', ~astray'
               PROVE  budget' = Rebuilt(Sizes') /\ Within'
    BY SizesExactIs
  <2>1. budget = Rebuilt(Sizes) /\ Within
    BY <1>2, SizesExactIs DEF Books
  <2>2. Size("desktop") < Limit["desktop"]
    BY <1>2, <1>4, <2>1, SizesAre DEF MayPromote, Rebuilt
  <2>3. /\ Sizes' = Plus(Minus(Sizes, "headless"), "desktop") /\ Sizes["headless"] > 0
        /\ Within'
    BY <1>4, <1>5, <2>1, <2>2, MovedSizes
  <2>4. Promoted(Rebuilt(Sizes)) = Rebuilt(Plus(Minus(Sizes, "headless"), "desktop"))
    BY <2>3, SizesAre, MovedExact
  <2> QED
    BY <1>2, <2>1, <2>3, <2>4
<1> QED
  BY <1>5, <1>6 DEF Books

-----------------------------------------------------------------------------
(* A restart of the process: the books are rebuilt from the units of the state file. *)

\* Two sets that share nothing count as one.
LEMMA DisjointUnion ==
  ASSUME NEW S, NEW T, IsFiniteSet(S), IsFiniteSet(T), S \cap T = {}
  PROVE  IsFiniteSet(S \cup T) /\ Cardinality(S \cup T) = Cardinality(S) + Cardinality(T)
<1>1. Cardinality(S \cap T) = 0
  BY FS_EmptySet
<1>2. Cardinality(S) \in Nat /\ Cardinality(T) \in Nat
  BY FS_CardinalityType
<1>3. /\ IsFiniteSet(S \cup T)
      /\ Cardinality(S \cup T) = Cardinality(S) + Cardinality(T) - Cardinality(S \cap T)
  BY FS_Union
<1> QED
  BY ONLY <1>1, <1>2, <1>3

\* The pool is no larger than what the books count: each unit that a swap is about to take
\* out has one that takes its place.
LEMMA PoolFits ==
  ASSUME IndInv, SwapsWhole, SwapsApart, ~crossed
  PROVE  Cardinality(pool.held) <= Size("headless") + Size("desktop")
<1> USE Basics
<1> DEFINE All == Staying("headless") \cup Staying("desktop")
           Swap(u) == CHOOSE s \in Slots : job[s].op \in SwapOps /\ job[s].on = u
           f == [u \in pool.held |-> IF Leaves(u) THEN job[Swap(u)].new ELSE u]
<1>1. \A u \in pool.held \cup Made : ~Leaves(u) => u \in All
  BY DEF Staying, Kind
<1>2. ASSUME NEW u \in pool.held, Leaves(u)
      PROVE  /\ Swap(u) \in Making /\ job[Swap(u)].on = u
             /\ job[Swap(u)].new \in Made /\ job[Swap(u)].new \notin Known
  <2>1. Swap(u) \in Slots /\ job[Swap(u)].op \in SwapOps /\ job[Swap(u)].on = u
    BY <1>2 DEF Leaves
  <2> HIDE DEF Swap
  <2>2. Swap(u) \in Making
    BY <2>1 DEF Making, SwapOps
  <2> QED
    BY <2>1, <2>2, MadeIsApart
<1>3. \A u : Leaves(u) => u \in Known
  BY DEF Leaves, Known
<1>4. pool.held \subseteq Known
  BY DEF Known
<1> HIDE DEF Swap, All
<1>5. f \in [pool.held -> All]
  <2>1. ASSUME NEW u \in pool.held
        PROVE  f[u] \in All
    BY <1>1, <1>2, <1>3
  <2> QED
    BY <2>1
<1>6. \A u, v \in pool.held : f[u] = f[v] => u = v
  <2> SUFFICES ASSUME NEW u \in pool.held, NEW v \in pool.held, f[u] = f[v]
               PROVE  u = v
    OBVIOUS
  <2>1. CASE ~Leaves(u) /\ ~Leaves(v)
    BY <2>1
  <2>2. CASE Leaves(u) /\ ~Leaves(v)
    BY <1>2, <1>4, <2>2
  <2>3. CASE ~Leaves(u) /\ Leaves(v)
    BY <1>2, <1>4, <2>3
  <2>4. CASE Leaves(u) /\ Leaves(v)
    <3>1. job[Swap(u)].new = job[Swap(v)].new
      BY <2>4
    <3>2. Swap(u) = Swap(v)
      BY <1>2, <2>4, <3>1 DEF IndInv, MadeApart
    <3> QED
      BY <1>2, <2>4, <3>2
  <2> QED
    BY <2>1, <2>2, <2>3, <2>4
<1>7. f \in Injection(pool.held, All)
  <2> HIDE DEF f
  <2> QED
    BY <1>5, <1>6 DEF Injection, IsInjective
<1>8. IsFiniteSet(All) /\ Cardinality(All) = Size("headless") + Size("desktop")
  <2>1. Staying("headless") \cap Staying("desktop") = {}
    BY DEF Staying
  <2>2. /\ IsFiniteSet(Staying("headless")) /\ Size("headless") \in Nat
        /\ IsFiniteSet(Staying("desktop")) /\ Size("desktop") \in Nat
    BY SizeIs DEF Kinds
  <2>3. Size("headless") = Cardinality(Staying("headless"))
        /\ Size("desktop") = Cardinality(Staying("desktop"))
    BY DEF Size
  <2> QED
    BY <2>1, <2>2, <2>3, DisjointUnion DEF All
<1> QED
  BY <1>7, <1>8, FS_Injection

\* So the units that are left fit into the limits, unless one of them was on its way out.
LEMMA RestartBooks ==
  ASSUME IndInv, IndInv', Books, NEW dead \in SUBSET pool.held, Restart(dead)
  PROVE  Books'
<1> USE Basics
<1>1. pool'.held = pool.held \ dead /\ pool'.unit = pool.unit
  BY RemovedAllIs DEF Restart
<1>2. \A s \in Slots : job'[s] = Free
  BY DEF Restart
<1>3. Made' = {} /\ \A u : ~Leaves(u)'
  BY <1>2, FreeIsJob DEF Made, Making, Leaves, SwapOps
<1>4. SwapsWhole' /\ SwapsApart'
  BY <1>2, FreeIsJob DEF SwapsWhole, SwapsApart, SwapOps
<1>5. \A k \in Kinds : Staying(k)' = {u \in pool'.held : Kind(u) = k}
  BY <1>3 DEF Staying
<1>6. SizesExact'
  <2> SUFFICES ASSUME ~crossed', ~astray'
               PROVE  budget' = Rebuilt(Sizes') /\ Within'
    BY SizesExactIs
  <2>1. /\ ~crossed /\ ~astray
        /\ \A u \in pool'.held : /\ pool.unit[u].status # "unhealthy"
                                 /\ ~(Kind(u) = "desktop" /\ Swapping(u) # {})
    BY DEF Restart, Remember
  <2>2. Within
    BY <2>1, SizesExactIs DEF Books
  <2>3. budget' = Rebuilt(Sizes')
    <3>1. ASSUME NEW k \in Kinds
          PROVE  Active(pool', k) = Size(k)'
      <4>1. {u \in pool'.held : Kind(u) = k /\ pool'.unit[u].status # "unhealthy"} = Staying(k)'
        BY <1>1, <1>5, <2>1
      <4> QED
        BY <4>1 DEF Active, Size
    <3> QED
      BY <3>1 DEF Restart, Sizes
  <2>4. /\ Size("headless") \in Nat /\ Size("desktop") \in Nat /\ MaxTotal \in Nat
        /\ Limit["desktop"] \in Nat /\ "headless" \in Kinds /\ "desktop" \in Kinds
    BY SizesAre, PoolAssumption DEF Kinds
  <2>5. Size("desktop")' <= Size("desktop") /\ Size("desktop")' \in Nat
    <3>1. Staying("desktop")' \subseteq Staying("desktop")
      BY <1>1, <1>5, <2>1, <2>4 DEF Staying, Leaves, Swapping, SwapOps
    <3>2. IsFiniteSet(Staying("desktop"))
      BY <2>4, SizeIs
    <3> QED
      BY <3>1, <3>2, FS_Subset, FS_CardinalityType DEF Size
  <2>6. Size("headless")' + Size("desktop")' <= Size("headless") + Size("desktop")
    <3> DEFINE H == {u \in pool'.held : Kind(u) = "headless"}
               D == {u \in pool'.held : Kind(u) = "desktop"}
    <3>1. IsFiniteSet(pool.held) /\ IsFiniteSet(pool'.held) /\ IsFiniteSet(H) /\ IsFiniteSet(D)
      BY <1>1, PoolAssumption, FS_Subset
    <3>2. H \cup D = pool'.held /\ H \cap D = {}
      BY DEF Kind
    <3>3. Size("headless")' = Cardinality(H) /\ Size("desktop")' = Cardinality(D)
      BY <1>5, <2>4 DEF Size
    <3> HIDE DEF H, D
    <3>4. Cardinality(pool'.held) = Cardinality(H) + Cardinality(D)
      BY <3>1, <3>2, DisjointUnion
    <3>5. Cardinality(pool'.held) <= Cardinality(pool.held)
      BY <1>1, <3>1, FS_Subset
    <3>6. Cardinality(pool.held) <= Size("headless") + Size("desktop")
      BY <2>1, PoolFits DEF Books
    <3> QED
      BY <2>4, <3>1, <3>3, <3>4, <3>5, <3>6, FS_CardinalityType
  <2>7. Size("headless")' \in Nat
    <3>1. IsFiniteSet(Staying("headless")')
      BY <1>1, <1>5, <2>4, PoolAssumption, FS_Subset
    <3> QED
      BY <3>1, FS_CardinalityType DEF Size
  <2>8. Within'
    BY <2>2, <2>4, <2>5, <2>6, <2>7 DEF Within
  <2> QED
    BY <2>3, <2>8
<1> QED
  BY <1>4, <1>6 DEF Books

-----------------------------------------------------------------------------
(* The theorem *)

\* The books of an empty pool
LEMMA InitBooks ==
  ASSUME Init
  PROVE  Books
<1>1. IndInv
  BY InitKeeps
<1>2. \A s \in Slots : job[s] = Free
  BY DEF Init
<1>3. SwapsWhole /\ SwapsApart
  BY <1>2, FreeIsJob DEF SwapsWhole, SwapsApart, SwapOps
<1>4. Made = {} /\ pool.held = {}
  BY <1>2, FreeIsJob DEF Init, Made, Making
<1>5. \A k \in Kinds : Size(k) = 0
  BY <1>4, FS_EmptySet DEF Staying, Size
<1>6. Sizes = [k \in Kinds |-> 0]
  BY <1>5 DEF Sizes
<1>7. Within
  BY <1>5, PoolAssumption DEF Within, Kinds
<1>8. SizesExact
  BY <1>6, <1>7, SizesExactIs DEF Init
<1> QED
  BY <1>3, <1>8 DEF Books

\* Every step of the pool manager keeps the books.
THEOREM BooksStep ==
  ASSUME IndInv, IndInv', Books, [Next]_vars
  PROVE  Books'
<1>1. CASE AtOnce
  BY <1>1, AtOnceIsCalm, CalmKeeps
<1>2. ASSUME NEW c \in Calls, CallBegins(c)
      PROVE  Books'
  <2>1. c \in Slots
    BY DEF Slots
  <2>2. ASSUME NEW a \in Agents \cup {NoAgent}, NEW k \in Kinds, NEW b \in BOOLEAN,
               SessionCreate(c, a, k, b)
        PROVE  Books'
    BY <2>1, <2>2, CreationBooks DEF SessionCreate
  <2>3. CASE CreateSandbox(c)
    <3>1. BeginCreation(c, NoAgent, "headless", FALSE)
      BY <2>3 DEF CreateSandbox
    <3>2. NoAgent \in Agents \cup {NoAgent} /\ "headless" \in Kinds /\ FALSE \in BOOLEAN
      BY DEF Kinds
    <3> QED
      BY <2>1, <3>1, <3>2, CreationBooks
  <2>4. CASE \/ \E a \in Agents : SessionEndDesktop(c, a) \/ SessionEndHeadless(c, a)
             \/ \E u \in Units : DestroyUnit(c, u) \/ ReleaseHeadless(c, u) \/ RestartUnit(c, u)
    BY <2>4, CallBeginsCalm, CalmKeeps
  <2>5. ASSUME NEW u \in Units, Promote(c, u) \/ Demote(c, u)
        PROVE  Books'
    BY <2>1, <2>5, PromoteBooks, DemoteBooks
  <2> QED
    BY <1>2, <2>2, <2>3, <2>4, <2>5 DEF CallBegins
<1>3. ASSUME NEW c \in Calls, CallGoesOn(c)
      PROVE  Books'
  <2>1. c \in Slots
    BY DEF Slots
  <2>2. CASE \/ StartReset(c) \/ ResetDone(c) \/ Restarted(c) \/ RestartNotReady(c)
             \/ RestartFailed(c) \/ StartZombieReset(c) \/ ZombieReset(c)
    BY <2>2, GoesOnCalm, CalmKeeps
  <2>3. CASE Created(c) \/ CreationFailed(c) \/ Swapped(c) \/ PromotionFailed(c)
               \/ DemotionFailed(c)
    BY <2>1, <2>3, CreatedBooks, CreationFailedBooks, SwappedBooks, PromotionFailedBooks,
      DemotionFailedBooks
  <2> QED
    BY <1>3, <2>2, <2>3 DEF CallGoesOn
<1>4. ASSUME NEW s \in Slots, Destroyed(s)
      PROVE  Books'
  BY <1>4, DestroyedBooks
<1>5. CASE Loops
  BY <1>5, LoopsAreCalm, CalmKeeps
<1>6. ASSUME NEW dead \in SUBSET pool.held, Restart(dead)
      PROVE  Books'
  BY <1>6, RestartBooks
<1>7. CASE UNCHANGED vars
  <2>1. Calm
    BY <1>7 DEF vars, Calm
  <2> QED
    BY <2>1, CalmKeeps
<1> QED
  BY <1>1, <1>2, <1>3, <1>4, <1>5, <1>6, <1>7 DEF Next

\* The running totals of CapacityBudget are those of the units there are, and those units
\* stay within MAX_TOTAL_UNITS and MAX_DESKTOP, unless two operations met on one unit or
\* the code itself gave the books up.
THEOREM BooksSafe == Spec => []BooksExact
<1>1. Init => Books
  BY InitBooks
<1>2. IndInv /\ IndInv' /\ Books /\ [Next]_vars => Books'
  BY BooksStep
<1>3. IndInv /\ Books => BooksExact
  BY BooksMatch
<1> QED
  BY <1>1, <1>2, <1>3, Invariance, PTL DEF Spec
==============================================================================
