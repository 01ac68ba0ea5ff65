---------------------------- MODULE MCPoolManager ----------------------------
(***************************************************************************)
(* Two small instances of PoolManager in one run, over the same ids: part  *)
(* says which of them moves.  In "swaps" requests meet on up to three      *)
(* units; in "loops" the health and the sweep loop work on one unit of     *)
(* each kind, with one port for each.                                      *)
(***************************************************************************)
EXTENDS PoolManager, TLC

CONSTANTS a1, h1, h2, h3, d1, d2, c1, c2, monitor, sweeper, none

VARIABLE part

SmallCost == [k \in Kinds |-> [r \in Resources |-> IF k = "headless" THEN 1 ELSE 2]]
SmallCapacity == [r \in Resources |-> 5]
SmallLimit == [k \in Kinds |-> IF k = "headless" THEN 3 ELSE 1]

Narrow == INSTANCE PoolManager WITH
  HeadlessUnits <- {h1}, DesktopUnits <- {d1}, HeadlessPorts <- {1}, DesktopPorts <- {11}, MaxTotal <- 2

\* The properties promise nothing once operations have met on a unit, and little once the
\* books are off.  A persistent unit is one that session_end and the loops leave alone:
\* the desktops of these runs are enough to have some.
Undisturbed ==
  /\ ~crossed /\ ~astray
  /\ \A u \in pool.held : pool.unit[u].persistent => Kind(u) = "desktop"

\* ... and neither loop has begun a pass, nor has a unit been left in transition, and no
\* agent has a unit.
CallsOnly ==
  /\ toCheck = {} /\ toSweep = {} /\ left = {}
  /\ \A a \in Agents : pool.map[a] = NoUnit
  /\ \A s \in Slots : job[s].for = NoAgent

\* What a unit was when nothing refers to it any more is read by no action: its id is in
\* Fresh until Prepared overwrites it.
Referred(u) ==
  \/ u \in pool.held \cup toCheck \cup toSweep
  \/ \E s \in Slots : u \in {job[s].on, job[s].new}
UnitsRead == [u \in {v \in Units : Referred(v)} |-> pool.unit[u]]

\* ... and the loops take turns, beside one request.
OneLoop ==
  /\ \/ toCheck = {} /\ job[Monitor] = Free
     \/ toSweep = {} /\ job[Sweeper] = Free
  /\ job[c2] = Free

Bounds == Undisturbed /\ IF part = "swaps" THEN CallsOnly ELSE OneLoop

BothInit == part \in {"swaps", "loops"} /\ Init
BothNext ==
  /\ UNCHANGED part
  /\ \/ part = "swaps" /\ Next
     \/ part = "loops" /\ Narrow!Next
  /\ Bounds'
BothSpec == BothInit /\ [][BothNext]_<<part, vars>>

\* Without agents and passes no action reads persistent, failing and agent either.
ReadLater ==
  <<part, pool.held, pool.map, ports, budget, job, toCheck, toSweep, crossed, astray, left,
    IF part = "loops" THEN UnitsRead
    ELSE [u \in DOMAIN UnitsRead |-> <<Status(u), Port(u)>>]>>

Symmetry == Permutations(HeadlessUnits) \cup Permutations(DesktopUnits)
=============================================================================
