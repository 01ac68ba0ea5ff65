----------------------------- MODULE PagesProofs -----------------------------
(***************************************************************************)
(* Theorems about Sandboxes, ScreenRelay, LogStream and Knowledge, which   *)
(* MCPages checks in one run, for any number of users, agents, rows,       *)
(* units, operations under way, viewers, lines and documents, and for any  *)
(* text.  IInv is the inductive invariant of Sandboxes: from it follow     *)
(* that rows and the pool agree and that a limit is passed by overlapping  *)
(* creations only.  ScreenInv, LogInv and BaseInv are those of the others. *)
(***************************************************************************)
EXTENDS MCPages, FiniteSetTheorems, SequenceTheorems, WellFoundedInduction, TLAPS

AgentIds == Agents \cup {None}
RowStates == RowType \cup {NoRow}
UnitStates == [st : {"new", "up", "gone"}, agent : AgentIds]
Loads == {"assign", "unassign", "transfer", "restart", "destroy", "release", "stale"}
Creates == {"create", "acquire"}
CallOps == {"none"} \cup Creates \cup Loads
CallStates == [op : CallOps, at : {"none", "pool", "write"}, user : Users \cup {None},
               agent : AgentIds, row : Rows \cup {None}, seen : RowStates,
               unit : Units \cup {None}]

-----------------------------------------------------------------------------
(* The inductive invariant *)

\* What an operation has in hand.
Whole(k) ==
  /\ k.row \in Rows <=> k.op \in Loads
  /\ k.op \in Loads => k.seen \in RowType
  /\ k.op \in Creates \cup {"transfer"} => k.user \in Users
  /\ k.op \in Creates \cup {"restart"} /\ k.at = "write" => k.unit \in Units
  /\ k.op \in {"acquire", "assign"} => k.agent \in Agents
  /\ k.op = "none" => k.at = "none"
CallsWhole == \A c \in Calls : Whole(call[c])

\* No two rows are of one unit, and a unit that is not there is nobody's.
UnitsApart == \A r, s \in Present : row[r].unit = row[s].unit => r = s
GoneIsFree == \A u \in Units : unit[u].st # "up" => unit[u].agent = None

\* The operation has told the pool what it has yet to write to r.
ToldOps == {"release", "restart", "destroy", "stale"}
Told(c, r) == call[c].row = r /\ call[c].at = "write" /\ call[c].op \in ToldOps

\* Of a row that history has nothing on: it agrees with the pool, but for an operation that
\* has told the pool; those that have loaded it have seen it as it is; and whoever is to
\* release it has freed its unit, which is still free, or will have overlapped another.
Agrees(r) == unit[row[r].unit].agent = row[r].agent
SeenAsItIs(r) ==
  \A c \in Calls :
    call[c].row = r => row[r].agent = call[c].seen.agent /\ row[r].unit = call[c].seen.unit
ReleasedIsFree(r) ==
  \A c \in Calls :
    Told(c, r) /\ call[c].op = "release"
      => unit[row[r].unit].agent = None \/ \E d \in Calls \ {c} : Told(d, r)
RowSound(r) ==
  /\ Agrees(r) \/ \E c \in Calls : Told(c, r)
  /\ SeenAsItIs(r) /\ ReleasedIsFree(r)
RowsSound == \A r \in Present \ odd : RowSound(r)

\* What a user has and has asked for: every creation under way was admitted below the limit.
Mine(x) == OwnedBy(x) \ received
Creating(x) == {c \in Calls : call[c].op \in Creates /\ call[c].user = x}
Counted ==
  /\ IsFiniteSet(Present)
  /\ \A x \in Users :
       Cardinality(Mine(x)) + Cardinality(Creating(x)) <= MaxPerUser + Cardinality(Calls) - 1

IInv ==
  /\ TypeOK /\ CallsWhole /\ UnitsApart /\ GoneIsFree
  /\ RowsSound /\ Counted

-----------------------------------------------------------------------------
(* Types *)

\* The type invariant in the words of this module.
LEMMA TypeOKIs ==
  TypeOK <=> /\ row \in [Rows -> RowStates] /\ unit \in [Units -> UnitStates]
             /\ call \in [Calls -> CallStates] /\ begun \in 0..MaxRequests
             /\ deleted \subseteq Agents /\ received \subseteq Rows /\ odd \subseteq Rows
<1>1. CallOps = {"none", "create", "acquire", "assign", "unassign", "transfer",
                 "restart", "destroy", "release", "stale"}
  BY DEF CallOps, Creates, Loads
<1> QED
  BY <1>1 DEF TypeOK, AgentIds, RowStates, UnitStates, CallStates

\* The same of the state after a step.
LEMMA TypeOKNext ==
  TypeOK' <=> /\ row' \in [Rows -> RowStates] /\ unit' \in [Units -> UnitStates]
              /\ call' \in [Calls -> CallStates] /\ begun' \in 0..MaxRequests
              /\ deleted' \subseteq Agents /\ received' \subseteq Rows /\ odd' \subseteq Rows
<1>1. CallOps = {"none", "create", "acquire", "assign", "unassign", "transfer",
                 "restart", "destroy", "release", "stale"}
  BY DEF CallOps, Creates, Loads
<1> QED
  BY <1>1 DEF TypeOK, AgentIds, RowStates, UnitStates, CallStates

\* A row that is there, and one that is not.
LEMMA RowFields ==
  /\ NoRow \notin RowType
  /\ \A w \in RowType : /\ w.owner \in Users /\ w.agent \in AgentIds /\ w.unit \in Units
                        /\ w.status \in Statuses /\ w.released \in BOOLEAN
  /\ NoRow.owner = None /\ NoRow.agent = None /\ NoRow.unit = None
<1>1. NoRow.owner \notin Users
  BY SandboxesAssumption DEF NoRow
<1> QED
  BY <1>1 DEF RowType, NoRow, AgentIds

\* An operation at rest.
LEMMA NoCallFields ==
  /\ NoCall \in CallStates /\ Whole(NoCall) /\ NoCall.row = None /\ NoCall.op = "none"
  /\ NoCall.at = "none"
<1>1. None \notin Rows
  BY SandboxesAssumption
<1> QED
  BY <1>1 DEF NoCall, CallStates, CallOps, Loads, Creates, AgentIds, RowStates, Whole

\* What the invariant says of the parts, in one place.
LEMMA Facts ==
  ASSUME IInv
  PROVE  /\ row \in [Rows -> RowStates] /\ unit \in [Units -> UnitStates]
         /\ call \in [Calls -> CallStates] /\ begun \in 0..MaxRequests
         /\ deleted \subseteq Agents /\ received \subseteq Rows /\ odd \subseteq Rows
         /\ Present \subseteq Rows /\ \A r \in Present : row[r] \in RowType
         /\ \A r \in Rows \ Present : row[r] = NoRow
         /\ None \notin Rows /\ None \notin Units /\ None \notin Agents /\ None \notin Users
         /\ \A c \in Calls : /\ call[c] \in CallStates /\ Whole(call[c])
                             /\ call[c].row \in Rows \cup {None}
                             /\ call[c].op \in CallOps
  BY TypeOKIs, RowFields, SandboxesAssumption
     DEF IInv, CallsWhole, Present, RowStates, CallStates

-----------------------------------------------------------------------------
(* What a step does to the rows that it is not about, and to the one that it is about *)

\* Nobody touches r, its unit's agent or the operations on it.
LEMMA Elsewhere ==
  ASSUME NEW r, RowSound(r),
         row'[r].agent = row[r].agent, row'[r].unit = row[r].unit,
         unit'[row[r].unit].agent = unit[row[r].unit].agent,
         \A c \in Calls : call'[c] = call[c] \/ (call[c].row # r /\ call'[c].row # r)
  PROVE  RowSound(r)'
<1>1. \A c \in Calls : Told(c, r)' <=> Told(c, r)
  BY DEF Told
<1>2. \A c \in Calls : Told(c, r) => call'[c] = call[c]
  BY DEF Told
<1>3. Agrees(r)' <=> Agrees(r)
  BY DEF Agrees
<1>4. SeenAsItIs(r)'
  BY DEF RowSound, SeenAsItIs
<1>5. ReleasedIsFree(r)'
  BY <1>1, <1>2 DEF RowSound, ReleasedIsFree
<1> QED
  BY <1>1, <1>3, <1>4, <1>5 DEF RowSound

\* Nobody is at work on r any more.
LEMMA Settled ==
  ASSUME NEW r, \A c \in Calls : call'[c].row # r, Agrees(r)'
  PROVE  RowSound(r)'
  BY DEF RowSound, SeenAsItIs, ReleasedIsFree, Told

\* An operation loads r, and has not told the pool anything.
LEMMA Loaded ==
  ASSUME NEW r, RowSound(r), UNCHANGED <<row, unit>>, NEW c \in Calls, call[c].row # r,
         call'[c].seen = row[r], ~Told(c, r)',
         \A d \in Calls \ {c} : call'[d] = call[d]
  PROVE  RowSound(r)'
<1>1. \A d \in Calls : Told(d, r)' <=> Told(d, r)
  BY DEF Told
<1>2. SeenAsItIs(r)'
  BY DEF RowSound, SeenAsItIs
<1>3. ReleasedIsFree(r)'
  BY <1>1 DEF RowSound, ReleasedIsFree, Told
<1> QED
  BY <1>1, <1>2, <1>3 DEF RowSound, Agrees

\* An operation on r tells the pool.
LEMMA Telling ==
  ASSUME NEW r, RowSound(r), UNCHANGED row, NEW c \in Calls, Told(c, r)',
         call[c].row = r, call'[c].seen = call[c].seen,
         call'[c].op = "release" => unit'[row[r].unit].agent = None,
         \A d \in Calls \ {c} : call'[d] = call[d]
  PROVE  RowSound(r)'
<1>1. SeenAsItIs(r)'
  BY DEF RowSound, SeenAsItIs
<1>2. ReleasedIsFree(r)'
  BY DEF ReleasedIsFree, Told
<1> QED
  BY <1>1, <1>2 DEF RowSound

\* A step that is about q keeps the other rows sound.
LEMMA SoundKept ==
  ASSUME IInv, NEW q,
         \A r \in (Present \ odd)' : r # q =>
           /\ r \in Present \ odd
           /\ row'[r].agent = row[r].agent /\ row'[r].unit = row[r].unit
           /\ unit'[row[r].unit].agent = unit[row[r].unit].agent,
         \A c \in Calls : \/ call'[c] = call[c]
                          \/ call[c].row \in {q, None} /\ call'[c].row \in {q, None},
         q \in (Present \ odd)' => RowSound(q)'
  PROVE  RowsSound'
<1>1. ASSUME NEW r \in (Present \ odd)', r # q
      PROVE  RowSound(r)'
  <2>1. r \in Present \ odd /\ RowSound(r) /\ r # None
    BY <1>1, Facts DEF IInv, RowsSound
  <2> QED
    BY <1>1, <2>1, Elsewhere
<1> QED
  BY <1>1 DEF RowsSound

-----------------------------------------------------------------------------
(* What a user has, counted *)

\* Sets of rows and of operations are finite.
LEMMA Finite ==
  ASSUME Counted, NEW x
  PROVE  /\ IsFiniteSet(Mine(x)) /\ Cardinality(Mine(x)) \in Nat
         /\ IsFiniteSet(OwnedBy(x)) /\ Cardinality(OwnedBy(x)) \in Nat
         /\ Cardinality(Mine(x)) <= Cardinality(OwnedBy(x))
         /\ IsFiniteSet(Creating(x)) /\ Cardinality(Creating(x)) \in Nat
         /\ Cardinality(Creating(x)) <= Cardinality(Calls)
         /\ Cardinality(Calls) \in Nat /\ Cardinality(Calls) >= 1
<1>1. Creating(x) \subseteq Calls /\ OwnedBy(x) \subseteq Present /\ Mine(x) \subseteq OwnedBy(x)
  BY DEF Creating, Mine, OwnedBy
<1>2. IsFiniteSet(Calls) /\ Calls # {} /\ IsFiniteSet(Present)
  BY SandboxesAssumption DEF Counted
<1>3. IsFiniteSet(OwnedBy(x)) /\ IsFiniteSet(Creating(x))
  BY <1>1, <1>2, FS_Subset
<1>4. IsFiniteSet(Mine(x)) /\ Cardinality(Mine(x)) <= Cardinality(OwnedBy(x))
      /\ Cardinality(Creating(x)) <= Cardinality(Calls)
  BY <1>1, <1>2, <1>3, FS_Subset
<1>5. /\ Cardinality(Calls) \in Nat /\ Cardinality(Mine(x)) \in Nat
      /\ Cardinality(OwnedBy(x)) \in Nat /\ Cardinality(Creating(x)) \in Nat
  BY <1>2, <1>3, <1>4, FS_CardinalityType
<1>6. Cardinality(Calls) # 0
  BY <1>2, FS_EmptySet
<1> QED
  BY <1>3, <1>4, <1>5, <1>6

\* A step after which nobody has or has asked for more keeps the count.
LEMMA NoMore ==
  ASSUME Counted, Present' \subseteq Present,
         \A r \in Present' \ received' : r \notin received /\ row'[r].owner = row[r].owner,
         \A c \in Calls : call'[c].op \in Creates =>
                            call[c].op \in Creates /\ call'[c].user = call[c].user
  PROVE  Counted'
<1>1. IsFiniteSet(Present')
  BY FS_Subset DEF Counted
<1>2. ASSUME NEW x \in Users
      PROVE  Cardinality(Mine(x)') + Cardinality(Creating(x)')
               <= MaxPerUser + Cardinality(Calls) - 1
  <2>1. Mine(x)' \subseteq Mine(x) /\ Creating(x)' \subseteq Creating(x)
    BY DEF Mine, OwnedBy, Creating
  <2>2. /\ Cardinality(Mine(x)') <= Cardinality(Mine(x)) /\ Cardinality(Mine(x)') \in Nat
        /\ Cardinality(Creating(x)') <= Cardinality(Creating(x))
        /\ Cardinality(Creating(x)') \in Nat
    BY <2>1, Finite, FS_Subset, FS_CardinalityType
  <2>3. MaxPerUser \in Nat
    BY SandboxesAssumption
  <2> QED
    BY <2>2, <2>3, Finite DEF Counted
<1> QED
  BY <1>1, <1>2 DEF Counted

\* A creation is admitted below the limit.
LEMMA Admitted ==
  ASSUME Counted, UNCHANGED <<row, received>>, NEW c \in Calls, NEW y \in Users, MayCreate(y),
         \A d \in Calls \ {c} : call'[d] = call[d],
         call'[c].user = y, call[c].op \notin Creates
  PROVE  Counted'
<1>1. \A x : Mine(x)' = Mine(x)
  BY DEF Mine, OwnedBy, Present
<1>2. ASSUME NEW x \in Users
      PROVE  Cardinality(Mine(x)) + Cardinality(Creating(x)')
               <= MaxPerUser + Cardinality(Calls) - 1
  <2> MaxPerUser \in Nat /\ IsFiniteSet(Calls)
    BY SandboxesAssumption
  <2>1. CASE x = y
    <3>1. Creating(x)' \subseteq Calls
      BY DEF Creating
    <3>2. Cardinality(Creating(x)') <= Cardinality(Calls) /\ Cardinality(Creating(x)') \in Nat
      BY <3>1, FS_Subset, FS_CardinalityType
    <3>3. Cardinality(OwnedBy(x)) < MaxPerUser
      BY <2>1 DEF MayCreate
    <3> QED
      BY <3>2, <3>3, Finite
  <2>2. CASE x # y
    <3>1. Creating(x)' = Creating(x)
      BY <2>2 DEF Creating
    <3> QED
      BY <3>1 DEF Counted
  <2> QED
    BY <2>1, <2>2
<1>3. IsFiniteSet(Present')
  BY DEF Counted, Present
<1> QED
  BY <1>1, <1>2, <1>3 DEF Counted

\* A creation that ends turns what was asked for into a row.
LEMMA CreationCounted ==
  ASSUME Counted, NEW c \in Calls, NEW y \in Users, NEW r \in Rows,
         call[c].op \in Creates, call[c].user = y,
         Present' \subseteq Present \cup {r},
         \A s \in (Present' \ received') \ {r} : s \notin received /\ row'[s].owner = row[s].owner,
         row'[r].owner = y, call'[c].op \notin Creates,
         \A d \in Calls \ {c} : call'[d] = call[d]
  PROVE  Counted'
<1>1. IsFiniteSet(Present')
  BY FS_AddElement, FS_Subset DEF Counted
<1>2. ASSUME NEW x \in Users
      PROVE  Cardinality(Mine(x)') + Cardinality(Creating(x)')
               <= MaxPerUser + Cardinality(Calls) - 1
  <2> MaxPerUser \in Nat
    BY SandboxesAssumption
  <2>1. CASE x = y
    <3>1. Mine(x)' \subseteq Mine(x) \cup {r} /\ Creating(x)' = Creating(x) \ {c}
          /\ c \in Creating(x)
      BY <2>1 DEF Mine, OwnedBy, Creating
    <3>2. /\ IsFiniteSet(Mine(x) \cup {r})
          /\ Cardinality(Mine(x) \cup {r}) <= Cardinality(Mine(x)) + 1
      <4>1. IsFiniteSet(Mine(x)) /\ Cardinality(Mine(x)) \in Nat
        BY Finite
      <4>2. Cardinality(Mine(x) \cup {r})
              = IF r \in Mine(x) THEN Cardinality(Mine(x)) ELSE Cardinality(Mine(x)) + 1
        BY <4>1, FS_AddElement
      <4> QED
        BY <4>1, <4>2, FS_AddElement
    <3>3. /\ Cardinality(Mine(x)') <= Cardinality(Mine(x) \cup {r})
          /\ Cardinality(Mine(x)') \in Nat
      BY <3>1, <3>2, FS_Subset, FS_CardinalityType
    <3>4. Cardinality(Creating(x)') = Cardinality(Creating(x)) - 1
      BY <3>1, Finite, FS_RemoveElement
    <3>5. Cardinality(Mine(x) \cup {r}) \in Nat
      BY <3>2, FS_CardinalityType
    <3> QED
      BY <3>2, <3>3, <3>4, <3>5, Finite DEF Counted
  <2>2. CASE x # y
    <3>1. Mine(x)' \subseteq Mine(x) /\ Creating(x)' \subseteq Creating(x)
      BY <2>2 DEF Mine, OwnedBy, Creating
    <3>2. /\ Cardinality(Mine(x)') <= Cardinality(Mine(x)) /\ Cardinality(Mine(x)') \in Nat
          /\ Cardinality(Creating(x)') <= Cardinality(Creating(x))
          /\ Cardinality(Creating(x)') \in Nat
      BY <3>1, Finite, FS_Subset, FS_CardinalityType
    <3> QED
      BY <3>2, Finite DEF Counted
  <2> QED
    BY <2>1, <2>2
<1> QED
  BY <1>1, <1>2 DEF Counted

-----------------------------------------------------------------------------
(* The kinds of steps there are *)

\* What the pool does is on record for every row it changes the agent of, but for row q.
PoolMoves(q) ==
  /\ unit' \in [Units -> UnitStates] /\ GoneIsFree' /\ odd \subseteq odd' /\ odd' \subseteq Rows
  /\ \A u \in Units : unit'[u].agent # unit[u].agent => RowsOfUnit(u) \ {q} \subseteq odd'

\* What the pool does elsewhere is on record: the rows that are not are as they were.
LEMMA OthersKept ==
  ASSUME IInv, NEW q, PoolMoves(q),
         \A s \in (Present \ odd)' : s # q =>
           s \in Present /\ row'[s].agent = row[s].agent /\ row'[s].unit = row[s].unit
  PROVE  \A s \in (Present \ odd)' : s # q =>
           /\ s \in Present \ odd
           /\ row'[s].agent = row[s].agent /\ row'[s].unit = row[s].unit
           /\ unit'[row[s].unit].agent = unit[row[s].unit].agent
<1>1. ASSUME NEW s \in (Present \ odd)', s # q
      PROVE  s \in Present \ odd /\ unit'[row[s].unit].agent = unit[row[s].unit].agent
  <2>1. s \in Present \ odd /\ row[s].unit \in Units
    BY <1>1, Facts, RowFields DEF PoolMoves
  <2>2. s \in RowsOfUnit(row[s].unit) \ {q} /\ s \notin odd'
    BY <1>1, <2>1 DEF RowsOfUnit
  <2> QED
    BY <2>1, <2>2 DEF PoolMoves
<1> QED
  BY <1>1

\* An operation that moves on.
LEMMA CallMoves ==
  ASSUME IInv, NEW c \in Calls, NEW k \in CallStates, Whole(k), call' = [call EXCEPT ![c] = k]
  PROVE  /\ call' \in [Calls -> CallStates] /\ CallsWhole' /\ call'[c] = k
         /\ \A d \in Calls \ {c} : call'[d] = call[d]
<1>1. call \in [Calls -> CallStates] /\ CallsWhole
  BY Facts DEF IInv
<1> QED
  BY <1>1 DEF CallsWhole

\* An operation that ends.
LEMMA CallEnds ==
  ASSUME IInv, NEW c \in Calls, Answer(c)
  PROVE  /\ call' \in [Calls -> CallStates] /\ CallsWhole' /\ call'[c] = NoCall
         /\ call'[c].row = None /\ call'[c].op \notin Creates
         /\ \A d \in Calls \ {c} : call'[d] = call[d]
         /\ begun' = begun /\ deleted' = deleted
<1>1. call' = [call EXCEPT ![c] = NoCall] /\ begun' = begun /\ deleted' = deleted
  BY DEF Answer
<1> QED
  BY <1>1, CallMoves, NoCallFields DEF Creates

\* An operation that begins keeps the invariant, if it loads a row that is there, as it is.
LEMMA BeginKeeps ==
  ASSUME IInv, NEW c \in Calls, NEW k \in CallStates, Whole(k), Begin(c, k),
         k.op \in Creates => MayCreate(k.user),
         k.row \in Rows => /\ k.row \in Present /\ k.seen = row[k.row]
                           /\ k.at = "write" => k.op \notin ToldOps
  PROVE  IInv'
<1>1. /\ call[c] = NoCall /\ begun' = begun + 1 /\ begun < MaxRequests
      /\ UNCHANGED <<row, unit, deleted, received, odd>>
      /\ call' = [call EXCEPT ![c] = k]
  BY DEF Begin, history
<1>2. /\ call' \in [Calls -> CallStates] /\ CallsWhole' /\ call'[c] = k
      /\ \A d \in Calls \ {c} : call'[d] = call[d]
  BY <1>1, CallMoves
<1>3. TypeOK'
  <2>1. begun' \in 0..MaxRequests
    BY <1>1, Facts, SandboxesAssumption
  <2> QED
    BY <1>1, <1>2, <2>1, Facts, TypeOKNext
<1>4. UnitsApart' /\ GoneIsFree' /\ Present' = Present
  BY <1>1 DEF IInv, UnitsApart, GoneIsFree, Present
<1>5. RowsSound'
  <2>1. call[c].row = None /\ k.row \in Rows \cup {None} /\ None \notin Rows
    BY <1>1, NoCallFields, Facts DEF CallStates
  <2>2. ASSUME k.row \in (Present \ odd)'
        PROVE  RowSound(k.row)'
    <3>1. /\ k.row \in Present \ odd /\ RowSound(k.row) /\ k.row \in Rows
      BY <1>1, <1>4, <2>2, Facts DEF IInv, RowsSound
    <3>2. ~Told(c, k.row)'
      BY <1>2, <3>1 DEF Told
    <3> QED
      BY <1>1, <1>2, <2>1, <3>1, <3>2, Loaded
  <2> QED
    BY <1>1, <1>2, <1>4, <2>1, <2>2, SoundKept
<1>6. Counted'
  <2>1. CASE k.op \in Creates
    BY <1>1, <1>2, <2>1, NoCallFields, Admitted DEF IInv, Whole, Creates
  <2>2. CASE k.op \notin Creates
    BY <1>1, <1>2, <1>4, <2>2, NoMore DEF IInv
  <2> QED
    BY <2>1, <2>2
<1> QED
  BY <1>2, <1>3, <1>4, <1>5, <1>6 DEF IInv

\* What an UPDATE makes of its row.
LEMMA UpdateIs ==
  ASSUME IInv, NEW c \in Calls, NEW r, r = call[c].row, call[c].op \in Loads,
         NEW new \in RowType, Update(c, new)
  PROVE  /\ r \in Present /\ row' \in [Rows -> RowStates] /\ Present' = Present
         /\ \A s \in Rows \ {r} : row'[s] = row[s]
         /\ new.owner = call[c].seen.owner => row'[r].owner = row[r].owner
         /\ r \notin odd => row'[r].agent = new.agent /\ row'[r].unit = new.unit
         /\ UnitsApart'
<1> DEFINE old == call[c].seen
           m == Merged(r, old, new)
<1>1. /\ r \in Present /\ row' = [row EXCEPT ![r] = m] /\ RowsOfUnit(m.unit) \subseteq {r}
  BY DEF Update, Allowed
<1>2. r \in Rows /\ row[r] \in RowType /\ old \in RowType /\ Present \subseteq Rows
      /\ row \in [Rows -> RowStates]
  BY <1>1, Facts DEF Whole
<1>3. /\ m \in RowType
      /\ m.owner = IF old.owner = new.owner THEN row[r].owner ELSE new.owner
      /\ m.agent = IF old.agent = new.agent THEN row[r].agent ELSE new.agent
      /\ m.unit = IF old.unit = new.unit THEN row[r].unit ELSE new.unit
  BY <1>2 DEF Merged, RowType
<1> HIDE DEF m
<1>4. m # NoRow /\ m \in RowStates
  BY <1>3, RowFields DEF RowStates
<1>5. row' \in [Rows -> RowStates] /\ row'[r] = m /\ \A s \in Rows \ {r} : row'[s] = row[s]
  BY <1>1, <1>2, <1>4
<1>6. Present' = Present
  BY <1>1, <1>2, <1>4, <1>5 DEF Present
<1>7. r \notin odd => row[r].agent = old.agent /\ row[r].unit = old.unit
  BY <1>1 DEF IInv, RowsSound, RowSound, SeenAsItIs
<1>8. UnitsApart'
  <2>1. \A s \in Present \ {r} : row[s].unit # m.unit /\ row'[s] = row[s]
    BY <1>1, <1>2, <1>5 DEF RowsOfUnit
  <2> QED
    BY <1>5, <1>6, <2>1 DEF IInv, UnitsApart
<1> QED
  BY <1>1, <1>3, <1>5, <1>6, <1>7, <1>8

\* An operation that writes to its row, commits and ends keeps the invariant, if the row is on
\* record where operations overlap on it, or agrees with the pool afterwards.
LEMMA WriteKeeps ==
  ASSUME IInv, NEW c \in Calls, NEW r, r = call[c].row, call[c].op \in Loads,
         NEW new \in RowType, Update(c, new), Answer(c), PoolMoves(r),
         Overlaps(c, r) => r \in odd',
         r \notin odd' => unit'[new.unit].agent = new.agent,
         \/ new.owner = call[c].seen.owner /\ received' = received
         \/ received' = received \cup {r}
  PROVE  IInv'
<1>1. /\ r \in Present /\ row' \in [Rows -> RowStates] /\ Present' = Present
      /\ \A s \in Rows \ {r} : row'[s] = row[s]
      /\ new.owner = call[c].seen.owner => row'[r].owner = row[r].owner
      /\ r \notin odd => row'[r].agent = new.agent /\ row'[r].unit = new.unit
      /\ UnitsApart'
  BY UpdateIs
<1>2. /\ call' \in [Calls -> CallStates] /\ CallsWhole' /\ call'[c] = NoCall
      /\ call'[c].row = None /\ call'[c].op \notin Creates
      /\ \A d \in Calls \ {c} : call'[d] = call[d]
      /\ begun' = begun /\ deleted' = deleted
  BY CallEnds
<1>3. r \in Rows /\ r # None /\ Present \subseteq Rows
  BY <1>1, Facts
<1>4. TypeOK'
  BY <1>1, <1>2, <1>3, Facts, TypeOKNext DEF PoolMoves
<1>5. RowsSound'
  <2>1. \A s \in (Present \ odd)' : s # r =>
          /\ s \in Present \ odd
          /\ row'[s].agent = row[s].agent /\ row'[s].unit = row[s].unit
          /\ unit'[row[s].unit].agent = unit[row[s].unit].agent
    BY <1>1, <1>3, OthersKept
  <2>2. ASSUME r \in (Present \ odd)'
        PROVE  RowSound(r)'
    <3>1. r \notin odd /\ r \notin odd'
      BY <2>2 DEF PoolMoves
    <3>2. \A d \in Calls : call'[d].row # r
      BY <1>2, <1>3, <3>1 DEF Overlaps
    <3>3. Agrees(r)'
      BY <1>1, <3>1 DEF Agrees
    <3> QED
      BY <3>2, <3>3, Settled
  <2>3. \A d \in Calls : \/ call'[d] = call[d]
                         \/ call[d].row \in {r, None} /\ call'[d].row \in {r, None}
    BY <1>2
  <2> QED
    BY <2>1, <2>2, <2>3, SoundKept
<1>6. Counted'
  <2>1. \A s \in Present' \ received' : s \notin received /\ row'[s].owner = row[s].owner
    BY <1>1, <1>3
  <2>2. \A d \in Calls : call'[d].op \in Creates =>
                           call[d].op \in Creates /\ call'[d].user = call[d].user
    BY <1>2
  <2> QED
    BY <1>1, <2>1, <2>2, NoMore DEF IInv
<1> QED
  BY <1>1, <1>2, <1>4, <1>5, <1>6 DEF IInv, PoolMoves

\* An operation on a row that tells the pool keeps the invariant.
LEMMA ToldKeeps ==
  ASSUME IInv, NEW c \in Calls, NEW r, r = call[c].row, call[c].op \in ToldOps,
         NEW u \in Units \cup {None}, call[c].op = "restart" => u \in Units,
         Goes(c, u), UNCHANGED <<row, begun, deleted, received>>, PoolMoves(r),
         call[c].op = "release" /\ r \notin odd' => unit'[call[c].seen.unit].agent = None
  PROVE  IInv'
<1> DEFINE k == [call[c] EXCEPT !.at = "write", !.unit = u]
<1>1. call[c] \in CallStates /\ Whole(call[c]) /\ r \in Rows /\ r # None
  BY Facts DEF Whole, ToldOps, Loads
<1>2. /\ k \in CallStates /\ k.op = call[c].op /\ k.row = r /\ k.seen = call[c].seen
      /\ k.at = "write" /\ k.user = call[c].user /\ k.unit = u /\ k.agent = call[c].agent
  BY <1>1 DEF CallStates
<1>3. call' = [call EXCEPT ![c] = k]
  BY DEF Goes
<1> HIDE DEF k
<1>4. Whole(k)
  BY <1>1, <1>2 DEF Whole, ToldOps, Creates, Loads
<1>5. /\ call' \in [Calls -> CallStates] /\ CallsWhole' /\ call'[c] = k
      /\ \A d \in Calls \ {c} : call'[d] = call[d]
  BY <1>2, <1>3, <1>4, CallMoves
<1>6. TypeOK' /\ UnitsApart' /\ Present' = Present
  <2>1. TypeOK'
    BY <1>5, Facts, TypeOKNext DEF PoolMoves
  <2> QED
    BY <2>1 DEF IInv, UnitsApart, Present
<1>7. RowsSound'
  <2>1. \A s \in (Present \ odd)' : s # r =>
          /\ s \in Present \ odd
          /\ row'[s].agent = row[s].agent /\ row'[s].unit = row[s].unit
          /\ unit'[row[s].unit].agent = unit[row[s].unit].agent
    BY <1>6, OthersKept
  <2>2. ASSUME r \in (Present \ odd)'
        PROVE  RowSound(r)'
    <3>1. r \in Present \ odd /\ RowSound(r) /\ r \notin odd'
      BY <1>6, <2>2 DEF PoolMoves, IInv, RowsSound
    <3>2. Told(c, r)'
      BY <1>2, <1>5 DEF Told
    <3>3. call[c].seen.unit = row[r].unit
      BY <3>1 DEF RowSound, SeenAsItIs
    <3>4. call'[c].op = "release" => unit'[row[r].unit].agent = None
      BY <1>2, <1>5, <3>1, <3>3
    <3> QED
      BY <1>2, <1>5, <3>1, <3>2, <3>4, Telling
  <2>3. \A d \in Calls : \/ call'[d] = call[d]
                         \/ call[d].row \in {r, None} /\ call'[d].row \in {r, None}
    BY <1>2, <1>5
  <2> QED
    BY <2>1, <2>2, <2>3, SoundKept
<1>8. Counted'
  <2>1. \A s \in Present' \ received' : s \notin received /\ row'[s].owner = row[s].owner
    OBVIOUS
  <2>2. \A d \in Calls : call'[d].op \in Creates =>
                           call[d].op \in Creates /\ call'[d].user = call[d].user
    BY <1>2, <1>5
  <2> QED
    BY <1>6, <2>1, <2>2, NoMore DEF IInv
<1> QED
  BY <1>5, <1>6, <1>7, <1>8 DEF IInv, PoolMoves

\* An operation that ends without a write keeps the invariant, if it has told the pool nothing
\* or its row is on record.
LEMMA EndKeeps ==
  ASSUME IInv, NEW c \in Calls, NEW r, r = call[c].row, Answer(c),
         UNCHANGED <<row, received>>, PoolMoves(None), r \in Rows /\ Told(c, r) => r \in odd'
  PROVE  IInv'
<1>1. /\ call' \in [Calls -> CallStates] /\ CallsWhole' /\ call'[c] = NoCall
      /\ call'[c].row = None /\ call'[c].op \notin Creates
      /\ \A d \in Calls \ {c} : call'[d] = call[d]
      /\ begun' = begun /\ deleted' = deleted
  BY CallEnds
<1>2. TypeOK' /\ UnitsApart' /\ Present' = Present
  <2>1. TypeOK'
    BY <1>1, Facts, TypeOKNext DEF PoolMoves
  <2> QED
    BY <2>1 DEF IInv, UnitsApart, Present
<1>3. RowsSound'
  <2>1. \A s \in (Present \ odd)' : s # None =>
          /\ s \in Present \ odd
          /\ row'[s].agent = row[s].agent /\ row'[s].unit = row[s].unit
          /\ unit'[row[s].unit].agent = unit[row[s].unit].agent
    BY <1>2, OthersKept
  <2>2. ASSUME r \in (Present \ odd)'
        PROVE  RowSound(r)'
    <3>1. /\ r \in Present \ odd /\ RowSound(r) /\ r \in Rows /\ r # None /\ ~Told(c, r)
          /\ unit'[row[r].unit].agent = unit[row[r].unit].agent
      BY <1>2, <2>1, <2>2, Facts DEF IInv, RowsSound
    <3>2. \A d \in Calls : Told(d, r)' <=> Told(d, r)
      BY <1>1, <3>1 DEF Told
    <3>3. SeenAsItIs(r)'
      BY <1>1, <3>1 DEF RowSound, SeenAsItIs
    <3>4. ReleasedIsFree(r)'
      BY <1>1, <3>1, <3>2 DEF RowSound, ReleasedIsFree
    <3>5. Agrees(r)' <=> Agrees(r)
      BY <3>1 DEF Agrees
    <3> QED
      BY <3>1, <3>2, <3>3, <3>4, <3>5 DEF RowSound
  <2>3. \A s \in (Present \ odd)' : s # None
    BY <1>2, Facts
  <2>4. \A d \in Calls : \/ call'[d] = call[d]
                         \/ call[d].row \in {r, None} /\ call'[d].row \in {r, None}
    BY <1>1
  <2> QED
    BY <2>1, <2>2, <2>3, <2>4, SoundKept
<1>4. Counted'
  <2>1. \A s \in Present' \ received' : s \notin received /\ row'[s].owner = row[s].owner
    OBVIOUS
  <2>2. \A d \in Calls : call'[d].op \in Creates =>
                           call[d].op \in Creates /\ call'[d].user = call[d].user
    BY <1>1
  <2> QED
    BY <1>2, <2>1, <2>2, NoMore DEF IInv
<1> QED
  BY <1>1, <1>2, <1>3, <1>4 DEF IInv, PoolMoves

\* What no operation does, but the pool, a look at it, or an agent's deletion.
LEMMA LookKeeps ==
  ASSUME IInv, UNCHANGED <<call, begun, received>>, PoolMoves(None), deleted' \subseteq Agents,
         row' \in [Rows -> RowStates], Present' = Present,
         \A r \in Present : /\ row'[r].owner = row[r].owner /\ row'[r].unit = row[r].unit
                            /\ r \notin odd' => row'[r].agent = row[r].agent
  PROVE  IInv'
<1>1. TypeOK' /\ CallsWhole' /\ UnitsApart'
  <2>1. TypeOK'
    BY Facts, TypeOKNext DEF PoolMoves
  <2> QED
    BY <2>1 DEF IInv, CallsWhole, UnitsApart
<1>2. RowsSound'
  <2>1. \A s \in (Present \ odd)' : s # None
    BY Facts
  <2>2. \A s \in (Present \ odd)' : s # None =>
          /\ s \in Present \ odd
          /\ row'[s].agent = row[s].agent /\ row'[s].unit = row[s].unit
          /\ unit'[row[s].unit].agent = unit[row[s].unit].agent
    BY OthersKept
  <2> QED
    BY <2>1, <2>2, SoundKept
<1>3. Counted'
  BY NoMore DEF IInv
<1> QED
  BY <1>1, <1>2, <1>3 DEF IInv, PoolMoves

\* The end of a creation: a unit that has a row keeps it, another gets one.
LEMMA RecordedKeeps ==
  ASSUME IInv, NEW c \in Calls, NEW u \in Units, u = call[c].unit, NEW a \in AgentIds,
         NEW r \in Rows, call[c].op \in Creates, Answer(c),
         RowsOfUnit(u) # {} => r \in RowsOfUnit(u),
         RowsOfUnit(u) = {} => r \notin Present /\ ~Overlaps(c, r),
         row' = [row EXCEPT ![r] = NewRow(c, a)],
         received' \subseteq Rows, received \ {r} \subseteq received', r \in Present =>
           received \subseteq received' /\ (row[r].owner # call[c].user => r \in received'),
         unit' \in [Units -> UnitStates], GoneIsFree',
         \A v \in Units \ {u} : unit'[v].agent = unit[v].agent,
         odd' \subseteq Rows, odd \subseteq odd',
         Overlaps(c, r) => r \in odd', r \notin odd' => unit'[u].agent = a
  PROVE  IInv'
<1> DEFINE new == NewRow(c, a)
<1>1. /\ call' \in [Calls -> CallStates] /\ CallsWhole' /\ call'[c] = NoCall
      /\ call'[c].row = None /\ call'[c].op \notin Creates
      /\ \A d \in Calls \ {c} : call'[d] = call[d]
      /\ begun' = begun /\ deleted' = deleted
  BY CallEnds
<1>2. /\ new \in RowType /\ new.owner = call[c].user /\ new.agent = a /\ new.unit = u
      /\ call[c].user \in Users /\ call[c].row = None
  <2>1. call[c].user \in Users /\ call[c].row = None
    BY Facts DEF Whole, Creates, Loads
  <2> QED
    BY <2>1 DEF NewRow, RowType, Statuses, AgentIds
<1> HIDE DEF new
<1>3. new # NoRow /\ new \in RowStates
  BY <1>2, RowFields DEF RowStates
<1>4. /\ row' \in [Rows -> RowStates] /\ row'[r] = new /\ \A s \in Rows \ {r} : row'[s] = row[s]
      /\ Present' = Present \cup {r} /\ Present \subseteq Rows
  <2>1. row \in [Rows -> RowStates] /\ Present \subseteq Rows
    BY Facts
  <2>2. row' \in [Rows -> RowStates] /\ row'[r] = new /\ \A s \in Rows \ {r} : row'[s] = row[s]
    BY <1>3, <2>1 DEF new
  <2> QED
    BY <1>3, <2>1, <2>2 DEF Present
<1>5. TypeOK'
  BY <1>1, <1>4, Facts, TypeOKNext
<1>6. \A s \in Present \ {r} : row[s].unit # u
  BY DEF IInv, UnitsApart, RowsOfUnit
<1>7. UnitsApart'
  BY <1>2, <1>4, <1>6 DEF IInv, UnitsApart
<1>8. RowsSound'
  <2>1. \A s \in (Present \ odd)' : s # r =>
          /\ s \in Present \ odd
          /\ row'[s].agent = row[s].agent /\ row'[s].unit = row[s].unit
          /\ unit'[row[s].unit].agent = unit[row[s].unit].agent
    BY <1>4, <1>6, Facts, RowFields
  <2>2. ASSUME r \in (Present \ odd)'
        PROVE  RowSound(r)'
    <3>1. \A d \in Calls : call'[d].row # r
      BY <1>1, <2>2, Facts DEF Overlaps
    <3>2. Agrees(r)'
      BY <1>2, <1>4, <2>2 DEF Agrees
    <3> QED
      BY <3>1, <3>2, Settled
  <2>3. \A d \in Calls : \/ call'[d] = call[d]
                         \/ call[d].row \in {r, None} /\ call'[d].row \in {r, None}
    BY <1>1, <1>2
  <2> QED
    BY <2>1, <2>2, <2>3, SoundKept
<1>9. Counted'
  <2>1. \A s \in (Present' \ received') \ {r} : s \notin received /\ row'[s].owner = row[s].owner
    BY <1>4
  <2>2. Present' \subseteq Present \cup {r} /\ row'[r].owner = call[c].user
    BY <1>2, <1>4
  <2>3. PICK y \in Users : y = call[c].user
    BY <1>2
  <2> QED
    BY <1>1, <2>1, <2>2, <2>3, CreationCounted DEF IInv
<1> QED
  BY <1>1, <1>5, <1>7, <1>8, <1>9 DEF IInv

-----------------------------------------------------------------------------
(* The pool's answers *)

\* A unit that is claimed.
LEMMA ClaimedIs ==
  ASSUME IInv, NEW u \in Units, NEW a \in Agents, unit' = Claimed(u, a)
  PROVE  /\ unit' \in [Units -> UnitStates] /\ GoneIsFree'
         /\ \A v \in Units \ {u} : unit'[v].agent = unit[v].agent
         /\ unit' # unit \/ u \in Unassigned => unit'[u].agent = a
<1>1. unit \in [Units -> UnitStates] /\ GoneIsFree /\ a \in AgentIds
  BY Facts DEF IInv, AgentIds
<1>2. CASE u \in Unassigned
  <2>1. unit' = [unit EXCEPT ![u].agent = a] /\ unit[u].st = "up"
    BY <1>2 DEF Claimed, Unassigned
  <2> QED
    BY <1>1, <2>1 DEF GoneIsFree, UnitStates
<1>3. CASE u \notin Unassigned
  BY <1>1, <1>3 DEF Claimed, GoneIsFree
<1> QED
  BY <1>2, <1>3

\* A unit that is freed.
LEMMA FreedIs ==
  ASSUME IInv, NEW u \in Units, unit' = Freed(u)
  PROVE  /\ unit' \in [Units -> UnitStates] /\ GoneIsFree'
         /\ \A v \in Units \ {u} : unit'[v].agent = unit[v].agent
         /\ unit'[u].agent = None
<1>1. unit \in [Units -> UnitStates] /\ GoneIsFree
  BY Facts DEF IInv
<1>2. CASE unit[u].st = "up"
  BY <1>1, <1>2 DEF Freed, GoneIsFree, UnitStates, AgentIds
<1>3. CASE unit[u].st # "up"
  BY <1>1, <1>3 DEF Freed, GoneIsFree
<1> QED
  BY <1>2, <1>3

\* A unit that goes.
LEMMA GoneIs ==
  ASSUME IInv, NEW u \in Units, unit' = [unit EXCEPT ![u] = [st |-> "gone", agent |-> None]]
  PROVE  /\ unit' \in [Units -> UnitStates] /\ GoneIsFree'
         /\ \A v \in Units \ {u} : unit'[v].agent = unit[v].agent
<1>1. unit \in [Units -> UnitStates] /\ GoneIsFree
  BY Facts DEF IInv
<1> QED
  BY <1>1 DEF GoneIsFree, UnitStates, AgentIds

\* A unit that is started: for nobody it is nobody's as before.
LEMMA StartedIs ==
  ASSUME IInv, NEW u \in Units, NEW a \in AgentIds, Started(u, a)
  PROVE  /\ unit' \in [Units -> UnitStates] /\ GoneIsFree'
         /\ \A v \in Units \ {u} : unit'[v].agent = unit[v].agent
         /\ a = None => unit'[u].agent = unit[u].agent
<1>1. unit \in [Units -> UnitStates] /\ GoneIsFree
  BY Facts DEF IInv
<1>2. unit' = [unit EXCEPT ![u] = [st |-> "up", agent |-> IF a = None THEN @.agent ELSE a]]
  BY DEF Started
<1>3. unit[u].agent \in AgentIds
  BY <1>1 DEF UnitStates
<1> QED
  BY <1>1, <1>2, <1>3 DEF GoneIsFree, UnitStates

\* A pool that changes one unit, with its rows on record.
LEMMA OneMoves ==
  ASSUME IInv, NEW q, NEW u \in Units, unit' \in [Units -> UnitStates], GoneIsFree',
         \A v \in Units \ {u} : unit'[v].agent = unit[v].agent,
         odd \subseteq odd', odd' \subseteq Rows, RowsOfUnit(u) \ {q} \subseteq odd'
  PROVE  PoolMoves(q)
  BY DEF PoolMoves

\* A pool that changes nobody's unit.
LEMMA NobodyMoves ==
  ASSUME IInv, NEW q, unit' = unit, odd \subseteq odd', odd' \subseteq Rows
  PROVE  PoolMoves(q)
  BY Facts DEF PoolMoves, IInv, GoneIsFree

-----------------------------------------------------------------------------
(* Beginning *)

\* An operation for nobody in particular.
LEMMA Asking ==
  ASSUME NEW op, NEW at, NEW x
  PROVE  [NoCall EXCEPT !.op = op, !.at = at, !.user = x]
           = [NoCall EXCEPT !.op = op, !.at = at, !.user = x, !.agent = None]
<1>1. PICK k : k = [NoCall EXCEPT !.op = op, !.at = at, !.user = x]
  OBVIOUS
<1>2. PICK l : l = [NoCall EXCEPT !.op = op, !.at = at, !.user = x, !.agent = None]
  OBVIOUS
<1> DEFINE m == [op |-> op, at |-> at, user |-> x, agent |-> None, row |-> None, seen |-> NoRow,
                 unit |-> None]
<1>3. k = m
  BY <1>1 DEF NoCall
<1>4. l = m
  BY <1>2 DEF NoCall
<1> HIDE DEF m
<1> QED
  BY <1>1, <1>2, <1>3, <1>4

\* The same with a row.
LEMMA Loading ==
  ASSUME NEW op, NEW at, NEW r, NEW w, NEW x
  PROVE  [NoCall EXCEPT !.op = op, !.at = at, !.row = r, !.seen = w, !.user = x]
           = [NoCall EXCEPT !.op = op, !.at = at, !.row = r, !.seen = w, !.user = x,
                            !.agent = None]
<1>1. PICK k : k = [NoCall EXCEPT !.op = op, !.at = at, !.row = r, !.seen = w, !.user = x]
  OBVIOUS
<1>2. PICK l : l = [NoCall EXCEPT !.op = op, !.at = at, !.row = r, !.seen = w, !.user = x,
                                 !.agent = None]
  OBVIOUS
<1> DEFINE m == [op |-> op, at |-> at, user |-> x, agent |-> None, row |-> r, seen |-> w,
                 unit |-> None]
<1>3. k = m
  BY <1>1 DEF NoCall
<1>4. l = m
  BY <1>2 DEF NoCall
<1> HIDE DEF m
<1> QED
  BY <1>1, <1>2, <1>3, <1>4

\* An operation that loads a row.
LEMMA LoadKeeps ==
  ASSUME IInv, NEW c \in Calls, NEW r \in Rows, NEW op \in Loads, NEW at \in {"pool", "write"},
         NEW x \in Users \cup {None}, NEW a \in AgentIds, Load(c, op, at, r, x, a),
         op = "transfer" => x \in Users, op = "assign" => a \in Agents,
         at = "write" => op \notin ToldOps
  PROVE  IInv'
<1>1. PICK k : k = [NoCall EXCEPT !.op = op, !.at = at, !.row = r, !.seen = row[r],
                                  !.user = x, !.agent = a]
  OBVIOUS
<1>2. r \in Present /\ Begin(c, k)
  BY <1>1 DEF Load
<1>3. /\ k.op = op /\ k.at = at /\ k.row = r /\ k.seen = row[r] /\ k.user = x /\ k.agent = a
      /\ k = [op |-> op, at |-> at, user |-> x, agent |-> a, row |-> r, seen |-> row[r],
              unit |-> None]
  BY <1>1 DEF NoCall
<1>4. row[r] \in RowType /\ row[r] \in RowStates
  BY <1>2, Facts DEF RowStates
<1>5. k \in CallStates
  BY <1>3, <1>4 DEF CallStates, CallOps
<1>6. Whole(k)
  BY <1>3, <1>4 DEF Whole, Loads, Creates, ToldOps
<1>7. op \notin Creates
  BY DEF Loads, Creates
<1> QED
  BY <1>2, <1>3, <1>5, <1>6, <1>7, BeginKeeps

\* A creation is admitted, and asks the pool.
LEMMA AskKeeps ==
  ASSUME IInv, NEW c \in Calls, NEW op \in Creates, NEW x \in Users, NEW a \in AgentIds,
         MayCreate(x), op = "acquire" => a \in Agents,
         Begin(c, [NoCall EXCEPT !.op = op, !.at = "pool", !.user = x, !.agent = a])
  PROVE  IInv'
<1>1. PICK k : k = [NoCall EXCEPT !.op = op, !.at = "pool", !.user = x, !.agent = a]
  OBVIOUS
<1>2. k = [op |-> op, at |-> "pool", user |-> x, agent |-> a, row |-> None, seen |-> NoRow,
           unit |-> None]
  BY <1>1 DEF NoCall
<1>3. k \in CallStates
  BY <1>2 DEF CallStates, CallOps, RowStates
<1>4. Whole(k) /\ None \notin Rows
  BY <1>2, SandboxesAssumption DEF Whole, Loads, Creates
<1> QED
  BY <1>1, <1>2, <1>3, <1>4, BeginKeeps

\* Every operation that begins.
LEMMA BeginsKeep ==
  ASSUME IInv, NEW c \in Calls, NEW r, NEW x, NEW y, NEW a,
         \/ x \in Users /\ CreateBegin(c, x)
         \/ a \in Agents /\ (AcquireBegin(c, a) \/ ReleaseBegin(c, a))
         \/ x \in Users /\ r \in Rows /\ (UnassignBegin(c, x, r) \/ DestroyBegin(c, x, r))
         \/ x \in Users /\ r \in Rows /\ a \in Agents /\ AssignBegin(c, x, r, a)
         \/ x \in Users /\ r \in Rows /\ y \in Users /\ TransferBegin(c, x, r, y)
         \/ r \in Rows /\ (RestartBegin(c, r) \/ StaleBegin(c, r))
  PROVE  IInv'
<1> a \in Agents => a \in AgentIds
  BY DEF AgentIds
<1> None \in AgentIds
  BY DEF AgentIds
<1>1. CASE x \in Users /\ CreateBegin(c, x)
  <2>2. MayCreate(x) /\ "create" \in Creates /\
        Begin(c, [NoCall EXCEPT !.op = "create", !.at = "pool", !.user = x, !.agent = None])
    BY <1>1, Asking DEF CreateBegin, Creates
  <2> QED
    BY <1>1, <2>2, AskKeeps
<1>2. CASE a \in Agents /\ AcquireBegin(c, a)
  <2>1. PICK z \in Users : z = OwnerOf[a]
    BY <1>2, SandboxesAssumption
  <2>2. MayCreate(z) /\ "acquire" \in Creates /\
        Begin(c, [NoCall EXCEPT !.op = "acquire", !.at = "pool", !.user = z, !.agent = a])
    BY <1>2, <2>1 DEF AcquireBegin, Creates
  <2> QED
    BY <1>2, <2>2, AskKeeps
<1>3. CASE a \in Agents /\ ReleaseBegin(c, a)
  <2>1. PICK s \in RowsOfAgent(a) : Load(c, "release", "pool", s, None, a)
    BY <1>3 DEF ReleaseBegin
  <2>2. s \in Rows /\ "release" \in Loads
    BY <2>1, Facts DEF RowsOfAgent, Loads
  <2> QED
    BY <1>3, <2>1, <2>2, LoadKeeps
<1>4. CASE x \in Users /\ r \in Rows /\ UnassignBegin(c, x, r)
  <2>1. "unassign" \in Loads /\ "unassign" \notin ToldOps
    BY DEF Loads, ToldOps
  <2> QED
    BY <1>4, <2>1, LoadKeeps DEF UnassignBegin
<1>5. CASE x \in Users /\ r \in Rows /\ DestroyBegin(c, x, r)
  <2>1. "destroy" \in Loads
    BY DEF Loads
  <2> QED
    BY <1>5, <2>1, LoadKeeps DEF DestroyBegin
<1>6. CASE x \in Users /\ r \in Rows /\ a \in Agents /\ AssignBegin(c, x, r, a)
  <2>1. "assign" \in Loads /\ "assign" \notin ToldOps
    BY DEF Loads, ToldOps
  <2> QED
    BY <1>6, <2>1, LoadKeeps DEF AssignBegin
<1>7. CASE r \in Rows /\ y \in Users /\ TransferBegin(c, x, r, y)
  <2>1. "transfer" \in Loads /\ "transfer" \notin ToldOps
    BY DEF Loads, ToldOps
  <2>3. Load(c, "transfer", "write", r, y, None)
    BY <1>7, Loading DEF TransferBegin, Load
  <2> QED
    BY <1>7, <2>1, <2>3, LoadKeeps
<1>8. CASE r \in Rows /\ RestartBegin(c, r)
  <2>1. "restart" \in Loads
    BY DEF Loads
  <2> QED
    BY <1>8, <2>1, LoadKeeps DEF RestartBegin
<1>9. CASE r \in Rows /\ StaleBegin(c, r)
  <2>1. "stale" \in Loads
    BY DEF Loads
  <2> QED
    BY <1>9, <2>1, LoadKeeps DEF StaleBegin
<1> QED
  BY <1>1, <1>2, <1>3, <1>4, <1>5, <1>6, <1>7, <1>8, <1>9

-----------------------------------------------------------------------------
(* Creating *)

\* The pool has provided a unit.
LEMMA ProvisionKeeps ==
  ASSUME IInv, NEW c \in Calls, Provision(c)
  PROVE  IInv'
<1>1. PICK u \in Offered(None) :
        /\ Started(u, None)
        /\ (Goes(c, u) /\ UNCHANGED <<begun, deleted>>) \/ Answer(c)
  BY DEF Provision
<1>2. /\ u \in Units /\ None \in AgentIds /\ call[c].op \in Creates /\ call[c].at = "pool"
      /\ UNCHANGED <<row, received, odd>>
  BY <1>1 DEF Offered, AgentIds, Provision, Creates, history
<1>3. /\ unit' \in [Units -> UnitStates] /\ GoneIsFree'
      /\ \A v \in Units : unit'[v].agent = unit[v].agent
  BY <1>1, <1>2, StartedIs
<1>4. PoolMoves(None)
  BY <1>2, <1>3, Facts DEF PoolMoves
<1>5. /\ call[c] \in CallStates /\ Whole(call[c]) /\ call[c].row = None /\ None \notin Rows
  BY <1>2, Facts DEF Whole, Creates, Loads
<1>6. CASE Answer(c)
  BY <1>2, <1>4, <1>5, <1>6, EndKeeps
<1>7. CASE Goes(c, u) /\ UNCHANGED <<begun, deleted>>
  <2> DEFINE k == [call[c] EXCEPT !.at = "write", !.unit = u]
  <2>1. /\ k \in CallStates /\ k.op = call[c].op /\ k.row = None /\ k.seen = call[c].seen
        /\ k.at = "write" /\ k.user = call[c].user /\ k.unit = u /\ k.agent = call[c].agent
    BY <1>2, <1>5 DEF CallStates
  <2>2. call' = [call EXCEPT ![c] = k]
    BY <1>7 DEF Goes
  <2> HIDE DEF k
  <2>3. Whole(k)
    BY <1>2, <1>5, <2>1 DEF Whole, Creates, Loads
  <2>4. /\ call' \in [Calls -> CallStates] /\ CallsWhole' /\ call'[c] = k
        /\ \A d \in Calls \ {c} : call'[d] = call[d]
    BY <2>1, <2>2, <2>3, CallMoves
  <2>5. TypeOK' /\ UnitsApart' /\ Present' = Present
    <3>1. TypeOK'
      BY <1>2, <1>3, <1>7, <2>4, Facts, TypeOKNext
    <3> QED
      BY <1>2, <3>1 DEF IInv, UnitsApart, Present
  <2>6. RowsSound'
    <3>1. \A s \in (Present \ odd)' : s # None =>
            /\ s \in Present \ odd
            /\ row'[s].agent = row[s].agent /\ row'[s].unit = row[s].unit
            /\ unit'[row[s].unit].agent = unit[row[s].unit].agent
      BY <1>2, <1>4, <2>5, OthersKept
    <3>2. \A d \in Calls : \/ call'[d] = call[d]
                           \/ call[d].row \in {None} /\ call'[d].row \in {None}
      BY <1>5, <2>1, <2>4
    <3>3. None \notin (Present \ odd)'
      BY <1>5, <2>5, Facts
    <3> QED
      BY <3>1, <3>2, <3>3, SoundKept
  <2>7. Counted'
    <3>1. \A s \in Present' \ received' : s \notin received /\ row'[s].owner = row[s].owner
      BY <1>2
    <3>2. \A d \in Calls : call'[d].op \in Creates =>
                             call[d].op \in Creates /\ call'[d].user = call[d].user
      BY <1>2, <2>1, <2>4
    <3> QED
      BY <2>5, <3>1, <3>2, NoMore DEF IInv
  <2> QED
    BY <1>3, <2>4, <2>5, <2>6, <2>7 DEF IInv
<1> QED
  BY <1>1, <1>6, <1>7

\* The creation of a row without an agent.
LEMMA CreateDoneKeeps ==
  ASSUME IInv, NEW c \in Calls, CreateDone(c)
  PROVE  IInv'
<1>1. call[c].op \in Creates /\ call[c].at = "write" /\ Answer(c) /\ unit' = unit
  BY DEF CreateDone, Creates
<1>2. PICK u \in Units : u = call[c].unit
  BY <1>1, Facts DEF Whole
<1> DEFINE taken == RowsOfUnit(u)
<1>3. PICK r \in IF taken # {} THEN taken ELSE {r \in Rows \ Present : ~Overlaps(c, r)} :
        /\ row' = [row EXCEPT ![r] = NewRow(c, None)]
        /\ received' = IF r \in taken /\ row[r].owner # call[c].user THEN received \cup {r}
                       ELSE IF r \in taken THEN received ELSE received \ {r}
        /\ odd' = IF u \notin Unassigned \/ Overlaps(c, r) THEN odd \cup {r} ELSE odd
  BY <1>2 DEF CreateDone, Recorded, Blame
<1>4. /\ taken # {} => r \in taken
      /\ taken = {} => r \notin Present /\ ~Overlaps(c, r)
      /\ taken \subseteq Present /\ r \in Rows /\ (r \in Present => r \in taken)
  BY <1>3, Facts DEF RowsOfUnit
<1>5. /\ received' \subseteq Rows /\ received \ {r} \subseteq received'
      /\ r \in Present => /\ received \subseteq received'
                          /\ row[r].owner # call[c].user => r \in received'
      /\ odd' \subseteq Rows /\ odd \subseteq odd' /\ (Overlaps(c, r) => r \in odd')
  BY <1>3, <1>4, Facts
<1>6. /\ unit' \in [Units -> UnitStates] /\ GoneIsFree' /\ None \in AgentIds
      /\ r \notin odd' => unit'[u].agent = None
  BY <1>1, <1>3, Facts DEF IInv, GoneIsFree, AgentIds, Unassigned
<1> QED
  BY <1>1, <1>2, <1>3, <1>4, <1>5, <1>6, RecordedKeeps

\* The creation of a row for an agent, whose claim of the unit may have failed.
LEMMA AcquireDoneKeeps ==
  ASSUME IInv, NEW c \in Calls, AcquireDone(c)
  PROVE  IInv'
<1>1. call[c].op \in Creates /\ call[c].op = "acquire" /\ call[c].at = "write" /\ Answer(c)
  BY DEF AcquireDone, Creates
<1>2. PICK u \in Units : u = call[c].unit
  BY <1>1, Facts DEF Whole
<1>3. PICK a \in Agents : a = call[c].agent
  BY <1>1, Facts DEF Whole
<1> DEFINE taken == RowsOfUnit(u)
<1>4. PICK failed \in BOOLEAN :
        /\ \E r \in IF taken # {} THEN taken ELSE {r \in Rows \ Present : ~Overlaps(c, r)} :
             /\ row' = [row EXCEPT ![r] = NewRow(c, a)]
             /\ received' = IF r \in taken /\ row[r].owner # call[c].user THEN received \cup {r}
                            ELSE IF r \in taken THEN received ELSE received \ {r}
             /\ odd' = IF failed \/ u \notin Unassigned \/ Overlaps(c, r) THEN odd \cup {r}
                       ELSE odd
        /\ unit' = IF failed THEN unit ELSE Claimed(u, a)
  BY <1>2, <1>3 DEF AcquireDone, Recorded, Blame
<1>5. PICK r \in IF taken # {} THEN taken ELSE {r \in Rows \ Present : ~Overlaps(c, r)} :
        /\ row' = [row EXCEPT ![r] = NewRow(c, a)]
        /\ received' = IF r \in taken /\ row[r].owner # call[c].user THEN received \cup {r}
                       ELSE IF r \in taken THEN received ELSE received \ {r}
        /\ odd' = IF failed \/ u \notin Unassigned \/ Overlaps(c, r) THEN odd \cup {r} ELSE odd
  BY <1>4
<1>6. /\ taken # {} => r \in taken
      /\ taken = {} => r \notin Present /\ ~Overlaps(c, r)
      /\ taken \subseteq Present /\ r \in Rows /\ (r \in Present => r \in taken)
  BY <1>5, Facts DEF RowsOfUnit
<1>7. /\ received' \subseteq Rows /\ received \ {r} \subseteq received'
      /\ r \in Present => /\ received \subseteq received'
                          /\ row[r].owner # call[c].user => r \in received'
      /\ odd' \subseteq Rows /\ odd \subseteq odd' /\ (Overlaps(c, r) => r \in odd')
  BY <1>5, <1>6, Facts
<1>8. /\ unit' \in [Units -> UnitStates] /\ GoneIsFree' /\ a \in AgentIds
      /\ \A v \in Units \ {u} : unit'[v].agent = unit[v].agent
      /\ r \notin odd' => unit'[u].agent = a
  <2>1. CASE failed
    BY <1>4, <1>5, <2>1, Facts DEF IInv, GoneIsFree, AgentIds
  <2>2. CASE ~failed
    <3>1. unit' = Claimed(u, a)
      BY <1>4, <2>2
    <3>2. r \notin odd' => u \in Unassigned
      BY <1>5
    <3> QED
      BY <3>1, <3>2, ClaimedIs DEF AgentIds
  <2> QED
    BY <2>1, <2>2
<1> QED
  BY <1>1, <1>2, <1>5, <1>6, <1>7, <1>8, RecordedKeeps

\* A creation that is rolled back.
LEMMA RolledBackKeeps ==
  ASSUME IInv, NEW c \in Calls, AcquireRolledBack(c)
  PROVE  IInv'
<1>1. /\ call[c].op = "acquire" /\ call[c].at = "write" /\ Answer(c) /\ UNCHANGED <<row, received>>
      /\ unit' = unit \/ unit' = Claimed(call[c].unit, call[c].agent)
      /\ odd' = odd \cup IF unit' = unit THEN {} ELSE RowsOfUnit(call[c].unit)
  BY DEF AcquireRolledBack
<1>2. PICK u \in Units : u = call[c].unit
  BY <1>1, Facts DEF Whole, Creates
<1>3. PICK a \in Agents : a = call[c].agent
  BY <1>1, Facts DEF Whole
<1>4. call[c].row = None /\ None \notin Rows /\ odd \subseteq odd' /\ odd' \subseteq Rows
  BY <1>1, Facts DEF Whole, Loads, RowsOfUnit
<1>5. PoolMoves(None)
  <2>1. CASE unit' = unit
    BY <1>4, <2>1, NobodyMoves
  <2>2. CASE unit' # unit
    <3>1. unit' = Claimed(u, a) /\ RowsOfUnit(u) \subseteq odd'
      BY <1>1, <1>2, <1>3, <2>2
    <3> QED
      BY <1>4, <3>1, ClaimedIs, OneMoves
  <2> QED
    BY <2>1, <2>2
<1> QED
  BY <1>1, <1>4, <1>5, EndKeeps

-----------------------------------------------------------------------------
(* Assigning *)

\* What an operation on a row has in hand.
LEMMA InHand ==
  ASSUME IInv, NEW c \in Calls, call[c].op \in Loads
  PROVE  /\ call[c].row \in Rows /\ call[c].row # None /\ call[c].seen \in RowType
         /\ call[c].seen.unit \in Units /\ call[c].seen.agent \in AgentIds
         /\ Others(c) = RowsOfUnit(call[c].seen.unit) \ {call[c].row} /\ Others(c) \subseteq Rows
  BY Facts, RowFields DEF Whole, Others, RowsOfUnit

\* An assignment.
LEMMA AssignDoneKeeps ==
  ASSUME IInv, NEW c \in Calls, AssignDone(c)
  PROVE  IInv'
<1>1. call[c].op = "assign" /\ call[c].op \in Loads /\ Answer(c) /\ received' = received
  BY DEF AssignDone, Loads
<1>2. PICK a \in Agents : a = call[c].agent
  BY <1>1, Facts DEF Whole
<1>3. PICK r \in Rows : r = call[c].row
  BY <1>1, InHand
<1>4. PICK u \in Units : u = call[c].seen.unit
  BY <1>1, InHand
<1>5. PICK new : new = [call[c].seen EXCEPT !.agent = a, !.status = "assigned"]
  OBVIOUS
<1>6. /\ new \in RowType /\ new.agent = a /\ new.unit = u /\ new.owner = call[c].seen.owner
  BY <1>1, <1>4, <1>5, InHand DEF RowType, AgentIds, Statuses
<1>7. /\ Update(c, new) /\ unit' \in {unit, Claimed(u, a)} /\ odd' = odd \cup Others(c) \cup
           IF unit' = unit \/ Overlaps(c, r) THEN {r} ELSE {}
  BY <1>2, <1>3, <1>4, <1>5 DEF AssignDone, Blamed
<1>8. /\ odd \subseteq odd' /\ odd' \subseteq Rows /\ RowsOfUnit(u) \ {r} \subseteq odd'
      /\ Overlaps(c, r) => r \in odd'
  BY <1>1, <1>3, <1>4, <1>7, Facts, InHand
<1>9. PoolMoves(r) /\ (r \notin odd' => unit'[u].agent = a)
  <2>1. CASE unit' = unit
    BY <1>7, <1>8, <2>1, NobodyMoves
  <2>2. CASE unit' # unit
    BY <1>7, <1>8, <2>2, ClaimedIs, OneMoves
  <2> QED
    BY <2>1, <2>2
<1> QED
  BY <1>1, <1>3, <1>6, <1>7, <1>8, <1>9, WriteKeeps

\* A release through the API.
LEMMA UnassignDoneKeeps ==
  ASSUME IInv, NEW c \in Calls, UnassignDone(c)
  PROVE  IInv'
<1>1. call[c].op = "unassign" /\ call[c].op \in Loads /\ Answer(c) /\ received' = received
  BY DEF UnassignDone, Loads
<1>3. PICK r \in Rows : r = call[c].row
  BY <1>1, InHand
<1>4. PICK u \in Units : u = call[c].seen.unit
  BY <1>1, InHand
<1>5. PICK new : new = [call[c].seen EXCEPT !.agent = None, !.status = "ready", !.released = TRUE]
  OBVIOUS
<1>6. /\ new \in RowType /\ new.agent = None /\ new.unit = u /\ new.owner = call[c].seen.owner
  BY <1>1, <1>4, <1>5, InHand DEF RowType, AgentIds, Statuses
<1>7. /\ Update(c, new)
      /\ \/ unit' = Freed(u) /\ odd' = odd \cup Others(c) \cup IF Overlaps(c, r) THEN {r} ELSE {}
         \/ unit' = unit /\ odd' = odd \cup Others(c) \cup {r}
  BY <1>3, <1>4, <1>5 DEF UnassignDone, Blamed
<1>8. /\ odd \subseteq odd' /\ odd' \subseteq Rows /\ RowsOfUnit(u) \ {r} \subseteq odd'
      /\ Overlaps(c, r) => r \in odd'
  BY <1>1, <1>3, <1>4, <1>7, Facts, InHand
<1>9. PoolMoves(r) /\ (r \notin odd' => unit'[u].agent = None)
  <2>1. CASE unit' = unit /\ r \in odd'
    BY <1>7, <1>8, <2>1, NobodyMoves
  <2>2. CASE unit' = Freed(u)
    BY <1>7, <1>8, <2>2, FreedIs, OneMoves
  <2> QED
    BY <1>7, <2>1, <2>2
<1> QED
  BY <1>1, <1>3, <1>6, <1>7, <1>8, <1>9, WriteKeeps

\* A transfer.
LEMMA TransferDoneKeeps ==
  ASSUME IInv, NEW c \in Calls, TransferDone(c)
  PROVE  IInv'
<1>1. call[c].op = "transfer" /\ call[c].op \in Loads /\ Answer(c) /\ unit' = unit
  BY DEF TransferDone, Loads
<1>2. PICK y \in Users : y = call[c].user
  BY <1>1, Facts DEF Whole
<1>3. PICK r \in Rows : r = call[c].row
  BY <1>1, InHand
<1> DEFINE old == call[c].seen
           kept == [old EXCEPT !.owner = y]
<1>5. PICK new : new = IF old.agent = None THEN kept
                       ELSE [kept EXCEPT !.agent = None, !.status = "ready", !.released = TRUE]
  OBVIOUS
<1>6. /\ new \in RowType /\ new.unit = old.unit /\ (old.agent = None => new.agent = None)
  BY <1>1, <1>5, InHand DEF RowType, AgentIds, Statuses
<1>7. /\ Update(c, new) /\ received' = received \cup {r}
      /\ odd' = IF Overlaps(c, r) \/ old.agent # None THEN odd \cup {r} ELSE odd
  BY <1>2, <1>3, <1>5 DEF TransferDone, Blame
<1>8. /\ odd \subseteq odd' /\ odd' \subseteq Rows /\ (Overlaps(c, r) => r \in odd')
      /\ r \in Present
  BY <1>3, <1>7, Facts DEF Update
<1>9. r \notin odd' => unit'[new.unit].agent = new.agent
  <2> SUFFICES ASSUME r \notin odd'
               PROVE  unit'[new.unit].agent = new.agent
    OBVIOUS
  <2>1. RowSound(r) /\ ~Overlaps(c, r) /\ old.agent = None
    BY <1>7, <1>8 DEF IInv, RowsSound
  <2>2. \A d \in Calls : ~Told(d, r)
    BY <1>1, <2>1 DEF Told, ToldOps, Overlaps
  <2>3. row[r].unit = old.unit /\ row[r].agent = None /\ unit[row[r].unit].agent = None
    BY <1>3, <2>1, <2>2 DEF RowSound, SeenAsItIs, Agrees
  <2> QED
    BY <1>1, <1>6, <2>1, <2>3
<1>10. PoolMoves(r)
  BY <1>1, <1>8, NobodyMoves
<1> QED
  BY <1>1, <1>3, <1>6, <1>7, <1>8, <1>9, <1>10, WriteKeeps

\* A release in a wake cycle.
LEMMA ReleaseDoneKeeps ==
  ASSUME IInv, NEW c \in Calls, ReleaseDone(c)
  PROVE  IInv'
<1>1. /\ call[c].op = "release" /\ call[c].at = "write" /\ call[c].op \in Loads /\ Answer(c)
      /\ unit' = unit /\ received' = received
  BY DEF ReleaseDone, Loads
<1>3. PICK r \in Rows : r = call[c].row
  BY <1>1, InHand
<1> DEFINE old == call[c].seen
<1>5. PICK new : new = [old EXCEPT !.agent = None, !.status = "idle", !.released = TRUE]
  OBVIOUS
<1>6. /\ new \in RowType /\ new.unit = old.unit /\ new.agent = None /\ new.owner = old.owner
  BY <1>1, <1>5, InHand DEF RowType, AgentIds, Statuses
<1>7. /\ Update(c, new)
      /\ odd' = IF Overlaps(c, r) THEN odd \cup {r} ELSE odd
  BY <1>3, <1>5 DEF ReleaseDone, Blame
<1>8. /\ odd \subseteq odd' /\ odd' \subseteq Rows /\ (Overlaps(c, r) => r \in odd')
      /\ r \in Present
  BY <1>3, <1>7, Facts DEF Update
<1>9. r \notin odd' => unit'[new.unit].agent = new.agent
  <2> SUFFICES ASSUME r \notin odd'
               PROVE  unit'[new.unit].agent = new.agent
    OBVIOUS
  <2>1. RowSound(r) /\ ~Overlaps(c, r)
    BY <1>7, <1>8 DEF IInv, RowsSound
  <2>2. Told(c, r) /\ \A d \in Calls \ {c} : ~Told(d, r)
    BY <1>1, <1>3, <2>1 DEF Told, ToldOps, Overlaps
  <2>3. row[r].unit = old.unit /\ unit[row[r].unit].agent = None
    BY <1>1, <1>3, <2>1, <2>2 DEF RowSound, SeenAsItIs, ReleasedIsFree
  <2> QED
    BY <1>1, <1>6, <2>3
<1>10. PoolMoves(r)
  BY <1>1, <1>8, NobodyMoves
<1> QED
  BY <1>1, <1>3, <1>6, <1>7, <1>8, <1>9, <1>10, WriteKeeps

\* A restart, of the unit or with another.
LEMMA RestartDoneKeeps ==
  ASSUME IInv, NEW c \in Calls, RestartDone(c)
  PROVE  IInv'
<1>1. /\ call[c].op = "restart" /\ call[c].at = "write" /\ call[c].op \in Loads /\ Answer(c)
      /\ unit' = unit /\ received' = received
  BY DEF RestartDone, Loads
<1>2. PICK u \in Units : u = call[c].unit
  BY <1>1, Facts DEF Whole
<1>3. PICK r \in Rows : r = call[c].row
  BY <1>1, InHand
<1> DEFINE old == call[c].seen
<1>5. PICK new : new = [old EXCEPT !.unit = u, !.status = "ready",
                                   !.released = IF u = old.unit THEN @ ELSE FALSE]
  OBVIOUS
<1>6. /\ new \in RowType /\ new.unit = u /\ new.agent = old.agent /\ new.owner = old.owner
  BY <1>1, <1>5, InHand DEF RowType, Statuses
<1>7. /\ Update(c, new)
      /\ odd' = IF Overlaps(c, r) \/ unit[u].agent # old.agent THEN odd \cup {r} ELSE odd
  BY <1>2, <1>3, <1>5 DEF RestartDone, Blame
<1>8. /\ odd \subseteq odd' /\ odd' \subseteq Rows /\ (Overlaps(c, r) => r \in odd')
      /\ r \notin odd' => unit'[new.unit].agent = new.agent
  BY <1>1, <1>3, <1>6, <1>7, Facts
<1>9. PoolMoves(r)
  BY <1>1, <1>8, NobodyMoves
<1> QED
  BY <1>1, <1>3, <1>6, <1>7, <1>8, <1>9, WriteKeeps

\* A failure of the database.
LEMMA FailsKeeps ==
  ASSUME IInv, NEW c \in Calls, Fails(c)
  PROVE  IInv'
<1>1. /\ call[c].at = "write" /\ Answer(c) /\ UNCHANGED <<row, received>>
      /\ odd' = odd \cup IF call[c].op = "create" THEN {} ELSE Others(c) \cup {call[c].row}
      /\ \/ unit' = unit
         \/ call[c].op = "assign" /\ unit' = Claimed(call[c].seen.unit, call[c].agent)
         \/ call[c].op = "unassign" /\ unit' = Freed(call[c].seen.unit)
  BY DEF Fails
<1>2. call[c].op = "create" \/ call[c].op \in Loads
  BY <1>1, Facts DEF Fails, Whole, CallOps, Creates
<1>3. CASE call[c].op = "create"
  <2>1. unit' = unit /\ odd' = odd /\ call[c].row = None /\ None \notin Rows
    BY <1>1, <1>3, Facts DEF Whole, Loads
  <2>2. PoolMoves(None)
    BY <2>1, Facts, NobodyMoves
  <2> QED
    BY <1>1, <2>1, <2>2, EndKeeps
<1>4. CASE call[c].op \in Loads
  <2>1. PICK r \in Rows : r = call[c].row
    BY <1>4, InHand
  <2>2. PICK u \in Units : u = call[c].seen.unit
    BY <1>4, InHand
  <2>3. odd' = odd \cup Others(c) \cup {r}
    BY <1>1, <1>4, <2>1 DEF Loads
  <2>4. odd \subseteq odd' /\ odd' \subseteq Rows /\ r \in odd' /\ RowsOfUnit(u) \subseteq odd'
    BY <1>4, <2>1, <2>2, <2>3, InHand, Facts
  <2>5. PoolMoves(None)
    <3>1. CASE unit' = unit
      BY <2>4, <3>1, NobodyMoves
    <3>2. CASE call[c].op = "assign" /\ unit' = Claimed(call[c].seen.unit, call[c].agent)
      <4>1. PICK a \in Agents : a = call[c].agent
        BY <3>2, Facts DEF Whole
      <4>2. unit' = Claimed(u, a)
        BY <2>2, <3>2, <4>1
      <4> QED
        BY <2>4, <4>2, ClaimedIs, OneMoves
    <3>3. CASE unit' = Freed(call[c].seen.unit)
      <4>1. unit' = Freed(u)
        BY <2>2, <3>3
      <4> QED
        BY <2>4, <4>1, FreedIs, OneMoves
    <3> QED
      BY <1>1, <3>1, <3>2, <3>3
  <2> QED
    BY <1>1, <2>1, <2>4, <2>5, EndKeeps
<1> QED
  BY <1>2, <1>3, <1>4

-----------------------------------------------------------------------------
(* Telling the pool, and destroying *)

\* A release tells the pool, which may not hear it.
LEMMA ReleaseCallKeeps ==
  ASSUME IInv, NEW c \in Calls, ReleaseCall(c)
  PROVE  IInv'
<1>1. /\ call[c].op = "release" /\ call[c].op \in Loads /\ call[c].op \in ToldOps
      /\ Goes(c, call[c].unit) /\ UNCHANGED <<row, begun, deleted, received>>
      /\ \/ unit' = Freed(call[c].seen.unit) /\ odd' = odd \cup Others(c)
         \/ unit' = unit /\ odd' = odd \cup {call[c].row}
  BY DEF ReleaseCall, Blame, Loads, ToldOps
<1>2. PICK r \in Rows : r = call[c].row
  BY <1>1, InHand
<1>3. PICK u \in Units : u = call[c].seen.unit
  BY <1>1, InHand
<1>4. PICK v \in Units \cup {None} : v = call[c].unit
  BY Facts DEF CallStates
<1>5. PoolMoves(r) /\ (r \notin odd' => unit'[u].agent = None)
  <2>1. CASE unit' = Freed(call[c].seen.unit) /\ odd' = odd \cup Others(c)
    <3>1. unit' = Freed(u) /\ odd' = odd \cup (RowsOfUnit(u) \ {r}) /\ odd' \subseteq Rows
      BY <1>1, <1>2, <1>3, <2>1, InHand, Facts
    <3>2. odd \subseteq odd' /\ RowsOfUnit(u) \ {r} \subseteq odd'
      BY <3>1
    <3> QED
      BY <3>1, <3>2, FreedIs, OneMoves
  <2>2. CASE unit' = unit /\ odd' = odd \cup {call[c].row}
    <3>1. odd \subseteq odd' /\ odd' \subseteq Rows /\ r \in odd'
      BY <1>2, <2>2, Facts
    <3> QED
      BY <2>2, <3>1, NobodyMoves
  <2> QED
    BY <1>1, <2>1, <2>2
<1>6. Goes(c, v)
  BY <1>1, <1>4
<1> QED
  BY <1>1, <1>2, <1>3, <1>5, <1>6, ToldKeeps

\* A restart tells the pool, with a new unit if need be, or ends.
LEMMA RestartCallKeeps ==
  ASSUME IInv, NEW c \in Calls, RestartCall(c)
  PROVE  IInv'
<1>1. /\ call[c].op = "restart" /\ call[c].op \in Loads /\ call[c].op \in ToldOps
      /\ call[c].at = "pool" /\ UNCHANGED <<row, begun, deleted, received>>
  BY DEF RestartCall, Loads, ToldOps
<1>2. PICK r \in Rows : r = call[c].row
  BY <1>1, InHand
<1>3. PICK u \in Units : u = call[c].seen.unit
  BY <1>1, InHand
<1>4. PICK a \in AgentIds : a = call[c].seen.agent
  BY <1>1, InHand
<1>5. \/ UNCHANGED <<unit, odd>> /\ Goes(c, u)
      \/ \E v \in Offered(a) :
           Started(v, a) /\ odd' = odd \cup (RowsOfUnit(v) \ {r}) /\ Goes(c, v)
      \/ UNCHANGED <<unit, odd>> /\ call' = [call EXCEPT ![c] = NoCall]
  BY <1>2, <1>3, <1>4 DEF RestartCall
<1>6. CASE UNCHANGED <<unit, odd>> /\ Goes(c, u)
  <2>1. PoolMoves(r)
    BY <1>6, Facts, NobodyMoves
  <2> QED
    BY <1>1, <1>2, <1>6, <2>1, ToldKeeps
<1>7. CASE \E v \in Offered(a) :
             Started(v, a) /\ odd' = odd \cup (RowsOfUnit(v) \ {r}) /\ Goes(c, v)
  <2>1. PICK v \in Offered(a) :
             Started(v, a) /\ odd' = odd \cup (RowsOfUnit(v) \ {r}) /\ Goes(c, v)
    BY <1>7
  <2>2. v \in Units
    BY DEF Offered
  <2>3. odd \subseteq odd' /\ odd' \subseteq Rows /\ RowsOfUnit(v) \ {r} \subseteq odd'
    BY <2>1, Facts DEF RowsOfUnit
  <2>4. PoolMoves(r)
    BY <2>1, <2>2, <2>3, StartedIs, OneMoves
  <2> QED
    BY <1>1, <1>2, <2>1, <2>2, <2>4, ToldKeeps
<1>8. CASE UNCHANGED <<unit, odd>> /\ call' = [call EXCEPT ![c] = NoCall]
  <2>1. Answer(c) /\ ~Told(c, r)
    BY <1>1, <1>8 DEF Answer, Told
  <2>2. PoolMoves(None)
    BY <1>8, Facts, NobodyMoves
  <2> QED
    BY <1>1, <1>2, <2>1, <2>2, EndKeeps
<1> QED
  BY <1>5, <1>6, <1>7, <1>8

\* A destruction tells the pool, which may not hear it.
LEMMA DestroyCallKeeps ==
  ASSUME IInv, NEW c \in Calls, DestroyCall(c)
  PROVE  IInv'
<1>1. /\ call[c].op \in {"destroy", "stale"} /\ call[c].op \in Loads /\ call[c].op \in ToldOps
      /\ Goes(c, call[c].unit) /\ UNCHANGED <<row, begun, deleted, received>>
      /\ odd' = odd \cup Others(c)
  BY DEF DestroyCall, Loads, ToldOps
<1>2. PICK r \in Rows : r = call[c].row
  BY <1>1, InHand
<1>3. PICK u \in Units : u = call[c].seen.unit
  BY <1>1, InHand
<1>4. PICK v \in Units \cup {None} : v = call[c].unit
  BY Facts DEF CallStates
<1>5. odd \subseteq odd' /\ odd' \subseteq Rows /\ RowsOfUnit(u) \ {r} \subseteq odd'
  BY <1>1, <1>2, <1>3, InHand, Facts
<1>6. unit' \in {unit, [unit EXCEPT ![u] = [st |-> "gone", agent |-> None]]}
  BY <1>3 DEF DestroyCall
<1>7. PoolMoves(r)
  <2>1. CASE unit' = unit
    BY <1>5, <2>1, NobodyMoves
  <2>2. CASE unit' = [unit EXCEPT ![u] = [st |-> "gone", agent |-> None]]
    BY <1>5, <2>2, GoneIs, OneMoves
  <2> QED
    BY <1>6, <2>1, <2>2
<1>8. Goes(c, v) /\ call[c].op # "release" /\ call[c].op # "restart"
  BY <1>1, <1>4
<1> QED
  BY <1>1, <1>2, <1>7, <1>8, ToldKeeps

\* The row is gone.
LEMMA DestroyDoneKeeps ==
  ASSUME IInv, NEW c \in Calls, DestroyDone(c)
  PROVE  IInv'
<1>1. /\ call[c].op \in Loads /\ Answer(c) /\ unit' = unit
  BY DEF DestroyDone, Loads
<1>2. PICK r \in Rows : r = call[c].row
  BY <1>1, InHand
<1>3. /\ r \in Present /\ row' = [row EXCEPT ![r] = NoRow] /\ received' = received \ {r}
      /\ odd' = odd \ {r}
  BY <1>2 DEF DestroyDone
<1>4. /\ call' \in [Calls -> CallStates] /\ CallsWhole' /\ call'[c] = NoCall
      /\ call'[c].row = None /\ call'[c].op \notin Creates
      /\ \A d \in Calls \ {c} : call'[d] = call[d]
      /\ begun' = begun /\ deleted' = deleted
  BY <1>1, CallEnds
<1>5. /\ row' \in [Rows -> RowStates] /\ row'[r] = NoRow /\ NoRow \in RowStates
      /\ \A s \in Rows \ {r} : row'[s] = row[s]
  BY <1>3, Facts DEF RowStates
<1>6. Present' = Present \ {r}
  BY <1>5 DEF Present
<1>7. TypeOK'
  BY <1>1, <1>3, <1>4, <1>5, Facts, TypeOKNext
<1>8. UnitsApart' /\ GoneIsFree'
  BY <1>1, <1>5, <1>6, Facts DEF IInv, UnitsApart, GoneIsFree
<1>9. RowsSound'
  <2>1. \A s \in (Present \ odd)' : s # r =>
          /\ s \in Present \ odd
          /\ row'[s].agent = row[s].agent /\ row'[s].unit = row[s].unit
          /\ unit'[row[s].unit].agent = unit[row[s].unit].agent
    BY <1>1, <1>3, <1>5, <1>6, Facts
  <2>2. \A d \in Calls : \/ call'[d] = call[d]
                         \/ call[d].row \in {r, None} /\ call'[d].row \in {r, None}
    BY <1>2, <1>4
  <2>3. r \notin (Present \ odd)'
    BY <1>6
  <2> QED
    BY <2>1, <2>2, <2>3, SoundKept
<1>10. Counted'
  <2>1. \A s \in Present' \ received' : s \notin received /\ row'[s].owner = row[s].owner
    BY <1>3, <1>5, <1>6, Facts
  <2>2. \A d \in Calls : call'[d].op \in Creates =>
                           call[d].op \in Creates /\ call'[d].user = call[d].user
    BY <1>4
  <2> QED
    BY <1>6, <2>1, <2>2, NoMore DEF IInv
<1> QED
  BY <1>4, <1>7, <1>8, <1>9, <1>10 DEF IInv

-----------------------------------------------------------------------------
(* What no operation does *)

\* The deletion of an agent.
LEMMA DeletionKeeps ==
  ASSUME IInv, NEW a \in Agents, AgentDeleted(a)
  PROVE  IInv'
<1>1. /\ row' = [r \in Rows |-> IF row[r].agent = a THEN [row[r] EXCEPT !.agent = None] ELSE row[r]]
      /\ deleted' = deleted \cup {a} /\ odd' = odd \cup RowsOfAgent(a)
      /\ UNCHANGED <<unit, call, begun, received>>
  BY DEF AgentDeleted
<1>2. PoolMoves(None)
  BY <1>1, Facts, NobodyMoves DEF RowsOfAgent
<1>3. \A r \in Rows : row[r].agent = a => r \in Present
  BY Facts, RowFields
<1>4. \A w \in RowType : /\ [w EXCEPT !.agent = None] \in RowType
                         /\ [w EXCEPT !.agent = None].owner = w.owner
                         /\ [w EXCEPT !.agent = None].unit = w.unit
  BY DEF RowType
<1>5. \A r \in Rows : row'[r] = IF row[r].agent = a THEN [row[r] EXCEPT !.agent = None] ELSE row[r]
  BY <1>1
<1>6. \A r \in Rows : /\ row'[r] \in RowStates /\ (row'[r] # NoRow <=> row[r] # NoRow)
                      /\ row'[r].owner = row[r].owner /\ row'[r].unit = row[r].unit
                      /\ row[r].agent # a => row'[r] = row[r]
  <2>1. ASSUME NEW r \in Rows, row[r].agent = a
        PROVE  row[r] \in RowType /\ row'[r] = [row[r] EXCEPT !.agent = None]
    BY <1>3, <1>5, <2>1, Facts
  <2>2. ASSUME NEW r \in Rows, row[r].agent # a
        PROVE  row'[r] = row[r]
    BY <1>5, <2>2
  <2>3. \A w \in RowType : w # NoRow /\ w \in RowStates
    BY RowFields DEF RowStates
  <2>4. \A r \in Rows : row[r] \in RowStates
    BY Facts
  <2> QED
    BY <1>4, <2>1, <2>2, <2>3, <2>4
<1>7. row' \in [Rows -> RowStates] /\ Present' = Present
  BY <1>1, <1>6 DEF Present
<1>8. \A r \in Present : r \notin odd' => row'[r].agent = row[r].agent
  BY <1>1, <1>6, Facts DEF RowsOfAgent
<1> QED
  BY <1>1, <1>2, <1>6, <1>7, <1>8, Facts, LookKeeps

\* A status that follows the pool, or a look at the unit.
LEMMA StatusKeeps ==
  ASSUME IInv, UNCHANGED <<unit, call, begun, deleted, received, odd>>,
         NEW S \in SUBSET Present, NEW f \in [Rows -> Statuses],
         row' = [r \in Rows |-> IF r \in S THEN [row[r] EXCEPT !.status = f[r]] ELSE row[r]]
  PROVE  IInv'
<1>1. PoolMoves(None)
  BY Facts, NobodyMoves
<1>2. \A w \in RowType, t \in Statuses : /\ [w EXCEPT !.status = t] \in RowType
                                         /\ [w EXCEPT !.status = t].owner = w.owner
                                         /\ [w EXCEPT !.status = t].agent = w.agent
                                         /\ [w EXCEPT !.status = t].unit = w.unit
  BY DEF RowType
<1>3. \A r \in Rows : row'[r] = IF r \in S THEN [row[r] EXCEPT !.status = f[r]] ELSE row[r]
  OBVIOUS
<1>4. \A r \in Rows : /\ row'[r] \in RowStates /\ (row'[r] # NoRow <=> row[r] # NoRow)
                      /\ row'[r].owner = row[r].owner /\ row'[r].unit = row[r].unit
                      /\ row'[r].agent = row[r].agent
  BY <1>2, <1>3, Facts, RowFields DEF RowStates
<1>5. row' \in [Rows -> RowStates] /\ Present' = Present
  BY <1>4 DEF Present
<1> QED
  BY <1>1, <1>4, <1>5, Facts, LookKeeps

\* GET /sandboxes.
LEMMA SyncKeeps ==
  ASSUME IInv, NEW x \in Users, SyncStatus(x)
  PROVE  IInv'
<1>1. PICK S \in SUBSET Present : S = OwnedBy(x)
  BY DEF OwnedBy
<1>2. PICK f : f = [r \in Rows |-> Synced(r)]
  OBVIOUS
<1>3. f \in [Rows -> Statuses]
  BY <1>2 DEF Synced, Statuses
<1>4. \A r \in Rows : f[r] = Synced(r)
  BY <1>2
<1>5. row' = [r \in Rows |-> IF r \in S THEN [row[r] EXCEPT !.status = f[r]] ELSE row[r]]
  BY <1>1, <1>4 DEF SyncStatus
<1> QED
  BY <1>3, <1>5, StatusKeeps DEF SyncStatus, history

\* A look at a sandbox.
LEMMA HealthKeeps ==
  ASSUME IInv, NEW r \in Rows, Health(r)
  PROVE  IInv'
<1>1. r \in Present /\ UNCHANGED <<unit, call, begun, deleted, received, odd>>
  BY DEF Health, history
<1>2. PICK t \in Statuses : row' = [row EXCEPT ![r].status = t]
  BY DEF Health, Statuses
<1>3. PICK f : f = [s \in Rows |-> t]
  OBVIOUS
<1>4. row' = [s \in Rows |-> IF s \in {r} THEN [row[s] EXCEPT !.status = f[s]] ELSE row[s]]
  BY <1>2, <1>3, Facts
<1>5. PICK S \in SUBSET Present : S = {r}
  BY <1>1
<1>6. f \in [Rows -> Statuses]
  BY <1>3
<1> QED
  BY <1>1, <1>4, <1>5, <1>6, StatusKeeps

\* The pool drops a unit.
LEMMA DropKeeps ==
  ASSUME IInv, NEW u \in Units, PoolDrops(u)
  PROVE  IInv'
<1>1. /\ unit' = [unit EXCEPT ![u] = [st |-> "gone", agent |-> None]]
      /\ odd' = odd \cup RowsOfUnit(u) /\ UNCHANGED <<row, call, begun, deleted, received>>
  BY DEF PoolDrops
<1>2. odd \subseteq odd' /\ odd' \subseteq Rows /\ RowsOfUnit(u) \ {None} \subseteq odd'
  BY <1>1, Facts DEF RowsOfUnit
<1>3. PoolMoves(None)
  BY <1>1, <1>2, GoneIs, OneMoves
<1>4. Present' = Present
  BY <1>1 DEF Present
<1> QED
  BY <1>1, <1>3, <1>4, Facts, LookKeeps

-----------------------------------------------------------------------------
(* The theorems *)

\* The invariant holds when nothing is there yet.
LEMMA Initially == Init => IInv
<1> SUFFICES ASSUME Init
             PROVE  IInv
  OBVIOUS
<1>1. Present = {} /\ call \in [Calls -> CallStates] /\ \A c \in Calls : call[c] = NoCall
  BY NoCallFields DEF Init, Present
<1>2. TypeOK
  <2>1. NoRow \in RowStates /\ [st |-> "new", agent |-> None] \in UnitStates
    BY DEF RowStates, UnitStates, AgentIds
  <2>2. 0 \in 0..MaxRequests
    BY SandboxesAssumption
  <2> QED
    BY <1>1, <2>1, <2>2, TypeOKIs DEF Init
<1>3. Counted
  <2>1. ASSUME NEW x
        PROVE  Mine(x) = {} /\ Creating(x) = {}
    BY <1>1, NoCallFields DEF Mine, OwnedBy, Creating, Creates
  <2>2. Cardinality({}) = 0 /\ IsFiniteSet({})
    BY FS_EmptySet
  <2>3. Cardinality(Calls) \in Nat /\ Cardinality(Calls) # 0
    BY SandboxesAssumption, FS_CardinalityType, FS_EmptySet
  <2>4. \A x \in Users : Cardinality(Mine(x)) = 0 /\ Cardinality(Creating(x)) = 0
    BY <2>1, <2>2
  <2>5. MaxPerUser + Cardinality(Calls) - 1 >= 0
    BY <2>3, SandboxesAssumption
  <2> QED
    BY <1>1, <2>2, <2>4, <2>5 DEF Counted
<1> QED
  BY <1>1, <1>2, <1>3, NoCallFields
     DEF IInv, CallsWhole, UnitsApart, GoneIsFree, RowsSound, Init

\* It is inductive.
LEMMA Inductive == IInv /\ [Next]_vars => IInv'
<1> SUFFICES ASSUME IInv, [Next]_vars
             PROVE  IInv'
  OBVIOUS
<1>1. ASSUME NEW c \in Calls, NEW x \in Users, CreateBegin(c, x)
      PROVE  IInv'
  BY <1>1, BeginsKeep
<1>2. ASSUME NEW c \in Calls, NEW a \in Agents, AcquireBegin(c, a) \/ ReleaseBegin(c, a)
      PROVE  IInv'
  BY <1>2, BeginsKeep
<1>3. ASSUME NEW c \in Calls, NEW x \in Users, NEW r \in Rows,
             UnassignBegin(c, x, r) \/ DestroyBegin(c, x, r)
      PROVE  IInv'
  BY <1>3, BeginsKeep
<1>4. ASSUME NEW c \in Calls, NEW x \in Users, NEW r \in Rows, NEW a \in Agents,
             AssignBegin(c, x, r, a)
      PROVE  IInv'
  BY <1>4, BeginsKeep
<1>5. ASSUME NEW c \in Calls, NEW x \in Users, NEW r \in Rows, NEW y \in Users,
             TransferBegin(c, x, r, y)
      PROVE  IInv'
  BY <1>5, BeginsKeep
<1>6. ASSUME NEW c \in Calls, NEW r \in Rows, RestartBegin(c, r) \/ StaleBegin(c, r)
      PROVE  IInv'
  BY <1>6, BeginsKeep
<1>7. ASSUME NEW c \in Calls,
             \/ Provision(c) \/ CreateDone(c) \/ AcquireDone(c) \/ AcquireRolledBack(c)
             \/ AssignDone(c) \/ UnassignDone(c) \/ TransferDone(c) \/ ReleaseCall(c)
             \/ ReleaseDone(c) \/ RestartCall(c) \/ RestartDone(c) \/ DestroyCall(c)
             \/ DestroyDone(c) \/ Fails(c)
      PROVE  IInv'
  BY <1>7, ProvisionKeeps, CreateDoneKeeps, AcquireDoneKeeps, RolledBackKeeps, AssignDoneKeeps,
     UnassignDoneKeeps, TransferDoneKeeps, ReleaseCallKeeps, ReleaseDoneKeeps, RestartCallKeeps,
     RestartDoneKeeps, DestroyCallKeeps, DestroyDoneKeeps, FailsKeeps
<1>8. CASE UNCHANGED vars
  <2>1. TypeOK'
    BY <1>8, Facts, TypeOKNext DEF vars
  <2>2. Present' = Present
    BY <1>8 DEF vars, Present
  <2>3. RowsSound'
    <3>1. ASSUME NEW r \in (Present \ odd)'
          PROVE  RowSound(r)'
      <4>1. RowSound(r)
        BY <1>8, <2>2 DEF IInv, RowsSound, vars
      <4> QED
        BY <1>8, <4>1, Elsewhere DEF vars
    <3> QED
      BY <3>1 DEF RowsSound
  <2>4. Counted'
    BY <1>8, <2>2, NoMore DEF IInv, vars
  <2>5. CallsWhole' /\ UnitsApart' /\ GoneIsFree'
    BY <1>8, <2>2 DEF IInv, CallsWhole, UnitsApart, GoneIsFree, vars
  <2> QED
    BY <2>1, <2>3, <2>4, <2>5 DEF IInv
<1> QED
  BY <1>1, <1>2, <1>3, <1>4, <1>5, <1>6, <1>7, <1>8, DeletionKeeps, SyncKeeps, HealthKeeps,
     DropKeeps DEF Next

\* The invariant holds in every reachable state.
THEOREM Invariance == Spec => []IInv
  BY Initially, Inductive, PTL DEF Spec

\* Every variable keeps its type.
THEOREM TypeCorrect == Spec => []TypeOK
<1>1. IInv => TypeOK
  BY DEF IInv
<1> QED
  BY <1>1, Invariance, PTL

\* A row and the pool agree on the agent that has the sandbox, once no operation has it to
\* write, and unless a cause that is on record has come up.
THEOREM AgreesSafe == Spec => []AgreesWithPool
<1>1. IInv => AgreesWithPool
  BY DEF IInv, RowsSound, RowSound, Agrees, Told, AgreesWithPool
<1> QED
  BY <1>1, Invariance, PTL

\* A user passes the limit by no more than the creations of his that overlap, but for rows
\* that he was given.
THEOREM OvershootSafe == Spec => []LimitOvershoot
<1>1. IInv => LimitOvershoot
  <2> SUFFICES ASSUME IInv, NEW x \in Users
               PROVE  Cardinality(OwnedBy(x) \ received) <= MaxPerUser + Cardinality(Calls) - 1
    BY DEF LimitOvershoot
  <2>1. Mine(x) = OwnedBy(x) \ received
    BY DEF Mine
  <2>2. Cardinality(Mine(x)) + Cardinality(Creating(x)) <= MaxPerUser + Cardinality(Calls) - 1
    BY DEF IInv, Counted
  <2>3. /\ Cardinality(Mine(x)) \in Nat /\ Cardinality(Creating(x)) \in Nat
        /\ Cardinality(Calls) \in Nat /\ MaxPerUser \in Nat
    BY Finite, SandboxesAssumption DEF IInv
  <2>4. Cardinality(OwnedBy(x) \ received) = Cardinality(Mine(x))
    BY <2>1
  <2> QED
    BY <2>2, <2>3, <2>4
<1> QED
  BY <1>1, Invariance, PTL

-----------------------------------------------------------------------------
(*****************************************************************************)
(* The relay of a screen                                                     *)
(*****************************************************************************)
Screens ==
  /\ viewer \in [Users -> {"out", "in", "gone"}]
  /\ stream \in [there : BOOLEAN, viewers : SUBSET Users, task : Calls \cup {None}]
  /\ relay \in [Calls -> [at : {"idle", "resolving", "streaming", "failed", "sleeping", "leaving"},
                          attempt : Nat, cancelled : BOOLEAN,
                          why : {"none", "spent", "unresolved", "late"}]]

\* The task of an entry has not been cancelled, and one that was cancelled has yet to end.
EntryHasTask == stream.there => stream.task \in Calls /\ ~relay[stream.task].cancelled
CancelledRuns == \A t \in Calls : relay[t].cancelled => relay[t].at # "idle"
\* The entry knows those who watch.
WatchersKnown == \A v \in Users : viewer[v] = "in" => stream.there /\ v \in stream.viewers
\* A task that ends, or has ended, while somebody is in its entry has a cause to.
EndsForACause ==
  stream.there /\ stream.viewers # {} /\ relay[stream.task].at \in {"leaving", "idle"}
    => relay[stream.task].why \in {"spent", "unresolved", "late"}

ScreenInv == Screens /\ EntryHasTask /\ CancelledRuns /\ WatchersKnown /\ EndsForACause

LEMMA ScreenStart == Screen!Init => ScreenInv
  BY DEF Screen!Init, Screen!Idle, Screen!NoStream, ScreenInv, Screens, EntryHasTask, CancelledRuns,
         WatchersKnown, EndsForACause

LEMMA ScreenStep == ASSUME ScreenInv, [Screen!Next]_screenVars PROVE ScreenInv'
<1> USE DEF ScreenInv, Screens, EntryHasTask, CancelledRuns, WatchersKnown, EndsForACause
<1>1. CASE UNCHANGED screenVars
  BY <1>1 DEF screenVars
<1>2. ASSUME NEW v \in Users, Screen!AddViewer(v) PROVE ScreenInv'
  <2>1. CASE Screen!NeedsRelay
    <3>1. PICK t \in Calls :
            /\ relay' = [relay EXCEPT ![t] = [at |-> "resolving", attempt |-> 1, cancelled |-> FALSE,
                                              why |-> "none"]]
            /\ stream' = [there |-> TRUE, viewers |-> stream.viewers \cup {v}, task |-> t]
      BY <1>2, <2>1 DEF Screen!AddViewer, Screen!Idle
    <3>2. viewer' = [viewer EXCEPT ![v] = "in"]
      BY <1>2 DEF Screen!AddViewer
    <3>3. Screens'
      BY <3>1, <3>2
    <3>4. EntryHasTask' /\ CancelledRuns' /\ WatchersKnown' /\ EndsForACause'
      BY <3>1, <3>2
    <3> QED BY <3>3, <3>4
  <2>2. CASE ~Screen!NeedsRelay
    BY <1>2, <2>2 DEF Screen!AddViewer, Screen!Idle, Screen!NeedsRelay, Screen!Done
  <2> QED BY <2>1, <2>2
<1>3. ASSUME NEW v \in Users, Screen!Gone(v) PROVE ScreenInv'
  BY <1>3 DEF Screen!Gone
<1>4. ASSUME NEW v \in Users, Screen!RemoveViewer(v) PROVE ScreenInv'
  <2>1. CASE stream.there /\ stream.viewers \subseteq {v}
    <3>1. /\ stream' = [there |-> FALSE, viewers |-> {}, task |-> None]
          /\ relay' = [t \in Calls |-> IF t = stream.task /\ ~Screen!Done(t)
                                       THEN [relay[t] EXCEPT !.cancelled = TRUE] ELSE relay[t]]
          /\ viewer[v] = "gone" /\ viewer' = [viewer EXCEPT ![v] = "out"]
      BY <1>4, <2>1 DEF Screen!RemoveViewer, Screen!NoStream
    <3>2. Screens' /\ EntryHasTask' /\ EndsForACause'
      BY <3>1
    <3>3. CancelledRuns'
      BY <3>1 DEF Screen!Done
    <3>4. WatchersKnown'
      BY <2>1, <3>1
    <3> QED BY <3>2, <3>3, <3>4
  <2>2. CASE ~(stream.there /\ stream.viewers \subseteq {v})
    BY <1>4, <2>2 DEF Screen!RemoveViewer
  <2> QED BY <2>1, <2>2
<1>5. ASSUME NEW t \in Calls, Screen!Resolve(t) PROVE ScreenInv'
  BY <1>5 DEF Screen!Resolve, Screen!Working, Screen!Goes, Screen!Ends
<1>6. ASSUME NEW t \in Calls, Screen!FanOut(t) PROVE ScreenInv'
  BY <1>6 DEF Screen!FanOut, Screen!Working
<1>7. ASSUME NEW t \in Calls, Screen!Closed(t) \/ Screen!Wake(t) PROVE ScreenInv'
  BY <1>7 DEF Screen!Closed, Screen!Wake, Screen!Again, Screen!Ends, Screen!Working
<1>8. ASSUME NEW t \in Calls, Screen!Fails(t) \/ Screen!Leave(t) PROVE ScreenInv'
  BY <1>8 DEF Screen!Fails, Screen!Leave, Screen!Goes, Screen!Working
<1>9. ASSUME NEW t \in Calls, Screen!Check(t) PROVE ScreenInv'
  BY <1>9 DEF Screen!Check, Screen!Goes, Screen!Working
<1>10. ASSUME NEW t \in Calls, Screen!Cancelled(t) PROVE ScreenInv'
  BY <1>10 DEF Screen!Cancelled, Screen!Idle
<1> QED
  BY <1>1, <1>2, <1>3, <1>4, <1>5, <1>6, <1>7, <1>8, <1>9, <1>10 DEF Screen!Next

\* Whoever watches a screen is in its entry, and the entry has a task that relays it or that has
\* ended for a cause, whatever viewers and tasks come and go in between.
THEOREM ViewersSafe == Screen!Spec => []ViewersServed
<1>1. ScreenInv => ViewersServed
  BY DEF ScreenInv, Screens, EntryHasTask, WatchersKnown, EndsForACause, ViewersServed,
         Screen!ViewersServed, Screen!Working
<1> QED BY <1>1, ScreenStart, ScreenStep, PTL DEF Screen!Spec, Screen!vars, screenVars

-----------------------------------------------------------------------------
(* LogStream: the log as a page shows it.                                  *)

\* n lines of one run of the backend, the last with number e.
Line(r, e) == [run |-> r, seq |-> e]
Stretch(r, n, e) == [i \in 1..n |-> Line(r, (e - n) + i)]
Fewest(n) == IF n > MaxItems THEN MaxItems ELSE n

LEMMA StretchIs ==
  ASSUME NEW r, NEW n \in Nat, NEW e \in Nat
  PROVE  /\ Len(Stretch(r, n, e)) = n /\ DOMAIN Stretch(r, n, e) = 1..n
         /\ \A i \in 1..n : Stretch(r, n, e)[i] = Line(r, (e - n) + i)
         /\ Stretch(r, n, e) \in Seq({Line(r, (e - n) + i) : i \in 1..n})
         /\ Stretch(r, n, e) = <<>> <=> n = 0
<1>1. /\ DOMAIN Stretch(r, n, e) = 1..n
      /\ \A i \in 1..n : Stretch(r, n, e)[i] = Line(r, (e - n) + i)
  BY DEF Stretch
<1>2. Stretch(r, n, e) \in [1..n -> {Line(r, (e - n) + i) : i \in 1..n}]
  BY DEF Stretch
<1>3. Stretch(r, n, e) \in Seq({Line(r, (e - n) + i) : i \in 1..n})
  BY <1>2, SeqDef
<1>4. Len(Stretch(r, n, e)) = n
  BY <1>1, <1>3
<1> QED BY <1>1, <1>3, <1>4

LEMMA StretchLast ==
  ASSUME NEW r, NEW n \in Nat, NEW e \in Nat
  PROVE  Log!LastItems(Stretch(r, n, e)) = Stretch(r, Fewest(n), e)
<1> DEFINE s == Stretch(r, n, e)
<1>1. Len(s) = n /\ \A i \in 1..n : s[i] = Line(r, (e - n) + i)
  BY StretchIs
<1>2. CASE n > MaxItems
  <2>1. Log!LastItems(s) = SubSeq(s, n - MaxItems + 1, n)
    BY <1>1, <1>2 DEF Log!LastItems
  <2> HIDE DEF s
  <2>2. SubSeq(s, n - MaxItems + 1, n) = [i \in 1..MaxItems |-> s[i + (n - MaxItems)]]
    BY <1>2, LogAssumption DEF LogAssumption
  <2>3. \A i \in 1..MaxItems : s[i + (n - MaxItems)] = Line(r, (e - MaxItems) + i)
    BY <1>1, <1>2, LogAssumption DEF LogAssumption
  <2> QED BY <1>2, <2>1, <2>2, <2>3 DEF Stretch, Fewest, s
<1>3. CASE ~(n > MaxItems)
  BY <1>1, <1>3 DEF Log!LastItems, Fewest
<1> QED BY <1>2, <1>3

LEMMA StretchAppend ==
  ASSUME NEW r, NEW n \in Nat, NEW e \in Nat
  PROVE  Append(Stretch(r, n, e), Line(r, e + 1)) = Stretch(r, n + 1, e + 1)
<1> DEFINE s == Stretch(r, n, e)
<1>1. Len(s) = n /\ \A i \in 1..n : s[i] = Line(r, (e - n) + i)
  BY StretchIs
<1>2. Append(s, Line(r, e + 1)) = [i \in 1..(n + 1) |-> IF i = n + 1 THEN Line(r, e + 1) ELSE s[i]]
  BY <1>1, StretchIs
<1> HIDE DEF s
<1>3. \A i \in 1..(n + 1) : (IF i = n + 1 THEN Line(r, e + 1) ELSE s[i]) = Line(r, ((e + 1) - (n + 1)) + i)
  BY <1>1
<1> QED BY <1>2, <1>3 DEF Stretch, s

LEMMA StretchTail ==
  ASSUME NEW r, NEW n \in Nat, NEW e \in Nat, n > 0
  PROVE  /\ Tail(Stretch(r, n, e)) = Stretch(r, n - 1, e)
         /\ Head(Stretch(r, n, e)) = Line(r, (e - n) + 1)
<1> PICK s : s = Stretch(r, n, e)
  OBVIOUS
<1>1. Len(s) = n /\ \A i \in 1..n : s[i] = Line(r, (e - n) + i)
  BY StretchIs
<1>2. s # <<>>
  BY <1>1
<1>3. PICK S : s \in Seq(S)
  BY StretchIs
<1>4. Head(s) = s[1] /\ Tail(s) \in Seq(S) /\ Len(Tail(s)) = n - 1 /\ \A i \in 1..(n - 1) : Tail(s)[i] = s[i + 1]
  BY <1>1, <1>2, <1>3, HeadTailProperties
<1>5. Tail(s) = [i \in 1..(n - 1) |-> Tail(s)[i]]
  <2>1. Tail(s) \in [1..(n - 1) -> S]
    BY <1>4, LenProperties
  <2> QED BY <2>1
<1>6. \A i \in 1..(n - 1) : Tail(s)[i] = Line(r, (e - (n - 1)) + i)
  BY <1>1, <1>4
<1> QED BY <1>1, <1>4, <1>5, <1>6 DEF Stretch

\* What of the log has been sent; what the page is sent begins with a snapshot or follows what it
\* has.
Written == next - 1
Sent == Written - Len(queue) - (IF held = Log!Nothing THEN 0 ELSE 1)
Pending == wire # <<>> /\ wire[1].snapshot
First == IF Pending THEN 1 ELSE 0
Follow == Len(wire) - First
Reached == IF Pending THEN wire[1].latest ELSE seen

QueueHolds == \E n \in 0..Written : queue = Stretch(run, n, Written)
HeldNext ==
  held # Log!Nothing =>
    /\ Len(queue) < Written /\ held.line = Line(run, Written - Len(queue))
    /\ socket = "open" /\ conn \notin held.to => Follow = 0 /\ Sent < Reached
WireFollows ==
  socket = "open" =>
    /\ Reached <= Written /\ Follow <= Sent /\ Sent <= Reached + Follow
    /\ \A i \in (First + 1)..Len(wire) :
         wire[i] = [items |-> <<Line(run, (Sent - Len(wire)) + i)>>, snapshot |-> FALSE, latest |-> 0]
    /\ Pending => wire[1].items = Stretch(run, Fewest(Reached), Reached)
PageFollows ==
  socket = "open" /\ ~Pending =>
    \E n \in 0..seen : n <= MaxItems /\ logs = Stretch(run, n, seen) /\ (~cleared => n = Fewest(seen))
WithoutGap == \A i \in 1..(Len(logs) - 1) : logs[i + 1] = [logs[i] EXCEPT !.seq = @ + 1]

OnWire == [items : Seq([run : Nat, seq : Int]), snapshot : BOOLEAN, latest : Nat]
LogInv ==
  /\ next \in Nat /\ next >= 1 /\ run \in Nat /\ conn \in Nat /\ seen \in Nat /\ cleared \in BOOLEAN
  /\ socket \in {"open", "closed"}
  /\ wire \in Seq(OnWire)
  /\ socket = "open" => conn \in known
  /\ socket = "closed" => wire = <<>>
  /\ QueueHolds /\ HeldNext /\ WireFollows /\ PageFollows /\ WithoutGap

LEMMA StretchTyped ==
  ASSUME NEW r \in Nat, NEW n \in Nat, NEW e \in Nat
  PROVE  Stretch(r, n, e) \in Seq([run : Nat, seq : Int])
<1> DEFINE S == [run : Nat, seq : Int]
<1>1. Stretch(r, n, e) \in [1..n -> S]
  BY DEF Stretch, Line
<1> HIDE DEF S
<1>2. Stretch(r, n, e) \in Seq(S)
  BY <1>1, SeqDef
<1> QED BY <1>2 DEF S

LEMMA QueueIs ==
  ASSUME LogInv
  PROVE  /\ Len(queue) \in 0..Written /\ queue = Stretch(run, Len(queue), Written) /\ Written \in Nat
         /\ Sent \in 0..Written
<1>1. Written \in Nat
  BY DEF LogInv, Written
<1>2. PICK n \in 0..Written : queue = Stretch(run, n, Written)
  BY DEF LogInv, QueueHolds
<1>3. Len(queue) = n
  <2>1. n \in Nat
    BY <1>1
  <2>2. Len(Stretch(run, n, Written)) = n
    BY <1>1, <2>1, StretchIs
  <2> QED BY <1>2, <2>2
<1>4. held # Log!Nothing => Len(queue) < Written
  BY DEF LogInv, HeldNext
<1> QED BY <1>1, <1>2, <1>3, <1>4 DEF Sent

LEMMA WireIs ==
  ASSUME LogInv
  PROVE  /\ First \in {0, 1} /\ Len(wire) \in Nat /\ DOMAIN wire = 1..Len(wire) /\ Follow \in Nat
         /\ Reached \in Nat /\ Pending \in BOOLEAN
         /\ \A i \in 1..Len(wire) : wire[i] \in OnWire
         /\ Pending => Len(wire) > 0
         /\ Len(wire) = Follow + First
<1>1. wire \in Seq(OnWire) /\ seen \in Nat
  BY DEF LogInv
<1>2. Len(wire) \in Nat /\ DOMAIN wire = 1..Len(wire) /\ \A i \in 1..Len(wire) : wire[i] \in OnWire
  BY <1>1, LenProperties
<1>3. wire # <<>> => Len(wire) > 0
  BY <1>1, <1>2
<1>4. Pending => wire[1].latest \in Nat
  BY <1>2, <1>3 DEF Pending, OnWire
<1>5. Pending \in BOOLEAN
  BY <1>2, <1>3 DEF Pending, OnWire
<1> QED BY <1>1, <1>2, <1>3, <1>4, <1>5 DEF First, Follow, Reached, Pending

LEMMA LogStarts == Log!Init => LogInv
<1> SUFFICES ASSUME Log!Init PROVE LogInv
  OBVIOUS
<1> USE DEF Log!Init
<1>1. Written = 0 /\ Len(queue) = 0 /\ Len(logs) = 0
  BY DEF Written
<1>2. QueueHolds
  <2>1. queue = Stretch(run, 0, Written)
    BY <1>1 DEF Stretch
  <2> QED BY <1>1, <2>1 DEF QueueHolds
<1>3. HeldNext /\ WireFollows /\ PageFollows /\ WithoutGap
  BY <1>1 DEF HeldNext, WireFollows, PageFollows, WithoutGap
<1>4. wire \in Seq(OnWire)
  BY EmptySeq
<1>5. /\ next \in Nat /\ next >= 1 /\ run \in Nat /\ conn \in Nat /\ seen \in Nat /\ cleared \in BOOLEAN
      /\ socket \in {"open", "closed"} /\ (socket = "open" => conn \in known) /\ (socket = "closed" => wire = <<>>)
  <2>1. next = 1 /\ run = 0 /\ conn = 0 /\ seen = 0 /\ cleared = FALSE /\ socket = "closed" /\ wire = <<>>
    OBVIOUS
  <2>2. next \in Nat /\ next >= 1 /\ run \in Nat /\ conn \in Nat /\ seen \in Nat
    BY <2>1
  <2>3. cleared \in BOOLEAN
    BY <2>1
  <2>4. socket \in {"open", "closed"} /\ (socket = "open" => conn \in known)
    BY <2>1
  <2> QED BY <2>1, <2>2, <2>3, <2>4
<1> QED BY <1>2, <1>3, <1>4, <1>5 DEF LogInv

LEMMA LogKeeps ==
  ASSUME LogInv, Log!Log
  PROVE  LogInv'
<1> USE DEF Log!Log, Log!page
<1>1. UNCHANGED <<run, held, known, conn, socket, wire, logs, seen, cleared>> /\ next' = next + 1
  OBVIOUS
<1> PICK n, w : n = Len(queue) /\ w = Written
  OBVIOUS
<1>2. n \in 0..w /\ w \in Nat /\ queue = Stretch(run, n, w) /\ Written' = w + 1
  BY <1>1, QueueIs DEF Written, LogInv
<1>3. queue' = Stretch(run, n + 1, w + 1) /\ Len(queue') = n + 1
  <2>1. queue' = Append(queue, Line(run, w + 1))
    BY <1>1, QueueIs DEF Line, Written, LogInv
  <2>2. queue' = Stretch(run, n + 1, w + 1)
    BY <1>2, <2>1, StretchAppend
  <2> QED BY <1>2, <2>2, StretchIs
<1>4. QueueHolds'
  BY <1>1, <1>2, <1>3 DEF QueueHolds
<1>5. Sent' = Sent
  BY <1>1, <1>2, <1>3 DEF Sent
<1>6. /\ Pending' = Pending /\ First' = First /\ Follow' = Follow /\ Reached' = Reached
  BY <1>1 DEF Pending, First, Follow, Reached
<1>7. HeldNext'
  BY <1>1, <1>2, <1>3, <1>5, <1>6 DEF LogInv, HeldNext
<1>8. WireFollows'
  BY <1>1, <1>2, <1>5, <1>6, WireIs DEF LogInv, WireFollows
<1>9. PageFollows' /\ WithoutGap'
  BY <1>1, <1>6 DEF LogInv, PageFollows, WithoutGap
<1> QED BY <1>1, <1>4, <1>7, <1>8, <1>9 DEF LogInv

LEMMA TakeKeeps ==
  ASSUME LogInv, Log!Take
  PROVE  LogInv'
<1> USE DEF Log!Take, Log!page
<1>1. /\ UNCHANGED <<next, run, known, conn, socket, wire, logs, seen, cleared>>
      /\ held = Log!Nothing /\ queue # <<>>
      /\ held' = [line |-> Head(queue), to |-> known] /\ queue' = Tail(queue)
  OBVIOUS
<1> PICK n, w : n = Len(queue) /\ w = Written
  OBVIOUS
<1>2. n \in 0..w /\ w \in Nat /\ queue = Stretch(run, n, w) /\ Written' = w
  BY <1>1, QueueIs DEF Written
<1>3. n > 0
  BY <1>1, <1>2, StretchIs
<1>4. queue' = Stretch(run, n - 1, w) /\ Head(queue) = Line(run, (w - n) + 1) /\ Len(queue') = n - 1
  <2>1. n \in Nat /\ n - 1 \in Nat /\ w \in Nat
    BY <1>2, <1>3
  <2>2. Tail(Stretch(run, n, w)) = Stretch(run, n - 1, w) /\ Head(Stretch(run, n, w)) = Line(run, (w - n) + 1)
    BY <1>3, <2>1, StretchTail
  <2>3. Len(Stretch(run, n - 1, w)) = n - 1
    BY <2>1, StretchIs
  <2> QED BY <1>1, <1>2, <2>2, <2>3
<1>5. held' # Log!Nothing
  <2>1. DOMAIN [line |-> Head(queue), to |-> known] # DOMAIN <<>>
    OBVIOUS
  <2> QED BY <1>1, <2>1 DEF Log!Nothing
<1>6. QueueHolds'
  BY <1>1, <1>2, <1>3, <1>4 DEF QueueHolds
<1>7. Sent' = Sent
  BY <1>1, <1>2, <1>3, <1>4, <1>5 DEF Sent
<1>8. /\ Pending' = Pending /\ First' = First /\ Follow' = Follow /\ Reached' = Reached
  BY <1>1 DEF Pending, First, Follow, Reached
<1>9. HeldNext'
  BY <1>1, <1>2, <1>3, <1>4 DEF LogInv, HeldNext
<1>10. WireFollows'
  BY <1>1, <1>2, <1>7, <1>8 DEF LogInv, WireFollows
<1>11. PageFollows' /\ WithoutGap'
  BY <1>1, <1>8 DEF LogInv, PageFollows, WithoutGap
<1> QED BY <1>1, <1>6, <1>9, <1>10, <1>11 DEF LogInv

LEMMA BroadcastKeeps ==
  ASSUME LogInv, Log!Broadcast
  PROVE  LogInv'
<1> USE DEF Log!Broadcast, Log!page
<1>1. /\ UNCHANGED <<next, run, queue, conn, socket, logs, seen, cleared>>
      /\ held # Log!Nothing /\ held' = Log!Nothing
      /\ known' = known \ (held.to \ (IF socket = "open" THEN {conn} ELSE {}))
  OBVIOUS
<1> PICK m : m = [items |-> <<held.line>>, snapshot |-> FALSE, latest |-> 0]
  OBVIOUS
<1>2. IF conn \in held.to /\ socket = "open" THEN wire' = Append(wire, m) ELSE UNCHANGED wire
  OBVIOUS
<1>3. Sent' = Sent + 1 /\ Written' = Written /\ Sent \in Nat /\ Written \in Nat
  BY <1>1, QueueIs DEF Sent, Written
<1>4. held.line = Line(run, Sent + 1) /\ Sent + 1 <= Written
  <2>1. Len(queue) < Written /\ held.line = Line(run, Written - Len(queue))
    BY <1>1 DEF LogInv, HeldNext
  <2> QED BY <1>1, <2>1, QueueIs DEF Sent
<1>5. m = [items |-> <<Line(run, Sent + 1)>>, snapshot |-> FALSE, latest |-> 0] /\ m \in OnWire
  <2>1. run \in Nat /\ Line(run, Sent + 1) \in [run : Nat, seq : Int]
    BY <1>3 DEF Line, LogInv
  <2> QED BY <1>4, <2>1 DEF OnWire
<1>6. QueueHolds' /\ HeldNext' /\ WithoutGap'
  BY <1>1 DEF LogInv, QueueHolds, HeldNext, WithoutGap, Written
<1>7. (socket' = "open" => conn' \in known')
  BY <1>1 DEF LogInv
<1>8. CASE conn \in held.to /\ socket = "open"
  <2>1. wire \in Seq(OnWire) /\ wire' = Append(wire, m)
    BY <1>2, <1>8 DEF LogInv
  <2>2. /\ wire' \in Seq(OnWire) /\ Len(wire') = Len(wire) + 1 /\ wire'[Len(wire) + 1] = m
        /\ \A i \in 1..Len(wire) : wire'[i] = wire[i]
        /\ wire' # <<>>
    BY <1>5, <2>1, AppendProperties
  <2>3. wire # <<>> => Len(wire) > 0
    BY <2>1
  <2>4. Pending' = Pending /\ (Pending => wire'[1] = wire[1])
    <3>1. CASE wire = <<>>
      <4>1. wire'[1] = m /\ m.snapshot = FALSE
        BY <1>5, <2>2, <3>1
      <4> QED BY <2>2, <3>1, <4>1 DEF Pending
    <3>2. CASE wire # <<>>
      BY <2>2, <2>3, <3>2, WireIs DEF Pending
    <3> QED BY <3>1, <3>2
  <2>5. First' = First /\ Reached' = Reached /\ Follow' = Follow + 1
    BY <1>1, <2>2, <2>4, WireIs DEF First, Reached, Follow
  <2>6. WireFollows'
    <3>1. /\ Reached <= Written /\ Follow <= Sent /\ Sent <= Reached + Follow
          /\ \A i \in (First + 1)..Len(wire) :
               wire[i] = [items |-> <<Line(run, (Sent - Len(wire)) + i)>>, snapshot |-> FALSE, latest |-> 0]
          /\ Pending => wire[1].items = Stretch(run, Fewest(Reached), Reached)
      BY <1>8 DEF LogInv, WireFollows
    <3>2. ASSUME NEW i \in (First + 1)..(Len(wire) + 1)
          PROVE  wire'[i] = [items |-> <<Line(run, ((Sent + 1) - (Len(wire) + 1)) + i)>>, snapshot |-> FALSE, latest |-> 0]
      <4>1. First \in {0, 1} /\ Len(wire) \in Nat
        BY WireIs
      <4>2. CASE i = Len(wire) + 1
        <5>1. ((Sent + 1) - (Len(wire) + 1)) + i = Sent + 1
          BY <1>3, <4>1, <4>2
        <5> QED BY <1>5, <2>2, <4>2, <5>1
      <4>3. CASE i # Len(wire) + 1
        <5>1. i \in (First + 1)..Len(wire) /\ i \in 1..Len(wire) /\ ((Sent + 1) - (Len(wire) + 1)) + i = (Sent - Len(wire)) + i
          BY <1>3, <4>1, <4>3
        <5> QED BY <2>2, <3>1, <5>1
      <4> QED BY <4>2, <4>3
    <3>3. Reached \in Nat /\ Follow \in Nat
      BY WireIs
    <3>4. Follow' <= Sent' /\ Sent' <= Reached' + Follow' /\ Reached' <= Written'
      BY <1>3, <2>5, <3>1, <3>3
    <3> QED BY <1>1, <1>3, <2>2, <2>4, <2>5, <3>1, <3>2, <3>4 DEF WireFollows
  <2>7. PageFollows'
    BY <1>1, <2>4 DEF LogInv, PageFollows
  <2> QED BY <1>1, <1>6, <1>7, <1>8, <2>2, <2>6, <2>7 DEF LogInv
<1>9. CASE ~(conn \in held.to /\ socket = "open")
  <2>1. UNCHANGED wire
    BY <1>2, <1>9
  <2>2. Pending' = Pending /\ First' = First /\ Follow' = Follow /\ Reached' = Reached
    BY <1>1, <2>1 DEF Pending, First, Follow, Reached
  <2>3. WireFollows'
    <3> SUFFICES ASSUME socket = "open" PROVE WireFollows'
      BY <1>1 DEF WireFollows
    <3>1. Follow = 0 /\ Sent < Reached
      BY <1>1, <1>9 DEF LogInv, HeldNext
    <3>2. /\ Reached <= Written /\ (Pending => wire[1].items = Stretch(run, Fewest(Reached), Reached))
      BY DEF LogInv, WireFollows
    <3>3. (First + 1)..Len(wire) = {} /\ Reached \in Nat
      BY <3>1, WireIs
    <3> QED BY <1>1, <1>3, <2>1, <2>2, <3>1, <3>2, <3>3 DEF WireFollows
  <2>4. PageFollows'
    BY <1>1, <2>2 DEF LogInv, PageFollows
  <2> QED BY <1>1, <1>6, <1>7, <2>1, <2>3, <2>4 DEF LogInv
<1> QED BY <1>8, <1>9

LEMMA ConnectKeeps ==
  ASSUME LogInv, Log!Connect
  PROVE  LogInv'
<1> USE DEF Log!Connect, Log!server, Log!page
<1>1. /\ UNCHANGED <<next, run, queue, held, logs, seen, cleared>>
      /\ conn' = conn + 1 /\ known' = known \cup {conn'} /\ socket' = "open"
  OBVIOUS
<1> PICK w : w = Written
  OBVIOUS
<1>2. w \in Nat /\ Written' = w /\ Sent' = Sent /\ Sent \in 0..w /\ w = next - 1 /\ run \in Nat
  BY <1>1, QueueIs DEF Written, Sent, LogInv
<1>3. Log!Buffer = Stretch(run, Fewest(w), w)
  <2>1. [i \in 1..(next - 1) |-> [run |-> run, seq |-> i]] = Stretch(run, w, w)
    BY <1>2 DEF Stretch, Line
  <2> QED BY <1>2, <2>1, StretchLast DEF Log!Buffer
<1> PICK m : m = [items |-> Stretch(run, Fewest(w), w), snapshot |-> TRUE, latest |-> w]
  OBVIOUS
<1>4. wire' = <<m>>
  BY <1>2, <1>3
<1>5. m \in OnWire
  <2>1. Fewest(w) \in Nat
    BY <1>2, LogAssumption DEF LogAssumption, Fewest
  <2> QED BY <1>2, <2>1, StretchTyped DEF OnWire
<1>6. wire' \in Seq(OnWire) /\ Len(wire') = 1 /\ wire'[1] = m /\ wire' # <<>>
  <2>1. Len(<<m>>) = 1 /\ <<m>>[1] = m /\ <<m>> # <<>>
    OBVIOUS
  <2>2. <<m>> \in Seq(OnWire)
    BY <1>5
  <2> QED BY <1>4, <2>1, <2>2
<1>7. Pending' = TRUE /\ First' = 1 /\ Follow' = 0 /\ Reached' = w
  BY <1>6 DEF Pending, First, Follow, Reached
<1>8. QueueHolds' /\ WithoutGap' /\ PageFollows'
  BY <1>1, <1>7 DEF LogInv, QueueHolds, WithoutGap, PageFollows, Written
<1>9. HeldNext'
  <2> SUFFICES ASSUME held # Log!Nothing PROVE HeldNext'
    BY <1>1 DEF HeldNext
  <2>1. Len(queue) < w /\ held.line = Line(run, w - Len(queue))
    BY DEF LogInv, HeldNext
  <2>2. Sent < w
    BY <1>2, <2>1, QueueIs DEF Sent
  <2> QED BY <1>1, <1>2, <1>7, <2>1, <2>2 DEF HeldNext
<1>10. WireFollows'
  <2>1. 2..1 = {} /\ (1 + 1)..Len(wire') = {}
    BY <1>6
  <2>2. wire'[1].items = Stretch(run, Fewest(w), w)
    BY <1>6
  <2> QED BY <1>1, <1>2, <1>7, <2>1, <2>2 DEF WireFollows
<1>11. conn' \in Nat /\ conn' \in known'
  BY <1>1 DEF LogInv
<1> QED BY <1>1, <1>6, <1>8, <1>9, <1>10, <1>11 DEF LogInv

\* The connection breaks, or is not made; the backend restarts; the user clears the list.
LEMMA ClosedKeeps ==
  ASSUME LogInv, Log!ConnectFails \/ Log!Break
  PROVE  LogInv'
<1>1. /\ UNCHANGED <<next, run, queue, held, conn, logs, seen, cleared>>
      /\ socket' = "closed" /\ wire' = <<>>
  BY DEF LogInv, Log!ConnectFails, Log!Break, Log!server, Log!page
<1>2. wire' \in Seq(OnWire)
  BY <1>1, EmptySeq
<1>3. QueueHolds' /\ WithoutGap' /\ PageFollows' /\ HeldNext' /\ WireFollows'
  BY <1>1 DEF LogInv, QueueHolds, WithoutGap, PageFollows, HeldNext, WireFollows, Written
<1> QED BY <1>1, <1>2, <1>3 DEF LogInv

LEMMA BackendRestarts ==
  ASSUME LogInv, Log!Restart
  PROVE  LogInv'
<1>1. /\ next' = 1 /\ run' = run + 1 /\ queue' = <<>> /\ held' = Log!Nothing
      /\ UNCHANGED <<conn, logs, seen, cleared>>
      /\ socket' = "closed" /\ wire' = <<>>
  BY DEF Log!Restart, Log!page
<1>2. wire' \in Seq(OnWire)
  BY <1>1, EmptySeq
<1>3. WithoutGap' /\ PageFollows' /\ HeldNext' /\ WireFollows'
  BY <1>1 DEF LogInv, WithoutGap, PageFollows, HeldNext, WireFollows
<1>4. QueueHolds'
  <2>1. Written' = 0
    BY <1>1 DEF Written
  <2>2. queue' = Stretch(run', 0, 0)
    BY <1>1 DEF Stretch
  <2> QED BY <2>1, <2>2 DEF QueueHolds
<1>5. next' \in Nat /\ next' >= 1 /\ run' \in Nat
  BY <1>1 DEF LogInv
<1> QED BY <1>1, <1>2, <1>3, <1>4, <1>5 DEF LogInv

LEMMA ClearKeeps ==
  ASSUME LogInv, Log!Clear
  PROVE  LogInv'
<1>1. /\ UNCHANGED <<next, run, queue, held, known, conn, socket, wire, seen>>
      /\ logs' = <<>> /\ cleared' = TRUE
  BY DEF Log!Clear, Log!server
<1>2. UNCHANGED <<Written, Sent, Pending, First, Follow, Reached>>
  BY <1>1 DEF Written, Sent, Pending, First, Follow, Reached
<1>3. QueueHolds' /\ HeldNext'
  BY <1>1, <1>2 DEF LogInv, QueueHolds, HeldNext
<1>4. WireFollows'
  BY <1>1, <1>2 DEF LogInv, WireFollows
<1>5. PageFollows' /\ WithoutGap'
  <2>1. logs' = Stretch(run, 0, seen) /\ Len(logs') = 0
    BY <1>1 DEF Stretch
  <2>2. 0 \in 0..seen /\ 0 <= MaxItems
    BY LogAssumption DEF LogAssumption, LogInv
  <2> QED BY <1>1, <2>1, <2>2 DEF PageFollows, WithoutGap
<1> QED BY <1>1, <1>3, <1>4, <1>5 DEF LogInv

\* What is received is Tail of the wire and follows what the page has.
LEMMA Received ==
  ASSUME LogInv, wire # <<>>
  PROVE  /\ Tail(wire) \in Seq(OnWire) /\ Len(Tail(wire)) = Len(wire) - 1 /\ Len(wire) > 0
         /\ \A i \in 1..(Len(wire) - 1) : Tail(wire)[i] = wire[i + 1]
         /\ Tail(wire) # <<>> => ~Tail(wire)[1].snapshot
         /\ socket = "open" /\ Head(wire) = wire[1] /\ wire[1] \in OnWire
<1>1. wire \in Seq(OnWire) /\ Len(wire) > 0 /\ Len(wire) \in Nat
  BY DEF LogInv
<1>2. /\ Tail(wire) \in Seq(OnWire) /\ Len(Tail(wire)) = Len(wire) - 1
      /\ \A i \in 1..(Len(wire) - 1) : Tail(wire)[i] = wire[i + 1]
  BY <1>1, HeadTailProperties
<1>3. socket = "open" /\ Head(wire) = wire[1] /\ wire[1] \in OnWire
  BY <1>1, WireIs DEF LogInv
<1>4. ASSUME Tail(wire) # <<>> PROVE ~Tail(wire)[1].snapshot
  <2>1. Len(wire) > 1
    BY <1>1, <1>2, <1>4, EmptySeq
  <2>2. 2 \in (First + 1)..Len(wire) /\ Tail(wire)[1] = wire[2]
    BY <1>1, <1>2, <2>1, WireIs
  <2>3. wire[2] = [items |-> <<Line(run, (Sent - Len(wire)) + 2)>>, snapshot |-> FALSE, latest |-> 0]
    BY <1>3, <2>2 DEF LogInv, WireFollows
  <2> QED BY <2>2, <2>3
<1> QED BY <1>1, <1>2, <1>3, <1>4

LEMMA ShownWithoutGap ==
  ASSUME NEW r, NEW n \in Nat, NEW e \in Nat, logs' = Stretch(r, n, e)
  PROVE  WithoutGap'
<1>1. Len(logs') = n /\ \A i \in 1..n : logs'[i] = Line(r, (e - n) + i)
  BY StretchIs
<1>2. ASSUME NEW i \in 1..(n - 1) PROVE logs'[i + 1] = [logs'[i] EXCEPT !.seq = @ + 1]
  <2>1. logs'[i] = [run |-> r, seq |-> (e - n) + i] /\ logs'[i + 1] = [run |-> r, seq |-> (e - n) + (i + 1)]
    BY <1>1 DEF Line
  <2>2. PICK a : a = (e - n) + i
    OBVIOUS
  <2>3. a + 1 = (e - n) + (i + 1) /\ a \in Int
    BY <2>2
  <2>4. [[run |-> r, seq |-> a] EXCEPT !.seq = @ + 1] = [run |-> r, seq |-> a + 1]
    OBVIOUS
  <2> QED BY <2>1, <2>2, <2>3, <2>4
<1> QED BY <1>1, <1>2 DEF WithoutGap

LEMMA ReceiveKeeps ==
  ASSUME LogInv, Log!Receive
  PROVE  LogInv'
<1> PICK message : message = wire[1]
  OBVIOUS
<1>1. /\ wire # <<>> /\ wire' = Tail(wire) /\ message = Head(wire) /\ message \in OnWire
      /\ UNCHANGED <<next, run, queue, held, known, conn, socket>>
      /\ socket = "open" /\ Len(wire) > 0 /\ Len(wire) \in Nat
  <2>1. wire # <<>> /\ wire' = Tail(wire) /\ UNCHANGED <<next, run, queue, held, known, conn, socket>>
    BY DEF Log!Receive, Log!server
  <2> QED BY <2>1, Received, WireIs
<1>2. /\ wire' \in Seq(OnWire) /\ Len(wire') = Len(wire) - 1
      /\ \A i \in 1..(Len(wire) - 1) : wire'[i] = wire[i + 1]
      /\ Pending' = FALSE
  BY <1>1, Received DEF Pending
<1>3. First' = 0 /\ Follow' = Len(wire) - 1 /\ Reached' = seen' /\ Written' = Written /\ Sent' = Sent
      /\ Sent \in Nat /\ Written \in Nat
  BY <1>1, <1>2, QueueIs DEF First, Follow, Reached, Written, Sent
<1>4. /\ Reached <= Written /\ Follow <= Sent /\ Sent <= Reached + Follow
      /\ \A i \in (First + 1)..Len(wire) :
           wire[i] = [items |-> <<Line(run, (Sent - Len(wire)) + i)>>, snapshot |-> FALSE, latest |-> 0]
      /\ Pending => wire[1].items = Stretch(run, Fewest(Reached), Reached)
      /\ First \in {0, 1} /\ Len(wire) = Follow + First /\ Reached \in Nat /\ Follow \in Nat
  BY <1>1, WireIs DEF LogInv, WireFollows
<1>0. /\ Reached <= Written /\ Follow <= Sent /\ Sent <= Reached + Follow
      /\ First \in {0, 1} /\ Len(wire) = Follow + First /\ Reached \in Nat /\ Follow \in Nat
  BY <1>4
<1>5. ASSUME NEW i \in 1..(Len(wire) - 1)
      PROVE  wire'[i] = [items |-> <<Line(run, (Sent - (Len(wire) - 1)) + i)>>, snapshot |-> FALSE, latest |-> 0]
  <2>1. i + 1 \in (First + 1)..Len(wire) /\ (Sent - (Len(wire) - 1)) + i = (Sent - Len(wire)) + (i + 1)
    BY <1>1, <1>3, <1>4
  <2> QED BY <1>2, <1>4, <2>1
<1>6. QueueHolds'
  BY <1>1, <1>3 DEF LogInv, QueueHolds
<1>7. CASE message.snapshot
  <2>1. logs' = Log!LastItems(message.items) /\ cleared' = FALSE /\ seen' = message.latest
    BY <1>1, <1>7 DEF Log!Receive, Log!Snapshot
  <2>2. Pending /\ First = 1 /\ seen' = Reached
    BY <1>1, <1>7, <2>1 DEF Pending, First, Reached
  <2> PICK l : l = Reached
    OBVIOUS
  <2>3. l \in Nat /\ Fewest(l) \in Nat /\ Fewest(Fewest(l)) = Fewest(l) /\ Fewest(l) <= MaxItems /\ Fewest(l) \in 0..l
    BY <1>4, LogAssumption DEF LogAssumption, Fewest
  <2>4. logs' = Stretch(run, Fewest(l), l)
    BY <1>4, <2>1, <2>2, <2>3, StretchLast
  <2>5. WithoutGap'
    BY <2>3, <2>4, ShownWithoutGap
  <2>6. PageFollows'
    BY <1>1, <2>1, <2>2, <2>3, <2>4 DEF PageFollows
  <2>7. Follow = Follow' /\ Reached' = Reached
    BY <1>3, <1>4, <2>2
  <2>8. WireFollows'
    <3>1. Reached' <= Written' /\ Follow' <= Sent' /\ Sent' <= Reached' + Follow'
      BY <1>0, <1>3, <2>7
    <3>2. First' = 0 /\ Len(wire') = Len(wire) - 1 /\ Sent' = Sent /\ run' = run /\ Pending' = FALSE
      BY <1>1, <1>2, <1>3
    <3> QED BY <1>5, <3>1, <3>2 DEF WireFollows
  <2>9. HeldNext'
    BY <1>1, <1>3, <2>7 DEF LogInv, HeldNext
  <2> QED BY <1>1, <1>2, <1>6, <2>1, <2>2, <2>3, <2>5, <2>6, <2>8, <2>9 DEF LogInv
<1>8. CASE ~message.snapshot
  <2>1. ~Pending /\ First = 0 /\ Reached = seen /\ Follow = Len(wire)
    BY <1>1, <1>4, <1>8 DEF Pending, First, Reached
  <2> PICK number : number = (Sent - Len(wire)) + 1
    OBVIOUS
  <2>2. message = [items |-> <<Line(run, number)>>, snapshot |-> FALSE, latest |-> 0]
    BY <1>1, <1>4, <2>1
  <2>3. message.items[1] = [run |-> run, seq |-> number] /\ message.items[1].seq = number
    BY <2>2 DEF Line
  <2>4. number \in Int /\ number <= seen + 1 /\ seen \in Nat /\ number <= Written /\ number > 0
    <3>1. Sent \in Nat /\ Sent <= Written /\ Written \in Nat /\ Follow > 0
      BY <1>1, <2>1, QueueIs
    <3>2. Len(wire) = Follow /\ Reached = seen
      BY <2>1
    <3> QED BY <1>0, <3>1, <3>2
  <2>5. /\ cleared' = cleared
        /\ IF number <= seen THEN UNCHANGED <<logs, seen>>
           ELSE logs' = Log!LastItems(Append(logs, message.items[1])) /\ seen' = number
    BY <1>1, <1>8, <2>3 DEF Log!Receive
  <2>6. HeldNext'
    <3>1. ~(held # Log!Nothing /\ conn \notin held.to)
      BY <1>1, <1>4, <2>1 DEF LogInv, HeldNext
    <3> QED BY <1>1, <1>3, <3>1 DEF LogInv, HeldNext
  <2>7. seen' \in Nat /\ seen' <= Written /\ number <= seen'
    BY <1>4, <2>1, <2>4, <2>5
  <2>8. WireFollows'
    <3>1. Reached' <= Written /\ Follow' <= Sent /\ Sent <= Reached' + Follow'
      <4>1. Reached' = seen' /\ Follow' = Follow - 1 /\ Follow = Len(wire) /\ number = (Sent - Follow) + 1
        BY <1>3, <2>1
      <4>2. Follow > 0 /\ Sent \in Nat
        BY <1>1, <1>3, <2>1
      <4>3. seen' \in Nat /\ number <= seen' /\ Follow \in Nat /\ Follow <= Sent
        BY <1>0, <2>7
      <4>4. Follow' <= Sent /\ Sent <= seen' + Follow'
        BY <4>1, <4>2, <4>3
      <4> QED BY <2>7, <4>1, <4>4
    <3>2. First' = 0 /\ Len(wire') = Len(wire) - 1 /\ Sent' = Sent /\ Written' = Written /\ run' = run /\ Pending' = FALSE
      BY <1>1, <1>2, <1>3
    <3> QED BY <1>5, <3>1, <3>2 DEF WireFollows
  <2> PICK n \in 0..seen : n <= MaxItems /\ logs = Stretch(run, n, seen) /\ (~cleared => n = Fewest(seen))
    BY <1>1, <2>1 DEF LogInv, PageFollows
  <2>9. PageFollows' /\ WithoutGap'
    <3>1. CASE number <= seen
      <4>1. UNCHANGED <<logs, seen, cleared, run, socket>>
        BY <1>1, <2>5, <3>1
      <4>2. PageFollows'
        BY <2>1, <4>1 DEF LogInv, PageFollows
      <4>3. WithoutGap'
        BY <4>1 DEF LogInv, WithoutGap
      <4> QED BY <4>2, <4>3
    <3>2. CASE ~(number <= seen)
      <4>1. number = seen + 1 /\ seen' = seen + 1
        BY <2>4, <2>5, <3>2
      <4>2. Append(logs, message.items[1]) = Stretch(run, n + 1, seen + 1)
        <5>1. message.items[1] = Line(run, seen + 1) /\ n \in Nat
          BY <2>3, <2>4, <4>1 DEF Line
        <5> QED BY <2>4, <5>1, StretchAppend
      <4>3. logs' = Stretch(run, Fewest(n + 1), seen + 1)
        BY <2>4, <2>5, <3>2, <4>2, StretchLast
      <4>4. /\ Fewest(n + 1) \in 0..(seen + 1) /\ Fewest(n + 1) \in Nat /\ Fewest(n + 1) <= MaxItems
            /\ ~cleared => Fewest(n + 1) = Fewest(seen + 1)
        BY <2>4, LogAssumption DEF LogAssumption, Fewest
      <4>5. WithoutGap'
        BY <2>4, <4>3, <4>4, ShownWithoutGap
      <4>6. PageFollows'
        BY <1>1, <2>5, <4>1, <4>3, <4>4 DEF PageFollows
      <4> QED BY <4>5, <4>6
    <3> QED BY <3>1, <3>2
  <2> QED BY <1>1, <1>2, <1>6, <2>5, <2>6, <2>7, <2>8, <2>9 DEF LogInv
<1> QED BY <1>7, <1>8

LEMMA LogNext == LogInv /\ [Log!Next]_(Log!vars) => LogInv'
<1> SUFFICES ASSUME LogInv, [Log!Next]_(Log!vars) PROVE LogInv'
  OBVIOUS
<1>1. CASE UNCHANGED Log!vars
  <2>1. UNCHANGED <<next, run, queue, held, known, conn, socket, wire, logs, seen, cleared>>
    BY <1>1 DEF Log!vars
  <2> QED BY <2>1 DEF LogInv, QueueHolds, HeldNext, WireFollows, PageFollows, WithoutGap, Sent, Written, Pending,
     First, Follow, Reached
<1> QED BY <1>1, LogKeeps, TakeKeeps, BroadcastKeeps, ConnectKeeps, ClosedKeeps, BackendRestarts,
     ReceiveKeeps, ClearKeeps DEF Log!Next

\* The last lines of a stretch are a suffix of it, as SequencesExt says it: backwards, a prefix.
LEMMA StretchSuffix ==
  ASSUME NEW r, NEW n \in Nat, NEW k \in Nat, NEW e \in Nat, k <= n
  PROVE  Log!IsSuffix(Stretch(r, k, e), Stretch(r, n, e))
<1> DEFINE back(j) == [i \in 1..j |-> Line(r, e - i + 1)]
<1>1. ASSUME NEW j \in Nat PROVE Log!Reverse(Stretch(r, j, e)) = back(j)
  <2> PICK s : s = Stretch(r, j, e)
    OBVIOUS
  <2>1. Len(s) = j
    BY StretchIs
  <2>2. \A i \in 1..j : s[i] = Line(r, (e - j) + i)
    BY DEF Stretch
  <2>3. \A i \in 1..j : s[(j - i) + 1] = Line(r, e - i + 1)
    <3> TAKE i \in 1..j
    <3>1. (j - i) + 1 \in 1..j /\ (e - j) + ((j - i) + 1) = e - i + 1
      OBVIOUS
    <3> QED BY <2>2, <3>1
  <2> QED BY <2>1, <2>3 DEF Log!Reverse
<1>2. ASSUME NEW j \in Nat PROVE Len(back(j)) = j /\ \A i \in 1..j : back(j)[i] = Line(r, e - i + 1)
  <2>1. back(j) \in [1..j -> {Line(r, e - i + 1) : i \in 1..j}]
    OBVIOUS
  <2>2. back(j) \in Seq({Line(r, e - i + 1) : i \in 1..j})
    BY <2>1, SeqDef
  <2> QED BY <2>1, <2>2, LenProperties
<1> HIDE DEF back
<1>3. ASSUME NEW j \in Nat, k <= j PROVE SubSeq(back(j), 1, k) = [i \in 1..k |-> Line(r, e - i + 1)]
  <2>1. SubSeq(back(j), 1, k) = [i \in 1..k |-> back(j)[i]]
    OBVIOUS
  <2> QED BY <1>2, <1>3, <2>1
<1> QED BY <1>1, <1>2, <1>3 DEF Log!IsSuffix, Log!IsPrefix

\* A page shows the log without a gap and without a line twice, and all of it there is room for
\* when nothing is under way (backend_log_service.py, useBackendLogs).
THEOREM LogSafe == Log!Spec => []LogsComplete
<1>1. LogInv => LogsComplete
  <2> SUFFICES ASSUME LogInv PROVE LogsComplete
    OBVIOUS
  <2>1. \A i \in 1..(Len(logs) - 1) : logs[i + 1] = [logs[i] EXCEPT !.seq = @ + 1]
    BY DEF LogInv, WithoutGap
  <2>2. ASSUME socket = "open", wire = <<>>, queue = <<>>, held = Log!Nothing
        PROVE  IF cleared THEN Log!IsSuffix(logs, Log!Buffer) ELSE logs = Log!Buffer
    <3> PICK w : w = Written
      OBVIOUS
    <3>1. ~Pending /\ First = 0 /\ Follow = 0 /\ Reached = seen
      BY <2>2 DEF Pending, First, Follow, Reached
    <3>2. Sent = w /\ w \in Nat /\ w = next - 1
      BY <2>2, QueueIs DEF Sent, Written, LogInv
    <3>3. seen = w
      BY <2>2, <3>1, <3>2 DEF LogInv, WireFollows
    <3>4. Log!Buffer = Stretch(run, Fewest(w), w)
      <4>1. [i \in 1..(next - 1) |-> [run |-> run, seq |-> i]] = Stretch(run, w, w)
        BY <3>2 DEF Stretch, Line
      <4> QED BY <3>2, <4>1, StretchLast DEF Log!Buffer
    <3>5. PICK n \in 0..w : n <= MaxItems /\ logs = Stretch(run, n, w) /\ (~cleared => n = Fewest(w))
      BY <2>2, <3>1, <3>3 DEF LogInv, PageFollows
    <3>6. n \in Nat /\ Fewest(w) \in Nat /\ n <= Fewest(w)
      BY <3>2, <3>5, LogAssumption DEF LogAssumption, Fewest
    <3> QED BY <3>2, <3>4, <3>5, <3>6, StretchSuffix
  <2> QED BY <2>1, <2>2 DEF LogsComplete, Log!LogsComplete
<1>2. LogInv /\ [Log!Next]_(Log!vars) => LogInv'
  BY LogNext
<1> QED BY <1>1, <1>2, LogStarts, PTL DEF Log!Spec, Log!vars

-----------------------------------------------------------------------------
(* Folds: what FoldLeft has after each element, by induction over their number *)

\* Every nonempty set of numbers has a least one.
LessThan == {r \in Nat \X Nat : r[1] < r[2]}
LEMMA Least ==
  ASSUME NEW S \in SUBSET Nat, S # {}
  PROVE  \E p \in S : \A q \in S : p <= q
<1>1. IsWellFoundedOn(LessThan, Nat)
  BY NatLessThanWellFounded DEF OpToRel, LessThan
<1>2. PICK p \in S : \A q \in S : <<q, p>> \notin LessThan
  BY <1>1, WFMin
<1>3. ASSUME NEW q \in S PROVE p <= q
  <2>1. p \in Nat /\ q \in Nat /\ ~(q < p)
    BY <1>2 DEF LessThan
  <2> QED BY <2>1
<1> QED BY <1>3

\* What holds of 0 and goes on from k - 1 to k holds up to n.
LEMMA UpTo ==
  ASSUME NEW n \in Nat, NEW H, 0 \in H, \A k \in 1..n : k - 1 \in H => k \in H
  PROVE  \A k \in 0..n : k \in H
<1> DEFINE Bad == {k \in 0..n : k \notin H}
<1> SUFFICES ASSUME Bad # {} PROVE FALSE
  OBVIOUS
<1>1. PICK k \in Bad : \A q \in Bad : k <= q
  <2>1. Bad \in SUBSET Nat
    OBVIOUS
  <2> HIDE DEF Bad
  <2> QED BY <2>1, Least
<1>2. k # 0 /\ k \in 1..n /\ k - 1 \in 0..n
  BY <1>1
<1>3. k - 1 \notin Bad
  BY <1>1, <1>2
<1> QED BY <1>1, <1>2, <1>3

\* The greatest of some numbers up to n.
LEMMA MaxIs ==
  ASSUME NEW n \in Nat, NEW S \in SUBSET (1..n), S # {}
  PROVE  Base!Max(S) \in S /\ \A y \in S : y <= Base!Max(S)
<1> DEFINE Above == {u \in Nat : \A y \in S : y <= u}
<1>1. PICK u \in Above : \A q \in Above : u <= q
  <2>1. Above \in SUBSET Nat /\ n \in Above
    OBVIOUS
  <2> HIDE DEF Above
  <2> QED BY <2>1, Least
<1>2. u \in S
  <2> SUFFICES ASSUME u \notin S PROVE FALSE
    OBVIOUS
  <2>1. u \in Nat /\ \A y \in S : y \in Nat /\ y <= u /\ y # u /\ y >= 1
    BY <1>1
  <2>2. u # 0
    <3>1. PICK y \in S : TRUE
      OBVIOUS
    <3> QED BY <2>1, <3>1
  <2>3. u - 1 \in Above
    BY <2>1, <2>2
  <2> QED BY <1>1, <2>1, <2>2, <2>3
<1>3. \A y \in S : u >= y
  BY <1>1
<1>4. Base!Max(S) \in S /\ \A y \in S : Base!Max(S) >= y
  BY <1>2, <1>3 DEF Base!Max
<1> QED BY <1>4

\* The function that FoldLeft defines, with its operator as a function of what it has so far and
\* of an index.
FoldsTo(it, n, b, G) ==
  it = [S \in SUBSET (1..n) |-> IF S = {} THEN b ELSE G[<<it[S \ {Base!Max(S)}], Base!Max(S)>>]]

LEMMA FoldExists ==
  ASSUME NEW n \in Nat, NEW B, NEW b \in B, NEW G \in [B \X (1..n) -> B]
  PROVE  \E it \in [SUBSET (1..n) -> B] : FoldsTo(it, n, b, G)
<1> DEFINE H == {k \in 0..n : \E it \in [SUBSET (1..k) -> B] : FoldsTo(it, k, b, G)}
<1>1. 0 \in H
  <2> DEFINE it == [S \in SUBSET (1..0) |-> b]
  <2>0. \A S \in SUBSET (1..0) : S = {}
    OBVIOUS
  <2>1. it \in [SUBSET (1..0) -> B]
    OBVIOUS
  <2>2. it = [S \in SUBSET (1..0) |-> IF S = {} THEN b ELSE G[<<it[S \ {Base!Max(S)}], Base!Max(S)>>]]
    BY <2>0
  <2> HIDE DEF it
  <2>3. FoldsTo(it, 0, b, G)
    BY <2>2 DEF FoldsTo
  <2>4. 0 \in 0..n
    OBVIOUS
  <2> QED BY <2>1, <2>3, <2>4
<1>2. ASSUME NEW k \in 1..n, k - 1 \in H PROVE k \in H
  <2>1. PICK g \in [SUBSET (1..(k - 1)) -> B] : FoldsTo(g, k - 1, b, G)
    BY <1>2
  <2> DEFINE it == [S \in SUBSET (1..k) |-> IF k \in S THEN G[<<g[S \ {k}], k>>] ELSE g[S]]
  <2>2. \A S \in SUBSET (1..k) : S \ {k} \in SUBSET (1..(k - 1)) /\ (k \notin S => S \in SUBSET (1..(k - 1)))
    OBVIOUS
  <2>3. it \in [SUBSET (1..k) -> B]
    <3> SUFFICES ASSUME NEW S \in SUBSET (1..k) PROVE it[S] \in B
      OBVIOUS
    <3>1. CASE k \in S
      <4>1. g[S \ {k}] \in B
        BY <2>1, <2>2
      <4>2. <<g[S \ {k}], k>> \in B \X (1..n)
        BY <4>1
      <4> QED BY <3>1, <4>2
    <3>2. CASE k \notin S
      BY <2>1, <2>2, <3>2
    <3> QED BY <3>1, <3>2
  <2>4. \A S \in SUBSET (1..(k - 1)) : it[S] = g[S]
    <3> SUFFICES ASSUME NEW S \in SUBSET (1..(k - 1)) PROVE it[S] = g[S]
      OBVIOUS
    <3>1. k \notin S /\ S \in SUBSET (1..k)
      OBVIOUS
    <3> QED BY <3>1
  <2>5. \A S \in SUBSET (1..(k - 1)) :
          g[S] = IF S = {} THEN b ELSE G[<<g[S \ {Base!Max(S)}], Base!Max(S)>>]
    BY <2>1 DEF FoldsTo
  <2>6. ASSUME NEW S \in SUBSET (1..k)
        PROVE  it[S] = IF S = {} THEN b ELSE G[<<it[S \ {Base!Max(S)}], Base!Max(S)>>]
    <3>1. CASE k \in S
      <4>0. k \in Nat
        OBVIOUS
      <4>1. Base!Max(S) \in S /\ k <= Base!Max(S)
        BY <3>1, <4>0, MaxIs
      <4>2. Base!Max(S) = k
        <5>1. Base!Max(S) \in 1..k
          BY <4>1
        <5> QED BY <4>0, <4>1, <5>1
      <4>3. it[S \ {k}] = g[S \ {k}]
        BY <2>2, <2>4
      <4>4. it[S] = G[<<g[S \ {k}], k>>]
        BY <3>1
      <4> HIDE DEF it
      <4> QED BY <3>1, <4>2, <4>3, <4>4
    <3>2. CASE k \notin S
      <4>1. S \in SUBSET (1..(k - 1)) /\ S \ {Base!Max(S)} \in SUBSET (1..(k - 1))
        BY <2>2, <3>2
      <4> HIDE DEF it
      <4> QED BY <2>4, <2>5, <4>1
    <3> QED BY <3>1, <3>2
  <2>7. it = [S \in SUBSET (1..k) |-> it[S]]
    OBVIOUS
  <2> HIDE DEF it
  <2>8. FoldsTo(it, k, b, G)
    BY <2>6, <2>7 DEF FoldsTo
  <2>9. k \in 0..n
    OBVIOUS
  <2> QED BY <2>3, <2>8, <2>9
<1> HIDE DEF H
<1>3. n \in H
  BY <1>1, <1>2, UpTo
<1> QED BY <1>3 DEF H

\* What it has after each element.
FoldsIn(h, n, B, b, G) ==
  /\ h[{}] = b
  /\ \A S \in SUBSET (1..n) :
       S # {} /\ h[S \ {Base!Max(S)}] \in B => h[S] = G[<<h[S \ {Base!Max(S)}], Base!Max(S)>>]
StepsTo(f, last, n, B, b, G) ==
  /\ f \in [0..n -> B] /\ f[0] = b /\ f[n] = last
  /\ \A k \in 1..n : f[k] = G[<<f[k - 1], k>>]

LEMMA FoldSteps ==
  ASSUME NEW n \in Nat, NEW B, NEW b \in B, NEW G \in [B \X (1..n) -> B], NEW h,
         FoldsIn(h, n, B, b, G)
  PROVE  \E f : StepsTo(f, h[1..n], n, B, b, G)
<1>0. /\ h[{}] = b
      /\ \A S \in SUBSET (1..n) :
           S # {} /\ h[S \ {Base!Max(S)}] \in B => h[S] = G[<<h[S \ {Base!Max(S)}], Base!Max(S)>>]
  BY DEF FoldsIn
<1> DEFINE f == [k \in 0..n |-> h[1..k]]
<1>1. ASSUME NEW k \in 1..n, h[1..(k - 1)] \in B
      PROVE  h[1..k] = G[<<h[1..(k - 1)], k>>] /\ h[1..k] \in B
  <2>1. 1..k \in SUBSET (1..n) /\ 1..k # {} /\ (1..k) \ {k} = 1..(k - 1)
    OBVIOUS
  <2>2. Base!Max(1..k) = k
    <3>1. k \in Nat /\ 1..k \in SUBSET (1..k) /\ k \in 1..k
      OBVIOUS
    <3>2. Base!Max(1..k) \in 1..k /\ k <= Base!Max(1..k)
      BY <2>1, <3>1, MaxIs
    <3> QED BY <3>2
  <2>3. h[1..k] = G[<<h[1..(k - 1)], k>>]
    BY <1>0, <1>1, <2>1, <2>2
  <2>4. <<h[1..(k - 1)], k>> \in B \X (1..n)
    BY <1>1
  <2> QED BY <2>3, <2>4
<1> DEFINE H == {k \in 0..n : h[1..k] \in B}
<1>2. 0 \in H
  <2>1. 1..0 = {}
    OBVIOUS
  <2> QED BY <1>0, <2>1
<1>3. \A k \in 1..n : k - 1 \in H => k \in H
  <2> SUFFICES ASSUME NEW k \in 1..n, k - 1 \in H PROVE k \in H
    OBVIOUS
  <2>1. h[1..(k - 1)] \in B /\ k \in 0..n
    OBVIOUS
  <2> QED BY <1>1, <2>1
<1>4. \A k \in 0..n : k \in H
  <2> HIDE DEF H
  <2> QED BY <1>2, <1>3, UpTo
<1>5. f \in [0..n -> B]
  BY <1>4
<1>6. f[0] = b /\ f[n] = h[1..n]
  <2>1. 1..0 = {}
    OBVIOUS
  <2> QED BY <1>0, <2>1
<1>7. ASSUME NEW k \in 1..n PROVE f[k] = G[<<f[k - 1], k>>]
  <2>1. k - 1 \in 0..n /\ k \in 0..n
    OBVIOUS
  <2> QED BY <1>1, <1>4, <2>1
<1> HIDE DEF f
<1> QED BY <1>5, <1>6, <1>7 DEF StepsTo

\* A fold that adds up: W is what there is to add.
AddsUp(it, n, W) ==
  it = [S \in SUBSET (1..n) |-> IF S = {} THEN 0 ELSE it[S \ {Base!Max(S)}] + W[Base!Max(S)]]
\* What W amounts to, after each.
SumsTo(f, last, n, W) ==
  /\ f \in [0..n -> Nat] /\ f[0] = 0 /\ f[n] = last
  /\ \A k \in 1..n : f[k] = f[k - 1] + W[k]

LEMMA MaxThere ==
  ASSUME NEW n \in Nat
  PROVE  \A S \in SUBSET (1..n) : S # {} => Base!Max(S) \in 1..n /\ S \ {Base!Max(S)} \in SUBSET (1..n)
  BY MaxIs

LEMMA AddsUpIs ==
  ASSUME NEW n \in Nat, NEW W \in [1..n -> Nat]
  PROVE  /\ \E it : AddsUp(it, n, W)
         /\ \A h : AddsUp(h, n, W) => \E f : SumsTo(f, h[1..n], n, W)
<1> DEFINE G == [p \in Nat \X (1..n) |-> p[1] + W[p[2]]]
<1>1. G \in [Nat \X (1..n) -> Nat] /\ \A m \in Nat, k \in 1..n : G[<<m, k>>] = m + W[k]
  OBVIOUS
<1> HIDE DEF G
<1>2. \A S \in SUBSET (1..n) : S # {} => Base!Max(S) \in 1..n /\ S \ {Base!Max(S)} \in SUBSET (1..n)
  BY MaxThere
<1>3. \E it : AddsUp(it, n, W)
  <2>1. PICK it \in [SUBSET (1..n) -> Nat] : FoldsTo(it, n, 0, G)
    BY <1>1, FoldExists
  <2>2. \A S \in SUBSET (1..n) : it[S] = IF S = {} THEN 0 ELSE it[S \ {Base!Max(S)}] + W[Base!Max(S)]
    <3>1. ASSUME NEW S \in SUBSET (1..n), S # {} PROVE it[S] = it[S \ {Base!Max(S)}] + W[Base!Max(S)]
      <4>1. it[S] = G[<<it[S \ {Base!Max(S)}], Base!Max(S)>>]
        BY <2>1, <3>1 DEF FoldsTo
      <4>2. it[S \ {Base!Max(S)}] \in Nat /\ Base!Max(S) \in 1..n
        BY <1>2, <2>1, <3>1
      <4> QED BY <1>1, <4>1, <4>2
    <3>2. it[{}] = 0
      BY <2>1 DEF FoldsTo
    <3> QED BY <3>1, <3>2
  <2>3. it = [S \in SUBSET (1..n) |-> IF S = {} THEN 0 ELSE it[S \ {Base!Max(S)}] + W[Base!Max(S)]]
    BY <2>2
  <2> QED BY <2>3 DEF AddsUp
<1>4. ASSUME NEW h, AddsUp(h, n, W) PROVE \E f : SumsTo(f, h[1..n], n, W)
  <2>1. FoldsIn(h, n, Nat, 0, G)
    <3>1. h[{}] = 0
      BY <1>4 DEF AddsUp
    <3>2. \A S \in SUBSET (1..n) : S # {} => h[S] = h[S \ {Base!Max(S)}] + W[Base!Max(S)]
      BY <1>4 DEF AddsUp
    <3> QED BY <1>1, <1>2, <3>1, <3>2 DEF FoldsIn
  <2>2. PICK f : StepsTo(f, h[1..n], n, Nat, 0, G)
    BY <1>1, <2>1, FoldSteps
  <2>3. f \in [0..n -> Nat] /\ f[0] = 0 /\ f[n] = h[1..n] /\ \A k \in 1..n : f[k] = G[<<f[k - 1], k>>]
    BY <2>2 DEF StepsTo
  <2>4. ASSUME NEW k \in 1..n PROVE f[k] = f[k - 1] + W[k]
    <3>1. k - 1 \in 0..n
      OBVIOUS
    <3>2. f[k - 1] \in Nat
      BY <2>3, <3>1
    <3> QED BY <1>1, <2>3, <3>2
  <2> QED BY <2>3, <2>4 DEF SumsTo
<1> QED BY <1>3, <1>4

Sentence == Nat \X Nat \X Nat
Lengths(s) == [k \in 1..Len(s) |-> s[k][3]]
Numbers(s) == [k \in 1..Len(s) |-> s[k]]
ParagraphSize(p) == Base!FoldLeft(+, 0, p)
Sizes(text) == [k \in 1..Len(text) |-> ParagraphSize(text[k])]

LEMMA LengthIs ==
  ASSUME NEW s \in Seq(Sentence)
  PROVE  \E f : SumsTo(f, Base!Length(s), Len(s), Lengths(s))
<1> PICK n : n = Len(s)
  OBVIOUS
<1> PICK W : W = Lengths(s)
  OBVIOUS
<1>1. n \in Nat /\ DOMAIN s = 1..n /\ W \in [1..n -> Nat] /\ \A k \in 1..n : W[k] = s[k][3]
  BY LenProperties DEF Sentence, Lengths
<1>2. \A S \in SUBSET (1..n) : S # {} => Base!Max(S) \in 1..n
  BY <1>1, MaxThere
<1>3. \A it : AddsUp(it, n, W) <=>
          it = [S \in SUBSET (1..n) |-> IF S = {} THEN 0 ELSE it[S \ {Base!Max(S)}] + s[Base!Max(S)][3]]
  <2> TAKE it
  <2>1. [S \in SUBSET (1..n) |-> IF S = {} THEN 0 ELSE it[S \ {Base!Max(S)}] + s[Base!Max(S)][3]]
        = [S \in SUBSET (1..n) |-> IF S = {} THEN 0 ELSE it[S \ {Base!Max(S)}] + W[Base!Max(S)]]
    BY <1>1, <1>2
  <2> QED BY <2>1 DEF AddsUp
<1>4. PICK it : it = [S \in SUBSET (1..n) |-> IF S = {} THEN 0 ELSE it[S \ {Base!Max(S)}] + s[Base!Max(S)][3]]
  <2>1. \E it : AddsUp(it, n, W)
    BY <1>1, AddsUpIs
  <2> QED BY <1>3, <2>1
<1> DEFINE h == CHOOSE i : i = [S \in SUBSET (1..n) |-> IF S = {} THEN 0 ELSE i[S \ {Base!Max(S)}] + s[Base!Max(S)][3]]
<1>5. h = [S \in SUBSET (1..n) |-> IF S = {} THEN 0 ELSE h[S \ {Base!Max(S)}] + s[Base!Max(S)][3]]
  BY <1>4
<1>6. Base!Length(s) = h[1..n]
  BY <1>1 DEF Base!Length, Base!FoldLeft, Base!MapThenFoldSet
<1> HIDE DEF h
<1>7. AddsUp(h, n, W)
  BY <1>3, <1>5
<1> QED BY <1>1, <1>6, <1>7, AddsUpIs

LEMMA ParagraphIs ==
  ASSUME NEW s \in Seq(Nat)
  PROVE  \E f : SumsTo(f, ParagraphSize(s), Len(s), Numbers(s))
<1> PICK n : n = Len(s)
  OBVIOUS
<1> PICK W : W = Numbers(s)
  OBVIOUS
<1>1. n \in Nat /\ DOMAIN s = 1..n /\ W \in [1..n -> Nat] /\ \A k \in 1..n : W[k] = s[k]
  BY LenProperties DEF Numbers
<1>2. \A S \in SUBSET (1..n) : S # {} => Base!Max(S) \in 1..n
  BY <1>1, MaxThere
<1>3. \A it : AddsUp(it, n, W) <=>
          it = [S \in SUBSET (1..n) |-> IF S = {} THEN 0 ELSE it[S \ {Base!Max(S)}] + s[Base!Max(S)]]
  <2> TAKE it
  <2>1. [S \in SUBSET (1..n) |-> IF S = {} THEN 0 ELSE it[S \ {Base!Max(S)}] + s[Base!Max(S)]]
        = [S \in SUBSET (1..n) |-> IF S = {} THEN 0 ELSE it[S \ {Base!Max(S)}] + W[Base!Max(S)]]
    BY <1>1, <1>2
  <2> QED BY <2>1 DEF AddsUp
<1>4. PICK it : it = [S \in SUBSET (1..n) |-> IF S = {} THEN 0 ELSE it[S \ {Base!Max(S)}] + s[Base!Max(S)]]
  <2>1. \E it : AddsUp(it, n, W)
    BY <1>1, AddsUpIs
  <2> QED BY <1>3, <2>1
<1> DEFINE h == CHOOSE i : i = [S \in SUBSET (1..n) |-> IF S = {} THEN 0 ELSE i[S \ {Base!Max(S)}] + s[Base!Max(S)]]
<1>5. h = [S \in SUBSET (1..n) |-> IF S = {} THEN 0 ELSE h[S \ {Base!Max(S)}] + s[Base!Max(S)]]
  BY <1>4
<1>6. ParagraphSize(s) = h[1..n]
  BY <1>1 DEF ParagraphSize, Base!FoldLeft, Base!MapThenFoldSet
<1> HIDE DEF h
<1>7. AddsUp(h, n, W)
  BY <1>3, <1>5
<1> QED BY <1>1, <1>6, <1>7, AddsUpIs

LEMMA ParagraphNat ==
  ASSUME NEW s \in Seq(Nat)
  PROVE  ParagraphSize(s) \in Nat
<1>1. PICK f : SumsTo(f, ParagraphSize(s), Len(s), Numbers(s))
  BY ParagraphIs
<1>2. Len(s) \in Nat
  BY LenProperties
<1>3. f \in [0..Len(s) -> Nat] /\ f[Len(s)] = ParagraphSize(s) /\ Len(s) \in 0..Len(s)
  BY <1>1, <1>2 DEF SumsTo
<1> QED BY <1>3

LEMMA SizeIs ==
  ASSUME NEW text \in Seq(Seq(Nat))
  PROVE  \E f : SumsTo(f, Base!Size(text), Len(text), Sizes(text))
<1> PICK n : n = Len(text)
  OBVIOUS
<1> PICK W : W = Sizes(text)
  OBVIOUS
<1>1. n \in Nat /\ DOMAIN text = 1..n /\ W \in [1..n -> Nat] /\ \A k \in 1..n : W[k] = Base!FoldLeft(+, 0, text[k])
  BY LenProperties, ParagraphNat DEF Sizes, ParagraphSize
<1>2. \A S \in SUBSET (1..n) : S # {} => Base!Max(S) \in 1..n
  BY <1>1, MaxThere
<1>3. \A it : AddsUp(it, n, W) <=>
          it = [S \in SUBSET (1..n) |-> IF S = {} THEN 0 ELSE it[S \ {Base!Max(S)}] + Base!FoldLeft(+, 0, text[Base!Max(S)])]
  <2> TAKE it
  <2>1. [S \in SUBSET (1..n) |-> IF S = {} THEN 0 ELSE it[S \ {Base!Max(S)}] + Base!FoldLeft(+, 0, text[Base!Max(S)])]
        = [S \in SUBSET (1..n) |-> IF S = {} THEN 0 ELSE it[S \ {Base!Max(S)}] + W[Base!Max(S)]]
    BY <1>1, <1>2
  <2> QED BY <2>1 DEF AddsUp
<1>4. PICK it : it = [S \in SUBSET (1..n) |-> IF S = {} THEN 0 ELSE it[S \ {Base!Max(S)}] + Base!FoldLeft(+, 0, text[Base!Max(S)])]
  <2>1. \E it : AddsUp(it, n, W)
    BY <1>1, AddsUpIs
  <2> QED BY <1>3, <2>1
<1> DEFINE h == CHOOSE i : i = [S \in SUBSET (1..n) |-> IF S = {} THEN 0 ELSE i[S \ {Base!Max(S)}] + Base!FoldLeft(+, 0, text[Base!Max(S)])]
<1>5. h = [S \in SUBSET (1..n) |-> IF S = {} THEN 0 ELSE h[S \ {Base!Max(S)}] + Base!FoldLeft(+, 0, text[Base!Max(S)])]
  BY <1>4
<1>6. Base!Size(text) = h[1..n]
  BY <1>1 DEF Base!Size, Base!FoldLeft, Base!MapThenFoldSet
<1> HIDE DEF h
<1>7. AddsUp(h, n, W)
  BY <1>3, <1>5
<1> QED BY <1>1, <1>6, <1>7, AddsUpIs

LEMMA SizeNat ==
  ASSUME NEW text \in Seq(Seq(Nat))
  PROVE  Base!Size(text) \in Nat
<1>1. PICK f : SumsTo(f, Base!Size(text), Len(text), Sizes(text))
  BY SizeIs
<1>2. Len(text) \in Nat
  BY LenProperties
<1>3. f \in [0..Len(text) -> Nat] /\ f[Len(text)] = Base!Size(text) /\ Len(text) \in 0..Len(text)
  BY <1>1, <1>2 DEF SumsTo
<1> QED BY <1>3

-----------------------------------------------------------------------------
(* Knowledge: lengths and sequences joined *)

LEMMA LengthNat ==
  ASSUME NEW s \in Seq(Sentence)
  PROVE  Base!Length(s) \in Nat
<1>1. PICK f : SumsTo(f, Base!Length(s), Len(s), Lengths(s))
  BY LengthIs
<1>2. Len(s) \in Nat
  BY LenProperties
<1>3. f \in [0..Len(s) -> Nat] /\ f[Len(s)] = Base!Length(s) /\ Len(s) \in 0..Len(s)
  BY <1>1, <1>2 DEF SumsTo
<1> QED BY <1>3

LEMMA LengthEmpty == Base!Length(<<>>) = 0
<1>1. <<>> \in Seq(Sentence) /\ Len(<<>>) = 0
  BY EmptySeq
<1>2. PICK f : SumsTo(f, Base!Length(<<>>), Len(<<>>), Lengths(<<>>))
  BY <1>1, LengthIs
<1> QED BY <1>1, <1>2 DEF SumsTo

LEMMA LengthConcat ==
  ASSUME NEW s \in Seq(Sentence), NEW t \in Seq(Sentence)
  PROVE  Base!Length(s \o t) = Base!Length(s) + Base!Length(t)
<1> PICK m : m = Len(s)
  OBVIOUS
<1> PICK n : n = Len(t)
  OBVIOUS
<1>1. /\ m \in Nat /\ n \in Nat /\ s \o t \in Seq(Sentence) /\ Len(s \o t) = m + n
      /\ \A k \in 1..m : (s \o t)[k] = s[k]
      /\ \A k \in 1..n : (s \o t)[m + k] = t[k]
  BY LenProperties, ConcatProperties
<1>2. PICK f : SumsTo(f, Base!Length(s), Len(s), Lengths(s))
  BY LengthIs
<1>3. PICK g : SumsTo(g, Base!Length(t), Len(t), Lengths(t))
  BY LengthIs
<1>4. PICK h : SumsTo(h, Base!Length(s \o t), Len(s \o t), Lengths(s \o t))
  BY <1>1, LengthIs
<1>5. /\ f \in [0..m -> Nat] /\ f[0] = 0 /\ f[m] = Base!Length(s)
      /\ \A k \in 1..m : f[k] = f[k - 1] + s[k][3]
  BY <1>2 DEF SumsTo, Lengths
<1>6. /\ g \in [0..n -> Nat] /\ g[0] = 0 /\ g[n] = Base!Length(t)
      /\ \A k \in 1..n : g[k] = g[k - 1] + t[k][3]
  BY <1>3 DEF SumsTo, Lengths
<1>7. /\ h \in [0..(m + n) -> Nat] /\ h[0] = 0 /\ h[m + n] = Base!Length(s \o t)
      /\ \A k \in 1..(m + n) : h[k] = h[k - 1] + (s \o t)[k][3]
  BY <1>1, <1>4 DEF SumsTo, Lengths
<1>8. \A k \in 0..m : h[k] = f[k]
  <2> DEFINE H == {k \in 0..m : h[k] = f[k]}
  <2>1. 0 \in H
    BY <1>1, <1>5, <1>7
  <2>2. ASSUME NEW k \in 1..m, k - 1 \in H PROVE k \in H
    <3>1. h[k - 1] = f[k - 1] /\ k \in 1..(m + n) /\ k \in 0..m
      BY <1>1, <2>2
    <3>2. h[k] = h[k - 1] + s[k][3] /\ f[k] = f[k - 1] + s[k][3]
      BY <1>1, <1>5, <1>7, <3>1
    <3> QED BY <3>1, <3>2
  <2> HIDE DEF H
  <2>3. \A k \in 0..m : k \in H
    BY <1>1, <2>1, <2>2, UpTo
  <2> QED BY <2>3 DEF H
<1>9. \A k \in 0..n : h[m + k] = f[m] + g[k]
  <2> DEFINE H == {k \in 0..n : h[m + k] = f[m] + g[k]}
  <2>1. 0 \in H
    <3>1. m \in 0..m /\ f[m] \in Nat /\ m + 0 = m
      BY <1>1, <1>5
    <3> QED BY <1>1, <1>6, <1>8, <3>1
  <2>2. ASSUME NEW k \in 1..n, k - 1 \in H PROVE k \in H
    <3>1. h[m + (k - 1)] = f[m] + g[k - 1] /\ m + k \in 1..(m + n) /\ k \in 0..n /\ (m + k) - 1 = m + (k - 1)
      BY <1>1, <2>2
    <3>2. h[m + k] = h[m + (k - 1)] + t[k][3] /\ g[k] = g[k - 1] + t[k][3]
      BY <1>1, <1>6, <1>7, <3>1
    <3>3. t[k][3] \in Nat /\ g[k - 1] \in Nat /\ f[m] \in Nat
      <4>1. k - 1 \in 0..n /\ m \in 0..m /\ t[k] \in Sentence
        BY <1>1, LenProperties
      <4> QED BY <1>5, <1>6, <4>1 DEF Sentence
    <3> QED BY <3>1, <3>2, <3>3
  <2> HIDE DEF H
  <2>3. \A k \in 0..n : k \in H
    BY <1>1, <2>1, <2>2, UpTo
  <2> QED BY <2>3 DEF H
<1>10. n \in 0..n
  BY <1>1
<1> QED BY <1>5, <1>6, <1>7, <1>9, <1>10

\* FlattenSeq joins one sequence after the other; joined[k] is what it has after k of them.
JoinsTo(joined, seqs, n) ==
  joined = [i \in 1..n |-> IF i = 1 THEN seqs[i] ELSE joined[i - 1] \o seqs[i]]
Joins(joined, seqs, S) ==
  /\ joined \in [0..Len(seqs) -> Seq(S)] /\ joined[0] = <<>>
  /\ Base!FlattenSeq(seqs) = joined[Len(seqs)]
  /\ \A i \in 1..Len(seqs) : joined[i] = joined[i - 1] \o seqs[i]

LEMMA JoinExists ==
  ASSUME NEW seqs, NEW n \in Nat
  PROVE  \E joined : JoinsTo(joined, seqs, n)
<1> DEFINE Bad == {k \in Nat : ~ \E joined : JoinsTo(joined, seqs, k)}
<1> SUFFICES ASSUME Bad # {} PROVE FALSE
  OBVIOUS
<1>1. PICK k \in Bad : \A q \in Bad : k <= q
  BY Least
<1>2. CASE k = 0
  <2>1. JoinsTo(<<>>, seqs, 0)
    BY DEF JoinsTo
  <2> QED BY <1>1, <1>2, <2>1
<1>3. CASE k # 0
  <2>1. k - 1 \in Nat /\ k - 1 \notin Bad
    BY <1>1, <1>3
  <2>2. PICK g : JoinsTo(g, seqs, k - 1)
    BY <2>1
  <2> DEFINE f == [i \in 1..k |-> IF i = 1 THEN seqs[i] ELSE IF i = k THEN g[k - 1] \o seqs[i] ELSE g[i]]
  <2>3. \A i \in 1..(k - 1) : g[i] = IF i = 1 THEN seqs[i] ELSE g[i - 1] \o seqs[i]
    BY <2>2 DEF JoinsTo
  <2>4. \A i \in 1..(k - 1) : f[i] = g[i]
    BY <2>1, <2>3
  <2>5. \A i \in 1..k : f[i] = IF i = 1 THEN seqs[i] ELSE f[i - 1] \o seqs[i]
    <3> TAKE i \in 1..k
    <3>1. CASE i = 1
      BY <2>1, <3>1
    <3>2. CASE i # 1 /\ i = k
      <4>1. k - 1 \in 1..(k - 1) /\ k \in 1..k
        BY <2>1, <3>2
      <4>2. f[k - 1] = g[k - 1] /\ f[k] = g[k - 1] \o seqs[k]
        BY <2>4, <3>2, <4>1
      <4> QED BY <3>2, <4>2
    <3>3. CASE i # 1 /\ i # k
      <4>1. i \in 1..(k - 1) /\ i - 1 \in 1..(k - 1)
        BY <2>1, <3>3
      <4> QED BY <2>3, <2>4, <3>3, <4>1
    <3> QED BY <3>1, <3>2, <3>3
  <2>6. JoinsTo(f, seqs, k)
    <3>1. f = [i \in 1..k |-> f[i]]
      OBVIOUS
    <3> HIDE DEF f
    <3> QED BY <2>5, <3>1 DEF JoinsTo
  <2> QED BY <1>1, <2>6
<1> QED BY <1>2, <1>3

LEMMA FlattenIs ==
  ASSUME NEW S, NEW seqs \in Seq(Seq(S))
  PROVE  \E joined : Joins(joined, seqs, S)
<1> PICK n : n = Len(seqs)
  OBVIOUS
<1>1. n \in Nat /\ \A i \in 1..n : seqs[i] \in Seq(S)
  BY LenProperties
<1> DEFINE h == CHOOSE joined : JoinsTo(joined, seqs, n)
<1>2. JoinsTo(h, seqs, n)
  BY <1>1, JoinExists
<1>3. \A i \in 1..n : h[i] = IF i = 1 THEN seqs[i] ELSE h[i - 1] \o seqs[i]
  BY <1>2 DEF JoinsTo
<1>4. n # 0 => Base!FlattenSeq(seqs) = h[n]
  BY DEF Base!FlattenSeq, JoinsTo
<1>5. n = 0 => Base!FlattenSeq(seqs) = <<>>
  BY EmptySeq DEF Base!FlattenSeq
<1> HIDE DEF h
<1>6. \A i \in 1..n : h[i] \in Seq(S)
  <2> DEFINE Bad == {i \in 1..n : h[i] \notin Seq(S)}
  <2> SUFFICES ASSUME Bad # {} PROVE FALSE
    OBVIOUS
  <2>1. PICK k \in Bad : \A q \in Bad : k <= q
    <3>1. Bad \in SUBSET Nat
      BY <1>1
    <3> HIDE DEF Bad
    <3> QED BY <3>1, Least
  <2>2. k = 1 => h[k] \in Seq(S)
    BY <1>1, <1>3
  <2>3. k # 1 => h[k - 1] \in Seq(S)
    BY <1>1, <2>1
  <2>4. k # 1 => h[k] \in Seq(S)
    <3> SUFFICES ASSUME k # 1 PROVE h[k] \in Seq(S)
      OBVIOUS
    <3>1. k \in 1..n /\ h[k - 1] \in Seq(S) /\ seqs[k] \in Seq(S)
      BY <1>1, <2>1, <2>3
    <3>2. h[k] = h[k - 1] \o seqs[k]
      BY <1>3, <3>1
    <3> QED BY <3>1, <3>2, ConcatProperties
  <2> QED BY <2>1, <2>2, <2>4
<1> DEFINE j == [i \in 0..n |-> IF i = 0 THEN <<>> ELSE h[i]]
<1>7. j \in [0..n -> Seq(S)] /\ j[0] = <<>> /\ \A i \in 1..n : j[i] = h[i]
  BY <1>1, <1>6, EmptySeq
<1>8. Base!FlattenSeq(seqs) = j[n]
  BY <1>1, <1>4, <1>5, <1>7
<1>9. \A i \in 1..n : j[i] = j[i - 1] \o seqs[i]
  <2> TAKE i \in 1..n
  <2>1. CASE i = 1
    <3>1. <<>> \o seqs[i] = seqs[i]
      BY <1>1, ConcatEmptySeq
    <3> QED BY <1>1, <1>3, <1>7, <2>1, <3>1
  <2>2. CASE i # 1
    <3>1. i - 1 \in 1..n
      BY <1>1, <2>2
    <3> QED BY <1>3, <1>7, <2>2, <3>1
  <2> QED BY <2>1, <2>2
<1> HIDE DEF j
<1> QED BY <1>7, <1>8, <1>9 DEF Joins

LEMMA FlattenAppend ==
  ASSUME NEW S, NEW seqs \in Seq(Seq(S)), NEW x \in Seq(S)
  PROVE  Base!FlattenSeq(Append(seqs, x)) = Base!FlattenSeq(seqs) \o x
<1> PICK n : n = Len(seqs)
  OBVIOUS
<1> PICK more : more = Append(seqs, x)
  OBVIOUS
<1>1. /\ n \in Nat /\ more \in Seq(Seq(S)) /\ Len(more) = n + 1 /\ more[n + 1] = x
      /\ \A k \in 1..n : more[k] = seqs[k]
  BY LenProperties, AppendProperties
<1>2. PICK j : Joins(j, seqs, S)
  BY FlattenIs
<1>3. PICK h : Joins(h, more, S)
  BY <1>1, FlattenIs
<1>4. /\ j[0] = <<>> /\ Base!FlattenSeq(seqs) = j[n]
      /\ \A k \in 1..n : j[k] = j[k - 1] \o seqs[k]
  BY <1>2 DEF Joins
<1>5. /\ h[0] = <<>> /\ Base!FlattenSeq(more) = h[n + 1]
      /\ \A k \in 1..(n + 1) : h[k] = h[k - 1] \o more[k]
  BY <1>1, <1>3 DEF Joins
<1>6. \A k \in 0..n : h[k] = j[k]
  <2> DEFINE H == {k \in 0..n : h[k] = j[k]}
  <2>1. 0 \in H
    BY <1>1, <1>4, <1>5
  <2>2. ASSUME NEW k \in 1..n, k - 1 \in H PROVE k \in H
    <3>1. h[k - 1] = j[k - 1] /\ k \in 1..(n + 1) /\ k \in 0..n
      BY <1>1, <2>2
    <3> QED BY <1>1, <1>4, <1>5, <3>1
  <2> HIDE DEF H
  <2>3. \A k \in 0..n : k \in H
    BY <1>1, <2>1, <2>2, UpTo
  <2> QED BY <2>3 DEF H
<1>7. h[n + 1] = h[n] \o x
  <2>1. n + 1 \in 1..(n + 1) /\ (n + 1) - 1 = n
    BY <1>1
  <2> QED BY <1>1, <1>5, <2>1
<1>8. h[n] = j[n]
  <2>1. n \in 0..n
    BY <1>1
  <2> QED BY <1>6, <2>1
<1> QED BY <1>4, <1>5, <1>7, <1>8

LEMMA FlattenTyped ==
  ASSUME NEW S, NEW seqs \in Seq(Seq(S))
  PROVE  Base!FlattenSeq(seqs) \in Seq(S)
<1>1. PICK j : Joins(j, seqs, S)
  BY FlattenIs
<1>2. Len(seqs) \in 0..Len(seqs)
  BY LenProperties
<1> QED BY <1>1, <1>2 DEF Joins

LEMMA ListOf ==
  ASSUME NEW S, NEW n \in Nat, NEW f \in [1..n -> S]
  PROVE  f \in Seq(S) /\ Len(f) = n
<1>1. f \in Seq(S)
  BY SeqDef
<1> QED BY <1>1, LenProperties

\* The first k elements.
LEMMA SubSeqGrows ==
  ASSUME NEW S, NEW p \in Seq(S), NEW k \in 1..Len(p)
  PROVE  SubSeq(p, 1, k - 1) \in Seq(S) /\ SubSeq(p, 1, k) = SubSeq(p, 1, k - 1) \o <<p[k]>>
<1>1. Len(p) \in Nat /\ k \in Nat /\ \A i \in 1..Len(p) : p[i] \in S
  BY LenProperties
<1>2. \A j \in 0..Len(p) : SubSeq(p, 1, j) \in Seq(S) /\ Len(SubSeq(p, 1, j)) = j
                           /\ \A i \in 1..j : SubSeq(p, 1, j)[i] = p[i]
  BY <1>1, SubSeqProperties
<1>3. SubSeq(p, 1, k - 1) \in Seq(S) /\ Len(SubSeq(p, 1, k - 1)) = k - 1
      /\ \A i \in 1..(k - 1) : SubSeq(p, 1, k - 1)[i] = p[i]
  BY <1>1, <1>2
<1>4. SubSeq(p, 1, k) \in [1..k -> S] /\ \A i \in 1..k : SubSeq(p, 1, k)[i] = p[i]
  <2>1. SubSeq(p, 1, k) \in Seq(S) /\ Len(SubSeq(p, 1, k)) = k /\ \A i \in 1..k : SubSeq(p, 1, k)[i] = p[i]
    BY <1>1, <1>2
  <2> QED BY <2>1, LenProperties
<1>5. <<p[k]>> \in Seq(S) /\ Len(<<p[k]>>) = 1 /\ <<p[k]>>[1] = p[k]
  BY <1>1
<1> PICK c : c = SubSeq(p, 1, k - 1) \o <<p[k]>>
  OBVIOUS
<1>6. /\ c \in Seq(S) /\ Len(c) = k
      /\ \A i \in 1..(k - 1) : c[i] = p[i]
      /\ c[k] = p[k]
  BY <1>1, <1>3, <1>5, ConcatProperties
<1>7. c = [i \in 1..k |-> c[i]]
  <2>1. c \in [1..k -> S]
    BY <1>6, LenProperties
  <2> QED BY <2>1
<1>8. \A i \in 1..k : c[i] = p[i]
  BY <1>1, <1>6
<1>9. SubSeq(p, 1, k) = [i \in 1..k |-> SubSeq(p, 1, k)[i]]
  BY <1>4
<1>10. c = SubSeq(p, 1, k)
  BY <1>4, <1>7, <1>8, <1>9
<1> QED BY <1>3, <1>10

LEMMA Associative ==
  ASSUME NEW S, NEW s \in Seq(S), NEW t \in Seq(S), NEW u \in Seq(S)
  PROVE  s \o (t \o u) = (s \o t) \o u /\ (s \o t) \o u = s \o (t \o u)
<1>1. (s \o t) \o u = s \o (t \o u)
  BY ConcatAssociative
<1> QED BY <1>1

-----------------------------------------------------------------------------
(* Knowledge: the chunks of a text *)

Chunk == [tail : Nat, body : Seq(Sentence)]
Buffers == [done : Seq(Chunk), current : Seq(Sentence), tail : Nat]
Bodies(l) == [i \in DOMAIN l |-> l[i].body]
Joined(x, y, z) == x \o (y \o z) = (x \o y) \o z
LEMMA AllJoined == \A x, y, z \in Seq(Sentence) : Joined(x, y, z)
  BY Associative DEF Joined
\* No longer than a chunk, or one sentence.
Fits(s) == Base!Length(s) <= MaxChunk \/ Len(s) = 1
InSize(l) ==
  \A i \in 1..Len(l) : l[i].tail <= Overlap /\ (i = 1 => l[i].tail = 0) /\ Fits(l[i].body)
\* The buffer has got s, all of it and in order.
Collected(b, s) ==
  /\ b \in Buffers /\ Base!FlattenSeq(Bodies(b.done)) \o b.current = s
  /\ InSize(b.done) /\ (b.current # <<>> => Fits(b.current))
  /\ b.tail <= Overlap /\ (b.done = <<>> => b.tail = 0)

LEMMA BodiesAre ==
  ASSUME NEW l \in Seq(Chunk)
  PROVE  Bodies(l) \in Seq(Seq(Sentence)) /\ Len(Bodies(l)) = Len(l)
<1> PICK n : n = Len(l)
  OBVIOUS
<1>1. n \in Nat /\ DOMAIN l = 1..n /\ \A i \in 1..n : l[i].body \in Seq(Sentence)
  <2>1. n \in Nat /\ DOMAIN l = 1..n /\ \A i \in 1..n : l[i] \in Chunk
    BY LenProperties
  <2>2. \A c \in Chunk : c.body \in Seq(Sentence)
    BY DEF Chunk
  <2> QED BY <2>1, <2>2
<1>2. Bodies(l) \in [1..n -> Seq(Sentence)]
  BY <1>1 DEF Bodies
<1> QED BY <1>1, <1>2, ListOf

LEMMA BodiesAppend ==
  ASSUME NEW l \in Seq(Chunk), NEW c \in Chunk
  PROVE  Bodies(Append(l, c)) = Append(Bodies(l), c.body)
<1> PICK n : n = Len(l)
  OBVIOUS
<1>1. /\ n \in Nat /\ Append(l, c) \in Seq(Chunk) /\ Len(Append(l, c)) = n + 1 /\ DOMAIN Append(l, c) = 1..(n + 1)
      /\ Append(l, c)[n + 1] = c /\ (\A i \in 1..n : Append(l, c)[i] = l[i]) /\ DOMAIN l = 1..n
      /\ c.body \in Seq(Sentence)
  BY LenProperties, AppendProperties DEF Chunk
<1>2. Bodies(l) \in Seq(Seq(Sentence)) /\ Len(Bodies(l)) = n /\ \A i \in 1..n : Bodies(l)[i] = l[i].body
  BY <1>1, BodiesAre DEF Bodies
<1>3. /\ Append(Bodies(l), c.body) \in [1..(n + 1) -> Seq(Sentence)]
      /\ Append(Bodies(l), c.body)[n + 1] = c.body
      /\ \A i \in 1..n : Append(Bodies(l), c.body)[i] = l[i].body
  <2> PICK q : q = Append(Bodies(l), c.body)
    OBVIOUS
  <2>1. q \in Seq(Seq(Sentence)) /\ Len(q) = n + 1
    BY <1>1, <1>2, AppendProperties
  <2>2. q[n + 1] = c.body /\ \A i \in 1..n : q[i] = Bodies(l)[i]
    BY <1>1, <1>2, AppendProperties
  <2>3. q \in [1..(n + 1) -> Seq(Sentence)]
    BY <2>1, LenProperties
  <2> QED BY <1>2, <2>2, <2>3
<1>4. DOMAIN Bodies(Append(l, c)) = 1..(n + 1) /\ \A i \in 1..(n + 1) : Bodies(Append(l, c))[i] = Append(l, c)[i].body
  BY <1>1 DEF Bodies
<1>5. \A i \in 1..(n + 1) : Bodies(Append(l, c))[i] = Append(Bodies(l), c.body)[i]
  BY <1>1, <1>3, <1>4
<1>6. Bodies(Append(l, c)) = [i \in 1..(n + 1) |-> Bodies(Append(l, c))[i]]
  BY <1>4 DEF Bodies
<1>7. Append(Bodies(l), c.body) = [i \in 1..(n + 1) |-> Append(Bodies(l), c.body)[i]]
  BY <1>3
<1> QED BY <1>5, <1>6, <1>7

LEMMA FlushTyped ==
  ASSUME NEW b \in Buffers
  PROVE  /\ Base!Flush(b) \in Buffers /\ Base!Flush(b).current = <<>>
         /\ Base!Flush(b) = b \/ Base!Flush(b).tail <= Overlap
<1>1. b.done \in Seq(Chunk) /\ b.current \in Seq(Sentence) /\ b.tail \in Nat
  BY DEF Buffers
<1>2. CASE b.current = <<>>
  BY <1>2 DEF Base!Flush
<1>3. CASE b.current # <<>>
  <2> PICK c : c = [tail |-> b.tail, body |-> b.current]
    OBVIOUS
  <2> PICK t : t = IF Overlap < Base!Length(b.current) THEN Overlap ELSE Base!Length(b.current)
    OBVIOUS
  <2>1. c \in Chunk /\ Overlap \in Nat /\ Base!Length(b.current) \in Nat
    BY <1>1, LengthNat, KnowledgeAssumption DEF Chunk, KnowledgeAssumption
  <2>2. t \in Nat /\ t <= Overlap
    BY <2>1
  <2>3. Append(b.done, c) \in Seq(Chunk) /\ <<>> \in Seq(Sentence)
    BY <1>1, <2>1, AppendProperties, EmptySeq
  <2>4. Base!Flush(b) = [done |-> Append(b.done, c), current |-> <<>>, tail |-> t]
    BY <1>3 DEF Base!Flush
  <2> QED BY <2>2, <2>3, <2>4 DEF Buffers
<1> QED BY <1>2, <1>3

LEMMA FlushKeeps ==
  ASSUME NEW b, NEW s, Collected(b, s)
  PROVE  Collected(Base!Flush(b), s)
<1>1. b \in Buffers /\ b.done \in Seq(Chunk) /\ b.current \in Seq(Sentence) /\ b.tail \in Nat
  BY DEF Buffers, Collected
<1>2. CASE b.current = <<>>
  BY <1>2 DEF Base!Flush
<1>3. CASE b.current # <<>>
  <2> PICK c : c = [tail |-> b.tail, body |-> b.current]
    OBVIOUS
  <2> PICK l : l = Append(b.done, c)
    OBVIOUS
  <2> PICK n : n = Len(b.done)
    OBVIOUS
  <2> PICK g : g = Base!Flush(b)
    OBVIOUS
  <2>1. g.done = l /\ g.current = <<>>
    BY <1>3 DEF Base!Flush
  <2>2. g \in Buffers /\ (g = b \/ g.tail <= Overlap)
    BY <1>1, FlushTyped
  <2>3. c \in Chunk /\ c.body = b.current /\ c.tail = b.tail
    BY <1>1 DEF Chunk
  <2>4. n \in Nat /\ Len(l) = n + 1 /\ l[n + 1] = c /\ \A i \in 1..n : l[i] = b.done[i]
    BY <1>1, <2>3, LenProperties, AppendProperties
  <2>5. InSize(l)
    <3> SUFFICES ASSUME NEW i \in 1..(n + 1)
                 PROVE  l[i].tail <= Overlap /\ (i = 1 => l[i].tail = 0) /\ Fits(l[i].body)
      BY <2>4 DEF InSize
    <3>1. CASE i \in 1..n
      BY <2>4, <3>1 DEF Collected, InSize
    <3>2. CASE i = n + 1
      <4>1. i = 1 => b.done = <<>>
        BY <1>1, <2>4, <3>2, EmptySeq
      <4> QED BY <1>3, <2>3, <2>4, <3>2, <4>1 DEF Collected
    <3> QED BY <2>4, <3>1, <3>2
  <2>6. Base!FlattenSeq(Bodies(l)) = s
    <3>1. Bodies(b.done) \in Seq(Seq(Sentence)) /\ Bodies(l) = Append(Bodies(b.done), b.current)
      BY <1>1, <2>3, BodiesAre, BodiesAppend
    <3>2. Base!FlattenSeq(Bodies(l)) = Base!FlattenSeq(Bodies(b.done)) \o b.current
      BY <1>1, <3>1, FlattenAppend
    <3> QED BY <3>2 DEF Collected
  <2>7. Base!FlattenSeq(Bodies(l)) \o <<>> = Base!FlattenSeq(Bodies(l))
    <3>1. l \in Seq(Chunk)
      BY <1>1, <2>3, AppendProperties
    <3>2. Base!FlattenSeq(Bodies(l)) \in Seq(Sentence)
      BY <3>1, BodiesAre, FlattenTyped
    <3> QED BY <3>2, ConcatEmptySeq
  <2>8. l # <<>>
    BY <2>4
  <2>9. g = b \/ g.tail <= Overlap
    BY <2>2
  <2>10. g.tail <= Overlap
    BY <2>9 DEF Collected
  <2> QED BY <2>1, <2>2, <2>5, <2>6, <2>7, <2>8, <2>10 DEF Collected
<1> QED BY <1>2, <1>3

LEMMA PieceTyped ==
  ASSUME NEW b \in Buffers, NEW piece \in Seq(Sentence)
  PROVE  Base!Take(b, piece) \in Buffers
<1> PICK r : r = IF Base!Length(b.current) + Base!Length(piece) > MaxChunk THEN Base!Flush(b) ELSE b
  OBVIOUS
<1>1. r \in Buffers
  BY FlushTyped
<1>2. Base!Take(b, piece) = [r EXCEPT !.current = @ \o piece]
  BY DEF Base!Take
<1>3. r.current \o piece \in Seq(Sentence)
  BY <1>1, ConcatProperties DEF Buffers
<1> QED BY <1>1, <1>2, <1>3 DEF Buffers

LEMMA PieceKeeps ==
  ASSUME NEW b, NEW s, Collected(b, s), NEW piece \in Seq(Sentence), Fits(piece)
  PROVE  Collected(Base!Take(b, piece), s \o piece)
<1> PICK over : over <=> Base!Length(b.current) + Base!Length(piece) > MaxChunk
  OBVIOUS
<1> PICK r : r = IF over THEN Base!Flush(b) ELSE b
  OBVIOUS
<1> PICK g : g = Base!Take(b, piece)
  OBVIOUS
<1>1. b \in Buffers /\ b.current \in Seq(Sentence)
  BY DEF Collected, Buffers
<1>2. Collected(r, s) /\ r \in Buffers /\ r.done \in Seq(Chunk) /\ r.current \in Seq(Sentence)
  <2>1. Collected(r, s)
    BY FlushKeeps
  <2> QED BY <2>1 DEF Collected, Buffers
<1>3. g \in Buffers /\ g.done = r.done /\ g.tail = r.tail /\ g.current = r.current \o piece
  <2>1. g = [r EXCEPT !.current = @ \o piece]
    BY DEF Base!Take
  <2>2. g \in Buffers
    BY <1>1, PieceTyped
  <2> QED BY <1>2, <2>1, <2>2 DEF Buffers
<1>4. Fits(g.current)
  <2>1. CASE over
    <3>1. r.current = <<>>
      BY <1>1, <2>1, FlushTyped
    <3>2. g.current = piece
      BY <1>3, <3>1, ConcatEmptySeq
    <3> QED BY <3>2
  <2>2. CASE ~over
    <3>1. Base!Length(g.current) = Base!Length(b.current) + Base!Length(piece)
      BY <1>1, <1>3, <2>2, LengthConcat
    <3>2. Base!Length(b.current) \in Nat /\ Base!Length(piece) \in Nat /\ MaxChunk \in Nat
      BY <1>1, LengthNat, KnowledgeAssumption DEF KnowledgeAssumption
    <3> QED BY <2>2, <3>1, <3>2 DEF Fits
  <2> QED BY <2>1, <2>2
<1>5. Base!FlattenSeq(Bodies(g.done)) \o g.current = s \o piece
  <2>1. Base!FlattenSeq(Bodies(r.done)) \in Seq(Sentence)
    BY <1>2, BodiesAre, FlattenTyped
  <2>2. Base!FlattenSeq(Bodies(r.done)) \o (r.current \o piece)
        = (Base!FlattenSeq(Bodies(r.done)) \o r.current) \o piece
    <3>1. \A x, y, z \in Seq(Sentence) : Joined(x, y, z)
      BY AllJoined
    <3>2. r.current \in Seq(Sentence)
      BY <1>2
    <3>3. Joined(Base!FlattenSeq(Bodies(r.done)), r.current, piece)
      BY <2>1, <3>1, <3>2
    <3> QED BY <3>3 DEF Joined
  <2>3. Base!FlattenSeq(Bodies(r.done)) \o r.current = s
    BY <1>2 DEF Collected
  <2> QED BY <1>3, <2>2, <2>3
<1> QED BY <1>2, <1>3, <1>4, <1>5 DEF Collected

\* A paragraph by its sentences.
LEMMA SentencesTyped ==
  ASSUME NEW first \in Buffers, NEW p \in Seq(Sentence)
  PROVE  \E f : /\ f \in [0..Len(p) -> Buffers] /\ f[0] = first
                /\ f[Len(p)] = Base!FoldLeft(LAMBDA c, s : Base!Take(c, <<s>>), first, p)
                /\ \A k \in 1..Len(p) : f[k] = Base!Take(f[k - 1], <<p[k]>>)
<1> PICK n : n = Len(p)
  OBVIOUS
<1>1. n \in Nat /\ DOMAIN p = 1..n /\ \A k \in 1..n : <<p[k]>> \in Seq(Sentence)
  BY LenProperties
<1> DEFINE G == [q \in Buffers \X (1..n) |-> Base!Take(q[1], <<p[q[2]]>>)]
<1>2. G \in [Buffers \X (1..n) -> Buffers] /\ \A b \in Buffers, k \in 1..n : G[<<b, k>>] = Base!Take(b, <<p[k]>>)
  BY <1>1, PieceTyped
<1> HIDE DEF G
<1>3. \A S \in SUBSET (1..n) : S # {} => Base!Max(S) \in 1..n /\ S \ {Base!Max(S)} \in SUBSET (1..n)
  BY <1>1, MaxThere
<1>4. PICK it : it = [S \in SUBSET (1..n) |-> IF S = {} THEN first ELSE Base!Take(it[S \ {Base!Max(S)}], <<p[Base!Max(S)]>>)]
  <2>1. PICK it \in [SUBSET (1..n) -> Buffers] : FoldsTo(it, n, first, G)
    BY <1>1, <1>2, FoldExists
  <2>2. ASSUME NEW S \in SUBSET (1..n), S # {} PROVE it[S] = Base!Take(it[S \ {Base!Max(S)}], <<p[Base!Max(S)]>>)
    <3>1. it[S] = G[<<it[S \ {Base!Max(S)}], Base!Max(S)>>]
      BY <2>1, <2>2 DEF FoldsTo
    <3>2. it[S \ {Base!Max(S)}] \in Buffers /\ Base!Max(S) \in 1..n
      BY <1>3, <2>1, <2>2
    <3> QED BY <1>2, <3>1, <3>2
  <2>3. it[{}] = first
    BY <2>1 DEF FoldsTo
  <2>4. it = [S \in SUBSET (1..n) |-> IF S = {} THEN first ELSE Base!Take(it[S \ {Base!Max(S)}], <<p[Base!Max(S)]>>)]
    BY <2>2, <2>3
  <2> QED BY <2>4
<1> DEFINE h == CHOOSE i : i = [S \in SUBSET (1..n) |-> IF S = {} THEN first ELSE Base!Take(i[S \ {Base!Max(S)}], <<p[Base!Max(S)]>>)]
<1>5. h = [S \in SUBSET (1..n) |-> IF S = {} THEN first ELSE Base!Take(h[S \ {Base!Max(S)}], <<p[Base!Max(S)]>>)]
  BY <1>4
<1>6. Base!FoldLeft(LAMBDA c, s : Base!Take(c, <<s>>), first, p) = h[1..n]
  BY <1>1 DEF Base!FoldLeft, Base!MapThenFoldSet
<1> HIDE DEF h
<1>7. FoldsIn(h, n, Buffers, first, G)
  <2>1. h[{}] = first
    BY <1>5
  <2>2. \A S \in SUBSET (1..n) : S # {} => h[S] = Base!Take(h[S \ {Base!Max(S)}], <<p[Base!Max(S)]>>)
    BY <1>5
  <2> QED BY <1>2, <1>3, <2>1, <2>2 DEF FoldsIn
<1>8. PICK f : StepsTo(f, h[1..n], n, Buffers, first, G)
  BY <1>1, <1>2, <1>7, FoldSteps
<1>9. /\ f \in [0..n -> Buffers] /\ f[0] = first /\ f[n] = Base!FoldLeft(LAMBDA c, s : Base!Take(c, <<s>>), first, p)
      /\ \A k \in 1..n : f[k] = Base!Take(f[k - 1], <<p[k]>>)
  <2>1. f \in [0..n -> Buffers] /\ f[0] = first /\ f[n] = h[1..n] /\ \A k \in 1..n : f[k] = G[<<f[k - 1], k>>]
    BY <1>8 DEF StepsTo
  <2>2. ASSUME NEW k \in 1..n PROVE f[k] = Base!Take(f[k - 1], <<p[k]>>)
    <3>1. k - 1 \in 0..n
      BY <1>1
    <3>2. f[k - 1] \in Buffers
      BY <2>1, <3>1
    <3> QED BY <1>2, <2>1, <3>2
  <2> QED BY <1>6, <2>1, <2>2
<1> QED BY <1>9

LEMMA SentencesKeep ==
  ASSUME NEW b, NEW s \in Seq(Sentence), Collected(b, s), NEW p \in Seq(Sentence)
  PROVE  Collected(Base!FoldLeft(LAMBDA c, x : Base!Take(c, <<x>>), b, p), s \o p)
<1> PICK n : n = Len(p)
  OBVIOUS
<1>1. n \in Nat /\ \A k \in 1..n : p[k] \in Sentence /\ <<p[k]>> \in Seq(Sentence)
  BY LenProperties
<1>2. b \in Buffers
  BY DEF Collected
<1>3. PICK f : /\ f \in [0..Len(p) -> Buffers] /\ f[0] = b
               /\ f[Len(p)] = Base!FoldLeft(LAMBDA c, x : Base!Take(c, <<x>>), b, p)
               /\ \A k \in 1..Len(p) : f[k] = Base!Take(f[k - 1], <<p[k]>>)
  BY <1>2, SentencesTyped
<1> DEFINE H == {k \in 0..n : Collected(f[k], s \o SubSeq(p, 1, k))}
<1>4. 0 \in H
  <2>1. SubSeq(p, 1, 0) = <<>>
    BY <1>1, SubSeqProperties
  <2>2. s \o SubSeq(p, 1, 0) = s
    BY <2>1, ConcatEmptySeq
  <2>3. Collected(f[0], s \o SubSeq(p, 1, 0))
    BY <1>3, <2>2
  <2> QED BY <1>1, <2>3
<1>5. ASSUME NEW k \in 1..n, k - 1 \in H PROVE k \in H
  <2>1. Collected(f[k - 1], s \o SubSeq(p, 1, k - 1)) /\ k \in 0..n
    BY <1>5
  <2>2. Fits(<<p[k]>>)
    BY DEF Fits
  <2>3. Collected(f[k], (s \o SubSeq(p, 1, k - 1)) \o <<p[k]>>)
    BY <1>1, <1>3, <2>1, <2>2, PieceKeeps
  <2>4. SubSeq(p, 1, k - 1) \in Seq(Sentence) /\ SubSeq(p, 1, k) = SubSeq(p, 1, k - 1) \o <<p[k]>>
    BY <1>1, SubSeqGrows
  <2>5. (s \o SubSeq(p, 1, k - 1)) \o <<p[k]>> = s \o (SubSeq(p, 1, k - 1) \o <<p[k]>>)
    <3>1. \A x, y, z \in Seq(Sentence) : Joined(x, y, z)
      BY AllJoined
    <3>2. <<p[k]>> \in Seq(Sentence)
      BY <1>1
    <3>3. Joined(s, SubSeq(p, 1, k - 1), <<p[k]>>)
      BY <2>4, <3>1, <3>2
    <3> QED BY <3>3 DEF Joined
  <2> QED BY <2>1, <2>3, <2>4, <2>5
<1>6. n \in H
  <2>1. n \in 0..n
    BY <1>1
  <2> HIDE DEF H
  <2> QED BY <1>1, <1>4, <1>5, <2>1, UpTo
<1>7. SubSeq(p, 1, n) = p
  BY SubSeqFull
<1> QED BY <1>3, <1>6, <1>7

LEMMA ParagraphTyped ==
  ASSUME NEW b \in Buffers, NEW p \in Seq(Sentence)
  PROVE  Base!TakeParagraph(b, p) \in Buffers
<1>1. CASE Base!Length(p) > MaxChunk
  <2>1. Base!Flush(b) \in Buffers
    BY FlushTyped
  <2>2. PICK f : /\ f \in [0..Len(p) -> Buffers]
                 /\ f[Len(p)] = Base!FoldLeft(LAMBDA c, s : Base!Take(c, <<s>>), Base!Flush(b), p)
    BY <2>1, SentencesTyped
  <2>3. Len(p) \in 0..Len(p)
    BY LenProperties
  <2>4. Base!TakeParagraph(b, p) = Base!FoldLeft(LAMBDA c, s : Base!Take(c, <<s>>), Base!Flush(b), p)
    BY <1>1 DEF Base!TakeParagraph
  <2> QED BY <2>2, <2>3, <2>4
<1>2. CASE ~(Base!Length(p) > MaxChunk)
  BY <1>2, PieceTyped DEF Base!TakeParagraph
<1> QED BY <1>1, <1>2

LEMMA ParagraphKeeps ==
  ASSUME NEW b, NEW s \in Seq(Sentence), Collected(b, s), NEW p \in Seq(Sentence)
  PROVE  Collected(Base!TakeParagraph(b, p), s \o p)
<1>1. CASE Base!Length(p) > MaxChunk
  <2>1. Collected(Base!Flush(b), s)
    BY FlushKeeps
  <2>2. Collected(Base!FoldLeft(LAMBDA c, x : Base!Take(c, <<x>>), Base!Flush(b), p), s \o p)
    BY <2>1, SentencesKeep
  <2> QED BY <1>1, <2>2 DEF Base!TakeParagraph
<1>2. CASE ~(Base!Length(p) > MaxChunk)
  <2>1. Base!Length(p) \in Nat /\ MaxChunk \in Nat
    BY LengthNat, KnowledgeAssumption DEF KnowledgeAssumption
  <2>2. Fits(p)
    BY <1>2, <2>1 DEF Fits
  <2>3. Collected(Base!Take(b, p), s \o p)
    BY <2>2, PieceKeeps
  <2> QED BY <1>2, <2>3 DEF Base!TakeParagraph
<1> QED BY <1>1, <1>2

LEMMA ParagraphsTyped ==
  ASSUME NEW first \in Buffers, NEW ps \in Seq(Seq(Sentence))
  PROVE  \E f : /\ f \in [0..Len(ps) -> Buffers] /\ f[0] = first
                /\ f[Len(ps)] = Base!FoldLeft(Base!TakeParagraph, first, ps)
                /\ \A k \in 1..Len(ps) : f[k] = Base!TakeParagraph(f[k - 1], ps[k])
<1> PICK n : n = Len(ps)
  OBVIOUS
<1>1. n \in Nat /\ DOMAIN ps = 1..n /\ \A k \in 1..n : ps[k] \in Seq(Sentence)
  BY LenProperties
<1> DEFINE G == [q \in Buffers \X (1..n) |-> Base!TakeParagraph(q[1], ps[q[2]])]
<1>2. G \in [Buffers \X (1..n) -> Buffers] /\ \A b \in Buffers, k \in 1..n : G[<<b, k>>] = Base!TakeParagraph(b, ps[k])
  BY <1>1, ParagraphTyped
<1> HIDE DEF G
<1>3. \A S \in SUBSET (1..n) : S # {} => Base!Max(S) \in 1..n /\ S \ {Base!Max(S)} \in SUBSET (1..n)
  BY <1>1, MaxThere
<1>4. PICK it : it = [S \in SUBSET (1..n) |-> IF S = {} THEN first ELSE Base!TakeParagraph(it[S \ {Base!Max(S)}], ps[Base!Max(S)])]
  <2>1. PICK it \in [SUBSET (1..n) -> Buffers] : FoldsTo(it, n, first, G)
    BY <1>1, <1>2, FoldExists
  <2>2. ASSUME NEW S \in SUBSET (1..n), S # {} PROVE it[S] = Base!TakeParagraph(it[S \ {Base!Max(S)}], ps[Base!Max(S)])
    <3>1. it[S] = G[<<it[S \ {Base!Max(S)}], Base!Max(S)>>]
      BY <2>1, <2>2 DEF FoldsTo
    <3>2. it[S \ {Base!Max(S)}] \in Buffers /\ Base!Max(S) \in 1..n
      BY <1>3, <2>1, <2>2
    <3> QED BY <1>2, <3>1, <3>2
  <2>3. it[{}] = first
    BY <2>1 DEF FoldsTo
  <2>4. it = [S \in SUBSET (1..n) |-> IF S = {} THEN first ELSE Base!TakeParagraph(it[S \ {Base!Max(S)}], ps[Base!Max(S)])]
    BY <2>2, <2>3
  <2> QED BY <2>4
<1> DEFINE h == CHOOSE i : i = [S \in SUBSET (1..n) |-> IF S = {} THEN first ELSE Base!TakeParagraph(i[S \ {Base!Max(S)}], ps[Base!Max(S)])]
<1>5. h = [S \in SUBSET (1..n) |-> IF S = {} THEN first ELSE Base!TakeParagraph(h[S \ {Base!Max(S)}], ps[Base!Max(S)])]
  BY <1>4
<1>6. Base!FoldLeft(Base!TakeParagraph, first, ps) = h[1..n]
  BY <1>1 DEF Base!FoldLeft, Base!MapThenFoldSet
<1> HIDE DEF h
<1>7. FoldsIn(h, n, Buffers, first, G)
  <2>1. h[{}] = first
    BY <1>5
  <2>2. \A S \in SUBSET (1..n) : S # {} => h[S] = Base!TakeParagraph(h[S \ {Base!Max(S)}], ps[Base!Max(S)])
    BY <1>5
  <2> QED BY <1>2, <1>3, <2>1, <2>2 DEF FoldsIn
<1>8. PICK f : StepsTo(f, h[1..n], n, Buffers, first, G)
  BY <1>1, <1>2, <1>7, FoldSteps
<1>9. /\ f \in [0..n -> Buffers] /\ f[0] = first /\ f[n] = Base!FoldLeft(Base!TakeParagraph, first, ps)
      /\ \A k \in 1..n : f[k] = Base!TakeParagraph(f[k - 1], ps[k])
  <2>1. f \in [0..n -> Buffers] /\ f[0] = first /\ f[n] = h[1..n] /\ \A k \in 1..n : f[k] = G[<<f[k - 1], k>>]
    BY <1>8 DEF StepsTo
  <2>2. ASSUME NEW k \in 1..n PROVE f[k] = Base!TakeParagraph(f[k - 1], ps[k])
    <3>1. k - 1 \in 0..n
      BY <1>1
    <3>2. f[k - 1] \in Buffers
      BY <2>1, <3>1
    <3> QED BY <1>2, <2>1, <3>2
  <2> QED BY <1>6, <2>1, <2>2
<1> QED BY <1>9

LEMMA SentencesAre ==
  ASSUME NEW text \in Seq(Seq(Nat))
  PROVE  Base!SentencesOf(text) \in Seq(Seq(Sentence))
<1> PICK n : n = Len(text)
  OBVIOUS
<1>1. n \in Nat /\ DOMAIN text = 1..n /\ \A p \in 1..n : text[p] \in Seq(Nat)
  BY LenProperties
<1>2. ASSUME NEW p \in 1..n PROVE [i \in DOMAIN text[p] |-> <<p, i, text[p][i]>>] \in Seq(Sentence)
  <2> PICK m : m = Len(text[p])
    OBVIOUS
  <2>1. m \in Nat /\ DOMAIN text[p] = 1..m /\ \A i \in 1..m : text[p][i] \in Nat
    BY <1>1, LenProperties
  <2>2. [i \in DOMAIN text[p] |-> <<p, i, text[p][i]>>] \in [1..m -> Sentence]
    BY <1>1, <2>1 DEF Sentence
  <2> QED BY <2>1, <2>2, SeqDef
<1>3. Base!SentencesOf(text) \in [1..n -> Seq(Sentence)]
  BY <1>1, <1>2 DEF Base!SentencesOf
<1> QED BY <1>1, <1>3, ListOf

\* The chunks of a text are all of it, and none is too long.
LEMMA ChunksRight ==
  ASSUME NEW text \in Seq(Seq(Nat))
  PROVE  /\ Base!Chunks(text) \in Seq(Chunk) /\ InSize(Base!Chunks(text))
         /\ Base!FlattenSeq(Bodies(Base!Chunks(text))) = Base!FlattenSeq(Base!SentencesOf(text))
<1> PICK ps : ps = Base!SentencesOf(text)
  OBVIOUS
<1> PICK n : n = Len(ps)
  OBVIOUS
<1>1. ps \in Seq(Seq(Sentence)) /\ n \in Nat /\ \A k \in 1..n : ps[k] \in Seq(Sentence)
  BY SentencesAre, LenProperties
<1>2. Base!Buffer \in Buffers /\ Collected(Base!Buffer, <<>>)
  <2>1. Base!Buffer \in Buffers /\ Base!Buffer.done = <<>> /\ Base!Buffer.current = <<>> /\ Base!Buffer.tail = 0
    BY EmptySeq DEF Base!Buffer, Buffers
  <2>2. Bodies(<<>>) = <<>>
    <3>1. <<>> \in Seq(Chunk) /\ Len(<<>>) = 0
      BY EmptySeq
    <3>2. Bodies(<<>>) \in Seq(Seq(Sentence)) /\ Len(Bodies(<<>>)) = 0
      BY <3>1, BodiesAre
    <3> QED BY <3>2, EmptySeq
  <2>3. Base!FlattenSeq(<<>>) = <<>>
    BY EmptySeq DEF Base!FlattenSeq
  <2>4. <<>> \o <<>> = <<>>
    BY EmptySeq, ConcatEmptySeq
  <2>5. InSize(<<>>)
    BY EmptySeq DEF InSize
  <2>6. 0 <= Overlap
    BY KnowledgeAssumption DEF KnowledgeAssumption
  <2> QED BY <2>1, <2>2, <2>3, <2>4, <2>5, <2>6 DEF Collected
<1>3. PICK f : /\ f \in [0..Len(ps) -> Buffers] /\ f[0] = Base!Buffer
               /\ f[Len(ps)] = Base!FoldLeft(Base!TakeParagraph, Base!Buffer, ps)
               /\ \A k \in 1..Len(ps) : f[k] = Base!TakeParagraph(f[k - 1], ps[k])
  BY <1>1, <1>2, ParagraphsTyped
<1>4. PICK j : Joins(j, ps, Sentence)
  BY <1>1, FlattenIs
<1>5. /\ j \in [0..n -> Seq(Sentence)] /\ j[0] = <<>> /\ Base!FlattenSeq(ps) = j[n]
      /\ \A k \in 1..n : j[k] = j[k - 1] \o ps[k]
  BY <1>4 DEF Joins
<1> DEFINE H == {k \in 0..n : Collected(f[k], j[k])}
<1>6. 0 \in H
  BY <1>1, <1>2, <1>3, <1>5
<1>7. ASSUME NEW k \in 1..n, k - 1 \in H PROVE k \in H
  <2>1. Collected(f[k - 1], j[k - 1]) /\ k \in 0..n /\ k - 1 \in 0..n
    BY <1>7
  <2>2. j[k - 1] \in Seq(Sentence) /\ ps[k] \in Seq(Sentence)
    BY <1>1, <1>5, <2>1
  <2>3. Collected(f[k], j[k])
    BY <1>3, <1>5, <2>1, <2>2, ParagraphKeeps
  <2> QED BY <2>1, <2>3
<1>8. n \in H
  <2>1. n \in 0..n
    BY <1>1
  <2> HIDE DEF H
  <2> QED BY <1>1, <1>6, <1>7, <2>1, UpTo
<1> PICK b : b = Base!Flush(f[n])
  OBVIOUS
<1>9. Collected(b, Base!FlattenSeq(ps)) /\ b.current = <<>> /\ b \in Buffers
  <2>1. Collected(f[n], j[n]) /\ f[n] \in Buffers
    BY <1>8 DEF Collected
  <2> QED BY <1>5, <2>1, FlushKeeps, FlushTyped
<1>10. Base!Chunks(text) = b.done
  BY <1>3 DEF Base!Chunks
<1>11. Base!FlattenSeq(Bodies(b.done)) \o <<>> = Base!FlattenSeq(Bodies(b.done)) /\ b.done \in Seq(Chunk)
  <2>1. b.done \in Seq(Chunk)
    BY <1>9 DEF Buffers
  <2>2. Base!FlattenSeq(Bodies(b.done)) \in Seq(Sentence)
    BY <2>1, BodiesAre, FlattenTyped
  <2> QED BY <2>1, <2>2, ConcatEmptySeq
<1> QED BY <1>9, <1>10, <1>11 DEF Collected

-----------------------------------------------------------------------------
(* Knowledge: what a set of documents weighs *)

\* What the elements of a set of rows weigh together.
Some(S) == CHOOSE x \in S : TRUE
SumsSets(it, F, W) ==
  it = [S \in F |-> IF S = {} THEN 0 ELSE W[Some(S)] + it[S \ {Some(S)}]]
Totals(t, W) ==
  /\ t \in [SUBSET Rows -> Nat] /\ t[{}] = 0
  /\ \A S \in SUBSET Rows : \A x \in S : t[S] = W[x] + t[S \ {x}]

LEMMA RowsCount ==
  /\ IsFiniteSet(Rows) /\ Cardinality(Rows) \in Nat
  /\ \A S \in SUBSET Rows :
       /\ IsFiniteSet(S) /\ Cardinality(S) \in 0..Cardinality(Rows)
       /\ (Cardinality(S) = 0 <=> S = {})
       /\ \A x \in S : S \ {x} \in SUBSET Rows /\ Cardinality(S \ {x}) = Cardinality(S) - 1
<1>1. IsFiniteSet(Rows) /\ Cardinality(Rows) \in Nat
  BY KnowledgeAssumption, FS_CardinalityType DEF KnowledgeAssumption
<1>2. ASSUME NEW S \in SUBSET Rows
      PROVE  /\ IsFiniteSet(S) /\ Cardinality(S) \in 0..Cardinality(Rows)
             /\ (Cardinality(S) = 0 <=> S = {})
             /\ \A x \in S : S \ {x} \in SUBSET Rows /\ Cardinality(S \ {x}) = Cardinality(S) - 1
  <2>1. IsFiniteSet(S) /\ Cardinality(S) <= Cardinality(Rows) /\ Cardinality(S) \in Nat
    BY <1>1, FS_Subset, FS_CardinalityType
  <2>2. Cardinality(S) = 0 <=> S = {}
    BY <2>1, FS_EmptySet
  <2>3. \A x \in S : Cardinality(S \ {x}) = Cardinality(S) - 1
    BY <2>1, FS_RemoveElement
  <2> QED BY <1>1, <2>1, <2>2, <2>3
<1> QED BY <1>1, <1>2

LEMMA SomeIs == ASSUME NEW S, S # {} PROVE Some(S) \in S
  BY DEF Some

LEMMA SumsExist ==
  ASSUME NEW W \in [Rows -> Nat]
  PROVE  \E it \in [SUBSET Rows -> Nat] : SumsSets(it, SUBSET Rows, W)
<1> PICK n : n = Cardinality(Rows)
  OBVIOUS
<1>0. n \in Nat
  BY RowsCount
<1> DEFINE Small(k) == {S \in SUBSET Rows : Cardinality(S) <= k}
<1> DEFINE H == {k \in 0..n : \E it \in [Small(k) -> Nat] : SumsSets(it, Small(k), W)}
<1>1. 0 \in H
  <2> DEFINE it == [S \in Small(0) |-> 0]
  <2>1. \A S \in Small(0) : S = {}
    BY RowsCount
  <2>2. it = [S \in Small(0) |-> IF S = {} THEN 0 ELSE W[Some(S)] + it[S \ {Some(S)}]]
    BY <2>1
  <2>3. it \in [Small(0) -> Nat]
    OBVIOUS
  <2> HIDE DEF it
  <2>4. SumsSets(it, Small(0), W)
    BY <2>2 DEF SumsSets
  <2>5. \E f \in [Small(0) -> Nat] : SumsSets(f, Small(0), W)
    BY <2>3, <2>4
  <2>6. 0 \in 0..n
    BY <1>0
  <2> HIDE DEF Small
  <2> QED BY <2>5, <2>6
<1>2. ASSUME NEW k \in 1..n, k - 1 \in H PROVE k \in H
  <2>1. PICK g \in [Small(k - 1) -> Nat] : SumsSets(g, Small(k - 1), W)
    BY <1>2
  <2> DEFINE it == [S \in Small(k) |-> IF S \in Small(k - 1) THEN g[S] ELSE W[Some(S)] + g[S \ {Some(S)}]]
  <2>2. {} \in Small(k - 1) /\ \A S \in Small(k) : S # {} =>
           Some(S) \in S /\ Some(S) \in Rows /\ S \ {Some(S)} \in Small(k - 1) /\ S \ {Some(S)} \in Small(k)
    <3>1. {} \in Small(k - 1)
      BY <1>0, RowsCount
    <3>2. ASSUME NEW S \in Small(k), S # {}
          PROVE  Some(S) \in S /\ Some(S) \in Rows /\ S \ {Some(S)} \in Small(k - 1) /\ S \ {Some(S)} \in Small(k)
      <4>1. Some(S) \in S
        BY <3>2, SomeIs
      <4>2. S \ {Some(S)} \in SUBSET Rows /\ Cardinality(S \ {Some(S)}) = Cardinality(S) - 1 /\ Cardinality(S) \in Nat
        BY <1>0, <4>1, RowsCount
      <4> QED BY <1>0, <4>1, <4>2
    <3> QED BY <3>1, <3>2
  <2>3. it \in [Small(k) -> Nat]
    <3> SUFFICES ASSUME NEW S \in Small(k) PROVE it[S] \in Nat
      OBVIOUS
    <3>1. CASE S \in Small(k - 1)
      BY <2>1, <3>1
    <3>2. CASE S \notin Small(k - 1)
      <4>1. S # {}
        BY <2>2, <3>2
      <4>2. W[Some(S)] \in Nat /\ g[S \ {Some(S)}] \in Nat
        BY <2>1, <2>2, <4>1
      <4> QED BY <3>2, <4>2
    <3> QED BY <3>1, <3>2
  <2>4. \A S \in Small(k - 1) : S \in Small(k) /\ it[S] = g[S]
    <3>1. \A S \in Small(k - 1) : S \in Small(k)
      BY <1>0, RowsCount
    <3> QED BY <3>1
  <2>5. \A S \in Small(k - 1) : g[S] = IF S = {} THEN 0 ELSE W[Some(S)] + g[S \ {Some(S)}]
    BY <2>1 DEF SumsSets
  <2>6. ASSUME NEW S \in Small(k)
        PROVE  it[S] = IF S = {} THEN 0 ELSE W[Some(S)] + it[S \ {Some(S)}]
    <3>1. CASE S = {}
      <4>1. it[S] = g[S] /\ g[S] = 0
        BY <2>2, <2>4, <2>5, <3>1
      <4> QED BY <3>1, <4>1
    <3>2. CASE S # {}
      <4>1. it[S \ {Some(S)}] = g[S \ {Some(S)}]
        BY <2>2, <2>4, <3>2
      <4>2. it[S] = W[Some(S)] + g[S \ {Some(S)}]
        <5>1. CASE S \in Small(k - 1)
          <6>1. it[S] = g[S]
            BY <2>4, <5>1
          <6>2. g[S] = W[Some(S)] + g[S \ {Some(S)}]
            BY <2>5, <3>2, <5>1
          <6> QED BY <6>1, <6>2
        <5>2. CASE S \notin Small(k - 1)
          BY <5>2
        <5> QED BY <5>1, <5>2
      <4> QED BY <3>2, <4>1, <4>2
    <3> QED BY <3>1, <3>2
  <2>7. it = [S \in Small(k) |-> it[S]]
    OBVIOUS
  <2> HIDE DEF it
  <2>8. SumsSets(it, Small(k), W)
    <3>1. it = [S \in Small(k) |-> IF S = {} THEN 0 ELSE W[Some(S)] + it[S \ {Some(S)}]]
      BY <2>6, <2>7
    <3> QED BY <3>1 DEF SumsSets
  <2>9. k \in 0..n
    BY <1>0
  <2> QED BY <2>3, <2>8, <2>9
<1> HIDE DEF H
<1>3. n \in H
  <2>1. n \in 0..n
    BY <1>0
  <2> QED BY <1>0, <1>1, <1>2, <2>1, UpTo
<1>4. Small(n) = SUBSET Rows
  BY <1>0, RowsCount
<1> QED BY <1>3, <1>4 DEF H

LEMMA TotalExists ==
  ASSUME NEW W \in [Rows -> Nat]
  PROVE  \E t : Totals(t, W)
<1> PICK n : n = Cardinality(Rows)
  OBVIOUS
<1>0. n \in Nat
  BY RowsCount
<1>1. PICK t \in [SUBSET Rows -> Nat] : SumsSets(t, SUBSET Rows, W)
  BY SumsExist
<1>2. t[{}] = 0 /\ \A S \in SUBSET Rows : S # {} => t[S] = W[Some(S)] + t[S \ {Some(S)}]
  BY <1>1 DEF SumsSets
<1> DEFINE Right(S) == \A x \in S : t[S] = W[x] + t[S \ {x}]
<1> DEFINE H == {k \in 0..n : \A S \in SUBSET Rows : Cardinality(S) = k => Right(S)}
<1>3. 0 \in H
  <2>1. \A S \in SUBSET Rows : Cardinality(S) = 0 => S = {}
    BY RowsCount
  <2> QED BY <1>0, <2>1
<1>4. ASSUME NEW k \in 1..n, k - 1 \in H PROVE k \in H
  <2> SUFFICES ASSUME NEW S \in SUBSET Rows, Cardinality(S) = k, NEW x \in S
               PROVE  t[S] = W[x] + t[S \ {x}]
    BY <1>0
  <2> PICK y : y = Some(S)
    OBVIOUS
  <2>1. y \in S /\ t[S] = W[y] + t[S \ {y}]
    BY <1>2, SomeIs
  <2>2. CASE x = y
    BY <2>1, <2>2
  <2>3. CASE x # y
    <3>1. /\ S \ {x} \in SUBSET Rows /\ Cardinality(S \ {x}) = k - 1 /\ y \in S \ {x}
          /\ S \ {y} \in SUBSET Rows /\ Cardinality(S \ {y}) = k - 1 /\ x \in S \ {y}
      BY <2>1, <2>3, RowsCount
    <3>2. Right(S \ {x}) /\ Right(S \ {y})
      BY <1>4, <3>1
    <3>3. t[S \ {x}] = W[y] + t[(S \ {x}) \ {y}] /\ t[S \ {y}] = W[x] + t[(S \ {y}) \ {x}]
      BY <3>1, <3>2
    <3>4. (S \ {x}) \ {y} = (S \ {y}) \ {x} /\ (S \ {x}) \ {y} \in SUBSET Rows
      OBVIOUS
    <3>5. PICK m \in Nat : m = t[(S \ {x}) \ {y}] /\ m = t[(S \ {y}) \ {x}]
      BY <3>4
    <3>6. W[x] \in Nat /\ W[y] \in Nat
      BY <2>1
    <3> QED BY <2>1, <3>3, <3>5, <3>6
  <2> QED BY <2>2, <2>3
<1>5. \A k \in 0..n : k \in H
  <2> HIDE DEF H
  <2> QED BY <1>0, <1>3, <1>4, UpTo
<1>6. \A S \in SUBSET Rows : Right(S)
  <2> SUFFICES ASSUME NEW S \in SUBSET Rows PROVE Right(S)
    OBVIOUS
  <2>1. Cardinality(S) \in 0..n
    BY RowsCount
  <2>2. Cardinality(S) \in H
    BY <1>5, <2>1
  <2> QED BY <2>2
<1>7. Totals(t, W)
  BY <1>2, <1>6 DEF Totals
<1> QED BY <1>7

\* The sum that MapThenSumSet makes of a part of the rows.
BytesOf(f, D) == Base!MapThenSumSet(LAMBDA d : Base!Size(f[d].text), D)
Weights(f) == [d \in Rows |-> Base!Size(f[d].text)]

LEMMA BytesIs ==
  ASSUME NEW f, Weights(f) \in [Rows -> Nat], NEW t, Totals(t, Weights(f)), NEW D \in SUBSET Rows
  PROVE  BytesOf(f, D) = t[D]
<1> DEFINE h == CHOOSE i : i = [S \in SUBSET D |-> IF S = {} THEN 0
                      ELSE Base!Size(f[CHOOSE x \in S : TRUE].text) + i[S \ {CHOOSE x \in S : TRUE}]]
<1>1. BytesOf(f, D) = h[D]
  BY DEF BytesOf, Base!MapThenSumSet, Base!MapThenFoldSet
<1>2. \A S \in SUBSET D : S # {} =>
        /\ Some(S) \in S /\ Some(S) \in Rows /\ S \ {Some(S)} \in SUBSET D
        /\ t[S] = Base!Size(f[Some(S)].text) + t[S \ {Some(S)}]
  <2> SUFFICES ASSUME NEW S \in SUBSET D, S # {}
               PROVE  /\ Some(S) \in S /\ Some(S) \in Rows /\ S \ {Some(S)} \in SUBSET D
                      /\ t[S] = Base!Size(f[Some(S)].text) + t[S \ {Some(S)}]
    OBVIOUS
  <2>1. Some(S) \in S /\ Some(S) \in Rows /\ S \in SUBSET Rows
    BY SomeIs
  <2>2. t[S] = Weights(f)[Some(S)] + t[S \ {Some(S)}]
    BY <2>1 DEF Totals
  <2>3. Weights(f)[Some(S)] = Base!Size(f[Some(S)].text)
    BY <2>1 DEF Weights
  <2> QED BY <2>1, <2>2, <2>3
<1> DEFINE i == [S \in SUBSET D |-> t[S]]
<1>3. i = [S \in SUBSET D |-> IF S = {} THEN 0 ELSE Base!Size(f[Some(S)].text) + i[S \ {Some(S)}]]
  <2>1. ASSUME NEW S \in SUBSET D
        PROVE  t[S] = IF S = {} THEN 0 ELSE Base!Size(f[Some(S)].text) + i[S \ {Some(S)}]
    <3>1. CASE S = {}
      BY <3>1 DEF Totals
    <3>2. CASE S # {}
      BY <1>2, <3>2
    <3> QED BY <3>1, <3>2
  <2> QED BY <2>1
<1> HIDE DEF i
<1>4. h = [S \in SUBSET D |-> IF S = {} THEN 0 ELSE Base!Size(f[Some(S)].text) + h[S \ {Some(S)}]]
  BY <1>3 DEF Some
<1> HIDE DEF h
<1> PICK n : n = Cardinality(Rows)
  OBVIOUS
<1>5. n \in Nat
  BY RowsCount
<1> DEFINE H == {k \in 0..n : \A S \in SUBSET D : Cardinality(S) = k => h[S] = t[S]}
<1>6. 0 \in H
  <2>1. \A S \in SUBSET D : Cardinality(S) = 0 => S = {}
    BY RowsCount
  <2>2. h[{}] = 0 /\ t[{}] = 0
    BY <1>4 DEF Totals
  <2> QED BY <1>5, <2>1, <2>2
<1>7. ASSUME NEW k \in 1..n, k - 1 \in H PROVE k \in H
  <2> SUFFICES ASSUME NEW S \in SUBSET D, Cardinality(S) = k PROVE h[S] = t[S]
    BY <1>5
  <2>1. S # {} /\ S \in SUBSET Rows
    BY <1>5, RowsCount
  <2>2. Cardinality(S \ {Some(S)}) = k - 1 /\ S \ {Some(S)} \in SUBSET D
    BY <1>2, <2>1, RowsCount
  <2>3. h[S \ {Some(S)}] = t[S \ {Some(S)}]
    BY <1>7, <2>2
  <2>4. h[S] = Base!Size(f[Some(S)].text) + h[S \ {Some(S)}]
    BY <1>4, <2>1
  <2> QED BY <1>2, <2>1, <2>3, <2>4
<1>8. \A k \in 0..n : k \in H
  <2> HIDE DEF H
  <2> QED BY <1>5, <1>6, <1>7, UpTo
<1>9. Cardinality(D) \in 0..n
  BY RowsCount
<1>10. h[D] = t[D]
  BY <1>8, <1>9
<1> QED BY <1>1, <1>10

LEMMA TotalLess ==
  ASSUME NEW V \in [Rows -> Nat], NEW W \in [Rows -> Nat], NEW t, Totals(t, V), NEW u, Totals(u, W),
         NEW A \in SUBSET Rows, NEW C \in SUBSET Rows, A \subseteq C, \A x \in A : V[x] <= W[x]
  PROVE  t[A] <= u[C]
<1> PICK n : n = Cardinality(Rows)
  OBVIOUS
<1>0. n \in Nat
  BY RowsCount
<1>1. /\ t \in [SUBSET Rows -> Nat] /\ t[{}] = 0 /\ u \in [SUBSET Rows -> Nat] /\ u[{}] = 0
      /\ \A S \in SUBSET Rows : \A x \in S : t[S] = V[x] + t[S \ {x}] /\ u[S] = W[x] + u[S \ {x}]
  BY DEF Totals
<1> DEFINE Less(S) == \A T \in SUBSET S : (\A x \in T : V[x] <= W[x]) => t[T] <= u[S]
<1> DEFINE H == {k \in 0..n : \A S \in SUBSET Rows : Cardinality(S) = k => Less(S)}
<1>2. 0 \in H
  <2>1. \A S \in SUBSET Rows : Cardinality(S) = 0 => S = {}
    BY RowsCount
  <2>2. ASSUME NEW S \in SUBSET Rows, Cardinality(S) = 0 PROVE Less(S)
    <3>1. S = {} /\ \A T \in SUBSET S : T = {}
      BY <2>1, <2>2
    <3>2. t[{}] <= u[{}]
      BY <1>1
    <3>3. \A T \in SUBSET S : t[T] <= u[S]
      BY <3>1, <3>2
    <3> QED BY <3>3
  <2>3. 0 \in 0..n
    BY <1>0
  <2> HIDE DEF Less
  <2> QED BY <2>2, <2>3
<1>3. ASSUME NEW k \in 1..n, k - 1 \in H PROVE k \in H
  <2> SUFFICES ASSUME NEW S \in SUBSET Rows, Cardinality(S) = k,
                      NEW T \in SUBSET S, \A x \in T : V[x] <= W[x]
               PROVE  t[T] <= u[S]
    BY <1>0
  <2>1. S # {}
    BY <1>0, RowsCount
  <2>2. PICK x \in S : TRUE
    BY <2>1
  <2>3. S \ {x} \in SUBSET Rows /\ Cardinality(S \ {x}) = k - 1
    BY <2>2, RowsCount
  <2>4. Less(S \ {x})
    BY <1>3, <2>3
  <2>5. T \ {x} \in SUBSET (S \ {x}) /\ \A y \in T \ {x} : V[y] <= W[y]
    OBVIOUS
  <2>6. t[T \ {x}] <= u[S \ {x}]
    BY <2>4, <2>5
  <2>7. u[S] = W[x] + u[S \ {x}] /\ W[x] \in Nat /\ V[x] \in Nat
    BY <1>1
  <2>8. t[T \ {x}] \in Nat /\ u[S \ {x}] \in Nat /\ t[T] \in Nat
    BY <1>1
  <2>9. CASE x \in T
    <3>1. t[T] = V[x] + t[T \ {x}] /\ V[x] <= W[x]
      BY <1>1, <2>9
    <3> QED BY <2>6, <2>7, <2>8, <3>1
  <2>10. CASE x \notin T
    <3>1. T \ {x} = T
      BY <2>10
    <3> QED BY <2>6, <2>7, <2>8, <3>1
  <2> QED BY <2>9, <2>10
<1>4. \A k \in 0..n : k \in H
  <2> HIDE DEF H
  <2> QED BY <1>0, <1>2, <1>3, UpTo
<1>5. Cardinality(C) \in 0..n
  BY RowsCount
<1>6. Less(C)
  BY <1>4, <1>5
<1> QED BY <1>6

LEMMA TotalMore ==
  ASSUME NEW W \in [Rows -> Nat], NEW t, Totals(t, W), NEW A \in SUBSET Rows,
         NEW M \in Nat, NEW C \in SUBSET Rows, \A x \in C : W[x] <= M
  PROVE  t[A \cup C] <= t[A] + Cardinality(C) * M
<1> PICK n : n = Cardinality(Rows)
  OBVIOUS
<1>0. n \in Nat
  BY RowsCount
<1>1. /\ t \in [SUBSET Rows -> Nat] /\ t[{}] = 0
      /\ \A S \in SUBSET Rows : \A x \in S : t[S] = W[x] + t[S \ {x}]
  BY DEF Totals
<1> DEFINE More(S) == (\A x \in S : W[x] <= M) => t[A \cup S] <= t[A] + Cardinality(S) * M
<1> DEFINE H == {k \in 0..n : \A S \in SUBSET Rows : Cardinality(S) = k => More(S)}
<1>2. 0 \in H
  <2>1. \A S \in SUBSET Rows : Cardinality(S) = 0 => S = {}
    BY RowsCount
  <2>2. ASSUME NEW S \in SUBSET Rows, Cardinality(S) = 0 PROVE More(S)
    <3>1. S = {}
      BY <2>1, <2>2
    <3>2. A \cup S = A /\ t[A] \in Nat /\ Cardinality(S) * M = 0
      BY <1>1, <2>2, <3>1
    <3>3. t[A] <= t[A] + 0
      BY <3>2
    <3> QED BY <3>2, <3>3
  <2>3. 0 \in 0..n
    BY <1>0
  <2> HIDE DEF More
  <2> QED BY <2>2, <2>3
<1>3. ASSUME NEW k \in 1..n, k - 1 \in H PROVE k \in H
  <2>0. k \in 0..n
    BY <1>0
  <2> SUFFICES ASSUME NEW S \in SUBSET Rows, Cardinality(S) = k, \A x \in S : W[x] <= M
               PROVE  t[A \cup S] <= t[A] + Cardinality(S) * M
    BY <2>0
  <2>1. S # {}
    BY <1>0, RowsCount
  <2>2. PICK x \in S : TRUE
    BY <2>1
  <2>3. S \ {x} \in SUBSET Rows /\ Cardinality(S \ {x}) = k - 1
    BY <2>2, RowsCount
  <2>4. t[A \cup (S \ {x})] <= t[A] + (k - 1) * M
    <3>1. More(S \ {x})
      BY <1>3, <2>3
    <3>2. t[A \cup (S \ {x})] <= t[A] + Cardinality(S \ {x}) * M
      BY <3>1
    <3> QED BY <2>3, <3>2
  <2>5. t[A \cup S] <= t[A \cup (S \ {x})] + M
    <3>1. A \cup S \in SUBSET Rows /\ A \cup (S \ {x}) \in SUBSET Rows /\ x \in A \cup S
      OBVIOUS
    <3>2. t[A \cup S] = W[x] + t[(A \cup S) \ {x}]
      BY <1>1, <3>1
    <3>3. t[A \cup (S \ {x})] \in Nat /\ W[x] \in Nat /\ W[x] <= M
      BY <1>1, <3>1
    <3>4. CASE x \in A
      <4>1. A \cup (S \ {x}) = A \cup S
        BY <3>4
      <4>2. t[A \cup S] = t[A \cup (S \ {x})]
        BY <4>1
      <4> QED BY <3>3, <4>2
    <3>5. CASE x \notin A
      <4>1. A \cup (S \ {x}) = (A \cup S) \ {x}
        BY <3>5
      <4> QED BY <3>2, <3>3, <4>1
    <3> QED BY <3>4, <3>5
  <2>6. (k - 1) * M + M = k * M /\ (k - 1) * M \in Nat /\ k * M \in Nat
    OBVIOUS
  <2>7. t[A \cup S] \in Nat /\ t[A \cup (S \ {x})] \in Nat /\ t[A] \in Nat
    BY <1>1
  <2>8. t[A \cup S] <= t[A] + k * M
    BY <2>4, <2>5, <2>6, <2>7
  <2> QED BY <2>8
<1>4. \A k \in 0..n : k \in H
  <2> HIDE DEF H
  <2> QED BY <1>0, <1>2, <1>3, UpTo
<1>5. Cardinality(C) \in 0..n
  BY RowsCount
<1>6. More(C)
  BY <1>4, <1>5
<1> QED BY <1>6

-----------------------------------------------------------------------------
(* Knowledge: the quota and the chunks *)

DocRecord ==
  [at : {"none", "admitted", "embedding", "indexed"}, text : Seq(Seq(Nat)),
   chunks : Seq(Chunk), embedded : Nat, attempt : Nat]
ChunksOfText ==
  \A d \in Rows : doc[d].at \in {"embedding", "indexed"} => doc[d].chunks = Base!Chunks(doc[d].text)
FilesInSize == \A d \in Base!UnderWay : Base!Size(doc[d].text) <= MaxFile
AtOnce == Cardinality(Base!UnderWay) <= MaxAtOnce
BaseInv ==
  doc \in [Rows -> DocRecord] /\ ChunksOfText /\ FilesInSize /\ AtOnce /\ Base!QuotaOvershoot

LEMMA WeightsNat ==
  ASSUME NEW f \in [Rows -> DocRecord]
  PROVE  Weights(f) \in [Rows -> Nat]
<1>1. \A d \in Rows : f[d].text \in Seq(Seq(Nat))
  BY DEF DocRecord
<1> QED BY <1>1, SizeNat DEF Weights

LEMMA BytesLess ==
  ASSUME NEW f \in [Rows -> DocRecord], NEW g \in [Rows -> DocRecord],
         NEW A \in SUBSET Rows, NEW C \in SUBSET Rows, A \subseteq C,
         \A x \in A : Base!Size(f[x].text) <= Base!Size(g[x].text)
  PROVE  BytesOf(f, A) \in Nat /\ BytesOf(g, C) \in Nat /\ BytesOf(f, A) <= BytesOf(g, C)
<1>1. Weights(f) \in [Rows -> Nat] /\ Weights(g) \in [Rows -> Nat]
  BY WeightsNat
<1>2. PICK t : Totals(t, Weights(f))
  BY <1>1, TotalExists
<1>3. PICK u : Totals(u, Weights(g))
  BY <1>1, TotalExists
<1>4. BytesOf(f, A) = t[A] /\ BytesOf(g, C) = u[C]
  BY <1>1, <1>2, <1>3, BytesIs
<1>5. t[A] \in Nat /\ u[C] \in Nat
  BY <1>2, <1>3 DEF Totals
<1>6. \A x \in A : Weights(f)[x] <= Weights(g)[x]
  BY DEF Weights
<1>7. t[A] <= u[C]
  BY <1>1, <1>2, <1>3, <1>6, TotalLess
<1> QED BY <1>4, <1>5, <1>7

LEMMA BytesMore ==
  ASSUME NEW f \in [Rows -> DocRecord], NEW A \in SUBSET Rows, NEW C \in SUBSET Rows, NEW M \in Nat,
         \A x \in C : Base!Size(f[x].text) <= M
  PROVE  BytesOf(f, A) \in Nat /\ BytesOf(f, A \cup C) \in Nat
         /\ BytesOf(f, A \cup C) <= BytesOf(f, A) + Cardinality(C) * M
<1>1. Weights(f) \in [Rows -> Nat]
  BY WeightsNat
<1>2. PICK t : Totals(t, Weights(f))
  BY <1>1, TotalExists
<1>3. A \cup C \in SUBSET Rows
  OBVIOUS
<1>4. BytesOf(f, A) = t[A] /\ BytesOf(f, A \cup C) = t[A \cup C]
  BY <1>1, <1>2, <1>3, BytesIs
<1>5. t[A] \in Nat /\ t[A \cup C] \in Nat
  BY <1>2, <1>3 DEF Totals
<1>6. \A x \in C : Weights(f)[x] <= M
  BY DEF Weights
<1>7. t[A \cup C] <= t[A] + Cardinality(C) * M
  BY <1>1, <1>2, <1>6, TotalMore
<1> QED BY <1>4, <1>5, <1>7

LEMMA BytesAre ==
  /\ \A D : Base!Bytes(D) = BytesOf(doc, D)
  /\ Base!Bytes(Base!Indexed \cup Base!UnderWay)' = BytesOf(doc', (Base!Indexed \cup Base!UnderWay)')
<1>1. \A D : Base!Bytes(D) = BytesOf(doc, D)
  <2> TAKE D
  <2> QED BY DEF Base!Bytes, BytesOf, Base!MapThenSumSet, Base!MapThenFoldSet
<1>2. Base!Bytes(Base!Indexed \cup Base!UnderWay)' = BytesOf(doc', (Base!Indexed \cup Base!UnderWay)')
  BY DEF Base!Bytes, BytesOf, Base!MapThenSumSet, Base!MapThenFoldSet
<1> QED BY <1>1, <1>2

\* Knowledge counts with its own instance of FiniteSets.
LEMMA Counts == \A S : Base!Cardinality(S) = Cardinality(S)
  BY DEF Base!Cardinality, Cardinality

LEMMA Limits ==
  /\ MaxChunk \in Nat /\ Overlap \in Nat /\ BatchSize \in Nat /\ MaxDocs \in Nat /\ MaxBytes \in Nat
  /\ MaxFile \in Nat /\ MaxAtOnce \in Nat
  BY KnowledgeAssumption DEF KnowledgeAssumption

\* A step that adds no document to those under way or indexed and changes the text of none.
LEMMA NothingAdded ==
  ASSUME BaseInv, doc' \in [Rows -> DocRecord], Base!UnderWay' \subseteq Base!UnderWay,
         (Base!Indexed \cup Base!UnderWay)' \subseteq Base!Indexed \cup Base!UnderWay,
         \A d \in (Base!Indexed \cup Base!UnderWay)' : doc'[d].text = doc[d].text
  PROVE  FilesInSize' /\ AtOnce' /\ Base!QuotaOvershoot'
<1> PICK A : A = Base!Indexed \cup Base!UnderWay
  OBVIOUS
<1> PICK B : B = (Base!Indexed \cup Base!UnderWay)'
  OBVIOUS
<1>1. A \in SUBSET Rows /\ B \in SUBSET Rows /\ B \subseteq A
      /\ Base!UnderWay \in SUBSET Rows /\ Base!UnderWay' \in SUBSET Rows /\ Base!UnderWay' \subseteq B
  BY DEF Base!Indexed, Base!UnderWay
<1>2. FilesInSize'
  BY <1>1 DEF BaseInv, FilesInSize
<1>3. AtOnce'
  <2>1. Cardinality(Base!UnderWay') <= Cardinality(Base!UnderWay)
        /\ Cardinality(Base!UnderWay') \in Nat /\ Cardinality(Base!UnderWay) \in Nat
    BY <1>1, RowsCount, FS_Subset, FS_CardinalityType
  <2> QED BY <2>1, Limits DEF BaseInv, AtOnce
<1>4. MaxDocs > 0 => Cardinality(B) < MaxDocs + MaxAtOnce
  <2>1. Cardinality(B) <= Cardinality(A) /\ Cardinality(B) \in Nat /\ Cardinality(A) \in Nat
    BY <1>1, RowsCount, FS_Subset, FS_CardinalityType
  <2>2. MaxDocs > 0 => Cardinality(A) < MaxDocs + MaxAtOnce
    BY Counts DEF BaseInv, Base!QuotaOvershoot
  <2> QED BY <2>1, <2>2, Limits
<1>5. MaxBytes > 0 => BytesOf(doc', B) < MaxBytes + MaxAtOnce * MaxFile
  <2>1. doc \in [Rows -> DocRecord]
    BY DEF BaseInv
  <2>2. \A x \in B : Base!Size(doc'[x].text) \in Nat /\ Base!Size(doc'[x].text) <= Base!Size(doc[x].text)
    <3> SUFFICES ASSUME NEW x \in B
                 PROVE  Base!Size(doc'[x].text) \in Nat /\ Base!Size(doc'[x].text) <= Base!Size(doc[x].text)
      OBVIOUS
    <3>1. doc'[x].text \in Seq(Seq(Nat)) /\ doc'[x].text = doc[x].text
      BY <1>1 DEF DocRecord
    <3> QED BY <3>1, SizeNat
  <2>3. BytesOf(doc', B) \in Nat /\ BytesOf(doc, A) \in Nat /\ BytesOf(doc', B) <= BytesOf(doc, A)
    BY <1>1, <2>1, <2>2, BytesLess
  <2>4. MaxBytes > 0 => BytesOf(doc, A) < MaxBytes + MaxAtOnce * MaxFile
    BY BytesAre DEF BaseInv, Base!QuotaOvershoot
  <2>5. PICK m \in Nat : m = MaxAtOnce * MaxFile
    BY Limits
  <2> QED BY <2>3, <2>4, <2>5, Limits
<1>6. Base!QuotaOvershoot'
  BY <1>4, <1>5, BytesAre, Counts DEF Base!QuotaOvershoot
<1> QED BY <1>2, <1>3, <1>6

LEMMA NoDocIs ==
  /\ Base!NoDoc \in DocRecord /\ Base!NoDoc.at = "none"
  BY EmptySeq DEF Base!NoDoc, DocRecord

LEMMA BaseStarts == Base!Init => BaseInv
<1> SUFFICES ASSUME Base!Init PROVE BaseInv
  OBVIOUS
<1>1. doc \in [Rows -> DocRecord] /\ \A d \in Rows : doc[d].at = "none"
  BY NoDocIs DEF Base!Init
<1>2. Base!UnderWay = {} /\ Base!Indexed = {} /\ Base!Indexed \cup Base!UnderWay = {}
  BY <1>1 DEF Base!UnderWay, Base!Indexed
<1>3. Cardinality({}) = 0
  BY FS_EmptySet
<1>4. BytesOf(doc, {}) = 0
  <2>1. Weights(doc) \in [Rows -> Nat]
    BY <1>1, WeightsNat
  <2>2. PICK t : Totals(t, Weights(doc))
    BY <2>1, TotalExists
  <2>3. {} \in SUBSET Rows /\ t[{}] = 0
    BY <2>2 DEF Totals
  <2> QED BY <2>1, <2>2, <2>3, BytesIs
<1>5. AtOnce
  BY <1>2, <1>3, Limits DEF AtOnce
<1>6. Base!QuotaOvershoot
  <2>1. PICK m \in Nat : m = MaxAtOnce * MaxFile
    BY Limits
  <2>2. Base!Bytes(Base!Indexed \cup Base!UnderWay) = 0
    BY <1>2, <1>4, BytesAre
  <2> QED BY <1>2, <1>3, <2>1, <2>2, Limits, Counts DEF Base!QuotaOvershoot
<1> QED BY <1>1, <1>2, <1>5, <1>6 DEF BaseInv, ChunksOfText, FilesInSize

\* The quota is compared with what is indexed; what is under way, the new file with it, comes on
\* top, and that are at most MaxAtOnce files of at most MaxFile.
LEMMA UploadKeeps ==
  ASSUME BaseInv, NEW d \in Rows, Base!Upload(d)
  PROVE  BaseInv'
<1>1. PICK text \in Texts :
        /\ Base!Size(text) <= MaxFile
        /\ doc' = [doc EXCEPT ![d] = [Base!NoDoc EXCEPT !.at = "admitted", !.text = text]]
  BY DEF Base!Upload
<1>2. text \in Seq(Seq(Nat)) /\ doc \in [Rows -> DocRecord] /\ doc[d].at = "none"
  BY KnowledgeAssumption DEF KnowledgeAssumption, BaseInv, Base!Upload
<1>3. /\ doc'[d] \in DocRecord /\ doc'[d].at = "admitted" /\ doc'[d].text = text
  <2>1. doc'[d] = [Base!NoDoc EXCEPT !.at = "admitted", !.text = text]
    BY <1>1, <1>2
  <2> QED BY <1>2, <2>1, NoDocIs, EmptySeq DEF DocRecord
<1>4. \A e \in Rows : e # d => doc'[e] = doc[e]
  BY <1>1, <1>2
<1>5. doc' \in [Rows -> DocRecord]
  <2>1. doc' = [e \in Rows |-> doc'[e]]
    BY <1>1, <1>2
  <2>2. \A e \in Rows : doc'[e] \in DocRecord
    BY <1>2, <1>3, <1>4
  <2> QED BY <2>1, <2>2
<1>6. Base!Indexed' = Base!Indexed /\ Base!UnderWay' = Base!UnderWay \cup {d} /\ d \notin Base!UnderWay
      /\ Base!Indexed \in SUBSET Rows /\ Base!UnderWay \in SUBSET Rows
  BY <1>2, <1>3, <1>4 DEF Base!Indexed, Base!UnderWay
<1>7. ChunksOfText'
  BY <1>2, <1>3, <1>4 DEF BaseInv, ChunksOfText
<1>8. FilesInSize'
  <2>1. \A e \in Base!UnderWay : doc'[e] = doc[e]
    BY <1>4, <1>6
  <2> QED BY <1>1, <1>3, <1>6, <2>1 DEF BaseInv, FilesInSize
<1> PICK U : U = Base!UnderWay'
  OBVIOUS
<1> PICK I : I = Base!Indexed
  OBVIOUS
<1>9. /\ U \in SUBSET Rows /\ I \in SUBSET Rows /\ IsFiniteSet(U) /\ IsFiniteSet(I)
      /\ Cardinality(U) \in Nat /\ Cardinality(I) \in Nat
  BY <1>6, RowsCount, FS_CardinalityType
<1>10. Cardinality(U) <= MaxAtOnce
  <2>1. Cardinality(Base!UnderWay) < MaxAtOnce
    BY Counts DEF Base!Upload
  <2>2. IsFiniteSet(Base!UnderWay) /\ Cardinality(Base!UnderWay) \in Nat
    BY <1>6, RowsCount, FS_CardinalityType
  <2>3. Cardinality(U) = Cardinality(Base!UnderWay) + 1
    BY <1>6, <2>2, FS_AddElement
  <2> QED BY <2>1, <2>2, <2>3, Limits
<1>11. MaxDocs > 0 => Cardinality(I \cup U) < MaxDocs + MaxAtOnce
  <2>1. Cardinality(I \cup U) <= Cardinality(I) + Cardinality(U) /\ Cardinality(I \cup U) \in Nat
    <3>1. IsFiniteSet(I \cup U) /\ Cardinality(I \cup U) = Cardinality(I) + Cardinality(U) - Cardinality(I \cap U)
      BY <1>9, FS_Union
    <3>2. Cardinality(I \cap U) \in Nat
      BY <1>9, FS_Intersection, FS_CardinalityType
    <3>3. Cardinality(I \cup U) \in Nat
      BY <3>1, FS_CardinalityType
    <3> QED BY <1>9, <3>1, <3>2, <3>3
  <2>2. MaxDocs > 0 => Cardinality(I) < MaxDocs
    BY Counts DEF Base!Upload, Base!WithinQuota
  <2> QED BY <1>9, <1>10, <2>1, <2>2, Limits
<1>12. MaxBytes > 0 => BytesOf(doc', I \cup U) < MaxBytes + MaxAtOnce * MaxFile
  <2>1. \A x \in U : Base!Size(doc'[x].text) <= MaxFile
    BY <1>8 DEF FilesInSize
  <2>2. /\ BytesOf(doc', I) \in Nat /\ BytesOf(doc', I \cup U) \in Nat
        /\ BytesOf(doc', I \cup U) <= BytesOf(doc', I) + Cardinality(U) * MaxFile
    BY <1>5, <1>9, <2>1, Limits, BytesMore
  <2>3. \A x \in I : Base!Size(doc'[x].text) <= Base!Size(doc[x].text)
    <3> SUFFICES ASSUME NEW x \in I PROVE Base!Size(doc'[x].text) <= Base!Size(doc[x].text)
      OBVIOUS
    <3>1. x \in Rows /\ x # d
      BY <1>2 DEF Base!Indexed
    <3>2. doc'[x].text = doc[x].text /\ doc[x].text \in Seq(Seq(Nat))
      BY <1>2, <1>4, <3>1 DEF DocRecord
    <3>3. Base!Size(doc[x].text) \in Nat
      BY <3>2, SizeNat
    <3> QED BY <3>2, <3>3
  <2>4. BytesOf(doc, I) \in Nat /\ BytesOf(doc', I) <= BytesOf(doc, I)
    BY <1>2, <1>5, <1>9, <2>3, BytesLess
  <2>5. MaxBytes > 0 => BytesOf(doc, I) < MaxBytes
    BY BytesAre DEF Base!Upload, Base!WithinQuota
  <2>6. PICK k \in Nat : MaxAtOnce = Cardinality(U) + k
    <3>1. MaxAtOnce - Cardinality(U) \in Nat /\ MaxAtOnce = Cardinality(U) + (MaxAtOnce - Cardinality(U))
      BY <1>9, <1>10, Limits
    <3> QED BY <3>1
  <2>7. PICK m \in Nat : m = Cardinality(U) * MaxFile
    BY <1>9, Limits
  <2>8. PICK r \in Nat : r = k * MaxFile
    BY Limits
  <2>9. MaxAtOnce * MaxFile = m + r
    BY <1>9, <2>6, <2>7, <2>8, Limits
  <2> QED BY <2>2, <2>4, <2>5, <2>7, <2>9, Limits
<1>13. Base!QuotaOvershoot'
  BY <1>6, <1>11, <1>12, BytesAre, Counts DEF Base!QuotaOvershoot
<1>14. AtOnce'
  BY <1>10 DEF AtOnce
<1> QED BY <1>5, <1>7, <1>8, <1>13, <1>14 DEF BaseInv

\* What the other actions make of a document: it goes on with its text, or is nothing again.
LEMMA GoesOn ==
  ASSUME BaseInv, NEW d \in Rows, NEW r \in DocRecord, doc' = [doc EXCEPT ![d] = r],
         \/ r.at = "none"
         \/ /\ r.text = doc[d].text /\ r.at \in {"embedding", "indexed"}
            /\ doc[d].at \in {"admitted", "embedding"} /\ r.chunks = Base!Chunks(r.text)
  PROVE  BaseInv'
<1>1. doc \in [Rows -> DocRecord] /\ doc' \in [Rows -> DocRecord] /\ doc'[d] = r
      /\ \A e \in Rows : e # d => doc'[e] = doc[e]
  BY DEF BaseInv
<1>2. ChunksOfText'
  BY <1>1 DEF BaseInv, ChunksOfText
<1>3. Base!UnderWay' \subseteq Base!UnderWay
  BY <1>1 DEF Base!UnderWay
<1>4. (Base!Indexed \cup Base!UnderWay)' \subseteq Base!Indexed \cup Base!UnderWay
  BY <1>1 DEF Base!UnderWay, Base!Indexed
<1>5. \A e \in (Base!Indexed \cup Base!UnderWay)' : doc'[e].text = doc[e].text
  BY <1>1 DEF Base!UnderWay, Base!Indexed
<1>6. FilesInSize' /\ AtOnce' /\ Base!QuotaOvershoot'
  BY <1>1, <1>3, <1>4, <1>5, NothingAdded
<1> QED BY <1>1, <1>2, <1>6 DEF BaseInv

LEMMA BaseStep == BaseInv /\ [Base!Next]_doc => BaseInv'
<1> SUFFICES ASSUME BaseInv, [Base!Next]_doc PROVE BaseInv'
  OBVIOUS
<1>0. CASE UNCHANGED doc
  <2>1. /\ doc' \in [Rows -> DocRecord] /\ Base!UnderWay' = Base!UnderWay
        /\ (Base!Indexed \cup Base!UnderWay)' = Base!Indexed \cup Base!UnderWay
    BY <1>0 DEF BaseInv, Base!UnderWay, Base!Indexed
  <2>2. FilesInSize' /\ AtOnce' /\ Base!QuotaOvershoot'
    BY <1>0, <2>1, NothingAdded
  <2>3. ChunksOfText'
    BY <1>0 DEF BaseInv, ChunksOfText
  <2> QED BY <2>1, <2>2, <2>3 DEF BaseInv
<1> SUFFICES ASSUME NEW d \in Rows,
                    \/ Base!Upload(d) \/ Base!Parse(d) \/ Base!Embed(d) \/ Base!Retry(d)
                    \/ Base!Fails(d) \/ Base!Commit(d) \/ Base!Delete(d)
             PROVE  BaseInv'
  BY <1>0 DEF Base!Next
<1>1. /\ doc \in [Rows -> DocRecord] /\ doc[d] \in DocRecord /\ doc[d].text \in Seq(Seq(Nat))
      /\ doc[d].chunks \in Seq(Chunk) /\ doc[d].embedded \in Nat /\ doc[d].attempt \in Nat
      /\ (doc[d].at \in {"embedding", "indexed"} => doc[d].chunks = Base!Chunks(doc[d].text))
  BY DEF BaseInv, ChunksOfText, DocRecord
<1>2. ASSUME Base!Upload(d) PROVE BaseInv'
  BY <1>2, UploadKeeps
<1>3. ASSUME Base!Parse(d) PROVE BaseInv'
  <2>1. Base!Chunks(doc[d].text) \in Seq(Chunk)
    BY <1>1, ChunksRight
  <2>2. CASE Base!Chunks(doc[d].text) = <<>>
    <3>1. doc' = [doc EXCEPT ![d] = Base!NoDoc]
      BY <1>3, <2>2 DEF Base!Parse
    <3> QED BY <3>1, NoDocIs, GoesOn
  <2>3. CASE Base!Chunks(doc[d].text) # <<>>
    <3>0. PICK r : r = [doc[d] EXCEPT !.at = "embedding", !.chunks = Base!Chunks(doc[d].text)]
      OBVIOUS
    <3>1. doc' = [doc EXCEPT ![d] = r]
      BY <1>1, <1>3, <2>3, <3>0 DEF Base!Parse
    <3>2. r \in DocRecord /\ r.text = doc[d].text /\ r.at = "embedding" /\ r.chunks = Base!Chunks(r.text)
      BY <1>1, <2>1, <3>0 DEF DocRecord
    <3>3. doc[d].at = "admitted"
      BY <1>3 DEF Base!Parse
    <3> QED BY <3>1, <3>2, <3>3, GoesOn
  <2> QED BY <2>2, <2>3
<1>4. ASSUME Base!Embed(d) PROVE BaseInv'
  <2> PICK m : m = IF doc[d].embedded + BatchSize < Len(doc[d].chunks)
                   THEN doc[d].embedded + BatchSize ELSE Len(doc[d].chunks)
    OBVIOUS
  <2>1. m \in Nat
    BY <1>1, Limits, LenProperties
  <2>0. PICK r : r = [doc[d] EXCEPT !.embedded = m, !.attempt = 1]
    OBVIOUS
  <2>2. doc[d].at = "embedding" /\ doc' = [doc EXCEPT ![d].embedded = m, ![d].attempt = 1]
    BY <1>4 DEF Base!Embed
  <2>3. doc' = [doc EXCEPT ![d] = r]
    BY <1>1, <2>0, <2>2
  <2>4. r \in DocRecord /\ r.text = doc[d].text /\ r.at = "embedding" /\ r.chunks = Base!Chunks(r.text)
    BY <1>1, <2>0, <2>1, <2>2 DEF DocRecord
  <2> QED BY <2>2, <2>3, <2>4, GoesOn
<1>5. ASSUME Base!Retry(d) PROVE BaseInv'
  <2>1. PICK n \in Nat : n = doc[d].attempt + 1
    BY <1>1
  <2>0. PICK r : r = [doc[d] EXCEPT !.attempt = n]
    OBVIOUS
  <2>2. doc[d].at = "embedding" /\ doc' = [doc EXCEPT ![d].attempt = n]
    BY <1>5, <2>1 DEF Base!Retry
  <2>3. doc' = [doc EXCEPT ![d] = r]
    BY <1>1, <2>0, <2>2
  <2>4. r \in DocRecord /\ r.text = doc[d].text /\ r.at = "embedding" /\ r.chunks = Base!Chunks(r.text)
    BY <1>1, <2>0, <2>2 DEF DocRecord
  <2> QED BY <2>2, <2>3, <2>4, GoesOn
<1>6. ASSUME Base!Fails(d) \/ Base!Delete(d) PROVE BaseInv'
  <2>1. doc' = [doc EXCEPT ![d] = Base!NoDoc]
    BY <1>6 DEF Base!Fails, Base!Delete
  <2> QED BY <2>1, NoDocIs, GoesOn
<1>7. ASSUME Base!Commit(d) PROVE BaseInv'
  <2>0. PICK r : r = [doc[d] EXCEPT !.at = "indexed"]
    OBVIOUS
  <2>2. doc[d].at = "embedding" /\ doc' = [doc EXCEPT ![d].at = "indexed"]
    BY <1>7 DEF Base!Commit
  <2>3. doc' = [doc EXCEPT ![d] = r]
    BY <1>1, <2>0, <2>2
  <2>4. r \in DocRecord /\ r.text = doc[d].text /\ r.at = "indexed" /\ r.chunks = Base!Chunks(r.text)
    BY <1>1, <2>0, <2>2 DEF DocRecord
  <2> QED BY <2>2, <2>3, <2>4, GoesOn
<1> QED BY <1>2, <1>3, <1>4, <1>5, <1>6, <1>7

\* Uploads that overlap pass the quotas, as the check counts only what is indexed and not the
\* file that comes, but by less than the uploads that may be under way at once
\* (knowledge.py, check_quota).
THEOREM QuotaSafe == Base!Spec => []QuotaOvershoot
<1>1. BaseInv => QuotaOvershoot
  BY DEF BaseInv, QuotaOvershoot
<1> QED BY <1>1, BaseStarts, BaseStep, PTL DEF Base!Spec

\* The chunks of an indexed document are all of its sentences in order, and none is longer than
\* configured but for one long sentence, whatever the text (knowledge_service.py, _chunk).
THEOREM ChunksSafe == Base!Spec => []ChunksCover
<1>1. BaseInv => ChunksCover
  <2> SUFFICES ASSUME BaseInv, NEW d \in Base!Indexed
               PROVE  /\ Base!FlattenSeq([i \in DOMAIN doc[d].chunks |-> doc[d].chunks[i].body])
                         = Base!FlattenSeq(Base!SentencesOf(doc[d].text))
                      /\ \A i \in DOMAIN doc[d].chunks :
                           /\ doc[d].chunks[i].tail <= Overlap /\ (i = 1 => doc[d].chunks[i].tail = 0)
                           /\ \/ Base!Length(doc[d].chunks[i].body) <= MaxChunk
                              \/ Len(doc[d].chunks[i].body) = 1
    BY DEF ChunksCover, Base!ChunksCover
  <2>1. doc[d].text \in Seq(Seq(Nat)) /\ doc[d].chunks = Base!Chunks(doc[d].text)
    BY DEF BaseInv, ChunksOfText, DocRecord, Base!Indexed
  <2> PICK l : l = doc[d].chunks
    OBVIOUS
  <2>2. l \in Seq(Chunk) /\ InSize(l) /\ Base!FlattenSeq(Bodies(l)) = Base!FlattenSeq(Base!SentencesOf(doc[d].text))
    BY <2>1, ChunksRight
  <2>3. DOMAIN l = 1..Len(l)
    BY <2>2, LenProperties
  <2> QED BY <2>2, <2>3 DEF InSize, Fits, Bodies
<1> QED BY <1>1, BaseStarts, BaseStep, PTL DEF Base!Spec
=============================================================================
