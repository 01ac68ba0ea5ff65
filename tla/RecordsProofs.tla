--------------------------- MODULE RecordsProofs ---------------------------
(***************************************************************************)
(* Theorems about the components checked together in MCRecords, for any    *)
(* tasks, agents, transactions, documents, servers, webhooks and           *)
(* manifests: Tasks, Board, Billing, Documents, Toolbox, PromptBuilder and *)
(* Clusters.  Each has an inductive invariant of its own.                  *)
(***************************************************************************)
EXTENDS MCRecords, FiniteSetTheorems, FunctionTheorems, SequenceTheorems, TLAPS

-----------------------------------------------------------------------------
(*****************************************************************************)
(* Tasks                                                                     *)
(*****************************************************************************)


Ops == {"none", "status", "patch", "assign", "abort", "clear", "delete"}
Transaction ==
  [by : {"nobody", "request", "session"}, agent : Agents \cup {NoAgent},
   loaded : Tasks \cup {NoTask},
   job : [op : Ops, task : Tasks \cup {NoTask},
          arg : Statuses \cup Agents \cup {NoAgent},
          seen : Task \cup {Absent}, has : Tasks \cup {NoTask}],
   over : BOOLEAN, locks : SUBSET (Tasks \cup Agents)]

\* What a transaction has in hand.
Whole(x) ==
  /\ x.by = "session" => x.agent \in Agents
  /\ x.job.op # "none" => x.job.task \in Tasks /\ x.job.seen \in Task
  /\ x.job.op = "status" => x.job.arg \in Statuses
  /\ x.job.op \in {"assign", "abort"} => x.job.arg \in Agents
  /\ x.job.op = "patch" => x.job.arg \in Agents \cup {NoAgent}
  /\ x.job.op = "none" => x.job.task = NoTask

Typed == TypeOK /\ tx \in [Calls -> Transaction] /\ \A c \in Calls : Whole(tx[c])

\* A task that is there, is being made or is asked for has been made.
Known ==
  \A t \in Tasks \ used :
    /\ row[t] = Absent /\ work[t] = Absent
    /\ \A c \in Calls : t \notin tx[c].locks /\ tx[c].job.task # t

\* An agent's current task is there, for those who hold rows and in what is committed; a task
\* being deleted is nobody's but that of an agent whose row the deletion holds; and whoever
\* points to a task being created holds both.
Pointed ==
  \A a \in Agents :
    /\ current[a] # NoTask => row[current[a]] # Absent
    /\ workCurrent[a] # NoTask => work[workCurrent[a]] # Absent
    /\ \A t \in Tasks, c \in Calls :
         t \in tx[c].locks /\ work[t] = Absent /\ a \notin tx[c].locks => current[a] # t
    /\ workCurrent[a] # NoTask /\ row[workCurrent[a]] = Absent =>
         \E c \in Calls : {a, workCurrent[a]} \subseteq tx[c].locks

\* A task that is not crossed is in the hands of one transaction, which finds it as it was
\* when it read it.
Touches(c, t) ==
  \/ tx[c].job.task = t \/ t \in tx[c].locks
  \/ \E a \in Agents \cap tx[c].locks : workCurrent[a] = t
Apart ==
  \A t \in Tasks \ crossed : \A c, d \in Calls : Touches(c, t) /\ Touches(d, t) => c = d
SeenAsItIs ==
  \A c \in Calls, t \in Tasks \ crossed : tx[c].job.task = t => tx[c].job.seen = Sees(c, t)

\* As each transaction sees them, an agent's current task is assigned to it.
Assigned(c) ==
  \A a \in Agents, t \in Tasks \ crossed : SeesCurrent(c, a) = t => Sees(c, t).agent = a

IInv ==
  /\ Typed /\ Known /\ Pointed /\ Apart /\ SeenAsItIs
  /\ CurrentIsAssigned /\ \A c \in Calls : Assigned(c)

-----------------------------------------------------------------------------
(* Records *)

\* The fields of a transaction.
LEMMA Fields ==
  ASSUME NEW x \in Transaction
  PROVE  /\ x.by \in {"nobody", "request", "session"} /\ x.agent \in Agents \cup {NoAgent}
         /\ x.loaded \in Tasks \cup {NoTask} /\ x.over \in BOOLEAN
         /\ x.locks \in SUBSET (Tasks \cup Agents)
         /\ x.job.op \in Ops /\ x.job.task \in Tasks \cup {NoTask}
         /\ x.job.arg \in Statuses \cup Agents \cup {NoAgent}
         /\ x.job.seen \in Task \cup {Absent} /\ x.job.has \in Tasks \cup {NoTask}
  BY DEF Transaction

\* A task that is there is not the record of one that is not.
LEMMA TaskIsThere ==
  ASSUME NEW r \in Task
  PROVE  r # Absent /\ r.status \in Statuses /\ r.agent \in Agents \cup {NoAgent}
  BY DEF Task, Absent, Statuses

\* A transaction that is closed.
LEMMA ClosedIs ==
  /\ Closed \in Transaction /\ Whole(Closed) /\ Closed.locks = {} /\ Closed.job = NoJob
  /\ NoJob.task = NoTask
  BY DEF Closed, NoJob, Transaction, Whole, Ops

\* A transaction whose operation is over keeps its locks.
LEMMA DoneIs ==
  ASSUME NEW x \in Transaction, Whole(x)
  PROVE  /\ Done(x) \in Transaction /\ Whole(Done(x))
         /\ Done(x).locks = x.locks /\ Done(x).job = NoJob
<1>1. PICK k : k = Done(x)
  OBVIOUS
<1>2. k = [by |-> x.by, agent |-> x.agent, loaded |-> x.loaded, job |-> NoJob,
           over |-> (x.by # "session"), locks |-> x.locks]
  BY <1>1 DEF Done, Transaction
<1>3. k \in Transaction
  BY <1>2, Fields, ClosedIs DEF Transaction, NoJob, Ops
<1>4. Whole(k)
  BY <1>2 DEF Whole, NoJob
<1> QED
  BY <1>1, <1>2, <1>3, <1>4

-----------------------------------------------------------------------------
(* Rows *)

\* What a transaction sees is a row, and what it may write nobody else sees otherwise.
LEMMA SeesIs ==
  ASSUME Typed, NEW c \in Calls
  PROVE  /\ \A t \in Tasks : Sees(c, t) \in Task \cup {Absent}
         /\ \A a \in Agents : SeesCurrent(c, a) \in Tasks \cup {NoTask}
         /\ \A t \in Tasks : Free(c, t) => work[t] = Sees(c, t)
         /\ \A a \in Agents : Free(c, a) => workCurrent[a] = SeesCurrent(c, a)
  BY DEF Typed, TypeOK, Rows, Sees, SeesCurrent, Free

\* Locks are of one transaction each.
LEMMA OneHolder ==
  ASSUME Typed, NEW c \in Calls, NEW d \in Calls, NEW x, x \in tx[c].locks, x \in tx[d].locks
  PROVE  c = d
  BY DEF Typed, TypeOK

-----------------------------------------------------------------------------
(* Steps of a transaction that goes on *)

\* An operation begins: nothing is written.
LEMMA JobStep ==
  ASSUME IInv, NEW c \in Calls, NEW y \in Transaction, Whole(y),
         tx' = [tx EXCEPT ![c] = y], y.locks = tx[c].locks,
         UNCHANGED <<rows, used>>, crossed \subseteq crossed',
         y.job.task \in Tasks =>
           /\ y.job.task \in used /\ y.job.seen = Sees(c, y.job.task)
           /\ y.job.task \in crossed' \/ \A d \in Calls \ {c} : ~Touches(d, y.job.task)
  PROVE  IInv'
<1>1. /\ tx' \in [Calls -> Transaction] /\ tx'[c] = y
      /\ \A d \in Calls : d # c => tx'[d] = tx[d]
      /\ \A d \in Calls : tx'[d].locks = tx[d].locks
  BY DEF IInv, Typed
<1>2. /\ row' = row /\ work' = work /\ current' = current /\ workCurrent' = workCurrent
      /\ used' = used
  BY DEF rows
<1>3. Typed'
  <2>1. \A d \in Calls : Whole(tx'[d])
    BY <1>1 DEF IInv, Typed
  <2>2. TypeOK'
    BY <1>1, <1>2 DEF IInv, Typed, TypeOK
  <2> QED
    BY <1>1, <2>1, <2>2 DEF Typed
<1>4. Known'
  BY <1>1, <1>2, ClosedIs DEF IInv, Known
<1>5. Pointed'
  BY <1>1, <1>2 DEF IInv, Pointed
<1>6. /\ \A d \in Calls, t \in Tasks : Sees(d, t)' = Sees(d, t)
      /\ \A d \in Calls, a \in Agents : SeesCurrent(d, a)' = SeesCurrent(d, a)
  BY <1>1, <1>2 DEF Sees, SeesCurrent
<1>7. /\ \A d \in Calls \ {c}, t \in Tasks : Touches(d, t)' <=> Touches(d, t)
      /\ \A t \in Tasks : Touches(c, t)' => Touches(c, t) \/ t = y.job.task
  BY <1>1, <1>2 DEF Touches
<1>8. Apart'
  BY <1>7 DEF IInv, Apart
<1>9. SeenAsItIs'
  <2> SUFFICES ASSUME NEW d \in Calls, NEW t \in Tasks \ crossed', tx'[d].job.task = t
               PROVE  tx'[d].job.seen = Sees(d, t)'
    BY DEF SeenAsItIs
  <2>1. CASE d = c
    BY <2>1, <1>1, <1>6
  <2>2. CASE d # c
    BY <2>2, <1>1, <1>6 DEF IInv, SeenAsItIs
  <2> QED
    BY <2>1, <2>2
<1>10. \A d \in Calls : Assigned(d)'
  <2> SUFFICES ASSUME NEW d \in Calls, NEW a \in Agents, NEW t \in Tasks \ crossed',
                      SeesCurrent(d, a)' = t
               PROVE  Sees(d, t)'.agent = a
    BY DEF Assigned
  <2> QED
    BY <1>6 DEF IInv, Assigned
<1>11. CurrentIsAssigned'
  BY <1>2 DEF IInv, CurrentIsAssigned
<1> QED
  BY <1>3, <1>4, <1>5, <1>8, <1>9, <1>10, <1>11 DEF IInv

\* Rows are written, all of them locked: what is asked of the writing is that what it leaves
\* is known, pointed to and assigned as it should be, and takes no task out of other hands.
LEMMA WriteStep ==
  ASSUME IInv, NEW c \in Calls, NEW y \in Transaction, Whole(y),
         tx' = [tx EXCEPT ![c] = y], UNCHANGED <<row, current>>,
         tx[c].locks \subseteq y.locks, \A x \in y.locks : Free(c, x),
         work' \in Rows, \A t \in Tasks \ y.locks : work'[t] = work[t],
         workCurrent' \in [Agents -> Tasks \cup {NoTask}],
         \A a \in Agents \ y.locks : workCurrent'[a] = workCurrent[a],
         used \subseteq used', crossed \subseteq crossed',
         \A t \in Tasks \ used' : work'[t] = Absent /\ t \notin y.locks /\ y.job.task # t,
         \A a \in Agents : workCurrent'[a] # NoTask => work'[workCurrent'[a]] # Absent,
         \A t \in Tasks \cap y.locks, a \in Agents \ y.locks : work'[t] = Absent => current[a] # t,
         \A a \in Agents \cap y.locks :
           workCurrent'[a] # NoTask /\ row[workCurrent'[a]] = Absent => workCurrent'[a] \in y.locks,
         \A t \in Tasks \ crossed' :
           Touches(c, t)' => Touches(c, t) \/ \A d \in Calls \ {c} : ~Touches(d, t),
         \A t \in Tasks \ crossed' : y.job.task = t => y.job.seen = Sees(c, t)',
         Assigned(c)'
  PROVE  IInv'
<1>1. /\ tx' \in [Calls -> Transaction] /\ tx'[c] = y
      /\ \A d \in Calls : d # c => tx'[d] = tx[d]
  BY DEF IInv, Typed
<1>2. row' = row /\ current' = current
  OBVIOUS
<1>3. \A d \in Calls : d # c => \A x \in tx[d].locks : x \notin y.locks
  BY DEF Free
<1>4. Typed'
  <2>1. \A d \in Calls : Whole(tx'[d])
    BY <1>1 DEF IInv, Typed
  <2>2. row' \in Rows /\ current' \in [Agents -> Tasks \cup {NoTask}]
    BY <1>2 DEF IInv, Typed, TypeOK
  <2>3. \A d \in Calls : tx'[d].locks \subseteq Tasks \cup Agents
    BY <1>1, Fields
  <2>4. \A d, e \in Calls : d # e => tx'[d].locks \cap tx'[e].locks = {}
    BY <1>1, <1>3 DEF IInv, Typed, TypeOK
  <2>5. \A t \in Tasks : work'[t] # row'[t] => \E d \in Calls : t \in tx'[d].locks
    <3> SUFFICES ASSUME NEW t \in Tasks, work'[t] # row'[t], t \notin y.locks
                 PROVE  \E d \in Calls : t \in tx'[d].locks
      BY <1>1
    <3>1. PICK d \in Calls : t \in tx[d].locks
      BY <1>2 DEF IInv, Typed, TypeOK
    <3> QED
      BY <3>1, <1>1
  <2>6. \A a \in Agents : workCurrent'[a] # current'[a] => \E d \in Calls : a \in tx'[d].locks
    <3> SUFFICES ASSUME NEW a \in Agents, workCurrent'[a] # current'[a], a \notin y.locks
                 PROVE  \E d \in Calls : a \in tx'[d].locks
      BY <1>1
    <3>1. PICK d \in Calls : a \in tx[d].locks
      BY <1>2 DEF IInv, Typed, TypeOK
    <3> QED
      BY <3>1, <1>1
  <2> QED
    BY <1>1, <2>1, <2>2, <2>3, <2>4, <2>5, <2>6 DEF Typed, TypeOK
<1>5. Known'
  BY <1>1, <1>2 DEF IInv, Known
<1>6. Pointed'
  <2> SUFFICES ASSUME NEW a \in Agents
               PROVE  /\ current[a] # NoTask => row[current[a]] # Absent
                      /\ workCurrent'[a] # NoTask => work'[workCurrent'[a]] # Absent
                      /\ \A t \in Tasks, d \in Calls :
                           t \in tx'[d].locks /\ work'[t] = Absent /\ a \notin tx'[d].locks
                             => current[a] # t
                      /\ workCurrent'[a] # NoTask /\ row[workCurrent'[a]] = Absent =>
                           \E d \in Calls : {a, workCurrent'[a]} \subseteq tx'[d].locks
    BY <1>2 DEF Pointed
  <2>1. current[a] # NoTask => row[current[a]] # Absent
    BY DEF IInv, Pointed
  <2>2. ASSUME NEW t \in Tasks, NEW d \in Calls,
               t \in tx'[d].locks, work'[t] = Absent, a \notin tx'[d].locks
        PROVE  current[a] # t
    <3>1. CASE d = c
      BY <2>2, <3>1, <1>1
    <3>2. CASE d # c
      <4>1. t \in tx[d].locks /\ a \notin tx[d].locks /\ work[t] = Absent
        BY <2>2, <3>2, <1>1, <1>3
      <4> QED
        BY <4>1 DEF IInv, Pointed
    <3> QED
      BY <3>1, <3>2
  <2>3. ASSUME workCurrent'[a] # NoTask, row[workCurrent'[a]] = Absent
        PROVE  \E d \in Calls : {a, workCurrent'[a]} \subseteq tx'[d].locks
    <3>1. CASE a \in y.locks
      BY <2>3, <3>1, <1>1
    <3>2. CASE a \notin y.locks
      <4>1. workCurrent'[a] = workCurrent[a]
        BY <3>2
      <4>2. PICK d \in Calls : {a, workCurrent[a]} \subseteq tx[d].locks
        BY <2>3, <4>1 DEF IInv, Pointed
      <4>3. d # c
        BY <3>2, <4>2
      <4> QED
        BY <4>1, <4>2, <4>3, <1>1
    <3> QED
      BY <3>1, <3>2
  <2> QED
    BY <2>1, <2>2, <2>3
<1>7. \A d \in Calls \ {c} :
        /\ \A t \in Tasks : Sees(d, t)' = Sees(d, t)
        /\ \A a \in Agents : SeesCurrent(d, a)' = SeesCurrent(d, a)
        /\ \A t \in Tasks : Touches(d, t)' <=> Touches(d, t)
  <2> TAKE d \in Calls \ {c}
  <2>1. tx'[d] = tx[d] /\ \A x \in tx[d].locks : x \notin y.locks
    BY <1>1, <1>3
  <2>2. \A t \in Tasks : Sees(d, t)' = Sees(d, t)
    BY <2>1, <1>2 DEF Sees
  <2>3. \A a \in Agents : SeesCurrent(d, a)' = SeesCurrent(d, a)
    BY <2>1, <1>2 DEF SeesCurrent
  <2>4. \A t \in Tasks : Touches(d, t)' <=> Touches(d, t)
    BY <2>1 DEF Touches
  <2> QED
    BY <2>2, <2>3, <2>4
<1>8. Apart'
  <2> SUFFICES ASSUME NEW t \in Tasks \ crossed', NEW d \in Calls, NEW e \in Calls, d # e,
                      Touches(d, t)', Touches(e, t)'
               PROVE  FALSE
    BY DEF Apart
  <2>1. t \in Tasks \ crossed
    OBVIOUS
  <2>2. CASE d # c /\ e # c
    BY <2>1, <2>2, <1>7 DEF IInv, Apart
  <2>3. CASE d = c
    BY <2>1, <2>3, <1>7 DEF IInv, Apart
  <2>4. CASE e = c
    BY <2>1, <2>4, <1>7 DEF IInv, Apart
  <2> QED
    BY <2>2, <2>3, <2>4
<1>9. SeenAsItIs'
  <2> SUFFICES ASSUME NEW d \in Calls, NEW t \in Tasks \ crossed', tx'[d].job.task = t
               PROVE  tx'[d].job.seen = Sees(d, t)'
    BY DEF SeenAsItIs
  <2>1. CASE d = c
    BY <2>1, <1>1
  <2>2. CASE d # c
    BY <2>2, <1>1, <1>7 DEF IInv, SeenAsItIs
  <2> QED
    BY <2>1, <2>2
<1>10. \A d \in Calls : Assigned(d)'
  <2> SUFFICES ASSUME NEW d \in Calls \ {c}, NEW a \in Agents, NEW t \in Tasks \ crossed',
                      SeesCurrent(d, a)' = t
               PROVE  Sees(d, t)'.agent = a
    BY DEF Assigned
  <2> QED
    BY <1>7 DEF IInv, Assigned
<1>11. CurrentIsAssigned'
  BY <1>2 DEF IInv, CurrentIsAssigned
<1> QED
  BY <1>4, <1>5, <1>6, <1>8, <1>9, <1>10, <1>11 DEF IInv

-----------------------------------------------------------------------------
(* Steps that end a transaction *)

\* What an end leaves to the others: their locks and their jobs, and rows they hold.
LEMMA EndStep ==
  ASSUME IInv, NEW c \in Calls, tx' = [tx EXCEPT ![c] = Closed], UNCHANGED <<used, crossed>>,
         row' \in Rows, work' \in Rows,
         current' \in [Agents -> Tasks \cup {NoTask}], workCurrent' \in [Agents -> Tasks \cup {NoTask}],
         \A t \in Tasks : IF t \in tx[c].locks THEN row'[t] = work'[t]
                          ELSE row'[t] = row[t] /\ work'[t] = work[t],
         \A a \in Agents : IF a \in tx[c].locks THEN current'[a] = workCurrent'[a]
                           ELSE current'[a] = current[a] /\ workCurrent'[a] = workCurrent[a]
  PROVE  /\ Typed' /\ Apart'
         /\ \A d \in Calls \ {c} : tx'[d] = tx[d] /\ tx[d].locks \cap tx[c].locks = {}
         /\ tx'[c] = Closed
<1>1. /\ tx' \in [Calls -> Transaction] /\ tx'[c] = Closed
      /\ \A d \in Calls : d # c => tx'[d] = tx[d]
  BY ClosedIs DEF IInv, Typed
<1>2. \A d \in Calls \ {c} : tx[d].locks \cap tx[c].locks = {}
  BY DEF IInv, Typed, TypeOK
<1>3. Typed'
  <2>1. \A d \in Calls : Whole(tx'[d])
    BY <1>1, ClosedIs DEF IInv, Typed
  <2>2. \A d \in Calls : tx'[d].locks \subseteq Tasks \cup Agents
    BY <1>1, Fields
  <2>3. \A d, e \in Calls : d # e => tx'[d].locks \cap tx'[e].locks = {}
    BY <1>1, ClosedIs DEF IInv, Typed, TypeOK
  <2>4. \A t \in Tasks : work'[t] # row'[t] => \E d \in Calls : t \in tx'[d].locks
    <3> SUFFICES ASSUME NEW t \in Tasks, work'[t] # row'[t]
                 PROVE  \E d \in Calls : t \in tx'[d].locks
      OBVIOUS
    <3>1. t \notin tx[c].locks /\ work[t] # row[t]
      OBVIOUS
    <3>2. PICK d \in Calls : t \in tx[d].locks
      BY <3>1 DEF IInv, Typed, TypeOK
    <3> QED
      BY <3>1, <3>2, <1>1
  <2>5. \A a \in Agents : workCurrent'[a] # current'[a] => \E d \in Calls : a \in tx'[d].locks
    <3> SUFFICES ASSUME NEW a \in Agents, workCurrent'[a] # current'[a]
                 PROVE  \E d \in Calls : a \in tx'[d].locks
      OBVIOUS
    <3>1. a \notin tx[c].locks /\ workCurrent[a] # current[a]
      OBVIOUS
    <3>2. PICK d \in Calls : a \in tx[d].locks
      BY <3>1 DEF IInv, Typed, TypeOK
    <3> QED
      BY <3>1, <3>2, <1>1
  <2> QED
    BY <1>1, <2>1, <2>2, <2>3, <2>4, <2>5 DEF Typed, TypeOK
<1>4. Apart'
  <2>1. \A d \in Calls \ {c}, t \in Tasks : Touches(d, t)' => Touches(d, t)
    BY <1>1, <1>2 DEF Touches
  <2>2. \A t \in Tasks : ~Touches(c, t)'
    BY <1>1, ClosedIs, TasksAssumption DEF Touches
  <2> SUFFICES ASSUME NEW t \in Tasks \ crossed', NEW d \in Calls, NEW e \in Calls, d # e,
                      Touches(d, t)', Touches(e, t)'
               PROVE  FALSE
    BY DEF Apart
  <2> QED
    BY <2>1, <2>2 DEF IInv, Apart
<1> QED
  BY <1>1, <1>2, <1>3, <1>4

\* What a transaction has flushed is committed.
LEMMA CommitStep ==
  ASSUME IInv, NEW c \in Calls, Commit(c)
  PROVE  IInv'
<1>1. /\ tx' = [tx EXCEPT ![c] = Closed]
      /\ work' = work /\ workCurrent' = workCurrent /\ used' = used /\ crossed' = crossed
      /\ row' = [t \in Tasks |-> IF t \in tx[c].locks THEN work[t] ELSE row[t]]
      /\ current' = [a \in Agents |-> IF a \in tx[c].locks THEN workCurrent[a] ELSE current[a]]
  BY DEF Commit
<1>2. /\ row \in Rows /\ work \in Rows
      /\ current \in [Agents -> Tasks \cup {NoTask}] /\ workCurrent \in [Agents -> Tasks \cup {NoTask}]
  BY DEF IInv, Typed, TypeOK
<1>3. row' \in Rows /\ current' \in [Agents -> Tasks \cup {NoTask}]
  BY <1>1, <1>2 DEF Rows
<1>4. /\ \A t \in Tasks : row'[t] = IF t \in tx[c].locks THEN work[t] ELSE row[t]
      /\ \A a \in Agents : current'[a] = IF a \in tx[c].locks THEN workCurrent[a] ELSE current[a]
  BY <1>1
<1>5. /\ Typed' /\ Apart'
      /\ \A d \in Calls \ {c} : tx'[d] = tx[d] /\ tx[d].locks \cap tx[c].locks = {}
      /\ tx'[c] = Closed
  BY <1>1, <1>2, <1>3, <1>4, EndStep
<1>6. Known'
  BY <1>1, <1>4, <1>5, ClosedIs, TasksAssumption DEF IInv, Known
<1>7. Pointed'
  <2> SUFFICES ASSUME NEW a \in Agents
               PROVE  /\ current'[a] # NoTask => row'[current'[a]] # Absent
                      /\ workCurrent'[a] # NoTask => work'[workCurrent'[a]] # Absent
                      /\ \A t \in Tasks, d \in Calls :
                           t \in tx'[d].locks /\ work'[t] = Absent /\ a \notin tx'[d].locks
                             => current'[a] # t
                      /\ workCurrent'[a] # NoTask /\ row'[workCurrent'[a]] = Absent =>
                           \E d \in Calls : {a, workCurrent'[a]} \subseteq tx'[d].locks
    BY DEF Pointed
  <2>1. ASSUME current'[a] # NoTask
        PROVE  row'[current'[a]] # Absent
    <3>1. PICK t \in Tasks : t = current'[a]
      BY <1>3, <2>1
    <3>2. CASE a \in tx[c].locks
      <4>1. workCurrent[a] = t /\ work[t] # Absent
        BY <3>1, <3>2, <1>4, TasksAssumption DEF IInv, Pointed
      <4>2. t \notin tx[c].locks => row[t] # Absent
        BY <4>1, <3>2, <1>5, TasksAssumption DEF IInv, Pointed
      <4> QED
        BY <3>1, <4>1, <4>2, <1>4
    <3>3. CASE a \notin tx[c].locks
      <4>1. current[a] = t /\ row[t] # Absent
        BY <3>1, <3>3, <1>4, TasksAssumption DEF IInv, Pointed
      <4>2. t \in tx[c].locks => work[t] # Absent
        BY <4>1, <3>3 DEF IInv, Pointed
      <4> QED
        BY <3>1, <4>1, <4>2, <1>4
    <3> QED
      BY <3>2, <3>3
  <2>2. workCurrent'[a] # NoTask => work'[workCurrent'[a]] # Absent
    BY <1>1 DEF IInv, Pointed
  <2>3. ASSUME NEW t \in Tasks, NEW d \in Calls,
               t \in tx'[d].locks, work'[t] = Absent, a \notin tx'[d].locks
        PROVE  current'[a] # t
    <3>1. d # c /\ t \in tx[d].locks /\ work[t] = Absent /\ a \notin tx[d].locks
      BY <2>3, <1>1, <1>5, ClosedIs
    <3>2. current[a] # t
      BY <3>1 DEF IInv, Pointed
    <3>3. workCurrent[a] # t
      BY <3>1, TasksAssumption DEF IInv, Pointed
    <3> QED
      BY <3>2, <3>3, <1>4
  <2>4. ASSUME workCurrent'[a] # NoTask, row'[workCurrent'[a]] = Absent
        PROVE  \E d \in Calls : {a, workCurrent'[a]} \subseteq tx'[d].locks
    <3>1. PICK t \in Tasks : t = workCurrent[a]
      BY <2>4, <1>1, <1>2
    <3>2. work[t] # Absent
      BY <3>1, TasksAssumption DEF IInv, Pointed
    <3>3. t \notin tx[c].locks /\ row[t] = Absent
      BY <3>1, <3>2, <2>4, <1>1, <1>4
    <3>4. PICK d \in Calls : {a, t} \subseteq tx[d].locks
      BY <3>1, <3>3, TasksAssumption DEF IInv, Pointed
    <3> QED
      BY <3>1, <3>3, <3>4, <1>1, <1>5
  <2> QED
    BY <2>1, <2>2, <2>3, <2>4
\* The committing transaction's view becomes everybody's, but of rows others hold.
<1>8. SeenAsItIs'
  <2> SUFFICES ASSUME NEW d \in Calls, NEW t \in Tasks \ crossed, tx'[d].job.task = t
               PROVE  tx'[d].job.seen = Sees(d, t)'
    BY <1>1 DEF SeenAsItIs
  <2>1. d # c
    BY <1>5, ClosedIs, TasksAssumption
  <2>2. tx[d].job.task = t /\ tx[d].job.seen = Sees(d, t) /\ tx'[d] = tx[d]
    BY <2>1, <1>5 DEF IInv, SeenAsItIs
  <2>3. t \notin tx[c].locks
    BY <2>1, <2>2 DEF IInv, Apart, Touches
  <2> QED
    BY <2>2, <2>3, <1>1, <1>4 DEF Sees
<1>9. \A d \in Calls : Assigned(d)'
  <2> SUFFICES ASSUME NEW d \in Calls, NEW a \in Agents, NEW t \in Tasks \ crossed,
                      SeesCurrent(d, a)' = t
               PROVE  Sees(d, t)'.agent = a
    BY <1>1 DEF Assigned
  <2>1. CASE SeesCurrent(c, a) = t /\ Sees(d, t)' = Sees(c, t)
    BY <2>1 DEF IInv, Assigned
  <2>2. CASE d # c /\ SeesCurrent(d, a) = t /\ Sees(d, t)' = Sees(d, t)
    BY <2>2 DEF IInv, Assigned
  <2>3. d = c => SeesCurrent(c, a) = t /\ Sees(d, t)' = Sees(c, t)
    BY <1>4, <1>5, ClosedIs DEF SeesCurrent, Sees
  <2>4. ASSUME d # c, a \in tx[d].locks
        PROVE  SeesCurrent(d, a) = t /\ Sees(d, t)' = Sees(d, t)
    <3>1. workCurrent[a] = t /\ SeesCurrent(d, a) = t
      BY <2>4, <1>1, <1>5 DEF SeesCurrent
    <3>2. t \notin tx[c].locks
      BY <2>4, <3>1 DEF IInv, Apart, Touches
    <3> QED
      BY <2>4, <3>1, <3>2, <1>1, <1>4, <1>5 DEF Sees
  <2>5. ASSUME d # c, a \notin tx[d].locks, a \in tx[c].locks
        PROVE  SeesCurrent(c, a) = t /\ Sees(d, t)' = Sees(c, t)
    <3>1. workCurrent[a] = t /\ SeesCurrent(c, a) = t
      BY <2>5, <1>4, <1>5 DEF SeesCurrent
    <3>2. t \notin tx[d].locks
      BY <2>5, <3>1 DEF IInv, Apart, Touches
    <3> QED
      BY <2>5, <3>1, <3>2, <1>1, <1>4, <1>5 DEF Sees
  <2>6. ASSUME d # c, a \notin tx[d].locks, a \notin tx[c].locks
        PROVE  SeesCurrent(d, a) = t /\ SeesCurrent(c, a) = t
    BY <2>6, <1>4, <1>5 DEF SeesCurrent
  <2>7. ASSUME d # c
        PROVE  Sees(d, t)' = Sees(d, t) \/ Sees(d, t)' = Sees(c, t)
    BY <2>7, <1>1, <1>4, <1>5 DEF Sees
  <2> QED
    BY <2>1, <2>2, <2>3, <2>4, <2>5, <2>6, <2>7
<1>10. CurrentIsAssigned'
  <2> SUFFICES ASSUME NEW a \in Agents, current'[a] # NoTask
               PROVE  /\ row'[current'[a]] # Absent
                      /\ current'[a] \in crossed \/ row'[current'[a]].agent = a
    BY <1>1 DEF CurrentIsAssigned
  <2>1. current'[a] \in Tasks /\ row'[current'[a]] # Absent
    BY <1>3, <1>7 DEF Pointed
  <2>2. SeesCurrent(c, a)' = current'[a] /\ Sees(c, current[a])' = row'[current'[a]]
    BY <1>5, ClosedIs DEF Sees, SeesCurrent
  <2>3. Assigned(c)'
    BY <1>9
  <2> QED
    BY <2>1, <2>2, <2>3, <1>1 DEF Assigned
<1> QED
  BY <1>5, <1>6, <1>7, <1>8, <1>9, <1>10 DEF IInv

\* What a transaction has flushed is undone: the others see what they saw.
LEMMA RollbackStep ==
  ASSUME IInv, NEW c \in Calls, Rollback(c)
  PROVE  IInv'
<1>1. /\ tx' = [tx EXCEPT ![c] = Closed]
      /\ row' = row /\ current' = current /\ used' = used /\ crossed' = crossed
      /\ work' = [t \in Tasks |-> IF t \in tx[c].locks THEN row[t] ELSE work[t]]
      /\ workCurrent' = [a \in Agents |-> IF a \in tx[c].locks THEN current[a] ELSE workCurrent[a]]
  BY DEF Rollback
<1>2. /\ row \in Rows /\ work \in Rows
      /\ current \in [Agents -> Tasks \cup {NoTask}] /\ workCurrent \in [Agents -> Tasks \cup {NoTask}]
  BY DEF IInv, Typed, TypeOK
<1>3. work' \in Rows /\ workCurrent' \in [Agents -> Tasks \cup {NoTask}]
  BY <1>1, <1>2 DEF Rows
<1>4. /\ \A t \in Tasks : work'[t] = IF t \in tx[c].locks THEN row[t] ELSE work[t]
      /\ \A a \in Agents :
           workCurrent'[a] = IF a \in tx[c].locks THEN current[a] ELSE workCurrent[a]
  BY <1>1
<1>5. /\ Typed' /\ Apart'
      /\ \A d \in Calls \ {c} : tx'[d] = tx[d] /\ tx[d].locks \cap tx[c].locks = {}
      /\ tx'[c] = Closed
  BY <1>1, <1>2, <1>3, <1>4, EndStep
<1>6. Known'
  BY <1>1, <1>4, <1>5, ClosedIs, TasksAssumption DEF IInv, Known
<1>7. Pointed'
  <2> SUFFICES ASSUME NEW a \in Agents
               PROVE  /\ current'[a] # NoTask => row'[current'[a]] # Absent
                      /\ workCurrent'[a] # NoTask => work'[workCurrent'[a]] # Absent
                      /\ \A t \in Tasks, d \in Calls :
                           t \in tx'[d].locks /\ work'[t] = Absent /\ a \notin tx'[d].locks
                             => current'[a] # t
                      /\ workCurrent'[a] # NoTask /\ row'[workCurrent'[a]] = Absent =>
                           \E d \in Calls : {a, workCurrent'[a]} \subseteq tx'[d].locks
    BY DEF Pointed
  <2>1. current'[a] # NoTask => row'[current'[a]] # Absent
    BY <1>1 DEF IInv, Pointed
  <2>2. ASSUME workCurrent'[a] # NoTask
        PROVE  work'[workCurrent'[a]] # Absent
    <3>1. PICK t \in Tasks : t = workCurrent'[a]
      BY <1>3, <2>2
    <3>2. CASE a \in tx[c].locks
      <4>1. current[a] = t /\ row[t] # Absent
        BY <3>1, <3>2, <1>4, TasksAssumption DEF IInv, Pointed
      <4>2. ASSUME t \notin tx[c].locks
            PROVE  work[t] # Absent
        <5>1. \A d \in Calls : t \in tx[d].locks => a \notin tx[d].locks
          BY <4>2, <3>2, <1>5
        <5>2. (\E d \in Calls : t \in tx[d].locks) => work[t] # Absent
          BY <5>1, <4>1 DEF IInv, Pointed
        <5>3. (~\E d \in Calls : t \in tx[d].locks) => work[t] = row[t]
          BY DEF IInv, Typed, TypeOK
        <5> QED
          BY <5>2, <5>3, <4>1
      <4> QED
        BY <3>1, <4>1, <4>2, <1>4
    <3>3. CASE a \notin tx[c].locks
      <4>1. workCurrent[a] = t /\ work[t] # Absent
        BY <3>1, <3>3, <1>4, TasksAssumption DEF IInv, Pointed
      <4>2. ASSUME t \in tx[c].locks
            PROVE  row[t] # Absent
        BY <4>1, <4>2, <3>3, <1>5, TasksAssumption DEF IInv, Pointed
      <4> QED
        BY <3>1, <4>1, <4>2, <1>4
    <3> QED
      BY <3>2, <3>3
  <2>3. ASSUME NEW t \in Tasks, NEW d \in Calls,
               t \in tx'[d].locks, work'[t] = Absent, a \notin tx'[d].locks
        PROVE  current'[a] # t
    <3>1. d # c /\ t \in tx[d].locks /\ a \notin tx[d].locks
      BY <2>3, <1>5, ClosedIs
    <3>2. work[t] = Absent
      BY <2>3, <3>1, <1>4, <1>5
    <3> QED
      BY <3>1, <3>2, <1>1 DEF IInv, Pointed
  <2>4. ASSUME workCurrent'[a] # NoTask, row'[workCurrent'[a]] = Absent
        PROVE  \E d \in Calls : {a, workCurrent'[a]} \subseteq tx'[d].locks
    <3>1. a \notin tx[c].locks
      BY <2>4, <1>1, <1>4 DEF IInv, Pointed
    <3>2. workCurrent'[a] = workCurrent[a] /\ row[workCurrent[a]] = Absent
      BY <2>4, <3>1, <1>1, <1>4
    <3>3. PICK d \in Calls : {a, workCurrent[a]} \subseteq tx[d].locks
      BY <2>4, <3>2 DEF IInv, Pointed
    <3> QED
      BY <3>1, <3>2, <3>3, <1>5
  <2> QED
    BY <2>1, <2>2, <2>3, <2>4
<1>8. \A d \in Calls \ {c} :
        /\ \A t \in Tasks : Sees(d, t)' = Sees(d, t)
        /\ \A a \in Agents : SeesCurrent(d, a)' = SeesCurrent(d, a)
  <2> TAKE d \in Calls \ {c}
  <2>1. \A t \in Tasks : Sees(d, t)' = Sees(d, t)
    BY <1>1, <1>4, <1>5 DEF Sees
  <2>2. \A a \in Agents : SeesCurrent(d, a)' = SeesCurrent(d, a)
    BY <1>1, <1>4, <1>5 DEF SeesCurrent
  <2> QED
    BY <2>1, <2>2
<1>9. SeenAsItIs'
  <2> SUFFICES ASSUME NEW d \in Calls, NEW t \in Tasks \ crossed, tx'[d].job.task = t
               PROVE  tx'[d].job.seen = Sees(d, t)'
    BY <1>1 DEF SeenAsItIs
  <2>1. d # c
    BY <1>5, ClosedIs, TasksAssumption
  <2> QED
    BY <2>1, <1>5, <1>8 DEF IInv, SeenAsItIs
<1>10. CurrentIsAssigned'
  BY <1>1 DEF IInv, CurrentIsAssigned
<1>11. \A d \in Calls : Assigned(d)'
  <2> SUFFICES ASSUME NEW d \in Calls, NEW a \in Agents, NEW t \in Tasks \ crossed,
                      SeesCurrent(d, a)' = t
               PROVE  Sees(d, t)'.agent = a
    BY <1>1 DEF Assigned
  <2>1. CASE d = c
    <3>1. current[a] = t /\ Sees(d, t)' = row[t]
      BY <2>1, <1>1, <1>5, ClosedIs DEF Sees, SeesCurrent
    <3> QED
      BY <3>1, TasksAssumption DEF IInv, CurrentIsAssigned
  <2>2. CASE d # c
    BY <2>2, <1>8 DEF IInv, Assigned
  <2> QED
    BY <2>1, <2>2
<1> QED
  BY <1>5, <1>6, <1>7, <1>9, <1>10, <1>11 DEF IInv

-----------------------------------------------------------------------------
(* The operations *)

\* An agent's session begins.
LEMMA OpenStep ==
  ASSUME IInv, NEW c \in Calls, NEW a \in Agents, OpenSession(c, a)
  PROVE  IInv'
<1>1. PICK y : y = [tx[c] EXCEPT !.by = "session", !.agent = a, !.loaded = current[a]]
  OBVIOUS
<1>2. tx' = [tx EXCEPT ![c] = y] /\ tx[c] = Closed /\ UNCHANGED <<rows, used, crossed>>
  BY <1>1 DEF OpenSession
<1>3. y = [by |-> "session", agent |-> a, loaded |-> current[a], job |-> NoJob,
           over |-> FALSE, locks |-> {}]
  <2>1. tx[c] \in Transaction
    BY DEF IInv, Typed
  <2>2. y = [by |-> "session", agent |-> a, loaded |-> current[a], job |-> tx[c].job,
             over |-> tx[c].over, locks |-> tx[c].locks]
    BY <1>1, <2>1 DEF Transaction
  <2> QED
    BY <1>2, <2>2 DEF Closed
<1>4. current[a] \in Tasks \cup {NoTask}
  BY DEF IInv, Typed, TypeOK
<1>5. y \in Transaction /\ Whole(y)
  BY <1>3, <1>4, ClosedIs DEF Transaction, NoJob, Ops, Whole
<1>6. y.locks = tx[c].locks /\ y.job.task \notin Tasks
  BY <1>2, <1>3, ClosedIs, TasksAssumption
<1> QED
  BY <1>2, <1>5, <1>6, JobStep

\* An operation begins.
LEMMA AskedStep ==
  ASSUME IInv, NEW c \in Calls, NEW by \in {"request", "session"}, NEW op \in Ops \ {"none"},
         NEW t \in Tasks, NEW arg \in Statuses \cup Agents \cup {NoAgent},
         op = "status" => arg \in Statuses, op \in {"assign", "abort"} => arg \in Agents,
         op = "patch" => arg \in Agents \cup {NoAgent},
         Asked(c, by, op, t, arg)
  PROVE  IInv'
<1>1. PICK j : j = [op |-> op, task |-> t, arg |-> arg, seen |-> Sees(c, t),
                    has |-> IF arg \in Agents THEN LoadedCurrent(c, arg) ELSE NoTask]
  OBVIOUS
<1>2. PICK y : y = [tx[c] EXCEPT !.by = by, !.job = j]
  OBVIOUS
<1>3. /\ tx' = [tx EXCEPT ![c] = y] /\ UNCHANGED <<rows, used>>
      /\ crossed' = crossed \cup {u \in {t} : \E d \in Calls \ {c} : u \in InHand(d)}
      /\ MayAsk(c, by) /\ Sees(c, t) # Absent
  BY <1>1, <1>2 DEF Asked
<1>4. tx[c] \in Transaction /\ Whole(tx[c])
  BY DEF IInv, Typed
<1>5. y = [by |-> by, agent |-> tx[c].agent, loaded |-> tx[c].loaded, job |-> j,
           over |-> tx[c].over, locks |-> tx[c].locks]
  BY <1>2, <1>4 DEF Transaction
<1>6. Sees(c, t) \in Task
  BY <1>3, SeesIs DEF IInv
<1>7. arg \in Agents => LoadedCurrent(c, arg) \in Tasks \cup {NoTask}
  BY <1>4, Fields, SeesIs DEF IInv, LoadedCurrent
<1>8. by = "session" => tx[c].agent \in Agents
  BY <1>3, <1>4 DEF MayAsk, Whole
<1>9. y \in Transaction
  BY <1>1, <1>4, <1>5, <1>6, <1>7, Fields DEF Transaction
<1>10. Whole(y)
  BY <1>1, <1>5, <1>6, <1>8 DEF Whole
<1>11. t \in used
  <2>1. row[t] # Absent \/ work[t] # Absent
    BY <1>3 DEF Sees
  <2> QED
    BY <2>1 DEF IInv, Known
<1>12. t \in crossed' \/ \A d \in Calls \ {c} : ~Touches(d, t)
  BY <1>3, TasksAssumption DEF InHand, Touches
<1>13. y.locks = tx[c].locks /\ y.job.task = t /\ y.job.seen = Sees(c, t)
  BY <1>1, <1>5
<1> QED
  BY <1>3, <1>9, <1>10, <1>11, <1>12, <1>13, JobStep

\* A task is made.
LEMMA CreateStep ==
  ASSUME IInv, NEW c \in Calls, NEW by \in {"request", "session"}, NEW t \in Tasks,
         NEW status \in NewStatuses, Create(c, by, t, status)
  PROVE  IInv'
<1>1. PICK x : x = [tx[c] EXCEPT !.by = by, !.locks = @ \cup {t}]
  OBVIOUS
<1>2. PICK y : y = Done(x)
  OBVIOUS
<1>3. PICK r : r = [status |-> status, agent |-> NoAgent]
  OBVIOUS
<1>4. /\ tx' = [tx EXCEPT ![c] = y] /\ work' = [work EXCEPT ![t] = r]
      /\ row' = row /\ current' = current /\ workCurrent' = workCurrent
      /\ used' = used \cup {t} /\ crossed' = crossed
      /\ t \notin used /\ MayAsk(c, by)
  <2>1. tx' = [tx EXCEPT ![c] = Done([tx[c] EXCEPT !.by = by, !.locks = @ \cup {t}])]
    BY DEF Create
  <2>2. tx' = [tx EXCEPT ![c] = y]
    BY <1>1, <1>2, <2>1
  <2>3. /\ work' = [work EXCEPT ![t] = [status |-> status, agent |-> NoAgent]]
        /\ row' = row /\ current' = current /\ workCurrent' = workCurrent
        /\ used' = used \cup {t} /\ crossed' = crossed
        /\ t \notin used /\ MayAsk(c, by)
    BY DEF Create
  <2> QED
    BY <1>3, <2>2, <2>3
<1>5. tx[c] \in Transaction /\ Whole(tx[c])
  BY DEF IInv, Typed
<1>6. x = [by |-> by, agent |-> tx[c].agent, loaded |-> tx[c].loaded, job |-> tx[c].job,
           over |-> tx[c].over, locks |-> tx[c].locks \cup {t}]
  BY <1>1, <1>5 DEF Transaction
<1>7. x \in Transaction
  BY <1>5, <1>6, Fields DEF Transaction
<1>8. Whole(x)
  BY <1>4, <1>5, <1>6 DEF Whole, MayAsk
<1>9. y \in Transaction /\ Whole(y) /\ y.locks = tx[c].locks \cup {t} /\ y.job.task = NoTask
  BY <1>2, <1>6, <1>7, <1>8, DoneIs, ClosedIs
<1>10. r \in Task /\ r # Absent
  BY <1>3, TasksAssumption DEF Task, Absent, Statuses
<1>11. work' \in Rows /\ work'[t] = r /\ \A u \in Tasks \ {t} : work'[u] = work[u]
  BY <1>4, <1>10 DEF IInv, Typed, TypeOK, Rows
<1>12. /\ row[t] = Absent /\ work[t] = Absent
       /\ \A d \in Calls : t \notin tx[d].locks /\ tx[d].job.task # t
  BY <1>4 DEF IInv, Known
<1>13. \A a \in Agents : current[a] # t /\ workCurrent[a] # t
  BY <1>12, TasksAssumption DEF IInv, Pointed
<1>14. \A d \in Calls : ~Touches(d, t)
  BY <1>12, <1>13 DEF Touches
<1>15. \A z \in y.locks : Free(c, z)
  <2>1. \A z \in tx[c].locks : Free(c, z)
    BY DEF IInv, Typed, TypeOK, Free
  <2> QED
    BY <2>1, <1>9, <1>12 DEF Free
<1>16. \A u \in Tasks \ used' : work'[u] = Absent /\ u \notin y.locks /\ y.job.task # u
  BY <1>4, <1>9, <1>11, TasksAssumption DEF IInv, Known
<1>17. \A a \in Agents : workCurrent'[a] # NoTask => work'[workCurrent'[a]] # Absent
  BY <1>4, <1>11, <1>13, <1>10 DEF IInv, Pointed, Typed, TypeOK
<1>18. \A u \in Tasks \cap y.locks, a \in Agents \ y.locks : work'[u] = Absent => current[a] # u
  BY <1>9, <1>10, <1>11 DEF IInv, Pointed
<1>19. \A a \in Agents \cap y.locks :
         workCurrent'[a] # NoTask /\ row[workCurrent'[a]] = Absent => workCurrent'[a] \in y.locks
  <2> SUFFICES ASSUME NEW a \in Agents \cap y.locks,
                      workCurrent[a] # NoTask, row[workCurrent[a]] = Absent
               PROVE  workCurrent[a] \in tx[c].locks
    BY <1>4, <1>9
  <2>1. a \in tx[c].locks
    BY <1>9, TasksAssumption
  <2>2. PICK d \in Calls : {a, workCurrent[a]} \subseteq tx[d].locks
    BY DEF IInv, Pointed
  <2> QED
    BY <2>1, <2>2, OneHolder DEF IInv
<1>20. \A u \in Tasks \ crossed' :
         Touches(c, u)' => Touches(c, u) \/ \A d \in Calls \ {c} : ~Touches(d, u)
  <2> SUFFICES ASSUME NEW u \in Tasks, Touches(c, u)'
               PROVE  Touches(c, u) \/ \A d \in Calls \ {c} : ~Touches(d, u)
    OBVIOUS
  <2>1. tx'[c] = y
    BY <1>4 DEF IInv, Typed
  <2>2. Agents \cap y.locks = Agents \cap tx[c].locks
    BY <1>9, TasksAssumption
  <2>3. u = t \/ Touches(c, u)
    BY <2>1, <2>2, <1>4, <1>9, TasksAssumption DEF Touches
  <2> QED
    BY <2>3, <1>14
<1>21. \A u \in Tasks \ crossed' : y.job.task = u => y.job.seen = Sees(c, u)'
  BY <1>9, TasksAssumption
<1>22. Assigned(c)'
  <2> SUFFICES ASSUME NEW a \in Agents, NEW u \in Tasks \ crossed, SeesCurrent(c, a)' = u
               PROVE  Sees(c, u)'.agent = a
    BY <1>4 DEF Assigned
  <2>1. tx'[c].locks = tx[c].locks \cup {t}
    BY <1>4, <1>9 DEF IInv, Typed
  <2>2. SeesCurrent(c, a) = u
    BY <2>1, <1>4, TasksAssumption DEF SeesCurrent
  <2>3. u # t
    BY <2>2, <1>13 DEF SeesCurrent
  <2>4. Sees(c, u)' = Sees(c, u)
    BY <2>1, <2>3, <1>4, <1>11 DEF Sees
  <2> QED
    BY <2>2, <2>4 DEF IInv, Assigned
<1> QED
  <2>1. workCurrent' \in [Agents -> Tasks \cup {NoTask}]
    BY <1>4 DEF IInv, Typed, TypeOK
  <2>2. \A u \in Tasks \ y.locks : work'[u] = work[u]
    BY <1>9, <1>11
  <2> QED
    BY <2>1, <2>2, <1>4, <1>9, <1>11, <1>15, <1>16, <1>17, <1>18, <1>19, <1>20, <1>21, <1>22, WriteStep

\* What an operation makes of a task.
LEMMA WrittenIs ==
  ASSUME NEW x \in Transaction, Whole(x), x.job.op \in {"status", "abort", "patch", "assign"},
         NEW r \in Task
  PROVE  /\ Written(x.job, r) \in Task
         /\ x.job.op \in {"status", "abort"} => Written(x.job, r).agent = r.agent
         /\ x.job.op = "assign" =>
              Written(x.job, r).agent = IF x.job.arg # x.job.seen.agent THEN x.job.arg ELSE r.agent
<1>1. r.status \in Statuses /\ r.agent \in Agents \cup {NoAgent}
  BY TaskIsThere
<1>2. r = [status |-> r.status, agent |-> r.agent]
  BY DEF Task
<1>3. CASE x.job.op = "status"
  <2>1. Written(x.job, r) = [r EXCEPT !.status = x.job.arg]
    BY <1>3 DEF Written
  <2>2. Written(x.job, r) = [status |-> x.job.arg, agent |-> r.agent]
    BY <1>2, <2>1
  <2> QED
    BY <1>1, <1>3, <2>2 DEF Task, Whole
<1>4. CASE x.job.op = "abort"
  <2>1. Written(x.job, r) = [r EXCEPT !.status = "aborted"]
    BY <1>4 DEF Written
  <2>2. Written(x.job, r) = [status |-> "aborted", agent |-> r.agent]
    BY <1>2, <2>1
  <2> QED
    BY <1>1, <1>4, <2>2 DEF Task, Statuses
<1>5. CASE x.job.op = "patch"
  <2>1. Written(x.job, r) = IF x.job.arg # x.job.seen.agent THEN [r EXCEPT !.agent = x.job.arg] ELSE r
    BY <1>5 DEF Written
  <2>2. [r EXCEPT !.agent = x.job.arg] = [status |-> r.status, agent |-> x.job.arg]
    BY <1>2
  <2> QED
    BY <1>1, <1>5, <2>1, <2>2 DEF Task, Whole
<1>6. CASE x.job.op = "assign"
  <2>1. Written(x.job, r) =
          [status |-> IF x.job.seen.status \in {"backlog", "specifying"} THEN "assigned" ELSE r.status,
           agent |-> IF x.job.arg # x.job.seen.agent THEN x.job.arg ELSE r.agent]
    BY <1>6 DEF Written
  <2> QED
    BY <1>1, <1>6, <2>1 DEF Task, Whole, Statuses
<1> QED
  BY <1>3, <1>4, <1>5, <1>6

\* The operation is flushed: its task, the pointer of the agent that gets it, and those of the
\* agents that lose it.
LEMMA FlushStep ==
  ASSUME IInv, NEW c \in Calls, Flush(c)
  PROVE  IInv'
<1>t. PICK t : t = tx[c].job.task
  OBVIOUS
<1> DEFINE job == tx[c].job
           those == Sets(job) \cup Clears(c, job)
           locks == those \cup {u \in {t} : Written(job, job.seen) # job.seen}
<1>1. PICK x : x = [tx[c] EXCEPT !.locks = @ \cup locks,
                                 !.loaded = IF tx[c].agent \in those
                                            THEN workCurrent'[tx[c].agent] ELSE @]
  OBVIOUS
<1>2. PICK y : y = Done(x)
  OBVIOUS
<1>3. /\ tx' = [tx EXCEPT ![c] = y]
      /\ work' = IF t \in locks THEN [work EXCEPT ![t] = Written(job, @)] ELSE work
      /\ workCurrent' = [a \in Agents |-> IF a \in Sets(job) THEN t
                                          ELSE IF a \in those THEN NoTask
                                          ELSE workCurrent[a]]
      /\ row' = row /\ current' = current /\ used' = used
      /\ crossed' = IF job.op = "patch" THEN crossed \cup {t} ELSE crossed
      /\ job.op \in {"status", "abort", "patch", "assign"}
      /\ \A z \in locks : Free(c, z)
      /\ ~BeingDeleted(c, t) /\ Sees(c, t) # Absent
  BY <1>t, <1>1, <1>2 DEF Flush
<1>4. tx[c] \in Transaction /\ Whole(tx[c])
  BY DEF IInv, Typed
<1>5. t \in Tasks /\ job.seen \in Task /\ t \notin Agents
  BY <1>t, <1>3, <1>4, TasksAssumption DEF Whole
<1>6. those \subseteq Agents
  BY <1>3, <1>4 DEF Sets, Clears, Whole
<1>7. /\ \A a \in Agents : workCurrent'[a] = IF a \in Sets(job) THEN t
                                             ELSE IF a \in those THEN NoTask ELSE workCurrent[a]
      /\ workCurrent' \in [Agents -> Tasks \cup {NoTask}]
  <2>1. workCurrent \in [Agents -> Tasks \cup {NoTask}]
    BY DEF IInv, Typed, TypeOK
  <2> QED
    BY <2>1, <1>3, <1>5
<1>8. x = [by |-> tx[c].by, agent |-> tx[c].agent,
           loaded |-> IF tx[c].agent \in those THEN workCurrent'[tx[c].agent] ELSE tx[c].loaded,
           job |-> job, over |-> tx[c].over, locks |-> tx[c].locks \cup locks]
  BY <1>1, <1>4 DEF Transaction
<1>9. x \in Transaction /\ Whole(x)
  <2>1. locks \subseteq Tasks \cup Agents
    BY <1>5, <1>6
  <2>2. (IF tx[c].agent \in those THEN workCurrent'[tx[c].agent] ELSE tx[c].loaded) \in Tasks \cup {NoTask}
    BY <1>4, <1>6, <1>7, Fields
  <2>3. x \in Transaction
    <3> HIDE DEF locks, those
    <3> QED
      BY <2>1, <2>2, <1>4, <1>8, Fields DEF Transaction
  <2>4. Whole(x)
    BY <1>4, <1>8 DEF Whole
  <2> QED
    BY <2>3, <2>4
<1>10. y \in Transaction /\ Whole(y) /\ y.locks = tx[c].locks \cup locks /\ y.job.task = NoTask
  <2>1. x.locks = tx[c].locks \cup locks
    BY <1>8
  <2> QED
    BY <1>2, <1>9, <2>1, DoneIs, ClosedIs
\* The task as it is written, if it is.
<1>11. Free(c, t) => work[t] = Sees(c, t) /\ work[t] \in Task
  BY <1>3, <1>5, SeesIs DEF IInv
<1>12. t \in locks => Free(c, t) /\ work'[t] = Written(job, Sees(c, t)) /\ work'[t] \in Task
  <2> SUFFICES ASSUME t \in locks
               PROVE  Free(c, t) /\ work'[t] = Written(job, Sees(c, t)) /\ work'[t] \in Task
    OBVIOUS
  <2>1. Free(c, t)
    BY <1>3
  <2>2. work' = [work EXCEPT ![t] = Written(job, work[t])]
    BY <1>3
  <2>3. work'[t] = Written(job, work[t])
    BY <2>2, <1>5 DEF IInv, Typed, TypeOK, Rows
  <2>4. Written(job, work[t]) \in Task
    BY <2>1, <1>3, <1>4, <1>11, WrittenIs
  <2> QED
    BY <2>1, <2>3, <2>4, <1>11
<1>13. \A u \in Tasks : u # t \/ t \notin locks => work'[u] = work[u]
  BY <1>3, <1>5 DEF IInv, Typed, TypeOK, Rows
<1>14. work' \in Rows
  <2>1. work \in Rows
    BY DEF IInv, Typed, TypeOK
  <2>2. CASE t \in locks
    <3>1. work' = [work EXCEPT ![t] = Written(job, work[t])] /\ Written(job, work[t]) \in Task
      BY <2>2, <1>3, <1>4, <1>11, <1>12, WrittenIs
    <3> QED
      BY <2>1, <3>1 DEF Rows
  <2>3. CASE t \notin locks
    BY <2>1, <2>3, <1>3
  <2> QED
    BY <2>2, <2>3
<1>15. t \in tx[c].locks \cup locks \/ Sees(c, t) = row[t]
  BY DEF Sees
<1>16. Sees(c, t)' = IF t \in locks THEN work'[t] ELSE Sees(c, t)
  <2>1. tx'[c].locks = tx[c].locks \cup locks
    BY <1>3, <1>10 DEF IInv, Typed
  <2> QED
    BY <2>1, <1>3, <1>5, <1>13 DEF Sees
<1> HIDE DEF job, those, locks
<1>17. \A z \in y.locks : Free(c, z)
  <2>1. \A z \in tx[c].locks : Free(c, z)
    BY DEF IInv, Typed, TypeOK, Free
  <2> QED
    BY <2>1, <1>3, <1>10
<1>18. /\ \A u \in Tasks : u \in locks => u = t
       /\ \A a \in Agents : a \in locks <=> a \in those
       /\ Sets(job) \subseteq those
  BY <1>5, <1>6, TasksAssumption DEF locks, those
<1>19. t \in used
  BY <1>3, <1>5 DEF IInv, Known, Sees
<1>20. \A u \in Tasks \ used' : work'[u] = Absent /\ u \notin y.locks /\ y.job.task # u
  BY <1>3, <1>5, <1>10, <1>13, <1>18, <1>19, TasksAssumption DEF IInv, Known
<1>21. \A a \in Agents : workCurrent'[a] # NoTask => work'[workCurrent'[a]] # Absent
  <2> SUFFICES ASSUME NEW a \in Agents, workCurrent'[a] # NoTask
               PROVE  work'[workCurrent'[a]] # Absent
    OBVIOUS
  <2>1. CASE a \in Sets(job)
    <3>1. workCurrent'[a] = t
      BY <2>1, <1>7
    <3>2. work[t] # Absent
      BY <1>3, <1>11, TaskIsThere DEF BeingDeleted
    <3> QED
      BY <3>1, <3>2, <1>5, <1>12, <1>13, TaskIsThere
  <2>2. CASE a \notin Sets(job)
    <3>1. workCurrent'[a] = workCurrent[a]
      BY <2>2, <1>7
    <3>2. workCurrent[a] \in Tasks /\ work[workCurrent[a]] # Absent
      BY <3>1, <1>7 DEF IInv, Pointed
    <3> QED
      BY <3>1, <3>2, <1>12, <1>13, TaskIsThere
  <2> QED
    BY <2>1, <2>2
<1>22. \A u \in Tasks \cap y.locks, a \in Agents \ y.locks : work'[u] = Absent => current[a] # u
  <2> SUFFICES ASSUME NEW u \in Tasks \cap y.locks, NEW a \in Agents \ y.locks, work'[u] = Absent
               PROVE  current[a] # u
    OBVIOUS
  <2>1. ~(u = t /\ t \in locks)
    BY <1>12, TaskIsThere
  <2>2. work[u] = Absent /\ u \in tx[c].locks /\ a \notin tx[c].locks
    BY <2>1, <1>10, <1>13, <1>18
  <2> QED
    BY <2>2 DEF IInv, Pointed
<1>23. \A a \in Agents \cap y.locks :
         workCurrent'[a] # NoTask /\ row[workCurrent'[a]] = Absent => workCurrent'[a] \in y.locks
  <2> SUFFICES ASSUME NEW a \in Agents \cap y.locks,
                      workCurrent'[a] # NoTask, row[workCurrent'[a]] = Absent
               PROVE  workCurrent'[a] \in y.locks
    OBVIOUS
  <2>1. CASE a \in Sets(job)
    <3>1. workCurrent'[a] = t
      BY <2>1, <1>7
    <3> QED
      BY <3>1, <1>3, <1>10 DEF Sees
  <2>2. CASE a \notin Sets(job)
    <3>1. workCurrent'[a] = workCurrent[a] /\ a \notin those
      BY <2>2, <1>7
    <3>2. a \in tx[c].locks
      BY <3>1, <1>10, <1>18
    <3>3. PICK d \in Calls : {a, workCurrent[a]} \subseteq tx[d].locks
      BY <3>1 DEF IInv, Pointed
    <3>4. d = c
      BY <3>2, <3>3, OneHolder DEF IInv
    <3> QED
      BY <3>1, <3>3, <3>4, <1>10
  <2> QED
    BY <2>1, <2>2
<1>24. \A u \in Tasks \ crossed' :
         Touches(c, u)' => Touches(c, u) \/ \A d \in Calls \ {c} : ~Touches(d, u)
  <2> SUFFICES ASSUME NEW u \in Tasks, Touches(c, u)'
               PROVE  Touches(c, u)
    OBVIOUS
  <2>1. tx'[c] = y
    BY <1>3 DEF IInv, Typed
  <2>2. Touches(c, t)
    BY <1>t DEF Touches
  <2>3. CASE u \in y.locks
    BY <2>2, <2>3, <1>10, <1>18 DEF Touches
  <2>4. ASSUME NEW a \in Agents \cap y.locks, workCurrent'[a] = u
        PROVE  Touches(c, u)
    <3>1. CASE a \in those
      BY <2>2, <2>4, <3>1, <1>7, TasksAssumption
    <3>2. CASE a \notin those
      <4>1. a \in tx[c].locks /\ workCurrent[a] = u
        BY <2>4, <3>2, <1>7, <1>10, <1>18
      <4> QED
        BY <4>1 DEF Touches
    <3> QED
      BY <3>1, <3>2
  <2>5. u \in y.locks \/ \E a \in Agents \cap y.locks : workCurrent'[a] = u
    BY <2>1, <1>10, TasksAssumption DEF Touches
  <2> QED
    BY <2>3, <2>4, <2>5
<1>25. \A u \in Tasks \ crossed' : y.job.task = u => y.job.seen = Sees(c, u)'
  BY <1>10, TasksAssumption
<1>26. Assigned(c)'
  <2> SUFFICES ASSUME NEW a \in Agents, NEW u \in Tasks \ crossed', SeesCurrent(c, a)' = u
               PROVE  Sees(c, u)'.agent = a
    BY DEF Assigned
  <2>1. tx'[c].locks = tx[c].locks \cup locks
    BY <1>3, <1>10 DEF IInv, Typed
  <2>2. a \notin those => SeesCurrent(c, a) = u
    BY <2>1, <1>3, <1>7, <1>18 DEF SeesCurrent
  <2>3. a \in those => a \in Sets(job) /\ u = t
    BY <2>1, <1>7, <1>18, TasksAssumption DEF SeesCurrent
  <2>4. u \notin crossed
    BY <1>3
  <2>5. CASE u # t
    <3>1. Sees(c, u)' = Sees(c, u)
      BY <2>1, <2>5, <1>3, <1>13, <1>18 DEF Sees
    <3> QED
      BY <3>1, <2>2, <2>3, <2>4, <2>5 DEF IInv, Assigned
  <2>6. CASE u = t
    <3>1. job.seen = Sees(c, t) /\ job.op # "patch"
      BY <1>t, <2>4, <2>6, <1>3 DEF IInv, SeenAsItIs, job
    <3>2. Sees(c, t)' = Written(job, job.seen)
      <4>1. t \in locks <=> Written(job, job.seen) # job.seen
        BY <1>5, <1>6 DEF locks
      <4> QED
        BY <3>1, <4>1, <1>12, <1>16
    <3>3. CASE job.op \in {"status", "abort"}
      <4>1. Sees(c, t)'.agent = Sees(c, t).agent
        BY <3>1, <3>2, <3>3, <1>4, <1>5, WrittenIs DEF job
      <4>2. a \notin Sets(job)
        BY <3>3 DEF Sets
      <4> QED
        BY <4>1, <4>2, <2>2, <2>3, <2>4, <2>6 DEF IInv, Assigned
    <3>4. CASE job.op = "assign"
      <4>1. Sees(c, t)'.agent = job.arg
        BY <3>2, <3>4, <1>4, <1>5, WrittenIs DEF job
      <4>2. ASSUME a # job.arg
            PROVE  FALSE
        <5>1. a \notin those
          BY <2>3, <4>2 DEF Sets
        <5>2. SeesCurrent(c, a) = t /\ Sees(c, t).agent = a
          BY <5>1, <2>2, <2>4, <2>6 DEF IInv, Assigned
        <5>3. a \in Clears(c, job)
          BY <1>t, <3>1, <3>4, <4>2, <5>2 DEF Clears, job
        <5> QED
          BY <5>1, <5>3 DEF those
      <4> QED
        BY <4>1, <4>2, <2>6
    <3> QED
      BY <3>1, <3>3, <3>4, <1>3
  <2> QED
    BY <2>5, <2>6
<1> QED
  <2>1. \A u \in Tasks \ y.locks : work'[u] = work[u]
    BY <1>10, <1>13
  <2>2. \A a \in Agents \ y.locks : workCurrent'[a] = workCurrent[a]
    BY <1>7, <1>10, <1>18
  <2>3. crossed \subseteq crossed' /\ used \subseteq used' /\ UNCHANGED <<row, current>>
    BY <1>3
  <2>4. tx[c].locks \subseteq y.locks /\ tx' = [tx EXCEPT ![c] = y]
    BY <1>3, <1>10
  <2> QED
    BY <2>1, <2>2, <2>3, <2>4, <1>7, <1>10, <1>14, <1>17, <1>20, <1>21, <1>22, <1>23,
       <1>24, <1>25, <1>26, WriteStep

\* A deletion's first statement: nobody that it sees points to the task any more.
LEMMA ClearStep ==
  ASSUME IInv, NEW c \in Calls, Clear(c)
  PROVE  IInv'
<1>t. PICK t : t = tx[c].job.task
  OBVIOUS
<1>1. PICK having : having = {a \in Agents : SeesCurrent(c, a) = t}
  OBVIOUS
<1>2. PICK j : j = [tx[c].job EXCEPT !.op = "delete"]
  OBVIOUS
<1>3. PICK y : y = [tx[c] EXCEPT !.locks = @ \cup having, !.job = j]
  OBVIOUS
<1>4. /\ tx' = [tx EXCEPT ![c] = y] /\ tx[c].job.op = "clear"
      /\ row' = row /\ current' = current /\ work' = work
      /\ used' = used /\ crossed' = crossed
      /\ workCurrent' = [a \in Agents |-> IF a \in having THEN NoTask ELSE workCurrent[a]]
      /\ \A a \in having : Free(c, a)
  BY <1>t, <1>1, <1>2, <1>3 DEF Clear
<1>5. tx[c] \in Transaction /\ Whole(tx[c])
  BY DEF IInv, Typed
<1>6. t \in Tasks /\ tx[c].job.seen \in Task
  BY <1>t, <1>4, <1>5 DEF Whole
<1>7. j = [op |-> "delete", task |-> t, arg |-> tx[c].job.arg, seen |-> tx[c].job.seen,
           has |-> tx[c].job.has]
  BY <1>t, <1>2, <1>5 DEF Transaction
<1>8. y = [by |-> tx[c].by, agent |-> tx[c].agent, loaded |-> tx[c].loaded, job |-> j,
           over |-> tx[c].over, locks |-> tx[c].locks \cup having]
  BY <1>3, <1>5 DEF Transaction
<1>9. y \in Transaction /\ Whole(y) /\ y.locks = tx[c].locks \cup having
  <2>1. having \subseteq Agents
    BY <1>1
  <2>2. y \in Transaction
    BY <2>1, <1>5, <1>6, <1>7, <1>8, Fields DEF Transaction, Ops
  <2>3. Whole(y)
    BY <1>5, <1>6, <1>7, <1>8 DEF Whole
  <2> QED
    BY <2>2, <2>3, <1>8
<1>10. /\ \A a \in Agents : workCurrent'[a] = IF a \in having THEN NoTask ELSE workCurrent[a]
       /\ workCurrent' \in [Agents -> Tasks \cup {NoTask}]
  <2>1. workCurrent \in [Agents -> Tasks \cup {NoTask}]
    BY DEF IInv, Typed, TypeOK
  <2> QED
    BY <2>1, <1>4
<1>11. \A z \in y.locks : Free(c, z)
  <2>1. \A z \in tx[c].locks : Free(c, z)
    BY DEF IInv, Typed, TypeOK, Free
  <2> QED
    BY <2>1, <1>4, <1>9
<1>12. \A u \in Tasks : u \in y.locks <=> u \in tx[c].locks
  BY <1>1, <1>9, TasksAssumption
<1>13. tx'[c] = y
  BY <1>4 DEF IInv, Typed
<1>14. \A u \in Tasks : Sees(c, u)' = Sees(c, u)
  BY <1>4, <1>12, <1>13 DEF Sees
<1>15. \A u \in Tasks \ used' : work'[u] = Absent /\ u \notin y.locks /\ y.job.task # u
  BY <1>t, <1>4, <1>7, <1>8, <1>12 DEF IInv, Known
<1>16. \A a \in Agents : workCurrent'[a] # NoTask => work'[workCurrent'[a]] # Absent
  BY <1>4, <1>10 DEF IInv, Pointed
<1>17. \A u \in Tasks \cap y.locks, a \in Agents \ y.locks : work'[u] = Absent => current[a] # u
  BY <1>4, <1>9, <1>12 DEF IInv, Pointed
<1>18. \A a \in Agents \cap y.locks :
         workCurrent'[a] # NoTask /\ row[workCurrent'[a]] = Absent => workCurrent'[a] \in y.locks
  <2> SUFFICES ASSUME NEW a \in Agents \cap y.locks,
                      workCurrent'[a] # NoTask, row[workCurrent'[a]] = Absent
               PROVE  workCurrent'[a] \in y.locks
    OBVIOUS
  <2>1. workCurrent'[a] = workCurrent[a] /\ a \in tx[c].locks
    BY <1>9, <1>10
  <2>2. PICK d \in Calls : {a, workCurrent[a]} \subseteq tx[d].locks
    BY <2>1 DEF IInv, Pointed
  <2>3. d = c
    BY <2>1, <2>2, OneHolder DEF IInv
  <2> QED
    BY <2>1, <2>2, <2>3, <1>9
<1>19. \A u \in Tasks \ crossed' :
         Touches(c, u)' => Touches(c, u) \/ \A d \in Calls \ {c} : ~Touches(d, u)
  <2> SUFFICES ASSUME NEW u \in Tasks, Touches(c, u)'
               PROVE  Touches(c, u)
    OBVIOUS
  <2>1. \/ t = u \/ u \in tx[c].locks
        \/ \E a \in Agents \cap y.locks : workCurrent'[a] = u
    BY <1>7, <1>8, <1>12, <1>13 DEF Touches
  <2>2. ASSUME NEW a \in Agents \cap y.locks, workCurrent'[a] = u
        PROVE  a \in tx[c].locks /\ workCurrent[a] = u
    BY <2>2, <1>9, <1>10, TasksAssumption
  <2> QED
    BY <1>t, <2>1, <2>2 DEF Touches
<1>20. \A u \in Tasks \ crossed' : y.job.task = u => y.job.seen = Sees(c, u)'
  BY <1>t, <1>4, <1>7, <1>8, <1>14 DEF IInv, SeenAsItIs
<1>21. Assigned(c)'
  <2> SUFFICES ASSUME NEW a \in Agents, NEW u \in Tasks \ crossed, SeesCurrent(c, a)' = u
               PROVE  Sees(c, u)'.agent = a
    BY <1>4 DEF Assigned
  <2>1. SeesCurrent(c, a) = u
    BY <1>4, <1>9, <1>10, <1>13, TasksAssumption DEF SeesCurrent
  <2> QED
    BY <2>1, <1>14 DEF IInv, Assigned
<1> QED
  <2>1. \A a \in Agents \ y.locks : workCurrent'[a] = workCurrent[a]
    BY <1>9, <1>10
  <2>2. work' \in Rows /\ \A u \in Tasks \ y.locks : work'[u] = work[u]
    BY <1>4 DEF IInv, Typed, TypeOK
  <2>3. crossed \subseteq crossed' /\ used \subseteq used' /\ UNCHANGED <<row, current>>
    BY <1>4
  <2>4. tx[c].locks \subseteq y.locks /\ tx' = [tx EXCEPT ![c] = y]
    BY <1>4, <1>9
  <2> QED
    BY <2>1, <2>2, <2>3, <2>4, <1>9, <1>10, <1>11, <1>15, <1>16, <1>17, <1>18, <1>19, <1>20,
       <1>21, WriteStep

\* Its second statement: the row goes, and nobody points to it.
LEMMA DeleteStep ==
  ASSUME IInv, NEW c \in Calls, Delete(c)
  PROVE  IInv'
<1>t. PICK t : t = tx[c].job.task
  OBVIOUS
<1>1. PICK x : x = [tx[c] EXCEPT !.locks = @ \cup {t}]
  OBVIOUS
<1>2. PICK y : y = Done(x)
  OBVIOUS
<1>3. /\ tx' = [tx EXCEPT ![c] = y] /\ tx[c].job.op = "delete"
      /\ row' = row /\ current' = current /\ workCurrent' = workCurrent
      /\ used' = used /\ crossed' = crossed
      /\ work' = [work EXCEPT ![t] = Absent]
      /\ Free(c, t)
      /\ \A a \in Agents : SeesCurrent(c, a) # t /\ (workCurrent[a] = t => Free(c, a))
  BY <1>t, <1>1, <1>2 DEF Delete
<1>4. tx[c] \in Transaction /\ Whole(tx[c])
  BY DEF IInv, Typed
<1>5. t \in Tasks /\ t \notin Agents /\ Touches(c, t)
  BY <1>t, <1>3, <1>4, TasksAssumption DEF Whole, Touches
<1>6. x = [by |-> tx[c].by, agent |-> tx[c].agent, loaded |-> tx[c].loaded, job |-> tx[c].job,
           over |-> tx[c].over, locks |-> tx[c].locks \cup {t}]
  BY <1>1, <1>4 DEF Transaction
<1>7. x \in Transaction /\ Whole(x)
  <2>1. x \in Transaction
    BY <1>4, <1>5, <1>6, Fields DEF Transaction
  <2> QED
    BY <2>1, <1>4, <1>6 DEF Whole
<1>8. y \in Transaction /\ Whole(y) /\ y.locks = tx[c].locks \cup {t} /\ y.job.task = NoTask
  BY <1>2, <1>6, <1>7, DoneIs, ClosedIs
<1>9. work' \in Rows /\ work'[t] = Absent /\ \A u \in Tasks \ {t} : work'[u] = work[u]
  BY <1>3, <1>5 DEF IInv, Typed, TypeOK, Rows
<1>10. \A a \in Agents : workCurrent[a] # t
  BY <1>3, SeesIs DEF IInv
<1>11. \A z \in y.locks : Free(c, z)
  <2>1. \A z \in tx[c].locks : Free(c, z)
    BY DEF IInv, Typed, TypeOK, Free
  <2> QED
    BY <2>1, <1>3, <1>8
<1>12. tx'[c] = y
  BY <1>3 DEF IInv, Typed
<1>13. \A u \in Tasks \ used' : work'[u] = Absent /\ u \notin y.locks /\ y.job.task # u
  BY <1>t, <1>3, <1>8, <1>9, TasksAssumption DEF IInv, Known
<1>14. \A a \in Agents : workCurrent'[a] # NoTask => work'[workCurrent'[a]] # Absent
  BY <1>3, <1>9, <1>10 DEF IInv, Pointed, Typed, TypeOK
<1>15. \A u \in Tasks \cap y.locks, a \in Agents \ y.locks : work'[u] = Absent => current[a] # u
  <2> SUFFICES ASSUME NEW u \in Tasks \cap y.locks, NEW a \in Agents \ y.locks, work'[u] = Absent
               PROVE  current[a] # u
    OBVIOUS
  <2>1. CASE u = t
    BY <2>1, <1>3, <1>8 DEF SeesCurrent
  <2>2. CASE u # t
    BY <2>2, <1>8, <1>9 DEF IInv, Pointed
  <2> QED
    BY <2>1, <2>2
<1>16. \A a \in Agents \cap y.locks :
         workCurrent'[a] # NoTask /\ row[workCurrent'[a]] = Absent => workCurrent'[a] \in y.locks
  <2> SUFFICES ASSUME NEW a \in Agents \cap y.locks,
                      workCurrent[a] # NoTask, row[workCurrent[a]] = Absent
               PROVE  workCurrent[a] \in tx[c].locks
    BY <1>3, <1>8
  <2>1. a \in tx[c].locks
    BY <1>5, <1>8
  <2>2. PICK d \in Calls : {a, workCurrent[a]} \subseteq tx[d].locks
    BY DEF IInv, Pointed
  <2> QED
    BY <2>1, <2>2, OneHolder DEF IInv
<1>17. \A u \in Tasks \ crossed' :
         Touches(c, u)' => Touches(c, u) \/ \A d \in Calls \ {c} : ~Touches(d, u)
  <2> SUFFICES ASSUME NEW u \in Tasks, Touches(c, u)'
               PROVE  Touches(c, u)
    OBVIOUS
  <2>1. Agents \cap y.locks = Agents \cap tx[c].locks
    BY <1>5, <1>8
  <2> QED
    BY <2>1, <1>3, <1>5, <1>8, <1>12, TasksAssumption DEF Touches
<1>18. \A u \in Tasks \ crossed' : y.job.task = u => y.job.seen = Sees(c, u)'
  BY <1>8, TasksAssumption
<1>19. Assigned(c)'
  <2> SUFFICES ASSUME NEW a \in Agents, NEW u \in Tasks \ crossed, SeesCurrent(c, a)' = u
               PROVE  Sees(c, u)'.agent = a
    BY <1>3 DEF Assigned
  <2>1. SeesCurrent(c, a) = u
    BY <1>3, <1>5, <1>8, <1>12 DEF SeesCurrent
  <2>2. u # t
    BY <2>1, <1>3
  <2>3. Sees(c, u)' = Sees(c, u)
    BY <2>2, <1>3, <1>8, <1>9, <1>12 DEF Sees
  <2> QED
    BY <2>1, <2>3 DEF IInv, Assigned
<1> QED
  <2>1. \A u \in Tasks \ y.locks : work'[u] = work[u]
    BY <1>8, <1>9
  <2>2. workCurrent' \in [Agents -> Tasks \cup {NoTask}]
    BY <1>3 DEF IInv, Typed, TypeOK
  <2>3. crossed \subseteq crossed' /\ used \subseteq used' /\ UNCHANGED <<row, current>>
    BY <1>3
  <2>4. /\ tx[c].locks \subseteq y.locks /\ tx' = [tx EXCEPT ![c] = y]
        /\ \A a \in Agents \ y.locks : workCurrent'[a] = workCurrent[a]
    BY <1>3, <1>8
  <2> QED
    BY <2>1, <2>2, <2>3, <2>4, <1>8, <1>9, <1>11, <1>13, <1>14, <1>15, <1>16, <1>17, <1>18,
       <1>19, WriteStep

-----------------------------------------------------------------------------
(* Theorems *)

\* Before anything is asked, tasks are there or not and nobody has one.
LEMMA InitIInv == Init => IInv
<1> SUFFICES ASSUME Init
             PROVE  IInv
  OBVIOUS
<1>1. /\ row \in [Tasks -> {Absent} \cup {[status |-> s, agent |-> NoAgent] : s \in NewStatuses}]
      /\ work = row /\ used = {t \in Tasks : row[t] # Absent}
      /\ current = [a \in Agents |-> NoTask] /\ workCurrent = current
      /\ tx = [c \in Calls |-> Closed]
  BY DEF Init
<1>2. row \in Rows
  <2>1. \A s \in NewStatuses : [status |-> s, agent |-> NoAgent] \in Task
    BY TasksAssumption DEF Task, Statuses
  <2> QED
    BY <2>1, <1>1 DEF Rows
<1>3. \A c \in Calls : tx[c] = Closed
  BY <1>1
<1>4. Typed
  BY <1>1, <1>2, <1>3, ClosedIs DEF Typed, TypeOK
<1>5. Known
  BY <1>1, <1>3, ClosedIs, TasksAssumption DEF Known
<1>6. Pointed
  BY <1>1, <1>3, ClosedIs DEF Pointed
<1>7. Apart
  BY <1>3, ClosedIs, TasksAssumption DEF Apart, Touches
<1>8. SeenAsItIs
  BY <1>3, ClosedIs, TasksAssumption DEF SeenAsItIs
<1>9. CurrentIsAssigned
  BY <1>1 DEF CurrentIsAssigned
<1>10. \A c \in Calls : Assigned(c)
  BY <1>1, <1>3, ClosedIs, TasksAssumption DEF Assigned, SeesCurrent
<1> QED
  BY <1>4, <1>5, <1>6, <1>7, <1>8, <1>9, <1>10 DEF IInv

\* Every operation keeps the invariant.
LEMMA NextIInv == IInv /\ [Next]_vars => IInv'
<1> SUFFICES ASSUME IInv, [Next]_vars
             PROVE  IInv'
  OBVIOUS
<1>1. ASSUME NEW c \in Calls, NEW by \in {"request", "session"}, NEW t \in Tasks,
             NEW s \in Statuses, AskStatus(c, by, t, s)
      PROVE  IInv'
  BY <1>1, AskedStep DEF AskStatus, Ops
<1>2. ASSUME NEW c \in Calls, NEW t \in Tasks, NEW a \in Agents \cup {NoAgent}, AskPatch(c, t, a)
      PROVE  IInv'
  BY <1>2, AskedStep DEF AskPatch, Ops
<1>3. ASSUME NEW c \in Calls, NEW by \in {"request", "session"}, NEW t \in Tasks,
             NEW a \in Agents, AskAssign(c, by, t, a)
      PROVE  IInv'
  BY <1>3, AskedStep DEF AskAssign, Ops
<1>4. ASSUME NEW c \in Calls, AskAbort(c)
      PROVE  IInv'
  <2>1. tx[c].agent \in Agents /\ tx[c].loaded \in Tasks
    BY <1>4, Fields DEF AskAbort, IInv, Typed, Whole
  <2> QED
    BY <1>4, <2>1, AskedStep DEF AskAbort, Ops
<1>5. ASSUME NEW c \in Calls, NEW t \in Tasks, AskDelete(c, t)
      PROVE  IInv'
  BY <1>5, AskedStep DEF AskDelete, Ops
<1>6. ASSUME NEW c \in Calls, NEW by \in {"request", "session"}, NEW t \in Tasks,
             NEW s \in NewStatuses, Create(c, by, t, s)
      PROVE  IInv'
  BY <1>6, CreateStep
<1>7. ASSUME NEW c \in Calls, Operation(c)
      PROVE  IInv'
  BY <1>1, <1>2, <1>3, <1>4, <1>5, <1>6, <1>7, OpenStep, FlushStep, ClearStep, DeleteStep,
     CommitStep, RollbackStep DEF Operation
<1>8. CASE UNCHANGED vars
  <2>1. /\ row' = row /\ work' = work /\ current' = current /\ workCurrent' = workCurrent
        /\ tx' = tx /\ used' = used /\ crossed' = crossed
    BY <1>8 DEF vars, rows
  <2>2. Typed' /\ Known' /\ Pointed' /\ CurrentIsAssigned'
    BY <2>1 DEF IInv, Typed, TypeOK, Known, Pointed, CurrentIsAssigned
  <2>3. Apart' /\ SeenAsItIs' /\ \A c \in Calls : Assigned(c)'
    BY <2>1 DEF IInv, Apart, Touches, SeenAsItIs, Assigned, Sees, SeesCurrent
  <2> QED
    BY <2>2, <2>3 DEF IInv
<1> QED
  BY <1>7, <1>8 DEF Next

\* The invariant holds of every behaviour of the task service.
THEOREM Invariance == Spec => []IInv
<1> QED
  BY InitIInv, NextIInv, PTL DEF Spec

\* Rows and pointers are rows and pointers; no row lock has two holders, and a row that
\* nobody holds is as it was committed.
THEOREM TypeCorrect == Spec => []TypeOK
<1>1. IInv => TypeOK
  BY DEF IInv, Typed
<1> QED
  BY <1>1, Invariance, PTL

\* An agent's current task is there, and assigned to the agent unless transactions crossed on
\* it or its assignee was patched: whatever overlaps of assignments, aborts and deletions.
THEOREM CurrentSafe == Spec => []CurrentIsAssigned
<1>1. IInv => CurrentIsAssigned
  BY DEF IInv
<1> QED
  BY <1>1, Invariance, PTL

-----------------------------------------------------------------------------
(*****************************************************************************)
(* PromptBuilder                                                             *)
(*****************************************************************************)
BlockRows == [key : {"main", "own"}, value : {0, 1}, id : Nat, of : Things]
PageRequests ==
  [at : {"free", "sent", "empty", "locked", "writing", "answered", "failed"},
   step : {"none", "get", "put", "reset"}, editor : BOOLEAN, on : Things \cup {none},
   list : SUBSET BlockRows, block : [key : {"main", "own", "none"}, id : Nat],
   snap : SUBSET BlockRows, behind : SUBSET Calls, heard : BOOLEAN]
PromptTypes ==
  /\ blocks \in [Things -> SUBSET BlockRows] /\ asking \in [Calls -> PageRequests]
  /\ selected \in Things /\ shown \in SUBSET BlockRows
  /\ loading \in BOOLEAN /\ saving \in BOOLEAN
  /\ editing \in [key : {"main", "own", "none"}, id : Nat]
  /\ saves \in Nat

\* Whoever is asked for is an agent; rows are their agent's own, so is what is under way for an
\* agent, and what is shown when nothing is being loaded.
AskedOf == \A s \in Calls : asking[s].at # "free" => asking[s].on \in Things
RowsOwn == \A a \in Things : \A b \in blocks[a] : b.of = a
ListsOwn == \A s \in Calls : \A b \in asking[s].list : b.of = asking[s].on
ShownOwn == loading \/ \A b \in shown : b.of = selected
PromptInv == PromptTypes /\ AskedOf /\ foreign \in BOOLEAN /\ (foreign \/ (RowsOwn /\ ListsOwn /\ ShownOwn))

LEMMA FreeTyped == Prompts!Free \in PageRequests
  BY DEF Prompts!Free, PageRequests, Prompts!NoBlock

LEMMA RequestKept ==
  ASSUME NEW r \in PageRequests, NEW s
  PROVE  [r EXCEPT !.behind = @ \ {s}] \in PageRequests /\ [r EXCEPT !.heard = FALSE] \in PageRequests
<1>1. [r EXCEPT !.behind = @ \ {s}] \in PageRequests
  BY DEF PageRequests
<1>2. [r EXCEPT !.heard = FALSE] \in PageRequests
  BY DEF PageRequests
<1> QED BY <1>1, <1>2

LEMMA RequestEnded ==
  ASSUME NEW r \in PageRequests, NEW to \in {"answered", "failed"}, NEW list \in SUBSET BlockRows
  PROVE  [r EXCEPT !.at = to, !.list = list, !.snap = {}, !.behind = {}] \in PageRequests
  BY DEF PageRequests

LEMMA RequestAt ==
  ASSUME NEW r \in PageRequests, NEW to \in {"empty", "locked"}
  PROVE  [r EXCEPT !.at = to] \in PageRequests
  BY DEF PageRequests

LEMMA RequestWrites ==
  ASSUME NEW r \in PageRequests, NEW list \in SUBSET BlockRows, NEW snap \in SUBSET BlockRows,
         NEW behind \in SUBSET Calls
  PROVE  [r EXCEPT !.at = "writing", !.snap = snap, !.list = list, !.behind = behind] \in PageRequests
  BY DEF PageRequests

LEMMA RequestGoesOn ==
  ASSUME NEW r \in PageRequests, NEW list \in SUBSET BlockRows
  PROVE  /\ [r EXCEPT !.at = "sent", !.step = "put", !.list = list] \in PageRequests
         /\ [r EXCEPT !.at = "sent", !.step = "get", !.block = Prompts!NoBlock] \in PageRequests
<1>1. [r EXCEPT !.at = "sent", !.step = "put", !.list = list] \in PageRequests
  BY DEF PageRequests
<1>2. [r EXCEPT !.at = "sent", !.step = "get", !.block = Prompts!NoBlock] \in PageRequests
  BY DEF PageRequests, Prompts!NoBlock
<1> QED BY <1>1, <1>2

LEMMA PromptsStart == ASSUME MaxSaves \in Nat PROVE Prompts!Init => PromptInv
<1> SUFFICES ASSUME Prompts!Init PROVE PromptInv
  OBVIOUS
<1>1. \A a \in Things : Prompts!Default(a) \in SUBSET BlockRows /\ \A b \in Prompts!Default(a) : b.of = a
  BY DEF Prompts!Default, BlockRows
<1>2. PICK seeded \in SUBSET Things :
        blocks = [a \in Things |-> IF a \in seeded THEN Prompts!Default(a) ELSE {}]
  BY DEF Prompts!Init
<1>3. blocks \in [Things -> SUBSET BlockRows] /\ RowsOwn
  BY <1>1, <1>2 DEF RowsOwn
<1>4. PICK s \in Calls :
        asking = [q \in Calls |->
          IF q = s THEN [Prompts!Free EXCEPT !.at = "sent", !.step = "get", !.on = selected] ELSE Prompts!Free]
  BY DEF Prompts!Init
<1>5. selected \in Things /\ shown = {} /\ loading = TRUE /\ saving = FALSE /\ saves = 0
      /\ editing = Prompts!NoBlock /\ foreign = FALSE
  BY DEF Prompts!Init
<1>6. [Prompts!Free EXCEPT !.at = "sent", !.step = "get", !.on = selected] \in PageRequests
  BY <1>5, FreeTyped DEF PageRequests
<1>7. asking \in [Calls -> PageRequests]
  BY <1>4, <1>6, FreeTyped
<1>8. AskedOf /\ ListsOwn
  BY <1>4, <1>5 DEF AskedOf, ListsOwn, Prompts!Free
<1>9. PromptTypes
  BY <1>3, <1>5, <1>7 DEF PromptTypes, Prompts!NoBlock
<1>10. ShownOwn
  BY <1>5 DEF ShownOwn
<1> QED BY <1>3, <1>5, <1>8, <1>9, <1>10 DEF PromptInv

LEMMA SendOwn ==
  ASSUME PromptTypes, AskedOf, NEW kind \in {"get", "put", "reset"}, NEW list \in SUBSET BlockRows,
         NEW block \in [key : {"main", "own", "none"}, id : Nat], NEW editor \in BOOLEAN,
         Prompts!Send(kind, list, block, editor), selected' \in Things
  PROVE  /\ asking' \in [Calls -> PageRequests] /\ AskedOf'
         /\ ListsOwn /\ (\A b \in list : b.of = selected') => ListsOwn'
<1> USE DEF PromptTypes, AskedOf, ListsOwn
<1>1. PICK s \in Calls :
        asking' = [asking EXCEPT ![s] = 
          [Prompts!Free EXCEPT !.at = "sent", !.step = kind, !.editor = editor, !.on = selected',
                               !.list = list, !.block = block]]
  BY DEF Prompts!Send
<1>5. asking' = [asking EXCEPT ![s] = 
          [at |-> "sent", step |-> kind, editor |-> editor, on |-> selected', list |-> list,
           block |-> block, snap |-> {}, behind |-> {}, heard |-> TRUE]]
  <2>1. PICK x : x = [Prompts!Free EXCEPT !.at = "sent", !.step = kind, !.editor = editor,
                                  !.on = selected', !.list = list, !.block = block]
    OBVIOUS
  <2>2. asking' = [asking EXCEPT ![s] = x]
    BY <1>1, <2>1
  <2>3. x = [at |-> "sent", step |-> kind, editor |-> editor, on |-> selected', list |-> list,
             block |-> block, snap |-> {}, behind |-> {}, heard |-> TRUE]
    BY <2>1 DEF Prompts!Free
  <2> QED BY <2>2, <2>3
<1>2. asking' \in [Calls -> PageRequests]
  BY <1>5 DEF PageRequests
<1>3. AskedOf'
  BY <1>5
<1>4. ASSUME ListsOwn, \A b \in list : b.of = selected' PROVE ListsOwn'
  BY <1>5, <1>4
<1> QED BY <1>2, <1>3, <1>4

\* What a transaction leaves of the requests: its own ended, with the list it has.
LEMMA EndedOwn ==
  ASSUME PromptTypes, AskedOf, NEW s \in Calls, NEW to \in {"answered", "failed"},
         NEW list \in SUBSET BlockRows, asking' = Prompts!Ended(s, to, list)
  PROVE  /\ asking' \in [Calls -> PageRequests]
         /\ asking[s].at # "free" => AskedOf'
         /\ ListsOwn /\ (\A b \in list : b.of = asking[s].on) => ListsOwn'
<1>1. asking' \in [Calls -> PageRequests]
  <2>1. \A q \in Calls : [asking[q] EXCEPT !.behind = @ \ {s}] \in PageRequests
    BY RequestKept DEF PromptTypes
  <2>2. [asking[s] EXCEPT !.at = to, !.list = list, !.snap = {}, !.behind = {}] \in PageRequests
    BY RequestEnded DEF PromptTypes
  <2> QED BY <2>1, <2>2, FreeTyped DEF Prompts!Ended, PromptTypes
<1> USE DEF PromptTypes, AskedOf, ListsOwn
<1>2. ASSUME asking[s].at # "free" PROVE AskedOf'
  BY <1>2 DEF Prompts!Ended, Prompts!Free, PageRequests
<1>3. ASSUME ListsOwn, \A b \in list : b.of = asking[s].on PROVE ListsOwn'
  BY <1>3 DEF Prompts!Ended, Prompts!Free, PageRequests
<1> QED BY <1>1, <1>2, <1>3

LEMMA EndedWithNothing ==
  ASSUME PromptTypes, AskedOf, NEW s \in Calls, NEW to \in {"answered", "failed"},
         asking' = Prompts!Ended(s, to, {}), asking[s].at # "free"
  PROVE  asking' \in [Calls -> PageRequests] /\ AskedOf' /\ (ListsOwn => ListsOwn')
<1>1. {} \in SUBSET BlockRows /\ \A b \in {} : b.of = asking[s].on
  OBVIOUS
<1> QED BY <1>1, EndedOwn

\* What the page has heard, or has given up: the request is free again, or is not listened to.
LEMMA FreedOwn ==
  ASSUME PromptTypes, AskedOf, NEW s \in Calls,
         asking' = [asking EXCEPT ![s] = Prompts!Free] \/ asking' = [asking EXCEPT ![s].heard = FALSE]
  PROVE  asking' \in [Calls -> PageRequests] /\ AskedOf' /\ (ListsOwn => ListsOwn')
<1> USE DEF PromptTypes, AskedOf, ListsOwn
<1>1. CASE asking' = [asking EXCEPT ![s] = Prompts!Free]
  BY <1>1, FreeTyped DEF Prompts!Free
<1>2. CASE asking' = [asking EXCEPT ![s].heard = FALSE]
  <2>1. [asking[s] EXCEPT !.heard = FALSE] \in PageRequests
    BY RequestKept
  <2>2. asking' \in [Calls -> PageRequests]
    BY <1>2, <2>1
  <2>3. AskedOf' /\ (ListsOwn => ListsOwn')
    BY <1>2 DEF PageRequests
  <2> QED BY <2>2, <2>3
<1> QED BY <1>1, <1>2

LEMMA SendNothing ==
  ASSUME PromptTypes, AskedOf, NEW kind \in {"get", "put", "reset"},
         NEW block \in [key : {"main", "own", "none"}, id : Nat], NEW editor \in BOOLEAN,
         Prompts!Send(kind, {}, block, editor), selected' \in Things
  PROVE  asking' \in [Calls -> PageRequests] /\ AskedOf' /\ (ListsOwn => ListsOwn')
<1>1. {} \in SUBSET BlockRows /\ \A b \in {} : b.of = selected'
  OBVIOUS
<1> QED BY <1>1, SendOwn

LEMMA PersistOwn ==
  ASSUME PromptInv, NEW list \in SUBSET BlockRows, Prompts!Persist(list),
         ShownOwn => loading \/ \A b \in list : b.of = selected
  PROVE  PromptInv'
<1> USE DEF PromptInv
<1>1. /\ shown' = list /\ saving' = TRUE
      /\ UNCHANGED <<blocks, selected, loading, editing, saves, failures>>
      /\ foreign' = (foreign \/ loading)
      /\ Prompts!Send("put", list, Prompts!NoBlock, FALSE)
  BY DEF Prompts!Persist
<1>2. asking' \in [Calls -> PageRequests] /\ AskedOf'
  BY <1>1, SendOwn DEF PromptTypes, Prompts!NoBlock
<1>3. PromptTypes'
  BY <1>1, <1>2 DEF PromptTypes
<1>4. foreign' \in BOOLEAN
  BY <1>1 DEF PromptTypes
<1>5. ASSUME ~foreign' PROVE RowsOwn' /\ ListsOwn' /\ ShownOwn'
  <2>1. ~foreign /\ ~loading
    BY <1>1, <1>5 DEF PromptTypes
  <2>2. \A b \in list : b.of = selected'
    BY <1>1, <2>1
  <2>3. RowsOwn' /\ ShownOwn'
    BY <1>1, <2>1, <2>2 DEF RowsOwn, ShownOwn
  <2>4. ListsOwn'
    BY <1>1, <2>1, <2>2, SendOwn DEF PromptTypes, Prompts!NoBlock
  <2> QED BY <2>3, <2>4
<1> QED BY <1>2, <1>3, <1>4, <1>5

LEMMA PromptsStep == ASSUME MaxSaves \in Nat, PromptInv, [Prompts!Next]_promptVars PROVE PromptInv'
<1> USE DEF PromptInv
<1>1. CASE UNCHANGED promptVars
  BY <1>1 DEF promptVars, PromptTypes, AskedOf, RowsOwn, ListsOwn, ShownOwn
<1>2. ASSUME NEW a \in Things, Prompts!Select(a) PROVE PromptInv'
  <2>1. /\ selected' = a /\ loading' = TRUE /\ editing' = Prompts!NoBlock
        /\ Prompts!Send("get", {}, Prompts!NoBlock, FALSE)
        /\ UNCHANGED <<blocks, shown, saving, saves, foreign, failures>>
    BY <1>2 DEF Prompts!Select
  <2>2. asking' \in [Calls -> PageRequests] /\ AskedOf' /\ (ListsOwn => ListsOwn')
    <3>1. Prompts!NoBlock \in [key : {"main", "own", "none"}, id : Nat]
      BY DEF Prompts!NoBlock
    <3> QED BY <2>1, <3>1, SendNothing
  <2>3. PromptTypes' /\ ShownOwn' /\ (RowsOwn => RowsOwn')
    BY <2>1, <2>2 DEF PromptTypes, Prompts!NoBlock, ShownOwn, RowsOwn
  <2> QED BY <2>1, <2>2, <2>3
<1>3. ASSUME NEW b \in shown, Prompts!Toggle(b) PROVE PromptInv'
  <2>1. b \in BlockRows
    BY DEF PromptTypes
  <2>2. [b EXCEPT !.value = 1 - @] \in BlockRows /\ [b EXCEPT !.value = 1 - @].of = b.of
    BY <2>1 DEF BlockRows
  <2>3. (shown \ {b}) \cup {[b EXCEPT !.value = 1 - @]} \in SUBSET BlockRows
    BY <2>2 DEF PromptTypes
  <2>4. ShownOwn => loading \/ \A x \in (shown \ {b}) \cup {[b EXCEPT !.value = 1 - @]} : x.of = selected
    BY <2>2 DEF ShownOwn
  <2> QED BY <1>3, <2>3, <2>4, PersistOwn DEF Prompts!Toggle
<1>4. CASE Prompts!AddCustomBlock
  <2> DEFINE new == [key |-> "own", value |-> 1, id |-> MaxSaves + 1, of |-> selected]
  <2>1. shown \cup {new} \in SUBSET BlockRows
    BY DEF PromptTypes, BlockRows
  <2>2. ShownOwn => loading \/ \A x \in shown \cup {new} : x.of = selected
    BY DEF ShownOwn
  <2>3. Prompts!Persist(shown \cup {new})
    BY <1>4 DEF Prompts!AddCustomBlock, Prompts!TempId
  <2> QED BY <2>1, <2>2, <2>3, PersistOwn
<1>5. ASSUME NEW b \in shown, Prompts!DeleteBlock(b) PROVE PromptInv'
  <2>1. shown \ {b} \in SUBSET BlockRows
    BY DEF PromptTypes
  <2>2. ShownOwn => loading \/ \A x \in shown \ {b} : x.of = selected
    BY DEF ShownOwn
  <2> QED BY <1>5, <2>1, <2>2, PersistOwn DEF Prompts!DeleteBlock
<1>6. ASSUME NEW b \in shown, Prompts!Edit(b) PROVE PromptInv'
  <2>1. editing' \in [key : {"main", "own", "none"}, id : Nat]
    BY <1>6 DEF Prompts!Edit, Prompts!IdOf, PromptTypes, BlockRows
  <2> QED BY <1>6, <2>1 DEF Prompts!Edit, PromptTypes, AskedOf, RowsOwn, ListsOwn, ShownOwn
<1>7. CASE Prompts!Close
  <2>1. editing' \in [key : {"main", "own", "none"}, id : Nat]
    BY <1>7 DEF Prompts!Close, Prompts!NoBlock
  <2> QED BY <1>7, <2>1 DEF Prompts!Close, PromptTypes, AskedOf, RowsOwn, ListsOwn, ShownOwn
<1>8. ASSUME NEW kind \in {"get", "reset"}, Prompts!EditorSends(kind) PROVE PromptInv'
  <2>1. /\ Prompts!Send(kind, {}, editing, TRUE)
        /\ UNCHANGED <<blocks, selected, shown, loading, saving, editing, saves, foreign>>
    BY <1>8 DEF Prompts!EditorSends, Prompts!page
  <2>2. asking' \in [Calls -> PageRequests] /\ AskedOf' /\ (ListsOwn => ListsOwn')
    <3>1. editing \in [key : {"main", "own", "none"}, id : Nat] /\ selected' \in Things
      BY <2>1 DEF PromptTypes
    <3> QED BY <2>1, <3>1, SendNothing
  <2> QED BY <2>1, <2>2 DEF PromptTypes, RowsOwn, ShownOwn
<1>9. ASSUME NEW s \in Calls, Prompts!Look(s) PROVE PromptInv'
  <2> DEFINE r == asking[s]
  <2>1. /\ r.at \in {"sent", "empty"}
        /\ asking' = IF blocks[r.on] # {} THEN Prompts!Ended(s, "answered", blocks[r.on])
                     ELSE [asking EXCEPT ![s].at = IF r.at = "sent" THEN "empty" ELSE "locked"]
        /\ UNCHANGED <<blocks, selected, shown, loading, saving, editing, saves, foreign>>
    BY <1>9 DEF Prompts!Look, Prompts!page
  <2>2. asking' \in [Calls -> PageRequests] /\ AskedOf' /\ (RowsOwn /\ ListsOwn => ListsOwn')
    <3>1. r.on \in Things /\ blocks[r.on] \in SUBSET BlockRows /\ r.at # "free"
      BY <2>1 DEF AskedOf, PromptTypes
    <3>2. CASE blocks[r.on] # {}
      BY <2>1, <3>1, <3>2, EndedOwn DEF RowsOwn
    <3>3. CASE blocks[r.on] = {}
      <4>1. PICK to \in {"empty", "locked"} : asking' = [asking EXCEPT ![s].at = to]
        BY <2>1, <3>3
      <4>2. asking' \in [Calls -> PageRequests]
        BY <4>1, RequestAt DEF PromptTypes
      <4>3. AskedOf' /\ (ListsOwn => ListsOwn')
        BY <4>1, <3>1 DEF PromptTypes, PageRequests, AskedOf, ListsOwn
      <4> QED BY <4>2, <4>3
    <3> QED BY <3>2, <3>3
  <2> QED BY <2>1, <2>2 DEF PromptTypes, RowsOwn, ShownOwn
<1>10. ASSUME NEW s \in Calls, Prompts!Delete(s) PROVE PromptInv'
  <2> DEFINE r == asking[s]
             list == IF r.step = "get" THEN Prompts!Default(r.on) ELSE r.list
  <2>1. PICK behind \in SUBSET Calls :
          asking' = [asking EXCEPT ![s] = [r EXCEPT !.at = "writing", !.snap = blocks[r.on],
                                                    !.list = list, !.behind = behind]]
    BY <1>10 DEF Prompts!Delete
  <2>2. /\ r.at # "free"
        /\ UNCHANGED <<blocks, selected, shown, loading, saving, editing, saves, foreign>>
    BY <1>10 DEF Prompts!Delete, Prompts!page
  <2>3. r.on \in Things /\ blocks[r.on] \in SUBSET BlockRows /\ r \in PageRequests
    BY <2>2 DEF AskedOf, PromptTypes
  <2>4. list \in SUBSET BlockRows /\ (ListsOwn => \A b \in list : b.of = r.on)
    BY <2>3 DEF Prompts!Default, BlockRows, PageRequests, ListsOwn
  <2> HIDE DEF list
  <2>5. asking' \in [Calls -> PageRequests]
    BY <2>1, <2>3, <2>4, RequestWrites DEF PromptTypes
  <2>6. AskedOf' /\ (ListsOwn => ListsOwn')
    BY <2>1, <2>3, <2>4 DEF PromptTypes, PageRequests, AskedOf, ListsOwn
  <2> QED BY <2>2, <2>5, <2>6 DEF PromptTypes, RowsOwn, ShownOwn
<1>11. ASSUME NEW s \in Calls, Prompts!Commit(s) PROVE PromptInv'
  <2> DEFINE r == asking[s]
             stored == Prompts!Stored(r.list)
             left == (blocks[r.on] \ r.snap) \cup stored
  <2>1. /\ r.at = "writing"
        /\ UNCHANGED <<selected, shown, loading, saving, editing, foreign>>
        /\ \/ /\ blocks' = [blocks EXCEPT ![r.on] = left]
              /\ saves' = saves + 1 /\ asking' = Prompts!Ended(s, "answered", stored)
           \/ /\ asking' = Prompts!Ended(s, "failed", {}) /\ UNCHANGED <<blocks, saves>>
    BY <1>11 DEF Prompts!Commit, Prompts!page
  <2>2. r.on \in Things /\ blocks[r.on] \in SUBSET BlockRows /\ r.list \in SUBSET BlockRows
    BY <2>1 DEF AskedOf, PromptTypes, PageRequests
  <2>3. stored \in SUBSET BlockRows /\ (ListsOwn => \A b \in stored : b.of = r.on)
    <3>1. \A b \in r.list : [b EXCEPT !.id = saves + 1] \in BlockRows /\ [b EXCEPT !.id = saves + 1].of = b.of
      BY <2>2 DEF BlockRows, PromptTypes
    <3> QED BY <3>1 DEF Prompts!Stored, ListsOwn
  <2>4. left \in SUBSET BlockRows /\ (ListsOwn /\ RowsOwn => \A b \in left : b.of = r.on)
    BY <2>2, <2>3 DEF RowsOwn
  <2> HIDE DEF stored, left
  <2>5. asking' \in [Calls -> PageRequests] /\ AskedOf' /\ (ListsOwn => ListsOwn')
    BY <2>1, <2>2, <2>3, EndedOwn, EndedWithNothing
  <2>6. PromptTypes' /\ (ListsOwn /\ RowsOwn => RowsOwn')
    BY <2>1, <2>2, <2>4, <2>5 DEF PromptTypes, RowsOwn
  <2> QED BY <2>1, <2>5, <2>6 DEF ShownOwn
<1>12. ASSUME NEW s \in Calls, Prompts!Reset(s) PROVE PromptInv'
  <2> DEFINE r == asking[s]
             left == {IF Prompts!IdOf(b) = r.block /\ b.key = "main" THEN [b EXCEPT !.value = 0]
                      ELSE b : b \in blocks[r.on]}
  <2>1. /\ r.at = "sent"
        /\ UNCHANGED <<selected, shown, loading, saving, editing, saves, foreign>>
        /\ \/ /\ blocks' = [blocks EXCEPT ![r.on] = left] /\ asking' = Prompts!Ended(s, "answered", {})
           \/ /\ asking' = Prompts!Ended(s, "failed", {}) /\ UNCHANGED blocks
    BY <1>12 DEF Prompts!Reset, Prompts!page
  <2>2. r.on \in Things /\ blocks[r.on] \in SUBSET BlockRows
    BY <2>1 DEF AskedOf, PromptTypes
  <2>3. left \in SUBSET BlockRows /\ (RowsOwn => \A b \in left : b.of = r.on)
    <3>1. \A b \in blocks[r.on] : [b EXCEPT !.value = 0] \in BlockRows /\ [b EXCEPT !.value = 0].of = b.of
      BY <2>2 DEF BlockRows
    <3> QED BY <2>2, <3>1 DEF RowsOwn
  <2> HIDE DEF left
  <2>4. asking' \in [Calls -> PageRequests] /\ AskedOf' /\ (ListsOwn => ListsOwn')
    BY <2>1, EndedWithNothing
  <2>5. PromptTypes' /\ (RowsOwn => RowsOwn')
    BY <2>1, <2>2, <2>3, <2>4 DEF PromptTypes, RowsOwn
  <2> QED BY <2>1, <2>4, <2>5 DEF ShownOwn
<1>13. ASSUME NEW s \in Calls, Prompts!Fails(s) PROVE PromptInv'
  <2>1. /\ asking[s].at # "free" /\ asking' = Prompts!Ended(s, "failed", {})
        /\ UNCHANGED <<blocks, selected, shown, loading, saving, editing, saves, foreign>>
    BY <1>13 DEF Prompts!Fails, Prompts!page
  <2>2. asking' \in [Calls -> PageRequests] /\ AskedOf' /\ (ListsOwn => ListsOwn')
    BY <2>1, EndedWithNothing
  <2> QED BY <2>1, <2>2 DEF PromptTypes, RowsOwn, ShownOwn
<1>14. ASSUME NEW s \in Calls, Prompts!Answer(s) PROVE PromptInv'
  <2>1. /\ shown' = asking[s].list
        /\ loading' = (loading /\ asking[s].step # "get") /\ saving' = (saving /\ asking[s].step # "put")
        /\ asking' = [asking EXCEPT ![s] = Prompts!Free]
        /\ UNCHANGED <<blocks, selected, editing, saves>>
    BY <1>14 DEF Prompts!Answer, Prompts!Freed
  <2>2. foreign' = (foreign \/ asking[s].on # selected)
    BY <1>14 DEF Prompts!Answer
  <2>3. asking' \in [Calls -> PageRequests] /\ AskedOf' /\ (ListsOwn => ListsOwn')
    BY <2>1, FreedOwn
  <2>4. PromptTypes'
    BY <2>1, <2>3 DEF PromptTypes, PageRequests
  <2>5. foreign' \in BOOLEAN
    BY <2>2
  <2>6. ASSUME ~foreign' PROVE ~foreign /\ asking[s].on = selected
    BY <2>2, <2>6
  <2>7. ASSUME ~foreign' PROVE RowsOwn' /\ ShownOwn'
    BY <2>1, <2>6, <2>7 DEF RowsOwn, ShownOwn, ListsOwn
  <2> QED BY <2>3, <2>4, <2>5, <2>6, <2>7
<1>15. ASSUME NEW s \in Calls, Prompts!NoAnswer(s) PROVE PromptInv'
  <2>1. /\ loading' = (loading /\ asking[s].step # "get") /\ saving' = (saving /\ asking[s].step # "put")
        /\ asking' = [asking EXCEPT ![s] = Prompts!Free] \/ asking' = [asking EXCEPT ![s].heard = FALSE]
        /\ UNCHANGED <<blocks, selected, shown, editing, saves>>
    BY <1>15 DEF Prompts!NoAnswer, Prompts!Freed
  <2>2. foreign' = (foreign \/ asking[s].step = "get")
    BY <1>15 DEF Prompts!NoAnswer
  <2>3. asking' \in [Calls -> PageRequests] /\ AskedOf' /\ (ListsOwn => ListsOwn')
    BY <2>1, FreedOwn
  <2>4. PromptTypes'
    BY <2>1, <2>3 DEF PromptTypes
  <2>5. foreign' \in BOOLEAN
    BY <2>2
  <2>6. ASSUME ~foreign' PROVE ~foreign /\ asking[s].step # "get"
    BY <2>2, <2>6
  <2>7. ASSUME ~foreign' PROVE (RowsOwn => RowsOwn') /\ (ShownOwn => ShownOwn')
    BY <2>1, <2>6, <2>7 DEF RowsOwn, ShownOwn, PromptTypes
  <2> QED BY <2>3, <2>4, <2>5, <2>6, <2>7
<1>16. ASSUME NEW s \in Calls, Prompts!EditorGoesOn(s) PROVE PromptInv'
  <2> DEFINE r == asking[s]
             changed == {IF b.key = r.block.key THEN [b EXCEPT !.value = 1] ELSE b : b \in r.list}
  <2>1. /\ r.at = "answered"
        /\ \/ asking' = [asking EXCEPT ![s] = [r EXCEPT !.at = "sent", !.step = "put", !.list = changed]]
           \/ asking' = [asking EXCEPT ![s] = [r EXCEPT !.at = "sent", !.step = "get", !.block = Prompts!NoBlock]]
        /\ UNCHANGED <<blocks, selected, shown, loading, saving, editing, saves, foreign>>
    BY <1>16 DEF Prompts!EditorGoesOn, Prompts!page
  <2>2. r \in PageRequests /\ r.list \in SUBSET BlockRows /\ r.on \in Things
    BY <2>1 DEF PromptTypes, PageRequests, AskedOf
  <2>3. changed \in SUBSET BlockRows /\ (ListsOwn => \A b \in changed : b.of = r.on)
    <3>1. \A b \in r.list : [b EXCEPT !.value = 1] \in BlockRows /\ [b EXCEPT !.value = 1].of = b.of
      BY <2>2 DEF BlockRows
    <3> QED BY <2>2, <3>1 DEF ListsOwn
  <2> HIDE DEF changed
  <2>4. asking' \in [Calls -> PageRequests]
    <3>1. /\ [r EXCEPT !.at = "sent", !.step = "put", !.list = changed] \in PageRequests
          /\ [r EXCEPT !.at = "sent", !.step = "get", !.block = Prompts!NoBlock] \in PageRequests
      BY <2>2, <2>3, RequestGoesOn
    <3> QED BY <2>1, <3>1 DEF PromptTypes
  <2>5. AskedOf' /\ (ListsOwn => ListsOwn')
    <3>1. PICK next \in PageRequests :
            /\ asking' = [asking EXCEPT ![s] = next] /\ next.on = r.on
            /\ next.list = changed \/ next.list = r.list
      <4> DEFINE one == [r EXCEPT !.at = "sent", !.step = "put", !.list = changed]
                 two == [r EXCEPT !.at = "sent", !.step = "get", !.block = Prompts!NoBlock]
      <4>1. one \in PageRequests /\ two \in PageRequests
        BY <2>2, <2>3, RequestGoesOn
      <4>2. one.on = r.on /\ one.list = changed
        BY <2>2 DEF PageRequests
      <4>3. two.on = r.on /\ two.list = r.list
        BY <2>2 DEF PageRequests
      <4>4. asking' = [asking EXCEPT ![s] = one] \/ asking' = [asking EXCEPT ![s] = two]
        BY <2>1
      <4> QED BY <4>1, <4>2, <4>3, <4>4
    <3>2. AskedOf'
      BY <2>2, <3>1 DEF PromptTypes, AskedOf
    <3>3. ListsOwn => ListsOwn'
      BY <2>2, <2>3, <3>1 DEF PromptTypes, ListsOwn
    <3> QED BY <3>2, <3>3
  <2> QED BY <2>1, <2>4, <2>5 DEF PromptTypes, RowsOwn, ShownOwn
<1>17. ASSUME NEW s \in Calls, Prompts!EditorDone(s) PROVE PromptInv'
  <2>1. /\ shown' = asking[s].list /\ editing' = Prompts!NoBlock
        /\ asking' = [asking EXCEPT ![s] = Prompts!Free]
        /\ UNCHANGED <<blocks, selected, loading, saving, saves>>
    BY <1>17 DEF Prompts!EditorDone, Prompts!Freed
  <2>2. foreign' = (foreign \/ asking[s].on # selected)
    BY <1>17 DEF Prompts!EditorDone
  <2>3. asking' \in [Calls -> PageRequests] /\ AskedOf' /\ (ListsOwn => ListsOwn')
    BY <2>1, FreedOwn
  <2>4. PromptTypes'
    BY <2>1, <2>3 DEF PromptTypes, PageRequests, Prompts!NoBlock
  <2>5. foreign' \in BOOLEAN
    BY <2>2
  <2>6. ASSUME ~foreign' PROVE ~foreign /\ asking[s].on = selected
    BY <2>2, <2>6
  <2>7. ASSUME ~foreign' PROVE RowsOwn' /\ ShownOwn'
    BY <2>1, <2>6, <2>7 DEF RowsOwn, ShownOwn, ListsOwn
  <2> QED BY <2>3, <2>4, <2>5, <2>6, <2>7
<1>18. ASSUME NEW s \in Calls, Prompts!EditorFails(s) PROVE PromptInv'
  <2>1. /\ asking' = [asking EXCEPT ![s] = Prompts!Free] \/ asking' = [asking EXCEPT ![s].heard = FALSE]
        /\ UNCHANGED <<blocks, selected, shown, loading, saving, editing, saves, foreign>>
    BY <1>18 DEF Prompts!EditorFails, Prompts!Freed, Prompts!page
  <2>2. asking' \in [Calls -> PageRequests] /\ AskedOf' /\ (ListsOwn => ListsOwn')
    BY <2>1, FreedOwn
  <2> QED BY <2>1, <2>2 DEF PromptTypes, RowsOwn, ShownOwn
<1> QED
  BY <1>1, <1>2, <1>3, <1>4, <1>5, <1>6, <1>7, <1>8, <1>9, <1>10, <1>11, <1>12, <1>13, <1>14, <1>15,
     <1>16, <1>17, <1>18
  DEF Prompts!Next

\* Blocks get to an agent they are not of by one of the causes known only: a page shows, and a
\* request writes, blocks of the agent it was asked for, whatever overlaps and fails.
THEOREM PromptsSafe == Prompts!Spec => []ForeignHasACause
<1>1. MaxSaves \in Nat
  BY RecordsAssumption DEF RecordsAssumption
<1>2. Prompts!Init => PromptInv
  BY <1>1, PromptsStart
<1>3. PromptInv /\ [Prompts!Next]_promptVars => PromptInv'
  BY <1>1, PromptsStep
<1>4. PromptInv => ForeignHasACause
  BY DEF PromptInv, RowsOwn, ShownOwn, ForeignHasACause, Prompts!ForeignHasACause
<1> QED BY <1>2, <1>3, <1>4, PTL DEF Prompts!Spec, Prompts!vars, promptVars

-----------------------------------------------------------------------------
(*****************************************************************************)
(* Documents                                                                 *)
(*****************************************************************************)
VersionRows == [n : Nat, content : Nat]
DocRow == [rows : Nat, content : Nat, current : Nat]
EditRows ==
  [by : {"nobody", "user", "agent"}, at : {"rest", "snapshot", "update", "create", "over"},
   read : DocRow, content : Nat, inserted : SUBSET Nat, added : SUBSET VersionRows,
   removed : SUBSET Nat, write : [content : Nat, current : Nat], created : BOOLEAN]
DocTypes ==
  /\ doc \in DocRow /\ edits \in Nat /\ overtaken \in BOOLEAN
  /\ versions \in SUBSET VersionRows /\ IsFiniteSet(versions)
  /\ edit \in [Editors -> EditRows]
  /\ \A c \in Editors : IsFiniteSet(edit[c].added)

OfOneNumber(S) == \A v, w \in S : v.n = w.n => v = w
HasInserted(c) == edit[c].inserted # {}
HasWritten(c) == edit[c].write # Document!NoWrite
AtWork(c) == edit[c].at \in {"snapshot", "update"}

\* No two transactions have inserted versions of one number, and none sees two of one.
NumbersApart ==
  /\ \A c, d \in Editors : c # d => edit[c].inserted \cap edit[d].inserted = {}
  /\ OfOneNumber(versions)
  /\ \A c \in Editors : OfOneNumber(Document!Visible(c))
\* What a transaction has done, by how far it is.
EditWhole(c) ==
  /\ \A v \in edit[c].added : v.n \in edit[c].inserted
  /\ ~HasInserted(c) => edit[c].added = {} /\ edit[c].removed = {}
  /\ HasWritten(c) => edit[c].created \/ HasInserted(c)
  /\ edit[c].created => edit[c].at = "over"
  /\ edit[c].at = "update" => HasInserted(c)
  /\ HasInserted(c) => doc.rows > 0 /\ ~edit[c].created
  /\ HasInserted(c) /\ edit[c].at \in {"rest", "over"} => HasWritten(c)
  /\ AtWork(c) => doc.rows > 0
  /\ edit[c].at = "create" => ~HasInserted(c)

\* As long as there is one document and no edit was overtaken: who has inserted versions began
\* at the document as it is, whose content is among them or pruned by later ones; who has yet
\* to insert one has read the document as it is, or will fail.
Before == [n |-> doc.current + 1, content |-> doc.content]
EditCurrent(c) ==
  /\ HasInserted(c) =>
       /\ doc.current + 1 \in edit[c].inserted
       /\ Before \in edit[c].added \/ \A v \in Document!Visible(c) : v.n > doc.current + 1
  /\ AtWork(c) /\ ~HasWritten(c) /\ doc.current = edit[c].read.current => doc.content = edit[c].read.content
  /\ AtWork(c) /\ HasWritten(c) => edit[c].read.current = edit[c].write.current
  /\ edit[c].at = "snapshot" /\ ~HasWritten(c) => ~HasInserted(c) /\ edit[c].read.current <= doc.current
  /\ edit[c].at = "update" /\ ~HasWritten(c) => edit[c].read.current = doc.current
  /\ HasWritten(c) /\ ~edit[c].created => edit[c].write.current > doc.current
OneAndInTime == ~overtaken /\ doc.rows <= 1

DocInv ==
  /\ DocTypes /\ NumbersApart
  /\ \A c \in Editors : EditWhole(c)
  /\ OneAndInTime => \A c \in Editors : EditCurrent(c)

\* Of the newest versions, none is older than one that is left out.
LEMMA NewestAreNewer ==
  ASSUME MaxVersions \in Nat, NEW S \in SUBSET VersionRows, IsFiniteSet(S),
         NEW v \in S, v \notin Document!Newest(S),
         NEW k \in Document!Newest(S)
  PROVE  k.n > v.n
<1> SUFFICES ASSUME ~(k.n > v.n) PROVE FALSE
  OBVIOUS
<1> DEFINE newer(x) == {w \in S : w.n > x.n}
<1>0. Document!Newest(S) = {x \in S : Cardinality(newer(x)) < MaxVersions}
  BY DEF Document!Newest, Document!Cardinality, Cardinality
<1>1. k \in S /\ Cardinality(newer(k)) < MaxVersions
  BY <1>0, Zenon
<1>2. ~(Cardinality(newer(v)) < MaxVersions)
  BY <1>0, Zenon
<1>3. newer(v) \subseteq newer(k)
  <2> SUFFICES ASSUME NEW w \in S, w.n > v.n PROVE w.n > k.n
    OBVIOUS
  <2>1. w.n \in Nat /\ v.n \in Nat /\ k.n \in Nat
    BY <1>1 DEF VersionRows
  <2> QED BY <2>1
<1>4. IsFiniteSet(newer(k)) /\ IsFiniteSet(newer(v))
  BY FS_Subset
<1>5. Cardinality(newer(v)) <= Cardinality(newer(k))
  BY <1>3, <1>4, FS_Subset
<1>6. Cardinality(newer(v)) \in Nat /\ Cardinality(newer(k)) \in Nat
  BY <1>4, FS_CardinalityType
<1> QED BY <1>1, <1>2, <1>5, <1>6

LEMMA DocStart == Document!Init => DocInv
<1> SUFFICES ASSUME Document!Init PROVE DocInv
  OBVIOUS
<1> USE DEF Document!Init, Document!NoDoc, Document!Closed, Document!NoWrite
<1>1. DocTypes
  BY FS_EmptySet DEF DocTypes, DocRow, VersionRows, EditRows
<1>2. NumbersApart
  BY DEF NumbersApart, OfOneNumber, Document!Visible
<1>3. \A c \in Editors : EditWhole(c)
  BY DEF EditWhole, HasInserted, HasWritten, AtWork
<1>4. \A c \in Editors : EditCurrent(c)
  BY DEF EditCurrent, HasInserted, HasWritten, AtWork
<1> QED BY <1>1, <1>2, <1>3, <1>4 DEF DocInv

\* A step of one transaction that changes neither the document nor the history, and no number
\* it has inserted nor what it sees, leaves the rest as it was.
LEMMA DocStill ==
  ASSUME DocInv, NEW c \in Editors, UNCHANGED <<doc, versions>>, edits' \in Nat, overtaken' = overtaken,
         NEW new \in EditRows, edit' = [edit EXCEPT ![c] = new],
         IsFiniteSet(new.added),
         \/ /\ new.inserted = edit[c].inserted /\ new.added = edit[c].added
            /\ new.removed = edit[c].removed
         \/ new.inserted = {} /\ new.added = {} /\ new.removed = {},
         EditWhole(c)', OneAndInTime => EditCurrent(c)'
  PROVE  DocInv'
<1> USE DEF DocInv
<1>1. DocTypes'
  BY DEF DocTypes
<1>2. edit'[c] = new /\ \A d \in Editors \ {c} : edit'[d] = edit[d]
  BY DEF DocTypes
<1>3. \A d \in Editors \ {c} : EditWhole(d)'
  BY <1>2 DEF EditWhole, HasInserted, HasWritten, AtWork
<1>4. \A d \in Editors \ {c} : Document!Visible(d)' = Document!Visible(d)
  BY <1>2 DEF Document!Visible
<1>5. \A d \in Editors \ {c} : EditCurrent(d) => EditCurrent(d)'
  BY <1>2, <1>4 DEF EditCurrent, HasInserted, HasWritten, AtWork, Before
<1>6. NumbersApart'
  <2>1. \A x, y \in Editors : x # y => edit'[x].inserted \cap edit'[y].inserted = {}
    BY <1>2 DEF NumbersApart
  <2>2. Document!Visible(c)' = Document!Visible(c) \/ Document!Visible(c)' = versions
    BY <1>2 DEF Document!Visible
  <2>3. \A d \in Editors : OfOneNumber(Document!Visible(d)')
    BY <1>4, <2>2 DEF NumbersApart
  <2>4. OfOneNumber(versions')
    BY DEF NumbersApart
  <2> QED BY <2>1, <2>3, <2>4 DEF NumbersApart, OfOneNumber
<1> QED BY <1>1, <1>3, <1>5, <1>6 DEF OneAndInTime

LEMMA ReadKeeps ==
  ASSUME DocInv, NEW c \in Editors, NEW by \in {"user", "agent"}, Document!Read(c, by)
  PROVE  DocInv'
<1> USE DEF DocInv
<1> DEFINE sees == Document!Sees(c)
<1>1. PICK content \in {edits + 1} \cup {v.content : v \in versions} :
        edit' = [edit EXCEPT ![c].by = by, ![c].read = sees, ![c].content = content,
                             ![c].at = IF sees.rows = 0 THEN "create" ELSE "snapshot"]
  BY DEF Document!Read
<1>2. /\ edit[c] = Document!Closed \/ edit[c].at = "rest"
      /\ sees.rows <= 1 /\ edits' = edits + 1 /\ UNCHANGED <<doc, versions, overtaken>>
  BY DEF Document!Read
<1>3. ~edit[c].created /\ edit[c].at = "rest"
  BY <1>2 DEF EditWhole, Document!Closed
<1>4. /\ sees \in DocRow /\ sees.rows = doc.rows
      /\ ~HasWritten(c) => sees = doc
      /\ HasWritten(c) => sees.current = edit[c].write.current
  BY <1>3 DEF Document!Sees, DocTypes, DocRow, EditRows, HasWritten
<1> HIDE DEF sees
<1> DEFINE new == [edit[c] EXCEPT !.by = by, !.read = sees, !.content = content,
                                  !.at = IF sees.rows = 0 THEN "create" ELSE "snapshot"]
<1>5. edit' = [edit EXCEPT ![c] = new]
  BY <1>1 DEF DocTypes
<1>6. content \in Nat /\ edit[c] \in EditRows
  BY DEF DocTypes, VersionRows
<1>7. new \in EditRows
  BY <1>4, <1>6 DEF EditRows
<1>8. /\ new.inserted = edit[c].inserted /\ new.added = edit[c].added
      /\ new.removed = edit[c].removed /\ new.write = edit[c].write /\ new.created = edit[c].created
      /\ new.read = sees /\ new.at = IF doc.rows = 0 THEN "create" ELSE "snapshot"
  BY <1>4, <1>6 DEF EditRows
<1> HIDE DEF new
<1>9. edit'[c] = new
  BY <1>5 DEF DocTypes
<1>10. EditWhole(c)'
  BY <1>2, <1>3, <1>4, <1>8, <1>9 DEF EditWhole, HasInserted, HasWritten, AtWork, DocTypes, DocRow
<1>11. ASSUME OneAndInTime PROVE EditCurrent(c)'
  <2>1. EditCurrent(c) /\ EditWhole(c)
    BY <1>11
  <2>2. Document!Visible(c)' = Document!Visible(c)
    BY <1>2, <1>8, <1>9 DEF Document!Visible
  <2> QED
    BY <1>2, <1>3, <1>4, <1>8, <1>9, <2>1, <2>2
    DEF EditCurrent, EditWhole, HasInserted, HasWritten, AtWork, Before, DocTypes, DocRow
<1>12. IsFiniteSet(new.added) /\ edits' \in Nat /\ overtaken' = overtaken
  BY <1>2, <1>8 DEF DocTypes
<1> QED BY <1>2, <1>5, <1>7, <1>8, <1>10, <1>11, <1>12, DocStill

LEMMA CreateKeeps ==
  ASSUME DocInv, NEW c \in Editors, Document!Create(c)
  PROVE  DocInv'
<1> USE DEF DocInv
<1> DEFINE new == [edit[c] EXCEPT !.at = "over", !.created = TRUE,
                                  !.write = [content |-> edit[c].content, current |-> 1]]
<1>1. edit' = [edit EXCEPT ![c] = new] /\ UNCHANGED <<doc, versions, edits, overtaken>>
      /\ edit[c].at = "create"
  BY DEF Document!Create, DocTypes
<1>2. edit[c] \in EditRows
  BY DEF DocTypes
<1>3. new \in EditRows
  BY <1>2 DEF EditRows
<1>4. /\ new.inserted = edit[c].inserted /\ new.added = edit[c].added
      /\ new.removed = edit[c].removed /\ new.at = "over" /\ new.created = TRUE
  BY <1>2 DEF EditRows
<1> HIDE DEF new
<1>5. edit'[c] = new
  BY <1>1 DEF DocTypes
<1>6. ~HasInserted(c) /\ edit[c].added = {} /\ edit[c].removed = {}
  BY <1>1 DEF EditWhole
<1>7. EditWhole(c)'
  BY <1>1, <1>4, <1>5, <1>6 DEF EditWhole, HasInserted, HasWritten, AtWork
<1>8. EditCurrent(c)'
  BY <1>1, <1>4, <1>5, <1>6 DEF EditCurrent, HasInserted, HasWritten, AtWork
<1>9. IsFiniteSet(new.added) /\ edits' \in Nat
  BY <1>1, <1>4 DEF DocTypes
<1> QED BY <1>1, <1>3, <1>4, <1>7, <1>8, <1>9, DocStill

LEMMA UpdateKeeps ==
  ASSUME DocInv, NEW c \in Editors, Document!Update(c)
  PROVE  DocInv'
<1> USE DEF DocInv
<1> DEFINE at == IF edit[c].by = "agent" THEN "rest" ELSE "over"
           write == [content |-> edit[c].content, current |-> edit[c].read.current + 1]
           new == [edit[c] EXCEPT !.at = at, !.write = write]
<1>1. edit' = [edit EXCEPT ![c] = new] /\ UNCHANGED <<doc, versions, edits, overtaken>>
      /\ edit[c].at = "update"
  BY DEF Document!Update, DocTypes
<1>2. edit[c] \in EditRows /\ edit[c].read.current \in Nat /\ doc.current \in Nat
  BY DEF DocTypes, EditRows, DocRow
<1>11. /\ at \in {"rest", "over"} /\ write \in [content : Nat, current : Nat]
       /\ write.current = edit[c].read.current + 1
  BY <1>2 DEF EditRows
<1> HIDE DEF at, write
<1>3. new \in EditRows
  BY <1>2, <1>11 DEF EditRows
<1>4. /\ new.inserted = edit[c].inserted /\ new.added = edit[c].added
      /\ new.removed = edit[c].removed /\ new.at \in {"rest", "over"} /\ new.created = edit[c].created
      /\ new.write.current = edit[c].read.current + 1
  BY <1>2, <1>11 DEF EditRows
<1> HIDE DEF new
<1>5. edit'[c] = new
  BY <1>1 DEF DocTypes
<1>6. HasInserted(c) /\ EditWhole(c)
  BY <1>1 DEF EditWhole
<1>7. HasWritten(c)'
  BY <1>2, <1>4, <1>5 DEF HasWritten, Document!NoWrite
<1>8. EditWhole(c)'
  BY <1>1, <1>4, <1>5, <1>6, <1>7 DEF EditWhole, HasInserted, AtWork
<1>9. ASSUME OneAndInTime PROVE EditCurrent(c)'
  <2>1. EditCurrent(c)
    BY <1>9
  <2>2. Document!Visible(c)' = Document!Visible(c)
    BY <1>1, <1>4, <1>5 DEF Document!Visible
  <2>3. edit[c].read.current >= doc.current
    BY <1>1, <1>2, <1>6, <2>1 DEF EditCurrent, EditWhole, AtWork, EditRows
  <2>4. edit'[c].write.current > doc'.current
    BY <1>1, <1>2, <1>4, <1>5, <2>3
  <2> QED
    BY <1>1, <1>4, <1>5, <1>6, <1>7, <2>1, <2>2, <2>4
    DEF EditCurrent, HasInserted, AtWork, Before
<1>10. IsFiniteSet(new.added) /\ edits' \in Nat
  BY <1>1, <1>4 DEF DocTypes
<1> QED BY <1>1, <1>3, <1>4, <1>8, <1>9, <1>10, DocStill

LEMMA RollbackKeeps ==
  ASSUME DocInv, NEW c \in Editors, Document!Rollback(c)
  PROVE  DocInv'
<1> USE DEF DocInv
<1>1. edit' = [edit EXCEPT ![c] = Document!Closed] /\ UNCHANGED <<doc, versions, edits, overtaken>>
  BY DEF Document!Rollback
<1>2. Document!Closed \in EditRows
  BY DEF Document!Closed, Document!NoDoc, Document!NoWrite, EditRows, DocRow
<1>3. edit'[c] = Document!Closed
  BY <1>1 DEF DocTypes
<1>4. EditWhole(c)' /\ EditCurrent(c)'
  BY <1>3 DEF EditWhole, EditCurrent, HasInserted, HasWritten, AtWork, Document!Closed
<1>5. IsFiniteSet(Document!Closed.added) /\ edits' \in Nat
      /\ Document!Closed.inserted = {} /\ Document!Closed.added = {} /\ Document!Closed.removed = {}
  BY <1>1, FS_EmptySet DEF DocTypes, Document!Closed
<1> QED BY <1>1, <1>2, <1>4, <1>5, DocStill

LEMMA VisibleTyped ==
  ASSUME DocTypes, NEW c \in Editors
  PROVE  Document!Visible(c) \in SUBSET VersionRows /\ IsFiniteSet(Document!Visible(c))
<1>1. edit[c].added \in SUBSET VersionRows
  BY DEF DocTypes, EditRows
<1>2. IsFiniteSet({v \in versions : v.n \notin edit[c].removed})
  BY FS_Subset DEF DocTypes
<1> QED BY <1>1, <1>2, FS_Union DEF Document!Visible, DocTypes

LEMMA SnapshotKeeps ==
  ASSUME MaxVersions \in Nat, DocInv, NEW c \in Editors, Document!Snapshot(c)
  PROVE  DocInv'
<1> USE DEF DocInv
<1> DEFINE v == Document!OldContent(c)
           seen == Document!Visible(c) \cup {v}
           kept == Document!Newest(seen)
           removed == edit[c].removed \cup (Document!Numbers(Document!Visible(c)) \ Document!Numbers(kept))
           added == (edit[c].added \cup {v}) \cap kept
           inserted == edit[c].inserted \cup {v.n}
           new == [edit[c] EXCEPT !.at = "update", !.inserted = inserted, !.added = added,
                                  !.removed = removed]
<1>1. /\ edit[c].at = "snapshot"
      /\ v.n \notin Document!Numbers(Document!Visible(c))
      /\ \A d \in Editors \ {c} : v.n \notin edit[d].inserted
      /\ UNCHANGED <<doc, versions, edits>>
  BY DEF Document!Snapshot
<1>2. edit' = [edit EXCEPT ![c] = new]
  BY DEF Document!Snapshot, DocTypes
<1>3. overtaken' = (overtaken \/ doc.current > edit[c].read.current)
  BY DEF Document!Snapshot
<1>4. /\ edit[c] \in EditRows /\ v \in VersionRows /\ v.n = edit[c].read.current + 1
      /\ v.content = edit[c].read.content /\ edit[c].read.current \in Nat
      /\ doc.current \in Nat /\ doc.content \in Nat
  BY DEF Document!OldContent, DocTypes, EditRows, DocRow, VersionRows
<1>5. v = [n |-> edit[c].read.current + 1, content |-> edit[c].read.content]
  BY DEF Document!OldContent
<1>6. seen \in SUBSET VersionRows /\ IsFiniteSet(seen) /\ OfOneNumber(seen) /\ v \in seen
  <2>1. Document!Visible(c) \in SUBSET VersionRows /\ IsFiniteSet(Document!Visible(c))
    BY VisibleTyped
  <2>2. IsFiniteSet(seen)
    BY <2>1, FS_AddElement
  <2>3. OfOneNumber(seen)
    BY <1>1 DEF OfOneNumber, NumbersApart, Document!Numbers
  <2> QED BY <1>4, <2>1, <2>2, <2>3
<1> HIDE DEF v
<1>7. kept \subseteq seen
  BY DEF Document!Newest
<1>8. \A x \in seen \ kept : \A k \in kept : k.n > x.n
  BY <1>6, NewestAreNewer
<1> HIDE DEF kept
<1>9. removed \in SUBSET Nat /\ inserted \in SUBSET Nat /\ added \in SUBSET VersionRows
  BY <1>4, <1>6, <1>7 DEF EditRows, VersionRows, Document!Numbers
<1>10. /\ new \in EditRows /\ new.at = "update" /\ new.inserted = inserted /\ new.added = added
       /\ new.removed = removed /\ new.read = edit[c].read /\ new.write = edit[c].write
       /\ new.created = edit[c].created
  BY <1>4, <1>9 DEF EditRows
<1> HIDE DEF new
<1>11. edit'[c] = new /\ \A d \in Editors \ {c} : edit'[d] = edit[d]
  BY <1>2 DEF DocTypes
<1>12. Document!Visible(c)' \subseteq kept
  <2>1. Document!Visible(c)' = {w \in versions : w.n \notin removed} \cup added
    BY <1>1, <1>10, <1>11 DEF Document!Visible
  <2>2. ASSUME NEW w \in versions, w.n \notin removed PROVE w \in kept
    <3>1. w \in Document!Visible(c) /\ w.n \in Document!Numbers(kept)
      BY <2>2 DEF Document!Visible, Document!Numbers
    <3>2. PICK k \in kept : k.n = w.n
      BY <3>1 DEF Document!Numbers
    <3> QED BY <1>6, <1>7, <3>1, <3>2 DEF OfOneNumber
  <2> QED BY <2>1, <2>2
<1>13. \A d \in Editors \ {c} : Document!Visible(d)' = Document!Visible(d)
  BY <1>1, <1>11 DEF Document!Visible
<1>14. NumbersApart'
  <2>1. \A x, y \in Editors : x # y => edit'[x].inserted \cap edit'[y].inserted = {}
    BY <1>1, <1>10, <1>11 DEF NumbersApart
  <2>2. OfOneNumber(versions')
    BY <1>1 DEF NumbersApart
  <2>3. \A d \in Editors : OfOneNumber(Document!Visible(d)')
    BY <1>6, <1>7, <1>12, <1>13 DEF NumbersApart, OfOneNumber
  <2> QED BY <2>1, <2>2, <2>3 DEF NumbersApart, OfOneNumber
<1>15. IsFiniteSet(added)
  BY <1>6, <1>7, FS_Subset
<1>16. overtaken' \in BOOLEAN
  BY <1>3
<1>17. DocTypes'
  BY <1>1, <1>2, <1>10, <1>11, <1>15, <1>16 DEF DocTypes
<1>18. \A d \in Editors \ {c} : EditWhole(d)'
  BY <1>1, <1>11 DEF EditWhole, HasInserted, HasWritten, AtWork
<1>19. EditWhole(c)'
  BY <1>1, <1>4, <1>10, <1>11 DEF EditWhole, HasInserted, HasWritten, AtWork
<1>20. ASSUME OneAndInTime' PROVE \A d \in Editors : EditCurrent(d)'
  <2>1. OneAndInTime /\ ~(doc.current > edit[c].read.current)
    BY <1>1, <1>3, <1>20 DEF OneAndInTime
  <2>2. \A d \in Editors \ {c} : EditCurrent(d)'
    BY <1>1, <1>11, <1>13, <2>1 DEF EditCurrent, HasInserted, HasWritten, AtWork, Before
  <2>3. EditCurrent(c) /\ EditWhole(c)
    BY <2>1
  <2>4. /\ doc.current + 1 \in inserted
        /\ Before \in added \/ \A x \in kept : x.n > doc.current + 1
        /\ ~HasWritten(c) => edit[c].read.current = doc.current
    <3>1. CASE ~HasWritten(c)
      <4>1. edit[c].read.current = doc.current /\ edit[c].read.content = doc.content
        BY <1>1, <1>4, <2>1, <2>3, <3>1 DEF EditCurrent, AtWork
      <4>2. v = Before
        BY <1>5, <4>1 DEF Before
      <4> QED BY <1>4, <1>6, <1>8, <4>1, <4>2
    <3>2. CASE HasWritten(c)
      <4>1. HasInserted(c) /\ edit[c].read.current > doc.current
        BY <1>1, <2>3, <3>2 DEF EditCurrent, EditWhole, AtWork
      <4>2. doc.current + 1 \in edit[c].inserted
        BY <2>3, <4>1 DEF EditCurrent
      <4>3. v.n > doc.current + 1
        BY <1>4, <4>1
      <4>4. Before.n = doc.current + 1
        BY DEF Before
      <4>5. CASE Before \in edit[c].added
        <5>1. Before \in seen
          BY <4>5 DEF Document!Visible
        <5> QED BY <1>8, <3>2, <4>2, <4>4, <4>5, <5>1
      <4>6. CASE \A x \in Document!Visible(c) : x.n > doc.current + 1
        BY <1>7, <3>2, <4>2, <4>3, <4>6
      <4> QED BY <2>3, <4>1, <4>5, <4>6 DEF EditCurrent
    <3> QED BY <3>1, <3>2
  <2>5. EditCurrent(c)'
    <3>1. Before' = Before /\ doc' = doc
      BY <1>1 DEF Before
    <3>2. /\ HasInserted(c)' =>
               /\ doc'.current + 1 \in edit'[c].inserted
               /\ Before' \in edit'[c].added \/ \A x \in Document!Visible(c)' : x.n > doc'.current + 1
      BY <1>10, <1>11, <1>12, <2>4, <3>1
    <3>3. (HasWritten(c)' <=> HasWritten(c)) /\ edit'[c].read = edit[c].read /\ edit'[c].write = edit[c].write
          /\ edit'[c].at = "update" /\ edit'[c].created = edit[c].created
      BY <1>10, <1>11 DEF HasWritten
    <3>4. ~HasWritten(c) => doc.content = edit[c].read.content
      BY <1>1, <2>3, <2>4 DEF EditCurrent, AtWork
    <3>5. HasWritten(c) => edit[c].read.current = edit[c].write.current
      BY <1>1, <2>3 DEF EditCurrent, AtWork
    <3>6. HasWritten(c) /\ ~edit[c].created => edit[c].write.current > doc.current
      BY <2>3 DEF EditCurrent
    <3> QED BY <2>4, <3>1, <3>2, <3>3, <3>4, <3>5, <3>6 DEF EditCurrent, AtWork
  <2> QED BY <2>2, <2>5
<1> QED BY <1>14, <1>17, <1>18, <1>19, <1>20

LEMMA CommitKeeps ==
  ASSUME DocInv, NEW c \in Editors, Document!Commit(c)
  PROVE  /\ DocInv'
         /\ doc'.content # doc.content /\ doc.rows = 1 /\ doc'.rows = 1 /\ ~overtaken =>
              Before \in versions' \/ \A v \in versions' : v.n > doc.current + 1
<1> USE DEF DocInv
<1>1. /\ edit[c].at \in {"over", "rest"}
      /\ versions' = Document!Visible(c)
      /\ edit' = [edit EXCEPT ![c] = Document!Closed]
      /\ UNCHANGED <<edits, overtaken>>
  BY DEF Document!Commit, Document!Visible
<1>2. doc' = IF ~HasWritten(c) THEN doc
             ELSE [rows |-> IF edit[c].created THEN doc.rows + 1 ELSE doc.rows,
                   content |-> edit[c].write.content, current |-> edit[c].write.current]
  BY DEF Document!Commit, HasWritten
<1>3. /\ edit[c] \in EditRows /\ edit[c].write.content \in Nat /\ edit[c].write.current \in Nat
      /\ doc.rows \in Nat /\ doc.current \in Nat /\ doc.content \in Nat
  BY DEF DocTypes, EditRows, DocRow
<1>4. /\ edit'[c] = Document!Closed /\ Document!Closed \in EditRows
      /\ \A d \in Editors \ {c} : edit'[d] = edit[d]
  BY <1>1 DEF DocTypes, Document!Closed, Document!NoDoc, Document!NoWrite, EditRows, DocRow
<1>5. doc' \in DocRow /\ doc'.rows >= doc.rows
  BY <1>2, <1>3 DEF DocRow, DocTypes
<1>6. DocTypes'
  <2>1. \A d \in Editors : IsFiniteSet(edit'[d].added)
    BY <1>4, FS_EmptySet DEF DocTypes, Document!Closed
  <2> QED BY <1>1, <1>4, <1>5, <2>1, VisibleTyped DEF DocTypes
<1>7. \A d \in Editors \ {c} : \A v \in edit[c].added, w \in edit[d].added : v.n # w.n
  <2> SUFFICES ASSUME NEW d \in Editors \ {c}, NEW v \in edit[c].added, NEW w \in edit[d].added
               PROVE  v.n # w.n
    OBVIOUS
  <2>1. v.n \in edit[c].inserted /\ w.n \in edit[d].inserted
    BY DEF EditWhole
  <2> QED BY <2>1 DEF NumbersApart
<1>8. NumbersApart'
  <2>1. \A x, y \in Editors : x # y => edit'[x].inserted \cap edit'[y].inserted = {}
    BY <1>4 DEF NumbersApart, Document!Closed
  <2>2. OfOneNumber(versions')
    BY <1>1 DEF NumbersApart
  <2>3. OfOneNumber(Document!Visible(c)')
    BY <1>4, <2>2 DEF Document!Visible, Document!Closed, OfOneNumber
  <2>4. ASSUME NEW d \in Editors \ {c} PROVE OfOneNumber(Document!Visible(d)')
    <3> SUFFICES ASSUME NEW v \in Document!Visible(d)', NEW w \in Document!Visible(d)', v.n = w.n
                 PROVE  v = w
      BY DEF OfOneNumber
    <3>1. OfOneNumber(Document!Visible(d))
      BY DEF NumbersApart
    <3>2. \A x \in Document!Visible(d)' :
            x \in Document!Visible(d) \/ (x \in edit[c].added /\ x \in versions')
      BY <1>1, <1>4 DEF Document!Visible
    <3>3. \A x \in Document!Visible(d)' : x \in edit[d].added \/ x \in versions'
      BY <1>4 DEF Document!Visible
    <3> QED BY <1>7, <2>2, <3>1, <3>2, <3>3 DEF OfOneNumber
  <2> QED BY <2>1, <2>2, <2>3, <2>4 DEF NumbersApart
<1>9. EditWhole(c)' /\ EditCurrent(c)'
  BY <1>4 DEF EditWhole, EditCurrent, HasInserted, HasWritten, AtWork, Document!Closed
<1>10. \A d \in Editors \ {c} : EditWhole(d)'
  BY <1>3, <1>4, <1>5 DEF EditWhole, HasInserted, HasWritten, AtWork, DocTypes, DocRow
<1>11. EditWhole(c) /\ (HasWritten(c) /\ ~edit[c].created => HasInserted(c))
  BY DEF EditWhole
<1>12. ~HasInserted(c) => versions' = versions
  BY <1>1, <1>11 DEF EditWhole, Document!Visible
<1>13. ASSUME OneAndInTime', NEW d \in Editors \ {c} PROVE EditCurrent(d)'
  <2>1. OneAndInTime
    BY <1>1, <1>3, <1>5, <1>13 DEF OneAndInTime, DocRow
  <2>2. EditCurrent(d) /\ EditCurrent(c) /\ EditWhole(d)
    BY <2>1
  <2>3. CASE ~HasWritten(c)
    <3>1. ~HasInserted(c)
      BY <1>1, <1>11, <2>3 DEF EditWhole
    <3>2. versions' = versions /\ doc' = doc
      BY <1>2, <1>12, <2>3, <3>1
    <3>3. Document!Visible(d)' = Document!Visible(d) /\ Before' = Before
      BY <1>4, <3>2 DEF Document!Visible, Before
    <3> QED BY <1>4, <2>2, <3>2, <3>3 DEF EditCurrent, HasInserted, HasWritten, AtWork
  <2>4. CASE HasWritten(c) /\ edit[c].created
    <3>1. doc.rows = 0
      BY <1>2, <1>3, <1>13, <2>4 DEF OneAndInTime
    <3>2. ~HasInserted(d) /\ ~AtWork(d)
      BY <2>2, <3>1 DEF EditWhole
    <3>3. ~HasWritten(d) \/ edit[d].created
      BY <2>2, <3>2 DEF EditWhole
    <3> QED BY <1>4, <3>2, <3>3 DEF EditCurrent, HasInserted, HasWritten, AtWork
  <2>5. CASE HasWritten(c) /\ ~edit[c].created
    <3>1. HasInserted(c) /\ doc.current + 1 \in edit[c].inserted /\ edit[c].write.current > doc.current
      BY <1>11, <2>2, <2>5 DEF EditCurrent
    <3>2. ~HasInserted(d)
      BY <2>2, <3>1 DEF EditCurrent, NumbersApart
    <3>3. edit[d].at # "update" /\ (HasWritten(d) => edit[d].created)
      BY <2>2, <3>2 DEF EditWhole
    <3>4. doc'.current > doc.current /\ doc'.current \in Nat
      BY <1>2, <1>3, <2>5, <3>1
    <3>5. edit[d].read.current \in Nat
      BY DEF DocTypes, EditRows, DocRow
    <3>6. edit[d].at = "snapshot" /\ ~HasWritten(d) => edit[d].read.current <= doc.current
      BY <2>2 DEF EditCurrent
    <3>7. AtWork(d) => edit[d].at = "snapshot" /\ ~edit[d].created
      BY <2>2, <3>3 DEF AtWork, EditWhole
    <3>8. edit'[d] = edit[d]
      BY <1>4
    <3> QED BY <1>3, <3>2, <3>3, <3>4, <3>5, <3>6, <3>7, <3>8 DEF EditCurrent, HasInserted, HasWritten, AtWork
  <2> QED BY <2>3, <2>4, <2>5
<1>14. ASSUME doc'.content # doc.content, doc.rows = 1, doc'.rows = 1, ~overtaken
       PROVE  Before \in versions' \/ \A v \in versions' : v.n > doc.current + 1
  <2>1. HasWritten(c) /\ ~edit[c].created
    BY <1>2, <1>3, <1>14
  <2>2. HasInserted(c) /\ EditCurrent(c)
    BY <1>11, <1>14, <2>1 DEF OneAndInTime
  <2> QED BY <1>1, <2>2 DEF EditCurrent, Document!Visible
<1> QED BY <1>6, <1>8, <1>9, <1>10, <1>13, <1>14

\* Of the document and its versions, only a commit changes anything.
LEMMA DocStep ==
  ASSUME MaxVersions \in Nat, DocInv, [Document!Next]_documentVars
  PROVE  /\ DocInv'
         /\ doc'.content # doc.content /\ doc.rows = 1 /\ doc'.rows = 1 /\ ~overtaken =>
              Before \in versions' \/ \A v \in versions' : v.n > doc.current + 1
<1>1. CASE UNCHANGED documentVars
  BY <1>1 DEF documentVars, DocInv, DocTypes, NumbersApart, OfOneNumber, Document!Visible, EditWhole,
     EditCurrent, HasInserted, HasWritten, AtWork, Before, OneAndInTime
<1>2. ASSUME NEW c \in Editors, NEW by \in {"user", "agent"}, Document!Read(c, by)
      PROVE  DocInv' /\ doc' = doc
  BY <1>2, ReadKeeps DEF Document!Read
<1>3. ASSUME NEW c \in Editors, Document!Create(c) PROVE DocInv' /\ doc' = doc
  BY <1>3, CreateKeeps DEF Document!Create
<1>4. ASSUME NEW c \in Editors, Document!Snapshot(c) PROVE DocInv' /\ doc' = doc
  BY <1>4, SnapshotKeeps DEF Document!Snapshot
<1>5. ASSUME NEW c \in Editors, Document!Update(c) PROVE DocInv' /\ doc' = doc
  BY <1>5, UpdateKeeps DEF Document!Update
<1>6. ASSUME NEW c \in Editors, Document!Rollback(c) PROVE DocInv' /\ doc' = doc
  BY <1>6, RollbackKeeps DEF Document!Rollback
<1> QED BY <1>1, <1>2, <1>3, <1>4, <1>5, <1>6, CommitKeeps DEF Document!Next

\* What an edit overwrites is in the history, or has been pruned from it for newer versions, as
\* long as no edit was overtaken by another.
THEOREM EditsKept == Document!Spec => EditKept
<1> DEFINE kept ==
      doc'.content # doc.content /\ doc.rows = 1 /\ doc'.rows = 1 /\ ~overtaken =>
       \/ doc.content \in {v.content : v \in versions'}
       \/ \A v \in versions' : v.n > doc.current + 1
<1>1. MaxVersions \in Nat
  BY RecordsAssumption DEF RecordsAssumption
<1>2. DocInv /\ [Document!Next]_documentVars => kept
  <2> SUFFICES ASSUME DocInv, [Document!Next]_documentVars PROVE kept
    OBVIOUS
  <2>1. Before.content = doc.content
    BY DEF Before
  <2> QED BY <1>1, <2>1, DocStep
<1>3. DocInv /\ [Document!Next]_documentVars => DocInv'
  BY <1>1, DocStep
<1> QED
  BY <1>2, <1>3, DocStart, PTL
  DEF Document!Spec, Document!vars, documentVars, EditKept, Document!EditKept

-----------------------------------------------------------------------------
(*****************************************************************************)
(* Toolbox                                                                   *)
(*****************************************************************************)
ToolRows == [id : Nat, name : Tools!Name, server : Things \cup {none}, enabled : BOOLEAN]
Syncs ==
  [kind : {"none", "discovering", "writing", "session"}, server : Things \cup {none},
   prefix : ServerNames \cup {<<>>}, found : SUBSET Offers, add : SUBSET ToolRows,
   put : SUBSET [id : Nat, enabled : BOOLEAN], del : SUBSET Tools!Name, behind : BOOLEAN]
ToolTypes ==
  /\ natives \in SUBSET Natives /\ toolRows \in SUBSET ToolRows /\ drawn \in Nat
  /\ servers \in [Things -> [there : BOOLEAN, prefix : ServerNames \cup {<<>>}]]
  /\ listed \in [Things -> SUBSET Offers] /\ toolTx \in [Calls -> Syncs]
  /\ owners \in [ServerNames -> SUBSET Things] /\ off \in SUBSET Nat
FewOfEach ==
  /\ IsFiniteSet(natives) /\ IsFiniteSet(toolRows)
  /\ \A c \in Calls : IsFiniteSet(toolTx[c].add)
  /\ \A p \in ServerNames : IsFiniteSet(owners[p])

\* Tools are named after a server that has, or had, the prefix.
OfServer(s, p) == s \in Things /\ p \in ServerNames /\ s \in owners[p]
WellNamed(r) == (r.server = none /\ r.name.prefix = <<>>) \/ OfServer(r.server, r.name.prefix)
NamesOwned ==
  /\ \A s \in Things : servers[s].there => OfServer(s, servers[s].prefix)
  /\ \A c \in Calls : toolTx[c].kind = "discovering" => OfServer(toolTx[c].server, toolTx[c].prefix)
  /\ \A r \in toolRows : WellNamed(r)
  /\ \A c \in Calls : \A r \in toolTx[c].add : WellNamed(r)

\* The rows a transaction adds have ids that nothing else has.
Fresh(c, r) ==
  /\ r.id <= drawn /\ r.id \notin off
  /\ \A q \in toolRows : q.id # r.id
  /\ \A d \in Calls : \A p \in toolTx[d].put : p.id # r.id
  /\ \A d \in Calls \ {c} : \A q \in toolTx[d].add : q.id # r.id
IdsApart ==
  /\ \A r \in toolRows : r.id <= drawn
  /\ \A i \in off : i <= drawn
  /\ \A c \in Calls : \A p \in toolTx[c].put : p.id <= drawn
  /\ \A c \in Calls : \A r \in toolTx[c].add : Fresh(c, r)
OffMeansOff == \A r \in toolRows : r.id \in off => ~r.enabled

\* A transaction writes one row at most, and deletes no name it adds.
NamesApart(S) == \A r, q \in S : r.name = q.name => r = q
SyncWhole(t) ==
  /\ \A r \in t.add : r.server = t.server /\ r.name \notin t.del
  /\ \A p, q \in t.put : p = q
  /\ NamesApart(t.add)
  /\ t.kind \notin {"writing", "session"} => t.add = {}

\* As long as no cause of duplicates was met, names are apart, and stay apart when what is
\* open is committed.
OneOwner == \A p \in ServerNames : \A s, t \in owners[p] : s = t
Clean == ~overlap /\ OneOwner
RowsApart ==
  /\ NamesApart(toolRows)
  /\ \A c \in Calls : ~toolTx[c].behind => \A r \in toolTx[c].add, q \in toolRows : r.name # q.name

ToolInv ==
  /\ ToolTypes /\ FewOfEach /\ NamesOwned /\ IdsApart /\ OffMeansOff
  /\ \A c \in Calls : SyncWhole(toolTx[c])
  /\ Clean => RowsApart

\* A finite set has as many names as elements when no two have one name.
LEMMA NamesCount ==
  ASSUME NEW S, IsFiniteSet(S), NamesApart(S)
  PROVE  Cardinality(Tools!NamesIn(S)) = Cardinality(S)
<1> DEFINE f == [r \in S |-> r.name]
<1>1. f \in [S -> Tools!NamesIn(S)] /\ \A r \in S : f[r] = r.name
  BY DEF Tools!NamesIn
<1>2. \A x \in Tools!NamesIn(S) : \E r \in S : f[r] = x
  BY DEF Tools!NamesIn
<1>3. \A r, q \in S : f[r] = f[q] => r = q
  BY DEF NamesApart
<1> HIDE DEF f
<1>4. f \in Bijection(S, Tools!NamesIn(S))
  BY <1>1, <1>2, <1>3 DEF Bijection, Injection, Surjection, IsInjective
<1> QED BY <1>4, FS_Bijection DEF ExistsBijection

LEMMA NativesFinite ==
  ASSUME FewOfEach
  PROVE  IsFiniteSet(Tools!Missing(toolRows))
<1> DEFINE named == {Tools!Native(raw) : raw \in natives}
           f == [raw \in natives |-> Tools!Native(raw)]
<1>1. f \in Surjection(natives, named)
  BY DEF Surjection
<1>2. IsFiniteSet(named)
  BY <1>1, FS_Surjection DEF FewOfEach
<1>3. Tools!Missing(toolRows) \in SUBSET named
  BY DEF Tools!Missing
<1> QED BY <1>2, <1>3, FS_Subset

LEMMA OffersFinite ==
  ASSUME NEW found \in SUBSET Offers, NEW prefix
  PROVE  IsFiniteSet({Tools!Prefixed(prefix, raw) : raw \in found})
<1> DEFINE named == {Tools!Prefixed(prefix, raw) : raw \in found}
           f == [raw \in found |-> Tools!Prefixed(prefix, raw)]
<1>1. f \in Surjection(found, named)
  BY DEF Surjection
<1>2. IsFiniteSet(found)
  BY RecordsAssumption, FS_Subset
<1> QED BY <1>1, <1>2, FS_Surjection

\* New rows: one of each name, numbered from what is drawn.
LEMMA AddedIs ==
  ASSUME NEW names \in SUBSET Tools!Name, IsFiniteSet(names), NEW server \in Things \cup {none}, drawn \in Nat
  PROVE  /\ Cardinality(names) \in Nat
         /\ Tools!Added(names, server) \in SUBSET ToolRows
         /\ IsFiniteSet(Tools!Added(names, server))
         /\ \A r \in Tools!Added(names, server) :
              /\ r.id > drawn /\ r.id <= drawn + Cardinality(names)
              /\ r.name \in names /\ r.server = server
         /\ NamesApart(Tools!Added(names, server))
<1> DEFINE n == Cardinality(names)
           q == Tools!SetToSeq(names)
           made(i) == [id |-> drawn + i, name |-> q[i], server |-> server, enabled |-> TRUE]
           f == [i \in 1..n |-> made(i)]
<1>1. n \in Nat /\ ExistsBijection(1..n, names)
  BY FS_CardinalityType
<1>2. PICK g \in Bijection(1..n, names) : TRUE
  BY <1>1 DEF ExistsBijection
<1>3. g \in [1..n -> names] /\ Tools!IsInjective(g)
  BY <1>2 DEF Bijection, Injection, IsInjective, Tools!IsInjective
<1>4. q \in [1..n -> names] /\ Tools!IsInjective(q)
  <2>1. q = CHOOSE h \in [1..n -> names] : Tools!IsInjective(h)
    BY DEF Tools!SetToSeq, Tools!Cardinality, Cardinality
  <2> HIDE DEF q
  <2> QED BY <1>3, <2>1
<1>5. DOMAIN q = 1..n /\ \A i \in 1..n : q[i] \in names
  BY <1>4
<1>6. Tools!Added(names, server) = {made(i) : i \in 1..n}
  BY <1>5 DEF Tools!Added
<1>7. \A i \in 1..n : made(i) \in ToolRows /\ made(i).id > drawn /\ made(i).id <= drawn + n
                      /\ made(i).name \in names /\ made(i).server = server
  BY <1>1, <1>5 DEF ToolRows
<1>8. \A i, j \in 1..n : made(i).name = made(j).name => i = j
  BY <1>4 DEF Tools!IsInjective
<1> HIDE DEF q, made
<1>9. NamesApart(Tools!Added(names, server))
  BY <1>6, <1>8 DEF NamesApart
<1>10. IsFiniteSet(Tools!Added(names, server))
  <2>1. f \in Surjection(1..n, {made(i) : i \in 1..n})
    BY DEF Surjection
  <2> QED BY <1>1, <1>6, <2>1, FS_Interval, FS_Surjection
<1> QED BY <1>1, <1>6, <1>7, <1>9, <1>10

LEMMA ClosedWith ==
  ASSUME NEW kind, NEW add, NEW put
  PROVE  /\ [Tools!Closed EXCEPT !.kind = kind, !.add = add] =
              [kind |-> kind, server |-> none, prefix |-> <<>>, found |-> {}, add |-> add, put |-> {},
               del |-> {}, behind |-> FALSE]
         /\ [Tools!Closed EXCEPT !.kind = kind, !.put = put] =
              [kind |-> kind, server |-> none, prefix |-> <<>>, found |-> {}, add |-> {}, put |-> put,
               del |-> {}, behind |-> FALSE]
<1>1. [Tools!Closed EXCEPT !.kind = kind, !.add = add] =
        [kind |-> kind, server |-> none, prefix |-> <<>>, found |-> {}, add |-> add, put |-> {},
         del |-> {}, behind |-> FALSE]
  <2>1. PICK t : t = [Tools!Closed EXCEPT !.kind = kind, !.add = add]
    OBVIOUS
  <2>2. t = [kind |-> kind, server |-> none, prefix |-> <<>>, found |-> {}, add |-> add, put |-> {},
             del |-> {}, behind |-> FALSE]
    BY <2>1 DEF Tools!Closed
  <2> QED BY <2>1, <2>2
<1>2. [Tools!Closed EXCEPT !.kind = kind, !.put = put] =
        [kind |-> kind, server |-> none, prefix |-> <<>>, found |-> {}, add |-> {}, put |-> put,
         del |-> {}, behind |-> FALSE]
  <2>1. PICK t : t = [Tools!Closed EXCEPT !.kind = kind, !.put = put]
    OBVIOUS
  <2>2. t = [kind |-> kind, server |-> none, prefix |-> <<>>, found |-> {}, add |-> {}, put |-> put,
             del |-> {}, behind |-> FALSE]
    BY <2>1 DEF Tools!Closed
  <2> QED BY <2>1, <2>2
<1> QED BY <1>1, <1>2

LEMMA ToolsStart == Tools!Init => ToolInv
<1> SUFFICES ASSUME Tools!Init PROVE ToolInv
  OBVIOUS
<1>1. /\ natives = {} /\ toolRows = {} /\ drawn = 0 /\ off = {}
      /\ servers = [s \in Things |-> [there |-> FALSE, prefix |-> <<>>]]
      /\ listed = [s \in Things |-> Offers]
      /\ toolTx = [c \in Calls |-> Tools!Closed]
      /\ owners = [p \in ServerNames |-> {}]
  BY DEF Tools!Init
<1>2. Tools!Closed \in Syncs
  BY DEF Tools!Closed, Syncs
<1>3. ToolTypes
  BY <1>1, <1>2 DEF ToolTypes
<1>4. FewOfEach
  BY <1>1, FS_EmptySet DEF FewOfEach, Tools!Closed
<1> QED
  BY <1>1, <1>3, <1>4
  DEF ToolInv, NamesOwned, IdsApart, OffMeansOff, SyncWhole, NamesApart, RowsApart, Tools!Closed

\* A transaction takes a step and rows, servers and the rest stay: of the parts of the
\* invariant, what is to be shown is of that transaction alone.
LEMMA TxChanges ==
  ASSUME ToolInv, NEW c \in Calls, NEW t \in Syncs, toolTx' = [toolTx EXCEPT ![c] = t],
         UNCHANGED <<natives, toolRows, servers, listed, owners, overlap, off>>,
         drawn' \in Nat, drawn' >= drawn, IsFiniteSet(t.add), SyncWhole(t),
         t.kind = "discovering" => OfServer(t.server, t.prefix),
         \A r \in t.add : WellNamed(r) /\ r.id > drawn /\ r.id <= drawn',
         \A p \in t.put : p.id <= drawn /\ \E r \in toolRows : r.id = p.id,
         Clean /\ ~t.behind => \A r \in t.add, q \in toolRows : r.name # q.name
  PROVE  ToolInv'
<1> USE DEF ToolInv
<1>1. toolTx'[c] = t /\ \A d \in Calls \ {c} : toolTx'[d] = toolTx[d]
  BY DEF ToolTypes
<1>2. ToolTypes' /\ FewOfEach'
  BY <1>1 DEF ToolTypes, FewOfEach
<1>3. NamesOwned'
  BY <1>1 DEF NamesOwned, OfServer, WellNamed
<1>4. IdsApart'
  <2>1. /\ \A r \in toolRows : r.id \in Nat
        /\ \A i \in off : i \in Nat
        /\ \A d \in Calls : /\ \A p \in toolTx[d].put : p.id \in Nat
                            /\ \A r \in toolTx[d].add : r.id \in Nat
        /\ \A p \in t.put : p.id \in Nat
        /\ \A r \in t.add : r.id \in Nat
    BY DEF ToolTypes, ToolRows, Syncs
  <2>2. drawn \in Nat
    BY DEF ToolTypes
  <2>3. \A r \in toolRows' : r.id <= drawn'
    BY <2>1, <2>2 DEF IdsApart
  <2>4. \A i \in off' : i <= drawn'
    BY <2>1, <2>2 DEF IdsApart
  <2>5. \A d \in Calls : \A p \in toolTx'[d].put : p.id <= drawn /\ p.id \in Nat
    BY <1>1, <2>1, <2>2 DEF IdsApart
  <2>6. ASSUME NEW r \in t.add PROVE Fresh(c, r)'
    <3>1. r.id > drawn /\ r.id <= drawn' /\ r.id \in Nat
      BY <2>1
    <3>2. r.id \notin off /\ \A q \in toolRows : q.id # r.id
      BY <2>1, <2>2, <3>1 DEF IdsApart
    <3>3. \A d \in Calls : \A p \in toolTx'[d].put : p.id # r.id
      BY <2>2, <2>5, <3>1
    <3>4. \A d \in Calls \ {c} : \A q \in toolTx[d].add : q.id # r.id
      <4>1. \A d \in Calls : \A q \in toolTx[d].add : q.id <= drawn
        BY DEF IdsApart, Fresh
      <4> QED BY <2>1, <2>2, <3>1, <4>1
    <3> QED BY <1>1, <3>1, <3>2, <3>3, <3>4 DEF Fresh
  <2>7. ASSUME NEW d \in Calls \ {c}, NEW r \in toolTx[d].add PROVE Fresh(d, r)'
    <3>1. Fresh(d, r)
      BY DEF IdsApart
    <3>2. r.id \in Nat /\ r.id <= drawn'
      BY <2>1, <2>2, <3>1 DEF Fresh
    <3>3. \A p \in t.put : p.id # r.id
      BY <3>1 DEF Fresh
    <3>4. \A q \in t.add : q.id # r.id
      BY <2>1, <2>2, <3>1 DEF Fresh
    <3> QED BY <1>1, <3>1, <3>2, <3>3, <3>4 DEF Fresh
  <2> QED BY <1>1, <2>2, <2>3, <2>4, <2>5, <2>6, <2>7 DEF IdsApart
<1>5. OffMeansOff' /\ \A d \in Calls : SyncWhole(toolTx'[d])
  BY <1>1 DEF OffMeansOff
<1>6. Clean' => RowsApart'
  BY <1>1 DEF Clean, OneOwner, RowsApart, NamesApart
<1> QED BY <1>2, <1>3, <1>4, <1>5, <1>6

LEMMA ToolsEnsure ==
  ASSUME ToolInv, NEW c \in Calls, NEW kind \in {"writing", "session"}, Tools!Ensure(c, kind)
  PROVE  ToolInv'
<1> DEFINE names == Tools!Missing(toolRows)
           new == [kind |-> kind, server |-> none, prefix |-> <<>>, found |-> {},
                   add |-> Tools!Added(names, none), put |-> {}, del |-> {}, behind |-> FALSE]
<1>1. /\ drawn' = drawn + Cardinality(names)
      /\ toolTx' = [toolTx EXCEPT ![c] = [Tools!Closed EXCEPT !.kind = kind, !.add = Tools!Added(names, none)]]
      /\ UNCHANGED <<natives, toolRows, servers, listed, owners, overlap, off>>
  BY DEF Tools!Ensure, Tools!Draw, Tools!Cardinality, Cardinality
<1>2. [Tools!Closed EXCEPT !.kind = kind, !.add = Tools!Added(names, none)] = new
  BY ClosedWith
<1>3. names \in SUBSET Tools!Name /\ IsFiniteSet(names)
  <2>1. \A raw \in natives : Tools!Native(raw) \in Tools!Name
    BY DEF ToolInv, ToolTypes, Tools!Native, Tools!Name
  <2> QED BY <2>1, NativesFinite DEF Tools!Missing, ToolInv
<1>4. /\ Cardinality(names) \in Nat
      /\ new.add \in SUBSET ToolRows /\ IsFiniteSet(new.add) /\ NamesApart(new.add)
      /\ \A r \in new.add : /\ r.id > drawn /\ r.id <= drawn + Cardinality(names)
                            /\ r.name \in names /\ r.server = none
  BY <1>3, AddedIs DEF ToolInv, ToolTypes
<1>5. \A x \in names : x.prefix = <<>> /\ \A r \in toolRows : x # r.name
  BY DEF Tools!Missing, Tools!Native, Tools!NamesIn
<1> HIDE DEF names
<1>6. new \in Syncs
  BY <1>4 DEF Syncs
<1>7. SyncWhole(new)
  BY <1>4 DEF SyncWhole
<1>8. drawn' \in Nat /\ drawn' >= drawn
  BY <1>1, <1>4 DEF ToolInv, ToolTypes
<1>9. \A r \in new.add : WellNamed(r) /\ r.id > drawn /\ r.id <= drawn' /\ \A q \in toolRows : r.name # q.name
  BY <1>1, <1>4, <1>5 DEF WellNamed
<1>10. new.kind # "discovering" /\ new.put = {} /\ toolTx' = [toolTx EXCEPT ![c] = new]
  BY <1>1, <1>2
<1> HIDE DEF new
<1> QED BY <1>1, <1>4, <1>6, <1>7, <1>8, <1>9, <1>10, TxChanges

LEMMA ToolsSave ==
  ASSUME ToolInv, NEW c \in Calls, NEW r \in toolRows, Tools!Save(c, r)
  PROVE  ToolInv'
<1> DEFINE new == [kind |-> "writing", server |-> none, prefix |-> <<>>, found |-> {},
                   add |-> {}, put |-> {[id |-> r.id, enabled |-> ~r.enabled]}, del |-> {}, behind |-> FALSE]
<1>1. /\ toolTx' = [toolTx EXCEPT ![c] =
           [Tools!Closed EXCEPT !.kind = "writing", !.put = {[id |-> r.id, enabled |-> ~r.enabled]}]]
      /\ UNCHANGED <<natives, toolRows, servers, listed, drawn, owners, overlap, off>>
  BY DEF Tools!Save
<1>2. [Tools!Closed EXCEPT !.kind = "writing", !.put = {[id |-> r.id, enabled |-> ~r.enabled]}] = new
  BY ClosedWith
<1>3. r.id \in Nat /\ r.id <= drawn /\ drawn' \in Nat /\ drawn' >= drawn
  BY <1>1 DEF ToolInv, ToolTypes, ToolRows, IdsApart
<1>4. new \in Syncs
  BY <1>3 DEF Syncs
<1>5. SyncWhole(new) /\ IsFiniteSet(new.add)
  BY FS_EmptySet DEF SyncWhole, NamesApart
<1>6. new.kind # "discovering" /\ new.add = {} /\ \A p \in new.put : p.id = r.id
  OBVIOUS
<1>7. toolTx' = [toolTx EXCEPT ![c] = new]
  BY <1>1, <1>2
<1> HIDE DEF new
<1> QED BY <1>1, <1>3, <1>4, <1>5, <1>6, <1>7, TxChanges

LEMMA ToolsDiscover ==
  ASSUME ToolInv, NEW c \in Calls, NEW s \in Things, Tools!Discover(c, s)
  PROVE  ToolInv'
<1> DEFINE new == [kind |-> "discovering", server |-> s, prefix |-> servers[s].prefix, found |-> listed[s],
                   add |-> {}, put |-> {}, del |-> {}, behind |-> FALSE]
<1>1. /\ servers[s].there
      /\ toolTx' = [toolTx EXCEPT ![c] =
           [Tools!Closed EXCEPT !.kind = "discovering", !.server = s, !.prefix = servers[s].prefix,
                                !.found = listed[s]]]
      /\ UNCHANGED <<natives, toolRows, servers, listed, drawn, owners, overlap, off>>
  BY DEF Tools!Discover
<1>2. [Tools!Closed EXCEPT !.kind = "discovering", !.server = s, !.prefix = servers[s].prefix,
                           !.found = listed[s]] = new
  <2>1. PICK t : t = [Tools!Closed EXCEPT !.kind = "discovering", !.server = s,
                                          !.prefix = servers[s].prefix, !.found = listed[s]]
    OBVIOUS
  <2>2. t = new
    BY <2>1 DEF Tools!Closed
  <2> QED BY <2>1, <2>2
<1>3. OfServer(s, servers[s].prefix) /\ drawn' \in Nat /\ drawn' >= drawn
  BY <1>1 DEF ToolInv, ToolTypes, NamesOwned
<1>4. new \in Syncs
  BY DEF Syncs, ToolInv, ToolTypes
<1>5. SyncWhole(new) /\ IsFiniteSet(new.add)
  BY FS_EmptySet DEF SyncWhole, NamesApart
<1>6. new.server = s /\ new.prefix = servers[s].prefix /\ new.add = {} /\ new.put = {}
  OBVIOUS
<1>7. toolTx' = [toolTx EXCEPT ![c] = new]
  BY <1>1, <1>2
<1> HIDE DEF new
<1> QED BY <1>1, <1>3, <1>4, <1>5, <1>6, <1>7, TxChanges

LEMMA ToolsRollback ==
  ASSUME ToolInv, NEW c \in Calls, Tools!Rollback(c)
  PROVE  ToolInv'
<1>1. toolTx' = [toolTx EXCEPT ![c] = Tools!Closed]
      /\ UNCHANGED <<natives, toolRows, servers, listed, drawn, owners, overlap, off>>
  BY DEF Tools!Rollback
<1>2. Tools!Closed \in Syncs
  BY DEF Syncs, Tools!Closed
<1>3. SyncWhole(Tools!Closed) /\ IsFiniteSet(Tools!Closed.add)
  BY FS_EmptySet DEF SyncWhole, NamesApart, Tools!Closed
<1>4. Tools!Closed.kind = "none" /\ Tools!Closed.add = {} /\ Tools!Closed.put = {} /\ drawn' \in Nat /\ drawn' >= drawn
  BY <1>1 DEF Tools!Closed, ToolInv, ToolTypes
<1> QED BY <1>1, <1>2, <1>3, <1>4, TxChanges

LEMMA ToolsSync ==
  ASSUME ToolInv, NEW c \in Calls, Tools!Sync(c)
  PROVE  ToolInv'
<1> DEFINE s == toolTx[c].server
           existing == {r \in toolRows : r.server = s}
           names == {Tools!Prefixed(toolTx[c].prefix, raw) : raw \in toolTx[c].found}
           more == names \ Tools!NamesIn(existing)
           less == Tools!NamesIn(existing) \ names
           new == [kind |-> "writing", server |-> s, prefix |-> <<>>, found |-> {},
                   add |-> Tools!Added(more, s), put |-> {}, del |-> less, behind |-> FALSE]
<1>1. /\ toolTx[c].kind = "discovering"
      /\ drawn' = drawn + Cardinality(more)
      /\ toolTx' = [toolTx EXCEPT ![c] =
           [Tools!Closed EXCEPT !.kind = "writing", !.server = s, !.add = Tools!Added(more, s), !.del = less]]
      /\ UNCHANGED <<natives, toolRows, servers, listed, owners, overlap, off>>
  BY DEF Tools!Sync, Tools!Draw, Tools!Cardinality, Cardinality
<1>2. [Tools!Closed EXCEPT !.kind = "writing", !.server = s, !.add = Tools!Added(more, s), !.del = less] = new
  <2> HIDE DEF s, more, less
  <2>1. PICK t : t = [Tools!Closed EXCEPT !.kind = "writing", !.server = s, !.add = Tools!Added(more, s),
                                          !.del = less]
    OBVIOUS
  <2>2. t = new
    BY <2>1 DEF Tools!Closed
  <2> QED BY <2>1, <2>2
<1>3. /\ s \in Things /\ toolTx[c].prefix \in ServerNames /\ OfServer(s, toolTx[c].prefix)
      /\ toolTx[c].found \in SUBSET Offers
  BY <1>1 DEF ToolInv, ToolTypes, Syncs, NamesOwned, OfServer
<1>4. names \in SUBSET Tools!Name /\ IsFiniteSet(names) /\ less \in SUBSET Tools!Name
  <2>1. \A raw \in toolTx[c].found : Tools!Prefixed(toolTx[c].prefix, raw) \in Tools!Name
    BY <1>3 DEF Tools!Prefixed, Tools!Name
  <2>2. less \in SUBSET Tools!Name
    BY DEF Tools!NamesIn, ToolInv, ToolTypes, ToolRows
  <2> QED BY <1>3, <2>1, <2>2, OffersFinite
<1>5. more \in SUBSET Tools!Name /\ IsFiniteSet(more)
  BY <1>4, FS_Subset
<1>6. /\ Cardinality(more) \in Nat
      /\ new.add \in SUBSET ToolRows /\ IsFiniteSet(new.add) /\ NamesApart(new.add)
      /\ \A r \in new.add : /\ r.id > drawn /\ r.id <= drawn + Cardinality(more)
                            /\ r.name \in more /\ r.server = s
  BY <1>3, <1>5, AddedIs DEF ToolInv, ToolTypes
<1>7. \A x \in more : x.prefix = toolTx[c].prefix /\ x \notin less /\ \A r \in existing : x # r.name
  BY DEF Tools!Prefixed, Tools!NamesIn
<1>8. Clean => \A x \in more, r \in toolRows : x # r.name
  <2> SUFFICES ASSUME Clean, NEW x \in more, NEW r \in toolRows, x = r.name PROVE FALSE
    OBVIOUS
  <2>1. WellNamed(r) /\ r.name.prefix = toolTx[c].prefix
    BY <1>7 DEF ToolInv, NamesOwned
  <2>2. r.server = s
    BY <1>3, <2>1, RecordsAssumption DEF WellNamed, OfServer, Clean, OneOwner
  <2> QED BY <1>7, <2>2
<1> HIDE DEF more, less
<1>9. new \in Syncs
  BY <1>3, <1>4, <1>6 DEF Syncs
<1>10. SyncWhole(new)
  BY <1>6, <1>7 DEF SyncWhole
<1>11. drawn' \in Nat /\ drawn' >= drawn
  BY <1>1, <1>6 DEF ToolInv, ToolTypes
<1>12. \A r \in new.add : /\ WellNamed(r) /\ r.id > drawn /\ r.id <= drawn'
                          /\ Clean => \A q \in toolRows : r.name # q.name
  BY <1>1, <1>3, <1>6, <1>7, <1>8 DEF WellNamed
<1>13. new.kind # "discovering" /\ new.put = {} /\ toolTx' = [toolTx EXCEPT ![c] = new]
  BY <1>1, <1>2
<1> HIDE DEF new
<1> QED BY <1>1, <1>6, <1>9, <1>10, <1>11, <1>12, <1>13, TxChanges

\* The commit: rows keep their names and servers, and have the values that were put.
Kept(t) == {r \in toolRows : ~(r.server = t.server /\ r.name \in t.del)}
Put(t, r) == {p \in t.put : p.id = r.id}
Become(r, t) ==
  [id |-> r.id, name |-> r.name, server |-> r.server,
   enabled |-> IF Put(t, r) # {} THEN (CHOOSE p \in t.put : p.id = r.id).enabled ELSE r.enabled]

LEMMA BecomesARow ==
  ASSUME ToolTypes, NEW t \in Syncs, NEW r \in toolRows
  PROVE  /\ Become(r, t) \in ToolRows
         /\ Become(r, t).id = r.id /\ Become(r, t).name = r.name /\ Become(r, t).server = r.server
         /\ \A p \in t.put : p.id = r.id => \E q \in t.put : q.id = r.id /\ Become(r, t).enabled = q.enabled
         /\ (\A p \in t.put : p.id = r.id => p.enabled = r.enabled) => Become(r, t) = r
<1> DEFINE chosen == CHOOSE p \in t.put : p.id = r.id
<1>1. r \in ToolRows /\ \A p \in t.put : p.enabled \in BOOLEAN
  BY DEF ToolTypes, Syncs
<1>2. Put(t, r) # {} => chosen \in t.put /\ chosen.id = r.id
  BY DEF Put
<1> DEFINE value == IF Put(t, r) # {} THEN chosen.enabled ELSE r.enabled
<1>3. value \in BOOLEAN
  BY <1>1, <1>2 DEF ToolRows
<1>4. Become(r, t) = [id |-> r.id, name |-> r.name, server |-> r.server, enabled |-> value]
  BY DEF Become
<1>5. \A p \in t.put : p.id = r.id => value = chosen.enabled /\ chosen \in t.put /\ chosen.id = r.id
  BY <1>2 DEF Put
<1>6. (\A p \in t.put : p.id = r.id => p.enabled = r.enabled) => value = r.enabled
  BY <1>2
<1> HIDE DEF value, chosen
<1>7. Become(r, t) \in ToolRows
  BY <1>1, <1>3, <1>4 DEF ToolRows
<1>8. value = r.enabled => Become(r, t) = r
  BY <1>1, <1>4 DEF ToolRows
<1> QED BY <1>4, <1>5, <1>6, <1>7, <1>8

LEMMA WrittenRows ==
  ASSUME ToolTypes, NEW t \in Syncs
  PROVE  Tools!Written(t) = {Become(r, t) : r \in Kept(t)} \cup t.add
<1> DEFINE value(r) == IF \E p \in t.put : p.id = r.id THEN CHOOSE p \in t.put : p.id = r.id ELSE r
<1>1. \A r \in Kept(t) : [r EXCEPT !.enabled = value(r).enabled] = Become(r, t)
  <2> SUFFICES ASSUME NEW r \in Kept(t) PROVE [r EXCEPT !.enabled = value(r).enabled] = Become(r, t)
    OBVIOUS
  <2>1. r \in ToolRows
    BY DEF Kept, ToolTypes
  <2>2. Become(r, t) = [id |-> r.id, name |-> r.name, server |-> r.server, enabled |-> value(r).enabled]
    BY DEF Become, Put
  <2>3. PICK v : v = value(r).enabled
    OBVIOUS
  <2>4. PICK q : q = [r EXCEPT !.enabled = v]
    OBVIOUS
  <2>5. q = [id |-> r.id, name |-> r.name, server |-> r.server, enabled |-> v]
    BY <2>1, <2>4 DEF ToolRows
  <2> QED BY <2>2, <2>3, <2>4, <2>5
<1>2. Tools!Written(t) = {[r EXCEPT !.enabled = value(r).enabled] : r \in Kept(t)} \cup t.add
  BY DEF Tools!Written, Kept
<1> HIDE DEF value
<1> QED BY <1>1, <1>2

LEMMA ToolsCommit ==
  ASSUME ToolInv, NEW c \in Calls, Tools!Commit(c)
  PROVE  ToolInv'
<1> USE DEF ToolInv
<1> DEFINE t == toolTx[c]
<1>1. /\ t.kind \in {"writing", "session"}
      /\ toolRows' = Tools!Written(t)
      /\ off' = (off \cup {p.id : p \in {q \in t.put : ~q.enabled}}) \ {p.id : p \in {q \in t.put : q.enabled}}
      /\ overlap' = (overlap \/ (t.behind /\ t.add # {}))
      /\ toolTx' = [d \in Calls |->
           IF d = c THEN Tools!Closed
           ELSE [toolTx[d] EXCEPT !.behind = @ \/ (toolTx[d].kind \in {"writing", "session"} /\ t.add # {})]]
      /\ UNCHANGED <<natives, servers, listed, drawn, owners>>
  BY DEF Tools!Commit
<1>2. t \in Syncs /\ SyncWhole(t) /\ drawn \in Nat
  BY DEF ToolTypes
<1>3. toolRows' = {Become(r, t) : r \in Kept(t)} \cup t.add
  BY <1>1, <1>2, WrittenRows
<1>4. /\ toolTx'[c] = Tools!Closed
      /\ Tools!Closed \in Syncs /\ Tools!Closed.add = {} /\ Tools!Closed.put = {} /\ Tools!Closed.kind = "none"
  BY <1>1 DEF Tools!Closed, Syncs
<1>5. ASSUME NEW d \in Calls \ {c}
      PROVE  /\ toolTx'[d] \in Syncs
             /\ toolTx'[d].kind = toolTx[d].kind /\ toolTx'[d].server = toolTx[d].server
             /\ toolTx'[d].prefix = toolTx[d].prefix
             /\ toolTx'[d].add = toolTx[d].add /\ toolTx'[d].put = toolTx[d].put
             /\ toolTx'[d].del = toolTx[d].del
             /\ ~toolTx'[d].behind => ~toolTx[d].behind /\ (toolTx[d].add = {} \/ t.add = {})
  <2> DEFINE later == toolTx[d].behind \/ (toolTx[d].kind \in {"writing", "session"} /\ t.add # {})
  <2>1. toolTx'[d] = [toolTx[d] EXCEPT !.behind = later]
    BY <1>1
  <2>2. toolTx[d] \in Syncs /\ SyncWhole(toolTx[d])
    BY DEF ToolTypes
  <2>3. later \in BOOLEAN
    BY <2>2 DEF Syncs
  <2>4. ~later => ~toolTx[d].behind /\ (toolTx[d].add = {} \/ t.add = {})
    BY <2>2 DEF SyncWhole
  <2> HIDE DEF later
  <2>5. toolTx'[d].behind = later
    BY <2>1, <2>2 DEF Syncs
  <2>6. toolTx'[d] \in Syncs
    BY <2>1, <2>2, <2>3 DEF Syncs
  <2>7. /\ toolTx'[d].kind = toolTx[d].kind /\ toolTx'[d].server = toolTx[d].server
        /\ toolTx'[d].prefix = toolTx[d].prefix
        /\ toolTx'[d].add = toolTx[d].add /\ toolTx'[d].put = toolTx[d].put
        /\ toolTx'[d].del = toolTx[d].del
    BY <2>1, <2>2 DEF Syncs
  <2> QED BY <2>4, <2>5, <2>6, <2>7
<1>6. \A r \in toolRows : /\ Become(r, t) \in ToolRows
                          /\ Become(r, t).id = r.id /\ Become(r, t).name = r.name
                          /\ Become(r, t).server = r.server
  BY <1>2, BecomesARow
<1>7. \A q \in toolRows' : \/ q \in t.add
                           \/ \E r \in Kept(t) : q = Become(r, t) /\ r \in toolRows
  BY <1>3 DEF Kept
<1>8. \A q \in toolRows' : q \in ToolRows
  BY <1>2, <1>6, <1>7 DEF Syncs
<1>9. off' \in SUBSET Nat /\ \A i \in off' : i \in off \/ \E p \in t.put : p.id = i /\ ~p.enabled
  <2>1. \A p \in t.put : p.id \in Nat
    BY <1>2 DEF Syncs
  <2> QED BY <1>1, <2>1 DEF ToolTypes
<1>10. ToolTypes'
  <2>1. toolTx' \in [Calls -> Syncs]
    BY <1>1, <1>4, <1>5
  <2> QED BY <1>1, <1>8, <1>9, <2>1 DEF ToolTypes
<1>11. FewOfEach'
  <2> DEFINE f == [r \in Kept(t) |-> Become(r, t)]
             W == {Become(r, t) : r \in Kept(t)}
  <2>1. f \in Surjection(Kept(t), W)
    BY DEF Surjection
  <2>2. IsFiniteSet(Kept(t))
    BY FS_Subset DEF Kept, FewOfEach
  <2>3. IsFiniteSet(W)
    BY <2>1, <2>2, FS_Surjection
  <2>4. IsFiniteSet(toolRows')
    BY <1>3, <2>3, FS_Union DEF FewOfEach
  <2>5. \A d \in Calls : IsFiniteSet(toolTx'[d].add)
    BY <1>4, <1>5, FS_EmptySet DEF FewOfEach
  <2> QED BY <1>1, <2>4, <2>5 DEF FewOfEach
<1>12. NamesOwned'
  <2>1. \A q \in toolRows' : WellNamed(q)
    BY <1>6, <1>7 DEF NamesOwned, WellNamed
  <2> QED BY <1>1, <1>4, <1>5, <2>1 DEF NamesOwned, OfServer, WellNamed
<1>13. \A q \in toolRows' : \E r \in toolRows \cup t.add : q.id = r.id /\ q.name = r.name
  BY <1>6, <1>7
<1>14. IdsApart'
  <2>1. \A q \in toolRows' : q.id <= drawn
    BY <1>13 DEF IdsApart, Fresh
  <2>2. \A i \in off' : i <= drawn
    BY <1>9 DEF IdsApart
  <2>3. \A d \in Calls : \A p \in toolTx'[d].put : p.id <= drawn
    BY <1>4, <1>5 DEF IdsApart
  <2>4. ASSUME NEW d \in Calls \ {c}, NEW r \in toolTx[d].add PROVE Fresh(d, r)'
    <3>1. Fresh(d, r)
      BY DEF IdsApart
    <3>2. r.id \notin off'
      BY <1>9, <3>1 DEF Fresh
    <3>3. \A q \in toolRows' : q.id # r.id
      BY <1>13, <3>1 DEF Fresh
    <3>4. \A x \in Calls : \A p \in toolTx'[x].put : p.id # r.id
      BY <1>4, <1>5, <3>1 DEF Fresh
    <3>5. \A x \in Calls \ {d} : \A q \in toolTx'[x].add : q.id # r.id
      BY <1>4, <1>5, <3>1 DEF Fresh
    <3> QED BY <1>1, <3>1, <3>2, <3>3, <3>4, <3>5 DEF Fresh
  <2> QED BY <1>1, <1>4, <1>5, <2>1, <2>2, <2>3, <2>4 DEF IdsApart
<1>15. OffMeansOff'
  <2> SUFFICES ASSUME NEW q \in toolRows', q.id \in off' PROVE ~q.enabled
    BY DEF OffMeansOff
  <2>1. CASE q \in t.add
    BY <1>9, <2>1 DEF IdsApart, Fresh
  <2>2. ASSUME NEW r \in Kept(t), r \in toolRows, q = Become(r, t) PROVE ~q.enabled
    <3>1. q.id = r.id
      BY <1>6, <2>2
    <3>2. CASE \E p \in t.put : p.id = r.id
      <4>1. PICK p \in t.put : p.id = r.id /\ q.enabled = p.enabled
        BY <1>2, <2>2, <3>2, BecomesARow
      <4> QED BY <1>1, <3>1, <4>1
    <3>3. CASE \A p \in t.put : p.id # r.id
      <4>1. q = r
        BY <1>2, <2>2, <3>3, BecomesARow
      <4>2. r.id \in off
        BY <1>9, <3>1, <3>3
      <4> QED BY <2>2, <4>1, <4>2 DEF OffMeansOff
    <3> QED BY <3>2, <3>3
  <2> QED BY <1>7, <2>1, <2>2
<1>16. \A d \in Calls : SyncWhole(toolTx'[d])
  <2>1. SyncWhole(Tools!Closed)
    BY <1>4 DEF SyncWhole, NamesApart
  <2>2. ASSUME NEW d \in Calls \ {c} PROVE SyncWhole(toolTx'[d])
    BY <1>5 DEF SyncWhole
  <2> QED BY <1>4, <2>1, <2>2
<1>17. ASSUME Clean' PROVE RowsApart'
  <2>1. Clean /\ (t.add = {} \/ ~t.behind)
    BY <1>1, <1>17 DEF Clean, OneOwner
  <2>2. \A r \in t.add, q \in toolRows : r.name # q.name
    BY <2>1 DEF RowsApart
  <2>3. NamesApart(toolRows')
    <3> SUFFICES ASSUME NEW x \in toolRows', NEW y \in toolRows', x.name = y.name PROVE x = y
      BY DEF NamesApart
    <3>1. CASE x \in t.add /\ y \in t.add
      BY <1>2, <3>1 DEF SyncWhole, NamesApart
    <3>2. ASSUME NEW r \in toolRows, x = Become(r, t), y \in t.add PROVE FALSE
      BY <1>6, <2>2, <3>2
    <3>3. ASSUME NEW r \in toolRows, y = Become(r, t), x \in t.add PROVE FALSE
      BY <1>6, <2>2, <3>3
    <3>4. ASSUME NEW r \in toolRows, NEW q \in toolRows, x = Become(r, t), y = Become(q, t) PROVE x = y
      <4>1. r.name = q.name
        BY <1>6, <3>4
      <4> QED BY <2>1, <3>4, <4>1 DEF RowsApart, NamesApart
    <3> QED BY <1>7, <3>1, <3>2, <3>3, <3>4
  <2>4. ASSUME NEW d \in Calls \ {c}, ~toolTx'[d].behind, NEW r \in toolTx[d].add, NEW q \in toolRows'
        PROVE  r.name # q.name
    <3>1. ~toolTx[d].behind /\ t.add = {}
      BY <1>5, <2>4
    <3>2. PICK y \in toolRows : q.name = y.name
      BY <1>13, <3>1
    <3> QED BY <2>1, <3>1, <3>2 DEF RowsApart
  <2> QED BY <1>4, <1>5, <2>3, <2>4 DEF RowsApart
<1> QED BY <1>10, <1>11, <1>12, <1>14, <1>15, <1>16, <1>17

\* What happens to servers takes names from no row.
LEMMA ToolsOfServers ==
  ASSUME ToolInv, NEW s \in Things,
         (\E p \in ServerNames : Tools!NameServer(s, p)) \/ Tools!DeleteServer(s) \/ Tools!Relist(s)
  PROVE  ToolInv'
<1> USE DEF ToolInv
<1>1. ASSUME NEW p \in ServerNames, Tools!NameServer(s, p) PROVE ToolInv'
  <2>1. /\ servers' = [servers EXCEPT ![s] = [there |-> TRUE, prefix |-> p]]
        /\ owners' = [owners EXCEPT ![p] = @ \cup {s}]
        /\ UNCHANGED <<natives, toolRows, listed, toolTx, drawn, overlap, off>>
    BY <1>1 DEF Tools!NameServer
  <2>2. ToolTypes'
    BY <2>1 DEF ToolTypes
  <2>3. \A x \in ServerNames : owners[x] \subseteq owners'[x]
    BY <2>1 DEF ToolTypes
  <2>4. FewOfEach'
    <3>1. \A x \in ServerNames : IsFiniteSet(owners'[x])
      BY <2>1, FS_AddElement DEF ToolTypes, FewOfEach
    <3> QED BY <2>1, <3>1 DEF FewOfEach
  <2>5. \A x \in Things : servers'[x].there =>
          servers'[x].prefix \in ServerNames /\ x \in owners'[servers'[x].prefix]
    <3> SUFFICES ASSUME NEW x \in Things, servers'[x].there
                 PROVE  servers'[x].prefix \in ServerNames /\ x \in owners'[servers'[x].prefix]
      OBVIOUS
    <3>1. CASE x = s
      <4>1. servers'[s].prefix = p /\ s \in owners'[p]
        BY <2>1 DEF ToolTypes
      <4> QED BY <3>1, <4>1
    <3>2. CASE x # s
      <4>1. servers'[x] = servers[x]
        BY <2>1, <3>2 DEF ToolTypes
      <4>2. OfServer(x, servers[x].prefix)
        BY <4>1 DEF NamesOwned
      <4> QED BY <2>3, <4>1, <4>2 DEF OfServer
    <3> QED BY <3>1, <3>2
  <2>6. NamesOwned'
    <3>1. \A r \in toolRows' : WellNamed(r)'
      BY <2>1, <2>3 DEF NamesOwned, WellNamed, OfServer
    <3>2. \A d \in Calls : \A r \in toolTx'[d].add : WellNamed(r)'
      BY <2>1, <2>3 DEF NamesOwned, WellNamed, OfServer
    <3>3. \A d \in Calls : toolTx'[d].kind = "discovering" =>
            OfServer(toolTx[d].server, toolTx[d].prefix)
      BY <2>1 DEF NamesOwned
    <3> QED BY <2>1, <2>3, <2>5, <3>1, <3>2, <3>3 DEF NamesOwned, OfServer
  <2>7. IdsApart' /\ OffMeansOff' /\ \A d \in Calls : SyncWhole(toolTx'[d])
    BY <2>1 DEF IdsApart, Fresh, OffMeansOff
  <2>8. Clean' => Clean
    BY <2>1, <2>3 DEF Clean, OneOwner
  <2> QED BY <2>1, <2>2, <2>4, <2>6, <2>7, <2>8 DEF RowsApart
<1>2. CASE Tools!DeleteServer(s)
  <2>1. /\ servers' = [servers EXCEPT ![s].there = FALSE]
        /\ toolRows' = {r \in toolRows : r.server # s}
        /\ UNCHANGED <<natives, listed, toolTx, drawn, owners, overlap, off>>
    BY <1>2 DEF Tools!DeleteServer
  <2>2. ToolTypes'
    BY <2>1 DEF ToolTypes
  <2>3. FewOfEach'
    BY <2>1, FS_Subset DEF FewOfEach
  <2>4. NamesOwned'
    BY <2>1 DEF NamesOwned, OfServer, WellNamed, ToolTypes
  <2>5. IdsApart' /\ OffMeansOff' /\ \A d \in Calls : SyncWhole(toolTx'[d])
    BY <2>1 DEF IdsApart, Fresh, OffMeansOff
  <2>6. Clean' => RowsApart'
    BY <2>1 DEF Clean, OneOwner, RowsApart, NamesApart
  <2> QED BY <2>2, <2>3, <2>4, <2>5, <2>6
<1>3. CASE Tools!Relist(s)
  <2>1. /\ listed' \in [Things -> SUBSET Offers]
        /\ UNCHANGED <<natives, toolRows, servers, toolTx, drawn, owners, overlap, off>>
    BY <1>3 DEF Tools!Relist
  <2> QED
    BY <2>1 DEF ToolTypes, FewOfEach, NamesOwned, OfServer, WellNamed, IdsApart, Fresh, OffMeansOff, Clean,
                OneOwner, RowsApart, NamesApart
<1> QED BY <1>1, <1>2, <1>3

LEMMA ToolsDeploy == ASSUME ToolInv, Tools!Deploy PROVE ToolInv'
<1> USE DEF ToolInv
<1>1. /\ \E raw \in Natives \ natives : natives' = natives \cup {raw}
      /\ toolTx' = [d \in Calls |-> Tools!Closed]
      /\ UNCHANGED <<toolRows, servers, listed, drawn, owners, overlap, off>>
  BY DEF Tools!Deploy
<1>2. Tools!Closed \in Syncs /\ Tools!Closed.add = {} /\ Tools!Closed.put = {} /\ Tools!Closed.kind = "none"
  BY DEF Tools!Closed, Syncs
<1>3. ToolTypes'
  BY <1>1, <1>2 DEF ToolTypes
<1>4. FewOfEach'
  BY <1>1, <1>2, FS_AddElement, FS_EmptySet DEF FewOfEach
<1> QED
  BY <1>1, <1>2, <1>3, <1>4
  DEF NamesOwned, OfServer, WellNamed, IdsApart, Fresh, OffMeansOff, SyncWhole, NamesApart, Clean, OneOwner,
      RowsApart

LEMMA ToolsStep == ToolInv /\ [Tools!Next]_toolVars => ToolInv'
<1> SUFFICES ASSUME ToolInv, [Tools!Next]_toolVars PROVE ToolInv'
  OBVIOUS
<1>1. CASE UNCHANGED toolVars
  BY <1>1
  DEF toolVars, ToolInv, ToolTypes, FewOfEach, NamesOwned, OfServer, WellNamed, IdsApart, Fresh, OffMeansOff,
      Clean, OneOwner, RowsApart, NamesApart
<1> QED
  BY <1>1, ToolsEnsure, ToolsSave, ToolsDiscover, ToolsSync, ToolsCommit, ToolsRollback, ToolsOfServers,
     ToolsDeploy
  DEF Tools!Next

\* Two rows of one name have a cause: transactions that overlapped, or a prefix that two servers
\* have had.
THEOREM DuplicatesSafe == Tools!Spec => []DuplicatesHaveACause
<1>1. ToolInv => DuplicatesHaveACause
  <2> SUFFICES ASSUME ToolInv, ~overlap, \A p \in ServerNames : ~(Cardinality(owners[p]) > 1)
               PROVE  Cardinality(Tools!NamesIn(toolRows)) = Cardinality(toolRows)
    BY DEF DuplicatesHaveACause, Tools!DuplicatesHaveACause, Tools!Cardinality, Cardinality
  <2>1. ASSUME NEW p \in ServerNames, NEW s \in owners[p], NEW u \in owners[p], s # u PROVE FALSE
    <3>1. IsFiniteSet({s, u}) /\ Cardinality({s, u}) = 2
      <4>1. IsFiniteSet({s}) /\ Cardinality({s}) = 1
        BY FS_Singleton
      <4>2. {s, u} = {s} \cup {u} /\ u \notin {s}
        BY <2>1
      <4>3. IsFiniteSet({s} \cup {u}) /\ Cardinality({s} \cup {u}) = Cardinality({s}) + 1
        BY <4>1, <4>2, FS_AddElement
      <4> QED BY <4>1, <4>2, <4>3
    <3>2. IsFiniteSet(owners[p]) /\ Cardinality(owners[p]) \in Nat
      BY FS_CardinalityType DEF ToolInv, FewOfEach
    <3>3. Cardinality({s, u}) <= Cardinality(owners[p])
      BY <3>2, FS_Subset
    <3> QED BY <3>1, <3>2, <3>3
  <2>2. RowsApart
    BY <2>1 DEF ToolInv, Clean, OneOwner
  <2> QED BY <2>2, NamesCount DEF ToolInv, FewOfEach, RowsApart
<1> QED BY <1>1, ToolsStart, ToolsStep, PTL DEF Tools!Spec, Tools!vars, toolVars

\* A tool that a user has switched off stays off, however often its server is discovered and
\* synchronised, as long as it is there.
THEOREM SwitchedOffSafe == Tools!Spec => SwitchedOffStaysOff
<1> DEFINE stays ==
      \A r \in toolRows : r.id \in off /\ r.id \in off' /\ r.server # none =>
        \/ \E q \in toolRows' : q = r
        \/ ~\E q \in toolRows' : q.name = r.name /\ q.server = r.server
<1>1. ASSUME ToolInv, [Tools!Next]_toolVars PROVE stays
  <2> SUFFICES ASSUME NEW r \in toolRows, r.id \in off, r.id \in off', r.server # none, r \notin toolRows'
               PROVE  ~\E q \in toolRows' : q.name = r.name /\ q.server = r.server
    OBVIOUS
  <2>1. ASSUME NEW c \in Calls, Tools!Commit(c) PROVE ~\E q \in toolRows' : q.name = r.name /\ q.server = r.server
    <3> DEFINE t == toolTx[c]
    <3>1. /\ toolRows' = Tools!Written(t)
          /\ off' = (off \cup {p.id : p \in {q \in t.put : ~q.enabled}})
                    \ {p.id : p \in {q \in t.put : q.enabled}}
      BY <2>1 DEF Tools!Commit
    <3>2. ToolTypes /\ t \in Syncs /\ SyncWhole(t)
      BY <1>1 DEF ToolInv, ToolTypes
    <3>3. toolRows' = {Become(x, t) : x \in Kept(t)} \cup t.add
      BY <3>1, <3>2, WrittenRows
    <3>4. Become(r, t) = r
      <4>1. ~r.enabled /\ r.enabled \in BOOLEAN
        BY <1>1, <3>2 DEF ToolInv, OffMeansOff, ToolTypes, ToolRows
      <4>2. \A p \in t.put : p.id = r.id => ~p.enabled /\ p.enabled \in BOOLEAN
        BY <3>1, <3>2 DEF Syncs
      <4> QED BY <3>2, <4>1, <4>2, BecomesARow
    <3>5. r.server = t.server /\ r.name \in t.del
      BY <3>3, <3>4 DEF Kept
    <3>6. \A x \in Kept(t) : ~(Become(x, t).name = r.name /\ Become(x, t).server = r.server)
      BY <3>2, <3>5, BecomesARow DEF Kept
    <3>7. \A x \in t.add : x.name # r.name
      BY <3>2, <3>5 DEF SyncWhole
    <3> QED BY <3>3, <3>6, <3>7
  <2>2. ASSUME NEW s \in Things, Tools!DeleteServer(s)
        PROVE  ~\E q \in toolRows' : q.name = r.name /\ q.server = r.server
    BY <2>2 DEF Tools!DeleteServer
  <2>3. CASE UNCHANGED toolRows
    BY <2>3
  <2> QED
    BY <1>1, <2>1, <2>2, <2>3
    DEF Tools!Next, toolVars, Tools!Ensure, Tools!Save, Tools!Discover, Tools!Sync, Tools!Rollback,
        Tools!NameServer, Tools!Relist, Tools!Deploy
<1> QED
  BY <1>1, ToolsStart, ToolsStep, PTL
  DEF Tools!Spec, Tools!vars, toolVars, SwitchedOffStaysOff, Tools!SwitchedOffStaysOff

-----------------------------------------------------------------------------
(*****************************************************************************)
(* Board                                                                     *)
(*****************************************************************************)
BoardEvents == [event : {"task_created", "task_update"}, task : BoardTasks, row : Nat]
BoardAnswers == [call : Calls \cup {NoCall}, op : {"create", "update", "delete"}, task : BoardTasks, row : Nat]
BoardWriters ==
  [by : {"nobody", "browser", "client", "session"}, locks : SUBSET BoardTasks,
   news : {Screen!NoNews} \cup [task : BoardTasks, row : Nat], over : BOOLEAN]
BoardTypes ==
  /\ boardRow \in [BoardTasks -> Nat] /\ boardWork \in [BoardTasks -> Nat] /\ board \in [BoardTasks -> Nat]
  /\ boardTx \in [Calls -> BoardWriters] /\ boardUsed \in SUBSET BoardTasks
  /\ fetch \in [pc : {"asked", "read", "none"}, rows : [BoardTasks -> Nat]]
  /\ wire \in Seq(BoardEvents) /\ replies \in SUBSET BoardAnswers
  /\ astray \in SUBSET BoardTasks /\ writes \in Nat

\* A row is what is committed unless it is locked, and one transaction has it locked.
RowsHeld ==
  /\ \A t \in BoardTasks : boardWork[t] # boardRow[t] => \E c \in Calls : t \in boardTx[c].locks
  /\ \A c, d \in Calls : c # d => boardTx[c].locks \cap boardTx[d].locks = {}

\* Of a task that is not made yet nothing is known anywhere.
NotYetMade ==
  \A t \in BoardTasks \ boardUsed :
    /\ boardRow[t] = 0 /\ boardWork[t] = 0 /\ board[t] = 0 /\ fetch.rows[t] = 0
    /\ \A i \in DOMAIN wire : wire[i].task # t
    /\ \A r \in replies : r.task # t
    /\ \A c \in Calls : t \notin boardTx[c].locks /\ (boardTx[c].news # Screen!NoNews => boardTx[c].news.task # t)

\* As long as the event of its creation is the last one under way, a task has nowhere another
\* version; it is the first event of the task.
LastOf(i) == \A j \in DOMAIN wire : j > i => wire[j].task # wire[i].task
JustMade(t, v) ==
  /\ boardRow[t] \in {0, v} /\ boardWork[t] \in {0, v} /\ board[t] \in {0, v} /\ fetch.rows[t] \in {0, v}
  /\ \A r \in replies : r.task = t => r.row \in {0, v}
Newborn ==
  \A i \in DOMAIN wire : wire[i].event = "task_created" =>
    /\ \A j \in DOMAIN wire : j < i => wire[j].task # wire[i].task
    /\ LastOf(i) => JustMade(wire[i].task, wire[i].row)

\* The last event under way tells the version there is; with none the board shows it, once the
\* fetch is over.
Told ==
  \A t \in BoardTasks \ astray :
    /\ \A i \in DOMAIN wire : wire[i].task = t /\ LastOf(i) => wire[i].row = boardWork[t]
    /\ fetch.pc = "none" /\ (\A i \in DOMAIN wire : wire[i].task # t) => board[t] = boardWork[t]

BoardInv ==
  /\ BoardTypes /\ RowsHeld /\ NotYetMade /\ Newborn /\ Told /\ (~online => wire = <<>>)

LEMMA BoardStarts == Screen!Init => BoardInv
<1> SUFFICES ASSUME Screen!Init PROVE BoardInv
  OBVIOUS
<1>1. /\ boardRow \in [BoardTasks -> {0, 1}] /\ boardWork = boardRow
      /\ boardUsed = {t \in BoardTasks : boardRow[t] # 0}
      /\ boardTx = [c \in Calls |-> Screen!Closed]
      /\ board = [t \in BoardTasks |-> 0] /\ fetch = [pc |-> "asked", rows |-> [t \in BoardTasks |-> 0]]
      /\ online = FALSE /\ wire = <<>> /\ replies = {} /\ astray = {} /\ writes = 1
  BY DEF Screen!Init, Screen!Nothing
<1>2. Screen!Closed \in BoardWriters /\ Screen!Closed.locks = {} /\ Screen!Closed.news = Screen!NoNews
  BY DEF Screen!Closed, BoardWriters
<1>3. BoardTypes
  BY <1>1, <1>2 DEF BoardTypes
<1> QED BY <1>1, <1>2, <1>3 DEF BoardInv, RowsHeld, NotYetMade, Newborn, Told

\* What is in the wire after the first event is handled, and after one is sent.
LEMMA WireTail ==
  ASSUME wire \in Seq(BoardEvents), wire # <<>>, wire' = Tail(wire)
  PROVE  /\ Head(wire) = wire[1] /\ 1 \in DOMAIN wire /\ wire' \in Seq(BoardEvents)
         /\ \A i \in DOMAIN wire :
              i \in Nat /\ wire[i] \in BoardEvents /\ (i # 1 => i > 1 /\ i - 1 \in DOMAIN wire' /\ wire'[i - 1] = wire[i])
         /\ \A i \in DOMAIN wire' : i \in Nat /\ i + 1 \in DOMAIN wire /\ wire'[i] = wire[i + 1]
  OBVIOUS

LEMMA WireAppend ==
  ASSUME wire \in Seq(BoardEvents), NEW e \in BoardEvents, wire' = Append(wire, e)
  PROVE  /\ wire' \in Seq(BoardEvents) /\ Len(wire) \in Nat
         /\ Len(wire) + 1 \in DOMAIN wire' /\ wire'[Len(wire) + 1] = e
         /\ \A i \in DOMAIN wire : i \in Nat /\ i < Len(wire) + 1 /\ i \in DOMAIN wire' /\ wire'[i] = wire[i]
         /\ \A i \in DOMAIN wire' : i \in Nat /\ (i = Len(wire) + 1 \/ i \in DOMAIN wire)
  OBVIOUS

LEMMA WireTyped ==
  ASSUME BoardTypes
  PROVE  \A i \in DOMAIN wire :
           i \in Nat /\ wire[i] \in BoardEvents /\ wire[i].task \in BoardTasks /\ wire[i].row \in Nat
<1>1. wire \in Seq(BoardEvents)
  BY DEF BoardTypes
<1>2. \A i \in DOMAIN wire : i \in Nat /\ wire[i] \in BoardEvents
  BY <1>1
<1> QED BY <1>2 DEF BoardEvents

\* The browser

LEMMA BoardHandlesEvent == ASSUME BoardInv, Screen!HandleEvent PROVE BoardInv'
<1> USE DEF BoardInv
<1> DEFINE e == Head(wire)
<1>1. /\ wire # <<>> /\ wire' = Tail(wire)
      /\ board' = IF e.event = "task_created" THEN Screen!Added(board, e.task, e.row)
                                              ELSE Screen!Replaced(board, e.task, e.row)
      /\ UNCHANGED <<boardRow, boardWork, boardTx, boardUsed, online, fetch, replies, astray, writes>>
  BY DEF Screen!HandleEvent, Screen!table
<1>2. wire \in Seq(BoardEvents)
  BY DEF BoardTypes
<1>3. /\ e = wire[1] /\ 1 \in DOMAIN wire /\ wire' \in Seq(BoardEvents) /\ e \in BoardEvents
      /\ \A i \in DOMAIN wire :
              i \in Nat /\ wire[i] \in BoardEvents /\ (i # 1 => i > 1 /\ i - 1 \in DOMAIN wire' /\ wire'[i - 1] = wire[i])
      /\ \A i \in DOMAIN wire' : i \in Nat /\ i + 1 \in DOMAIN wire /\ wire'[i] = wire[i + 1]
  BY <1>1, <1>2, WireTail
<1>4. /\ e.task \in BoardTasks /\ e.row \in Nat /\ board' \in [BoardTasks -> Nat]
      /\ \A t \in BoardTasks : t # e.task => board'[t] = board[t]
      /\ board'[e.task] = e.row \/ (e.event = "task_created" /\ board'[e.task] = board[e.task] /\ board[e.task] # 0)
  BY <1>1, <1>3 DEF Screen!Added, Screen!Replaced, BoardEvents, BoardTypes
<1>5. BoardTypes' /\ RowsHeld'
  BY <1>1, <1>3, <1>4 DEF BoardTypes, RowsHeld
<1>6. e.task \in boardUsed
  BY <1>3, <1>4 DEF NotYetMade
<1>7. NotYetMade'
  <2> SUFFICES ASSUME NEW u \in BoardTasks \ boardUsed'
               PROVE  /\ boardRow'[u] = 0 /\ boardWork'[u] = 0 /\ board'[u] = 0 /\ fetch'.rows[u] = 0
                      /\ \A i \in DOMAIN wire' : wire'[i].task # u
                      /\ \A r \in replies' : r.task # u
                      /\ \A d \in Calls : /\ u \notin boardTx'[d].locks
                                          /\ boardTx'[d].news # Screen!NoNews => boardTx'[d].news.task # u
    BY DEF NotYetMade
  <2>1. u \in BoardTasks \ boardUsed /\ u # e.task
    BY <1>1, <1>6
  <2>2. /\ boardRow'[u] = 0 /\ boardWork'[u] = 0 /\ board'[u] = 0 /\ fetch'.rows[u] = 0
    BY <1>1, <1>4, <2>1 DEF NotYetMade
  <2>3. \A i \in DOMAIN wire' : wire'[i].task # u
    BY <1>3, <2>1 DEF NotYetMade
  <2>4. \A r \in replies' : r.task # u
    BY <1>1, <2>1 DEF NotYetMade
  <2>5. \A d \in Calls : /\ u \notin boardTx'[d].locks
                         /\ boardTx'[d].news # Screen!NoNews => boardTx'[d].news.task # u
    BY <1>1, <2>1 DEF NotYetMade
  <2> QED BY <2>2, <2>3, <2>4, <2>5
<1>8. \A i \in DOMAIN wire' : LastOf(i)' => LastOf(i + 1)
  <2> SUFFICES ASSUME NEW i \in DOMAIN wire', LastOf(i)', NEW j \in DOMAIN wire, j > i + 1
               PROVE  wire[j].task # wire[i + 1].task
    BY DEF LastOf
  <2>1. i \in Nat /\ j \in Nat /\ j # 1 /\ j - 1 > i
    BY <1>3
  <2>2. j - 1 \in DOMAIN wire' /\ wire'[j - 1] = wire[j] /\ wire'[i] = wire[i + 1]
    BY <1>3, <2>1
  <2> QED BY <2>1, <2>2 DEF LastOf
<1>9. Newborn'
  <2> SUFFICES ASSUME NEW i \in DOMAIN wire', wire'[i].event = "task_created"
               PROVE  /\ \A j \in DOMAIN wire' : j < i => wire'[j].task # wire'[i].task
                      /\ LastOf(i)' => JustMade(wire[i].task, wire[i].row)'
    BY DEF Newborn
  <2>1. i + 1 \in DOMAIN wire /\ wire'[i] = wire[i + 1] /\ i + 1 > 1
    BY <1>3
  <2>2. \A j \in DOMAIN wire : j < i + 1 => wire[j].task # wire[i + 1].task
    BY <2>1 DEF Newborn
  <2>3. \A j \in DOMAIN wire' : j < i => wire'[j].task # wire'[i].task
    <3> SUFFICES ASSUME NEW j \in DOMAIN wire', j < i PROVE wire'[j].task # wire'[i].task
      OBVIOUS
    <3>1. j \in Nat /\ j + 1 \in DOMAIN wire /\ wire'[j] = wire[j + 1] /\ j + 1 < i + 1
      BY <1>3
    <3> QED BY <2>1, <2>2, <3>1
  <2>4. e.task # wire[i + 1].task /\ wire[i + 1].task \in BoardTasks
    BY <1>3, <2>1, <2>2 DEF BoardEvents
  <2>5. LastOf(i)' => JustMade(wire[i].task, wire[i].row)'
    <3> SUFFICES ASSUME LastOf(i)' PROVE JustMade(wire[i].task, wire[i].row)'
      OBVIOUS
    <3>1. JustMade(wire[i + 1].task, wire[i + 1].row)
      BY <1>8, <2>1 DEF Newborn
    <3> QED BY <1>1, <1>4, <2>1, <2>4, <3>1 DEF JustMade
  <2> QED BY <2>3, <2>5
<1>10. Told'
  <2> SUFFICES ASSUME NEW t \in BoardTasks \ astray
               PROVE  /\ \A i \in DOMAIN wire' : wire'[i].task = t /\ LastOf(i)' => wire'[i].row = boardWork[t]
                      /\ fetch.pc = "none" /\ (\A i \in DOMAIN wire' : wire'[i].task # t) => board'[t] = boardWork[t]
    BY <1>1 DEF Told
  <2>1. \A i \in DOMAIN wire' : wire'[i].task = t /\ LastOf(i)' => wire'[i].row = boardWork[t]
    BY <1>3, <1>8 DEF Told
  <2>2. ASSUME fetch.pc = "none", \A i \in DOMAIN wire' : wire'[i].task # t PROVE board'[t] = boardWork[t]
    <3>1. CASE t # e.task
      <4>1. \A i \in DOMAIN wire : wire[i].task # t
        BY <1>3, <2>2, <3>1
      <4> QED BY <1>4, <2>2, <3>1, <4>1 DEF Told
    <3>2. CASE t = e.task
      <4>1. LastOf(1)
        BY <1>3, <2>2, <3>2 DEF LastOf
      <4>2. e.row = boardWork[t]
        BY <1>3, <3>2, <4>1 DEF Told
      <4>3. e.event = "task_created" => board[t] \in {0, e.row}
        BY <1>3, <3>2, <4>1 DEF Newborn, JustMade
      <4> QED BY <1>4, <3>2, <4>2, <4>3
    <3> QED BY <3>1, <3>2
  <2> QED BY <2>1, <2>2
<1>11. ~online' => wire' = <<>>
  BY <1>1
<1> QED BY <1>5, <1>7, <1>9, <1>10, <1>11

LEMMA BoardHandlesReply == ASSUME BoardInv, Screen!HandleReply PROVE BoardInv'
<1> USE DEF BoardInv
<1>1. PICK r \in replies :
        /\ board' = CASE r.op = "create" -> Screen!Added(board, r.task, r.row)
                      [] r.op = "update" -> Screen!Replaced(board, r.task, r.row)
                      [] r.op = "delete" -> Screen!Replaced(board, r.task, 0)
        /\ replies' = replies \ {r}
        /\ astray' = (astray \ {r.task}) \cup ({r.task} \cap Screen!Missed(board'))
                     \cup (IF r.op = "delete" THEN {r.task} ELSE {})
        /\ UNCHANGED <<boardRow, boardWork, boardTx, boardUsed, online, wire, fetch, writes>>
  BY DEF Screen!HandleReply, Screen!table
<1>2. r \in BoardAnswers /\ r.task \in BoardTasks /\ r.row \in Nat /\ r.op \in {"create", "update", "delete"}
  BY DEF BoardTypes, BoardAnswers
<1>3. /\ board' \in [BoardTasks -> Nat]
      /\ \A t \in BoardTasks : t # r.task => board'[t] = board[t]
      /\ board'[r.task] \in {0, r.row, board[r.task]}
  BY <1>1, <1>2 DEF Screen!Added, Screen!Replaced, BoardTypes
<1>4. astray' \in SUBSET BoardTasks
  BY <1>1, <1>2 DEF BoardTypes
<1>5. BoardTypes' /\ RowsHeld'
  BY <1>1, <1>3, <1>4 DEF BoardTypes, RowsHeld
<1>6. r.task \in boardUsed
  BY <1>2 DEF NotYetMade
<1>7. NotYetMade'
  BY <1>1, <1>3, <1>6 DEF NotYetMade
<1>8. Newborn'
  <2> SUFFICES ASSUME NEW i \in DOMAIN wire, wire[i].event = "task_created", LastOf(i)
               PROVE  JustMade(wire[i].task, wire[i].row)'
    BY <1>1 DEF Newborn, LastOf
  <2>1. JustMade(wire[i].task, wire[i].row) /\ wire[i].task \in BoardTasks
    BY WireTyped DEF Newborn
  <2> QED BY <1>1, <1>2, <1>3, <2>1 DEF JustMade
<1>9. Told'
  <2> SUFFICES ASSUME NEW t \in BoardTasks \ astray'
               PROVE  /\ \A i \in DOMAIN wire : wire[i].task = t /\ LastOf(i) => wire[i].row = boardWork[t]
                      /\ fetch.pc = "none" /\ (\A i \in DOMAIN wire : wire[i].task # t) => board'[t] = boardWork[t]
    <3>1. UNCHANGED <<wire, fetch, boardWork>>
      BY <1>1
    <3> QED BY <3>1 DEF Told, LastOf
  <2>1. CASE t # r.task
    BY <1>1, <1>3, <2>1 DEF Told
  <2>2. CASE t = r.task
    <3>1. t \notin Screen!Missed(board')
      BY <1>1, <2>2
    <3>2. t \in Screen!InWire => t \notin astray
      BY <3>1 DEF Screen!Missed
    <3>3. t \notin Screen!InWire => board'[t] = boardWork[t]
      BY <3>1 DEF Screen!Missed
    <3>4. t \in Screen!InWire <=> \E i \in DOMAIN wire : wire[i].task = t
      BY DEF Screen!InWire
    <3> QED BY <3>2, <3>3, <3>4 DEF Told
  <2> QED BY <2>1, <2>2
<1> QED BY <1>1, <1>5, <1>7, <1>8, <1>9

LEMMA BoardFetches ==
  ASSUME BoardInv, Screen!FetchRead \/ Screen!FetchApplied \/ Screen!FetchFailed
  PROVE  BoardInv'
<1> USE DEF BoardInv
<1>1. CASE Screen!FetchRead
  <2>1. /\ fetch' = [pc |-> "read", rows |-> boardRow]
        /\ UNCHANGED <<boardRow, boardWork, boardTx, boardUsed, board, online, wire, replies, astray, writes>>
    BY <1>1 DEF Screen!FetchRead, Screen!table
  <2>2. BoardTypes' /\ RowsHeld' /\ NotYetMade'
    BY <2>1 DEF BoardTypes, RowsHeld, NotYetMade
  <2>3. Newborn' /\ Told'
    BY <2>1 DEF Newborn, JustMade, LastOf, Told
  <2> QED BY <2>1, <2>2, <2>3
<1>2. CASE Screen!FetchApplied \/ Screen!FetchFailed
  <2>1. /\ board' = fetch.rows \/ board' = board
        /\ fetch' = [pc |-> "none", rows |-> Screen!Nothing]
        /\ astray' = Screen!Missed(board')
        /\ UNCHANGED <<boardRow, boardWork, boardTx, boardUsed, online, wire, replies, writes>>
    BY <1>2 DEF Screen!FetchApplied, Screen!FetchFailed, Screen!table
  <2>2. BoardTypes'
    BY <2>1 DEF BoardTypes, Screen!Missed, Screen!Nothing
  <2>3. RowsHeld' /\ NotYetMade'
    BY <2>1 DEF RowsHeld, NotYetMade, Screen!Nothing
  <2>4. Newborn'
    <3> SUFFICES ASSUME NEW i \in DOMAIN wire, wire[i].event = "task_created", LastOf(i)
                 PROVE  JustMade(wire[i].task, wire[i].row)'
      BY <2>1 DEF Newborn, LastOf
    <3>1. JustMade(wire[i].task, wire[i].row) /\ wire[i].task \in BoardTasks
      BY WireTyped DEF Newborn
    <3> QED BY <2>1, <3>1 DEF JustMade, Screen!Nothing
  <2>5. Told'
    <3> SUFFICES ASSUME NEW t \in BoardTasks \ astray'
                 PROVE  /\ \A i \in DOMAIN wire : wire[i].task = t /\ LastOf(i) => wire[i].row = boardWork[t]
                        /\ (\A i \in DOMAIN wire : wire[i].task # t) => board'[t] = boardWork[t]
      BY <2>1 DEF Told, LastOf
    <3>1. t \notin Screen!Missed(board')
      BY <2>1
    <3>2. t \in Screen!InWire => t \notin astray
      BY <3>1 DEF Screen!Missed
    <3>3. t \notin Screen!InWire => board'[t] = boardWork[t]
      BY <3>1 DEF Screen!Missed
    <3>4. t \in Screen!InWire <=> \E i \in DOMAIN wire : wire[i].task = t
      BY DEF Screen!InWire
    <3> QED BY <3>2, <3>3, <3>4 DEF Told
  <2> QED BY <2>1, <2>2, <2>3, <2>4, <2>5
<1> QED BY <1>1, <1>2

LEMMA BoardSocket ==
  ASSUME BoardInv, Screen!Connect \/ Screen!Disconnect \/ Screen!Reload
  PROVE  BoardInv'
<1> USE DEF BoardInv
<1>1. CASE Screen!Connect
  BY <1>1 DEF Screen!Connect, Screen!table, BoardTypes, RowsHeld, NotYetMade, Newborn, JustMade, LastOf, Told
<1>2. CASE Screen!Disconnect
  <2>1. /\ wire' = <<>> /\ astray' = astray \cup Screen!InWire
        /\ UNCHANGED <<boardRow, boardWork, boardTx, boardUsed, board, fetch, replies, writes>>
    BY <1>2 DEF Screen!Disconnect, Screen!table
  <2>2. Screen!InWire \in SUBSET BoardTasks /\ \A i \in DOMAIN wire : wire[i].task \in Screen!InWire
    BY WireTyped DEF Screen!InWire
  <2>3. BoardTypes' /\ RowsHeld' /\ NotYetMade' /\ Newborn'
    BY <2>1, <2>2 DEF BoardTypes, RowsHeld, NotYetMade, Newborn
  <2>4. Told'
    BY <2>1, <2>2 DEF Told
  <2> QED BY <2>1, <2>3, <2>4
<1>3. CASE Screen!Reload
  <2>1. /\ board' = Screen!Nothing /\ fetch' = [pc |-> "asked", rows |-> Screen!Nothing]
        /\ wire' = <<>> /\ replies' = {} /\ astray' = {}
        /\ UNCHANGED <<boardRow, boardWork, boardTx, boardUsed, writes>>
    BY <1>3 DEF Screen!Reload, Screen!table
  <2> QED BY <2>1 DEF BoardTypes, RowsHeld, NotYetMade, Newborn, Told, Screen!Nothing
<1> QED BY <1>1, <1>2, <1>3

\* The service

LEMMA WriterHasTold ==
  ASSUME NEW w \in BoardWriters, NEW over \in BOOLEAN
  PROVE  /\ [w EXCEPT !.news = Screen!NoNews, !.over = over] \in BoardWriters
         /\ [w EXCEPT !.news = Screen!NoNews, !.over = over].locks = w.locks
         /\ [w EXCEPT !.news = Screen!NoNews, !.over = over].news = Screen!NoNews
<1>1. PICK x : x = [w EXCEPT !.news = Screen!NoNews, !.over = over]
  OBVIOUS
<1>2. x = [by |-> w.by, locks |-> w.locks, news |-> Screen!NoNews, over |-> over]
  BY <1>1 DEF BoardWriters
<1>3. x \in BoardWriters /\ x.locks = w.locks /\ x.news = Screen!NoNews
  BY <1>2 DEF BoardWriters
<1> QED BY <1>1, <1>3

LEMMA BoardLocks ==
  ASSUME BoardTypes, NEW c \in Calls, NEW by \in {"browser", "client", "session"}, NEW t \in BoardTasks,
         Screen!Locking(c, by, t)
  PROVE  /\ boardTx' \in [Calls -> BoardWriters]
         /\ boardTx'[c].locks = boardTx[c].locks \cup {t} /\ boardTx'[c].news = boardTx[c].news
         /\ \A d \in Calls : d # c => boardTx'[d] = boardTx[d]
<1>1. PICK over \in BOOLEAN :
        boardTx' = [boardTx EXCEPT ![c].by = by, ![c].locks = @ \cup {t}, ![c].over = over]
  BY DEF Screen!Locking
<1>2. boardTx \in [Calls -> BoardWriters]
  BY DEF BoardTypes
<1>3. boardTx' = [boardTx EXCEPT ![c] = [boardTx[c] EXCEPT !.by = by, !.locks = @ \cup {t}, !.over = over]]
  BY <1>1, <1>2
<1>4. PICK w : w = [boardTx[c] EXCEPT !.by = by, !.locks = @ \cup {t}, !.over = over]
  OBVIOUS
<1>5. w \in BoardWriters /\ w.locks = boardTx[c].locks \cup {t} /\ w.news = boardTx[c].news
  <2>1. boardTx[c] \in BoardWriters
    BY <1>2
  <2>2. w = [by |-> by, locks |-> boardTx[c].locks \cup {t}, news |-> boardTx[c].news, over |-> over]
    BY <1>4, <2>1 DEF BoardWriters
  <2> QED BY <2>1, <2>2 DEF BoardWriters
<1>6. boardTx' = [boardTx EXCEPT ![c] = w]
  BY <1>3, <1>4
<1> QED BY <1>2, <1>5, <1>6

\* Every event is of one task; nothing changes for others.
LEMMA BoardBroadcasts ==
  ASSUME BoardInv, NEW event \in {"task_created", "task_update"}, NEW t \in BoardTasks, NEW v \in Nat,
         Screen!Broadcast(event, t, v, boardWork'[t]), UNCHANGED <<boardRow, board, online, fetch>>,
         boardWork' \in [BoardTasks -> Nat],
         \A u \in BoardTasks \ {t} : boardWork'[u] = boardWork[u],
         \A r \in replies' : r \in replies \/ r.task = t,
         event = "task_created" => t \notin boardUsed /\ JustMade(t, v)'
  PROVE  /\ wire' \in Seq(BoardEvents) /\ astray' \in SUBSET BoardTasks
         /\ \A i \in DOMAIN wire' : wire'[i].task = t \/ (i \in DOMAIN wire /\ wire'[i] = wire[i])
         /\ Newborn' /\ Told' /\ (~online' => wire' = <<>>)
<1> USE DEF BoardInv
<1>1. CASE ~online
  <2>1. wire = <<>> /\ wire' = <<>> /\ astray' = astray \cup {t}
    BY <1>1 DEF Screen!Broadcast
  <2>2. Newborn' /\ astray' \in SUBSET BoardTasks
    BY <2>1 DEF Newborn, BoardTypes
  <2>3. Told'
    BY <2>1 DEF Told
  <2> QED BY <2>1, <2>2, <2>3
<1>2. CASE online
  <2> DEFINE e == [event |-> event, task |-> t, row |-> v]
             n == Len(wire) + 1
  <2>1. wire' = Append(wire, e) /\ astray' = IF v = boardWork'[t] THEN astray \ {t} ELSE astray \cup {t}
    BY <1>2 DEF Screen!Broadcast
  <2>2. e \in BoardEvents /\ wire \in Seq(BoardEvents)
    BY DEF BoardEvents, BoardTypes
  <2>3. /\ wire' \in Seq(BoardEvents) /\ n \in Nat /\ n \in DOMAIN wire' /\ wire'[n] = e
        /\ \A i \in DOMAIN wire : i \in Nat /\ i < n /\ i \in DOMAIN wire' /\ wire'[i] = wire[i]
        /\ \A i \in DOMAIN wire' : i \in Nat /\ (i = n \/ i \in DOMAIN wire)
    BY <2>1, <2>2, WireAppend
  <2>4. e.event = event /\ e.task = t /\ e.row = v
    OBVIOUS
  <2> HIDE DEF e, n
  <2>5. \A i \in DOMAIN wire : LastOf(i)' => LastOf(i) /\ wire[i].task # t
    BY <2>3, <2>4 DEF LastOf
  <2>6. \A i \in DOMAIN wire' : wire'[i].task = t \/ (i \in DOMAIN wire /\ wire'[i] = wire[i])
    BY <2>3, <2>4
  <2>7. Newborn'
    <3> SUFFICES ASSUME NEW i \in DOMAIN wire', wire'[i].event = "task_created"
                 PROVE  /\ \A j \in DOMAIN wire' : j < i => wire'[j].task # wire'[i].task
                        /\ LastOf(i)' => \A w, x : w = wire'[i].task /\ x = wire'[i].row => JustMade(w, x)'
      BY DEF Newborn
    <3>1. CASE i = n
      <4>1. event = "task_created" /\ wire'[i].task = t /\ wire'[i].row = v
        BY <2>3, <2>4, <3>1
      <4>2. \A j \in DOMAIN wire' : j < i => wire'[j].task # t
        BY <2>3, <3>1, <4>1 DEF NotYetMade
      <4> QED BY <4>1, <4>2
    <3>2. CASE i \in DOMAIN wire
      <4>1. wire'[i] = wire[i] /\ wire[i].event = "task_created" /\ wire[i].task \in BoardTasks
        BY <2>3, <3>2, WireTyped
      <4>2. \A j \in DOMAIN wire' : j < i => wire'[j].task # wire'[i].task
        <5> SUFFICES ASSUME NEW j \in DOMAIN wire', j < i PROVE wire'[j].task # wire'[i].task
          OBVIOUS
        <5>1. j \in DOMAIN wire /\ wire'[j] = wire[j]
          BY <2>3, <3>2
        <5> QED BY <3>2, <4>1, <5>1 DEF Newborn
      <4>3. ASSUME LastOf(i)' PROVE JustMade(wire[i].task, wire[i].row)'
        <5>1. JustMade(wire[i].task, wire[i].row) /\ wire[i].task # t
          BY <2>5, <3>2, <4>1, <4>3 DEF Newborn
        <5> QED BY <4>1, <5>1 DEF JustMade
      <4> QED BY <4>1, <4>2, <4>3
    <3> QED BY <2>3, <3>1, <3>2
  <2>8. Told'
    <3> SUFFICES ASSUME NEW u \in BoardTasks \ astray'
                 PROVE  /\ \A i \in DOMAIN wire' : wire'[i].task = u /\ LastOf(i)' => wire'[i].row = boardWork'[u]
                        /\ fetch.pc = "none" /\ (\A i \in DOMAIN wire' : wire'[i].task # u) => board[u] = boardWork'[u]
      BY DEF Told
    <3>1. CASE u = t
      <4>1. v = boardWork'[t]
        BY <2>1, <3>1
      <4>2. \A i \in DOMAIN wire' : wire'[i].task = u /\ LastOf(i)' => i = n
        BY <2>3, <2>5, <3>1
      <4> QED BY <2>3, <2>4, <3>1, <4>1, <4>2
    <3>2. CASE u # t
      <4>1. u \in BoardTasks \ astray /\ boardWork'[u] = boardWork[u]
        BY <2>1, <3>2
      <4>2. \A i \in DOMAIN wire' : wire'[i].task = u /\ LastOf(i)' =>
              i \in DOMAIN wire /\ wire'[i] = wire[i] /\ LastOf(i)
        BY <2>3, <2>4, <2>5, <3>2
      <4>3. (\A i \in DOMAIN wire' : wire'[i].task # u) => \A i \in DOMAIN wire : wire[i].task # u
        BY <2>3
      <4> QED BY <4>1, <4>2, <4>3 DEF Told
    <3> QED BY <3>1, <3>2
  <2>9. astray' \in SUBSET BoardTasks
    BY <2>1 DEF BoardTypes
  <2> QED BY <1>2, <2>3, <2>6, <2>7, <2>8, <2>9
<1> QED BY <1>1, <1>2

\* What a request answers is of its task.
LEMMA BoardReplies ==
  ASSUME BoardTypes, NEW c \in Calls, NEW by, NEW op \in {"create", "update", "delete"}, NEW t \in BoardTasks,
         NEW v \in Nat,
         replies' = replies \cup {[call |-> c, op |-> op, task |-> t, row |-> v] : x \in {"browser"} \cap {by}}
  PROVE  replies' \in SUBSET BoardAnswers /\ \A r \in replies' : r \in replies \/ (r.task = t /\ r.row = v)
  BY DEF BoardTypes, BoardAnswers

LEMMA BoardCreates ==
  ASSUME BoardInv, NEW c \in Calls, NEW by \in {"browser", "client", "session"}, NEW t \in BoardTasks,
         Screen!Create(c, by, t)
  PROVE  BoardInv'
<1> USE DEF BoardInv
<1>0. PICK v \in Nat : v = writes + 1
  BY DEF BoardTypes
<1>1. /\ t \notin boardUsed /\ writes' = v /\ boardUsed' = boardUsed \cup {t}
      /\ boardWork' = [boardWork EXCEPT ![t] = v]
      /\ Screen!Locking(c, by, t) /\ Screen!Broadcast("task_created", t, v, v)
      /\ Screen!Reply(c, by, "create", t, v)
      /\ UNCHANGED <<boardRow, board, online, fetch>>
  BY <1>0 DEF Screen!Create
<1>2. writes' \in Nat /\ boardWork'[t] = v /\ boardWork' \in [BoardTasks -> Nat]
      /\ \A u \in BoardTasks \ {t} : boardWork'[u] = boardWork[u]
  BY <1>1 DEF BoardTypes
<1>3. replies' \in SUBSET BoardAnswers /\ \A r \in replies' : r \in replies \/ (r.task = t /\ r.row = v)
  BY <1>1, <1>2, BoardReplies DEF Screen!Reply
<1>4. /\ boardTx' \in [Calls -> BoardWriters]
      /\ boardTx'[c].locks = boardTx[c].locks \cup {t} /\ boardTx'[c].news = boardTx[c].news
      /\ \A d \in Calls : d # c => boardTx'[d] = boardTx[d]
  BY <1>1, BoardLocks
<1>5. JustMade(t, v)'
  BY <1>1, <1>2, <1>3 DEF JustMade, NotYetMade
<1>6. /\ wire' \in Seq(BoardEvents) /\ astray' \in SUBSET BoardTasks
      /\ \A i \in DOMAIN wire' : wire'[i].task = t \/ (i \in DOMAIN wire /\ wire'[i] = wire[i])
      /\ Newborn' /\ Told' /\ (~online' => wire' = <<>>)
  BY <1>1, <1>2, <1>3, <1>5, BoardBroadcasts
<1>7. BoardTypes'
  BY <1>1, <1>2, <1>3, <1>4, <1>6 DEF BoardTypes
<1>8. RowsHeld'
  <2>1. \A u \in BoardTasks : boardWork'[u] # boardRow'[u] => \E d \in Calls : u \in boardTx'[d].locks
    <3> SUFFICES ASSUME NEW u \in BoardTasks, boardWork'[u] # boardRow'[u]
                 PROVE  \E d \in Calls : u \in boardTx'[d].locks
      OBVIOUS
    <3>1. CASE u = t
      BY <1>4, <3>1
    <3>2. CASE u # t
      <4>1. PICK d \in Calls : u \in boardTx[d].locks
        BY <1>1, <1>2, <3>2 DEF RowsHeld
      <4>2. u \in boardTx'[d].locks
        BY <1>4, <4>1
      <4> QED BY <4>2
    <3> QED BY <3>1, <3>2
  <2>2. \A d, x \in Calls : d # x => boardTx'[d].locks \cap boardTx'[x].locks = {}
    <3>1. \A d, x \in Calls : d # x => boardTx[d].locks \cap boardTx[x].locks = {}
      BY DEF RowsHeld
    <3>2. \A d \in Calls : d # c => t \notin boardTx[d].locks
      BY <1>1 DEF NotYetMade
    <3> QED BY <1>4, <3>1, <3>2
  <2> QED BY <2>1, <2>2 DEF RowsHeld
<1>9. NotYetMade'
  <2> SUFFICES ASSUME NEW u \in BoardTasks \ boardUsed'
               PROVE  /\ boardRow'[u] = 0 /\ boardWork'[u] = 0 /\ board'[u] = 0 /\ fetch'.rows[u] = 0
                      /\ \A i \in DOMAIN wire' : wire'[i].task # u
                      /\ \A r \in replies' : r.task # u
                      /\ \A d \in Calls : /\ u \notin boardTx'[d].locks
                                          /\ boardTx'[d].news # Screen!NoNews => boardTx'[d].news.task # u
    BY DEF NotYetMade
  <2>1. u \in BoardTasks \ boardUsed /\ u # t
    BY <1>1
  <2>2. /\ boardRow'[u] = 0 /\ boardWork'[u] = 0 /\ board'[u] = 0 /\ fetch'.rows[u] = 0
    BY <1>1, <1>2, <2>1 DEF NotYetMade
  <2>3. \A i \in DOMAIN wire' : wire'[i].task # u
    BY <1>6, <2>1 DEF NotYetMade
  <2>4. \A r \in replies' : r.task # u
    BY <1>3, <2>1 DEF NotYetMade
  <2>5. \A d \in Calls : /\ u \notin boardTx'[d].locks
                         /\ boardTx'[d].news # Screen!NoNews => boardTx'[d].news.task # u
    <3>1. \A d \in Calls : /\ u \notin boardTx[d].locks
                           /\ boardTx[d].news # Screen!NoNews => boardTx[d].news.task # u
      BY <2>1 DEF NotYetMade
    <3> QED BY <1>4, <2>1, <3>1
  <2> QED BY <2>2, <2>3, <2>4, <2>5
<1> QED BY <1>6, <1>7, <1>8, <1>9

LEMMA BoardUpdates ==
  ASSUME BoardInv, NEW c \in Calls, NEW by \in {"browser", "client", "session"}, NEW t \in BoardTasks,
         Screen!Update(c, by, t)
  PROVE  BoardInv'
<1> USE DEF BoardInv
<1>0. PICK v \in Nat : v = writes + 1
  BY DEF BoardTypes
<1>1. /\ Screen!Free(c, t) /\ Screen!Sees(c, t) # 0 /\ writes' = v
      /\ boardWork' = [boardWork EXCEPT ![t] = v]
      /\ Screen!Locking(c, by, t) /\ Screen!Broadcast("task_update", t, v, v)
      /\ Screen!Reply(c, by, "update", t, v)
      /\ UNCHANGED <<boardRow, boardUsed, board, online, fetch>>
  BY <1>0 DEF Screen!Update
<1>2. writes' \in Nat /\ boardWork'[t] = v /\ boardWork' \in [BoardTasks -> Nat]
      /\ \A u \in BoardTasks \ {t} : boardWork'[u] = boardWork[u]
  BY <1>1 DEF BoardTypes
<1>3. replies' \in SUBSET BoardAnswers /\ \A r \in replies' : r \in replies \/ (r.task = t /\ r.row = v)
  BY <1>1, <1>2, BoardReplies DEF Screen!Reply
<1>4. /\ boardTx' \in [Calls -> BoardWriters]
      /\ boardTx'[c].locks = boardTx[c].locks \cup {t} /\ boardTx'[c].news = boardTx[c].news
      /\ \A d \in Calls : d # c => boardTx'[d] = boardTx[d]
  BY <1>1, BoardLocks
<1>5. t \in boardUsed /\ \A d \in Calls \ {c} : t \notin boardTx[d].locks
  BY <1>1 DEF NotYetMade, Screen!Sees, Screen!Free
<1>6. /\ wire' \in Seq(BoardEvents) /\ astray' \in SUBSET BoardTasks
      /\ \A i \in DOMAIN wire' : wire'[i].task = t \/ (i \in DOMAIN wire /\ wire'[i] = wire[i])
      /\ Newborn' /\ Told' /\ (~online' => wire' = <<>>)
  BY <1>1, <1>2, <1>3, BoardBroadcasts
<1>7. BoardTypes'
  BY <1>1, <1>2, <1>3, <1>4, <1>6 DEF BoardTypes
<1>8. RowsHeld'
  <2>1. \A u \in BoardTasks : boardWork'[u] # boardRow'[u] => \E d \in Calls : u \in boardTx'[d].locks
    <3> SUFFICES ASSUME NEW u \in BoardTasks, boardWork'[u] # boardRow'[u]
                 PROVE  \E d \in Calls : u \in boardTx'[d].locks
      OBVIOUS
    <3>1. CASE u = t
      BY <1>4, <3>1
    <3>2. CASE u # t
      <4>1. PICK d \in Calls : u \in boardTx[d].locks
        BY <1>1, <1>2, <3>2 DEF RowsHeld
      <4>2. u \in boardTx'[d].locks
        BY <1>4, <4>1
      <4> QED BY <4>2
    <3> QED BY <3>1, <3>2
  <2>2. \A d, x \in Calls : d # x => boardTx'[d].locks \cap boardTx'[x].locks = {}
    <3>1. \A d, x \in Calls : d # x => boardTx[d].locks \cap boardTx[x].locks = {}
      BY DEF RowsHeld
    <3>2. \A d \in Calls : d # c => t \notin boardTx[d].locks
      BY <1>5
    <3> QED BY <1>4, <3>1, <3>2
  <2> QED BY <2>1, <2>2 DEF RowsHeld
<1>9. NotYetMade'
  <2> SUFFICES ASSUME NEW u \in BoardTasks \ boardUsed'
               PROVE  /\ boardRow'[u] = 0 /\ boardWork'[u] = 0 /\ board'[u] = 0 /\ fetch'.rows[u] = 0
                      /\ \A i \in DOMAIN wire' : wire'[i].task # u
                      /\ \A r \in replies' : r.task # u
                      /\ \A d \in Calls : /\ u \notin boardTx'[d].locks
                                          /\ boardTx'[d].news # Screen!NoNews => boardTx'[d].news.task # u
    BY DEF NotYetMade
  <2>1. u \in BoardTasks \ boardUsed /\ u # t
    BY <1>1, <1>5
  <2>2. /\ boardRow'[u] = 0 /\ boardWork'[u] = 0 /\ board'[u] = 0 /\ fetch'.rows[u] = 0
    BY <1>1, <1>2, <2>1 DEF NotYetMade
  <2>3. \A i \in DOMAIN wire' : wire'[i].task # u
    BY <1>6, <2>1 DEF NotYetMade
  <2>4. \A r \in replies' : r.task # u
    BY <1>3, <2>1 DEF NotYetMade
  <2>5. \A d \in Calls : /\ u \notin boardTx'[d].locks
                         /\ boardTx'[d].news # Screen!NoNews => boardTx'[d].news.task # u
    <3>1. \A d \in Calls : /\ u \notin boardTx[d].locks
                           /\ boardTx[d].news # Screen!NoNews => boardTx[d].news.task # u
      BY <2>1 DEF NotYetMade
    <3> QED BY <1>4, <2>1, <3>1
  <2> QED BY <2>2, <2>3, <2>4, <2>5
<1> QED BY <1>6, <1>7, <1>8, <1>9

LEMMA BoardRefreshes ==
  ASSUME BoardInv, NEW c \in Calls, NEW by \in {"browser", "client", "session"}, NEW t \in BoardTasks,
         Screen!RefreshOnly(c, by, t)
  PROVE  BoardInv'
<1> USE DEF BoardInv
<1> DEFINE v == Screen!Sees(c, t)
<1>1. /\ v # 0 /\ writes' = writes + 1
      /\ boardTx' = [boardTx EXCEPT ![c].by = by, ![c].news = [task |-> t, row |-> v]]
      /\ UNCHANGED <<boardRow, boardWork, boardUsed, board, online, wire, fetch, replies, astray>>
  BY DEF Screen!RefreshOnly, Screen!page
<1>2. boardTx \in [Calls -> BoardWriters] /\ v \in Nat /\ writes' \in Nat /\ t \in boardUsed
  BY <1>1 DEF BoardTypes, Screen!Sees, NotYetMade
<1> HIDE DEF v
<1>3. boardTx' = [boardTx EXCEPT ![c] = [boardTx[c] EXCEPT !.by = by, !.news = [task |-> t, row |-> v]]]
  BY <1>1, <1>2
<1>4. /\ boardTx' \in [Calls -> BoardWriters]
      /\ \A d \in Calls : boardTx'[d].locks = boardTx[d].locks
      /\ \A d \in Calls : boardTx'[d].news = IF d = c THEN [task |-> t, row |-> v] ELSE boardTx[d].news
  <2>1. PICK w : w = [boardTx[c] EXCEPT !.by = by, !.news = [task |-> t, row |-> v]]
    OBVIOUS
  <2>2. w \in BoardWriters /\ w.locks = boardTx[c].locks /\ w.news = [task |-> t, row |-> v]
    <3>1. boardTx[c] \in BoardWriters
      BY <1>2
    <3>2. w = [by |-> by, locks |-> boardTx[c].locks, news |-> [task |-> t, row |-> v], over |-> boardTx[c].over]
      BY <2>1, <3>1 DEF BoardWriters
    <3> QED BY <1>2, <3>1, <3>2 DEF BoardWriters
  <2>3. boardTx' = [boardTx EXCEPT ![c] = w]
    BY <1>3, <2>1
  <2> QED BY <1>2, <2>2, <2>3
<1>5. BoardTypes'
  BY <1>1, <1>2, <1>4 DEF BoardTypes
<1>6. RowsHeld' /\ NotYetMade'
  BY <1>1, <1>2, <1>4 DEF RowsHeld, NotYetMade
<1>7. Newborn' /\ Told'
  BY <1>1 DEF Newborn, JustMade, LastOf, Told
<1> QED BY <1>1, <1>5, <1>6, <1>7

LEMMA BoardTells == ASSUME BoardInv, NEW c \in Calls, Screen!Tell(c) PROVE BoardInv'
<1> USE DEF BoardInv
<1> DEFINE news == boardTx[c].news
<1>1. /\ news # Screen!NoNews
      /\ Screen!Broadcast("task_update", news.task, news.row, boardWork[news.task])
      /\ Screen!Reply(c, boardTx[c].by, "update", news.task, news.row)
      /\ UNCHANGED <<boardRow, boardWork, boardUsed, board, online, fetch, writes>>
  BY DEF Screen!Tell
<1>2. PICK over \in BOOLEAN : boardTx' = [boardTx EXCEPT ![c].news = Screen!NoNews, ![c].over = over]
  BY DEF Screen!Tell
<1>3. boardTx \in [Calls -> BoardWriters] /\ news.task \in BoardTasks /\ news.row \in Nat
  <2>1. boardTx \in [Calls -> BoardWriters]
    BY DEF BoardTypes
  <2>2. news \in {Screen!NoNews} \cup [task : BoardTasks, row : Nat]
    BY <2>1 DEF BoardWriters
  <2> QED BY <1>1, <2>1, <2>2
<1>4. boardTx' = [boardTx EXCEPT ![c] = [boardTx[c] EXCEPT !.news = Screen!NoNews, !.over = over]]
  BY <1>2, <1>3
<1>5. /\ boardTx' \in [Calls -> BoardWriters]
      /\ \A d \in Calls : boardTx'[d].locks = boardTx[d].locks
      /\ \A d \in Calls : boardTx'[d].news = IF d = c THEN Screen!NoNews ELSE boardTx[d].news
  BY <1>3, <1>4, WriterHasTold
<1>6. replies' \in SUBSET BoardAnswers
      /\ \A r \in replies' : r \in replies \/ (r.task = news.task /\ r.row = news.row)
  BY <1>1, <1>3, BoardReplies DEF Screen!Reply
<1>7. news.task \in boardUsed
  BY <1>1, <1>3 DEF NotYetMade
<1>8. boardWork' \in [BoardTasks -> Nat] /\ boardWork' = boardWork
  BY <1>1 DEF BoardTypes
<1> HIDE DEF news
<1>9. /\ wire' \in Seq(BoardEvents) /\ astray' \in SUBSET BoardTasks
      /\ \A i \in DOMAIN wire' : wire'[i].task = news.task \/ (i \in DOMAIN wire /\ wire'[i] = wire[i])
      /\ Newborn' /\ Told' /\ (~online' => wire' = <<>>)
  BY <1>1, <1>3, <1>6, <1>8, BoardBroadcasts
<1>10. BoardTypes'
  BY <1>1, <1>5, <1>6, <1>9 DEF BoardTypes
<1>11. RowsHeld' /\ NotYetMade'
  BY <1>1, <1>5, <1>6, <1>7, <1>9 DEF RowsHeld, NotYetMade
<1> QED BY <1>9, <1>10, <1>11

LEMMA BoardDeletes ==
  ASSUME BoardInv, NEW c \in Calls, NEW by \in {"browser", "client", "session"}, NEW t \in BoardTasks,
         Screen!Delete(c, by, t)
  PROVE  BoardInv'
<1> USE DEF BoardInv
<1>1. /\ Screen!Free(c, t) /\ Screen!Sees(c, t) # 0 /\ writes' = writes + 1
      /\ boardWork' = [boardWork EXCEPT ![t] = 0]
      /\ Screen!Locking(c, by, t) /\ Screen!Reply(c, by, "delete", t, 0)
      /\ astray' = astray \cup {t}
      /\ UNCHANGED <<boardRow, boardUsed, board, online, wire, fetch>>
  BY DEF Screen!Delete
<1>2. writes' \in Nat /\ boardWork'[t] = 0 /\ boardWork' \in [BoardTasks -> Nat]
      /\ \A u \in BoardTasks \ {t} : boardWork'[u] = boardWork[u]
  BY <1>1 DEF BoardTypes
<1>3. replies' \in SUBSET BoardAnswers /\ \A r \in replies' : r \in replies \/ (r.task = t /\ r.row = 0)
  BY <1>1, <1>2, BoardReplies DEF Screen!Reply
<1>4. /\ boardTx' \in [Calls -> BoardWriters]
      /\ boardTx'[c].locks = boardTx[c].locks \cup {t} /\ boardTx'[c].news = boardTx[c].news
      /\ \A d \in Calls : d # c => boardTx'[d] = boardTx[d]
  BY <1>1, BoardLocks
<1>5. t \in boardUsed /\ \A d \in Calls \ {c} : t \notin boardTx[d].locks
  BY <1>1 DEF NotYetMade, Screen!Sees, Screen!Free
<1>6. BoardTypes'
  BY <1>1, <1>2, <1>3, <1>4 DEF BoardTypes
<1>7. RowsHeld'
  <2>1. \A u \in BoardTasks : boardWork'[u] # boardRow'[u] => \E d \in Calls : u \in boardTx'[d].locks
    <3> SUFFICES ASSUME NEW u \in BoardTasks, boardWork'[u] # boardRow'[u]
                 PROVE  \E d \in Calls : u \in boardTx'[d].locks
      OBVIOUS
    <3>1. CASE u = t
      BY <1>4, <3>1
    <3>2. CASE u # t
      <4>1. PICK d \in Calls : u \in boardTx[d].locks
        BY <1>1, <1>2, <3>2 DEF RowsHeld
      <4>2. u \in boardTx'[d].locks
        BY <1>4, <4>1
      <4> QED BY <4>2
    <3> QED BY <3>1, <3>2
  <2>2. \A d, x \in Calls : d # x => boardTx'[d].locks \cap boardTx'[x].locks = {}
    <3>1. \A d, x \in Calls : d # x => boardTx[d].locks \cap boardTx[x].locks = {}
      BY DEF RowsHeld
    <3>2. \A d \in Calls : d # c => t \notin boardTx[d].locks
      BY <1>5
    <3> QED BY <1>4, <3>1, <3>2
  <2> QED BY <2>1, <2>2 DEF RowsHeld
<1>8. NotYetMade'
  <2> SUFFICES ASSUME NEW u \in BoardTasks \ boardUsed'
               PROVE  /\ boardRow'[u] = 0 /\ boardWork'[u] = 0 /\ board'[u] = 0 /\ fetch'.rows[u] = 0
                      /\ \A i \in DOMAIN wire' : wire'[i].task # u
                      /\ \A r \in replies' : r.task # u
                      /\ \A d \in Calls : /\ u \notin boardTx'[d].locks
                                          /\ boardTx'[d].news # Screen!NoNews => boardTx'[d].news.task # u
    BY DEF NotYetMade
  <2>1. u \in BoardTasks \ boardUsed /\ u # t
    BY <1>1, <1>5
  <2>2. /\ boardRow'[u] = 0 /\ boardWork'[u] = 0 /\ board'[u] = 0 /\ fetch'.rows[u] = 0
    BY <1>1, <1>2, <2>1 DEF NotYetMade
  <2>3. \A i \in DOMAIN wire' : wire'[i].task # u
    BY <1>1, <2>1 DEF NotYetMade
  <2>4. \A r \in replies' : r.task # u
    BY <1>3, <2>1 DEF NotYetMade
  <2>5. \A d \in Calls : /\ u \notin boardTx'[d].locks
                         /\ boardTx'[d].news # Screen!NoNews => boardTx'[d].news.task # u
    <3>1. \A d \in Calls : /\ u \notin boardTx[d].locks
                           /\ boardTx[d].news # Screen!NoNews => boardTx[d].news.task # u
      BY <2>1 DEF NotYetMade
    <3> QED BY <1>4, <2>1, <3>1
  <2> QED BY <2>2, <2>3, <2>4, <2>5
<1>9. Newborn'
  <2> SUFFICES ASSUME NEW i \in DOMAIN wire, wire[i].event = "task_created", LastOf(i)
               PROVE  JustMade(wire[i].task, wire[i].row)'
    BY <1>1 DEF Newborn, LastOf
  <2>1. JustMade(wire[i].task, wire[i].row) /\ wire[i].task \in BoardTasks
    BY WireTyped DEF Newborn
  <2> QED BY <1>1, <1>2, <1>3, <2>1 DEF JustMade
<1>10. Told'
  BY <1>1, <1>2 DEF Told, LastOf
<1> QED BY <1>1, <1>6, <1>7, <1>8, <1>9, <1>10

\* At its end a transaction makes rows what it sees, or what they were.
LEMMA BoardEnds ==
  ASSUME BoardInv, NEW c \in Calls, Screen!Commit(c) \/ Screen!Rollback(c)
  PROVE  BoardInv'
<1> USE DEF BoardInv
<1>1. /\ boardTx' = [boardTx EXCEPT ![c] = Screen!Closed]
      /\ replies' = Screen!Kept(c) \/ replies' \in SUBSET replies
      /\ UNCHANGED <<boardUsed, board, online, wire, fetch, writes>>
      /\ \/ /\ boardRow' = [t \in BoardTasks |-> IF t \in boardTx[c].locks THEN boardWork[t] ELSE boardRow[t]]
            /\ boardWork' = boardWork /\ astray' = astray
         \/ /\ boardWork' = [t \in BoardTasks |-> IF t \in boardTx[c].locks THEN boardRow[t] ELSE boardWork[t]]
            /\ boardRow' = boardRow /\ astray' = astray \cup boardTx[c].locks
  BY DEF Screen!Commit, Screen!Rollback
<1>2. boardTx \in [Calls -> BoardWriters] /\ boardTx[c].locks \in SUBSET BoardTasks
      /\ Screen!Closed \in BoardWriters /\ Screen!Closed.locks = {} /\ Screen!Closed.news = Screen!NoNews
  BY DEF BoardTypes, Screen!Closed, BoardWriters
<1>3. replies' \in SUBSET BoardAnswers /\ \A r \in replies' : \E q \in replies : r.task = q.task /\ r.row = q.row
  <2>1. \A q \in replies : [q EXCEPT !.call = NoCall] \in BoardAnswers
                           /\ [q EXCEPT !.call = NoCall].task = q.task /\ [q EXCEPT !.call = NoCall].row = q.row
    BY DEF BoardTypes, BoardAnswers
  <2>2. CASE replies' = Screen!Kept(c)
    <3>1. replies' = {IF q.call = c THEN [q EXCEPT !.call = NoCall] ELSE q : q \in replies}
      BY <2>2 DEF Screen!Kept
    <3>2. \A r \in replies' : r \in replies \/ \E q \in replies : r = [q EXCEPT !.call = NoCall]
      BY <3>1
    <3>3. \A r \in replies' : r \in BoardAnswers /\ \E q \in replies : r.task = q.task /\ r.row = q.row
      <4> SUFFICES ASSUME NEW r \in replies'
                   PROVE  r \in BoardAnswers /\ \E q \in replies : r.task = q.task /\ r.row = q.row
        OBVIOUS
      <4>1. CASE r \in replies
        BY <4>1 DEF BoardTypes
      <4>2. CASE r \notin replies
        BY <2>1, <3>2, <4>2
      <4> QED BY <4>1, <4>2
    <3> QED BY <3>3
  <2>3. CASE replies' \in SUBSET replies
    BY <2>3 DEF BoardTypes
  <2> QED BY <1>1, <2>2, <2>3
<1>4. /\ boardRow' \in [BoardTasks -> Nat] /\ boardWork' \in [BoardTasks -> Nat]
      /\ \A t \in BoardTasks : boardRow'[t] \in {boardRow[t], boardWork[t]}
      /\ \A t \in BoardTasks : boardWork'[t] \in {boardRow[t], boardWork[t]}
      /\ \A t \in BoardTasks \ boardTx[c].locks : boardRow'[t] = boardRow[t] /\ boardWork'[t] = boardWork[t]
      /\ \A t \in boardTx[c].locks : boardRow'[t] = boardWork'[t]
      /\ \A t \in BoardTasks \ astray' : t \notin astray /\ boardWork'[t] = boardWork[t]
      /\ astray' \in SUBSET BoardTasks
  BY <1>1, <1>2 DEF BoardTypes
<1>5. BoardTypes'
  BY <1>1, <1>2, <1>3, <1>4 DEF BoardTypes
<1>6. RowsHeld'
  <2>1. \A d \in Calls : boardTx'[d] = IF d = c THEN Screen!Closed ELSE boardTx[d]
    BY <1>1, <1>2
  <2>2. \A d, x \in Calls : d # x => boardTx'[d].locks \cap boardTx'[x].locks = {}
    BY <1>2, <2>1 DEF RowsHeld
  <2>3. \A u \in BoardTasks : boardWork'[u] # boardRow'[u] => \E d \in Calls : u \in boardTx'[d].locks
    BY <1>2, <1>4, <2>1 DEF RowsHeld
  <2> QED BY <2>2, <2>3 DEF RowsHeld
<1>7. NotYetMade'
  <2>1. \A t \in BoardTasks \ boardUsed : boardRow'[t] = 0 /\ boardWork'[t] = 0
    BY <1>4 DEF NotYetMade
  <2>2. \A t \in BoardTasks \ boardUsed : \A r \in replies' : r.task # t
    BY <1>3 DEF NotYetMade
  <2> QED BY <1>1, <1>2, <2>1, <2>2 DEF NotYetMade
<1>8. Newborn'
  <2> SUFFICES ASSUME NEW i \in DOMAIN wire, wire[i].event = "task_created", LastOf(i)
               PROVE  JustMade(wire[i].task, wire[i].row)'
    BY <1>1 DEF Newborn, LastOf
  <2>1. JustMade(wire[i].task, wire[i].row) /\ wire[i].task \in BoardTasks
    BY WireTyped DEF Newborn
  <2>2. \A r \in replies' : r.task = wire[i].task => r.row \in {0, wire[i].row}
    BY <1>3, <2>1 DEF JustMade
  <2> QED BY <1>1, <1>4, <2>1, <2>2 DEF JustMade
<1>9. Told'
  BY <1>1, <1>4 DEF Told, LastOf
<1> QED BY <1>1, <1>5, <1>6, <1>7, <1>8, <1>9

LEMMA BoardStep == BoardInv /\ [Screen!Next]_boardVars => BoardInv'
<1> SUFFICES ASSUME BoardInv, [Screen!Next]_boardVars PROVE BoardInv'
  OBVIOUS
<1>1. CASE UNCHANGED boardVars
  BY <1>1 DEF boardVars, BoardInv, BoardTypes, RowsHeld, NotYetMade, Newborn, JustMade, LastOf, Told
<1>2. CASE Screen!Browser
  BY <1>2, BoardHandlesEvent, BoardHandlesReply, BoardFetches, BoardSocket DEF Screen!Browser
<1>3. CASE Screen!Service
  BY <1>3, BoardCreates, BoardUpdates, BoardRefreshes, BoardTells, BoardDeletes, BoardEnds DEF Screen!Service
<1> QED BY <1>1, <1>2, <1>3 DEF Screen!Next

\* When nothing is under way, the board shows what is committed of every task that has not gone
\* astray, whatever events, answers and fetches met.
THEOREM BoardSafe == Screen!Spec => []BoardCurrent
<1>1. BoardInv => BoardCurrent
  <2> SUFFICES ASSUME BoardInv, Screen!Quiet, NEW t \in BoardTasks \ astray PROVE board[t] = boardRow[t]
    BY DEF BoardCurrent, Screen!BoardCurrent
  <2>1. \A c \in Calls : boardTx[c].locks = {}
    BY DEF Screen!Quiet, Screen!Closed
  <2>2. boardWork[t] = boardRow[t]
    BY <2>1 DEF BoardInv, RowsHeld
  <2> QED BY <2>2 DEF BoardInv, Told, Screen!Quiet
<1>2. BoardInv /\ [Screen!Next]_(Screen!vars) => BoardInv'
  BY BoardStep DEF Screen!vars, Screen!table, Screen!page, boardVars
<1> QED BY <1>1, <1>2, BoardStarts, PTL DEF Screen!Spec

-----------------------------------------------------------------------------
(*****************************************************************************)
(* Billing                                                                   *)
(*****************************************************************************)
PlanTiers == {"free"} \cup Bill!Tiers
Paying == {"active", "past_due"}
StripeEvents ==
  [n : Nat, type : {"completed", "updated", "payment_failed", "paid", "deleted"}, sub : Things,
   status : {"active", "past_due", "canceled"}]
PlanRows ==
  [tier : PlanTiers, status : {"none", "active", "past_due", "canceled"}, sub : Things \cup {"none"},
   customer : Nat]
BillTypes ==
  /\ user \in [tier : PlanTiers, customer : Nat] /\ subscription \in PlanRows
  /\ checkouts \in [Things -> [at : {"rest", "loaded"}, customer : Nat]] /\ customers \in Nat
  /\ sessions \in SUBSET [tier : Bill!Tiers, customer : Nat]
  /\ stripe \in [Things -> [tier : PlanTiers, status : {"none", "active", "past_due", "canceled"},
                          customer : Nat]]
  /\ events \in SUBSET StripeEvents
  /\ handlers \in [Calls -> [event : StripeEvents \cup {Bill!NoEvent}, at : {"rest", "user", "row", "commit"},
                             user : PlanTiers, row : PlanRows]]
  /\ told \in Nat /\ clock \in Nat

\* Events are numbered; each tells of a subscription that there is.
OfItsKind(e) ==
  CASE e.type = "payment_failed" -> e.status = "past_due"
    [] e.type = "updated" -> e.status \in Paying
    [] e.type = "deleted" -> e.status = "canceled"
    [] OTHER -> e.status = "active"
Numbered ==
  /\ told <= clock
  /\ \A e \in events : e.n >= 1 /\ e.n <= clock /\ OfItsKind(e) /\ stripe[e.sub].status # "none"
  /\ \A e, f \in events : e.n = f.n => e = f
  /\ clock = 0 => \A s \in Things : stripe[s].status = "none"
  /\ \A s \in Things : stripe[s].status = "none" => stripe[s] = Bill!Unknown

\* A webhook under way is of an event Stripe still has to deliver.
Busy(h) == handlers[h] # Bill!Idle
Handling ==
  \A h \in Calls : Busy(h) =>
    /\ handlers[h].event \in events
    /\ handlers[h].at = "user" => handlers[h].event.type \in Bill!OfTier
    /\ handlers[h].at # "rest"
    /\ \A g \in Calls : Busy(g) /\ handlers[g].event = handlers[h].event => g = h

\* As long as nothing went astray: one webhook at a time, none late, which has read what there
\* is; and one customer.
InTurn ==
  /\ \A g, h \in Calls : Busy(g) /\ Busy(h) => g = h
  /\ \A h \in Calls : Busy(h) =>
       /\ handlers[h].event.n >= told
       /\ handlers[h].at \in {"row", "commit"} =>
            IF handlers[h].event.type \in Bill!OfTier THEN handlers[h].user = user.tier
            ELSE handlers[h].user = "free"
       /\ handlers[h].at = "commit" =>
            handlers[h].row = IF Bill!Matches(handlers[h].event, subscription) THEN subscription ELSE Bill!NoRow
OneCustomer ==
  /\ user.customer <= customers
  /\ \A x \in sessions : x.customer = user.customer
  /\ \A s \in Things : stripe[s].status # "none" => stripe[s].customer = user.customer
  /\ user.customer = 0 => sessions = {} /\ \A s \in Things : stripe[s].status = "none"
  /\ \A r \in Things : checkouts[r].at = "loaded" => checkouts[r].customer \in {0, user.customer}

\* ... and when no event is overdue, what there is is what the newest event applied told; the
\* events to come follow from it and end at what Stripe has.
InTime == \A e \in events : e.n >= told
AsTold ==
  IF told = 0 THEN subscription = Bill!NoRow /\ user.tier = "free"
  ELSE /\ subscription.sub \in Things /\ subscription.status # "none"
       /\ stripe[subscription.sub].status # "none"
       /\ subscription.customer = stripe[subscription.sub].customer
       /\ user.tier = IF subscription.status = "canceled" THEN "free" ELSE stripe[subscription.sub].tier
       /\ \A e \in events : e.n = told => e.sub = subscription.sub /\ e.status = subscription.status
NoneLost == \A n \in told + 1 .. clock : \E e \in events : e.n = n
Is(s, status) == stripe[s].status = status /\ \A o \in Things : Bill!Live(o) => o = s
UpToStripe ==
  /\ told = clock /\ told > 0 => Is(subscription.sub, subscription.status)
  /\ \A e \in events : e.n = clock => Is(e.sub, e.status)
OneAfterAnother ==
  \A e \in events : e.type # "completed" =>
    /\ e.n = told + 1 => told > 0 /\ e.sub = subscription.sub /\ subscription.status # "canceled"
    /\ \A f \in events : e.n = f.n + 1 => e.sub = f.sub /\ f.status # "canceled"

BillInv ==
  /\ BillTypes /\ Numbered /\ Handling
  /\ ~gone => InTurn /\ OneCustomer /\ (InTime => AsTold /\ NoneLost /\ UpToStripe /\ OneAfterAnother)

Webhooks ==
  [event : StripeEvents \cup {Bill!NoEvent}, at : {"rest", "user", "row", "commit"}, user : PlanTiers,
   row : PlanRows]

LEMMA NothingYet ==
  /\ Bill!NoRow \in PlanRows /\ Bill!NoRow.status = "none" /\ Bill!Idle \in Webhooks
  /\ Bill!Idle.event = Bill!NoEvent /\ Bill!Idle.at = "rest" /\ Bill!Idle.user = "free"
  /\ Bill!Unknown.status = "none" /\ Bill!NoEvent.n = 0
  BY DEF Bill!NoRow, Bill!Idle, Bill!NoEvent, Bill!NoCustomer, PlanRows, PlanTiers, Webhooks, Bill!Unknown

LEMMA BillStarts == Bill!Init => BillInv
<1> SUFFICES ASSUME Bill!Init PROVE BillInv
  OBVIOUS
<1>1. /\ user = [tier |-> "free", customer |-> 0] /\ subscription = Bill!NoRow
      /\ checkouts = [r \in Things |-> [at |-> "rest", customer |-> 0]]
      /\ customers = 0 /\ sessions = {} /\ stripe = [s \in Things |-> Bill!Unknown]
      /\ events = {} /\ handlers = [h \in Calls |-> Bill!Idle] /\ told = 0 /\ clock = 0
  BY DEF Bill!Init, Bill!NoCustomer
<1>2. BillTypes
  BY <1>1, NothingYet DEF BillTypes, PlanTiers, Webhooks, Bill!Unknown, Bill!NoCustomer
<1>3. Numbered /\ Handling
  BY <1>1, NothingYet DEF Numbered, Handling, Busy
<1>4. InTurn /\ OneCustomer
  BY <1>1, NothingYet DEF InTurn, OneCustomer, Busy
<1>5. AsTold /\ NoneLost /\ UpToStripe /\ OneAfterAnother
  BY <1>1 DEF AsTold, NoneLost, UpToStripe, OneAfterAnother
<1> QED BY <1>2, <1>3, <1>4, <1>5 DEF BillInv

\* A webhook goes on, or fails: nothing else changes.
LEMMA BillGoesOn ==
  ASSUME BillInv, NEW h \in Calls, NEW w \in Webhooks, handlers' = [handlers EXCEPT ![h] = w],
         UNCHANGED <<user, subscription, checkouts, customers, sessions, stripe, events, told, clock>>,
         ~gone' => ~gone,
         w = Bill!Idle \/
           /\ w.event \in events /\ w.at # "rest" /\ (w.at = "user" => w.event.type \in Bill!OfTier)
           /\ \A g \in Calls \ {h} : Busy(g) => handlers[g].event # w.event
           /\ ~gone' =>
                /\ \A g \in Calls \ {h} : ~Busy(g)
                /\ w.event.n >= told
                /\ w.at \in {"row", "commit"} =>
                     IF w.event.type \in Bill!OfTier THEN w.user = user.tier ELSE w.user = "free"
                /\ w.at = "commit" =>
                     w.row = IF Bill!Matches(w.event, subscription) THEN subscription ELSE Bill!NoRow
  PROVE  BillInv'
<1> USE DEF BillInv
<1>1. handlers'[h] = w /\ \A g \in Calls \ {h} : handlers'[g] = handlers[g]
  BY DEF BillTypes
<1>2. BillTypes'
  BY <1>1 DEF BillTypes, Webhooks
<1>3. Numbered'
  BY DEF Numbered
<1>4. Handling'
  BY <1>1 DEF Handling, Busy
<1>5. ~gone' => InTurn'
  BY <1>1 DEF InTurn, Busy, Bill!Matches, Bill!NoRow
<1>6. ~gone' => OneCustomer'
  BY DEF OneCustomer
<1>7. ~gone' /\ InTime' => AsTold' /\ NoneLost' /\ UpToStripe' /\ OneAfterAnother'
  BY DEF InTime, AsTold, NoneLost, UpToStripe, Is, Bill!Live, OneAfterAnother
<1> QED BY <1>2, <1>3, <1>4, <1>5, <1>6, <1>7

LEMMA BillReceives == ASSUME BillInv, NEW h \in Calls, Bill!Receive(h) PROVE BillInv'
<1> USE DEF BillInv
<1>1. PICK e \in events :
        /\ handlers[h] = Bill!Idle /\ \A g \in Calls : handlers[g].event # e
        /\ handlers' = [handlers EXCEPT ![h].event = e, ![h].at = IF e.type \in Bill!OfTier THEN "user" ELSE "row"]
        /\ gone' = (gone \/ e.n < told \/ \E g \in Calls : handlers[g] # Bill!Idle)
        /\ UNCHANGED <<user, subscription, checkouts, customers, sessions, stripe, events, told, clock>>
  BY DEF Bill!Receive, Bill!account, Bill!stripes
<1>2. handlers \in [Calls -> Webhooks] /\ e \in StripeEvents /\ told \in Nat
  BY DEF BillTypes, Webhooks
<1> DEFINE w == [event |-> e, at |-> IF e.type \in Bill!OfTier THEN "user" ELSE "row", user |-> "free",
                 row |-> Bill!NoRow]
<1>3. handlers' = [handlers EXCEPT ![h] = w]
  <2>1. PICK x : x = [handlers[h] EXCEPT !.event = e, !.at = IF e.type \in Bill!OfTier THEN "user" ELSE "row"]
    OBVIOUS
  <2>2. handlers' = [handlers EXCEPT ![h] = x]
    BY <1>1, <1>2, <2>1
  <2>3. PICK y : y = [Bill!Idle EXCEPT !.event = e, !.at = IF e.type \in Bill!OfTier THEN "user" ELSE "row"]
    OBVIOUS
  <2>4. x = y
    BY <1>1, <2>1, <2>3
  <2>5. y = w
    BY <2>3 DEF Bill!Idle
  <2> QED BY <2>2, <2>4, <2>5
<1>4. w \in Webhooks
  BY <1>2, NothingYet DEF Webhooks, PlanTiers
<1>5. ~gone' => ~gone /\ e.n >= told /\ \A g \in Calls : ~Busy(g)
  <2>1. e.n \in Nat /\ (e.n >= told \/ e.n < told)
    BY <1>2 DEF StripeEvents
  <2> QED BY <1>1, <2>1 DEF Busy
<1> QED BY <1>1, <1>3, <1>4, <1>5, BillGoesOn

LEMMA BillFails == ASSUME BillInv, NEW h \in Calls, Bill!Fails(h) PROVE BillInv'
<1>1. /\ handlers' = [handlers EXCEPT ![h] = Bill!Idle]
      /\ UNCHANGED <<user, subscription, checkouts, customers, sessions, stripe, events, told, clock, gone>>
  BY DEF Bill!Fails, Bill!account, Bill!stripes, Bill!history
<1> QED BY <1>1, NothingYet, BillGoesOn

LEMMA BillAsks ==
  ASSUME BillInv, NEW r \in Things, Bill!AskCheckout(r) \/ Bill!Checkout(r)
  PROVE  BillInv'
<1> USE DEF BillInv
<1>1. CASE Bill!AskCheckout(r)
  <2>1. /\ checkouts' = [checkouts EXCEPT ![r] = [at |-> "loaded", customer |-> user.customer]]
        /\ UNCHANGED <<user, subscription, customers, sessions, stripe, events, handlers, told, clock, gone>>
    BY <1>1 DEF Bill!AskCheckout, Bill!account, Bill!stripes, Bill!history
  <2>2. BillTypes'
    BY <2>1 DEF BillTypes
  <2>3. OneCustomer => OneCustomer'
    BY <2>1 DEF OneCustomer, BillTypes
  <2>4. Numbered' /\ Handling'
    BY <2>1 DEF Numbered, Handling, Busy
  <2>5. InTurn => InTurn'
    BY <2>1 DEF InTurn, Busy, Bill!Matches, Bill!NoRow
  <2> QED
    BY <2>1, <2>2, <2>3, <2>4, <2>5 DEF InTime, AsTold, NoneLost, UpToStripe, Is, Bill!Live, OneAfterAnother
<1>2. CASE Bill!Checkout(r)
  <2> DEFINE new == checkouts[r].customer = 0
  <2>1. PICK tier \in Bill!Tiers :
          /\ checkouts[r].at = "loaded"
          /\ IF new THEN customers' = customers + 1 /\ user' = [user EXCEPT !.customer = customers']
             ELSE UNCHANGED <<customers, user>>
          /\ gone' = (gone \/ (user'.customer # user.customer /\ user.customer # 0))
          /\ sessions' = sessions \cup
               {[tier |-> tier, customer |-> IF new THEN user'.customer ELSE checkouts[r].customer]}
          /\ checkouts' = [checkouts EXCEPT ![r] = [at |-> "rest", customer |-> 0]]
          /\ UNCHANGED <<subscription, stripe, events, handlers, told, clock>>
    BY <1>2 DEF Bill!Checkout, Bill!NoCustomer
  <2>2. customers \in Nat /\ user \in [tier : PlanTiers, customer : Nat] /\ checkouts[r].customer \in Nat
    BY DEF BillTypes
  <2>3. customers' \in Nat /\ user' \in [tier : PlanTiers, customer : Nat] /\ user'.tier = user.tier
        /\ (new => user'.customer = customers' /\ customers' = customers + 1)
        /\ (~new => user' = user /\ customers' = customers)
    BY <2>1, <2>2
  <2>4. BillTypes'
    BY <2>1, <2>2, <2>3 DEF BillTypes
  <2>5. ASSUME ~gone' PROVE OneCustomer'
    <3>1. ~gone /\ OneCustomer /\ (user'.customer = user.customer \/ user.customer = 0)
      BY <2>1, <2>5
    <3>2. CASE new
      <4>1. user.customer = 0
        BY <2>2, <2>3, <3>1, <3>2 DEF OneCustomer
      <4>2. sessions = {} /\ \A s \in Things : stripe[s].status = "none"
        BY <3>1, <4>1 DEF OneCustomer
      <4>3. \A x \in sessions' : x.customer = user'.customer
        BY <2>1, <3>2, <4>2
      <4>4. \A q \in Things : checkouts'[q].at = "loaded" => checkouts'[q].customer \in {0, user'.customer}
        BY <2>1, <3>1, <4>1 DEF OneCustomer, BillTypes
      <4> QED BY <2>1, <2>2, <2>3, <3>2, <4>2, <4>3, <4>4 DEF OneCustomer
    <3>3. CASE ~new
      <4>1. checkouts[r].customer = user.customer /\ user' = user /\ user.customer # 0
        BY <2>1, <2>3, <3>1, <3>3 DEF OneCustomer
      <4>2. \A q \in Things : checkouts'[q].at = "loaded" => checkouts'[q].customer \in {0, user'.customer}
        BY <2>1, <3>1, <4>1 DEF OneCustomer, BillTypes
      <4> QED BY <2>1, <2>3, <3>1, <3>3, <4>1, <4>2 DEF OneCustomer
    <3> QED BY <3>2, <3>3
  <2>6. Numbered' /\ Handling'
    BY <2>1 DEF Numbered, Handling, Busy
  <2>7. (InTurn /\ OneCustomer => InTurn') /\ (~gone' => ~gone)
    <3>1. ~gone' => ~gone
      BY <2>1
    <3>2. ASSUME InTurn PROVE InTurn'
      <4>1. \A h \in Calls : Bill!Matches(handlers[h].event, subscription)' =
              Bill!Matches(handlers[h].event, subscription)
        BY <2>1 DEF Bill!Matches, Bill!NoRow
      <4> QED BY <2>1, <2>3, <3>2, <4>1 DEF InTurn, Busy
    <3> QED BY <3>1, <3>2
  <2> QED
    BY <2>1, <2>3, <2>4, <2>5, <2>6, <2>7
    DEF InTime, AsTold, NoneLost, UpToStripe, Is, Bill!Live, OneAfterAnother
<1> QED BY <1>1, <1>2

LEMMA BillGivesUp == ASSUME BillInv, Bill!GiveUp PROVE BillInv'
<1> USE DEF BillInv
<1>1. PICK e \in events :
        /\ \A h \in Calls : handlers[h].event # e
        /\ events' = events \ {e} /\ gone' = TRUE
        /\ UNCHANGED <<user, subscription, checkouts, customers, sessions, stripe, handlers, told, clock>>
  BY DEF Bill!GiveUp, Bill!account
<1>2. BillTypes' /\ Numbered'
  BY <1>1 DEF BillTypes, Numbered
<1>3. Handling'
  BY <1>1 DEF Handling, Busy
<1> QED BY <1>1, <1>2, <1>3

\* The event of a change at Stripe is the newest one.
LEMMA BillSends ==
  ASSUME BillInv, NEW s \in Things, NEW e \in StripeEvents, e.n = clock + 1, e.sub = s, OfItsKind(e),
         clock' = clock + 1, events' = events \cup {e},
         stripe' \in [Things -> [tier : PlanTiers, status : {"none", "active", "past_due", "canceled"},
                               customer : Nat]],
         stripe'[s].status = e.status,
         \A o \in Things \ {s} : stripe'[o] = stripe[o],
         UNCHANGED <<user, subscription, checkouts, customers, handlers, told>>,
         sessions' \in SUBSET sessions, ~gone' => ~gone,
         \/ /\ e.type = "completed" /\ stripe[s].status = "none"
            /\ \E x \in sessions : stripe'[s].customer = x.customer
            /\ ~gone' => \A o \in Things : ~Bill!Live(o)
         \/ /\ e.type # "completed" /\ Bill!Live(s) /\ stripe'[s].customer = stripe[s].customer
            /\ ~gone' => stripe'[s].tier = stripe[s].tier
  PROVE  BillInv'
<1> USE DEF BillInv
<1>1. /\ clock \in Nat /\ told \in Nat /\ told <= clock
      /\ \A f \in events : f.n \in Nat /\ f.n >= 1 /\ f.n <= clock /\ f.n # e.n
      /\ e.status \in {"active", "past_due", "canceled"}
  BY DEF BillTypes, Numbered, StripeEvents
<1>2. BillTypes'
  BY DEF BillTypes
<1>3. \A o \in Things : stripe[o].status # "none" => stripe'[o].status # "none"
  BY <1>1
<1>4. \A o \in Things : stripe'[o].status = "none" => stripe'[o] = Bill!Unknown
  BY <1>1 DEF Numbered
<1>5. Numbered'
  BY <1>1, <1>3, <1>4 DEF Numbered, BillTypes, StripeEvents
<1>6. Handling' /\ (~gone' => InTurn')
  <2>1. \A h \in Calls : Busy(h) => handlers[h].event \in events
    BY DEF Handling
  <2>2. Handling'
    BY <2>1 DEF Handling, Busy
  <2>3. \A h \in Calls : Busy(h) =>
          Bill!Matches(handlers[h].event, subscription)' = Bill!Matches(handlers[h].event, subscription)
    <3> SUFFICES ASSUME NEW h \in Calls, Busy(h)
                 PROVE  stripe'[handlers[h].event.sub].customer = stripe[handlers[h].event.sub].customer
      BY DEF Bill!Matches, Bill!NoRow
    <3>1. stripe[handlers[h].event.sub].status # "none" /\ handlers[h].event.sub \in Things
      BY <2>1 DEF Numbered, BillTypes, StripeEvents
    <3> QED BY <3>1 DEF Bill!Live
  <2> QED BY <2>2, <2>3 DEF InTurn, Busy
<1>7. ASSUME ~gone' PROVE OneCustomer'
  <2>1. OneCustomer
    BY <1>7
  <2>2. \A o \in Things : stripe'[o].status # "none" => stripe'[o].customer = user.customer
    BY <1>1, <2>1 DEF OneCustomer, Bill!Live
  <2>3. user.customer = 0 => FALSE
    BY <1>1, <2>1 DEF OneCustomer, Bill!Live
  <2> QED BY <2>1, <2>2, <2>3 DEF OneCustomer
<1>8. ASSUME ~gone', InTime' PROVE AsTold' /\ NoneLost' /\ UpToStripe' /\ OneAfterAnother'
  <2>1. ~gone /\ InTime
    BY <1>8 DEF InTime
  <2>2. AsTold /\ NoneLost /\ UpToStripe /\ OneAfterAnother
    BY <2>1
  <2>3. e.type # "completed" =>
          IF told = clock THEN told > 0 /\ Is(subscription.sub, subscription.status) /\ s = subscription.sub
          ELSE \E f \in events : f.n = clock /\ Is(f.sub, f.status) /\ s = f.sub
    <3> SUFFICES ASSUME Bill!Live(s)
                 PROVE  IF told = clock
                        THEN told > 0 /\ Is(subscription.sub, subscription.status) /\ s = subscription.sub
                        ELSE \E f \in events : f.n = clock /\ Is(f.sub, f.status) /\ s = f.sub
      OBVIOUS
    <3>1. clock > 0
      BY <1>1 DEF Numbered, Bill!Live
    <3>2. CASE told = clock
      BY <2>2, <3>1, <3>2 DEF UpToStripe, Is
    <3>3. CASE told # clock
      <4>1. PICK f \in events : f.n = clock
        BY <1>1, <2>2, <3>3 DEF NoneLost
      <4> QED BY <2>2, <3>3, <4>1 DEF UpToStripe, Is
    <3> QED BY <3>2, <3>3
  <2>4. AsTold'
    <3>1. told > 0 => stripe'[subscription.sub].customer = stripe[subscription.sub].customer
                      /\ stripe'[subscription.sub].tier = stripe[subscription.sub].tier
      BY <1>1, <1>8, <2>2 DEF AsTold, Bill!Live
    <3>2. \A f \in events' : f.n = told => f \in events
      BY <1>1
    <3> QED BY <1>1, <1>3, <2>2, <3>1, <3>2 DEF AsTold
  <2>5. NoneLost'
    BY <1>1, <2>2 DEF NoneLost
  <2>6. Is(e.sub, e.status)'
    <3>1. \A o \in Things \ {s} : ~Bill!Live(o)
      BY <1>8, <2>3 DEF Is
    <3> QED BY <3>1 DEF Is, Bill!Live
  <2>7. UpToStripe'
    <3>1. \A f \in events' : f.n = clock' => f = e
      BY <1>1
    <3>2. ~(told' = clock')
      BY <1>1
    <3>3. \A f \in events' : f.n = clock' => Is(f.sub, f.status)'
      BY <2>6, <3>1 DEF Is
    <3> QED BY <3>2, <3>3 DEF UpToStripe
  <2>8. OneAfterAnother'
    <3> SUFFICES ASSUME NEW f \in events', f.type # "completed"
                 PROVE  /\ f.n = told + 1 => told > 0 /\ f.sub = subscription.sub /\ subscription.status # "canceled"
                        /\ \A g \in events' : f.n = g.n + 1 => f.sub = g.sub /\ g.status # "canceled"
      BY DEF OneAfterAnother
    <3>1. CASE f \in events
      <4>1. \A g \in events' : f.n = g.n + 1 => g \in events
        BY <1>1, <3>1
      <4> QED BY <2>2, <3>1, <4>1 DEF OneAfterAnother
    <3>2. CASE f = e
      <4>1. Bill!Live(s)
        BY <3>2
      <4>2. CASE told = clock
        <5>1. told > 0 /\ s = subscription.sub /\ subscription.status # "canceled"
          BY <2>3, <3>2, <4>1, <4>2 DEF Is, Bill!Live
        <5>2. \A g \in events' : f.n = g.n + 1 => g \in events /\ g.n = told
          BY <1>1, <3>2, <4>2
        <5> QED BY <2>2, <3>2, <5>1, <5>2 DEF AsTold
      <4>3. CASE told # clock
        <5>1. PICK g \in events : g.n = clock /\ Is(g.sub, g.status) /\ s = g.sub
          BY <2>3, <3>2, <4>3
        <5>2. g.status # "canceled"
          BY <4>1, <5>1 DEF Is, Bill!Live
        <5>3. \A o \in events' : f.n = o.n + 1 => o = g
          BY <1>1, <3>2, <5>1 DEF Numbered
        <5>4. f.n # told + 1
          BY <1>1, <3>2, <4>3
        <5> QED BY <3>2, <5>1, <5>2, <5>3, <5>4
      <4> QED BY <4>2, <4>3
    <3> QED BY <3>1, <3>2
  <2> QED BY <2>4, <2>5, <2>7, <2>8
<1> QED BY <1>2, <1>5, <1>6, <1>7, <1>8

LEMMA BillChanges == ASSUME BillInv, NEW s \in Things,
                            \/ Bill!Subscribe(s) \/ Bill!PaymentFails(s) \/ Bill!Pays(s) \/ Bill!Ends(s)
                            \/ Bill!Updates(s)
                     PROVE  BillInv'
<1>1. /\ stripe \in [Things -> [tier : PlanTiers, status : {"none", "active", "past_due", "canceled"},
                              customer : Nat]]
      /\ sessions \in SUBSET [tier : Bill!Tiers, customer : Nat] /\ clock \in Nat /\ clock' = clock + 1
  BY DEF BillInv, BillTypes, Bill!Subscribe, Bill!PaymentFails, Bill!Pays, Bill!Ends, Bill!Updates,
     Bill!Changes,
         Bill!Sends
<1>2. stripe[s] \in [tier : PlanTiers, status : {"none", "active", "past_due", "canceled"}, customer : Nat]
  BY <1>1
<1>3. ASSUME NEW status \in {"active", "past_due", "canceled"},
             NEW type \in {"updated", "payment_failed", "paid", "deleted"},
             Bill!Live(s), Bill!Changes(s, status, type), OfItsKind(Bill!Event(clock + 1, type, s, status))
      PROVE  BillInv'
  <2> DEFINE e == Bill!Event(clock + 1, type, s, status)
  <2>1. e \in StripeEvents /\ e.n = clock + 1 /\ e.sub = s /\ e.status = status /\ e.type = type
    BY <1>1 DEF StripeEvents, Bill!Event
  <2>2. /\ stripe' = [stripe EXCEPT ![s].status = status] /\ events' = events \cup {e}
        /\ UNCHANGED <<user, subscription, checkouts, customers, sessions, handlers, told, gone>>
    BY <1>1, <1>3 DEF Bill!Changes, Bill!Sends, Bill!account, Bill!history
  <2>3. /\ stripe' \in [Things -> [tier : PlanTiers, status : {"none", "active", "past_due", "canceled"},
                                 customer : Nat]]
        /\ stripe'[s].status = status /\ stripe'[s].customer = stripe[s].customer /\ stripe'[s].tier = stripe[s].tier
        /\ \A o \in Things \ {s} : stripe'[o] = stripe[o]
    BY <1>1, <1>2, <2>2
  <2> HIDE DEF e
  <2>4. OfItsKind(e)
    BY <1>3 DEF e
  <2>5. sessions' \in SUBSET sessions /\ (~gone' => ~gone)
    BY <2>2
  <2> QED BY <1>1, <1>3, <2>1, <2>2, <2>3, <2>4, <2>5, BillSends
<1>4. CASE Bill!Subscribe(s)
  <2> DEFINE e == Bill!Event(clock + 1, "completed", s, "active")
  <2>1. e \in StripeEvents /\ e.n = clock + 1 /\ e.sub = s /\ e.status = "active" /\ e.type = "completed"
    BY <1>1 DEF StripeEvents, Bill!Event
  <2>2. PICK x \in sessions :
          /\ stripe[s] = Bill!Unknown
          /\ stripe' = [stripe EXCEPT ![s] = [tier |-> x.tier, status |-> "active", customer |-> x.customer]]
          /\ sessions' = sessions \ {x} /\ events' = events \cup {e}
          /\ gone' = (gone \/ \E o \in Things : Bill!Live(o))
          /\ UNCHANGED <<user, subscription, checkouts, customers, handlers, told>>
    BY <1>1, <1>4 DEF Bill!Subscribe, Bill!Sends, Bill!account
  <2>3. /\ stripe' \in [Things -> [tier : PlanTiers, status : {"none", "active", "past_due", "canceled"},
                                 customer : Nat]]
        /\ stripe'[s].status = "active" /\ stripe'[s].customer = x.customer
        /\ \A o \in Things \ {s} : stripe'[o] = stripe[o]
    BY <1>1, <2>2 DEF PlanTiers
  <2>4. stripe[s].status = "none" /\ \E y \in sessions : stripe'[s].customer = y.customer
    BY <2>2, <2>3, NothingYet
  <2>5. sessions' \in SUBSET sessions /\ (~gone' => ~gone) /\ (~gone' => \A o \in Things : ~Bill!Live(o))
    BY <2>2
  <2> HIDE DEF e
  <2>6. OfItsKind(e)
    BY <2>1 DEF OfItsKind
  <2> QED BY <1>1, <2>1, <2>2, <2>3, <2>4, <2>5, <2>6, BillSends
<1>5. CASE Bill!PaymentFails(s)
  BY <1>3, <1>5 DEF Bill!PaymentFails, Bill!Live, OfItsKind, Bill!Event
<1>6. CASE Bill!Pays(s)
  BY <1>3, <1>6 DEF Bill!Pays, Bill!Live, OfItsKind, Bill!Event
<1>7. CASE Bill!Ends(s)
  BY <1>3, <1>7 DEF Bill!Ends, Bill!Live, OfItsKind, Bill!Event
<1>8. CASE Bill!Updates(s)
  <2> DEFINE e == Bill!Event(clock + 1, "updated", s, stripe[s].status)
  <2>1. stripe[s].status \in Paying
    BY <1>8 DEF Bill!Updates, Bill!Live, Paying
  <2>2. e \in StripeEvents /\ e.n = clock + 1 /\ e.sub = s /\ e.status = stripe[s].status /\ e.type = "updated"
    BY <1>1, <2>1 DEF StripeEvents, Bill!Event, Paying
  <2>3. PICK tier \in Bill!Tiers :
          /\ stripe' = [stripe EXCEPT ![s].tier = tier]
          /\ gone' = (gone \/ tier # stripe[s].tier) /\ events' = events \cup {e}
          /\ UNCHANGED <<user, subscription, checkouts, customers, sessions, handlers, told>>
    BY <1>1, <1>8 DEF Bill!Updates, Bill!Sends, Bill!account
  <2>4. /\ stripe' \in [Things -> [tier : PlanTiers, status : {"none", "active", "past_due", "canceled"},
                                 customer : Nat]]
        /\ stripe'[s].status = stripe[s].status /\ stripe'[s].customer = stripe[s].customer /\ stripe'[s].tier = tier
        /\ \A o \in Things \ {s} : stripe'[o] = stripe[o]
    BY <1>1, <1>2, <2>3 DEF PlanTiers
  <2>5. sessions' \in SUBSET sessions /\ (~gone' => ~gone) /\ (~gone' => stripe'[s].tier = stripe[s].tier)
    BY <2>3, <2>4
  <2> HIDE DEF e
  <2>6. OfItsKind(e) /\ Bill!Live(s)
    BY <1>8, <2>1, <2>2 DEF OfItsKind, Bill!Updates
  <2> QED BY <1>1, <2>2, <2>3, <2>4, <2>5, <2>6, BillSends
<1> QED BY <1>4, <1>5, <1>6, <1>7, <1>8

\* As long as nothing went astray, the row a webhook of a change is about is there.
LEMMA RowIsThere ==
  ASSUME BillInv, ~gone, InTime, NEW e \in events, e.type # "completed", e.n \in {told, told + 1}
  PROVE  /\ Bill!Matches(e, subscription) /\ subscription # Bill!NoRow
         /\ e.sub = subscription.sub /\ subscription.customer = stripe[e.sub].customer
         /\ e.status # "canceled" => user.tier = stripe[e.sub].tier
<1> USE DEF BillInv
<1>1. e.n >= 1 /\ e.n \in Nat /\ told \in Nat
  BY DEF Numbered, BillTypes, StripeEvents
<1>2. AsTold /\ OneAfterAnother
  OBVIOUS
<1>3. told > 0
  BY <1>1, <1>2 DEF OneAfterAnother
<1>4. e.sub = subscription.sub /\ (e.status # "canceled" => subscription.status # "canceled")
  BY <1>1, <1>2, <1>3 DEF OneAfterAnother, AsTold
<1>5. subscription # Bill!NoRow /\ subscription.customer = stripe[e.sub].customer
  BY <1>1, <1>2, <1>3, <1>4, NothingYet DEF AsTold
<1> QED BY <1>1, <1>2, <1>3, <1>4, <1>5 DEF Bill!Matches, AsTold

\* A webhook is answered: what it was about is what there is, when nothing went astray.
LEMMA BillSettles ==
  ASSUME BillInv, NEW h \in Calls, Busy(h), Bill!Answered(h), gone' = gone,
         user' \in [tier : PlanTiers, customer : Nat], subscription' \in PlanRows, user'.customer = user.customer,
         NEW e, e = handlers[h].event,
         ~gone /\ InTime /\ e.n \in {told, told + 1} =>
           /\ subscription'.sub = e.sub /\ subscription'.status = e.status
           /\ subscription'.customer = stripe[e.sub].customer
           /\ user'.tier = IF e.status = "canceled" THEN "free" ELSE stripe[e.sub].tier
  PROVE  BillInv'
<1> USE DEF BillInv
<1>1. e \in events /\ e \in StripeEvents /\ \A g \in Calls \ {h} : Busy(g) => handlers[g].event # e
  BY DEF Handling, BillTypes
<1>2. /\ told \in Nat /\ clock \in Nat /\ e.n \in Nat /\ e.n >= 1 /\ e.n <= clock /\ told <= clock
      /\ \A f \in events : f.n \in Nat /\ (f.n = e.n => f = e)
  BY <1>1 DEF BillTypes, Numbered, StripeEvents
<1>3. /\ events' \in SUBSET events /\ events \ {e} \in SUBSET events'
      /\ told' = (IF e.n > told THEN e.n ELSE told)
      /\ handlers' = [handlers EXCEPT ![h] = Bill!Idle]
      /\ UNCHANGED <<checkouts, customers, sessions, stripe, clock>>
  BY DEF Bill!Answered
<1>4. handlers'[h] = Bill!Idle /\ \A g \in Calls \ {h} : handlers'[g] = handlers[g]
  BY <1>3 DEF BillTypes
<1>5. BillTypes'
  <2>1. handlers' \in [Calls -> Webhooks]
    BY <1>3, NothingYet DEF BillTypes, Webhooks
  <2> QED BY <1>2, <1>3, <2>1 DEF BillTypes, Webhooks
<1>6. Numbered'
  BY <1>2, <1>3 DEF Numbered
<1>7. Handling'
  BY <1>1, <1>3, <1>4 DEF Handling, Busy
<1>8. ~gone' => InTurn' /\ OneCustomer'
  <2>1. ~gone' => InTurn'
    BY <1>4 DEF InTurn, Busy
  <2> QED BY <1>3, <2>1 DEF OneCustomer
<1>9. ASSUME ~gone', InTime' PROVE AsTold' /\ NoneLost' /\ UpToStripe' /\ OneAfterAnother'
  <2>1. ~gone /\ e.n >= told
    BY <1>9 DEF InTurn
  <2>2. told' = e.n
    BY <1>2, <1>3, <2>1
  <2>3. InTime
    BY <1>2, <1>3, <1>9, <2>1, <2>2 DEF InTime
  <2>4. AsTold /\ NoneLost /\ UpToStripe /\ OneAfterAnother
    BY <2>1, <2>3
  <2>5. e.n \in {told, told + 1}
    <3> SUFFICES ASSUME e.n > told + 1 PROVE FALSE
      BY <1>2, <2>1
    <3>1. PICK f \in events : f.n = told + 1
      BY <1>2, <2>4 DEF NoneLost
    <3>2. f \in events'
      BY <1>2, <1>3, <3>1
    <3> QED BY <1>2, <1>9, <2>2, <3>1, <3>2 DEF InTime
  <2>6. /\ subscription'.sub = e.sub /\ subscription'.status = e.status
        /\ subscription'.customer = stripe[e.sub].customer
        /\ user'.tier = IF e.status = "canceled" THEN "free" ELSE stripe[e.sub].tier
    BY <2>1, <2>3, <2>5
  <2>7. stripe[e.sub].status # "none" /\ e.sub \in Things /\ e.status # "none"
    BY <1>1 DEF Numbered, StripeEvents
  <2>8. AsTold'
    BY <1>2, <1>3, <2>2, <2>6, <2>7 DEF AsTold
  <2>9. NoneLost'
    <3> SUFFICES ASSUME NEW n \in e.n + 1 .. clock PROVE \E f \in events' : f.n = n
      BY <1>3, <2>2 DEF NoneLost
    <3>1. PICK f \in events : f.n = n
      BY <1>2, <2>1, <2>4 DEF NoneLost
    <3> QED BY <1>2, <1>3, <3>1
  <2>10. UpToStripe'
    <3>1. e.n = clock => Is(e.sub, e.status)
      BY <1>1, <2>4 DEF UpToStripe
    <3>2. \A f \in events' : f.n = clock' => Is(f.sub, f.status)'
      BY <1>3, <2>4 DEF UpToStripe, Is, Bill!Live
    <3>3. told' = clock' => Is(subscription.sub, subscription.status)'
      BY <1>3, <2>2, <2>6, <3>1 DEF Is, Bill!Live
    <3> QED BY <3>2, <3>3 DEF UpToStripe
  <2>11. OneAfterAnother'
    BY <1>1, <1>2, <1>3, <2>2, <2>4, <2>6 DEF OneAfterAnother
  <2> QED BY <2>8, <2>9, <2>10, <2>11
<1> QED BY <1>5, <1>6, <1>7, <1>8, <1>9

\* A webhook under way, and what a step of it reads.
LEMMA UnderWay ==
  ASSUME BillInv, NEW h \in Calls, handlers[h].at # "rest"
  PROVE  /\ Busy(h) /\ handlers[h] \in Webhooks /\ handlers[h].event \in events /\ handlers[h].event \in StripeEvents
         /\ \A g \in Calls \ {h} : Busy(g) => handlers[g].event # handlers[h].event
<1> USE DEF BillInv
<1>1. Busy(h) /\ handlers[h].event \in events
  BY NothingYet DEF Busy, Handling
<1>2. handlers[h] \in Webhooks /\ handlers[h].event \in StripeEvents
  BY <1>1 DEF BillTypes, Webhooks
<1> QED BY <1>1, <1>2 DEF Handling

LEMMA AloneUnderWay ==
  ASSUME BillInv, NEW h \in Calls, Busy(h), ~gone
  PROVE  /\ \A g \in Calls \ {h} : ~Busy(g)
         /\ handlers[h].event.n >= told
         /\ stripe[handlers[h].event.sub].customer = user.customer
<1> USE DEF BillInv
<1>1. handlers[h].event \in events /\ handlers[h].event.sub \in Things
  BY DEF Handling, BillTypes, StripeEvents
<1>2. stripe[handlers[h].event.sub].status # "none"
  BY <1>1 DEF Numbered
<1> QED BY <1>1, <1>2 DEF InTurn, OneCustomer

LEMMA BillFindsUser == ASSUME BillInv, NEW h \in Calls, Bill!FindUser(h) PROVE BillInv'
<1> DEFINE e == handlers[h].event
<1>1. handlers[h].at = "user" /\ e.type \in Bill!OfTier
  BY UnderWay DEF Bill!FindUser, BillInv, Handling
<1>4. /\ Busy(h) /\ handlers[h] \in Webhooks /\ e \in events /\ e \in StripeEvents
      /\ \A g \in Calls \ {h} : Busy(g) => handlers[g].event # e
      /\ ~gone => (\A g \in Calls \ {h} : ~Busy(g)) /\ e.n >= told /\ stripe[e.sub].customer = user.customer
  <2>1. handlers[h].at # "rest"
    BY <1>1
  <2>2. Busy(h) /\ handlers[h] \in Webhooks
    BY <2>1, UnderWay
  <2>3. e \in events /\ e \in StripeEvents /\ \A g \in Calls \ {h} : Busy(g) => handlers[g].event # e
    BY <2>1, UnderWay
  <2>4. ASSUME ~gone
        PROVE  e.n >= told /\ stripe[e.sub].customer = user.customer /\ \A g \in Calls \ {h} : ~Busy(g)
    BY <2>2, <2>4, AloneUnderWay
  <2> QED BY <2>2, <2>3, <2>4
<1>2. CASE /\ handlers' = [handlers EXCEPT ![h].at = "row", ![h].user = user.tier]
           /\ UNCHANGED <<user, subscription, checkouts, customers, sessions, stripe, events, told, clock, gone>>
  <2> DEFINE w == [event |-> e, at |-> "row", user |-> user.tier, row |-> handlers[h].row]
  <2>1. w \in Webhooks
    BY <1>1, UnderWay DEF Webhooks, BillInv, BillTypes
  <2>2. handlers' = [handlers EXCEPT ![h] = w]
    <3>1. PICK x : x = [handlers[h] EXCEPT !.at = "row", !.user = user.tier]
      OBVIOUS
    <3>2. handlers[h] \in Webhooks
      BY <1>4
    <3>3. x = w
      BY <3>1, <3>2 DEF Webhooks
    <3>4. handlers \in [Calls -> Webhooks]
      BY DEF BillInv, BillTypes, Webhooks
    <3> QED BY <1>2, <3>1, <3>3, <3>4
  <2>3. /\ w.event \in events /\ w.at # "rest" /\ (w.at = "user" => w.event.type \in Bill!OfTier)
        /\ \A g \in Calls \ {h} : Busy(g) => handlers[g].event # w.event
        /\ ~gone' =>
             /\ \A g \in Calls \ {h} : ~Busy(g)
             /\ w.event.n >= told
             /\ w.at \in {"row", "commit"} =>
                  IF w.event.type \in Bill!OfTier THEN w.user = user.tier ELSE w.user = "free"
             /\ w.at = "commit" =>
                  w.row = IF Bill!Matches(w.event, subscription) THEN subscription ELSE Bill!NoRow
    BY <1>1, <1>2, <1>4
  <2> HIDE DEF w
  <2> QED BY <1>2, <2>1, <2>2, <2>3, BillGoesOn
<1>3. CASE /\ e.type # "completed" /\ stripe[e.sub].customer # user.customer
           /\ Bill!Answered(h) /\ UNCHANGED <<user, subscription, gone>>
  <2>1. gone /\ Busy(h)
    BY <1>3, <1>4
  <2>2. user' \in [tier : PlanTiers, customer : Nat] /\ subscription' \in PlanRows
    BY <1>3 DEF BillInv, BillTypes
  <2> QED BY <1>3, <2>1, <2>2, BillSettles
<1> QED BY <1>2, <1>3 DEF Bill!FindUser, Bill!account, Bill!stripes, Bill!history

LEMMA BillFindsRow == ASSUME BillInv, NEW h \in Calls, Bill!FindRow(h) PROVE BillInv'
<1> DEFINE e == handlers[h].event
<1>1. handlers[h].at = "row"
  BY DEF Bill!FindRow
<1>4. /\ Busy(h) /\ handlers[h] \in Webhooks /\ e \in events /\ e \in StripeEvents
      /\ \A g \in Calls \ {h} : Busy(g) => handlers[g].event # e
      /\ ~gone => (\A g \in Calls \ {h} : ~Busy(g)) /\ e.n >= told /\ stripe[e.sub].customer = user.customer
  <2>1. handlers[h].at # "rest"
    BY <1>1
  <2>2. Busy(h) /\ handlers[h] \in Webhooks
    BY <2>1, UnderWay
  <2>3. e \in events /\ e \in StripeEvents /\ \A g \in Calls \ {h} : Busy(g) => handlers[g].event # e
    BY <2>1, UnderWay
  <2>4. ASSUME ~gone
        PROVE  e.n >= told /\ stripe[e.sub].customer = user.customer /\ \A g \in Calls \ {h} : ~Busy(g)
    BY <2>2, <2>4, AloneUnderWay
  <2> QED BY <2>2, <2>3, <2>4
<1> DEFINE found == IF Bill!Matches(e, subscription) THEN subscription ELSE Bill!NoRow
<1>2. CASE /\ handlers' = [handlers EXCEPT ![h].at = "commit", ![h].row = found]
           /\ UNCHANGED <<user, subscription, checkouts, customers, sessions, stripe, events, told, clock, gone>>
  <2> DEFINE w == [event |-> e, at |-> "commit", user |-> handlers[h].user, row |-> found]
  <2>1. w \in Webhooks
    BY <1>1, UnderWay, NothingYet DEF Webhooks, BillInv, BillTypes
  <2>2. handlers' = [handlers EXCEPT ![h] = w]
    <3>1. PICK x : x = [handlers[h] EXCEPT !.at = "commit", !.row = found]
      OBVIOUS
    <3>2. handlers[h] \in Webhooks
      BY <1>4
    <3>3. x = w
      BY <3>1, <3>2 DEF Webhooks
    <3>4. handlers \in [Calls -> Webhooks]
      BY DEF BillInv, BillTypes, Webhooks
    <3> QED BY <1>2, <3>1, <3>3, <3>4
  <2>3. ~gone => IF e.type \in Bill!OfTier THEN handlers[h].user = user.tier ELSE handlers[h].user = "free"
    BY <1>1, UnderWay DEF BillInv, InTurn
  <2>4. /\ w.event \in events /\ w.at # "rest" /\ (w.at = "user" => w.event.type \in Bill!OfTier)
        /\ \A g \in Calls \ {h} : Busy(g) => handlers[g].event # w.event
        /\ ~gone' =>
             /\ \A g \in Calls \ {h} : ~Busy(g)
             /\ w.event.n >= told
             /\ w.at \in {"row", "commit"} =>
                  IF w.event.type \in Bill!OfTier THEN w.user = user.tier ELSE w.user = "free"
             /\ w.at = "commit" =>
                  w.row = IF Bill!Matches(w.event, subscription) THEN subscription ELSE Bill!NoRow
    BY <1>1, <1>2, <1>4, <2>3
  <2> HIDE DEF w
  <2> QED BY <1>2, <2>1, <2>2, <2>4, BillGoesOn
<1>3. CASE /\ ~Bill!Matches(e, subscription) /\ e.type \notin Bill!OfTier
           /\ Bill!Answered(h) /\ UNCHANGED <<user, subscription, gone>>
  <2>1. Busy(h) /\ e \in events /\ e.type # "completed"
    BY <1>1, <1>3, UnderWay DEF Bill!OfTier
  <2>2. ~(~gone /\ InTime /\ e.n \in {told, told + 1})
    BY <1>3, <2>1, RowIsThere
  <2>3. user' \in [tier : PlanTiers, customer : Nat] /\ subscription' \in PlanRows
    BY <1>3 DEF BillInv, BillTypes
  <2> QED BY <1>3, <2>1, <2>2, <2>3, BillSettles
<1> QED BY <1>2, <1>3 DEF Bill!FindRow, Bill!account, Bill!stripes, Bill!history

LEMMA WantedIsARow ==
  ASSUME BillInv, NEW e \in StripeEvents, NEW seen \in PlanRows PROVE Bill!Wanted(e, seen) \in PlanRows
<1>1. stripe[e.sub].tier \in PlanTiers /\ stripe[e.sub].customer \in Nat /\ e.sub \in Things
  BY DEF BillInv, BillTypes, StripeEvents
<1>2. e.type \in {"completed", "updated", "payment_failed", "paid", "deleted"}
      /\ e.status \in {"active", "past_due", "canceled"}
  BY DEF StripeEvents
<1> QED BY <1>1, <1>2 DEF Bill!Wanted, PlanRows, PlanTiers

LEMMA BillApplies == ASSUME BillInv, NEW h \in Calls, Bill!Apply(h) PROVE BillInv'
<1> DEFINE e == handlers[h].event
           seen == handlers[h].row
           new == Bill!Wanted(e, seen)
           tier == Bill!TierAfter(e, handlers[h].user)
<1>1. /\ handlers[h].at = "commit"
      /\ subscription' = (IF seen = Bill!NoRow /\ e.type # "completed" THEN subscription
                          ELSE Bill!Merged(subscription, seen, new))
      /\ user' = (IF tier = handlers[h].user THEN user ELSE [user EXCEPT !.tier = tier])
      /\ Bill!Answered(h) /\ gone' = gone
  BY DEF Bill!Apply
<1>2. /\ Busy(h) /\ e \in events /\ e \in StripeEvents /\ seen \in PlanRows /\ handlers[h].user \in PlanTiers
      /\ subscription \in PlanRows /\ user \in [tier : PlanTiers, customer : Nat]
  BY <1>1, UnderWay DEF Webhooks, BillInv, BillTypes
<1>3. new \in PlanRows
  BY <1>2, WantedIsARow
<1>4. Bill!Merged(subscription, seen, new) =
        [tier |-> IF new.tier # seen.tier THEN new.tier ELSE subscription.tier,
         status |-> IF new.status # seen.status THEN new.status ELSE subscription.status,
         sub |-> IF new.sub # seen.sub THEN new.sub ELSE subscription.sub,
         customer |-> IF new.customer # seen.customer THEN new.customer ELSE subscription.customer]
  BY <1>2 DEF Bill!Merged, PlanRows
<1>5. subscription' \in PlanRows
  BY <1>1, <1>2, <1>3, <1>4 DEF PlanRows
<1>6. tier \in PlanTiers
  <2>1. stripe[e.sub].tier \in PlanTiers
    BY <1>2 DEF BillInv, BillTypes, StripeEvents
  <2> QED BY <1>2, <2>1 DEF Bill!TierAfter, PlanTiers
<1>7. user' \in [tier : PlanTiers, customer : Nat] /\ user'.customer = user.customer
      /\ user'.tier = (IF tier = handlers[h].user THEN user.tier ELSE tier)
  BY <1>1, <1>2, <1>6
<1>8. ASSUME ~gone, InTime, e.n \in {told, told + 1}
      PROVE  /\ subscription'.sub = e.sub /\ subscription'.status = e.status
             /\ subscription'.customer = stripe[e.sub].customer
             /\ user'.tier = IF e.status = "canceled" THEN "free" ELSE stripe[e.sub].tier
  <2>1. /\ seen = IF Bill!Matches(e, subscription) THEN subscription ELSE Bill!NoRow
        /\ IF e.type \in Bill!OfTier THEN handlers[h].user = user.tier ELSE handlers[h].user = "free"
    BY <1>1, <1>2, <1>8 DEF BillInv, InTurn
  <2>2. OfItsKind(e)
    BY <1>2 DEF BillInv, Numbered
  <2>3. CASE e.type = "completed"
    <3>1. seen = subscription /\ e.status = "active"
      BY <2>1, <2>2, <2>3 DEF Bill!Matches, OfItsKind
    <3>2. new = [tier |-> stripe[e.sub].tier, status |-> "active", sub |-> e.sub,
                 customer |-> stripe[e.sub].customer] /\ tier = stripe[e.sub].tier
      BY <2>3 DEF Bill!Wanted, Bill!TierAfter
    <3>3. handlers[h].user = user.tier
      BY <2>1, <2>3 DEF Bill!OfTier
    <3> QED BY <1>1, <1>4, <1>7, <2>3, <3>1, <3>2, <3>3
  <2>4. CASE e.type # "completed"
    <3>1. /\ seen = subscription /\ subscription # Bill!NoRow
          /\ e.sub = subscription.sub /\ subscription.customer = stripe[e.sub].customer
          /\ e.status # "canceled" => user.tier = stripe[e.sub].tier
      BY <1>2, <1>8, <2>1, <2>4, RowIsThere
    <3>2. new.status = e.status /\ new.sub = seen.sub /\ new.customer = seen.customer
      <4>1. e.type \in {"updated", "payment_failed", "paid", "deleted"}
        BY <1>2, <2>4 DEF StripeEvents
      <4> QED BY <1>2, <2>2, <3>1, <4>1 DEF Bill!Wanted, OfItsKind, PlanRows
    <3>3. user'.tier = IF e.status = "canceled" THEN "free" ELSE user.tier
      <4>1. CASE e.type = "deleted"
        <5>1. e.status = "canceled" /\ tier = "free" /\ handlers[h].user = user.tier
          BY <2>1, <2>2, <4>1 DEF OfItsKind, Bill!TierAfter, Bill!OfTier
        <5> QED BY <1>7, <5>1
      <4>2. CASE e.type # "deleted"
        <5>1. e.status # "canceled" /\ tier = handlers[h].user
          BY <1>2, <2>2, <2>4, <4>2 DEF OfItsKind, Bill!TierAfter, StripeEvents, Paying
        <5> QED BY <1>7, <5>1
      <4> QED BY <4>1, <4>2
    <3>4. /\ subscription'.sub = e.sub /\ subscription'.status = e.status
          /\ subscription'.customer = stripe[e.sub].customer
      BY <1>1, <1>4, <3>1, <3>2
    <3> QED BY <3>1, <3>3, <3>4
  <2> QED BY <2>3, <2>4
<1> HIDE DEF tier, new, seen
<1> QED BY <1>1, <1>2, <1>5, <1>7, <1>8, BillSettles

LEMMA BillSteps == BillInv /\ [Bill!Next]_billVars => BillInv'
<1> SUFFICES ASSUME BillInv, [Bill!Next]_billVars PROVE BillInv'
  OBVIOUS
<1>1. CASE UNCHANGED billVars
  BY <1>1 DEF billVars, BillInv, BillTypes, Numbered, Handling, Busy, InTurn, OneCustomer, InTime, AsTold,
     NoneLost,
              UpToStripe, Is, Bill!Live, OneAfterAnother, Bill!Matches
<1>2. ASSUME NEW r \in Things, Bill!AskCheckout(r) \/ Bill!Checkout(r) PROVE BillInv'
  BY <1>2, BillAsks
<1>3. ASSUME NEW s \in Things,
             \/ Bill!Subscribe(s) \/ Bill!PaymentFails(s) \/ Bill!Pays(s) \/ Bill!Ends(s) \/ Bill!Updates(s)
      PROVE  BillInv'
  BY <1>3, BillChanges
<1>4. ASSUME NEW h \in Calls,
             \/ Bill!Receive(h) \/ Bill!FindUser(h) \/ Bill!FindRow(h) \/ Bill!Apply(h) \/ Bill!Fails(h)
      PROVE  BillInv'
  BY <1>4, BillReceives, BillFindsUser, BillFindsRow, BillApplies, BillFails
<1> QED BY <1>1, <1>2, <1>3, <1>4, BillGivesUp DEF Bill!Next

\* When Stripe has told everything, in order and of one subscription at a time, the user has the
\* tier that is paid for and is blocked exactly while a payment is due.
THEOREM BillSafe == Bill!Spec => []FollowsStripe
<1>1. BillInv => FollowsStripe
  <2> SUFFICES ASSUME BillInv, events = {}, ~gone
               PROVE  /\ user.tier = IF \E s \in Things : Bill!Live(s)
                                     THEN stripe[CHOOSE s \in Things : Bill!Live(s)].tier ELSE "free"
                      /\ Bill!Blocked <=> \E s \in Things : stripe[s].status = "past_due"
    BY DEF FollowsStripe, Bill!FollowsStripe
  <2>1. AsTold /\ NoneLost /\ UpToStripe /\ Numbered /\ told \in Nat /\ clock \in Nat
    BY DEF BillInv, InTime, BillTypes
  <2>2. told = clock
    <3> SUFFICES ASSUME told < clock PROVE FALSE
      BY <2>1 DEF Numbered
    <3>1. told + 1 \in told + 1 .. clock
      BY <2>1
    <3> QED BY <2>1, <3>1 DEF NoneLost
  <2>3. CASE told = 0
    <3>1. \A s \in Things : stripe[s].status = "none"
      BY <2>1, <2>2, <2>3 DEF Numbered
    <3>2. subscription.status = "none" /\ user.tier = "free"
      BY <2>1, <2>3, NothingYet DEF AsTold
    <3> QED BY <3>1, <3>2 DEF Bill!Live, Bill!Blocked
  <2>4. CASE told > 0
    <3>1. /\ subscription.sub \in Things /\ stripe[subscription.sub].status = subscription.status
          /\ \A o \in Things : Bill!Live(o) => o = subscription.sub
          /\ user.tier = IF subscription.status = "canceled" THEN "free" ELSE stripe[subscription.sub].tier
          /\ subscription.status \in {"active", "past_due", "canceled"}
      BY <2>1, <2>2, <2>4 DEF AsTold, UpToStripe, Is, BillInv, BillTypes, PlanRows
    <3>2. CASE subscription.status = "canceled"
      <4>1. \A o \in Things : ~Bill!Live(o)
        BY <3>1, <3>2 DEF Bill!Live
      <4> QED BY <3>1, <3>2, <4>1 DEF Bill!Live, Bill!Blocked
    <3>3. CASE subscription.status # "canceled"
      <4>1. Bill!Live(subscription.sub)
        BY <3>1, <3>3 DEF Bill!Live
      <4>2. (CHOOSE s \in Things : Bill!Live(s)) = subscription.sub
        BY <3>1, <4>1
      <4> QED BY <3>1, <3>3, <4>1, <4>2 DEF Bill!Live, Bill!Blocked
    <3> QED BY <3>2, <3>3
  <2> QED BY <2>1, <2>3, <2>4
<1>2. BillInv /\ [Bill!Next]_(Bill!vars) => BillInv'
  BY BillSteps DEF Bill!vars, Bill!account, Bill!stripes, Bill!history, billVars
<1> QED BY <1>1, <1>2, BillStarts, PTL DEF Bill!Spec

-----------------------------------------------------------------------------
(*******************************************************************************)
(* Clusters                                                                    *)
(*******************************************************************************)
Ids == Things \cup {a1}
FleetNames ==
  Chosen \cup {Fleet!Name(m.prefix, i) : m \in Manifests, i \in Nat}
    \cup {Fleet!Name(<<"Engineer">>, Fleet!Cardinality(S) + 1) : S \in SUBSET Ids}
FleetAgent ==
  [role : {m.role : m \in Manifests} \cup {"engineer"}, name : FleetNames,
   model : Fleet!Models, label : Fleet!Labels]
FleetRows == {Fleet!Absent} \cup FleetAgent
PlanItems ==
  {i \in [action : {"create", "update", "delete"}, agent : Ids \cup {NoAgent}, name : FleetNames] :
     i.action # "create" => i.agent \in Ids}
FleetTx ==
  {t \in [manifest : Manifests \cup {none}, todo : SUBSET PlanItems, locks : SUBSET Ids,
          alone : BOOLEAN] :
     t.todo # {} => t.manifest \in Manifests}

\* What is left to do of a manifest m when the agents are s.
MembersApart(m, s) ==
  \A a, b \in Ids :
    Fleet!Member(m, s[a]) /\ Fleet!Member(m, s[b]) /\ s[a].name = s[b].name => a = b
ItemRight(m, s, i) ==
  IF i.action = "create"
  THEN /\ i.agent = NoAgent /\ i.name \in Fleet!Desired(m)
       /\ \A a \in Ids : Fleet!Member(m, s[a]) => s[a].name # i.name
  ELSE /\ i.agent \in Ids /\ Fleet!Member(m, s[i.agent]) /\ s[i.agent].name = i.name
       /\ i.action = "update" <=> i.name \in Fleet!Desired(m)
NamePlanned(m, s, todo, n) ==
  \/ \E a \in Ids : Fleet!Member(m, s[a]) /\ s[a].name = n
  \/ \E i \in todo : i.action = "create" /\ i.name = n
AgentPlanned(m, s, todo, a) ==
  IF s[a].name \in Fleet!Desired(m)
  THEN s[a].model = m.model \/ \E i \in todo : i.action = "update" /\ i.agent = a
  ELSE \E i \in todo : i.action = "delete" /\ i.agent = a
Plan(m, s, todo) ==
  /\ MembersApart(m, s)
  /\ \A i \in todo : ItemRight(m, s, i)
  /\ \A n \in Fleet!Desired(m) : NamePlanned(m, s, todo, n)
  /\ \A a \in Ids : Fleet!Member(m, s[a]) => AgentPlanned(m, s, todo, a)

LEMMA ItemsDiffer ==
  ASSUME NEW i \in PlanItems, NEW j \in PlanItems, i # j
  PROVE  i.action # j.action \/ i.agent # j.agent \/ i.name # j.name
  BY DEF PlanItems

LEMMA MemberRow ==
  ASSUME NEW m \in Manifests, NEW x \in FleetRows, Fleet!Member(m, x)
  PROVE  x \in FleetAgent /\ x # Fleet!Absent /\ x.role = m.role /\ Fleet!Begins(x.name, m.prefix)
  BY DEF Fleet!Member, FleetRows

LEMMA NewMember ==
  ASSUME NEW m \in Manifests, Fleet!Valid(m), NEW n \in Fleet!Desired(m)
  PROVE  LET x == Fleet!Agent(m.role, n, m.model, m.cluster) IN
         /\ x \in FleetRows /\ Fleet!Member(m, x) /\ x.name = n /\ x.model = m.model
<1>1. PICK x : x = Fleet!Agent(m.role, n, m.model, m.cluster)
  OBVIOUS
<1>2. PICK k \in 1..m.replicas : n = Fleet!Name(m.prefix, k)
  BY DEF Fleet!Desired
<1>3. m.replicas \in 1..20 /\ m.role \in Fleet!Roles
  BY DEF Fleet!Valid
<1>4. n \in FleetNames /\ n.words = m.prefix
  <2>1. k \in Nat
    BY <1>3
  <2> QED BY <1>2, <2>1 DEF FleetNames, Fleet!Name
<1>5. x \in FleetAgent /\ x.name = n /\ x.role = m.role /\ x.model = m.model
  BY <1>1, <1>4 DEF FleetAgent, Fleet!Agent, Fleet!Models, Fleet!Labels
<1>6. x # Fleet!Absent
  <2>1. Fleet!Absent.role = "absent" /\ "absent" \notin Fleet!Roles
    BY DEF Fleet!Absent, Fleet!Roles
  <2> QED BY <1>3, <1>5, <2>1
<1>7. Fleet!Begins(n, m.prefix)
  <2>1. m.prefix \in Seq(STRING)
    BY RecordsAssumption DEF RecordsAssumption
  <2>2. Len(m.prefix) \in Nat /\ SubSeq(m.prefix, 1, Len(m.prefix)) = m.prefix
    BY <2>1, LenProperties, SubSeqFull
  <2> QED BY <1>4, <2>2 DEF Fleet!Begins
<1> QED BY <1>1, <1>5, <1>6, <1>7 DEF Fleet!Member, FleetRows

LEMMA PlanCreate ==
  ASSUME NEW m \in Manifests, Fleet!Valid(m), NEW s \in [Ids -> FleetRows], NEW t \in [Ids -> FleetRows],
         NEW todo \in SUBSET PlanItems, Plan(m, s, todo), NEW i \in todo, i.action = "create",
         NEW a \in Ids, s[a] = Fleet!Absent, t[a] = Fleet!Agent(m.role, i.name, m.model, m.cluster),
         \A b \in Ids : b # a => t[b] = s[b]
  PROVE  Plan(m, t, todo \ {i})
<1>1. /\ i \in PlanItems /\ i.agent = NoAgent /\ i.name \in Fleet!Desired(m)
      /\ \A b \in Ids : Fleet!Member(m, s[b]) => s[b].name # i.name
  BY DEF Plan, ItemRight
<1>2. Fleet!Member(m, t[a]) /\ t[a].name = i.name /\ t[a].model = m.model
  BY <1>1, NewMember
<1>3. ~Fleet!Member(m, s[a])
  BY DEF Fleet!Member
<1>4. MembersApart(m, t)
  BY <1>1, <1>2 DEF Plan, MembersApart
<1>5. ASSUME NEW j \in todo \ {i} PROVE ItemRight(m, t, j)
  <2>1. ItemRight(m, s, j)
    BY DEF Plan
  <2>2. CASE j.action = "create"
    <3>1. j.name # i.name
      BY <1>1, <2>1, <2>2, ItemsDiffer DEF ItemRight
    <3> QED BY <1>2, <2>1, <2>2, <3>1 DEF ItemRight
  <2>3. CASE j.action # "create"
    BY <1>3, <2>1, <2>3 DEF ItemRight
  <2> QED BY <2>2, <2>3
<1>6. ASSUME NEW n \in Fleet!Desired(m) PROVE NamePlanned(m, t, todo \ {i}, n)
  <2>1. NamePlanned(m, s, todo, n)
    BY DEF Plan
  <2>2. CASE n = i.name
    BY <1>2, <2>2 DEF NamePlanned
  <2>3. CASE n # i.name
    BY <1>3, <2>1, <2>3 DEF NamePlanned
  <2> QED BY <2>2, <2>3
<1>7. ASSUME NEW b \in Ids, Fleet!Member(m, t[b]) PROVE AgentPlanned(m, t, todo \ {i}, b)
  <2>1. CASE b = a
    BY <1>1, <1>2, <2>1 DEF AgentPlanned
  <2>2. CASE b # a
    <3>1. t[b] = s[b] /\ AgentPlanned(m, s, todo, b)
      BY <1>7, <2>2 DEF Plan
    <3> QED BY <3>1 DEF AgentPlanned
  <2> QED BY <2>1, <2>2
<1> QED BY <1>4, <1>5, <1>6, <1>7 DEF Plan

LEMMA PlanUpdate ==
  ASSUME NEW m \in Manifests, Fleet!Valid(m), NEW s \in [Ids -> FleetRows], NEW t \in [Ids -> FleetRows],
         NEW todo \in SUBSET PlanItems, Plan(m, s, todo), NEW i \in todo, i.action = "update",
         t[i.agent] = [s[i.agent] EXCEPT !.model = m.model, !.label = m.cluster],
         \A b \in Ids : b # i.agent => t[b] = s[b]
  PROVE  Plan(m, t, todo \ {i})
<1>1. /\ i \in PlanItems /\ i.agent \in Ids /\ Fleet!Member(m, s[i.agent])
      /\ s[i.agent].name = i.name /\ i.name \in Fleet!Desired(m)
  BY DEF Plan, ItemRight
<1>2. PICK a \in Ids : a = i.agent
  BY <1>1
<1>3. s[a] \in FleetAgent
  BY <1>1, <1>2, MemberRow
<1>4. t[a].role = s[a].role /\ t[a].name = s[a].name /\ t[a].model = m.model
  BY <1>2, <1>3 DEF FleetAgent
<1>5. Fleet!Member(m, t[a])
  <2>1. m.role \in Fleet!Roles /\ s[a].role = m.role /\ Fleet!Begins(s[a].name, m.prefix)
    BY <1>1, <1>2 DEF Fleet!Valid, Fleet!Member
  <2>2. t[a] # Fleet!Absent
    BY <1>4, <2>1 DEF Fleet!Absent, Fleet!Roles
  <2> QED BY <1>4, <2>1, <2>2 DEF Fleet!Member
<1>6. \A b \in Ids : t[b].name = s[b].name /\ (Fleet!Member(m, t[b]) <=> Fleet!Member(m, s[b]))
  BY <1>1, <1>2, <1>4, <1>5
<1>7. MembersApart(m, t)
  BY <1>6 DEF Plan, MembersApart
<1>8. ASSUME NEW j \in todo \ {i} PROVE ItemRight(m, t, j)
  <2>1. ItemRight(m, s, j)
    BY DEF Plan
  <2> QED BY <1>6, <2>1 DEF ItemRight
<1>9. ASSUME NEW n \in Fleet!Desired(m) PROVE NamePlanned(m, t, todo \ {i}, n)
  <2>1. NamePlanned(m, s, todo, n)
    BY DEF Plan
  <2> QED BY <1>6, <2>1 DEF NamePlanned
<1>10. ASSUME NEW b \in Ids, Fleet!Member(m, t[b]) PROVE AgentPlanned(m, t, todo \ {i}, b)
  <2>1. AgentPlanned(m, s, todo, b)
    BY <1>6, <1>10 DEF Plan
  <2>2. CASE b = a
    BY <1>1, <1>2, <1>4, <2>2 DEF AgentPlanned
  <2>3. CASE b # a
    <3>1. t[b] = s[b]
      BY <1>2, <2>3
    <3> QED BY <1>2, <2>1, <2>3, <3>1 DEF AgentPlanned
  <2> QED BY <2>2, <2>3
<1> QED BY <1>7, <1>8, <1>9, <1>10 DEF Plan

LEMMA PlanDelete ==
  ASSUME NEW m \in Manifests, Fleet!Valid(m), NEW s \in [Ids -> FleetRows], NEW t \in [Ids -> FleetRows],
         NEW todo \in SUBSET PlanItems, Plan(m, s, todo), NEW i \in todo, i.action = "delete",
         t[i.agent] = Fleet!Absent, \A b \in Ids : b # i.agent => t[b] = s[b]
  PROVE  Plan(m, t, todo \ {i})
<1>1. /\ i \in PlanItems /\ i.agent \in Ids /\ Fleet!Member(m, s[i.agent])
      /\ s[i.agent].name = i.name /\ i.name \notin Fleet!Desired(m)
  BY DEF Plan, ItemRight
<1>2. PICK a \in Ids : a = i.agent
  BY <1>1
<1>3. ~Fleet!Member(m, t[a])
  BY <1>2 DEF Fleet!Member
<1>4. \A b \in Ids : Fleet!Member(m, t[b]) => t[b] = s[b] /\ b # a
  BY <1>2, <1>3
<1>5. MembersApart(m, t)
  BY <1>4 DEF Plan, MembersApart
<1>6. ASSUME NEW j \in todo \ {i} PROVE ItemRight(m, t, j)
  <2>1. ItemRight(m, s, j) /\ j \in PlanItems
    BY DEF Plan
  <2>2. CASE j.action = "create"
    BY <1>4, <2>1, <2>2 DEF ItemRight
  <2>3. CASE j.action # "create"
    <3>1. j.action = "update" \/ j.action = "delete"
      BY <2>1, <2>3 DEF PlanItems
    <3>2. j.agent # a
      BY <1>1, <1>2, <2>1, <2>3, <3>1, ItemsDiffer DEF ItemRight
    <3>3. t[j.agent] = s[j.agent]
      BY <1>2, <2>1, <2>3, <3>2 DEF ItemRight
    <3> QED BY <2>1, <2>3, <3>3 DEF ItemRight
  <2> QED BY <2>2, <2>3
<1>7. ASSUME NEW n \in Fleet!Desired(m) PROVE NamePlanned(m, t, todo \ {i}, n)
  <2>1. NamePlanned(m, s, todo, n)
    BY DEF Plan
  <2>2. \A b \in Ids : Fleet!Member(m, s[b]) /\ s[b].name = n => t[b] = s[b]
    BY <1>1, <1>2
  <2> QED BY <2>1, <2>2 DEF NamePlanned
<1>8. ASSUME NEW b \in Ids, Fleet!Member(m, t[b]) PROVE AgentPlanned(m, t, todo \ {i}, b)
  <2>1. t[b] = s[b] /\ b # a
    BY <1>4, <1>8
  <2>2. AgentPlanned(m, s, todo, b)
    BY <1>8, <2>1 DEF Plan
  <2> QED BY <1>2, <2>1, <2>2 DEF AgentPlanned
<1> QED BY <1>5, <1>6, <1>7, <1>8 DEF Plan

\* With nothing left to do, the members are the replicas.
Cluster(m, s) == {a \in Ids : Fleet!Member(m, s[a])}
LEMMA PlanDone ==
  ASSUME NEW m \in Manifests, Fleet!Valid(m), NEW s \in [Ids -> FleetRows], Plan(m, s, {})
  PROVE  /\ Cardinality(Cluster(m, s)) = m.replicas
         /\ {s[a].name.number : a \in Cluster(m, s)} = 1..m.replicas
         /\ \A a \in Cluster(m, s) : s[a].name.words = m.prefix /\ s[a].model = m.model
<1>0. PICK members : members = Cluster(m, s) /\ members = {a \in Ids : Fleet!Member(m, s[a])}
  BY DEF Cluster
<1>1. \A a \in members : s[a].name \in Fleet!Desired(m) /\ s[a].model = m.model
  BY <1>0 DEF Plan, AgentPlanned
<1>2. \A a \in members : /\ s[a].name.number \in 1..m.replicas
                         /\ s[a].name = Fleet!Name(m.prefix, s[a].name.number)
                         /\ s[a].name.words = m.prefix
  BY <1>1 DEF Fleet!Desired, Fleet!Name
<1>3. \A k \in 1..m.replicas : \E a \in members : s[a].name.number = k
  <2> SUFFICES ASSUME NEW k \in 1..m.replicas PROVE \E a \in members : s[a].name.number = k
    OBVIOUS
  <2>1. Fleet!Name(m.prefix, k) \in Fleet!Desired(m) /\ Fleet!Name(m.prefix, k).number = k
    BY DEF Fleet!Desired, Fleet!Name
  <2>2. NamePlanned(m, s, {}, Fleet!Name(m.prefix, k))
    BY <2>1 DEF Plan
  <2> QED BY <1>0, <2>1, <2>2 DEF NamePlanned
<1>4. \A a, b \in members : s[a].name.number = s[b].name.number => a = b
  <2> SUFFICES ASSUME NEW a \in members, NEW b \in members, s[a].name.number = s[b].name.number
               PROVE  a = b
    OBVIOUS
  <2>1. s[a].name = s[b].name
    BY <1>2
  <2> QED BY <1>0, <2>1 DEF Plan, MembersApart
<1>5. Cardinality(members) = m.replicas
  <2>1. m.replicas \in Nat
    BY DEF Fleet!Valid
  <2>2. PICK f : f = [a \in members |-> s[a].name.number]
    OBVIOUS
  <2>3. f \in Bijection(members, 1..m.replicas)
    <3>1. f \in [members -> 1..m.replicas] /\ \A a \in members : f[a] = s[a].name.number
      BY <1>2, <2>2
    <3>2. f \in Injection(members, 1..m.replicas)
      BY <1>4, <3>1 DEF Injection, IsInjective
    <3>3. f \in Surjection(members, 1..m.replicas)
      BY <1>3, <3>1 DEF Surjection
    <3> QED BY <3>2, <3>3 DEF Bijection
  <2>4. ExistsBijection(members, 1..m.replicas)
    BY <2>3 DEF ExistsBijection
  <2>5. ExistsBijection(1..m.replicas, members)
    BY <2>4, Fun_ExistsBijSymmetric
  <2> QED BY <2>1, <2>5, FS_CountingElements
<1> QED BY <1>0, <1>1, <1>2, <1>3, <1>5

-----------------------------------------------------------------------------
(* Clusters: the agents and the transactions *)

\* What c sees of the agents, and what a manifest has not touched.
Seen(c) == [a \in Ids |-> Fleet!Sees(c, a)]
Spared(m, r, s) == \A a \in Ids : s[a] # r[a] => r[a] = Fleet!Absent \/ Fleet!Member(m, r[a])

FleetTypes ==
  /\ agents \in [Ids -> FleetRows] /\ agentWork \in [Ids -> FleetRows]
  /\ agentTx \in [Calls -> FleetTx]
UnlockedIsCommitted ==
  \A a \in Ids : (\A d \in Calls : a \notin agentTx[d].locks) => agentWork[a] = agents[a]
NotYetDrawn ==
  \A a \in Ids \ agentsUsed : agents[a] = Fleet!Absent /\ agentWork[a] = Fleet!Absent
OnTrack(c) ==
  LET m == agentTx[c].manifest IN
  agentTx[c].alone /\ m # none =>
    /\ m \in Manifests /\ Fleet!Valid(m)
    /\ \A d \in Calls \ {c} : agentTx[d].locks = {}
    /\ Plan(m, Seen(c), agentTx[c].todo) /\ Spared(m, agents, Seen(c))
FleetInv ==
  FleetTypes /\ UnlockedIsCommitted /\ NotYetDrawn /\ \A c \in Calls : OnTrack(c)

LEMMA SeenTyped ==
  ASSUME FleetTypes, NEW c \in Calls
  PROVE  Seen(c) \in [Ids -> FleetRows] /\ \A a \in Ids : Seen(c)[a] = Fleet!Sees(c, a)
  BY DEF FleetTypes, Seen, Fleet!Sees

LEMMA TxTyped ==
  ASSUME FleetTypes, NEW c \in Calls
  PROVE  /\ agentTx[c] \in FleetTx /\ agentTx[c].manifest \in Manifests \cup {none}
         /\ agentTx[c].todo \in SUBSET PlanItems /\ agentTx[c].locks \in SUBSET Ids
         /\ agentTx[c].alone \in BOOLEAN
         /\ (agentTx[c].todo # {} => agentTx[c].manifest \in Manifests)
  BY DEF FleetTypes, FleetTx

LEMMA ClosedTx ==
  /\ Fleet!Closed \in FleetTx /\ Fleet!Closed.manifest = none /\ Fleet!Closed.todo = {}
  /\ Fleet!Closed.locks = {} /\ Fleet!Closed.alone = FALSE
  BY DEF Fleet!Closed, FleetTx

LEMMA FleetStarts == Fleet!Init => FleetInv
<1> SUFFICES ASSUME Fleet!Init PROVE FleetInv
  OBVIOUS
<1>1. /\ agents \in [Ids -> FleetRows] /\ agentWork = agents /\ \A a \in Ids : agents[a] = Fleet!Absent
      /\ agentTx \in [Calls -> FleetTx] /\ \A c \in Calls : agentTx[c] = Fleet!Closed
  BY ClosedTx DEF Fleet!Init, Ids, FleetRows
<1> QED BY <1>1, ClosedTx DEF FleetInv, FleetTypes, UnlockedIsCommitted, NotYetDrawn, OnTrack

\* What c sees stays, and nobody else locks.
LEMMA StaysOnTrack ==
  ASSUME NEW c, OnTrack(c), agents' = agents, Seen(c)' = Seen(c), agentTx'[c] = agentTx[c],
         \A d \in Calls \ {c} : agentTx[d].locks = {} => agentTx'[d].locks = {}
  PROVE  OnTrack(c)'
  BY DEF OnTrack

\* One row is written: c sees it, and nobody else is alone any more.
LEMMA PutKeeps ==
  ASSUME FleetInv, NEW c \in Calls, NEW a \in Ids, NEW x \in FleetRows, NEW t \in FleetTx,
         Fleet!Put(c, a, x, t), t.locks = agentTx[c].locks,
         agentsUsed' = agentsUsed \cup {a} \/ (agentsUsed' = agentsUsed /\ Fleet!Sees(c, a) # Fleet!Absent)
  PROVE  /\ FleetTypes' /\ UnlockedIsCommitted' /\ NotYetDrawn'
         /\ \A d \in Calls \ {c} : OnTrack(d)'
         /\ agents' = agents /\ agentTx'[c] = [t EXCEPT !.locks = t.locks \cup {a}]
         /\ \A d \in Calls \ {c} : agentTx'[d].locks = agentTx[d].locks
         /\ Seen(c)' \in [Ids -> FleetRows] /\ Seen(c)'[a] = x
         /\ \A b \in Ids : b # a => Seen(c)'[b] = Seen(c)[b]
<1>0. FleetTypes
  BY DEF FleetInv
<1>1. /\ agents' = agents /\ agentWork' = [agentWork EXCEPT ![a] = x]
      /\ agentTx' = [d \in Calls |-> IF d = c THEN [t EXCEPT !.locks = t.locks \cup {a}]
                                     ELSE [agentTx[d] EXCEPT !.alone = FALSE]]
  BY DEF Fleet!Put
<1>2. /\ agentWork' \in [Ids -> FleetRows] /\ agentWork'[a] = x
      /\ \A b \in Ids : b # a => agentWork'[b] = agentWork[b]
  BY <1>0, <1>1 DEF FleetTypes
<1>3. agentTx'[c] = [t EXCEPT !.locks = t.locks \cup {a}]
  BY <1>1
<1>4. /\ agentTx'[c] \in FleetTx /\ agentTx'[c].locks = agentTx[c].locks \cup {a}
      /\ agentTx'[c].manifest = t.manifest /\ agentTx'[c].alone = t.alone
  <2>1. a \in Ids /\ t.locks \in SUBSET Ids
    BY DEF FleetTx
  <2> QED BY <1>3, <2>1 DEF FleetTx
<1>5. ASSUME NEW d \in Calls \ {c}
      PROVE  agentTx'[d] \in FleetTx /\ agentTx'[d].locks = agentTx[d].locks /\ agentTx'[d].alone = FALSE
  <2>1. agentTx'[d] = [agentTx[d] EXCEPT !.alone = FALSE]
    BY <1>1
  <2> QED BY <1>0, <2>1, TxTyped DEF FleetTx
<1>6. FleetTypes'
  <2>1. \A d \in Calls : agentTx'[d] \in FleetTx
    BY <1>4, <1>5
  <2>2. agentTx' = [d \in Calls |-> agentTx'[d]]
    BY <1>1
  <2>3. agentTx' \in [Calls -> FleetTx]
    BY <2>1, <2>2
  <2> QED BY <1>0, <1>1, <1>2, <2>3 DEF FleetTypes
<1>7. UnlockedIsCommitted'
  <2> SUFFICES ASSUME NEW b \in Ids, \A d \in Calls : b \notin agentTx'[d].locks
               PROVE  agentWork'[b] = agents'[b]
    BY DEF UnlockedIsCommitted
  <2>1. b # a /\ \A d \in Calls : b \notin agentTx[d].locks
    BY <1>4, <1>5
  <2> QED BY <1>1, <1>2, <2>1 DEF FleetInv, UnlockedIsCommitted
<1>8. NotYetDrawn'
  <2>1. a \in agentsUsed'
    <3>1. CASE a \in agentsUsed
      BY <3>1
    <3>2. CASE a \notin agentsUsed
      BY <3>2 DEF FleetInv, NotYetDrawn, Fleet!Sees
    <3> QED BY <3>1, <3>2
  <2> QED BY <1>1, <1>2, <2>1 DEF FleetInv, NotYetDrawn
<1>9. \A d \in Calls \ {c} : OnTrack(d)'
  BY <1>5 DEF OnTrack
<1>10. /\ Seen(c)' \in [Ids -> FleetRows] /\ Seen(c)'[a] = x
       /\ \A b \in Ids : b # a => Seen(c)'[b] = Seen(c)[b]
  <2>1. Seen(c)' = [b \in Ids |-> IF b \in agentTx'[c].locks THEN agentWork'[b] ELSE agents'[b]]
    BY DEF Seen, Fleet!Sees
  <2>2. Seen(c) = [b \in Ids |-> IF b \in agentTx[c].locks THEN agentWork[b] ELSE agents[b]]
    BY DEF Seen, Fleet!Sees
  <2>3. \A b \in Ids : Seen(c)'[b] \in FleetRows
    BY <1>0, <1>1, <1>2, <2>1 DEF FleetTypes
  <2>4. Seen(c)'[a] = x
    BY <1>2, <1>4, <2>1
  <2>5. \A b \in Ids : b # a => Seen(c)'[b] = Seen(c)[b]
    BY <1>1, <1>2, <1>4, <2>1, <2>2
  <2> QED BY <2>1, <2>3, <2>4, <2>5
<1> QED BY <1>1, <1>3, <1>5, <1>6, <1>7, <1>8, <1>9, <1>10

LEMMA DoneWithIs ==
  ASSUME FleetTypes, NEW c \in Calls, NEW i \in agentTx[c].todo
  PROVE  /\ Fleet!DoneWith(c, i) \in FleetTx
         /\ Fleet!DoneWith(c, i).locks = agentTx[c].locks
         /\ Fleet!DoneWith(c, i).manifest = agentTx[c].manifest
         /\ Fleet!DoneWith(c, i).alone = agentTx[c].alone
         /\ Fleet!DoneWith(c, i).todo = agentTx[c].todo \ {i}
<1>1. agentTx[c] \in FleetTx /\ agentTx[c].manifest \in Manifests
  BY TxTyped
<1> QED BY <1>1 DEF Fleet!DoneWith, FleetTx

LEMMA SpareMember ==
  ASSUME NEW m, NEW r, NEW s, NEW t, NEW a \in Ids, Spared(m, r, s),
         \A b \in Ids : b # a => t[b] = s[b],
         Fleet!Member(m, s[a]) \/ r[a] = Fleet!Absent
  PROVE  Spared(m, r, t)
  BY DEF Spared

LEMMA FleetCreateItem ==
  ASSUME FleetInv, NEW c \in Calls, NEW i \in agentTx[c].todo, NEW a \in Ids, Fleet!ApplyCreate(c, i, a)
  PROVE  FleetInv'
<1>1. PICK m : m = agentTx[c].manifest
  OBVIOUS
<1>2. PICK t : t = Fleet!DoneWith(c, i)
  OBVIOUS
<1>3. PICK x : x = Fleet!Agent(m.role, i.name, m.model, m.cluster)
  OBVIOUS
<1>4. FleetTypes /\ m \in Manifests /\ i \in PlanItems /\ agentTx[c].todo \in SUBSET PlanItems
  BY <1>1, TxTyped DEF FleetInv
<1>5. /\ t \in FleetTx /\ t.locks = agentTx[c].locks /\ t.manifest = m
      /\ t.alone = agentTx[c].alone /\ t.todo = agentTx[c].todo \ {i}
  BY <1>1, <1>2, <1>4, DoneWithIs
<1>6. x \in FleetRows
  BY <1>3, <1>4 DEF FleetRows, FleetAgent, PlanItems, Fleet!Agent, Fleet!Models, Fleet!Labels
<1>7. /\ i.action = "create" /\ a \notin agentsUsed /\ agentsUsed' = agentsUsed \cup {a}
      /\ Fleet!Put(c, a, x, t)
  BY <1>1, <1>2, <1>3 DEF Fleet!ApplyCreate
<1>8. /\ FleetTypes' /\ UnlockedIsCommitted' /\ NotYetDrawn'
      /\ \A d \in Calls \ {c} : OnTrack(d)'
      /\ agents' = agents /\ agentTx'[c] = [t EXCEPT !.locks = t.locks \cup {a}]
      /\ \A d \in Calls \ {c} : agentTx'[d].locks = agentTx[d].locks
      /\ Seen(c)' \in [Ids -> FleetRows] /\ Seen(c)'[a] = x
      /\ \A b \in Ids : b # a => Seen(c)'[b] = Seen(c)[b]
  BY <1>5, <1>6, <1>7, PutKeeps
<1>9. OnTrack(c)'
  <2>1. agentTx'[c].alone = t.alone /\ agentTx'[c].manifest = m /\ agentTx'[c].todo = t.todo
    BY <1>5, <1>8 DEF FleetTx
  <2> SUFFICES ASSUME t.alone, m # none
               PROVE  /\ m \in Manifests /\ Fleet!Valid(m)
                      /\ \A d \in Calls \ {c} : agentTx'[d].locks = {}
                      /\ Plan(m, Seen(c)', t.todo) /\ Spared(m, agents', Seen(c)')
    BY <2>1 DEF OnTrack
  <2>2. /\ Fleet!Valid(m) /\ \A d \in Calls \ {c} : agentTx[d].locks = {}
        /\ Plan(m, Seen(c), agentTx[c].todo) /\ Spared(m, agents, Seen(c))
    BY <1>1, <1>5 DEF FleetInv, OnTrack
  <2>3. agents[a] = Fleet!Absent /\ Seen(c)[a] = Fleet!Absent
    BY <1>7 DEF FleetInv, NotYetDrawn, Seen, Fleet!Sees
  <2>4. Seen(c) \in [Ids -> FleetRows]
    BY <1>4, SeenTyped
  <2>5. Plan(m, Seen(c)', agentTx[c].todo \ {i})
    BY <1>3, <1>4, <1>7, <1>8, <2>2, <2>3, <2>4, PlanCreate
  <2>6. Spared(m, agents, Seen(c)')
    BY <1>8, <2>2, <2>3, SpareMember
  <2> QED BY <1>4, <1>5, <1>8, <2>2, <2>5, <2>6
<1> QED BY <1>8, <1>9 DEF FleetInv

LEMMA FleetUpdateItem ==
  ASSUME FleetInv, NEW c \in Calls, NEW i \in agentTx[c].todo, Fleet!ApplyUpdate(c, i)
  PROVE  FleetInv'
<1>1. PICK m : m = agentTx[c].manifest
  OBVIOUS
<1>2. PICK t : t = Fleet!DoneWith(c, i)
  OBVIOUS
<1>3. PICK a : a = i.agent
  OBVIOUS
<1>4. PICK x : x = [Fleet!Sees(c, a) EXCEPT !.model = m.model, !.label = m.cluster]
  OBVIOUS
<1>5. FleetTypes /\ m \in Manifests /\ i \in PlanItems /\ agentTx[c].todo \in SUBSET PlanItems
  BY <1>1, TxTyped DEF FleetInv
<1>6. /\ t \in FleetTx /\ t.locks = agentTx[c].locks /\ t.manifest = m
      /\ t.alone = agentTx[c].alone /\ t.todo = agentTx[c].todo \ {i}
  BY <1>1, <1>2, <1>5, DoneWithIs
<1>7. /\ i.action = "update" /\ Fleet!Sees(c, a) # Fleet!Absent /\ agentsUsed' = agentsUsed
      /\ Fleet!Put(c, a, x, t) /\ a \in Ids
  BY <1>1, <1>2, <1>3, <1>4, <1>5 DEF Fleet!ApplyUpdate, PlanItems
<1>8. x \in FleetRows
  <2>1. Fleet!Sees(c, a) \in FleetAgent
    BY <1>5, <1>7, SeenTyped DEF FleetRows
  <2> QED BY <1>4, <1>5, <2>1 DEF FleetRows, FleetAgent, Fleet!Models, Fleet!Labels
<1>9. /\ FleetTypes' /\ UnlockedIsCommitted' /\ NotYetDrawn'
      /\ \A d \in Calls \ {c} : OnTrack(d)'
      /\ agents' = agents /\ agentTx'[c] = [t EXCEPT !.locks = t.locks \cup {a}]
      /\ \A d \in Calls \ {c} : agentTx'[d].locks = agentTx[d].locks
      /\ Seen(c)' \in [Ids -> FleetRows] /\ Seen(c)'[a] = x
      /\ \A b \in Ids : b # a => Seen(c)'[b] = Seen(c)[b]
  BY <1>6, <1>7, <1>8, PutKeeps
<1>10. OnTrack(c)'
  <2>1. agentTx'[c].alone = t.alone /\ agentTx'[c].manifest = m /\ agentTx'[c].todo = t.todo
    BY <1>6, <1>9 DEF FleetTx
  <2> SUFFICES ASSUME t.alone, m # none
               PROVE  /\ m \in Manifests /\ Fleet!Valid(m)
                      /\ \A d \in Calls \ {c} : agentTx'[d].locks = {}
                      /\ Plan(m, Seen(c)', t.todo) /\ Spared(m, agents', Seen(c)')
    BY <2>1 DEF OnTrack
  <2>2. /\ Fleet!Valid(m) /\ \A d \in Calls \ {c} : agentTx[d].locks = {}
        /\ Plan(m, Seen(c), agentTx[c].todo) /\ Spared(m, agents, Seen(c))
    BY <1>1, <1>6 DEF FleetInv, OnTrack
  <2>3. Seen(c) \in [Ids -> FleetRows] /\ Seen(c)[a] = Fleet!Sees(c, a)
    BY <1>5, <1>7, SeenTyped
  <2>4. Fleet!Member(m, Seen(c)[a])
    BY <1>3, <1>7, <2>2 DEF Plan, ItemRight
  <2>5. Plan(m, Seen(c)', agentTx[c].todo \ {i})
    <3>1. Seen(c)'[i.agent] = [Seen(c)[i.agent] EXCEPT !.model = m.model, !.label = m.cluster]
      BY <1>3, <1>4, <1>9, <2>3
    <3>2. \A b \in Ids : b # i.agent => Seen(c)'[b] = Seen(c)[b]
      BY <1>3, <1>9
    <3> QED BY <1>5, <1>7, <1>9, <2>2, <2>3, <3>1, <3>2, PlanUpdate
  <2>6. Spared(m, agents, Seen(c)')
    BY <1>7, <1>9, <2>2, <2>4, SpareMember
  <2> QED BY <1>5, <1>6, <1>9, <2>2, <2>5, <2>6
<1> QED BY <1>9, <1>10 DEF FleetInv

LEMMA FleetDeleteItem ==
  ASSUME FleetInv, NEW c \in Calls, NEW i \in agentTx[c].todo, Fleet!ApplyDelete(c, i)
  PROVE  FleetInv'
<1>1. PICK m : m = agentTx[c].manifest
  OBVIOUS
<1>2. PICK t : t = Fleet!DoneWith(c, i)
  OBVIOUS
<1>3. PICK a : a = i.agent
  OBVIOUS
<1>5. FleetTypes /\ m \in Manifests /\ i \in PlanItems /\ agentTx[c].todo \in SUBSET PlanItems
  BY <1>1, TxTyped DEF FleetInv
<1>6. /\ t \in FleetTx /\ t.locks = agentTx[c].locks /\ t.manifest = m
      /\ t.alone = agentTx[c].alone /\ t.todo = agentTx[c].todo \ {i}
  BY <1>1, <1>2, <1>5, DoneWithIs
<1>7. /\ i.action = "delete" /\ Fleet!Sees(c, a) # Fleet!Absent /\ agentsUsed' = agentsUsed
      /\ Fleet!Put(c, a, Fleet!Absent, t) /\ a \in Ids
  BY <1>2, <1>3, <1>5 DEF Fleet!ApplyDelete, PlanItems
<1>8. Fleet!Absent \in FleetRows
  BY DEF FleetRows
<1>9. /\ FleetTypes' /\ UnlockedIsCommitted' /\ NotYetDrawn'
      /\ \A d \in Calls \ {c} : OnTrack(d)'
      /\ agents' = agents /\ agentTx'[c] = [t EXCEPT !.locks = t.locks \cup {a}]
      /\ \A d \in Calls \ {c} : agentTx'[d].locks = agentTx[d].locks
      /\ Seen(c)' \in [Ids -> FleetRows] /\ Seen(c)'[a] = Fleet!Absent
      /\ \A b \in Ids : b # a => Seen(c)'[b] = Seen(c)[b]
  BY <1>6, <1>7, <1>8, PutKeeps
<1>10. OnTrack(c)'
  <2>1. agentTx'[c].alone = t.alone /\ agentTx'[c].manifest = m /\ agentTx'[c].todo = t.todo
    BY <1>6, <1>9 DEF FleetTx
  <2> SUFFICES ASSUME t.alone, m # none
               PROVE  /\ m \in Manifests /\ Fleet!Valid(m)
                      /\ \A d \in Calls \ {c} : agentTx'[d].locks = {}
                      /\ Plan(m, Seen(c)', t.todo) /\ Spared(m, agents', Seen(c)')
    BY <2>1 DEF OnTrack
  <2>2. /\ Fleet!Valid(m) /\ \A d \in Calls \ {c} : agentTx[d].locks = {}
        /\ Plan(m, Seen(c), agentTx[c].todo) /\ Spared(m, agents, Seen(c))
    BY <1>1, <1>6 DEF FleetInv, OnTrack
  <2>3. Seen(c) \in [Ids -> FleetRows]
    BY <1>5, SeenTyped
  <2>4. Fleet!Member(m, Seen(c)[a])
    BY <1>3, <1>7, <2>2 DEF Plan, ItemRight
  <2>5. Plan(m, Seen(c)', agentTx[c].todo \ {i})
    BY <1>3, <1>5, <1>7, <1>9, <2>2, <2>3, PlanDelete
  <2>6. Spared(m, agents, Seen(c)')
    BY <1>7, <1>9, <2>2, <2>4, SpareMember
  <2> QED BY <1>5, <1>6, <1>9, <2>2, <2>5, <2>6
<1> QED BY <1>9, <1>10 DEF FleetInv

\* A transaction changes nothing but itself.
LEMMA OnlyItself ==
  ASSUME FleetInv, NEW c \in Calls, NEW t \in FleetTx, agentTx' = [agentTx EXCEPT ![c] = t],
         t.locks = agentTx[c].locks, UNCHANGED <<agents, agentWork, agentsUsed>>
  PROVE  /\ FleetTypes' /\ UnlockedIsCommitted' /\ NotYetDrawn'
         /\ \A d \in Calls \ {c} : OnTrack(d)'
         /\ agentTx'[c] = t /\ Seen(c)' = Seen(c)
         /\ \A d \in Calls : agentTx'[d].locks = agentTx[d].locks
<1>1. FleetTypes /\ agentTx \in [Calls -> FleetTx]
  BY DEF FleetInv, FleetTypes
<1>2. /\ agentTx'[c] = t /\ agentTx' \in [Calls -> FleetTx]
      /\ \A d \in Calls \ {c} : agentTx'[d] = agentTx[d]
      /\ \A d \in Calls : agentTx'[d].locks = agentTx[d].locks
  BY <1>1
<1>3. FleetTypes' /\ UnlockedIsCommitted' /\ NotYetDrawn'
  BY <1>2 DEF FleetInv, FleetTypes, UnlockedIsCommitted, NotYetDrawn
<1>4. \A d \in Calls : Seen(d)' = Seen(d)
  BY <1>2 DEF Seen, Fleet!Sees
<1>5. \A d \in Calls \ {c} : OnTrack(d)'
  <2> SUFFICES ASSUME NEW d \in Calls \ {c} PROVE OnTrack(d)'
    OBVIOUS
  <2> QED BY <1>2, <1>4, StaysOnTrack DEF FleetInv
<1> QED BY <1>2, <1>3, <1>4, <1>5

LEMMA FleetSkipItem ==
  ASSUME FleetInv, NEW c \in Calls, NEW i \in agentTx[c].todo, Fleet!ApplySkip(c, i)
  PROVE  FleetInv'
<1>1. PICK t : t = Fleet!DoneWith(c, i)
  OBVIOUS
<1>2. FleetTypes /\ i \in PlanItems
  BY TxTyped DEF FleetInv
<1>3. /\ t \in FleetTx /\ t.locks = agentTx[c].locks /\ t.manifest = agentTx[c].manifest
      /\ t.alone = agentTx[c].alone /\ t.todo = agentTx[c].todo \ {i}
  BY <1>1, <1>2, DoneWithIs
<1>4. /\ i.action # "create" /\ Fleet!Sees(c, i.agent) = Fleet!Absent
      /\ agentTx' = [agentTx EXCEPT ![c] = t] /\ UNCHANGED <<agents, agentWork, agentsUsed>>
  BY <1>1 DEF Fleet!ApplySkip
<1>5. /\ FleetTypes' /\ UnlockedIsCommitted' /\ NotYetDrawn'
      /\ \A d \in Calls \ {c} : OnTrack(d)'
      /\ agentTx'[c] = t
  BY <1>3, <1>4, OnlyItself
<1>6. OnTrack(c)'
  <2>1. ~(agentTx[c].alone /\ agentTx[c].manifest # none)
    <3> SUFFICES ASSUME agentTx[c].alone, agentTx[c].manifest # none PROVE FALSE
      OBVIOUS
    <3>1. ItemRight(agentTx[c].manifest, Seen(c), i)
      BY DEF FleetInv, OnTrack, Plan
    <3>2. i.agent \in Ids /\ Fleet!Member(agentTx[c].manifest, Seen(c)[i.agent])
      BY <1>4, <3>1 DEF ItemRight
    <3> QED BY <1>2, <1>4, <3>2, SeenTyped DEF Fleet!Member
  <2> QED BY <1>3, <1>5, <2>1 DEF OnTrack
<1> QED BY <1>5, <1>6 DEF FleetInv

\* What compute_diff makes of the agents of m, when no two have one name, is a plan.
LEMMA DiffIsPlan ==
  ASSUME NEW m \in Manifests, Fleet!Valid(m), agents \in [Ids -> FleetRows],
         NEW members, members = {a \in Ids : Fleet!Member(m, agents[a])}, NEW kept \in SUBSET members
  PROVE  /\ Fleet!Items(m, kept) \in SUBSET PlanItems
         /\ kept = members /\ Fleet!Unique(members) => Plan(m, agents, Fleet!Items(m, kept))
<1>1. \A a \in members : a \in Ids /\ agents[a] \in FleetAgent /\ agents[a].name \in FleetNames
  BY MemberRow DEF FleetAgent
<1>2. \A n \in Fleet!Desired(m) : n \in FleetNames
  BY DEF Fleet!Desired, Fleet!Valid, FleetNames
<1> DEFINE creates == {[action |-> "create", agent |-> NoAgent, name |-> n] :
                         n \in Fleet!Desired(m) \ {agents[a].name : a \in kept}}
           updates == {[action |-> "update", agent |-> a, name |-> agents[a].name] :
                         a \in {b \in kept : agents[b].name \in Fleet!Desired(m) /\ agents[b].model # m.model}}
           deletes == {[action |-> "delete", agent |-> a, name |-> agents[a].name] :
                         a \in {b \in kept : agents[b].name \notin Fleet!Desired(m)}}
<1>3. Fleet!Items(m, kept) = (creates \cup updates) \cup deletes
  BY DEF Fleet!Items
<1>4. \A i \in creates : /\ i \in PlanItems /\ i.action = "create" /\ i.agent = NoAgent
                         /\ i.name \in Fleet!Desired(m) /\ \A a \in kept : agents[a].name # i.name
  BY <1>2 DEF PlanItems
<1>5. \A i \in updates : /\ i \in PlanItems /\ i.action = "update" /\ i.agent \in kept
                         /\ i.name = agents[i.agent].name /\ i.name \in Fleet!Desired(m)
  BY <1>1 DEF PlanItems
<1>6. \A i \in deletes : /\ i \in PlanItems /\ i.action = "delete" /\ i.agent \in kept
                         /\ i.name = agents[i.agent].name /\ i.name \notin Fleet!Desired(m)
  BY <1>1 DEF PlanItems
<1>7. /\ \A n \in Fleet!Desired(m) : (\A a \in kept : agents[a].name # n) =>
           \E i \in creates : i.action = "create" /\ i.name = n
      /\ \A a \in kept : agents[a].name \in Fleet!Desired(m) /\ agents[a].model # m.model =>
           \E i \in updates : i.action = "update" /\ i.agent = a
      /\ \A a \in kept : agents[a].name \notin Fleet!Desired(m) =>
           \E i \in deletes : i.action = "delete" /\ i.agent = a
  <2>1. ASSUME NEW n \in Fleet!Desired(m), \A a \in kept : agents[a].name # n
        PROVE  \E i \in creates : i.action = "create" /\ i.name = n
    <3>1. [action |-> "create", agent |-> NoAgent, name |-> n] \in creates
      BY <2>1
    <3> QED BY <3>1
  <2>2. ASSUME NEW a \in kept, agents[a].name \in Fleet!Desired(m), agents[a].model # m.model
        PROVE  \E i \in updates : i.action = "update" /\ i.agent = a
    <3>1. [action |-> "update", agent |-> a, name |-> agents[a].name] \in updates
      BY <2>2
    <3> QED BY <3>1
  <2>3. ASSUME NEW a \in kept, agents[a].name \notin Fleet!Desired(m)
        PROVE  \E i \in deletes : i.action = "delete" /\ i.agent = a
    <3>1. [action |-> "delete", agent |-> a, name |-> agents[a].name] \in deletes
      BY <2>3
    <3> QED BY <3>1
  <2> QED BY <2>1, <2>2, <2>3
<1> HIDE DEF creates, updates, deletes
<1> PICK todo : todo = Fleet!Items(m, kept)
  OBVIOUS
<1>8. todo \in SUBSET PlanItems
  BY <1>3, <1>4, <1>5, <1>6
<1>9. ASSUME kept = members, Fleet!Unique(members) PROVE Plan(m, agents, todo)
  <2>1. MembersApart(m, agents)
    BY <1>9 DEF MembersApart, Fleet!Unique
  <2>2. ASSUME NEW i \in todo PROVE ItemRight(m, agents, i)
    <3>1. CASE i \in creates
      BY <1>4, <1>9, <3>1 DEF ItemRight
    <3>2. CASE i \in updates
      BY <1>5, <1>9, <3>2 DEF ItemRight
    <3>3. CASE i \in deletes
      BY <1>6, <1>9, <3>3 DEF ItemRight
    <3> QED BY <1>3, <3>1, <3>2, <3>3
  <2>3. ASSUME NEW n \in Fleet!Desired(m) PROVE NamePlanned(m, agents, todo, n)
    BY <1>3, <1>7, <1>9 DEF NamePlanned
  <2>4. ASSUME NEW a \in Ids, Fleet!Member(m, agents[a]) PROVE AgentPlanned(m, agents, todo, a)
    <3>1. a \in kept
      BY <1>9, <2>4
    <3> QED BY <1>3, <1>7, <3>1 DEF AgentPlanned
  <2> QED BY <2>1, <2>2, <2>3, <2>4 DEF Plan
<1> QED BY <1>8, <1>9

LEMMA FleetApply ==
  ASSUME FleetInv, NEW c \in Calls, NEW m \in Manifests, Fleet!Apply(c, m)
  PROVE  FleetInv'
<1>1. PICK members : members = {a \in Ids : Fleet!Member(m, agents[a])}
  OBVIOUS
<1>2. PICK kept \in SUBSET members :
        /\ Fleet!Unique(kept) /\ {agents[a].name : a \in kept} = {agents[a].name : a \in members}
        /\ agentTx' = [agentTx EXCEPT ![c] =
             [manifest |-> m, todo |-> Fleet!Items(m, kept), locks |-> {},
              alone |-> Fleet!Unique(members) /\ \A d \in Calls : agentTx[d].locks = {}]]
  BY <1>1 DEF Fleet!Apply, Ids
<1>3. FleetTypes /\ agents \in [Ids -> FleetRows] /\ Fleet!Valid(m) /\ agentTx[c].locks = {}
      /\ UNCHANGED <<agents, agentWork, agentsUsed>>
  BY ClosedTx DEF FleetInv, FleetTypes, Fleet!Apply
<1>4. Fleet!Items(m, kept) \in SUBSET PlanItems
  BY <1>1, <1>3, DiffIsPlan
<1>5. PICK alone \in BOOLEAN : alone <=> Fleet!Unique(members) /\ \A d \in Calls : agentTx[d].locks = {}
  OBVIOUS
<1>6. PICK t : t = [manifest |-> m, todo |-> Fleet!Items(m, kept), locks |-> {},
              alone |-> Fleet!Unique(members) /\ \A d \in Calls : agentTx[d].locks = {}]
  OBVIOUS
<1>7. t \in FleetTx /\ t.locks = agentTx[c].locks /\ agentTx' = [agentTx EXCEPT ![c] = t]
      /\ t.manifest = m /\ t.todo = Fleet!Items(m, kept) /\ t.locks = {}
      /\ (t.alone <=> Fleet!Unique(members) /\ \A d \in Calls : agentTx[d].locks = {})
  BY <1>2, <1>3, <1>4, <1>6 DEF FleetTx
<1>8. /\ FleetTypes' /\ UnlockedIsCommitted' /\ NotYetDrawn'
      /\ \A d \in Calls \ {c} : OnTrack(d)'
      /\ agentTx'[c] = t /\ Seen(c)' = Seen(c)
      /\ \A d \in Calls : agentTx'[d].locks = agentTx[d].locks
  BY <1>3, <1>7, OnlyItself
<1>9. OnTrack(c)'
  <2> SUFFICES ASSUME t.alone
               PROVE  /\ m \in Manifests /\ Fleet!Valid(m)
                      /\ \A d \in Calls \ {c} : agentTx'[d].locks = {}
                      /\ Plan(m, Seen(c)', t.todo) /\ Spared(m, agents', Seen(c)')
    BY <1>7, <1>8 DEF OnTrack
  <2>1. Fleet!Unique(members) /\ \A d \in Calls : agentTx[d].locks = {}
    BY <1>7
  <2>2. kept = members
    <3> SUFFICES ASSUME NEW a \in members PROVE a \in kept
      OBVIOUS
    <3>1. PICK b \in kept : agents[b].name = agents[a].name
      BY <1>2
    <3> QED BY <2>1, <3>1 DEF Fleet!Unique
  <2>3. Seen(c)' = agents
    BY <1>3, <1>8 DEF Seen, Fleet!Sees
  <2>4. Plan(m, agents, t.todo)
    BY <1>1, <1>3, <1>7, <2>1, <2>2, DiffIsPlan
  <2>5. Spared(m, agents, agents)
    BY DEF Spared
  <2> QED BY <1>3, <1>8, <2>1, <2>3, <2>4, <2>5
<1> QED BY <1>8, <1>9 DEF FleetInv

\* People and tools write in transactions without a manifest.
LEMMA RequestKeeps ==
  ASSUME FleetInv, NEW c \in Calls, Fleet!Request(c), NEW a \in Ids, NEW x \in FleetRows,
         Fleet!Put(c, a, x, agentTx[c]),
         agentsUsed' = agentsUsed \cup {a} \/ (agentsUsed' = agentsUsed /\ Fleet!Sees(c, a) # Fleet!Absent)
  PROVE  FleetInv'
<1>1. PICK t : t = agentTx[c]
  OBVIOUS
<1>2. t \in FleetTx /\ t.locks = agentTx[c].locks /\ Fleet!Put(c, a, x, t) /\ t.manifest = none
  BY <1>1, TxTyped DEF FleetInv, Fleet!Request
<1>3. /\ FleetTypes' /\ UnlockedIsCommitted' /\ NotYetDrawn'
      /\ \A d \in Calls \ {c} : OnTrack(d)'
      /\ agentTx'[c] = [t EXCEPT !.locks = t.locks \cup {a}]
  BY <1>2, PutKeeps
<1>4. agentTx'[c].manifest = none
  BY <1>2, <1>3 DEF FleetTx
<1> QED BY <1>3, <1>4 DEF FleetInv, OnTrack

LEMMA FleetCreate ==
  ASSUME FleetInv, NEW c \in Calls, NEW a \in Ids, NEW role \in {m.role : m \in Manifests} \cup {"engineer"},
         NEW name \in FleetNames, NEW model \in Fleet!Models, Fleet!Create(c, a, role, name, model)
  PROVE  FleetInv'
<1>1. PICK x : x = Fleet!Agent(role, name, model, "none")
  OBVIOUS
<1>2. x \in FleetRows
  BY <1>1 DEF FleetRows, FleetAgent, Fleet!Agent, Fleet!Labels
<1>3. Fleet!Request(c) /\ Fleet!Put(c, a, x, agentTx[c]) /\ agentsUsed' = agentsUsed \cup {a}
  BY <1>1 DEF Fleet!Create
<1> QED BY <1>2, <1>3, RequestKeeps

LEMMA FleetChange ==
  ASSUME FleetInv, NEW c \in Calls, NEW a \in Ids,
         Fleet!Update(c, a) \/ Fleet!Remove(c, a) \/ Fleet!UpdateMemory(c, a)
  PROVE  FleetInv'
<1>1. Fleet!Request(c) /\ Fleet!Sees(c, a) # Fleet!Absent /\ agentsUsed' = agentsUsed
  BY DEF Fleet!Update, Fleet!Remove, Fleet!UpdateMemory
<1>2. Fleet!Sees(c, a) \in FleetAgent
  BY <1>1, SeenTyped DEF FleetRows, FleetInv
<1>3. ASSUME NEW x \in FleetRows, Fleet!Put(c, a, x, agentTx[c]) PROVE FleetInv'
  BY <1>1, <1>3, RequestKeeps
<1>4. ASSUME Fleet!Update(c, a) PROVE FleetInv'
  <2>1. CASE \E name \in Chosen : Fleet!Put(c, a, [Fleet!Sees(c, a) EXCEPT !.name = name], agentTx[c])
    <3>1. PICK name \in Chosen : Fleet!Put(c, a, [Fleet!Sees(c, a) EXCEPT !.name = name], agentTx[c])
      BY <2>1
    <3>2. [Fleet!Sees(c, a) EXCEPT !.name = name] \in FleetRows
      BY <1>2 DEF FleetRows, FleetAgent, FleetNames
    <3> QED BY <1>3, <3>1, <3>2
  <2>2. CASE \E model \in Fleet!Models : Fleet!Put(c, a, [Fleet!Sees(c, a) EXCEPT !.model = model], agentTx[c])
    <3>1. PICK model \in Fleet!Models : Fleet!Put(c, a, [Fleet!Sees(c, a) EXCEPT !.model = model], agentTx[c])
      BY <2>2
    <3>2. [Fleet!Sees(c, a) EXCEPT !.model = model] \in FleetRows
      BY <1>2 DEF FleetRows, FleetAgent
    <3> QED BY <1>3, <3>1, <3>2
  <2> QED BY <1>4, <2>1, <2>2 DEF Fleet!Update
<1>5. ASSUME Fleet!Remove(c, a) PROVE FleetInv'
  <2>1. Fleet!Absent \in FleetRows /\ Fleet!Put(c, a, Fleet!Absent, agentTx[c])
    BY <1>5 DEF Fleet!Remove, FleetRows
  <2> QED BY <1>3, <2>1
<1>6. ASSUME Fleet!UpdateMemory(c, a) PROVE FleetInv'
  <2>1. [Fleet!Sees(c, a) EXCEPT !.label = "none"] \in FleetRows
    BY <1>2 DEF FleetRows, FleetAgent, Fleet!Labels
  <2>2. Fleet!Put(c, a, [Fleet!Sees(c, a) EXCEPT !.label = "none"], agentTx[c])
    BY <1>6 DEF Fleet!UpdateMemory
  <2> QED BY <1>3, <2>1, <2>2
<1> QED BY <1>4, <1>5, <1>6

\* A transaction that has locked nothing leaves the rows as they are when it ends.
LEMMA FleetCommit ==
  ASSUME FleetInv, NEW c \in Calls, Fleet!Commit(c)
  PROVE  FleetInv'
<1>1. /\ FleetTypes /\ agentTx \in [Calls -> FleetTx] /\ agents \in [Ids -> FleetRows]
      /\ agentWork \in [Ids -> FleetRows]
  BY DEF FleetInv, FleetTypes
<1>2. /\ agents' = [a \in Ids |-> Fleet!Sees(c, a)]
      /\ agentWork' = [a \in Ids |-> IF \E d \in Calls \ {c} : a \in agentTx[d].locks THEN agentWork[a]
                                     ELSE Fleet!Sees(c, a)]
      /\ agentTx' = [agentTx EXCEPT ![c] = Fleet!Closed] /\ agentsUsed' = agentsUsed
  BY DEF Fleet!Commit, Ids
<1>3. /\ agentTx' \in [Calls -> FleetTx] /\ agentTx'[c] = Fleet!Closed
      /\ \A d \in Calls \ {c} : agentTx'[d] = agentTx[d]
  BY <1>1, <1>2, ClosedTx
<1>4. FleetTypes'
  BY <1>1, <1>2, <1>3, SeenTyped DEF FleetTypes
<1>5. UnlockedIsCommitted'
  BY <1>2, <1>3 DEF UnlockedIsCommitted
<1>6. NotYetDrawn'
  BY <1>2 DEF FleetInv, NotYetDrawn, Fleet!Sees
<1>7. ASSUME NEW d \in Calls \ {c} PROVE OnTrack(d)'
  <2>1. CASE agentTx[c].locks = {}
    <3>1. \A a \in Ids : Fleet!Sees(c, a) = agents[a]
      BY <2>1 DEF Fleet!Sees
    <3>2. agents' = agents
      BY <1>1, <1>2, <3>1
    <3>3. \A a \in Ids : agentWork'[a] = agentWork[a]
      BY <1>2, <2>1, <3>1 DEF FleetInv, UnlockedIsCommitted
    <3>4. Seen(d)' = Seen(d)
      BY <1>3, <3>2, <3>3 DEF Seen, Fleet!Sees
    <3>5. \A e \in Calls \ {d} : agentTx[e].locks = {} => agentTx'[e].locks = {}
      BY <1>3, ClosedTx
    <3> QED BY <1>3, <3>2, <3>4, <3>5, StaysOnTrack DEF FleetInv
  <2>2. CASE agentTx[c].locks # {}
    <3>1. ~(agentTx[d].alone /\ agentTx[d].manifest # none)
      BY <2>2 DEF FleetInv, OnTrack
    <3> QED BY <1>3, <3>1 DEF OnTrack
  <2> QED BY <2>1, <2>2
<1>8. OnTrack(c)'
  BY <1>3, ClosedTx DEF OnTrack
<1> QED BY <1>4, <1>5, <1>6, <1>7, <1>8 DEF FleetInv

LEMMA FleetRollback ==
  ASSUME FleetInv, NEW c \in Calls, Fleet!Rollback(c)
  PROVE  FleetInv'
<1>1. /\ FleetTypes /\ agentTx \in [Calls -> FleetTx] /\ agents \in [Ids -> FleetRows]
      /\ agentWork \in [Ids -> FleetRows]
  BY DEF FleetInv, FleetTypes
<1>2. /\ agents' = agents
      /\ agentWork' = [a \in Ids |-> IF a \in agentTx[c].locks THEN agents[a] ELSE agentWork[a]]
      /\ agentTx' = [agentTx EXCEPT ![c] = Fleet!Closed] /\ agentsUsed' = agentsUsed
  BY DEF Fleet!Rollback, Ids
<1>3. /\ agentTx' \in [Calls -> FleetTx] /\ agentTx'[c] = Fleet!Closed
      /\ \A d \in Calls \ {c} : agentTx'[d] = agentTx[d]
  BY <1>1, <1>2, ClosedTx
<1>4. FleetTypes'
  BY <1>1, <1>2, <1>3 DEF FleetTypes
<1>5. UnlockedIsCommitted'
  BY <1>2, <1>3 DEF FleetInv, UnlockedIsCommitted
<1>6. NotYetDrawn'
  BY <1>2 DEF FleetInv, NotYetDrawn
<1>7. ASSUME NEW d \in Calls \ {c} PROVE OnTrack(d)'
  <2>1. CASE agentTx[c].locks = {}
    <3>1. \A a \in Ids : agentWork'[a] = agentWork[a]
      BY <1>2, <2>1
    <3>2. Seen(d)' = Seen(d)
      BY <1>2, <1>3, <3>1 DEF Seen, Fleet!Sees
    <3>3. \A e \in Calls \ {d} : agentTx[e].locks = {} => agentTx'[e].locks = {}
      BY <1>3, ClosedTx
    <3> QED BY <1>2, <1>3, <3>2, <3>3, StaysOnTrack DEF FleetInv
  <2>2. CASE agentTx[c].locks # {}
    <3>1. ~(agentTx[d].alone /\ agentTx[d].manifest # none)
      BY <2>2 DEF FleetInv, OnTrack
    <3> QED BY <1>3, <3>1 DEF OnTrack
  <2> QED BY <2>1, <2>2
<1>8. OnTrack(c)'
  BY <1>3, ClosedTx DEF OnTrack
<1> QED BY <1>4, <1>5, <1>6, <1>7, <1>8 DEF FleetInv

LEMMA FleetStep == FleetInv /\ [Fleet!Next]_(Fleet!vars) => FleetInv'
<1> SUFFICES ASSUME FleetInv, [Fleet!Next]_(Fleet!vars) PROVE FleetInv'
  OBVIOUS
<1>1. CASE UNCHANGED Fleet!vars
  BY <1>1 DEF Fleet!vars, FleetInv, FleetTypes, UnlockedIsCommitted, NotYetDrawn, OnTrack, Seen, Fleet!Sees
<1>2. ASSUME NEW c \in Calls, NEW m \in Manifests, Fleet!Apply(c, m) PROVE FleetInv'
  BY <1>2, FleetApply
<1>3. ASSUME NEW c \in Calls, NEW i \in agentTx[c].todo,
             Fleet!ApplyUpdate(c, i) \/ Fleet!ApplyDelete(c, i) \/ Fleet!ApplySkip(c, i)
      PROVE  FleetInv'
  BY <1>3, FleetUpdateItem, FleetDeleteItem, FleetSkipItem
<1>4. ASSUME NEW c \in Calls, NEW i \in agentTx[c].todo, NEW a \in Ids, Fleet!ApplyCreate(c, i, a)
      PROVE  FleetInv'
  BY <1>4, FleetCreateItem
<1>5. ASSUME NEW c \in Calls, NEW a \in Ids, NEW model \in Fleet!Models,
             NEW role \in {m.role : m \in Manifests}, NEW name \in Chosen,
             Fleet!Create(c, a, role, name, model)
      PROVE  FleetInv'
  <2>1. name \in FleetNames /\ role \in {m.role : m \in Manifests} \cup {"engineer"}
    BY DEF FleetNames
  <2> QED BY <1>5, <2>1, FleetCreate
<1>6. ASSUME NEW c \in Calls, NEW a \in Ids, NEW model \in Fleet!Models, Fleet!SpawnUnnamed(c, a, model)
      PROVE  FleetInv'
  <2>1. PICK S \in SUBSET Ids :
          Fleet!Create(c, a, "engineer", Fleet!Name(<<"Engineer">>, Fleet!Cardinality(S) + 1), model)
    BY <1>6 DEF Fleet!SpawnUnnamed, Ids
  <2>2. Fleet!Name(<<"Engineer">>, Fleet!Cardinality(S) + 1) \in FleetNames
    BY DEF FleetNames
  <2>3. "engineer" \in {m.role : m \in Manifests} \cup {"engineer"}
    OBVIOUS
  <2> QED BY <2>1, <2>2, <2>3, FleetCreate
<1>7. ASSUME NEW c \in Calls, NEW a \in Ids,
             Fleet!Update(c, a) \/ Fleet!Remove(c, a) \/ Fleet!UpdateMemory(c, a)
      PROVE  FleetInv'
  BY <1>7, FleetChange
<1>8. ASSUME NEW c \in Calls, Fleet!Commit(c) PROVE FleetInv'
  BY <1>8, FleetCommit
<1>9. ASSUME NEW c \in Calls, Fleet!Rollback(c) PROVE FleetInv'
  BY <1>9, FleetRollback
<1> QED BY <1>1, <1>2, <1>3, <1>4, <1>5, <1>6, <1>7, <1>8, <1>9 DEF Fleet!Next, Ids

\* Clusters counts with its own instance of FiniteSets.
LEMMA CountIs == \A S : Fleet!Cardinality(S) = Cardinality(S)
  BY DEF Fleet!Cardinality, Cardinality

\* A manifest that is committed, and during whose application nobody else has written, leaves as
\* many agents of its role that begin with its prefix as it says, numbered from 1, all of its
\* model, and no other agent changed (spec.py, apply).
THEOREM ConvergesSafe == Fleet!Spec => Converges
<1>1. ASSUME FleetInv, NEW c \in Calls, Fleet!Commit(c), agentTx[c].manifest # none, agentTx[c].alone,
             NEW m, m = agentTx[c].manifest,
             NEW members, members = {a \in Ids : Fleet!Member(m, agents'[a])}
      PROVE  /\ Cardinality(members) = m.replicas
             /\ {agents'[a].name.number : a \in members} = 1..m.replicas
             /\ \A a \in members : agents'[a].name.words = m.prefix /\ agents'[a].model = m.model
             /\ \A a \in Ids \ members :
                  agents[a] # Fleet!Absent /\ ~Fleet!Member(m, agents[a]) => agents'[a] = agents[a]
  <2>1. agents' = Seen(c) /\ agentTx[c].todo = {}
    BY <1>1 DEF Fleet!Commit, Seen, Ids
  <2>2. /\ m \in Manifests /\ Fleet!Valid(m) /\ Plan(m, Seen(c), {}) /\ Spared(m, agents, Seen(c))
    BY <1>1, <2>1 DEF FleetInv, OnTrack
  <2>3. Seen(c) \in [Ids -> FleetRows]
    BY <1>1, SeenTyped DEF FleetInv
  <2>4. /\ Cardinality(members) = m.replicas
        /\ {agents'[a].name.number : a \in members} = 1..m.replicas
        /\ \A a \in members : agents'[a].name.words = m.prefix /\ agents'[a].model = m.model
    <3>1. PICK s : s = Seen(c)
      OBVIOUS
    <3>2. agents' = s /\ s \in [Ids -> FleetRows] /\ Plan(m, s, {})
      BY <2>1, <2>2, <2>3, <3>1
    <3>3. members = Cluster(m, s)
      BY <1>1, <3>2 DEF Cluster
    <3>4. /\ Cardinality(members) = m.replicas
          /\ {s[a].name.number : a \in members} = 1..m.replicas
          /\ \A a \in members : s[a].name.words = m.prefix /\ s[a].model = m.model
      BY <2>2, <3>2, <3>3, PlanDone
    <3> QED BY <3>2, <3>4
  <2>5. \A a \in Ids \ members :
          agents[a] # Fleet!Absent /\ ~Fleet!Member(m, agents[a]) => agents'[a] = agents[a]
    BY <2>1, <2>2 DEF Spared
  <2> QED BY <2>4, <2>5
<1> DEFINE converged ==
      \A c \in Calls :
        Fleet!Commit(c) /\ agentTx[c].manifest # none /\ agentTx[c].alone =>
          LET m == agentTx[c].manifest
              members == {a \in Things \cup {a1} : Fleet!Member(m, agents'[a])} IN
          /\ Fleet!Cardinality(members) = m.replicas
          /\ {agents'[a].name.number : a \in members} = 1..m.replicas
          /\ \A a \in members : agents'[a].name.words = m.prefix /\ agents'[a].model = m.model
          /\ \A a \in (Things \cup {a1}) \ members :
               agents[a] # Fleet!Absent /\ ~Fleet!Member(m, agents[a]) => agents'[a] = agents[a]
<1>2. FleetInv => converged
  BY <1>1, CountIs DEF Ids
<1> QED BY <1>2, FleetStarts, FleetStep, PTL DEF Fleet!Spec, Converges, Fleet!Converges
==============================================================================
