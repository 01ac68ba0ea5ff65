-------------------------------- MODULE Tasks --------------------------------
(* Tasks and the agents' current tasks under overlapping transactions.       *)
(*                                                                           *)
(* An operation of the task service reads the task, validates what is asked  *)
(* against what it read, and flushes an UPDATE of the columns it changed,     *)
(* whatever they are by then; rows are locked from their flush to the end of *)
(* the transaction.  A request of the API is a transaction of one operation, *)
(* an agent's session is one of many that reads its own agents row once, at  *)
(* the start.                                                                *)
(*                                                                           *)
(* A task is its status and its assigned agent.  The statements of one       *)
(* operation get their row locks together, except those of a deletion, whose *)
(* first statement is decided by what is committed before the second.        *)
EXTENDS Integers

CONSTANTS
  Tasks,        \* ids, each created once
  Agents,       \* agents of the project
  Managers,     \* those with the role manager
  Calls,        \* transactions open at a time
  NewStatuses,  \* what tasks are created with
  NoAgent, NoTask,
  MaxRequests   \* bound on the operations

\* What is no task is nobody's lock, and what is no agent neither.
ASSUME TasksAssumption ==
  /\ Tasks \cap Agents = {} /\ NoTask \notin Tasks /\ NoAgent \notin Agents
  /\ NewStatuses \subseteq {"backlog", "specifying", "assigned", "in_progress", "review",
                           "done", "aborted"}
  /\ MaxRequests \in Nat

VARIABLES
  row,       \* committed tasks
  work,      \* tasks as the holder of each row lock sees them
  current,   \* committed agents.current_task_id
  workCurrent, \* the same as the holder of the agent's row lock sees it
  tx,        \* the transactions
  used,      \* ids taken
  crossed,   \* history: tasks two transactions handled at once, or patched
  requests   \* operations begun

rows == <<row, work, current, workCurrent>>
vars == <<rows, tx, used, crossed, requests>>

(***************************************************************************)
(* Rows and transactions                                                   *)
(***************************************************************************)
VALID_TRANSITIONS(status) ==
  CASE status = "backlog"     -> {"specifying", "assigned", "in_progress"}
    [] status = "specifying"  -> {"assigned", "backlog"}
    [] status = "assigned"    -> {"in_progress", "backlog", "aborted"}
    [] status = "in_progress" -> {"review", "assigned", "aborted"}
    [] status = "review"      -> {"done", "in_progress"}
    [] status = "done"        -> {}
    [] status = "aborted"     -> {"backlog"}
    [] OTHER                  -> {}

Statuses == {"backlog", "specifying", "assigned", "in_progress", "review",
             "done", "aborted"}

Absent == [status |-> "absent", agent |-> NoAgent]
Task == [status : Statuses, agent : Agents \cup {NoAgent}]
Rows == [Tasks -> Task \cup {Absent}]

(* What is being done: the operation, its task and argument, the task and the *)
(* argument's current task as they were read.                                *)
NoJob == [op |-> "none", task |-> NoTask, arg |-> NoAgent, seen |-> Absent,
          has |-> NoTask]
Closed == [by |-> "nobody", agent |-> NoAgent, loaded |-> NoTask, job |-> NoJob,
           over |-> FALSE, locks |-> {}]

Free(c, x) == \A d \in Calls \ {c} : x \notin tx[d].locks
Sees(c, t) == IF t \in tx[c].locks THEN work[t] ELSE row[t]
SeesCurrent(c, a) == IF a \in tx[c].locks THEN workCurrent[a] ELSE current[a]

Init ==
  /\ row \in [Tasks -> {Absent} \cup {[status |-> s, agent |-> NoAgent] : s \in NewStatuses}]
  /\ work = row /\ used = {t \in Tasks : row[t] # Absent}
  /\ current = [a \in Agents |-> NoTask] /\ workCurrent = current
  /\ tx = [c \in Calls |-> Closed]
  /\ crossed = {} /\ requests = 0

(***************************************************************************)
(* What is asked                                                           *)
(***************************************************************************)
(* An agent's session opens its transaction and loads the agents row, which  *)
(* it does not load again.                                                   *)
OpenSession(c, a) ==
  /\ tx[c] = Closed
  /\ \A d \in Calls : tx[d].agent # a
  /\ tx' = [tx EXCEPT ![c] = [@ EXCEPT !.by = "session", !.agent = a, !.loaded = current[a]]]
  /\ UNCHANGED <<rows, used, crossed, requests>>

(* A new request, or a session between two tools.                            *)
MayAsk(c, by) ==
  /\ requests < MaxRequests
  /\ \/ by = "request" /\ tx[c] = Closed
     \/ by = "session" /\ tx[c].by = "session" /\ tx[c].job = NoJob

IsManager(c) == tx[c].agent \in Managers
LoadedCurrent(c, a) == IF a = tx[c].agent THEN tx[c].loaded ELSE SeesCurrent(c, a)

(* What a transaction has read to change it, or has changed and not committed.*)
InHand(d) ==
  {tx[d].job.task} \cup (tx[d].locks \cap Tasks)
  \cup UNION {{current[a], workCurrent[a]} : a \in tx[d].locks \cap Agents}

(* TaskService.get, which every operation begins with.                       *)
Asked(c, by, op, t, arg) ==
  /\ MayAsk(c, by)
  /\ Sees(c, t) # Absent
  /\ tx' = [tx EXCEPT ![c] = [@ EXCEPT
       !.by = by,
       !.job = [op |-> op, task |-> t, arg |-> arg, seen |-> Sees(c, t),
                has |-> IF arg \in Agents THEN LoadedCurrent(c, arg) ELSE NoTask]]]
  /\ crossed' = crossed \cup {u \in {t} : \E d \in Calls \ {c} : u \in InHand(d)}
  /\ requests' = requests + 1
  /\ UNCHANGED <<rows, used>>

(* update_status, and update with a status: validated against what was read. *)
(* A tool of an engineer wants the task to be his.                           *)
AskStatus(c, by, t, status) ==
  /\ status \in VALID_TRANSITIONS(Sees(c, t).status)
  /\ by = "session" /\ ~IsManager(c) => Sees(c, t).agent = tx[c].agent
  /\ Asked(c, by, "status", t, status)

(* PATCH /tasks/{id} with an assigned_agent_id, null included.               *)
AskPatch(c, t, a) == Asked(c, "request", "patch", t, a)

(* POST /tasks/{id}/assign and the manager's assign_task.                    *)
AskAssign(c, by, t, a) ==
  /\ by = "session" => IsManager(c)
  /\ Asked(c, by, "assign", t, a)

(* An engineer's abort_task: of the task that was current at the start.      *)
AskAbort(c) ==
  /\ tx[c].by = "session" /\ ~IsManager(c)
  /\ tx[c].loaded # NoTask
  /\ "aborted" \in VALID_TRANSITIONS(Sees(c, tx[c].loaded).status)
  /\ Asked(c, "session", "abort", tx[c].loaded, tx[c].agent)

AskDelete(c, t) == Asked(c, "request", "clear", t, NoAgent)

(***************************************************************************)
(* What is written                                                         *)
(***************************************************************************)
(* The operation is over: a session goes on, a request only commits.         *)
Done(x) == [x EXCEPT !.job = NoJob, !.over = (x.by # "session")]

Create(c, by, t, status) ==
  /\ MayAsk(c, by)
  /\ by = "session" => IsManager(c)
  /\ t \notin used
  /\ work' = [work EXCEPT ![t] = [status |-> status, agent |-> NoAgent]]
  /\ tx' = [tx EXCEPT ![c] = Done([tx[c] EXCEPT !.by = by, !.locks = @ \cup {t}])]
  /\ used' = used \cup {t} /\ requests' = requests + 1
  /\ UNCHANGED <<row, current, workCurrent, crossed>>

(* What the job makes of row r: the columns that differ from what was read.  *)
Written(job, r) ==
  CASE job.op = "status" -> [r EXCEPT !.status = job.arg]
    [] job.op = "abort"  -> [r EXCEPT !.status = "aborted"]
    [] job.op = "patch"  -> IF job.arg # job.seen.agent THEN [r EXCEPT !.agent = job.arg] ELSE r
    [] job.op = "assign" ->
         [status |-> IF job.seen.status \in {"backlog", "specifying"}
                     THEN "assigned" ELSE r.status,
          agent |-> IF job.arg # job.seen.agent THEN job.arg ELSE r.agent]

(* A mutant: an assignment leaves the previous agent its current task.       *)
ClearsAborted(c, job) == IF job.op = "abort" THEN {job.arg} ELSE {}

(* The agents whose current task the job sets and clears: an assignment sets *)
(* its agent's and clears the previous one's if it is this task; abort_task   *)
(* clears its own agent's, whatever that is by then.                         *)
Sets(job) == IF job.op = "assign" /\ job.has # job.task THEN {job.arg} ELSE {}
Clears(c, job) ==
  CASE job.op = "abort"  -> {job.arg}
    [] job.op = "assign" -> {p \in Agents \ {job.arg} :
                               p = job.seen.agent /\ SeesCurrent(c, p) = job.task}
    [] OTHER -> {}

(* A foreign key check waits for the end of a deletion of the task.          *)
BeingDeleted(c, t) == ~Free(c, t) /\ work[t] = Absent

(* The flush.  It fails on a row that is gone (Rollback).                    *)
Flush(c) ==
  LET job == tx[c].job
      t == job.task
      agents == Sets(job) \cup Clears(c, job)
      locks == agents \cup {u \in {t} : Written(job, job.seen) # job.seen}
  IN /\ job.op \in {"status", "abort", "patch", "assign"}
     /\ \A x \in locks : Free(c, x)
     /\ ~BeingDeleted(c, t) /\ Sees(c, t) # Absent
     /\ work' = IF t \in locks THEN [work EXCEPT ![t] = Written(job, @)] ELSE work
     /\ workCurrent' = [a \in Agents |-> IF a \in Sets(job) THEN t
                                         ELSE IF a \in agents THEN NoTask
                                         ELSE workCurrent[a]]
     /\ tx' = [tx EXCEPT ![c] =
          Done([tx[c] EXCEPT !.locks = @ \cup locks,
                             !.loaded = IF tx[c].agent \in agents
                                        THEN workCurrent'[tx[c].agent] ELSE @])]
     /\ crossed' = IF job.op = "patch" THEN crossed \cup {t} ELSE crossed
     /\ UNCHANGED <<row, current, used, requests>>

(* delete: first the agents that have the task, by what is committed now ... *)
Clear(c) ==
  LET having == {a \in Agents : SeesCurrent(c, a) = tx[c].job.task}
  IN /\ tx[c].job.op = "clear"
     /\ \A a \in having : Free(c, a)
     /\ workCurrent' = [a \in Agents |-> IF a \in having THEN NoTask ELSE workCurrent[a]]
     /\ tx' = [tx EXCEPT ![c] = [tx[c] EXCEPT !.locks = @ \cup having,
                                              !.job = [tx[c].job EXCEPT !.op = "delete"]]]
     /\ UNCHANGED <<row, work, current, used, crossed, requests>>

(* ... then the row.  The foreign key waits for those who are about to refer *)
(* to it, and fails the deletion if somebody does.                           *)
Delete(c) ==
  LET t == tx[c].job.task
  IN /\ tx[c].job.op = "delete"
     /\ Free(c, t)
     /\ \A a \in Agents : SeesCurrent(c, a) # t /\ (workCurrent[a] = t => Free(c, a))
     /\ work' = [work EXCEPT ![t] = Absent]
     /\ tx' = [tx EXCEPT ![c] = Done([tx[c] EXCEPT !.locks = @ \cup {t}])]
     /\ UNCHANGED <<row, current, workCurrent, used, crossed, requests>>

Commit(c) ==
  /\ tx[c].over \/ (tx[c].by = "session" /\ tx[c].job = NoJob)
  /\ row' = [t \in Tasks |-> IF t \in tx[c].locks THEN work[t] ELSE row[t]]
  /\ current' = [a \in Agents |-> IF a \in tx[c].locks THEN workCurrent[a] ELSE current[a]]
  /\ tx' = [tx EXCEPT ![c] = Closed]
  /\ UNCHANGED <<work, workCurrent, used, crossed, requests>>

(* A statement fails, transactions wait for each other's rows, the session is *)
(* interrupted or raises, the commit fails.                                  *)
Rollback(c) ==
  /\ tx[c] # Closed
  /\ work' = [t \in Tasks |-> IF t \in tx[c].locks THEN row[t] ELSE work[t]]
  /\ workCurrent' = [a \in Agents |->
                       IF a \in tx[c].locks THEN current[a] ELSE workCurrent[a]]
  /\ tx' = [tx EXCEPT ![c] = Closed]
  /\ UNCHANGED <<row, current, used, crossed, requests>>

Operation(c) ==
  \/ \E a \in Agents : OpenSession(c, a)
  \/ \E by \in {"request", "session"}, t \in Tasks :
       \/ \E s \in Statuses : AskStatus(c, by, t, s)
       \/ \E s \in NewStatuses : Create(c, by, t, s)
       \/ \E a \in Agents : AskAssign(c, by, t, a)
  \/ \E t \in Tasks : AskDelete(c, t) \/ \E a \in Agents \cup {NoAgent} : AskPatch(c, t, a)
  \/ AskAbort(c)
  \/ Flush(c) \/ Clear(c) \/ Delete(c)
  \/ Commit(c) \/ Rollback(c)

Next == \E c \in Calls : Operation(c)

Spec == Init /\ [][Next]_vars

(***************************************************************************)
(* Properties                                                              *)
(***************************************************************************)
(* The types; no row has two holders, and one without a holder is as it was  *)
(* committed.                                                                *)
TypeOK ==
  /\ row \in Rows /\ work \in Rows
  /\ current \in [Agents -> Tasks \cup {NoTask}]
  /\ workCurrent \in [Agents -> Tasks \cup {NoTask}]
  /\ \A c \in Calls : tx[c].locks \subseteq Tasks \cup Agents
  /\ \A c, d \in Calls : c # d => tx[c].locks \cap tx[d].locks = {}
  /\ \A t \in Tasks : work[t] # row[t] => \E c \in Calls : t \in tx[c].locks
  /\ \A a \in Agents : workCurrent[a] # current[a] => \E c \in Calls : a \in tx[c].locks

(* An agent's current task exists and is assigned to that agent: an          *)
(* assignment takes the task from the agent that had it, a deletion from      *)
(* whoever has it.  It fails only for a task that two transactions had in     *)
(* hand at once, or whose assignee was patched.                              *)
CurrentIsAssigned ==
  \A a \in Agents :
    current[a] # NoTask =>
      /\ row[current[a]] # Absent
      /\ current[a] \in crossed \/ row[current[a]].agent = a

(* task_service.py:24: "done": [],  # Terminal state                         *)
DoneIsTerminal ==
  [][\A t \in Tasks : row[t].status = "done" => row'[t].status \in {"done", "absent"}]_vars

=============================================================================
