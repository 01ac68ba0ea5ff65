--------------------------- MODULE MessageDelivery ---------------------------
(***************************************************************************)
(* How a channel message reaches its agent: AgentWorker's outer loop       *)
(* (backend/workers/agent_worker.py), the part of Agent.run that reads and *)
(* writes messages (backend/agents/agent.py), the API and tool calls that  *)
(* send, the start-up replay and the reconciler's passes 2 and 4.          *)
(*                                                                         *)
(* A wake cycle is ONE database transaction: what a session reads          *)
(* (mark_received) and writes (send_message) stays in recv and out until   *)
(* the commit in the worker's finally block, and is undone by a rollback.  *)
(* status, addr and agentStatus are the committed rows, all that other     *)
(* transactions can see.                                                   *)
(***************************************************************************)
EXTENDS Naturals, FiniteSets

CONSTANTS
  Agents,      \* agents of the projects the backend serves
  Managers,    \* those whose role is "manager": only they assign tasks
  Messages,    \* identities of channel_messages rows
  NoAgent,     \* target of a row that does not exist yet; nobody
  NoQueue,     \* the router has no queue for the agent
  ReadLimit,   \* get_unread_for_agent's limit (100)
  MaxTokens,   \* bound of the model: wake-ups a queue may hold
  MaxFaults    \* bound of the model: failures, interrupts and restarts

ASSUME DeliveryAssumption ==
  /\ IsFiniteSet(Messages)
  /\ Managers \subseteq Agents
  /\ Agents \cap Messages = {}
  /\ NoAgent \notin Agents \cup Messages
  /\ NoQueue \notin Agents
  /\ ReadLimit \in Nat \ {0}
  /\ MaxTokens \in Nat \ {0}
  /\ MaxFaults \in Nat

VARIABLES
  \* the backend process
  phase,       \* "down", "starting" (WorkerManager.start) or "up"
  pc,          \* where each agent's worker is, see Places
  interrupt,   \* AgentWorker._interrupt
  queueOf,     \* MessageRouter._queues; an agent's queue is named by the agent
  tokens,      \* sentinels waiting in each agent's queue
  posted,      \* API sends between their commit and their notify
  assigning,   \* assign requests between their notify and their commit
  activating,  \* those of them that read the agent row as "sleeping"
  \* the open transactions of the wake cycles
  recv,        \* agent -> messages its session marked received
  out,         \* agent -> messages its session wrote
  woken,       \* agent -> agents its session's assign calls set "active"
  wants,       \* agent -> the agents row its session's tool call waits to write
  holder,      \* agents row -> whose transaction has written it: an agent's
               \* cycle, a message's assign request, or NoAgent
  \* committed rows
  status,      \* message -> "unused" (no row), "sent" or "received"
  addr,        \* message -> target_agent_id; chosen when the row is written
  agentStatus, \* agents.status
  \* history and bound
  viaApi,      \* messages committed by an API send
  faults       \* failures, interrupts and restarts so far

procVars == <<phase, pc, interrupt, queueOf, tokens, posted, assigning, activating>>
txVars == <<recv, out, woken, wants, holder>>
dbVars == <<status, addr, agentStatus>>
vars == <<procVars, txVars, dbVars, viaApi, faults>>

Router == INSTANCE MessageRouter WITH Queues <- Agents
Box == INSTANCE Mailbox WITH
         box <- status,
         addr <- [m \in Messages |-> IF status[m] = "unused" THEN NoAgent ELSE addr[m]]

(***************************************************************************)
(* dead      no task runs for the agent                                    *)
(* spawned   the task exists, run() has not registered its queue yet       *)
(* idle      awaiting queue.get()                                          *)
(* loading   woken, reading its agent and project rows                     *)
(* claiming  flushing status = "active": waiting for its row's lock        *)
(* boot      the Agent.run task exists and has read no message yet         *)
(* loop      past the bootstrap                                            *)
(* locking   in a tool call that waits for a row lock                      *)
(* ending    Agent.run returned, the cycle's commit is next                *)
(* aborting  Agent.run was cancelled or raised, the rollback is next       *)
(***************************************************************************)
Places == {"dead", "spawned", "idle", "loading", "claiming", "boot", "loop", "locking",
           "ending", "aborting"}

TypeOK ==
  /\ phase \in {"down", "starting", "up"}
  /\ pc \in [Agents -> Places]
  /\ interrupt \in [Agents -> BOOLEAN]
  /\ queueOf \in [Agents -> Agents \cup {NoQueue}]
  /\ tokens \in [Agents -> Nat]
  /\ posted \in SUBSET Messages
  /\ assigning \in SUBSET Messages
  /\ activating \in SUBSET assigning
  /\ recv \in [Agents -> SUBSET Messages]
  /\ out \in [Agents -> SUBSET Messages]
  /\ woken \in [Agents -> SUBSET Agents]
  /\ wants \in [Agents -> Agents \cup {NoAgent}]
  /\ holder \in [Agents -> Agents \cup Messages \cup {NoAgent}]
  /\ status \in [Messages -> {"unused", "sent", "received"}]
  /\ addr \in [Messages -> Agents \cup {NoAgent}]
  /\ agentStatus \in [Agents -> {"sleeping", "active"}]
  /\ viaApi \in SUBSET Messages
  /\ faults \in 0..MaxFaults

Init ==
  /\ phase = "down"
  /\ pc = [a \in Agents |-> "dead"]
  /\ interrupt = [a \in Agents |-> FALSE]
  /\ queueOf = [a \in Agents |-> NoQueue]
  /\ tokens = [a \in Agents |-> 0]
  /\ posted = {} /\ assigning = {} /\ activating = {}
  /\ recv = [a \in Agents |-> {}]
  /\ out = [a \in Agents |-> {}]
  /\ woken = [a \in Agents |-> {}]
  /\ wants = [a \in Agents |-> NoAgent]
  /\ holder = [a \in Agents |-> NoAgent]
  /\ status = [m \in Messages |-> "unused"]
  /\ addr = [m \in Messages |-> NoAgent]
  /\ agentStatus = [a \in Agents |-> "sleeping"]
  /\ viaApi = {}
  /\ faults = 0

-----------------------------------------------------------------------------
(* Start-up: main._start_worker_manager -> WorkerManager.start             *)

\* Every agent row gets a worker task.
Start ==
  /\ phase = "down"
  /\ phase' = "starting"
  /\ pc' = [a \in Agents |-> "spawned"]
  /\ UNCHANGED <<interrupt, queueOf, tokens, posted, assigning, activating,
                 txVars, dbVars, viaApi, faults>>

Undelivered(a) == {m \in Messages : status[m] = "sent" /\ addr[m] = a}

\* All queues are registered: one notify per undelivered message, and the
\* readiness gate opens.  No worker can have been woken before.
StartReplay ==
  /\ phase = "starting"
  /\ \A a \in Agents : pc[a] = "idle"
  /\ \A a \in Agents : tokens[a] + Cardinality(Undelivered(a)) <= MaxTokens
  /\ phase' = "up"
  /\ tokens' = [a \in Agents |-> tokens[a] + Cardinality(Undelivered(a))]
  /\ UNCHANGED <<pc, interrupt, queueOf, posted, assigning, activating,
                 txVars, dbVars, viaApi, faults>>

-----------------------------------------------------------------------------
(* Senders outside the workers                                             *)

\* An UPDATE of the row of a by transaction t does not wait.
MayWrite(t, a) == holder[a] \in {NoAgent, t}
Write(t, a) == MayWrite(t, a) /\ holder' = [holder EXCEPT ![a] = t]
Released(t) == [a \in Agents |-> IF holder[a] = t THEN NoAgent ELSE holder[a]]

\* No row and no uncommitted insert uses the identity.
Fresh(m) ==
  /\ status[m] = "unused"
  /\ m \notin assigning
  /\ \A a \in Agents : m \notin out[a]

\* POST /messages/send, /internal/agent/send-message, /agents/{id}/wake with
\* a message: insert, commit ...
ApiSend(m, a) ==
  /\ phase = "up"
  /\ Fresh(m)
  /\ status' = [status EXCEPT ![m] = "sent"]
  /\ addr' = [addr EXCEPT ![m] = a]
  /\ posted' = posted \cup {m}
  /\ viaApi' = viaApi \cup {m}
  /\ UNCHANGED <<phase, pc, interrupt, queueOf, tokens, assigning, activating,
                 txVars, agentStatus, faults>>

\* ... and, when the commit has returned, notify.
ApiNotify(m) ==
  /\ m \in posted
  /\ posted' = posted \ {m}
  /\ Router!Notify(addr[m])
  /\ UNCHANGED <<phase, pc, interrupt, assigning, activating, txVars, dbVars,
                 viaApi, faults>>

\* POST /agents/{id}/wake without a message.
ApiWake(a) ==
  /\ phase = "up"
  /\ Router!Notify(a)
  /\ UNCHANGED <<phase, pc, interrupt, posted, assigning, activating, txVars,
                 dbVars, viaApi, faults>>

\* TaskService.assign wakes the agent first ...
AssignWake(m, a) ==
  /\ phase = "up"
  /\ Fresh(m)
  /\ assigning' = assigning \cup {m}
  /\ activating' = IF agentStatus[a] = "sleeping" THEN activating \cup {m} ELSE activating
  /\ addr' = [addr EXCEPT ![m] = a]
  /\ Router!Notify(a)
  /\ UNCHANGED <<phase, pc, interrupt, posted, txVars, status, agentStatus,
                 viaApi, faults>>

\* ... then writes its row (current_task_id, status) ...
AssignFlush(m) ==
  /\ m \in assigning
  /\ holder[addr[m]] = NoAgent
  /\ Write(m, addr[m])
  /\ UNCHANGED <<procVars, recv, out, woken, wants, dbVars, viaApi, faults>>

\* ... and row and "Task assigned" message are committed at the end of the
\* request.
AssignCommit(m) ==
  /\ m \in assigning
  /\ holder[addr[m]] = m
  /\ holder' = Released(m)
  /\ status' = [status EXCEPT ![m] = "sent"]
  /\ agentStatus' = IF m \in activating THEN [agentStatus EXCEPT ![addr[m]] = "active"]
                    ELSE agentStatus
  /\ assigning' = assigning \ {m}
  /\ activating' = activating \ {m}
  /\ UNCHANGED <<phase, pc, interrupt, queueOf, tokens, posted, recv, out, woken,
                 wants, addr, viaApi, faults>>

\* The request fails: get_db rolls back.
AssignAbort(m) ==
  /\ m \in assigning
  /\ addr' = [addr EXCEPT ![m] = NoAgent]
  /\ assigning' = assigning \ {m}
  /\ activating' = activating \ {m}
  /\ holder' = Released(m)
  /\ UNCHANGED <<phase, pc, interrupt, queueOf, tokens, posted, recv, out, woken,
                 wants, status, agentStatus, viaApi, faults>>

-----------------------------------------------------------------------------
(* The worker's outer loop: AgentWorker.run                                *)

WorkerReady(a) ==
  /\ pc[a] = "spawned"
  /\ pc' = [pc EXCEPT ![a] = "idle"]
  /\ Router!Register(a, a)
  /\ UNCHANGED <<phase, interrupt, tokens, posted, assigning, activating,
                 txVars, dbVars, viaApi, faults>>

WorkerWake(a) ==
  /\ pc[a] = "idle"
  /\ Router!Take(a)
  /\ pc' = [pc EXCEPT ![a] = "loading"]
  /\ interrupt' = [interrupt EXCEPT ![a] = FALSE]
  /\ UNCHANGED <<phase, posted, assigning, activating, txVars, dbVars, viaApi, faults>>

\* The agent row is read; setting status = "active" writes it unless it says
\* so already.
BeginSession(a) ==
  /\ pc[a] = "loading"
  /\ pc' = [pc EXCEPT ![a] = IF agentStatus[a] = "sleeping" THEN "claiming" ELSE "boot"]
  /\ UNCHANGED <<phase, interrupt, queueOf, tokens, posted, assigning,
                 activating, txVars, dbVars, viaApi, faults>>

\* The flush has the row; the session row and the Agent.run task follow.
Claim(a) ==
  /\ pc[a] = "claiming"
  /\ pc' = [pc EXCEPT ![a] = "boot"]
  /\ Write(a, a)
  /\ UNCHANGED <<phase, interrupt, queueOf, tokens, posted, assigning, activating,
                 recv, out, woken, wants, dbVars, viaApi, faults>>

\* What the transaction undone leaves of its inserts: nothing.
Discard(a) == addr' = [m \in Messages |-> IF m \in out[a] THEN NoAgent ELSE addr[m]]

CloseTx(a) ==
  /\ recv' = [recv EXCEPT ![a] = {}]
  /\ out' = [out EXCEPT ![a] = {}]
  /\ woken' = [woken EXCEPT ![a] = {}]
  /\ wants' = [wants EXCEPT ![a] = NoAgent]
  /\ holder' = Released(a)

\* The agent goes back to sleep; those it has assigned tasks to become active.
Settled(a) == [b \in Agents |-> IF b = a THEN "sleeping"
                               ELSE IF b \in woken[a] THEN "active" ELSE agentStatus[b]]

\* Mutant: the cycle ends by emptying the queue, its wake-ups having been served.
CommitDrains(a) ==
  /\ pc[a] = "ending" /\ MayWrite(a, a)
  /\ pc' = [pc EXCEPT ![a] = "idle"]
  /\ status' = [m \in Messages |-> IF m \in recv[a] THEN "received"
                                   ELSE IF m \in out[a] THEN "sent" ELSE status[m]]
  /\ agentStatus' = Settled(a)
  /\ tokens' = [tokens EXCEPT ![a] = 0]
  /\ CloseTx(a)
  /\ UNCHANGED <<phase, interrupt, queueOf, posted, assigning, activating, addr,
                 viaApi, faults>>

\* The finally block after a session that returned.
Commit(a) ==
  /\ pc[a] = "ending" /\ MayWrite(a, a)
  /\ pc' = [pc EXCEPT ![a] = "idle"]
  /\ status' = [m \in Messages |-> IF m \in recv[a] THEN "received"
                                   ELSE IF m \in out[a] THEN "sent" ELSE status[m]]
  /\ agentStatus' = Settled(a)
  /\ CloseTx(a)
  /\ UNCHANGED <<phase, interrupt, queueOf, tokens, posted, assigning,
                 activating, addr, viaApi, faults>>

\* The commit raises: rollback, and the status is not reset.
CommitFail(a) ==
  /\ pc[a] = "ending"
  /\ faults < MaxFaults
  /\ faults' = faults + 1
  /\ pc' = [pc EXCEPT ![a] = "idle"]
  /\ Discard(a)
  /\ CloseTx(a)
  /\ UNCHANGED <<phase, interrupt, queueOf, tokens, posted, assigning,
                 activating, status, agentStatus, viaApi>>

\* Mutant: needs_rollback_before_reset is forgotten, the reads are committed.
RollbackForgotten(a) ==
  /\ pc[a] = "aborting"
  /\ agentStatus[a] = "sleeping" \/ MayWrite(a, a)
  /\ pc' = [pc EXCEPT ![a] = "idle"]
  /\ status' = [m \in Messages |-> IF m \in recv[a] THEN "received"
                                   ELSE IF m \in out[a] THEN "sent" ELSE status[m]]
  /\ CloseTx(a)
  /\ agentStatus' = Settled(a)
  /\ UNCHANGED <<phase, interrupt, queueOf, tokens, posted, assigning,
                 activating, addr, viaApi, faults>>

\* The finally block after a cancelled or failed session: rollback, then
\* status = "sleeping" alone is committed.
Rollback(a) ==
  /\ pc[a] = "aborting"
  /\ agentStatus[a] = "sleeping" \/ MayWrite(a, a)
  /\ pc' = [pc EXCEPT ![a] = "idle"]
  /\ Discard(a)
  /\ CloseTx(a)
  /\ agentStatus' = [agentStatus EXCEPT ![a] = "sleeping"]
  /\ UNCHANGED <<phase, interrupt, queueOf, tokens, posted, assigning,
                 activating, status, viaApi, faults>>

\* Loading the rows, the session or one of its tools raises.
SessionError(a) ==
  /\ pc[a] \in {"loading", "claiming", "boot", "loop", "locking"}
  /\ faults < MaxFaults
  /\ faults' = faults + 1
  /\ pc' = [pc EXCEPT ![a] = "aborting"]
  /\ UNCHANGED <<phase, interrupt, queueOf, tokens, posted, assigning,
                 activating, txVars, dbVars, viaApi>>

\* The rollback itself raises: run() ends, its queue goes with it.
WorkerCrash(a) ==
  /\ pc[a] \in {"ending", "aborting"}
  /\ faults < MaxFaults
  /\ faults' = faults + 1
  /\ pc' = [pc EXCEPT ![a] = "dead"]
  /\ Discard(a)
  /\ CloseTx(a)
  /\ Router!Unregister(a)
  /\ tokens' = [tokens EXCEPT ![a] = 0]
  /\ UNCHANGED <<phase, interrupt, posted, assigning, activating, status,
                 agentStatus, viaApi>>

\* WorkerManager._on_worker_done spawns a new worker, with an empty queue.
Respawn(a) ==
  /\ phase # "down"
  /\ pc[a] = "dead"
  /\ pc' = [pc EXCEPT ![a] = "spawned"]
  /\ interrupt' = [interrupt EXCEPT ![a] = FALSE]
  /\ UNCHANGED <<phase, queueOf, tokens, posted, assigning, activating,
                 txVars, dbVars, viaApi, faults>>

\* interrupt(): sets the flag; an Agent.run task in flight is cancelled.
Interrupt(a) ==
  /\ phase = "up"
  /\ pc[a] # "dead"
  /\ faults < MaxFaults
  /\ faults' = faults + 1
  /\ interrupt' = [interrupt EXCEPT ![a] = TRUE]
  /\ pc' = IF pc[a] \in {"boot", "loop", "locking"} THEN [pc EXCEPT ![a] = "aborting"] ELSE pc
  /\ UNCHANGED <<phase, queueOf, tokens, posted, assigning, activating,
                 txVars, dbVars, viaApi>>

-----------------------------------------------------------------------------
(* The session: what Agent.run does with messages                          *)

\* Mutant: the query lost its target_agent_id condition.
UnreadOfAnyone(a) ==
  {m \in Messages : status[m] = "sent" \/ m \in out[a]} \ recv[a]

\* Unread rows as the session's own transaction sees them.
Unread(a) ==
  {m \in Messages : addr[m] = a /\ (status[m] = "sent" \/ m \in out[a])} \ recv[a]

\* get_unread_for_agent(limit).
IsBatch(R, U) ==
  IF Cardinality(U) <= ReadLimit THEN R = U ELSE R \subseteq U /\ Cardinality(R) = ReadLimit

\* _bootstrap: read, or go on with a live assignment, or end at once.
Bootstrap(a) ==
  /\ pc[a] = "boot"
  /\ \E R \in SUBSET Unread(a) :
       /\ IsBatch(R, Unread(a))
       /\ recv' = [recv EXCEPT ![a] = @ \cup R]
       /\ \/ pc' = [pc EXCEPT ![a] = "loop"]
          \/ R = {} /\ pc' = [pc EXCEPT ![a] = "ending"]
  /\ UNCHANGED <<phase, interrupt, queueOf, tokens, posted, assigning,
                 activating, out, woken, wants, holder, dbVars, viaApi, faults>>

\* _inject_mid_loop_messages, every fifth iteration.
MidLoopRead(a) ==
  /\ pc[a] = "loop"
  /\ ~interrupt[a]
  /\ Unread(a) # {}
  /\ \E R \in SUBSET Unread(a) :
       /\ IsBatch(R, Unread(a))
       /\ recv' = [recv EXCEPT ![a] = @ \cup R]
  /\ UNCHANGED <<procVars, out, woken, wants, holder, dbVars, viaApi, faults>>

\* The send_message tool: the row is flushed, not committed, and the target
\* is notified.
ToolSend(a, m, b) ==
  /\ pc[a] = "loop"
  /\ ~interrupt[a]
  /\ Fresh(m)
  /\ out' = [out EXCEPT ![a] = @ \cup {m}]
  /\ addr' = [addr EXCEPT ![m] = b]
  /\ Router!Notify(b)
  /\ UNCHANGED <<phase, pc, interrupt, posted, assigning, activating, recv,
                 woken, wants, holder, status, agentStatus, viaApi, faults>>

\* update_memory: the session writes its own agents row.
ToolUpdateMemory(a) ==
  /\ pc[a] = "loop"
  /\ ~interrupt[a]
  /\ pc' = [pc EXCEPT ![a] = "locking"]
  /\ wants' = [wants EXCEPT ![a] = a]
  /\ UNCHANGED <<phase, interrupt, queueOf, tokens, posted, assigning, activating,
                 recv, out, woken, holder, dbVars, viaApi, faults>>

\* abort_task: so does this, with a message for the task's creator, whom
\* nobody notifies.
ToolAbortTask(a, m, b) ==
  /\ pc[a] = "loop" /\ a \notin Managers
  /\ ~interrupt[a]
  /\ Fresh(m)
  /\ pc' = [pc EXCEPT ![a] = "locking"]
  /\ wants' = [wants EXCEPT ![a] = a]
  /\ out' = [out EXCEPT ![a] = @ \cup {m}]
  /\ addr' = [addr EXCEPT ![m] = b]
  /\ UNCHANGED <<phase, interrupt, queueOf, tokens, posted, assigning, activating,
                 recv, woken, holder, status, agentStatus, viaApi, faults>>

\* Mutant: the tool does not check the caller's role.
ToolAssignByAnyone(a, m, b) ==
  /\ pc[a] = "loop"
  /\ ~interrupt[a]
  /\ Fresh(m)
  /\ pc' = [pc EXCEPT ![a] = "locking"]
  /\ wants' = [wants EXCEPT ![a] = b]
  /\ \E sleeping \in SUBSET ({b} \ {a}) :
       woken' = [woken EXCEPT ![a] = @ \cup sleeping]
  /\ out' = [out EXCEPT ![a] = @ \cup {m}]
  /\ addr' = [addr EXCEPT ![m] = b]
  /\ Router!Notify(b)
  /\ UNCHANGED <<phase, interrupt, posted, assigning, activating, recv, holder,
                 status, agentStatus, viaApi, faults>>

\* assign_task: TaskService.assign inside a manager's session.  Whether it sets
\* the status depends on what the session has read of b before.
ToolAssign(a, m, b) ==
  /\ pc[a] = "loop" /\ a \in Managers
  /\ ~interrupt[a]
  /\ Fresh(m)
  /\ pc' = [pc EXCEPT ![a] = "locking"]
  /\ wants' = [wants EXCEPT ![a] = b]
  /\ \E sleeping \in SUBSET ({b} \ {a}) :
       woken' = [woken EXCEPT ![a] = @ \cup sleeping]
  /\ out' = [out EXCEPT ![a] = @ \cup {m}]
  /\ addr' = [addr EXCEPT ![m] = b]
  /\ Router!Notify(b)
  /\ UNCHANGED <<phase, interrupt, posted, assigning, activating, recv, holder,
                 status, agentStatus, viaApi, faults>>

\* The tool call's flush has the row.
ToolFlush(a) ==
  /\ pc[a] = "locking"
  /\ Write(a, wants[a])
  /\ wants' = [wants EXCEPT ![a] = NoAgent]
  /\ pc' = [pc EXCEPT ![a] = "loop"]
  /\ UNCHANGED <<phase, interrupt, queueOf, tokens, posted, assigning, activating,
                 recv, out, woken, dbVars, viaApi, faults>>

\* END, a plain text answer, a budget gate, MAX_ITERATIONS, an LLM error, or
\* the interrupt flag seen at the top of an iteration.
EndSession(a) ==
  /\ pc[a] = "loop"
  /\ pc' = [pc EXCEPT ![a] = "ending"]
  /\ UNCHANGED <<phase, interrupt, queueOf, tokens, posted, assigning,
                 activating, txVars, dbVars, viaApi, faults>>

-----------------------------------------------------------------------------
(* The reconciler, every RECONCILE_INTERVAL_SECONDS, and the process       *)

\* Mutant: only agents that had no queue are notified again.
RetryUnregistered(m) ==
  /\ phase = "up"
  /\ status[m] = "sent"
  /\ queueOf[addr[m]] = NoQueue
  /\ Router!Notify(addr[m])
  /\ UNCHANGED <<phase, pc, interrupt, posted, assigning, activating, txVars,
                 dbVars, viaApi, faults>>

\* _retry_stuck_messages for one stuck row.
RetryStuck(m) ==
  /\ phase = "up"
  /\ status[m] = "sent"
  /\ Router!Notify(addr[m])
  /\ UNCHANGED <<phase, pc, interrupt, posted, assigning, activating, txVars,
                 dbVars, viaApi, faults>>

\* _fix_stuck_agents, pass 1: a running session's row is never committed, so
\* an active agent always looks as if it had none.  The pass waits as long as
\* somebody else has written the row.
FixStuckAgent(a) ==
  /\ phase = "up"
  /\ agentStatus[a] = "active"
  /\ holder[a] = NoAgent
  /\ agentStatus' = [agentStatus EXCEPT ![a] = "sleeping"]
  /\ UNCHANGED <<procVars, txVars, status, addr, viaApi, faults>>

\* The process goes away: every open transaction is rolled back.
Crash ==
  /\ phase # "down"
  /\ faults < MaxFaults
  /\ faults' = faults + 1
  /\ phase' = "down"
  /\ pc' = [a \in Agents |-> "dead"]
  /\ interrupt' = [a \in Agents |-> FALSE]
  /\ queueOf' = [a \in Agents |-> NoQueue]
  /\ tokens' = [a \in Agents |-> 0]
  /\ posted' = {} /\ assigning' = {} /\ activating' = {}
  /\ recv' = [a \in Agents |-> {}]
  /\ out' = [a \in Agents |-> {}]
  /\ woken' = [a \in Agents |-> {}]
  /\ wants' = [a \in Agents |-> NoAgent]
  /\ holder' = [a \in Agents |-> NoAgent]
  /\ addr' = [m \in Messages |-> IF status[m] = "unused" THEN NoAgent ELSE addr[m]]
  /\ UNCHANGED <<status, agentStatus, viaApi>>

-----------------------------------------------------------------------------

CycleStep(a) ==
  \/ WorkerReady(a) \/ WorkerWake(a) \/ BeginSession(a) \/ Claim(a)
  \/ Bootstrap(a) \/ ToolFlush(a) \/ Commit(a) \/ Rollback(a) \/ Respawn(a)

Next ==
  \/ Start
  \/ StartReplay
  \/ \E m \in Messages, a \in Agents : ApiSend(m, a) \/ AssignWake(m, a)
  \/ \E m \in Messages : \/ ApiNotify(m) \/ AssignFlush(m) \/ AssignCommit(m)
                         \/ AssignAbort(m) \/ RetryStuck(m)
  \/ \E a \in Agents : \/ CycleStep(a) \/ EndSession(a) \/ ApiWake(a)
                       \/ MidLoopRead(a) \/ ToolUpdateMemory(a)
                       \/ CommitFail(a) \/ SessionError(a) \/ WorkerCrash(a)
                       \/ Interrupt(a) \/ FixStuckAgent(a)
  \/ \E a, b \in Agents, m \in Messages :
       ToolSend(a, m, b) \/ ToolAbortTask(a, m, b) \/ ToolAssign(a, m, b)
  \/ Crash

Spec == Init /\ [][Next]_vars

\* The event loop runs every ready task, PostgreSQL serves the waiters for a
\* row in turn; sessions (their iterations and LLM calls are bounded) and
\* requests end; the container is restarted; the reconciler comes round and
\* every unread row grows older than its threshold.
Fairness ==
  /\ WF_vars(Start \/ StartReplay)
  /\ \A a \in Agents : SF_vars(CycleStep(a)) /\ SF_vars(EndSession(a))
  /\ \A m \in Messages : WF_vars(AssignCommit(m) \/ AssignAbort(m)) /\ WF_vars(RetryStuck(m))

FairSpec == Spec /\ Fairness

-----------------------------------------------------------------------------
(* Properties                                                              *)

\* The wake-up of a message is still somewhere on its way.
WakePending(m) ==
  \/ phase # "up"
  \/ m \in posted
  \/ tokens[addr[m]] > 0
  \/ pc[addr[m]] \in {"loading", "claiming", "boot"}
  \/ m \in recv[addr[m]]

\* While nothing fails and nobody interrupts, a message the API has committed
\* does not depend on the reconciler: it is consumed, or its wake-up is on its
\* way, or a session has read it.  MessageService.send, commit, notify and the
\* worker's get, bootstrap, commit leave no gap between them.
NoStranded ==
  \A m \in viaApi : faults = 0 /\ status[m] = "sent" => WakePending(m)

\* What a session holds as read is its own and nobody else has consumed it:
\* mark_received in an open transaction never concerns a message of another
\* agent, one withdrawn by a rollback, or one that is already committed.
UnreadUntilCommit ==
  \A a \in Agents : \A m \in recv[a] :
    addr[m] = a /\ (status[m] = "sent" \/ m \in out[a])

\* The agent whose transaction the cycle of a waits for.
Blocker(a) ==
  CASE pc[a] \in {"claiming", "ending"} /\ ~MayWrite(a, a) -> holder[a]
    [] pc[a] = "aborting" /\ agentStatus[a] = "active" /\ ~MayWrite(a, a) -> holder[a]
    [] pc[a] = "locking" /\ ~MayWrite(a, wants[a]) -> holder[wants[a]]
    [] OTHER -> NoAgent

\* A cycle keeps the rows it has written until it ends, and waits for others
\* with them in hand.  With one manager no chain of such waits is longer than
\* two, so none closes to a deadlock: whoever blocks the blocker of a cycle is
\* on its way.
LockChainsEnd ==
  \A M \in Agents : Managers \subseteq {M} =>
    \A a \in Agents : Blocker(a) \in Agents =>
      LET b == Blocker(a) IN Blocker(b) \in Agents => Blocker(Blocker(b)) \notin Agents

\* Seen from the committed rows, every session is one atomic turn.
ImplementsMailbox == Box!Spec

\* A turn that is cancelled or fails leaves nothing behind: what it read is
\* unread again and what it wrote never existed.  This is what the worker's
\* needs_rollback_before_reset is for; without it the finally block's commit,
\* meant for the status alone, would commit half a turn.
AbortedTurnLeavesNothing ==
  [][\A a \in Agents :
       pc[a] = "aborting" /\ pc'[a] # "aborting" =>
         /\ \A m \in recv[a] \ out[a] : status'[m] = "sent"
         /\ \A m \in out[a] : status'[m] = "unused"]_vars

\* Every committed message is consumed in the end, whatever was interrupted,
\* rolled back, crashed or notified too early: the reconciler's retry works.
Delivered == \A m \in Messages : status[m] = "sent" ~> status[m] = "received"

\* docs/backend/workers.md: an interrupt takes effect at the next iteration
\* boundary, "there is no mid-execution cancellation".  So the session an
\* interrupt hits ends by returning, and what it has read stays read.
InterruptAtBoundary ==
  [][\A a \in Agents :
       interrupt[a] /\ recv[a] # {} /\ pc'[a] = "idle" =>
         \A m \in recv[a] : status'[m] = "received"]_vars

\* docs/backend/workers.md, reconciler pass 2: an active agent is reset if it
\* has no running session.  So the status of one that has is left alone.
ResetOnlyWithoutSession ==
  [][\A a \in Agents :
       pc[a] \in {"boot", "loop", "locking"} /\ phase' = "up" /\ agentStatus[a] = "active" =>
         agentStatus'[a] = "active"]_vars

-----------------------------------------------------------------------------
(* The inductive invariant                                                 *)

\* The router has an agent's queue exactly while its run() is at work.
WorkersRegistered ==
  \A a \in Agents :
    queueOf[a] = IF pc[a] \in {"dead", "spawned"} THEN NoQueue ELSE a

\* A cycle's transaction is open only during the cycle, and nobody else sees,
\* reuses or consumes what it inserts.
TransactionsIsolated ==
  /\ \A a \in Agents : pc[a] \notin {"boot", "loop", "locking", "ending", "aborting"} =>
       recv[a] = {} /\ out[a] = {} /\ woken[a] = {}
  /\ \A a \in Agents : \A m \in out[a] :
       status[m] = "unused" /\ addr[m] \in Agents /\ m \notin assigning
  /\ \A a, b \in Agents : \A m \in out[a] \cap out[b] : a = b

\* A row is locked by a request that is not over, or by a cycle: the agent's
\* own or a manager's.  Only a session's tool call wants a row.
LocksOwned ==
  /\ \A a \in Agents : holder[a] \in Messages => holder[a] \in assigning /\ addr[holder[a]] = a
  /\ \A a \in Agents : holder[a] \in Agents =>
       /\ pc[holder[a]] \in {"boot", "loop", "locking", "ending", "aborting"}
       /\ holder[a] \in Managers \cup {a}
  /\ \A a \in Agents :
       /\ pc[a] = "locking" => wants[a] \in Agents
       /\ wants[a] \in Agents => wants[a] = a \/ a \in Managers
       /\ woken[a] # {} => a \in Managers

RowsAddressed ==
  /\ \A m \in Messages : status[m] # "unused" => addr[m] \in Agents
  /\ \A m \in assigning : status[m] = "unused" /\ addr[m] \in Agents
  /\ \A m \in viaApi \cup posted : status[m] # "unused"

DownIsDown == phase = "down" => \A a \in Agents : pc[a] = "dead"

\* Without faults no worker is lost or aborts once the API is open.
Undisturbed ==
  faults = 0 =>
    IF phase = "up" THEN \A a \in Agents : pc[a] \notin {"dead", "spawned", "aborting"}
    ELSE viaApi = {}

IndInv ==
  /\ TypeOK /\ WorkersRegistered /\ TransactionsIsolated /\ RowsAddressed
  /\ LocksOwned /\ DownIsDown /\ Undisturbed /\ UnreadUntilCommit
=============================================================================
