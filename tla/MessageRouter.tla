---------------------------- MODULE MessageRouter ----------------------------
(***************************************************************************)
(* The in-process singleton of backend/workers/message_router.py: a map    *)
(* from an agent to the asyncio.Queue its worker listens on.  A queue      *)
(* carries no payload, only wake-up sentinels, so its content is a number. *)
(* The operations are synchronous in the code and atomic here; modules     *)
(* that own workers compose them with what the callers do.                 *)
(***************************************************************************)
EXTENDS Naturals

CONSTANTS
  Agents,      \* agent ids
  Queues,      \* queue objects: each belongs to one AgentWorker
  NoQueue,     \* "no entry in _queues"
  MaxTokens    \* bound of the model: sentinels a queue may hold

VARIABLES
  queueOf,     \* _queues: agent -> registered queue, or NoQueue
  tokens       \* queue -> sentinels waiting in it

RouterTypeOK ==
  /\ queueOf \in [Agents -> Queues \cup {NoQueue}]
  /\ tokens \in [Queues -> 0..MaxTokens]

RouterInit ==
  /\ queueOf = [a \in Agents |-> NoQueue]
  /\ tokens = [q \in Queues |-> 0]

\* The worker of a stores its queue, replacing whatever was stored before.
Register(a, q) == queueOf' = [queueOf EXCEPT ![a] = q]

\* The entry of a goes, whoever stored it.
Unregister(a) == queueOf' = [queueOf EXCEPT ![a] = NoQueue]

\* notify: without an entry the wake-up is dropped (the code counts and logs).
Dropped(a) ==
  /\ queueOf[a] = NoQueue
  /\ UNCHANGED tokens

Pushed(a) ==
  /\ queueOf[a] # NoQueue
  /\ tokens[queueOf[a]] < MaxTokens
  /\ tokens' = [tokens EXCEPT ![queueOf[a]] = @ + 1]

Notify(a) ==
  /\ Dropped(a) \/ Pushed(a)
  /\ UNCHANGED queueOf

\* queue.get() returning in the worker that owns q.
Take(q) ==
  /\ tokens[q] > 0
  /\ tokens' = [tokens EXCEPT ![q] = @ - 1]
  /\ UNCHANGED queueOf
=============================================================================
