------------------------------- MODULE Mailbox -------------------------------
(***************************************************************************)
(* What message delivery promises, without workers, queues or              *)
(* transactions: a message is posted once to one agent and consumed at     *)
(* most once, by that agent; and an agent acts in turns, a turn being one  *)
(* indivisible step in which everything it read becomes consumed and       *)
(* everything it wrote becomes visible.                                    *)
(***************************************************************************)
CONSTANTS Agents, Messages, NoAgent

VARIABLES
  box,     \* message -> "unused", "sent" or "received"
  addr     \* message -> the agent it is for, or NoAgent

Init ==
  /\ box = [m \in Messages |-> "unused"]
  /\ addr = [m \in Messages |-> NoAgent]

\* A message from outside (a user, an API client) appears.
Post(m, a) ==
  /\ box[m] = "unused"
  /\ box' = [box EXCEPT ![m] = "sent"]
  /\ addr' = [addr EXCEPT ![m] = a]

\* Agent a consumes R and posts S with the addresses f; what it wrote to
\* itself it may have consumed in the same turn.
Turn(a, R, S, f) ==
  /\ \A m \in S : box[m] = "unused"
  /\ \A m \in R : \/ m \notin S /\ box[m] = "sent" /\ addr[m] = a
                  \/ m \in S /\ f[m] = a
  /\ box' = [m \in Messages |-> IF m \in R THEN "received"
                                ELSE IF m \in S THEN "sent" ELSE box[m]]
  /\ addr' = [m \in Messages |-> IF m \in S THEN f[m] ELSE addr[m]]

Next ==
  \/ \E m \in Messages, a \in Agents : Post(m, a)
  \/ \E a \in Agents, R, S \in SUBSET Messages :
       \E f \in [S -> Agents] : Turn(a, R, S, f)

Spec == Init /\ [][Next]_<<box, addr>>
=============================================================================
