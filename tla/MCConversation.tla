--------------------------- MODULE MCConversation ---------------------------
(* Small instances of Conversation, and of the sandbox server's Capture and  *)
(* Shell, in one run: part says which of them moves, they share no state.    *)
(* The others stay at one state of theirs.                                   *)
EXTENDS Conversation

CONSTANTS
  bad, v1, v2, p1, p2,
  Watchers, Captures, MaxCommands, Sizes, RingBytes, Notice, MaxChunks

ASSUME ServerAssumption ==
  /\ MaxCommands \in Nat
  /\ bad \notin Watchers \cup Captures /\ Watchers \cap Captures = {}

VARIABLES
  part,
  socket, clients, holder, stopping, proc, task, capture, alive, failed, crossed,
  proxied, command, at, rest, heard, shell, typed, ring, printed, full

Camera == INSTANCE Capture WITH Clients <- Watchers, Tasks <- Captures, None <- bad
Terminal == INSTANCE Shell

cameraVars == <<socket, clients, holder, stopping, proc, task, capture, alive, failed, crossed>>
shellVars == <<proxied, command, at, rest, heard, shell, typed, ring, printed, full>>

\* A session that has ended.
SessionOver ==
  /\ messages = <<>> /\ start = 0 /\ prompt = [block |-> "none", tools |-> "all"]
  /\ stage = "none" /\ thinks = FALSE
  /\ pc = "ended" /\ batch = <<>> /\ iteration = 0 /\ issued = 0 /\ injected = FALSE
  /\ dirty = FALSE /\ unread = FALSE /\ changes = 0 /\ reason = "normal_end"

AllInit ==
  /\ part \in {"session", "camera", "shell"}
  /\ IF part = "session" THEN Init ELSE SessionOver
  /\ Camera!Init /\ Terminal!Init
  /\ part # "shell" => ~proxied

AllNext ==
  /\ UNCHANGED part
  /\ \/ part = "session" /\ Next /\ UNCHANGED <<cameraVars, shellVars>>
     \/ part = "camera" /\ Camera!Next /\ UNCHANGED <<vars, shellVars>>
     \/ part = "shell" /\ Terminal!Next /\ UNCHANGED <<vars, cameraVars>>

\* Of a session that has ended, no step is enabled.
AllSpec == AllInit /\ [][AllNext]_<<part, vars, cameraVars, shellVars>> /\ WF_vars(Progress)

(* Capture: a screen is captured while somebody watches it.                  *)
(* Shell: a command is run twice only if its answer was lost.                *)
ServerInOrder == Camera!CaptureFollows /\ Terminal!RunOnce
=============================================================================
