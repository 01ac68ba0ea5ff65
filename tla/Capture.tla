-------------------------------- MODULE Capture --------------------------------
(***************************************************************************)
(* The screen stream of a sandbox's server, ScreenStreamer: one ffmpeg for *)
(* all who watch, begun with the first and stopped with the last.  Joining *)
(* and leaving, changes of the quality, and sending a frame hold one lock; *)
(* the capture task starts its ffmpeg, and ends, outside of it.  A process *)
(* has the name of the task that started it.                               *)
(***************************************************************************)
EXTENDS Naturals

CONSTANTS
  Clients,  \* sockets
  Tasks,    \* capture tasks, and their processes
  None

VARIABLES
  socket,   \* every client's socket
  clients,  \* _clients
  holder,   \* who holds _lock over an await
  stopping, \* where the holder is in _stop_capture, and whether it will start again
  proc,     \* _proc
  task,     \* _capture_task
  capture,  \* the tasks: what each is at, the process it reads, and whether it is cancelled
  alive,    \* processes that run
  failed,   \* history: the last capture ended by itself
  crossed   \* history: a capture was begun before another had ended

vars == <<socket, clients, holder, stopping, proc, task, capture, alive, failed, crossed>>

Over == [at |-> "over", reads |-> None, cancelled |-> FALSE]
NotStopping == [at |-> "no", again |-> FALSE]

TypeOK ==
  /\ socket \in [Clients -> {"out", "open", "closed"}] /\ clients \subseteq Clients
  /\ holder \in Clients \cup Tasks \cup {None}
  /\ stopping \in [at : {"no", "kill", "wait", "cancel"}, again : BOOLEAN]
  /\ {proc, task} \subseteq Tasks \cup {None} /\ alive \subseteq Tasks
  /\ capture \in [Tasks -> [at : {"over", "starting", "reading", "sending"},
                            reads : Tasks \cup {None}, cancelled : BOOLEAN]]
  /\ {failed, crossed} \subseteq BOOLEAN

Init ==
  /\ socket = [c \in Clients |-> "out"] /\ clients = {}
  /\ holder = None /\ stopping = NotStopping
  /\ proc = None /\ task = None
  /\ capture = [t \in Tasks |-> Over] /\ alive = {}
  /\ failed = FALSE /\ crossed = FALSE

Ended(t) == capture[t].at = "over"

\* _start_capture.
Start(t) ==
  /\ Ended(t) /\ t \notin alive
  /\ capture' = [capture EXCEPT ![t] = [Over EXCEPT !.at = "starting"]]
  /\ task' = t
  /\ failed' = FALSE
  /\ crossed' = (crossed \/ \E u \in Tasks : ~Ended(u))
StartsNone == UNCHANGED <<task, capture, failed, crossed>>

-----------------------------------------------------------------------------
(* Clients                                                                 *)

\* add_client.
Join(c) ==
  /\ holder = None /\ socket[c] = "out"
  /\ socket' = [socket EXCEPT ![c] = "open"] /\ clients' = clients \cup {c}
  /\ IF proc = None THEN \E t \in Tasks : Start(t) ELSE StartsNone
  /\ UNCHANGED <<holder, stopping, proc, alive>>

Break(c) ==
  /\ socket[c] = "open" /\ socket' = [socket EXCEPT ![c] = "closed"]
  /\ UNCHANGED <<clients, holder, stopping, proc, task, capture, alive, failed, crossed>>

\* The mutant of LastLeaves: the capture goes on.
NeverLeaves(rest) == FALSE
LastLeaves(rest) == rest = {}

Stops(h, again) == holder' = h /\ stopping' = [at |-> "kill", again |-> again]

\* remove_client, at the end of the endpoint.
Leave(c) ==
  /\ holder = None /\ socket[c] # "out"
  /\ socket' = [socket EXCEPT ![c] = "out"] /\ clients' = clients \ {c}
  /\ IF LastLeaves(clients') THEN Stops(c, FALSE) ELSE UNCHANGED <<holder, stopping>>
  /\ UNCHANGED <<proc, task, capture, alive, failed, crossed>>

\* handle_client_message: another quality or rate.
Tune(c) ==
  /\ holder = None /\ socket[c] = "open" /\ clients # {}
  /\ Stops(c, TRUE)
  /\ UNCHANGED <<socket, clients, proc, task, capture, alive, failed, crossed>>

-----------------------------------------------------------------------------
(* _stop_capture, by whoever holds the lock                                *)

Kill ==
  /\ stopping.at = "kill" /\ stopping' = [stopping EXCEPT !.at = IF proc = None THEN "cancel" ELSE "wait"]
  /\ alive' = alive \ {proc}
  /\ UNCHANGED <<socket, clients, holder, proc, task, capture, failed, crossed>>

\* The process has ended; whatever _proc is now, it is None then.
Forget ==
  /\ stopping.at = "wait" /\ stopping' = [stopping EXCEPT !.at = "cancel"]
  /\ proc' = None
  /\ UNCHANGED <<socket, clients, holder, task, capture, alive, failed, crossed>>

\* A task that is at an await gets a CancelledError there.
Cancel ==
  /\ stopping.at = "cancel" /\ task \notin {None, holder}
  /\ ~Ended(task) /\ ~capture[task].cancelled
  /\ capture' = [capture EXCEPT ![task].cancelled = TRUE]
  /\ UNCHANGED <<socket, clients, holder, stopping, proc, task, alive, failed, crossed>>

-----------------------------------------------------------------------------
(* _capture_loop                                                           *)

\* The next read, of what _proc is by now: without one, or with one that another task reads, it
\* raises, and finally kills the process there is, whosesoever it is.
ReadsOr(t, p, living) ==
  IF p # None /\ \A u \in Tasks \ {t} : ~(capture[u].at = "reading" /\ capture[u].reads = p)
  THEN /\ capture' = [capture EXCEPT ![t].at = "reading", ![t].reads = p]
       /\ proc' = p /\ alive' = living
       /\ UNCHANGED failed
  ELSE /\ capture' = [capture EXCEPT ![t] = Over]
       /\ proc' = None /\ alive' = living \ {p}
       /\ failed' = TRUE

\* finally.
Ends(t) ==
  /\ capture' = [capture EXCEPT ![t] = Over]
  /\ alive' = alive \ {proc} /\ proc' = None

\* The stop is done: the task is over, there is none, or it is the holder itself, which its own
\* cancellation does not end and which goes on.
Stopped ==
  /\ stopping.at = "cancel"
  /\ task \notin {None, holder} => Ended(task)
  /\ holder' = None /\ stopping' = NotStopping
  /\ IF stopping.again THEN (\E t \in Tasks : Start(t)) /\ UNCHANGED <<proc, alive>>
     ELSE /\ task' = None
          /\ IF holder \in Tasks
             THEN ReadsOr(holder, proc, alive)
                    \/ UNCHANGED <<capture, proc, alive, failed>>   \* another frame is there
             ELSE UNCHANGED <<capture, proc, alive, failed>>
          /\ UNCHANGED crossed
  /\ UNCHANGED <<socket, clients>>

Spawn(t) ==
  /\ capture[t].at = "starting" /\ ~capture[t].cancelled
  /\ \/ ReadsOr(t, t, alive \cup {t})
     \/ Ends(t) /\ failed' = TRUE                        \* there is no ffmpeg
  /\ UNCHANGED <<socket, clients, holder, stopping, task, crossed>>

\* A chunk with a frame in it; those without are no step.
Frame(t) ==
  /\ capture[t].at = "reading" /\ ~capture[t].cancelled /\ capture[t].reads \in alive
  /\ capture' = [capture EXCEPT ![t].at = "sending", ![t].reads = None]
  /\ UNCHANGED <<socket, clients, holder, stopping, proc, task, alive, failed, crossed>>

\* _broadcast_frame: closed sockets are discarded.
Send(t) ==
  /\ holder = None /\ capture[t].at = "sending" /\ ~capture[t].cancelled
  /\ clients' = {c \in clients : socket[c] = "open"}
  /\ IF clients' = {} THEN Stops(t, FALSE) /\ UNCHANGED <<proc, capture, alive, failed>>
     ELSE /\ ReadsOr(t, proc, alive)
          /\ UNCHANGED <<holder, stopping>>
  /\ UNCHANGED <<socket, task, crossed>>

\* The process has died: the end of its output.
Die(t) == t \in alive /\ alive' = alive \ {t} /\ failed' = TRUE
          /\ UNCHANGED <<socket, clients, holder, stopping, proc, task, capture, crossed>>
EndOfOutput(t) ==
  /\ capture[t].at = "reading" /\ ~capture[t].cancelled /\ capture[t].reads \notin alive
  /\ Ends(t)
  /\ UNCHANGED <<socket, clients, holder, stopping, task, failed, crossed>>

\* A process that is being started is killed by asyncio.
Cancelled(t) ==
  /\ capture[t].cancelled /\ Ends(t)
  /\ UNCHANGED <<socket, clients, holder, stopping, task, failed, crossed>>

Next ==
  \/ \E c \in Clients : Join(c) \/ Break(c) \/ Leave(c) \/ Tune(c)
  \/ Kill \/ Forget \/ Cancel \/ Stopped
  \/ \E t \in Tasks : Spawn(t) \/ Frame(t) \/ Send(t) \/ Die(t) \/ EndOfOutput(t) \/ Cancelled(t)

Spec == Init /\ [][Next]_vars

-----------------------------------------------------------------------------
(* Properties                                                              *)

\* "The capture process starts on the first client connection and stops when the last client
\* disconnects (zero-viewer = zero CPU)" (stream_handler.py), unless one capture was begun before
\* another had ended: then no process runs but the one that is known, none when nobody is there,
\* and whoever is there is served by a task, if the last one has not ended by itself.
CaptureFollows ==
  ~crossed =>
    /\ alive \subseteq {proc}
    /\ holder = None /\ clients = {} => alive = {}
    /\ holder = None /\ clients # {} => failed \/ (task # None /\ ~Ended(task))
=============================================================================
