--------------------------------- MODULE Shell ---------------------------------
(***************************************************************************)
(* The commands an agent has run in its sandbox, one after the other.      *)
(* SandboxClient.execute_shell asks the sandbox server's REST endpoint and *)
(* where that raises, tries again through a shell on a WebSocket, but for  *)
(* a desktop, which is reached through the pool manager only.  The server  *)
(* is one event loop: it kills what is too slow, whether or not anybody    *)
(* still waits for the answer, and it keeps what a shell prints in a ring  *)
(* buffer.  Of output its size is kept, of an answer its status.           *)
(***************************************************************************)
EXTENDS Naturals, Sequences, SequencesExt

CONSTANTS
  MaxCommands,  \* bound on the commands
  Sizes,        \* of what a read of the terminal returns
  RingBytes,    \* RING_BUFFER_BYTES
  Notice,       \* the length of TRUNCATION_NOTICE
  MaxChunks     \* bound on the chunks a command prints

VARIABLES
  proxied,   \* the sandbox is a desktop
  command,   \* the current command
  at,        \* what execute_shell is at
  rest,      \* what the server's REST handler has made of each command
  heard,     \* history: how the client's request has ended
  shell,     \* the shell session of each command that got one
  typed,     \* what has become of the command in it
  ring,      \* its RingBuffer: the sizes of its chunks
  printed,   \* chunks it has printed
  full       \* the shell whose RingBuffer.write is in its loop, or 0

vars == <<proxied, command, at, rest, heard, shell, typed, ring, printed, full>>

Commands == 1..MaxCommands
server == <<rest, shell, typed, ring, printed, full>>

TypeOK ==
  /\ proxied \in BOOLEAN /\ command \in 0..MaxCommands
  /\ at \in {"idle", "rest", "connect", "drain", "collect"}
  /\ rest \in [Commands -> {"no", "runs", "over", "killed", "failed"}]
  /\ heard \in [Commands -> {"nothing", "ok", "timeout", "error", "lost"}]
  /\ shell \in [Commands -> {"none", "open", "left", "closed"}]
  /\ typed \in [Commands -> {"no", "runs", "over", "killed"}]
  /\ ring \in [Commands -> Seq(Sizes \cup {Notice})]
  /\ printed \in [Commands -> 0..MaxChunks]
  /\ full \in 0..MaxCommands

Init ==
  /\ proxied \in BOOLEAN
  /\ command = 0 /\ at = "idle"
  /\ rest = [n \in Commands |-> "no"] /\ heard = [n \in Commands |-> "nothing"]
  /\ shell = [n \in Commands |-> "none"] /\ typed = [n \in Commands |-> "no"]
  /\ ring = [n \in Commands |-> <<>>] /\ printed = [n \in Commands |-> 0]
  /\ full = 0

\* The server's event loop gets to something.
Serving == full = 0

-----------------------------------------------------------------------------
(* REST                                                                    *)

Execute ==
  /\ at = "idle" /\ command < MaxCommands
  /\ command' = command + 1 /\ at' = "rest"
  /\ UNCHANGED <<proxied, heard, server>>

\* shell_execute: a process is started, or cannot be.  The client may have gone by then.
Arrive(n) ==
  /\ Serving /\ rest[n] = "no"
  /\ (n = command /\ at = "rest") \/ heard[n] = "lost"
  /\ \E outcome \in {"runs", "failed"} : rest' = [rest EXCEPT ![n] = outcome]
  /\ UNCHANGED <<proxied, command, at, heard, shell, typed, ring, printed, full>>

\* The command comes to its end, or is killed for being too slow.
Run(n) ==
  /\ rest[n] = "runs"
  /\ \/ rest' = [rest EXCEPT ![n] = "over"]
     \/ Serving /\ rest' = [rest EXCEPT ![n] = "killed"]
  /\ UNCHANGED <<proxied, command, at, heard, shell, typed, ring, printed, full>>

\* A RuntimeError of _execute_shell_rest.
Raised == IF proxied THEN "idle" ELSE "connect"

\* The answers 200, 408 and 500.  The mutant takes a 408 for an error.
AnswerAsError ==
  /\ Serving /\ at = "rest"
  /\ \/ rest[command] = "over" /\ heard' = [heard EXCEPT ![command] = "ok"] /\ at' = "idle"
     \/ rest[command] = "killed" /\ heard' = [heard EXCEPT ![command] = "timeout"] /\ at' = Raised
     \/ rest[command] = "failed" /\ heard' = [heard EXCEPT ![command] = "error"] /\ at' = Raised
  /\ UNCHANGED <<proxied, command, server>>

Answer ==
  /\ Serving /\ at = "rest"
  /\ \/ rest[command] = "over" /\ heard' = [heard EXCEPT ![command] = "ok"] /\ at' = "idle"
     \/ rest[command] = "killed" /\ heard' = [heard EXCEPT ![command] = "timeout"] /\ at' = "idle"
     \/ rest[command] = "failed" /\ heard' = [heard EXCEPT ![command] = "error"] /\ at' = Raised
  /\ UNCHANGED <<proxied, command, server>>

\* No connection, none any more, or no answer in time; a request that is there is served anyway.
Lose ==
  /\ at = "rest"
  /\ heard' = [heard EXCEPT ![command] = "lost"] /\ at' = Raised
  /\ UNCHANGED <<proxied, command, server>>

-----------------------------------------------------------------------------
(* The shell on a WebSocket                                                *)

\* handle_shell_ws and ShellSession.start.
Connect ==
  /\ Serving /\ at = "connect"
  /\ shell' = [shell EXCEPT ![command] = "open"] /\ at' = "drain"
  /\ UNCHANGED <<proxied, command, heard, rest, typed, ring, printed, full>>

\* The prompt is drained as soon as the shell echoes what was typed; then the command is typed.
Drained ==
  /\ Serving /\ at = "drain"
  /\ typed' = [typed EXCEPT ![command] = "runs"] /\ at' = "collect"
  /\ UNCHANGED <<proxied, command, heard, rest, shell, ring, printed, full>>

End(n) ==
  /\ typed[n] = "runs" /\ typed' = [typed EXCEPT ![n] = "over"]
  /\ UNCHANGED <<proxied, command, at, heard, rest, shell, ring, printed, full>>

\* The client leaves: with the output up to its marker, with what there is of it when the time
\* is up, or with an error: no connection, none any more, no prompt.
Leave ==
  /\ at \in {"connect", "drain", "collect"} /\ at' = "idle"
  /\ shell' = [shell EXCEPT ![command] = IF shell[command] = "open" THEN "left" ELSE shell[command]]
  /\ UNCHANGED <<proxied, command, heard, rest, typed, ring, printed, full>>

\* ShellSession.close: the client has left, or the command was an exit.
Close(n) ==
  /\ Serving
  /\ shell[n] = "left" \/ (shell[n] = "open" /\ typed[n] = "over")
  /\ shell' = [shell EXCEPT ![n] = "closed"]
  /\ typed' = [typed EXCEPT ![n] = IF typed[n] = "runs" THEN "killed" ELSE typed[n]]
  /\ UNCHANGED <<proxied, command, at, heard, rest, ring, printed, full>>

-----------------------------------------------------------------------------
(* RingBuffer                                                              *)

Bytes(chunks) == FoldLeft(LAMBDA sum, size : sum + size, 0, chunks)

\* _read_loop has read a chunk and appends it.
Read(n, size) ==
  /\ Serving /\ shell[n] \in {"open", "left"} /\ printed[n] < MaxChunks
  /\ printed' = [printed EXCEPT ![n] = printed[n] + 1]
  /\ ring' = [ring EXCEPT ![n] = Append(ring[n], size)]
  /\ full' = IF Bytes(ring'[n]) > RingBytes THEN n ELSE 0
  /\ UNCHANGED <<proxied, command, at, heard, rest, shell, typed>>

\* One round of the loop: the first chunk goes, and the notice takes its place.
Drop ==
  /\ full # 0
  /\ ring' = [ring EXCEPT ![full] = <<Notice>> \o Tail(ring[full])]
  /\ full' = IF Bytes(ring'[full]) > RingBytes THEN full ELSE 0
  /\ UNCHANGED <<proxied, command, at, heard, rest, shell, typed, printed>>

Next ==
  \/ Execute \/ Answer \/ Lose \/ Connect \/ Drained \/ Leave \/ Drop
  \/ \E n \in Commands : Arrive(n) \/ Run(n) \/ End(n) \/ Close(n) \/ \E size \in Sizes : Read(n, size)

Spec == Init /\ [][Next]_vars
\* A loop without an await in it is not left alone.
FairSpec == Spec /\ WF_vars(Drop)

-----------------------------------------------------------------------------
(* Properties                                                              *)

\* A command is run twice only if it was started and its answer did not arrive, and never on a
\* desktop; one that the server has killed or refused is not tried again.  Once the next command
\* is run, an earlier one goes on only if its answer did not arrive, or in a shell about to be
\* closed.
RunOnce ==
  \A n \in 1..command :
    /\ rest[n] \notin {"no", "failed"} /\ typed[n] # "no" => heard[n] = "lost" /\ ~proxied
    /\ n < command =>
         /\ rest[n] = "runs" => heard[n] = "lost"
         /\ typed[n] = "runs" => shell[n] = "left"

\* "Byte ring buffer that drops oldest data when full" (shell_handler.py): what is written gets
\* into the buffer, and the server goes on.
WritesEnd == full # 0 ~> full = 0
=============================================================================
