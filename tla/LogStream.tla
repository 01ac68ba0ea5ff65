------------------------------ MODULE LogStream ------------------------------
(***************************************************************************)
(* The backend's log as a page shows it.  Lines are numbered, kept in a    *)
(* ring and queued for the broadcaster; a connection is registered and     *)
(* sent a snapshot of the ring in one go, then whatever is broadcast, and  *)
(* the page leaves out what it has by the number.  Connections break, the  *)
(* backend restarts and counts from one again.                             *)
(***************************************************************************)
EXTENDS Naturals, Sequences, SequencesExt

CONSTANTS
  MaxItems,     \* of the ring, and of the page (MAX_BACKEND_LOGS)
  MaxLines,     \* bound on the lines of one run of the backend
  MaxConnects,  \* bound on the connections made
  MaxAttempts   \* maxReconnectAttempts

VARIABLES
  next,      \* _next_seq
  run,       \* history: restarts of the backend
  queue,     \* _async_queue
  held,      \* the line being broadcast and the connections it is for
  known,     \* connections of the manager
  conn,      \* the page's connection
  socket,    \* its state for the page
  wire,      \* what was sent on it
  attempts,  \* reconnectAttempts
  logs,      \* backendLogs
  seen,      \* backendLogSeqRef
  cleared    \* history: the user cleared the list since the last snapshot

vars == <<next, run, queue, held, known, conn, socket, wire, attempts, logs, seen, cleared>>
server == <<next, run, queue, held>>
page == <<logs, seen, cleared>>

Lines == [run : 0..MaxConnects, seq : 1..MaxLines]
Nothing == <<>>

TypeOK ==
  /\ next \in 1..(MaxLines + 1) /\ run \in 0..MaxConnects
  /\ queue \in Seq(Lines) /\ logs \in Seq(Lines) /\ Len(logs) <= MaxItems
  /\ conn \in 0..MaxConnects /\ known \subseteq 1..MaxConnects
  /\ socket \in {"open", "closed"} /\ attempts \in 0..MaxAttempts /\ seen \in 0..MaxLines

LastItems(s) == IF Len(s) > MaxItems THEN SubSeq(s, Len(s) - MaxItems + 1, Len(s)) ELSE s

\* The ring: the lines of this run.
Buffer == LastItems([i \in 1..(next - 1) |-> [run |-> run, seq |-> i]])

Init ==
  /\ next = 1 /\ run = 0 /\ queue = <<>> /\ held = Nothing /\ known = {}
  /\ conn = 0 /\ socket = "closed" /\ wire = <<>> /\ attempts = 0
  /\ logs = <<>> /\ seen = 0 /\ cleared = FALSE

\* append: the handler's lock keeps the numbers and the queue in the same order.
Log ==
  /\ next <= MaxLines
  /\ next' = next + 1
  /\ queue' = Append(queue, [run |-> run, seq |-> next])
  /\ UNCHANGED <<run, held, known, conn, socket, wire, attempts, page>>

\* run_broadcaster takes a line, and broadcast copies the list of connections.
Take ==
  /\ held = Nothing /\ queue # <<>>
  /\ held' = [line |-> Head(queue), to |-> known] /\ queue' = Tail(queue)
  /\ UNCHANGED <<next, run, known, conn, socket, wire, attempts, page>>

\* A connection it cannot send to is forgotten.
Broadcast ==
  /\ held # Nothing /\ held' = Nothing
  /\ IF conn \in held.to /\ socket = "open"
     THEN wire' = Append(wire, [items |-> <<held.line>>, snapshot |-> FALSE, latest |-> 0])
     ELSE UNCHANGED wire
  /\ known' = known \ (held.to \ (IF socket = "open" THEN {conn} ELSE {}))
  /\ UNCHANGED <<next, run, queue, conn, socket, attempts, page>>

\* The page connects, for the first time or again; the endpoint does not wait between the
\* registration and the snapshot.
Connect ==
  /\ socket = "closed" /\ conn < MaxConnects
  /\ conn' = conn + 1 /\ known' = known \cup {conn'}
  /\ socket' = "open" /\ attempts' = 0
  /\ wire' = <<[items |-> Buffer, snapshot |-> TRUE, latest |-> next - 1]>>
  /\ UNCHANGED <<server, page>>

ConnectFails ==
  /\ socket = "closed" /\ attempts < MaxAttempts
  /\ attempts' = attempts + 1
  /\ UNCHANGED <<server, known, conn, socket, wire, page>>

\* onclose; the endpoint notices at once or when something is sent.
Break ==
  /\ socket = "open" /\ socket' = "closed" /\ wire' = <<>>
  /\ known' \in {known, known \ {conn}}
  /\ UNCHANGED <<server, conn, attempts, page>>

Restart ==
  /\ run < MaxConnects /\ run' = run + 1
  /\ next' = 1 /\ queue' = <<>> /\ held' = Nothing /\ known' = {}
  /\ socket' = "closed" /\ wire' = <<>>
  /\ UNCHANGED <<conn, attempts, page>>

\* A snapshot replaces what there was.  The mutant goes on counting from where it was.
SnapshotUncounted(message) ==
  logs' = LastItems(message.items) /\ cleared' = FALSE /\ UNCHANGED seen
Snapshot(message) ==
  logs' = LastItems(message.items) /\ cleared' = FALSE /\ seen' = message.latest

Receive ==
  LET message == Head(wire)
      line == message.items[1] IN
  /\ wire # <<>> /\ wire' = Tail(wire)
  /\ IF message.snapshot THEN Snapshot(message)
     ELSE /\ IF line.seq <= seen THEN UNCHANGED <<logs, seen>>
             ELSE logs' = LastItems(Append(logs, line)) /\ seen' = line.seq
          /\ UNCHANGED cleared
  /\ UNCHANGED <<server, known, conn, socket, attempts>>

Clear ==
  /\ logs # <<>> /\ logs' = <<>> /\ cleared' = TRUE
  /\ UNCHANGED <<server, known, conn, socket, wire, attempts, seen>>

Next ==
  \/ Log \/ Take \/ Broadcast \/ Connect \/ ConnectFails \/ Break \/ Restart
  \/ Receive \/ Clear

Spec == Init /\ [][Next]_vars

-----------------------------------------------------------------------------
(* Properties                                                              *)

\* What a page shows of the log is one stretch of it, without a gap and without a line twice,
\* whenever it connected and whatever was queued then; and when nothing is under way to it, it
\* shows the end of the log, all of it but for what the user cleared.
LogsComplete ==
  /\ \A i \in 1..(Len(logs) - 1) :
       logs[i + 1] = [logs[i] EXCEPT !.seq = @ + 1]
  /\ socket = "open" /\ wire = <<>> /\ queue = <<>> /\ held = Nothing =>
       IF cleared THEN IsSuffix(logs, Buffer) ELSE logs = Buffer
=============================================================================
