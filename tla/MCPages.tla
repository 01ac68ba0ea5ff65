------------------------------- MODULE MCPages -------------------------------
(* Small instances of Sandboxes, Knowledge, LogStream and ScreenRelay in one *)
(* run: part says which of them moves, they share no state.  The others stay *)
(* at their initial state.                                                   *)
EXTENDS Sandboxes, Sequences, TLC

CONSTANTS
  v1, v2, a1, r1, r2, r3, u1, u2, u3, c1, c2, none,
  MaxChunk, Overlap, BatchSize, MaxDocs, MaxBytes, MaxFile, MaxAtOnce,
  Texts,
  MaxItems, MaxLines, MaxConnects, MaxAttempts,
  MaxTries

\* The page shows some number of lines.
ASSUME LogAssumption == MaxItems \in Nat
\* Sizes are numbers, and the documents of a project can be counted.
ASSUME KnowledgeAssumption ==
  /\ {MaxChunk, Overlap, BatchSize, MaxDocs, MaxBytes, MaxFile, MaxAtOnce} \subseteq Nat
  /\ IsFiniteSet(Rows) /\ Texts \subseteq Seq(Seq(Nat))

VARIABLES
  part,
  doc,
  next, run, queue, held, known, conn, socket, wire, attempts, logs, seen, cleared,
  viewer, stream, relay

MCOwnerOf == [x \in Agents |-> v1]

\* Paragraphs of one or two sentences, the longest longer than a chunk.
Paragraphs == UNION {[1..n -> 1..3] : n \in 1..2}
MCTexts == UNION {[1..n -> Paragraphs] : n \in 0..2}

Base == INSTANCE Knowledge WITH Docs <- Rows
Log == INSTANCE LogStream
Screen == INSTANCE ScreenRelay WITH
  Viewers <- Users, Relays <- Calls, NoRelay <- None, MaxRetries <- MaxTries

sandboxVars == <<row, unit, call, begun, deleted, received, odd>>
logVars == <<next, run, queue, held, known, conn, socket, wire, attempts, logs, seen, cleared>>
screenVars == <<viewer, stream, relay>>

AllInit ==
  /\ part \in {"sandboxes", "base", "log", "screen"}
  /\ Init /\ Base!Init /\ Log!Init /\ Screen!Init

AllNext ==
  /\ UNCHANGED part
  /\ \/ /\ part = "sandboxes" /\ Next
        /\ UNCHANGED <<doc, logVars, screenVars>>
     \/ /\ part = "base" /\ Base!Next
        /\ UNCHANGED <<sandboxVars, logVars, screenVars>>
     \/ /\ part = "log" /\ Log!Next
        /\ UNCHANGED <<sandboxVars, doc, screenVars>>
     \/ /\ part = "screen" /\ Screen!Next
        /\ UNCHANGED <<sandboxVars, doc, logVars>>

AllSpec == AllInit /\ [][AllNext]_<<part, sandboxVars, doc, logVars, screenVars>>

\* Rows, units and slots may be renamed; users may not, one of them owns the agent.
Symmetry == Permutations(Rows) \cup Permutations(Units) \cup Permutations(Calls)

(* Knowledge: a quota is passed by overlapping uploads only.                 *)
QuotaOvershoot == Base!QuotaOvershoot
(* Knowledge: the chunks of a document are all of it.                        *)
ChunksCover == Base!ChunksCover
(* LogStream: what a page shows of the log has no gap and no line twice.     *)
LogsComplete == Log!LogsComplete
(* ScreenRelay: who watches is served, but for the causes known.             *)
ViewersServed == Screen!ViewersServed
=============================================================================
