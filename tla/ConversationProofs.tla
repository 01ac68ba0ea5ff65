------------------------- MODULE ConversationProofs -------------------------
(***************************************************************************)
(* The loop of the agent keeps its conversation fit for the providers: a   *)
(* result's text is sent in full once, before the model answers, and every *)
(* request the adapters build pairs calls with results.  The sandbox       *)
(* server, checked in the same run, keeps its promises: of Shell, that a   *)
(* command is run twice only if its first answer was lost; of Capture,     *)
(* that a screen is captured exactly while somebody watches it, as long as *)
(* no two captures were started across each other.                         *)
(***************************************************************************)
EXTENDS MCConversation, SequenceTheorems, WellFoundedInduction, TLAPS

-----------------------------------------------------------------------------
(***************************************************************************)
(* Shell                                                                   *)
(***************************************************************************)
ShellTypes ==
  /\ proxied \in BOOLEAN /\ command \in Nat
  /\ at \in {"idle", "rest", "connect", "drain", "collect"}
  /\ rest \in [Terminal!Commands -> {"no", "runs", "over", "killed", "failed"}]
  /\ heard \in [Terminal!Commands -> {"nothing", "ok", "timeout", "error", "lost"}]
  /\ shell \in [Terminal!Commands -> {"none", "open", "left", "closed"}]
  /\ typed \in [Terminal!Commands -> {"no", "runs", "over", "killed"}]

InHand == command > 0 \/ at # "idle" => command \in Terminal!Commands
\* What has not come yet has left no trace.
ToCome(n) ==
  n > command =>
    rest[n] = "no" /\ heard[n] = "nothing" /\ shell[n] = "none" /\ typed[n] = "no"
\* A shell is for a command whose first try has failed.
ShellAfterAll(n) ==
  typed[n] # "no" \/ shell[n] # "none" \/ (n = command /\ at \in {"connect", "drain", "collect"})
    => ~proxied /\ (heard[n] = "lost" \/ rest[n] = "failed")
\* What runs is waited for, or its answer was lost.
RunsHeard(n) == rest[n] = "runs" => heard[n] = "lost" \/ (n = command /\ at = "rest")
\* A command is typed once the shell's greeting is read.
NotYetTyped(n) ==
  n = command =>
    /\ at \in {"rest", "connect"} => typed[n] = "no" /\ shell[n] = "none"
    /\ at = "drain" => typed[n] = "no" /\ shell[n] = "open"
\* Only the command under way has a shell open.
RunsInShell(n) ==
  /\ typed[n] = "runs" => shell[n] \in {"open", "left"}
  /\ shell[n] = "open" => n = command /\ at \in {"drain", "collect"}

CommandSound(n) ==
  ToCome(n) /\ ShellAfterAll(n) /\ RunsHeard(n) /\ NotYetTyped(n) /\ RunsInShell(n)
ShellInv == ShellTypes /\ InHand /\ \A n \in Terminal!Commands : CommandSound(n)

LEMMA ShellStart == Terminal!Init => ShellInv
  BY DEF Terminal!Init, ShellInv, ShellTypes, InHand, CommandSound, ToCome, ShellAfterAll, RunsHeard,
         NotYetTyped, RunsInShell, Terminal!Commands

LEMMA ShellStep == ASSUME ShellInv, [Terminal!Next]_shellVars PROVE ShellInv'
<1> USE ServerAssumption DEF ServerAssumption, ShellInv, ShellTypes, InHand, CommandSound, ToCome,
        ShellAfterAll, RunsHeard, NotYetTyped, RunsInShell, Terminal!Commands
<1>1. CASE UNCHANGED shellVars
  BY <1>1 DEF shellVars
<1>2. CASE Terminal!Execute
  BY <1>2 DEF Terminal!Execute, Terminal!server
<1>3. CASE Terminal!Answer
  BY <1>3 DEF Terminal!Answer, Terminal!Raised, Terminal!server
<1>4. CASE Terminal!Lose
  BY <1>4 DEF Terminal!Lose, Terminal!Raised, Terminal!server
<1>5. CASE Terminal!Connect
  BY <1>5 DEF Terminal!Connect
<1>6. CASE Terminal!Drained
  BY <1>6 DEF Terminal!Drained
<1>7. CASE Terminal!Leave
  BY <1>7 DEF Terminal!Leave
<1>8. CASE Terminal!Drop
  BY <1>8 DEF Terminal!Drop
<1>9. ASSUME NEW n \in Terminal!Commands, Terminal!Arrive(n) PROVE ShellInv'
  BY <1>9 DEF Terminal!Arrive
<1>10. ASSUME NEW n \in Terminal!Commands, Terminal!Run(n) PROVE ShellInv'
  BY <1>10 DEF Terminal!Run
<1>11. ASSUME NEW n \in Terminal!Commands, Terminal!End(n) PROVE ShellInv'
  BY <1>11 DEF Terminal!End
<1>12. ASSUME NEW n \in Terminal!Commands, Terminal!Close(n) PROVE ShellInv'
  BY <1>12 DEF Terminal!Close
<1>13. ASSUME NEW n \in Terminal!Commands, NEW size \in Sizes, Terminal!Read(n, size) PROVE ShellInv'
  BY <1>13 DEF Terminal!Read
<1> QED
  BY <1>1, <1>2, <1>3, <1>4, <1>5, <1>6, <1>7, <1>8, <1>9, <1>10, <1>11, <1>12, <1>13 DEF Terminal!Next

\* A command is run twice only if the answer of its first run was lost.
LEMMA ShellRunsOnce == Terminal!Spec => []Terminal!RunOnce
<1>1. ShellInv => Terminal!RunOnce
  BY ServerAssumption DEF ServerAssumption, ShellInv, ShellTypes, InHand, CommandSound, ToCome,
     ShellAfterAll, RunsHeard, NotYetTyped, RunsInShell, Terminal!Commands, Terminal!RunOnce
<1> QED BY <1>1, ShellStart, ShellStep, PTL DEF Terminal!Spec, Terminal!vars, shellVars

-----------------------------------------------------------------------------
(***************************************************************************)
(* Capture                                                                 *)
(***************************************************************************)
CameraTypes ==
  /\ socket \in [Watchers -> {"out", "open", "closed"}] /\ clients \in SUBSET Watchers
  /\ holder \in Watchers \cup Captures \cup {bad}
  /\ stopping \in [at : {"no", "kill", "wait", "cancel"}, again : BOOLEAN]
  /\ proc \in Captures \cup {bad} /\ task \in Captures \cup {bad} /\ alive \in SUBSET Captures
  /\ capture \in [Captures -> [at : {"over", "starting", "reading", "sending"},
                               reads : Captures \cup {bad}, cancelled : BOOLEAN]]

Runs(t) == capture[t].at # "over"

\* One capture at most goes on, the one that is known or one that has stopped itself, which
\* has no process.
OneRuns == \A t, u \in Captures : Runs(t) /\ Runs(u) => t = u
RunsKnown == \A t \in Captures : Runs(t) => task = t \/ (task = bad /\ capture[t].at = "sending")
\* The process is that of the capture that goes on.
OneProcess ==
  /\ alive \subseteq {proc}
  /\ proc # bad => Runs(proc) /\ capture[proc].at # "starting" /\ task = proc
ReadsItsOwn == \A t \in Captures : capture[t].at = "reading" => capture[t].reads = t
\* A capture is cancelled by another only, who waits for it; one that stops itself is sending.
CancelledIsAwaited ==
  \A t \in Captures :
    capture[t].cancelled => Runs(t) /\ stopping.at = "cancel" /\ task = t /\ task # holder
HolderSends ==
  holder \in Captures =>
    /\ capture[holder].at = "sending" /\ ~stopping.again
    /\ stopping.at = "cancel" => proc = bad
\* The lock is held over an await to stop the capture; it starts again if somebody is there.
HeldToStop ==
  /\ holder = bad <=> stopping.at = "no"
  /\ stopping.at # "no" => (stopping.again <=> clients # {})
  /\ stopping.at = "wait" => alive = {} /\ \A t \in Captures : capture[t].at # "starting"
NobodyThere ==
  holder = bad /\ clients = {} =>
    proc = bad /\ \A t \in Captures : capture[t].at \in {"over", "sending"}
SomebodyThere ==
  holder = bad /\ clients # {} =>
    failed \/ (task # bad /\ Runs(task) /\ (capture[task].at = "starting" \/ (proc = task /\ proc \in alive)))

CameraSound ==
  /\ OneRuns /\ RunsKnown /\ OneProcess /\ ReadsItsOwn /\ CancelledIsAwaited
  /\ HolderSends /\ HeldToStop /\ NobodyThere /\ SomebodyThere
CameraInv == CameraTypes /\ crossed \in BOOLEAN /\ (~crossed => CameraSound)

LEMMA CameraStart == Camera!Init => CameraInv
<1> SUFFICES ASSUME Camera!Init PROVE CameraInv
  OBVIOUS
<1> USE DEF Camera!Init, Camera!NotStopping, Camera!Over
<1>1. CameraTypes
  BY DEF CameraTypes
<1>2. CameraSound
  BY ServerAssumption DEF CameraSound, Runs, OneRuns, RunsKnown,
     OneProcess, ReadsItsOwn,
     CancelledIsAwaited, HolderSends, HeldToStop, NobodyThere, SomebodyThere, ServerAssumption
<1> QED BY <1>1, <1>2 DEF CameraInv

LEMMA StartTyped ==
  ASSUME CameraTypes, NEW t \in Captures, Camera!Start(t)
  PROVE  /\ task' \in Captures \cup {bad}
         /\ capture' \in [Captures -> [at : {"over", "starting", "reading", "sending"},
                                       reads : Captures \cup {bad}, cancelled : BOOLEAN]]
  BY DEF CameraTypes, Camera!Start, Camera!Over

LEMMA FreshCapture ==
  ASSUME NEW x, x = [Camera!Over EXCEPT !.at = "starting"]
  PROVE  x = [at |-> "starting", reads |-> bad, cancelled |-> FALSE]
  BY DEF Camera!Over

LEMMA StartUncrossed ==
  ASSUME crossed \in BOOLEAN, NEW t \in Captures, Camera!Start(t), ~crossed'
  PROVE  /\ \A u \in Captures : Camera!Ended(u)
         /\ capture' = [capture EXCEPT ![t] = [at |-> "starting", reads |-> bad, cancelled |-> FALSE]]
         /\ task' = t
<1>1. \A u \in Captures : Camera!Ended(u)
  BY DEF Camera!Start
<1>2. capture' = [capture EXCEPT ![t] = [at |-> "starting", reads |-> bad, cancelled |-> FALSE]]
  <2>1. capture' = [capture EXCEPT ![t] = [Camera!Over EXCEPT !.at = "starting"]]
    BY DEF Camera!Start
  <2>2. [Camera!Over EXCEPT !.at = "starting"] = [at |-> "starting", reads |-> bad, cancelled |-> FALSE]
    BY FreshCapture
  <2> QED BY <2>1, <2>2
<1>3. task' = t
  BY DEF Camera!Start
<1> QED BY <1>1, <1>2, <1>3

LEMMA ReadsOrTyped ==
  ASSUME CameraTypes, NEW t \in Captures, NEW p \in Captures \cup {bad}, NEW living \in SUBSET Captures,
         Camera!ReadsOr(t, p, living)
  PROVE  /\ proc' \in Captures \cup {bad} /\ alive' \in SUBSET Captures
         /\ capture' \in [Captures -> [at : {"over", "starting", "reading", "sending"},
                                       reads : Captures \cup {bad}, cancelled : BOOLEAN]]
<1> DEFINE readable == p # bad /\ \A u \in Captures \ {t} :
                                   ~(capture[u].at = "reading" /\ capture[u].reads = p)
<1>1. CASE readable
  BY <1>1 DEF CameraTypes, Camera!ReadsOr
<1>2. CASE ~readable
  <2>1. /\ capture' = [capture EXCEPT ![t] = [at |-> "over", reads |-> bad, cancelled |-> FALSE]]
        /\ proc' = bad /\ alive' = living \ {p}
    BY <1>2 DEF Camera!ReadsOr, Camera!Over
  <2> QED BY <2>1 DEF CameraTypes
<1> QED BY <1>1, <1>2

LEMMA CameraTyped == ASSUME CameraTypes, [Camera!Next]_cameraVars PROVE CameraTypes'
<1> USE DEF CameraTypes, Camera!Over, Camera!NotStopping
<1>1. CASE UNCHANGED cameraVars
  BY <1>1 DEF cameraVars
<1>2. ASSUME NEW c \in Watchers, Camera!Join(c) PROVE CameraTypes'
  <2>1. CASE proc = bad
    BY <1>2, <2>1, StartTyped DEF Camera!Join
  <2>2. CASE proc # bad
    BY <1>2, <2>2 DEF Camera!Join, Camera!StartsNone
  <2> QED BY <2>1, <2>2
<1>3. ASSUME NEW c \in Watchers, Camera!Break(c) PROVE CameraTypes'
  BY <1>3 DEF Camera!Break
<1>4. ASSUME NEW c \in Watchers, Camera!Leave(c) PROVE CameraTypes'
  <2>1. CASE clients' = {}
    <3>1. holder' = c /\ stopping' = [at |-> "kill", again |-> FALSE]
      BY <1>4, <2>1 DEF Camera!Leave, Camera!Stops, Camera!LastLeaves
    <3> QED BY <1>4, <3>1 DEF Camera!Leave
  <2>2. CASE clients' # {}
    BY <1>4, <2>2 DEF Camera!Leave, Camera!LastLeaves
  <2> QED BY <2>1, <2>2
<1>5. ASSUME NEW c \in Watchers, Camera!Tune(c) PROVE CameraTypes'
  BY <1>5 DEF Camera!Tune, Camera!Stops
<1>6. CASE Camera!Kill
  BY <1>6 DEF Camera!Kill
<1>7. CASE Camera!Forget
  BY <1>7 DEF Camera!Forget
<1>8. CASE Camera!Cancel
  BY <1>8 DEF Camera!Cancel
<1>9. CASE Camera!Stopped
  <2>1. CASE stopping.again
    BY <1>9, <2>1, StartTyped DEF Camera!Stopped
  <2>2. CASE ~stopping.again /\ holder \in Captures
    BY <1>9, <2>2, ReadsOrTyped DEF Camera!Stopped
  <2>3. CASE ~stopping.again /\ holder \notin Captures
    BY <1>9, <2>3 DEF Camera!Stopped
  <2> QED BY <2>1, <2>2, <2>3
<1>10. ASSUME NEW t \in Captures, Camera!Spawn(t) PROVE CameraTypes'
  <2>1. CASE Camera!ReadsOr(t, t, alive \cup {t})
    BY <1>10, <2>1, ReadsOrTyped DEF Camera!Spawn
  <2>2. CASE Camera!Ends(t)
    BY <1>10, <2>2 DEF Camera!Spawn, Camera!Ends
  <2> QED BY <1>10, <2>1, <2>2 DEF Camera!Spawn
<1>11. ASSUME NEW t \in Captures, Camera!Frame(t) PROVE CameraTypes'
  BY <1>11 DEF Camera!Frame
<1>12. ASSUME NEW t \in Captures, Camera!Send(t) PROVE CameraTypes'
  <2>1. CASE clients' = {}
    <3>1. holder' = t /\ stopping' = [at |-> "kill", again |-> FALSE]
      BY <1>12, <2>1 DEF Camera!Send, Camera!Stops
    <3> QED BY <1>12, <2>1, <3>1 DEF Camera!Send
  <2>2. CASE clients' # {}
    BY <1>12, <2>2, ReadsOrTyped DEF Camera!Send
  <2> QED BY <2>1, <2>2
<1>13. ASSUME NEW t \in Captures, Camera!Die(t) PROVE CameraTypes'
  BY <1>13 DEF Camera!Die
<1>14. ASSUME NEW t \in Captures, Camera!EndOfOutput(t) PROVE CameraTypes'
  BY <1>14 DEF Camera!EndOfOutput, Camera!Ends
<1>15. ASSUME NEW t \in Captures, Camera!Cancelled(t) PROVE CameraTypes'
  BY <1>15 DEF Camera!Cancelled, Camera!Ends
<1> QED
  BY <1>1, <1>2, <1>3, <1>4, <1>5, <1>6, <1>7, <1>8, <1>9, <1>10, <1>11, <1>12, <1>13, <1>14, <1>15
  DEF Camera!Next

\* A step that leaves the captures uncrossed keeps them in order.
LEMMA CameraOrdered ==
  ASSUME CameraTypes, crossed \in BOOLEAN, CameraSound, Camera!Next, ~crossed', CameraTypes'
  PROVE  CameraSound'
<1> USE ServerAssumption DEF ServerAssumption, CameraTypes, Camera!Over, Camera!NotStopping,
        Camera!Ended, CameraSound, Runs, OneRuns, RunsKnown,
     OneProcess, ReadsItsOwn,
        CancelledIsAwaited, HolderSends, HeldToStop, NobodyThere, SomebodyThere
<1>1. ASSUME NEW c \in Watchers, Camera!Join(c) PROVE CameraSound'
  <2>1. CASE proc = bad
    <3>1. PICK t \in Captures : Camera!Start(t)
      BY <1>1, <2>1 DEF Camera!Join
    <3>2. \A u \in Captures : ~Runs(u)
      BY <3>1, StartUncrossed
    <3>3. /\ capture' = [capture EXCEPT ![t] = [at |-> "starting", reads |-> bad, cancelled |-> FALSE]]
          /\ task' = t
      BY <3>1, StartUncrossed
    <3>4. proc = bad /\ alive = {} /\ UNCHANGED <<proc, alive>>
      BY <1>1, <2>1, <3>2 DEF Camera!Join
    <3>5. OneRuns' /\ RunsKnown' /\ OneProcess' /\ ReadsItsOwn'
      BY <3>2, <3>3, <3>4
    <3>6. CancelledIsAwaited' /\ SomebodyThere'
      BY <1>1, <2>1, <3>2, <3>3, <3>4 DEF Camera!Join
    <3>7. HolderSends' /\ HeldToStop' /\ NobodyThere'
      BY <1>1, <2>1, <3>2, <3>3, <3>4 DEF Camera!Join
    <3> QED BY <3>5, <3>6, <3>7
  <2>2. CASE proc # bad
    BY <1>1, <2>2 DEF Camera!Join, Camera!StartsNone
  <2> QED BY <2>1, <2>2
<1>2. ASSUME NEW c \in Watchers, Camera!Break(c) PROVE CameraSound'
  BY <1>2 DEF Camera!Break
<1>3. ASSUME NEW c \in Watchers, Camera!Leave(c) PROVE CameraSound'
  BY <1>3 DEF Camera!Leave, Camera!Stops, Camera!LastLeaves
<1>4. ASSUME NEW c \in Watchers, Camera!Tune(c) PROVE CameraSound'
  BY <1>4 DEF Camera!Tune, Camera!Stops
<1>5. CASE Camera!Kill
  BY <1>5 DEF Camera!Kill
<1>6. CASE Camera!Forget
  BY <1>6 DEF Camera!Forget
<1>7. CASE Camera!Cancel
  BY <1>7 DEF Camera!Cancel
<1>8. CASE Camera!Stopped
  <2>1. CASE stopping.again
    <3>1. PICK t \in Captures : Camera!Start(t)
      BY <1>8, <2>1 DEF Camera!Stopped
    <3>2. \A u \in Captures : ~Runs(u)
      BY <3>1, StartUncrossed
    <3>3. /\ capture' = [capture EXCEPT ![t] = [at |-> "starting", reads |-> bad, cancelled |-> FALSE]]
          /\ task' = t
      BY <3>1, StartUncrossed
    <3>4. proc = bad /\ alive = {} /\ UNCHANGED <<proc, alive>>
      BY <1>8, <2>1, <3>2 DEF Camera!Stopped
    <3>5. OneRuns' /\ RunsKnown' /\ OneProcess' /\ ReadsItsOwn'
      BY <3>2, <3>3, <3>4
    <3>6. CancelledIsAwaited' /\ SomebodyThere'
      BY <1>8, <2>1, <3>2, <3>3, <3>4 DEF Camera!Stopped
    <3>7. HolderSends' /\ HeldToStop' /\ NobodyThere'
      BY <1>8, <2>1, <3>2, <3>3, <3>4 DEF Camera!Stopped
    <3> QED BY <3>5, <3>6, <3>7
  <2>2. CASE ~stopping.again /\ holder \in Captures
    <3>1. proc = bad
      BY <1>8, <2>2 DEF Camera!Stopped
    <3>2. CASE UNCHANGED <<capture, proc, alive, failed>>
      BY <1>8, <2>2, <3>1, <3>2 DEF Camera!Stopped
    <3>3. CASE Camera!ReadsOr(holder, proc, alive)
      BY <1>8, <2>2, <3>1, <3>3 DEF Camera!Stopped, Camera!ReadsOr
    <3> QED BY <1>8, <2>2, <3>2, <3>3 DEF Camera!Stopped
  <2>3. CASE ~stopping.again /\ holder \notin Captures
    <3>1. /\ \A t \in Captures : Runs(t) => task = bad /\ capture[t].at = "sending"
          /\ proc = bad /\ clients = {}
      BY <1>8, <2>3 DEF Camera!Stopped
    <3>2. OneRuns' /\ RunsKnown' /\ OneProcess' /\ ReadsItsOwn'
      BY <1>8, <2>3, <3>1 DEF Camera!Stopped
    <3>3. CancelledIsAwaited' /\ SomebodyThere' /\ HolderSends'
      BY <1>8, <2>3, <3>1 DEF Camera!Stopped
    <3>4. HeldToStop' /\ NobodyThere'
      BY <1>8, <2>3, <3>1 DEF Camera!Stopped
    <3> QED BY <3>2, <3>3, <3>4
  <2> QED BY <2>1, <2>2, <2>3
<1>9. ASSUME NEW t \in Captures, Camera!Spawn(t) PROVE CameraSound'
  BY <1>9 DEF Camera!Spawn, Camera!ReadsOr, Camera!Ends
<1>10. ASSUME NEW t \in Captures, Camera!Frame(t) PROVE CameraSound'
  BY <1>10 DEF Camera!Frame
<1>11. ASSUME NEW t \in Captures, Camera!Send(t) PROVE CameraSound'
  BY <1>11 DEF Camera!Send, Camera!ReadsOr, Camera!Stops
<1>12. ASSUME NEW t \in Captures, Camera!Die(t) PROVE CameraSound'
  BY <1>12 DEF Camera!Die
<1>13. ASSUME NEW t \in Captures, Camera!EndOfOutput(t) PROVE CameraSound'
  BY <1>13 DEF Camera!EndOfOutput, Camera!Ends
<1>14. ASSUME NEW t \in Captures, Camera!Cancelled(t) PROVE CameraSound'
  BY <1>14 DEF Camera!Cancelled, Camera!Ends
<1> QED
  BY <1>1, <1>2, <1>3, <1>4, <1>5, <1>6, <1>7, <1>8, <1>9, <1>10, <1>11, <1>12, <1>13, <1>14
  DEF Camera!Next

LEMMA CameraStep == ASSUME CameraInv, [Camera!Next]_cameraVars PROVE CameraInv'
<1>1. CameraTypes'
  BY CameraTyped DEF CameraInv
<1>2. crossed' \in BOOLEAN /\ (~crossed' => ~crossed)
  BY DEF CameraInv, cameraVars, Camera!Next, Camera!Join, Camera!Start, Camera!StartsNone, Camera!Break,
     Camera!Leave, Camera!Tune, Camera!Kill, Camera!Forget, Camera!Cancel, Camera!Stopped, Camera!Spawn,
     Camera!Frame, Camera!Send, Camera!Die, Camera!EndOfOutput, Camera!Cancelled
<1>3. ASSUME ~crossed' PROVE CameraSound'
  <2>1. CASE UNCHANGED cameraVars
    BY <1>3, <2>1 DEF cameraVars, CameraInv, CameraSound, Runs, OneRuns, RunsKnown, OneProcess,
       ReadsItsOwn, CancelledIsAwaited, HolderSends, HeldToStop, NobodyThere, SomebodyThere
  <2>2. CASE Camera!Next
    BY <1>1, <1>2, <1>3, <2>2, CameraOrdered DEF CameraInv
  <2> QED BY <2>1, <2>2
<1> QED BY <1>1, <1>2, <1>3 DEF CameraInv

\* A screen is captured exactly while somebody watches it, unless captures crossed.
LEMMA CaptureSafe == Camera!Spec => []Camera!CaptureFollows
<1>1. CameraInv => Camera!CaptureFollows
  BY ServerAssumption DEF ServerAssumption, CameraInv, CameraTypes, CameraSound, Runs, OneRuns, RunsKnown,
     OneProcess, ReadsItsOwn,
     CancelledIsAwaited, HolderSends, HeldToStop, NobodyThere, SomebodyThere,
     Camera!CaptureFollows, Camera!Ended
<1> QED BY <1>1, CameraStart, CameraStep, PTL DEF Camera!Spec, Camera!vars, cameraVars

-----------------------------------------------------------------------------
(* Whatever the number of watchers, captures and commands: the screen is captured while somebody *)
(* watches it, and a command is run twice only if its first answer was lost.                     *)
THEOREM ServerSafe == Camera!Spec /\ Terminal!Spec => []ServerInOrder
  BY CaptureSafe, ShellRunsOnce, PTL DEF ServerInOrder

-----------------------------------------------------------------------------
(* Conversation: what is sent of a tool's result.                          *)

\* Every nonempty set of numbers has a least one.
LessThan == {r \in Nat \X Nat : r[1] < r[2]}
LEMMA Least ==
  ASSUME NEW S \in SUBSET Nat, S # {}
  PROVE  \E p \in S : \A q \in S : p <= q
<1>1. IsWellFoundedOn(LessThan, Nat)
  BY NatLessThanWellFounded DEF OpToRel, LessThan
<1>2. PICK p \in S : \A q \in S : <<q, p>> \notin LessThan
  BY <1>1, WFMin
<1>3. ASSUME NEW q \in S PROVE p <= q
  <2>1. p \in Nat /\ q \in Nat /\ ~(q < p)
    BY <1>2 DEF LessThan
  <2> QED BY <2>1
<1> QED BY <1>3

LEMMA ListOf ==
  ASSUME NEW S, NEW n \in Nat, NEW f \in [1..n -> S]
  PROVE  f \in Seq(S) /\ Len(f) = n
<1>1. f \in Seq(S)
  BY SeqDef
<1> QED BY <1>1, LenProperties

\* FlattenSeq joins one sequence after the other; joined[i] is what it has after i of them.
Joins(joined, seqs) ==
  /\ DOMAIN joined = 1..Len(seqs)
  /\ \A i \in 1..Len(seqs) : joined[i] = IF i = 1 THEN seqs[i] ELSE joined[i - 1] \o seqs[i]
JoinsTo(joined, seqs, k) ==
  joined = [i \in 1..k |-> IF i = 1 THEN seqs[i] ELSE joined[i - 1] \o seqs[i]]

LEMMA JoinExists ==
  ASSUME NEW seqs, NEW n \in Nat
  PROVE  \E joined : JoinsTo(joined, seqs, n)
<1> DEFINE Bad == {k \in Nat : ~ \E joined : JoinsTo(joined, seqs, k)}
<1> SUFFICES ASSUME Bad # {} PROVE FALSE
  OBVIOUS
<1>1. PICK k \in Bad : \A q \in Bad : k <= q
  BY Least
<1>2. CASE k = 0
  <2>1. JoinsTo(<<>>, seqs, 0)
    BY DEF JoinsTo
  <2> QED BY <1>1, <1>2, <2>1
<1>3. CASE k # 0
  <2>1. k - 1 \in Nat /\ k - 1 \notin Bad
    BY <1>1, <1>3
  <2>2. PICK g : JoinsTo(g, seqs, k - 1)
    BY <2>1
  <2> DEFINE f == [i \in 1..k |-> IF i = 1 THEN seqs[i] ELSE IF i = k THEN g[k - 1] \o seqs[i] ELSE g[i]]
  <2>3. \A i \in 1..(k - 1) : g[i] = IF i = 1 THEN seqs[i] ELSE g[i - 1] \o seqs[i]
    BY <2>2 DEF JoinsTo
  <2>4. \A i \in 1..(k - 1) : f[i] = g[i]
    BY <2>1, <2>3
  <2>5. \A i \in 1..k : f[i] = IF i = 1 THEN seqs[i] ELSE f[i - 1] \o seqs[i]
    <3> TAKE i \in 1..k
    <3>1. CASE i = 1
      BY <2>1, <3>1
    <3>2. CASE i # 1 /\ i = k
      <4>1. k - 1 \in 1..(k - 1) /\ k \in 1..k
        BY <2>1, <3>2
      <4>2. f[k - 1] = g[k - 1] /\ f[k] = g[k - 1] \o seqs[k]
        BY <2>4, <3>2, <4>1
      <4> QED BY <3>2, <4>2
    <3>3. CASE i # 1 /\ i # k
      <4>1. i \in 1..(k - 1) /\ i - 1 \in 1..(k - 1)
        BY <2>1, <3>3
      <4> QED BY <2>3, <2>4, <3>3, <4>1
    <3> QED BY <3>1, <3>2, <3>3
  <2>6. JoinsTo(f, seqs, k)
    <3>1. f = [i \in 1..k |-> f[i]]
      OBVIOUS
    <3> HIDE DEF f
    <3> QED BY <2>5, <3>1 DEF JoinsTo
  <2> QED BY <1>1, <2>6
<1> QED BY <1>2, <1>3

LEMMA FlattenIs ==
  ASSUME NEW S, NEW seqs \in Seq(Seq(S))
  PROVE  \E joined \in [0..Len(seqs) -> Seq(S)] :
           /\ joined[0] = <<>> /\ FlattenSeq(seqs) = joined[Len(seqs)]
           /\ \A i \in 1..Len(seqs) : joined[i] = joined[i - 1] \o seqs[i]
<1> PICK n : n = Len(seqs)
  OBVIOUS
<1>1. n \in Nat /\ \A i \in 1..n : seqs[i] \in Seq(S)
  BY LenProperties
<1> DEFINE h == CHOOSE joined : JoinsTo(joined, seqs, n)
<1>2. JoinsTo(h, seqs, n)
  BY <1>1, JoinExists
<1>3. \A i \in 1..n : h[i] = IF i = 1 THEN seqs[i] ELSE h[i - 1] \o seqs[i]
  BY <1>2 DEF JoinsTo
<1>4. n # 0 => FlattenSeq(seqs) = h[n]
  BY DEF FlattenSeq, JoinsTo
<1>5. n = 0 => FlattenSeq(seqs) = <<>>
  BY EmptySeq DEF FlattenSeq
<1> HIDE DEF h
<1>6. \A i \in 1..n : h[i] \in Seq(S)
  <2> DEFINE Bad == {i \in 1..n : h[i] \notin Seq(S)}
  <2> SUFFICES ASSUME Bad # {} PROVE FALSE
    OBVIOUS
  <2>1. PICK k \in Bad : \A q \in Bad : k <= q
    <3>1. Bad \in SUBSET Nat
      BY <1>1
    <3> HIDE DEF Bad
    <3> QED BY <3>1, Least
  <2>2. k = 1 => h[k] \in Seq(S)
    BY <1>1, <1>3
  <2>3. k # 1 => h[k - 1] \in Seq(S)
    BY <1>1, <2>1
  <2>4. k # 1 => h[k] \in Seq(S)
    <3> SUFFICES ASSUME k # 1 PROVE h[k] \in Seq(S)
      OBVIOUS
    <3>1. k \in 1..n /\ h[k - 1] \in Seq(S) /\ seqs[k] \in Seq(S)
      BY <1>1, <2>1, <2>3
    <3>2. h[k] = h[k - 1] \o seqs[k]
      BY <1>3, <3>1
    <3> QED BY <3>1, <3>2, ConcatProperties
  <2> QED BY <2>1, <2>2, <2>4
<1> DEFINE j == [i \in 0..n |-> IF i = 0 THEN <<>> ELSE h[i]]
<1>7. j \in [0..n -> Seq(S)] /\ j[0] = <<>> /\ \A i \in 1..n : j[i] = h[i]
  BY <1>1, <1>6, EmptySeq
<1>8. FlattenSeq(seqs) = j[n]
  BY <1>1, <1>4, <1>5, <1>7
<1>9. \A i \in 1..n : j[i] = j[i - 1] \o seqs[i]
  <2> TAKE i \in 1..n
  <2>1. CASE i = 1
    <3>1. <<>> \o seqs[i] = seqs[i]
      BY <1>1, ConcatEmptySeq
    <3> QED BY <1>1, <1>3, <1>7, <2>1, <3>1
  <2>2. CASE i # 1
    <3>1. i - 1 \in 1..n
      BY <1>1, <2>2
    <3> QED BY <1>3, <1>7, <2>2, <3>1
  <2> QED BY <2>1, <2>2
<1> HIDE DEF j
<1> QED BY <1>7, <1>8, <1>9

\* The elements l[i] with i in K, in their order: g says where they come from.
Picks(g, s, l, K, k) ==
  /\ g \in [1..Len(s) -> 1..k]
  /\ \A a \in 1..Len(s) : s[a] = l[g[a]] /\ g[a] \in K
  /\ \A a, b \in 1..Len(s) : a < b => g[a] < g[b]
  /\ \A i \in 1..k : i \in K => \E a \in 1..Len(s) : g[a] = i
PiecesOf(l, K) == [i \in 1..Len(l) |-> IF i \in K THEN <<l[i]>> ELSE <<>>]

LEMMA PickGrows ==
  ASSUME NEW S, NEW l \in Seq(S), NEW K, NEW k \in Nat, k + 1 \in 1..Len(l), NEW s \in Seq(S), NEW g,
         Picks(g, s, l, K, k), NEW t, t = IF k + 1 \in K THEN <<l[k + 1]>> ELSE <<>>
  PROVE  \E h : Picks(h, s \o t, l, K, k + 1)
<1> PICK n : n = Len(s)
  OBVIOUS
<1>1. n \in Nat /\ l[k + 1] \in S
  BY LenProperties
<1>2. /\ g \in [1..n -> 1..k]
      /\ \A a \in 1..n : s[a] = l[g[a]] /\ g[a] \in K
      /\ \A a, b \in 1..n : a < b => g[a] < g[b]
      /\ \A i \in 1..k : i \in K => \E a \in 1..n : g[a] = i
  BY DEF Picks
<1>3. CASE k + 1 \notin K
  <2>1. s \o t = s
    BY <1>3, ConcatEmptySeq
  <2>2. g \in [1..n -> 1..(k + 1)]
    BY <1>2
  <2>3. \A i \in 1..(k + 1) : i \in K => i \in 1..k
    BY <1>3
  <2>4. \A i \in 1..(k + 1) : i \in K => \E a \in 1..n : g[a] = i
    BY <1>2, <2>3
  <2>5. Picks(g, s, l, K, k + 1)
    BY <1>2, <2>2, <2>4 DEF Picks
  <2> QED BY <2>1, <2>5
<1>4. CASE k + 1 \in K
  <2> PICK u : u = s \o t
    OBVIOUS
  <2>1. t = <<l[k + 1]>> /\ t \in Seq(S) /\ Len(t) = 1 /\ t[1] = l[k + 1]
    BY <1>1, <1>4
  <2>2. Len(u) = n + 1 /\ \A a \in 1..(n + 1) : u[a] = IF a <= n THEN s[a] ELSE t[a - n]
    BY <2>1, ConcatProperties
  <2>3. u[n + 1] = l[k + 1] /\ \A a \in 1..n : u[a] = s[a]
    <3>1. n + 1 \in 1..(n + 1) /\ ~(n + 1 <= n) /\ (n + 1) - n = 1
      BY <1>1
    <3>2. \A a \in 1..n : a \in 1..(n + 1) /\ a <= n
      BY <1>1
    <3> QED BY <2>1, <2>2, <3>1, <3>2
  <2> DEFINE h == [a \in 1..(n + 1) |-> IF a <= n THEN g[a] ELSE k + 1]
  <2>4. /\ h \in [1..(n + 1) -> 1..(k + 1)] /\ h[n + 1] = k + 1
        /\ \A a \in 1..n : h[a] = g[a] /\ h[a] \in 1..k
        /\ \A a \in 1..(n + 1) : a = n + 1 \/ a \in 1..n
    <3>1. \A a \in 1..(n + 1) : a <= n => a \in 1..n /\ g[a] \in 1..k
      <4>1. \A a \in 1..(n + 1) : a <= n => a \in 1..n
        BY <1>1
      <4>2. \A a \in 1..n : g[a] \in 1..k
        BY <1>2
      <4> QED BY <4>1, <4>2
    <3>2. \A a \in 1..(n + 1) : (IF a <= n THEN g[a] ELSE k + 1) \in 1..(k + 1)
      BY <3>1
    <3>3. h \in [1..(n + 1) -> 1..(k + 1)]
      BY <3>2
    <3>4. n + 1 \in 1..(n + 1) /\ ~(n + 1 <= n) /\ \A a \in 1..n : a \in 1..(n + 1) /\ a <= n
      BY <1>1
    <3>5. \A a \in 1..(n + 1) : a = n + 1 \/ a \in 1..n
      BY <1>1
    <3> QED BY <1>2, <3>3, <3>4, <3>5
  <2> HIDE DEF h
  <2>5. \A a \in 1..(n + 1) : u[a] = l[h[a]] /\ h[a] \in K
    BY <1>2, <1>4, <2>3, <2>4
  <2>6. ASSUME NEW a \in 1..(n + 1), NEW b \in 1..(n + 1), a < b PROVE h[a] < h[b]
    <3>1. a \in 1..n
      BY <1>1, <2>6
    <3>2. CASE b = n + 1
      BY <2>4, <3>1, <3>2
    <3>3. CASE b \in 1..n
      BY <1>2, <2>4, <2>6, <3>1, <3>3
    <3> QED BY <2>4, <3>2, <3>3
  <2>7. ASSUME NEW i \in 1..(k + 1), i \in K PROVE \E a \in 1..(n + 1) : h[a] = i
    <3>1. CASE i = k + 1
      <4>1. n + 1 \in 1..(n + 1)
        BY <1>1
      <4> QED BY <2>4, <3>1, <4>1
    <3>2. CASE i # k + 1
      <4>1. i \in 1..k
        BY <3>2
      <4>2. PICK a \in 1..n : g[a] = i
        BY <1>2, <2>7, <4>1
      <4>3. a \in 1..(n + 1)
        BY <1>1
      <4> QED BY <2>4, <4>2, <4>3
    <3> QED BY <3>1, <3>2
  <2>8. Picks(h, u, l, K, k + 1)
    <3>1. \A a, b \in 1..Len(u) : a < b => h[a] < h[b]
      BY <2>2, <2>6
    <3>2. \A i \in 1..(k + 1) : i \in K => \E a \in 1..Len(u) : h[a] = i
      BY <2>2, <2>7
    <3>3. h \in [1..Len(u) -> 1..(k + 1)]
      BY <2>2, <2>4
    <3>4. \A a \in 1..Len(u) : u[a] = l[h[a]] /\ h[a] \in K
      BY <2>2, <2>5
    <3> QED BY <3>1, <3>2, <3>3, <3>4 DEF Picks
  <2> QED BY <2>8
<1> QED BY <1>3, <1>4

LEMMA PicksExist ==
  ASSUME NEW S, NEW l \in Seq(S), NEW K
  PROVE  /\ FlattenSeq(PiecesOf(l, K)) \in Seq(S)
         /\ \E g : Picks(g, FlattenSeq(PiecesOf(l, K)), l, K, Len(l))
<1> PICK n : n = Len(l)
  OBVIOUS
<1>0. PICK pieces : pieces = PiecesOf(l, K)
  OBVIOUS
<1>1. n \in Nat /\ \A i \in 1..n : l[i] \in S
  BY LenProperties
<1>2. \A i \in 1..n : pieces[i] = IF i \in K THEN <<l[i]>> ELSE <<>>
  BY <1>0 DEF PiecesOf
<1>3. pieces \in Seq(Seq(S)) /\ Len(pieces) = n
  <2>1. ASSUME NEW i \in 1..n PROVE (IF i \in K THEN <<l[i]>> ELSE <<>>) \in Seq(S)
    <3>1. <<>> \in Seq(S) /\ <<l[i]>> \in Seq(S)
      BY <1>1, EmptySeq
    <3> QED BY <3>1
  <2>2. pieces \in [1..n -> Seq(S)]
    BY <1>0, <2>1 DEF PiecesOf
  <2> QED BY <1>1, <2>2, ListOf
<1>4. PICK joined \in [0..n -> Seq(S)] :
        /\ joined[0] = <<>> /\ FlattenSeq(pieces) = joined[n]
        /\ \A i \in 1..n : joined[i] = joined[i - 1] \o pieces[i]
  <2>1. \E joined \in [0..Len(pieces) -> Seq(S)] :
          /\ joined[0] = <<>> /\ FlattenSeq(pieces) = joined[Len(pieces)]
          /\ \A i \in 1..Len(pieces) : joined[i] = joined[i - 1] \o pieces[i]
    <3>1. pieces \in Seq(Seq(S))
      BY <1>3
    <3> QED BY <3>1, FlattenIs
  <2> QED BY <1>3, <2>1
<1> DEFINE Bad == {k \in 0..n : ~ \E g : Picks(g, joined[k], l, K, k)}
<1>5. Bad = {}
  <2> SUFFICES ASSUME Bad # {} PROVE FALSE
    OBVIOUS
  <2>1. Bad \in SUBSET Nat
    BY <1>1
  <2>2. PICK k \in Bad : \A q \in Bad : k <= q
    <3> HIDE DEF Bad
    <3> QED BY <2>1, Least
  <2>3. CASE k = 0
    <3>1. joined[k] = <<>> /\ Len(<<>>) = 0
      BY <1>4, <2>3
    <3>2. Picks([a \in {} |-> 0], joined[k], l, K, 0)
      BY <3>1 DEF Picks
    <3> QED BY <2>2, <2>3, <3>2
  <2>4. CASE k # 0
    <3> PICK p : p = k - 1
      OBVIOUS
    <3>1. p \in Nat /\ p \in 0..n /\ p \notin Bad /\ k = p + 1 /\ k \in 1..n
      <4>1. k \in 0..n /\ k \in Nat /\ p \in Nat /\ p < k
        BY <1>1, <2>2, <2>4
      <4>2. p \notin Bad
        <5> HIDE DEF Bad
        <5>1. p \in Bad => k <= p
          BY <2>2
        <5> QED BY <4>1, <5>1
      <4> QED BY <1>1, <4>1, <4>2
    <3>2. PICK g : Picks(g, joined[p], l, K, p)
      BY <3>1
    <3> PICK t : t = IF p + 1 \in K THEN <<l[p + 1]>> ELSE <<>>
      OBVIOUS
    <3>3. joined[p] \in Seq(S) /\ joined[k] = joined[p] \o t
      BY <1>2, <1>4, <3>1
    <3>4. \E h : Picks(h, joined[p] \o t, l, K, p + 1)
      <4>1. p + 1 \in 1..Len(l)
        BY <3>1
      <4> QED BY <3>1, <3>2, <3>3, <4>1, PickGrows
    <3> QED BY <2>2, <3>1, <3>3, <3>4
  <2> QED BY <2>3, <2>4
<1>6. n \in 0..n
  BY <1>1
<1>7. \E g : Picks(g, joined[n], l, K, n)
  BY <1>5, <1>6
<1> QED BY <1>0, <1>4, <1>6, <1>7

LEMMA SinglesAre ==
  ASSUME NEW S, NEW l \in Seq(S)
  PROVE  FlattenSeq([i \in 1..Len(l) |-> <<l[i]>>]) = l
<1> PICK n : n = Len(l)
  OBVIOUS
<1>0. PICK pieces : pieces = [i \in 1..n |-> <<l[i]>>]
  OBVIOUS
<1>1. n \in Nat /\ l \in [1..n -> S] /\ \A i \in 1..n : l[i] \in S
  BY LenProperties
<1>2. pieces \in Seq(Seq(S)) /\ Len(pieces) = n
  <2>1. pieces \in [1..n -> Seq(S)]
    BY <1>0, <1>1
  <2> QED BY <1>1, <2>1, ListOf
<1>3. PICK joined \in [0..n -> Seq(S)] :
        /\ joined[0] = <<>> /\ FlattenSeq(pieces) = joined[n]
        /\ \A i \in 1..n : joined[i] = joined[i - 1] \o pieces[i]
        /\ \A i \in 0..n : joined[i] \in Seq(S)
  <2>1. \E joined \in [0..Len(pieces) -> Seq(S)] :
          /\ joined[0] = <<>> /\ FlattenSeq(pieces) = joined[Len(pieces)]
          /\ \A i \in 1..Len(pieces) : joined[i] = joined[i - 1] \o pieces[i]
    <3>1. pieces \in Seq(Seq(S))
      BY <1>2
    <3> QED BY <3>1, FlattenIs
  <2> QED BY <1>2, <2>1
<1> DEFINE Has(k) == Len(joined[k]) = k /\ \A i \in 1..k : joined[k][i] = l[i]
<1> DEFINE Bad == {k \in 0..n : ~Has(k)}
<1>4. Bad = {}
  <2> SUFFICES ASSUME Bad # {} PROVE FALSE
    OBVIOUS
  <2>1. Bad \in SUBSET Nat
    BY <1>1
  <2>2. PICK k \in Bad : \A q \in Bad : k <= q
    <3> HIDE DEF Bad
    <3> QED BY <2>1, Least
  <2>3. CASE k = 0
    <3>1. Has(k)
      BY <1>3, <2>3
    <3> QED BY <2>2, <3>1
  <2>4. CASE k # 0
    <3> PICK p : p = k - 1
      OBVIOUS
    <3>1. p \in Nat /\ p \in 0..n /\ p \notin Bad /\ k = p + 1 /\ k \in 1..n
      <4>1. k \in 0..n /\ k \in Nat /\ p \in Nat /\ p < k
        BY <1>1, <2>2, <2>4
      <4>2. p \notin Bad
        <5> HIDE DEF Bad
        <5>1. p \in Bad => k <= p
          BY <2>2
        <5> QED BY <4>1, <5>1
      <4> QED BY <1>1, <4>1, <4>2
    <3>0. PICK s, t, u : s = joined[p] /\ t = <<l[k]>> /\ u = joined[k]
      OBVIOUS
    <3>2. Len(s) = p /\ \A i \in 1..p : s[i] = l[i]
      BY <3>0, <3>1
    <3>3. s \in Seq(S) /\ t \in Seq(S) /\ u = s \o t /\ Len(t) = 1 /\ t[1] = l[k]
      <4>1. l[k] \in S /\ k - 1 = p
        BY <1>1, <3>1
      <4>2. t \in Seq(S) /\ Len(t) = 1 /\ t[1] = l[k]
        BY <3>0, <4>1
      <4> HIDE DEF Bad
      <4>3. s \in Seq(S)
        BY <1>3, <3>0, <3>1
      <4>4. joined[k] = joined[p] \o <<l[k]>>
        <5>1. pieces[k] = <<l[k]>>
          BY <1>0, <3>1
        <5> QED BY <1>3, <3>1, <4>1, <5>1
      <4> QED BY <3>0, <4>2, <4>3, <4>4
    <3>4. Len(u) = p + 1 /\ \A i \in 1..(p + 1) : u[i] = IF i <= p THEN s[i] ELSE t[i - p]
      <4>1. Len(s \o t) = Len(s) + Len(t) /\ \A i \in 1..(Len(s) + Len(t)) : (s \o t)[i] = IF i <= Len(s) THEN s[i] ELSE t[i - Len(s)]
        BY <3>3, ConcatProperties
      <4>2. Len(s) = p /\ Len(t) = 1 /\ u = s \o t
        BY <3>2, <3>3
      <4> QED BY <4>1, <4>2
    <3>5. ASSUME NEW i \in 1..k PROVE u[i] = l[i]
      <4>1. CASE i <= p
        <5>1. i \in 1..p /\ i \in 1..(p + 1)
          BY <3>1, <4>1
        <5> QED BY <3>2, <3>4, <4>1, <5>1
      <4>2. CASE ~(i <= p)
        <5>1. i = k /\ i - p = 1 /\ i \in 1..(p + 1)
          BY <3>1, <4>2
        <5> QED BY <3>3, <3>4, <4>2, <5>1
      <4> QED BY <4>1, <4>2
    <3>6. Has(k)
      BY <3>0, <3>1, <3>4, <3>5
    <3> QED BY <2>2, <3>6
  <2> QED BY <2>3, <2>4
<1>5. n \in 0..n
  BY <1>1
<1>6. Has(n) /\ joined[n] \in Seq(S)
  BY <1>3, <1>4, <1>5
<1>7. joined[n] = [i \in 1..n |-> l[i]] /\ l = [i \in 1..n |-> l[i]]
  <2> PICK s : s = joined[n]
    OBVIOUS
  <2>1. s \in [1..n -> S] /\ \A i \in 1..n : s[i] = l[i]
    BY <1>6, LenProperties
  <2> QED BY <1>1, <2>1
<1> QED BY <1>3, <1>7

\* A message as the model has it; ids and counts without their bounds.
Texts == {"full", "cut", "remark"}
Msg == [role : {"user", "assistant", "tool"}, calls : Seq(Int), answers : Int, text : Texts, seen : Nat]
Asked == [id : Int, name : Names, keep : Keeps \cup {NoInt}]
\* The calls of a message.
Asks(m) == ToSet(m.calls)
Remark == {m \in Msg : m.role # "assistant" /\ m.text = "remark" /\ m.seen = 0}

\* What is in full was sent in full exactly when the model has answered since.
Good(ms) ==
  \A i \in 1..Len(ms) :
    /\ ms[i].role = "assistant" => ms[i].text = "remark"
    /\ ms[i].seen <= 1 /\ (ms[i].text = "cut" => ms[i].seen = 1)
    /\ ms[i].text = "full" => (ms[i].seen = 1 <=> \E j \in (i + 1)..Len(ms) : ms[j].role = "assistant")
\* Nothing is in full that the model has answered.
Fresh(ms) ==
  \A i \in 1..Len(ms) : ms[i].text = "full" =>
    ~ \E j \in (i + 1)..Len(ms) : ms[j].role = "assistant"

TalkInv ==
  /\ messages \in Seq(Msg) /\ batch \in Seq(Asked) /\ start \in Nat /\ issued \in Nat
  /\ Good(messages)
  /\ pc = "call" => Fresh(messages)
  /\ pc = "tools" => batch # <<>>

LEMMA PlainIs ==
  ASSUME NEW role \in {"user", "assistant", "tool"}
  PROVE  /\ Plain(role) \in Msg /\ Plain(role).role = role /\ Plain(role).text = "remark"
         /\ Plain(role).seen = 0
         /\ role # "assistant" => Plain(role) \in Remark
<1>1. Plain(role) = [role |-> role, calls |-> <<>>, answers |-> 0, text |-> "remark", seen |-> 0]
  BY DEF Plain
<1>2. <<>> \in Seq(Int)
  BY EmptySeq
<1>3. [role |-> role, calls |-> <<>>, answers |-> 0, text |-> "remark", seen |-> 0] \in Msg
  BY <1>2 DEF Msg, Texts
<1> QED BY <1>1, <1>3 DEF Remark

LEMMA ResultIs ==
  ASSUME NEW id \in Int, NEW text \in {"full", "remark"}
  PROVE  /\ Result(id, text) \in Msg /\ Result(id, text).role = "tool"
         /\ Result(id, text).answers = id /\ Asks(Result(id, text)) = {}
         /\ Result(id, text).text = text /\ Result(id, text).seen = 0
         /\ text = "remark" => Result(id, text) \in Remark
<1>1. Plain("tool") = [role |-> "tool", calls |-> <<>>, answers |-> 0, text |-> "remark", seen |-> 0]
  BY DEF Plain
<1>2. Result(id, text) = [[Plain("tool") EXCEPT !.answers = id] EXCEPT !.text = text]
  BY DEF Result
<1>3. [Plain("tool") EXCEPT !.answers = id] = [role |-> "tool", calls |-> <<>>, answers |-> id, text |-> "remark", seen |-> 0]
  BY <1>1
<1>4. Result(id, text) = [role |-> "tool", calls |-> <<>>, answers |-> id, text |-> text, seen |-> 0]
  BY <1>2, <1>3
<1>5. <<>> \in Seq(Int)
  BY EmptySeq
<1>6. [role |-> "tool", calls |-> <<>>, answers |-> id, text |-> text, seen |-> 0] \in Msg
  BY <1>5 DEF Msg, Texts
<1> QED BY <1>4, <1>6 DEF Remark, Asks, ToSet

\* A remark on a call of the i-th message that has no result.
RemarkOn(x, ms, i) == \E id \in Asks(ms[i]) \cap Dangling(ms) : x = Result(id, "remark")

LEMMA RemarksAre ==
  ASSUME NEW ids \in Seq(Int), NEW ms
  PROVE  /\ Remarks(ids, ms) \in Seq(Remark)
         /\ \A j \in 1..Len(Remarks(ids, ms)) :
              \E id \in ToSet(ids) \cap Dangling(ms) : Remarks(ids, ms)[j] = Result(id, "remark")
         /\ \A id \in ToSet(ids) \cap Dangling(ms) :
              \E j \in 1..Len(Remarks(ids, ms)) : Remarks(ids, ms)[j] = Result(id, "remark")
<1> PICK n, D : n = Len(ids) /\ D = Dangling(ms)
  OBVIOUS
<1>1. DOMAIN ids = 1..n /\ n \in Nat /\ \A j \in 1..n : ids[j] \in Int
  BY LenProperties
<1> DEFINE l == [j \in 1..n |-> Result(ids[j], "remark")]
<1> DEFINE K == {j \in 1..n : ids[j] \in D}
<1>2. l \in Seq(Remark) /\ Len(l) = n /\ \A j \in 1..n : l[j] = Result(ids[j], "remark")
  <2>1. \A j \in 1..n : Result(ids[j], "remark") \in Remark
    BY <1>1, ResultIs
  <2> HIDE DEF Remark
  <2>2. l \in [1..n -> Remark]
    BY <2>1
  <2> QED BY <1>1, <2>2, ListOf
<1>3. Remarks(ids, ms) = FlattenSeq(PiecesOf(l, K))
  <2>1. [j \in 1..n |-> IF ids[j] \in D THEN <<Result(ids[j], "remark")>> ELSE <<>>] = PiecesOf(l, K)
    <3>1. \A j \in 1..n : (ids[j] \in D <=> j \in K) /\ l[j] = Result(ids[j], "remark")
      BY <1>2
    <3> HIDE DEF l, K
    <3> QED BY <1>2, <3>1 DEF PiecesOf
  <2> QED BY <1>1, <2>1 DEF Remarks
<1> HIDE DEF l
<1> PICK s : s = Remarks(ids, ms)
  OBVIOUS
<1>4. s \in Seq(Remark) /\ \E g : Picks(g, s, l, K, n)
  <2> HIDE DEF K
  <2> QED BY <1>2, <1>3, PicksExist
<1>5. PICK g : Picks(g, s, l, K, n)
  BY <1>4
<1>6. /\ g \in [1..Len(s) -> 1..n]
      /\ \A a \in 1..Len(s) : s[a] = l[g[a]] /\ g[a] \in K
      /\ \A i \in 1..n : i \in K => \E a \in 1..Len(s) : g[a] = i
  BY <1>5 DEF Picks
<1>7. ASSUME NEW a \in 1..Len(s) PROVE \E id \in ToSet(ids) \cap D : s[a] = Result(id, "remark")
  <2>1. g[a] \in 1..n /\ ids[g[a]] \in D /\ s[a] = Result(ids[g[a]], "remark")
    BY <1>2, <1>6
  <2> QED BY <1>1, <2>1 DEF ToSet
<1>8. ASSUME NEW id \in ToSet(ids) \cap D PROVE \E a \in 1..Len(s) : s[a] = Result(id, "remark")
  <2>1. PICK i \in 1..n : ids[i] = id
    BY <1>1 DEF ToSet
  <2>2. i \in K
    BY <2>1
  <2>3. PICK a \in 1..Len(s) : g[a] = i
    BY <1>6, <2>2
  <2> QED BY <1>2, <1>6, <2>1, <2>3
<1> QED BY <1>4, <1>7, <1>8

\* r has one remark for each of m's calls without a result.
RemarkedOn(r, m, ms) ==
  /\ \A j \in 1..Len(r) : \E id \in Asks(m) \cap Dangling(ms) : r[j] = Result(id, "remark")
  /\ \A id \in Asks(m) \cap Dangling(ms) : \E j \in 1..Len(r) : r[j] = Result(id, "remark")

LEMMA RemarksFor ==
  ASSUME NEW ms, NEW m, m.calls \in Seq(Int)
  PROVE  Remarks(m.calls, ms) \in Seq(Remark) /\ RemarkedOn(Remarks(m.calls, ms), m, ms)
<1>1. Asks(m) = ToSet(m.calls)
  BY DEF Asks
<1>2. /\ Remarks(m.calls, ms) \in Seq(Remark)
      /\ \A j \in 1..Len(Remarks(m.calls, ms)) :
           \E id \in ToSet(m.calls) \cap Dangling(ms) : Remarks(m.calls, ms)[j] = Result(id, "remark")
      /\ \A id \in ToSet(m.calls) \cap Dangling(ms) :
           \E j \in 1..Len(Remarks(m.calls, ms)) : Remarks(m.calls, ms)[j] = Result(id, "remark")
  BY RemarksAre
<1> QED BY <1>1, <1>2 DEF RemarkedOn

\* s has the messages of ms up to the k-th in their order, the i-th at place[i], and behind it the
\* remarks on its calls.
Marks(g, place, s, ms, k) ==
  /\ g \in [1..Len(s) -> 1..k] /\ place \in [1..k -> 1..Len(s)]
  /\ \A a, b \in 1..Len(s) : a <= b => g[a] <= g[b]
  /\ \A i \in 1..k : g[place[i]] = i /\ s[place[i]] = ms[i]
  /\ \A a \in 1..Len(s) : place[g[a]] <= a /\ (a # place[g[a]] => RemarkOn(s[a], ms, g[a]))
  /\ \A i \in 1..k : \A id \in Asks(ms[i]) \cap Dangling(ms) :
       \E a \in 1..Len(s) : g[a] = i /\ a # place[i] /\ s[a] = Result(id, "remark")

LEMMA MarkGrows ==
  ASSUME NEW ms \in Seq(Msg), NEW k \in Nat, k + 1 \in 1..Len(ms), NEW s \in Seq(Msg), NEW g, NEW place,
         Marks(g, place, s, ms, k), NEW r, r = Remarks(ms[k + 1].calls, ms)
  PROVE  \E h, where : Marks(h, where, s \o (<<ms[k + 1]>> \o r), ms, k + 1)
<1>0. RemarkedOn(r, ms[k + 1], ms)
  <2>1. ms[k + 1].calls \in Seq(Int)
    <3>1. ms[k + 1] \in Msg
      BY LenProperties
    <3> QED BY <3>1 DEF Msg
  <2> QED BY <2>1, RemarksFor
<1> PICK m : m = ms[k + 1]
  OBVIOUS
<1> PICK t : t = <<m>> \o r
  OBVIOUS
<1> PICK n, l : n = Len(s) /\ l = Len(t)
  OBVIOUS
<1> PICK u : u = s \o t
  OBVIOUS
<1>1. m \in Msg /\ n \in Nat /\ m.calls \in Seq(Int)
  <2>1. m \in Msg /\ n \in Nat
    BY LenProperties
  <2> QED BY <2>1 DEF Msg
<1>2. /\ r \in Seq(Msg) /\ Len(r) \in Nat
      /\ \A j \in 1..Len(r) : RemarkOn(r[j], ms, k + 1)
      /\ \A id \in Asks(ms[k + 1]) \cap Dangling(ms) : \E j \in 1..Len(r) : r[j] = Result(id, "remark")
  <2>1. r \in Seq(Remark)
    BY <1>1, RemarksAre
  <2>2. Len(r) \in Nat /\ r \in [1..Len(r) -> Remark]
    BY <2>1, LenProperties
  <2>3. Remark \in SUBSET Msg
    BY DEF Remark
  <2>4. r \in Seq(Msg)
    <3> HIDE DEF Remark, Msg
    <3>1. r \in [1..Len(r) -> Msg]
      BY <2>2, <2>3
    <3> QED BY <2>2, <3>1, ListOf
  <2> QED BY <1>0, <2>2, <2>4 DEF RemarkOn, RemarkedOn
<1> HIDE DEF Msg
<1>3. l = 1 + Len(r) /\ t \in Seq(Msg) /\ t[1] = m /\ \A i \in 2..l : t[i] = r[i - 1] /\ i - 1 \in 1..Len(r)
  <2>1. <<m>> \in Seq(Msg) /\ Len(<<m>>) = 1 /\ <<m>>[1] = m
    BY <1>1
  <2>2. /\ t \in Seq(Msg) /\ Len(t) = Len(<<m>>) + Len(r)
        /\ \A i \in 1..(Len(<<m>>) + Len(r)) : t[i] = IF i <= Len(<<m>>) THEN <<m>>[i] ELSE r[i - Len(<<m>>)]
    BY <1>2, <2>1, ConcatProperties
  <2>3. l = 1 + Len(r)
    BY <2>1, <2>2
  <2>4. t[1] = m
    <3>1. 1 \in 1..(1 + Len(r))
      BY <1>2
    <3> QED BY <2>1, <2>2, <3>1
  <2>5. ASSUME NEW i \in 2..l PROVE t[i] = r[i - 1] /\ i - 1 \in 1..Len(r)
    <3>1. i \in 1..(1 + Len(r)) /\ ~(i <= 1) /\ i - 1 \in 1..Len(r)
      BY <1>2, <2>3
    <3> QED BY <2>1, <2>2, <3>1
  <2> QED BY <2>2, <2>3, <2>4, <2>5
<1>4. l \in Nat /\ l >= 1
  BY <1>2, <1>3
<1>5. Len(u) = n + l /\ \A i \in 1..(n + l) : u[i] = IF i <= n THEN s[i] ELSE t[i - n]
  BY <1>3, ConcatProperties
<1> DEFINE h == [a \in 1..(n + l) |-> IF a <= n THEN g[a] ELSE k + 1]
<1> DEFINE where == [i \in 1..(k + 1) |-> IF i <= k THEN place[i] ELSE n + 1]
<1>6. /\ g \in [1..n -> 1..k] /\ place \in [1..k -> 1..n]
      /\ \A a, b \in 1..n : a <= b => g[a] <= g[b]
      /\ \A i \in 1..k : g[place[i]] = i /\ s[place[i]] = ms[i]
      /\ \A a \in 1..n : place[g[a]] <= a /\ (a # place[g[a]] => RemarkOn(s[a], ms, g[a]))
      /\ \A i \in 1..k : \A id \in Asks(ms[i]) \cap Dangling(ms) :
           \E a \in 1..n : g[a] = i /\ a # place[i] /\ s[a] = Result(id, "remark")
  BY DEF Marks
<1>7. \A a \in 1..n : a \in 1..(n + l) /\ h[a] = g[a] /\ h[a] \in 1..k /\ u[a] = s[a]
  <2> TAKE a \in 1..n
  <2>1. a \in 1..(n + l) /\ a <= n
    BY <1>1, <1>4
  <2> QED BY <1>5, <1>6, <2>1
<1>8. ASSUME NEW a \in 1..(n + l), a \notin 1..n
      PROVE  h[a] = k + 1 /\ u[a] = t[a - n] /\ a - n \in 1..l /\ a >= n + 1
  <2>1. ~(a <= n) /\ a - n \in 1..l /\ a >= n + 1
    BY <1>1, <1>4, <1>8
  <2> QED BY <1>5, <2>1
<1>9. n + 1 \in 1..(n + l) /\ n + 1 \notin 1..n /\ h[n + 1] = k + 1 /\ u[n + 1] = m
  <2>1. n + 1 \in 1..(n + l) /\ n + 1 \notin 1..n /\ (n + 1) - n = 1
    BY <1>1, <1>4
  <2> QED BY <1>3, <1>8, <2>1
<1>10. h \in [1..(n + l) -> 1..(k + 1)]
  <2>1. DOMAIN h = 1..(n + l) /\ h = [a \in 1..(n + l) |-> h[a]]
    OBVIOUS
  <2>2. \A a \in 1..(n + l) : h[a] \in 1..(k + 1)
    <3> HIDE DEF h
    <3> TAKE a \in 1..(n + l)
    <3>1. CASE a \in 1..n
      <4>1. h[a] \in 1..k
        BY <1>7, <3>1
      <4> QED BY <4>1
    <3>2. CASE a \notin 1..n
      <4>1. h[a] = k + 1
        BY <1>8, <3>2
      <4> QED BY <4>1
    <3> QED BY <3>1, <3>2
  <2> HIDE DEF h
  <2> QED BY <2>1, <2>2
<1>11. /\ where \in [1..(k + 1) -> 1..(n + l)] /\ where[k + 1] = n + 1
       /\ \A i \in 1..k : where[i] = place[i] /\ place[i] \in 1..n
  <2>1. \A i \in 1..k : i \in 1..(k + 1) /\ i <= k /\ place[i] \in 1..n /\ place[i] \in 1..(n + l)
    <3> TAKE i \in 1..k
    <3>1. place[i] \in 1..n
      BY <1>6
    <3> QED BY <1>7, <3>1
  <2>2. \A i \in 1..(k + 1) : i \in 1..k \/ i = k + 1
    OBVIOUS
  <2>3. k + 1 \in 1..(k + 1) /\ ~(k + 1 <= k)
    OBVIOUS
  <2>4. \A i \in 1..(k + 1) : (IF i <= k THEN place[i] ELSE n + 1) \in 1..(n + l)
    BY <1>9, <2>1, <2>2, <2>3
  <2>5. where \in [1..(k + 1) -> 1..(n + l)]
    BY <2>4
  <2> QED BY <2>1, <2>3, <2>5
<1> HIDE DEF h, where
<1>12. ASSUME NEW a \in 1..(n + l), NEW b \in 1..(n + l), a <= b PROVE h[a] <= h[b]
  <2>1. CASE b \in 1..n
    <3>1. a \in 1..n
      BY <1>1, <1>12, <2>1
    <3> QED BY <1>6, <1>7, <1>12, <2>1, <3>1
  <2>2. CASE b \notin 1..n
    <3>1. h[b] = k + 1 /\ h[a] \in 1..(k + 1)
      BY <1>8, <1>10, <2>2
    <3> QED BY <3>1
  <2> QED BY <2>1, <2>2
<1>13. ASSUME NEW i \in 1..(k + 1) PROVE h[where[i]] = i /\ u[where[i]] = ms[i]
  <2>1. CASE i \in 1..k
    <3>1. where[i] = place[i] /\ place[i] \in 1..n
      BY <1>11, <2>1
    <3>2. h[place[i]] = g[place[i]] /\ u[place[i]] = s[place[i]]
      BY <1>7, <3>1
    <3> QED BY <1>6, <2>1, <3>1, <3>2
  <2>2. CASE i = k + 1
    BY <1>9, <1>11, <2>2
  <2>3. i \in 1..k \/ i = k + 1
    BY <1>13
  <2> QED BY <2>1, <2>2, <2>3
<1>14. ASSUME NEW a \in 1..(n + l)
       PROVE  where[h[a]] <= a /\ (a # where[h[a]] => RemarkOn(u[a], ms, h[a]))
  <2>1. CASE a \in 1..n
    <3>1. h[a] = g[a] /\ g[a] \in 1..k /\ u[a] = s[a]
      BY <1>6, <1>7, <2>1
    <3>2. where[h[a]] = place[g[a]]
      BY <1>11, <3>1
    <3> QED BY <1>6, <2>1, <3>1, <3>2
  <2>2. CASE a \notin 1..n
    <3>1. h[a] = k + 1 /\ u[a] = t[a - n] /\ a - n \in 1..l /\ a >= n + 1 /\ where[h[a]] = n + 1
      BY <1>8, <1>11, <2>2
    <3>2. ASSUME a # n + 1 PROVE RemarkOn(u[a], ms, k + 1)
      <4>1. a - n \in 2..l
        BY <1>1, <1>4, <3>1, <3>2
      <4> PICK j : j = (a - n) - 1
        OBVIOUS
      <4>2. u[a] = r[j] /\ j \in 1..Len(r)
        BY <1>3, <3>1, <4>1
      <4> QED BY <1>2, <4>2
    <3> QED BY <3>1, <3>2
  <2> QED BY <2>1, <2>2
<1>15. ASSUME NEW i \in 1..(k + 1), NEW id \in Asks(ms[i]) \cap Dangling(ms)
       PROVE  \E a \in 1..(n + l) : h[a] = i /\ a # where[i] /\ u[a] = Result(id, "remark")
  <2>1. CASE i \in 1..k
    <3>1. PICK a \in 1..n : g[a] = i /\ a # place[i] /\ s[a] = Result(id, "remark")
      BY <1>6, <2>1
    <3> QED BY <1>7, <1>11, <2>1, <3>1
  <2>2. CASE i = k + 1
    <3>1. PICK j \in 1..Len(r) : r[j] = Result(id, "remark")
      BY <1>2, <2>2
    <3> PICK a : a = (n + 1) + j
      OBVIOUS
    <3>2. /\ a \in 1..(n + l) /\ a \notin 1..n /\ a # n + 1 /\ a - n \in 2..l /\ (a - n) - 1 = j
      <4> PICK q : q = Len(r)
        OBVIOUS
      <4>1. n \in Nat /\ q \in Nat /\ l = 1 + q /\ j \in 1..q
        BY <1>1, <1>2, <1>3
      <4> QED BY <4>1
    <3>3. u[a] = t[a - n] /\ h[a] = k + 1
      BY <1>8, <3>2
    <3>4. t[a - n] = r[(a - n) - 1]
      BY <1>3, <3>2
    <3> QED BY <1>11, <2>2, <3>1, <3>2, <3>3, <3>4
  <2> QED BY <2>1, <2>2
<1>16. Marks(h, where, u, ms, k + 1)
  <2>1. h \in [1..Len(u) -> 1..(k + 1)] /\ where \in [1..(k + 1) -> 1..Len(u)]
    BY <1>5, <1>10, <1>11
  <2>2. \A a, b \in 1..Len(u) : a <= b => h[a] <= h[b]
    BY <1>5, <1>12
  <2>3. \A i \in 1..(k + 1) : h[where[i]] = i /\ u[where[i]] = ms[i]
    BY <1>13
  <2>4. \A a \in 1..Len(u) : where[h[a]] <= a /\ (a # where[h[a]] => RemarkOn(u[a], ms, h[a]))
    BY <1>5, <1>14
  <2>5. \A i \in 1..(k + 1) : \A id \in Asks(ms[i]) \cap Dangling(ms) :
          \E a \in 1..Len(u) : h[a] = i /\ a # where[i] /\ u[a] = Result(id, "remark")
    <3>1. \A i \in 1..(k + 1) : \A id \in Asks(ms[i]) \cap Dangling(ms) :
            \E a \in 1..(n + l) : h[a] = i /\ a # where[i] /\ u[a] = Result(id, "remark")
      BY <1>15
    <3>2. Len(u) = n + l
      BY <1>5
    <3> QED BY <3>1, <3>2
  <2> QED BY <2>1, <2>2, <2>3, <2>4, <2>5 DEF Marks
<1> QED BY <1>16

LEMMA RepairedMarks ==
  ASSUME NEW ms \in Seq(Msg)
  PROVE  Repaired(ms) \in Seq(Msg) /\ \E g, place : Marks(g, place, Repaired(ms), ms, Len(ms))
<1> PICK n : n = Len(ms)
  OBVIOUS
<1>1. n \in Nat /\ DOMAIN ms = 1..n /\ \A i \in 1..n : ms[i] \in Msg /\ ms[i].calls \in Seq(Int)
  <2>1. n \in Nat /\ DOMAIN ms = 1..n /\ \A i \in 1..n : ms[i] \in Msg
    BY LenProperties
  <2> QED BY <2>1 DEF Msg
<1> DEFINE pieces == [i \in 1..n |-> <<ms[i]>> \o Remarks(ms[i].calls, ms)]
<1>2. ASSUME NEW i \in 1..n PROVE <<ms[i]>> \o Remarks(ms[i].calls, ms) \in Seq(Msg)
  <2> PICK r : r = Remarks(ms[i].calls, ms)
    OBVIOUS
  <2>1. r \in Seq(Remark)
    BY <1>1, RemarksAre
  <2>2. Remark \in SUBSET Msg
    BY DEF Remark
  <2> HIDE DEF Remark, Msg
  <2>3. r \in Seq(Msg)
    <3>1. Len(r) \in Nat /\ r \in [1..Len(r) -> Remark]
      BY <2>1, LenProperties
    <3>2. r \in [1..Len(r) -> Msg]
      BY <2>2, <3>1
    <3> QED BY <3>1, <3>2, ListOf
  <2>4. <<ms[i]>> \in Seq(Msg)
    BY <1>1
  <2> QED BY <2>3, <2>4, ConcatProperties
<1> HIDE DEF Remark, Msg
<1>3. pieces \in Seq(Seq(Msg)) /\ Len(pieces) = n
  <2>1. pieces \in [1..n -> Seq(Msg)]
    BY <1>2
  <2> HIDE DEF pieces
  <2> QED BY <1>1, <2>1, ListOf
<1>4. \A i \in 1..n : pieces[i] = <<ms[i]>> \o Remarks(ms[i].calls, ms)
  OBVIOUS
<1>5. Repaired(ms) = FlattenSeq(pieces)
  BY <1>1 DEF Repaired
<1> HIDE DEF pieces
<1>6. PICK joined \in [0..n -> Seq(Msg)] :
        /\ joined[0] = <<>> /\ FlattenSeq(pieces) = joined[n]
        /\ \A i \in 1..n : joined[i] = joined[i - 1] \o pieces[i]
  <2>1. \E joined \in [0..Len(pieces) -> Seq(Msg)] :
          /\ joined[0] = <<>> /\ FlattenSeq(pieces) = joined[Len(pieces)]
          /\ \A i \in 1..Len(pieces) : joined[i] = joined[i - 1] \o pieces[i]
    BY <1>3, FlattenIs
  <2> QED BY <1>3, <2>1
<1> DEFINE Bad == {k \in 0..n : ~ \E g, place : Marks(g, place, joined[k], ms, k)}
<1>7. Bad = {}
  <2> SUFFICES ASSUME Bad # {} PROVE FALSE
    OBVIOUS
  <2>1. Bad \in SUBSET Nat
    BY <1>1
  <2>2. PICK k \in Bad : \A q \in Bad : k <= q
    <3> HIDE DEF Bad
    <3> QED BY <2>1, Least
  <2>3. CASE k = 0
    <3>1. joined[k] = <<>> /\ Len(<<>>) = 0
      BY <1>6, <2>3
    <3>2. Marks([a \in {} |-> 0], [a \in {} |-> 0], joined[k], ms, 0)
      BY <3>1 DEF Marks
    <3> QED BY <2>2, <2>3, <3>2
  <2>4. CASE k # 0
    <3> PICK p : p = k - 1
      OBVIOUS
    <3>1. p \in Nat /\ p \in 0..n /\ p \notin Bad /\ k = p + 1 /\ k \in 1..n
      <4>1. k \in 0..n /\ k \in Nat /\ p \in Nat /\ p < k
        BY <1>1, <2>2, <2>4
      <4>2. p \notin Bad
        <5> HIDE DEF Bad
        <5>1. p \in Bad => k <= p
          BY <2>2
        <5> QED BY <4>1, <5>1
      <4> QED BY <1>1, <4>1, <4>2
    <3>2. PICK g, place : Marks(g, place, joined[p], ms, p)
      BY <3>1
    <3> PICK r : r = Remarks(ms[p + 1].calls, ms)
      OBVIOUS
    <3>3. joined[p] \in Seq(Msg) /\ joined[k] = joined[p] \o (<<ms[p + 1]>> \o r)
      BY <1>4, <1>6, <3>1
    <3>4. \E h, where : Marks(h, where, joined[p] \o (<<ms[p + 1]>> \o r), ms, p + 1)
      <4>1. p + 1 \in 1..Len(ms)
        BY <3>1
      <4> QED BY <3>1, <3>2, <3>3, <4>1, MarkGrows
    <3> QED BY <2>2, <3>1, <3>3, <3>4
  <2> QED BY <2>3, <2>4
<1>8. n \in 0..n
  BY <1>1
<1>9. \E g, place : Marks(g, place, joined[n], ms, n)
  BY <1>7, <1>8
<1> QED BY <1>5, <1>6, <1>8, <1>9

LEMMA MessagesAre ==
  ASSUME NEW ms \in Seq(Msg)
  PROVE  /\ Len(ms) \in Nat /\ DOMAIN ms = 1..Len(ms)
         /\ \A i \in 1..Len(ms) :
              /\ ms[i] \in Msg /\ ms[i].seen \in Nat /\ ms[i].text \in Texts
              /\ ms[i].role \in {"user", "assistant", "tool"}
<1>1. Len(ms) \in Nat /\ DOMAIN ms = 1..Len(ms) /\ \A i \in 1..Len(ms) : ms[i] \in Msg
  BY LenProperties
<1> QED BY <1>1 DEF Msg

LEMMA RemarksHave ==
  ASSUME NEW m \in Remark
  PROVE  m \in Msg /\ m.role # "assistant" /\ m.text = "remark" /\ m.seen = 0
BY DEF Remark

\* The messages of ms stand in s in their order, and between them there are only remarks.
Kept(g, s, ms) ==
  /\ g \in [1..Len(s) -> 1..Len(ms)]
  /\ \A a \in 1..Len(s) : s[a] = ms[g[a]] \/ s[a] \in Remark
  /\ \A a, b \in 1..Len(s) : a <= b => g[a] <= g[b]
  /\ \A i \in 1..Len(ms) : \E a \in 1..Len(s) : g[a] = i /\ s[a] = ms[i]

LEMMA MarksHave ==
  ASSUME NEW ms \in Seq(Msg), NEW s, NEW g, NEW place, Marks(g, place, s, ms, Len(ms))
  PROVE  Kept(g, s, ms)
<1> PICK n, l : n = Len(ms) /\ l = Len(s)
  OBVIOUS
<1>1. /\ g \in [1..l -> 1..n] /\ place \in [1..n -> 1..l]
      /\ \A a, b \in 1..l : a <= b => g[a] <= g[b]
      /\ \A i \in 1..n : g[place[i]] = i /\ s[place[i]] = ms[i]
      /\ \A a \in 1..l : a # place[g[a]] => RemarkOn(s[a], ms, g[a])
  BY DEF Marks
<1>2. ASSUME NEW a \in 1..l PROVE s[a] = ms[g[a]] \/ s[a] \in Remark
  <2>1. CASE a = place[g[a]]
    <3>1. g[a] \in 1..n
      BY <1>1
    <3> QED BY <1>1, <2>1, <3>1
  <2>2. CASE a # place[g[a]]
    <3>1. PICK id \in Asks(ms[g[a]]) : s[a] = Result(id, "remark")
      BY <1>1, <2>2 DEF RemarkOn
    <3>2. g[a] \in 1..n /\ ms[g[a]] \in Msg
      <4> HIDE DEF Msg
      <4>1. g[a] \in 1..n
        BY <1>1
      <4> QED BY <4>1, LenProperties
    <3>3. ms[g[a]].calls \in Seq(Int)
      BY <3>2 DEF Msg
    <3>4. id \in Int
      BY <3>1, <3>3, LenProperties DEF Asks, ToSet
    <3> QED BY <3>1, <3>4, ResultIs
  <2> QED BY <2>1, <2>2
<1>3. ASSUME NEW i \in 1..n PROVE \E a \in 1..l : g[a] = i /\ s[a] = ms[i]
  <2>1. place[i] \in 1..l
    BY <1>1
  <2> QED BY <1>1, <2>1
<1> QED BY <1>1, <1>2, <1>3 DEF Kept

LEMMA RepairedGood ==
  ASSUME NEW ms \in Seq(Msg), Good(ms)
  PROVE  Repaired(ms) \in Seq(Msg) /\ Good(Repaired(ms))
<1> PICK s, n, l : s = Repaired(ms) /\ n = Len(ms) /\ l = Len(s)
  OBVIOUS
<1>1. s \in Seq(Msg)
  BY RepairedMarks
<1>2. PICK g, place : Marks(g, place, s, ms, n)
  BY RepairedMarks
<1>3. /\ g \in [1..l -> 1..n]
      /\ \A a \in 1..l : s[a] = ms[g[a]] \/ s[a] \in Remark
      /\ \A a, b \in 1..l : a <= b => g[a] <= g[b]
      /\ \A i \in 1..n : \E a \in 1..l : g[a] = i /\ s[a] = ms[i]
  <2>1. Marks(g, place, s, ms, Len(ms))
    BY <1>2
  <2>2. Kept(g, s, ms)
    BY <2>1, MarksHave
  <2> QED BY <2>2 DEF Kept
<1>4. n \in Nat /\ l \in Nat /\ \A a \in 1..l : g[a] \in 1..n
  BY <1>1, <1>3, MessagesAre
<1>5. \A i \in 1..n :
    /\ ms[i].role = "assistant" => ms[i].text = "remark"
    /\ ms[i].seen <= 1 /\ (ms[i].text = "cut" => ms[i].seen = 1)
    /\ ms[i].text = "full" => (ms[i].seen = 1 <=> \E j \in (i + 1)..n : ms[j].role = "assistant")
  BY DEF Good
<1>6. ASSUME NEW a \in 1..l
      PROVE  /\ s[a].role = "assistant" => s[a].text = "remark"
             /\ s[a].seen <= 1 /\ (s[a].text = "cut" => s[a].seen = 1)
             /\ s[a].text = "full" => (s[a].seen = 1 <=> \E b \in (a + 1)..l : s[b].role = "assistant")
  <2>1. CASE s[a] \in Remark
    BY <2>1, RemarksHave
  <2>2. CASE s[a] = ms[g[a]]
    <3> PICK i : i = g[a]
      OBVIOUS
    <3>1. i \in 1..n /\ s[a] = ms[i]
      BY <1>4, <2>2
    <3>2. /\ s[a].role = "assistant" => s[a].text = "remark"
          /\ s[a].seen <= 1 /\ (s[a].text = "cut" => s[a].seen = 1)
      BY <1>5, <3>1
    <3>3. ASSUME s[a].text = "full", s[a].seen = 1
          PROVE  \E b \in (a + 1)..l : s[b].role = "assistant"
      <4>1. PICK j \in (i + 1)..n : ms[j].role = "assistant"
        BY <1>5, <3>1, <3>3
      <4>2. j \in 1..n /\ i \in Int /\ j > i
        BY <1>4, <3>1
      <4>3. PICK b \in 1..l : g[b] = j /\ s[b] = ms[j]
        BY <1>3, <4>2
      <4>4. ~(b <= a)
        BY <1>3, <4>2, <4>3
      <4>5. b \in (a + 1)..l
        BY <1>4, <4>4
      <4> QED BY <4>1, <4>3, <4>5
    <3>4. ASSUME s[a].text = "full", NEW b \in (a + 1)..l, s[b].role = "assistant"
          PROVE  s[a].seen = 1
      <4>1. b \in 1..l /\ a <= b
        BY <1>4
      <4>2. s[b] \notin Remark
        BY <3>4, RemarksHave
      <4> PICK j : j = g[b]
        OBVIOUS
      <4>3. s[b] = ms[j] /\ j \in 1..n /\ i <= j
        BY <1>3, <1>4, <4>1, <4>2
      <4>4. i # j
        BY <1>5, <3>1, <3>4, <4>3
      <4>5. j \in (i + 1)..n
        BY <1>4, <3>1, <4>3, <4>4
      <4> QED BY <1>5, <3>1, <3>4, <4>3, <4>5
    <3> QED BY <3>2, <3>3, <3>4
  <2> QED BY <1>3, <2>1, <2>2
<1> QED BY <1>1, <1>6 DEF Good

\* t is what is left of ms when its first d messages are cut off.
CutOf(t, ms) ==
  \E d \in 0..Len(ms) : Len(t) = Len(ms) - d /\ \A i \in 1..(Len(ms) - d) : t[i] = ms[i + d]

LEMMA RestIs ==
  ASSUME NEW ms \in Seq(Msg), NEW lo \in Nat, lo >= 1
  PROVE  /\ SubSeq(ms, lo, Len(ms)) \in Seq(Msg) /\ CutOf(SubSeq(ms, lo, Len(ms)), ms)
         /\ \E d \in 0..Len(ms) :
              /\ Len(SubSeq(ms, lo, Len(ms))) = Len(ms) - d
              /\ \A i \in 1..(Len(ms) - d) : SubSeq(ms, lo, Len(ms))[i] = ms[i + d]
<1> PICK n, s : n = Len(ms) /\ s = SubSeq(ms, lo, n)
  OBVIOUS
<1>1. n \in Nat /\ \A i \in 1..n : ms[i] \in Msg
  BY MessagesAre
<1> PICK d : d = IF lo <= n THEN lo - 1 ELSE n
  OBVIOUS
<1>2. d \in 0..n /\ n - d \in Nat /\ \A i \in 1..(n - d) : i + d \in 1..n /\ i + d = (i + lo) - 1
  BY <1>1
<1>3. s = [i \in 1..(n - d) |-> ms[i + d]]
  <2>1. s = [i \in 1..((n - lo) + 1) |-> ms[(i + lo) - 1]]
    BY <1>1
  <2>2. 1..((n - lo) + 1) = 1..(n - d)
    BY <1>1
  <2>3. s = [i \in 1..(n - d) |-> ms[(i + lo) - 1]]
    BY <2>1, <2>2
  <2> QED BY <1>2, <2>3
<1> HIDE DEF Msg
<1>4. s \in Seq(Msg) /\ Len(s) = n - d
  <2>1. s \in [1..(n - d) -> Msg]
    BY <1>1, <1>2, <1>3
  <2> QED BY <1>2, <2>1, ListOf
<1>5. \A i \in 1..(n - d) : s[i] = ms[i + d]
  BY <1>3
<1> QED BY <1>2, <1>4, <1>5 DEF CutOf

LEMMA RestGood ==
  ASSUME NEW ms \in Seq(Msg), Good(ms), NEW lo \in Nat, lo >= 1
  PROVE  SubSeq(ms, lo, Len(ms)) \in Seq(Msg) /\ Good(SubSeq(ms, lo, Len(ms)))
<1> PICK n, s : n = Len(ms) /\ s = SubSeq(ms, lo, n)
  OBVIOUS
<1>1. n \in Nat
  BY MessagesAre
<1>2. PICK d \in 0..n : Len(s) = n - d /\ \A i \in 1..(n - d) : s[i] = ms[i + d]
  BY RestIs
<1> PICK l : l = n - d
  OBVIOUS
<1>3. l \in Nat /\ Len(s) = l /\ \A i \in 1..l : i + d \in 1..n /\ s[i] = ms[i + d]
  BY <1>1, <1>2
<1>4. s \in Seq(Msg)
  BY RestIs
<1>5. \A i \in 1..n :
    /\ ms[i].role = "assistant" => ms[i].text = "remark"
    /\ ms[i].seen <= 1 /\ (ms[i].text = "cut" => ms[i].seen = 1)
    /\ ms[i].text = "full" => (ms[i].seen = 1 <=> \E j \in (i + 1)..n : ms[j].role = "assistant")
  BY DEF Good
<1>6. ASSUME NEW a \in 1..l
      PROVE  /\ s[a].role = "assistant" => s[a].text = "remark"
             /\ s[a].seen <= 1 /\ (s[a].text = "cut" => s[a].seen = 1)
             /\ s[a].text = "full" => (s[a].seen = 1 <=> \E b \in (a + 1)..l : s[b].role = "assistant")
  <2> PICK i : i = a + d
    OBVIOUS
  <2>1. i \in 1..n /\ s[a] = ms[i]
    BY <1>3
  <2>2. (\E b \in (a + 1)..l : s[b].role = "assistant") <=> \E j \in (i + 1)..n : ms[j].role = "assistant"
    <3>1. ASSUME NEW b \in (a + 1)..l, s[b].role = "assistant"
          PROVE  \E j \in (i + 1)..n : ms[j].role = "assistant"
      <4>1. b \in 1..l /\ b + d \in (i + 1)..n
        BY <1>1, <1>3
      <4> QED BY <1>3, <3>1, <4>1
    <3>2. ASSUME NEW j \in (i + 1)..n, ms[j].role = "assistant"
          PROVE  \E b \in (a + 1)..l : s[b].role = "assistant"
      <4> PICK b : b = j - d
        OBVIOUS
      <4>1. b \in (a + 1)..l /\ b \in 1..l /\ b + d = j
        BY <1>1, <1>2, <1>3, <2>1
      <4> QED BY <1>3, <3>2, <4>1
    <3> QED BY <3>1, <3>2
  <2> QED BY <1>5, <2>1, <2>2
<1> QED BY <1>3, <1>4, <1>6 DEF Good

LEMMA CompactedGood ==
  ASSUME NEW ms \in Seq(Msg), Good(ms), NEW keep \in Nat, start \in Nat
  PROVE  Compacted(ms, keep) \in Seq(Msg) /\ Good(Compacted(ms, keep))
<1> PICK s : s = SubSeq(ms, start + 1, Len(ms))
  OBVIOUS
<1>1. s \in Seq(Msg) /\ Good(s) /\ Len(s) \in Nat
  <2>1. start + 1 \in Nat /\ start + 1 >= 1
    OBVIOUS
  <2>2. s \in Seq(Msg) /\ Good(s)
    BY <2>1, RestGood
  <2> QED BY <2>2, MessagesAre
<1>2. LastOf(s, keep) \in Seq(Msg) /\ Good(LastOf(s, keep))
  <2>1. CASE Len(s) > keep /\ keep > 0
    <3>1. LastOf(s, keep) = SubSeq(s, Len(s) - keep + 1, Len(s))
      BY <2>1 DEF LastOf
    <3>2. Len(s) - keep + 1 \in Nat /\ Len(s) - keep + 1 >= 1
      BY <1>1, <2>1
    <3> QED BY <1>1, <3>1, <3>2, RestGood
  <2>2. CASE ~(Len(s) > keep /\ keep > 0)
    BY <1>1, <2>2 DEF LastOf
  <2> QED BY <2>1, <2>2
<1> QED BY <1>2, RepairedGood DEF Compacted

LEMMA AppendGood ==
  ASSUME NEW ms \in Seq(Msg), Good(ms), NEW m \in Msg,
         m.role # "assistant", m.text \in {"remark", "full"}, m.seen = 0
  PROVE  Append(ms, m) \in Seq(Msg) /\ Good(Append(ms, m))
<1> PICK n, s : n = Len(ms) /\ s = Append(ms, m)
  OBVIOUS
<1>1. n \in Nat
  BY MessagesAre
<1>2. s \in Seq(Msg) /\ Len(s) = n + 1 /\ s[n + 1] = m /\ \A i \in 1..n : s[i] = ms[i]
  BY <1>1, AppendProperties
<1>3. \A i \in 1..n :
    /\ ms[i].role = "assistant" => ms[i].text = "remark"
    /\ ms[i].seen <= 1 /\ (ms[i].text = "cut" => ms[i].seen = 1)
    /\ ms[i].text = "full" => (ms[i].seen = 1 <=> \E j \in (i + 1)..n : ms[j].role = "assistant")
  BY DEF Good
<1> HIDE DEF Msg
<1>4. ASSUME NEW i \in 1..(n + 1)
      PROVE  /\ s[i].role = "assistant" => s[i].text = "remark"
             /\ s[i].seen <= 1 /\ (s[i].text = "cut" => s[i].seen = 1)
             /\ s[i].text = "full" => (s[i].seen = 1 <=> \E j \in (i + 1)..(n + 1) : s[j].role = "assistant")
  <2>1. CASE i = n + 1
    <3>1. (i + 1)..(n + 1) = {}
      BY <1>1, <2>1
    <3> QED BY <1>2, <2>1, <3>1
  <2>2. CASE i # n + 1
    <3>1. i \in 1..n /\ s[i] = ms[i]
      BY <1>1, <1>2, <2>2
    <3>2. (\E j \in (i + 1)..(n + 1) : s[j].role = "assistant") <=> \E j \in (i + 1)..n : ms[j].role = "assistant"
      <4>1. \A j \in (i + 1)..(n + 1) : j = n + 1 \/ (j \in (i + 1)..n /\ j \in 1..n)
        BY <1>1
      <4>2. \A j \in (i + 1)..n : j \in (i + 1)..(n + 1) /\ j \in 1..n
        BY <1>1
      <4> QED BY <1>2, <4>1, <4>2
    <3> QED BY <1>3, <3>1, <3>2
  <2> QED BY <2>1, <2>2
<1> QED BY <1>2, <1>4 DEF Good

LEMMA ConcatGood ==
  ASSUME NEW ms \in Seq(Msg), Good(ms), NEW r \in Seq(Remark)
  PROVE  ms \o r \in Seq(Msg) /\ Good(ms \o r)
<1> PICK n, l, s : n = Len(ms) /\ l = Len(r) /\ s = ms \o r
  OBVIOUS
<1>1. n \in Nat
  BY MessagesAre
<1>2. l \in Nat /\ r \in Seq(Msg) /\ \A i \in 1..l : r[i] \in Remark
  <2>1. l \in Nat /\ r \in [1..l -> Remark]
    BY LenProperties
  <2>2. Remark \in SUBSET Msg
    BY DEF Remark
  <2> HIDE DEF Remark, Msg
  <2>3. r \in [1..l -> Msg]
    BY <2>1, <2>2
  <2>4. r \in Seq(Msg)
    BY <2>1, <2>3, SeqDef
  <2>5. \A i \in 1..l : r[i] \in Remark
    BY <2>1
  <2> QED BY <2>1, <2>4, <2>5
<1> HIDE DEF Remark, Msg
<1>3. s \in Seq(Msg) /\ Len(s) = n + l /\ \A i \in 1..(n + l) : s[i] = IF i <= n THEN ms[i] ELSE r[i - n]
  BY <1>2, ConcatProperties
<1>4. \A i \in 1..n : i \in 1..(n + l) /\ s[i] = ms[i]
  BY <1>1, <1>2, <1>3
<1>5. ASSUME NEW i \in 1..(n + l), i \notin 1..n PROVE s[i] \in Remark
  <2>1. ~(i <= n) /\ i - n \in 1..l
    BY <1>1, <1>2, <1>5
  <2> QED BY <1>2, <1>3, <2>1
<1>6. \A i \in 1..n :
    /\ ms[i].role = "assistant" => ms[i].text = "remark"
    /\ ms[i].seen <= 1 /\ (ms[i].text = "cut" => ms[i].seen = 1)
    /\ ms[i].text = "full" => (ms[i].seen = 1 <=> \E j \in (i + 1)..n : ms[j].role = "assistant")
  BY DEF Good
<1>7. ASSUME NEW i \in 1..(n + l)
      PROVE  /\ s[i].role = "assistant" => s[i].text = "remark"
             /\ s[i].seen <= 1 /\ (s[i].text = "cut" => s[i].seen = 1)
             /\ s[i].text = "full" => (s[i].seen = 1 <=> \E j \in (i + 1)..(n + l) : s[j].role = "assistant")
  <2>1. CASE i \notin 1..n
    BY <1>5, <2>1, RemarksHave
  <2>2. CASE i \in 1..n
    <3>1. (\E j \in (i + 1)..(n + l) : s[j].role = "assistant") <=> \E j \in (i + 1)..n : ms[j].role = "assistant"
      <4>1. ASSUME NEW j \in (i + 1)..(n + l), s[j].role = "assistant" PROVE j \in (i + 1)..n /\ j \in 1..n
        <5>1. j \in 1..(n + l)
          BY <1>1, <1>2
        <5>2. j \in 1..n
          BY <1>5, <4>1, <5>1, RemarksHave
        <5> QED BY <1>1, <5>2
      <4>2. \A j \in (i + 1)..n : j \in (i + 1)..(n + l) /\ j \in 1..n
        BY <1>1, <1>2
      <4> QED BY <1>4, <4>1, <4>2
    <3> QED BY <1>4, <1>6, <2>2, <3>1
  <2> QED BY <2>1, <2>2
<1> QED BY <1>3, <1>7 DEF Good

LEMMA LastAnswerIs ==
  ASSUME NEW ms \in Seq(Msg)
  PROVE  /\ LastAnswer(ms) \in 0..Len(ms)
         /\ LastAnswer(ms) # 0 => ms[LastAnswer(ms)].role = "assistant"
         /\ \A i \in 1..Len(ms) : ms[i].role = "assistant" => i <= LastAnswer(ms)
<1> PICK n : n = Len(ms)
  OBVIOUS
<1>1. n \in Nat
  BY MessagesAre
<1> DEFINE said == {i \in 1..n : ms[i].role = "assistant"}
<1>2. LastAnswer(ms) = IF said # {} THEN Max(said) ELSE 0
  BY DEF LastAnswer, SelectLastInSeq
<1>3. CASE said = {}
  BY <1>1, <1>2, <1>3
<1>4. CASE said # {}
  <2> DEFINE back == {n - i : i \in said}
  <2>1. back \in SUBSET Nat /\ back # {}
    BY <1>1, <1>4
  <2>2. \E p \in back : \A q \in back : p <= q
    <3> HIDE DEF back
    <3> QED BY <2>1, Least
  <2>3. PICK last \in said : \A q \in back : n - last <= q
    BY <2>2
  <2>4. \A i \in said : last >= i
    <3> TAKE i \in said
    <3>1. n - last <= n - i
      BY <2>3
    <3> QED BY <1>1, <3>1
  <2>5. Max(said) \in said /\ \A i \in said : Max(said) >= i
    BY <2>4 DEF Max
  <2> QED BY <1>1, <1>2, <1>4, <2>5
<1> QED BY <1>3, <1>4

LEMMA ExpiredGood ==
  ASSUME NEW ms \in Seq(Msg), Good(ms)
  PROVE  Expired(ms) \in Seq(Msg) /\ Good(Expired(ms)) /\ Fresh(Expired(ms))
<1> PICK n, s, last : n = Len(ms) /\ s = Expired(ms) /\ last = LastAnswer(ms)
  OBVIOUS
<1>1. /\ n \in Nat /\ DOMAIN ms = 1..n
      /\ \A i \in 1..n : ms[i] \in Msg /\ ms[i].seen \in Nat /\ ms[i].text \in Texts
  BY MessagesAre
<1>2. /\ last \in 0..n /\ (last # 0 => ms[last].role = "assistant")
      /\ \A i \in 1..n : ms[i].role = "assistant" => i <= last
  BY LastAnswerIs
<1>3. s = [i \in 1..n |-> IF i < last /\ ms[i].text = "full" THEN [ms[i] EXCEPT !.text = "cut"] ELSE ms[i]]
  BY <1>1 DEF Expired
<1>4. \A i \in 1..n : s[i] = IF i < last /\ ms[i].text = "full" THEN [ms[i] EXCEPT !.text = "cut"] ELSE ms[i]
  BY <1>3
<1>5. \A i \in 1..n :
        /\ s[i] \in Msg /\ s[i].role = ms[i].role /\ s[i].seen = ms[i].seen
        /\ s[i].text = IF i < last /\ ms[i].text = "full" THEN "cut" ELSE ms[i].text
  BY <1>1, <1>4 DEF Msg, Texts
<1>6. s \in Seq(Msg) /\ Len(s) = n
  <2> HIDE DEF Msg
  <2>1. s \in [1..n -> Msg]
    BY <1>3, <1>5
  <2>2. s \in Seq(Msg)
    BY <1>1, <2>1, SeqDef
  <2> QED BY <1>1, <2>1, <2>2, LenProperties
<1>7. \A i \in 1..n :
    /\ ms[i].role = "assistant" => ms[i].text = "remark"
    /\ ms[i].seen <= 1 /\ (ms[i].text = "cut" => ms[i].seen = 1)
    /\ ms[i].text = "full" => (ms[i].seen = 1 <=> \E j \in (i + 1)..n : ms[j].role = "assistant")
  BY DEF Good
<1>8. ASSUME NEW i \in 1..n, s[i].text = "full"
      PROVE  /\ ~ \E j \in (i + 1)..n : s[j].role = "assistant"
             /\ s[i].seen # 1
  <2>1. ms[i].text = "full" /\ ~(i < last)
    BY <1>5, <1>8
  <2>2. \A j \in (i + 1)..n : j \in 1..n /\ ~(j <= last)
    BY <1>1, <1>2, <2>1
  <2>3. ~ \E j \in (i + 1)..n : ms[j].role = "assistant"
    BY <1>2, <2>2
  <2> QED BY <1>5, <1>7, <2>1, <2>2, <2>3
<1>9. ASSUME NEW i \in 1..n, s[i].text = "cut" PROVE s[i].seen = 1
  <2>1. CASE ms[i].text = "cut"
    BY <1>5, <1>7, <2>1
  <2>2. CASE ms[i].text # "cut"
    <3>1. i < last /\ ms[i].text = "full"
      BY <1>5, <1>9, <2>2
    <3>2. last \in (i + 1)..n /\ ms[last].role = "assistant"
      BY <1>1, <1>2, <3>1
    <3> QED BY <1>5, <1>7, <3>1, <3>2
  <2> QED BY <2>1, <2>2
<1>10. \A i \in 1..n : (s[i].role = "assistant" => s[i].text = "remark") /\ s[i].seen <= 1
  BY <1>5, <1>7
<1>11. Fresh(s)
  BY <1>6, <1>8 DEF Fresh
<1>12. Good(s)
  <2> SUFFICES ASSUME NEW i \in 1..n
               PROVE  /\ s[i].role = "assistant" => s[i].text = "remark"
                      /\ s[i].seen <= 1 /\ (s[i].text = "cut" => s[i].seen = 1)
                      /\ s[i].text = "full" => (s[i].seen = 1 <=> \E j \in (i + 1)..n : s[j].role = "assistant")
    BY <1>6 DEF Good
  <2> QED BY <1>8, <1>9, <1>10
<1> QED BY <1>6, <1>11, <1>12

LEMMA AnsweredGood ==
  ASSUME NEW ms \in Seq(Msg), Good(ms), Fresh(ms), NEW ids \in Seq(Int)
  PROVE  Append(Seen(ms), Asking(ids)) \in Seq(Msg) /\ Good(Append(Seen(ms), Asking(ids)))
<1> PICK n, z, s, m : n = Len(ms) /\ z = Seen(ms) /\ m = Asking(ids) /\ s = Append(z, m)
  OBVIOUS
<1>1. /\ n \in Nat /\ DOMAIN ms = 1..n
      /\ \A i \in 1..n : ms[i] \in Msg /\ ms[i].seen \in Nat /\ ms[i].text \in Texts
  BY MessagesAre
<1>2. z = [i \in 1..n |-> IF ms[i].text = "full" THEN [ms[i] EXCEPT !.seen = @ + 1] ELSE ms[i]]
  BY <1>1 DEF Seen
<1>3. \A i \in 1..n : z[i] = IF ms[i].text = "full" THEN [ms[i] EXCEPT !.seen = @ + 1] ELSE ms[i]
  BY <1>2
<1>4. \A i \in 1..n :
        /\ z[i] \in Msg /\ z[i].role = ms[i].role /\ z[i].text = ms[i].text
        /\ z[i].seen = IF ms[i].text = "full" THEN ms[i].seen + 1 ELSE ms[i].seen
  <2> TAKE i \in 1..n
  <2> PICK k : k = ms[i].seen + 1
    OBVIOUS
  <2>1. CASE ms[i].text = "full"
    <3>1. z[i] = [ms[i] EXCEPT !.seen = k] /\ k \in Nat /\ ms[i] \in Msg
      BY <1>1, <1>3, <2>1
    <3> QED BY <2>1, <3>1 DEF Msg
  <2>2. CASE ms[i].text # "full"
    BY <1>1, <1>3, <2>2
  <2> QED BY <2>1, <2>2
<1>5. z \in Seq(Msg) /\ Len(z) = n
  <2> HIDE DEF Msg
  <2>1. z \in [1..n -> Msg]
    BY <1>2, <1>4
  <2>2. z \in Seq(Msg)
    <3>1. n \in Nat
      BY <1>1
    <3>2. z \in UNION {[1..k -> Msg] : k \in Nat}
      BY <2>1, <3>1
    <3> QED BY <3>2, SeqDef
  <2> QED BY <1>1, <2>1, <2>2, LenProperties
<1>6. m \in Msg /\ m.role = "assistant" /\ m.text = "remark" /\ m.seen = 0
  <2>1. Plain("assistant") = [role |-> "assistant", calls |-> <<>>, answers |-> 0, text |-> "remark", seen |-> 0]
    BY DEF Plain
  <2>2. m = [role |-> "assistant", calls |-> ids, answers |-> 0, text |-> "remark", seen |-> 0]
    <3>1. m = [Plain("assistant") EXCEPT !.calls = ids]
      BY DEF Asking
    <3> QED BY <2>1, <3>1
  <2> QED BY <2>2 DEF Msg, Texts
<1>7. s \in Seq(Msg) /\ Len(s) = n + 1 /\ s[n + 1] = m /\ \A i \in 1..n : s[i] = z[i]
  BY <1>1, <1>5, <1>6, AppendProperties
<1>8. \A i \in 1..n :
    /\ ms[i].role = "assistant" => ms[i].text = "remark"
    /\ ms[i].seen <= 1 /\ (ms[i].text = "cut" => ms[i].seen = 1)
    /\ ms[i].text = "full" => ms[i].seen # 1
  BY DEF Good, Fresh
<1>9. ASSUME NEW i \in 1..(n + 1)
      PROVE  /\ s[i].role = "assistant" => s[i].text = "remark"
             /\ s[i].seen <= 1 /\ (s[i].text = "cut" => s[i].seen = 1)
             /\ s[i].text = "full" => (s[i].seen = 1 <=> \E j \in (i + 1)..(n + 1) : s[j].role = "assistant")
  <2>1. CASE i = n + 1
    BY <1>6, <1>7, <2>1
  <2>2. CASE i # n + 1
    <3>1. i \in 1..n /\ s[i] = z[i] /\ n + 1 \in (i + 1)..(n + 1)
      BY <1>1, <1>7, <2>2
    <3>2. \E j \in (i + 1)..(n + 1) : s[j].role = "assistant"
      BY <1>6, <1>7, <3>1
    <3>3. ms[i].seen = 0 \/ ms[i].text # "full"
      BY <1>1, <1>8, <3>1
    <3>4. /\ s[i].role = ms[i].role /\ s[i].text = ms[i].text
          /\ s[i].seen = IF ms[i].text = "full" THEN ms[i].seen + 1 ELSE ms[i].seen
      BY <1>4, <3>1
    <3>5. ms[i].text = "full" => ms[i].seen = 0 /\ s[i].seen = 1
      BY <3>3, <3>4
    <3>6. ms[i].text # "full" => s[i].seen = ms[i].seen
      BY <3>4
    <3>7. (ms[i].role = "assistant" => ms[i].text = "remark") /\ ms[i].seen <= 1 /\ (ms[i].text = "cut" => ms[i].seen = 1)
      BY <1>8, <3>1
    <3>8. CASE ms[i].text = "full"
      <4>1. s[i].role # "assistant" /\ s[i].seen = 1 /\ s[i].text = "full"
        BY <3>4, <3>5, <3>7, <3>8
      <4>2. /\ s[i].role = "assistant" => s[i].text = "remark"
            /\ s[i].text = "cut" => s[i].seen = 1
        BY <4>1
      <4>3. s[i].seen <= 1
        BY <4>1
      <4> QED BY <3>2, <4>1, <4>2, <4>3
    <3>9. CASE ms[i].text # "full"
      BY <3>4, <3>6, <3>7, <3>9
    <3> QED BY <3>8, <3>9
  <2> QED BY <2>1, <2>2
<1>10. Good(s)
  <2> HIDE DEF Msg
  <2>1. Len(s) = n + 1
    BY <1>7
  <2>2. SUFFICES ASSUME NEW i \in 1..Len(s)
               PROVE  /\ s[i].role = "assistant" => s[i].text = "remark"
                      /\ s[i].seen <= 1 /\ (s[i].text = "cut" => s[i].seen = 1)
                      /\ s[i].text = "full" => (s[i].seen = 1 <=> \E j \in (i + 1)..Len(s) : s[j].role = "assistant")
    BY DEF Good
  <2>3. i \in 1..(n + 1) /\ (i + 1)..Len(s) = (i + 1)..(n + 1)
    BY <2>1, <2>2
  <2> QED BY <1>9, <2>3
<1> QED BY <1>7, <1>10

LEMMA NamedAre ==
  ASSUME NEW calls \in Seq(Asked), NEW names
  PROVE  /\ Named(calls, names) \in Seq(Asked)
         /\ \A a \in 1..Len(Named(calls, names)) :
              \E i \in 1..Len(calls) : Named(calls, names)[a] = calls[i] /\ calls[i].name \in names
         /\ \A i \in 1..Len(calls) : calls[i].name \in names =>
              \E a \in 1..Len(Named(calls, names)) : Named(calls, names)[a] = calls[i]
<1> PICK n, s : n = Len(calls) /\ s = Named(calls, names)
  OBVIOUS
<1> DEFINE K == {i \in 1..n : calls[i].name \in names}
<1> HIDE DEF Asked
<1>1. DOMAIN calls = 1..n /\ n \in Nat
  BY LenProperties
<1>2. s = FlattenSeq(PiecesOf(calls, K))
  <2>1. [i \in 1..n |-> IF calls[i].name \in names THEN <<calls[i]>> ELSE <<>>] = PiecesOf(calls, K)
    <3>1. \A i \in 1..n : calls[i].name \in names <=> i \in K
      OBVIOUS
    <3> HIDE DEF K
    <3> QED BY <3>1 DEF PiecesOf
  <2> QED BY <1>1, <2>1 DEF Named
<1>3. s \in Seq(Asked) /\ \E g : Picks(g, s, calls, K, n)
  <2> HIDE DEF K
  <2> QED BY <1>2, PicksExist
<1>4. PICK g : Picks(g, s, calls, K, n)
  BY <1>3
<1>5. /\ g \in [1..Len(s) -> 1..n]
      /\ \A a \in 1..Len(s) : s[a] = calls[g[a]] /\ g[a] \in K
      /\ \A i \in 1..n : i \in K => \E a \in 1..Len(s) : g[a] = i
  BY <1>4 DEF Picks
<1>6. \A a \in 1..Len(s) : \E i \in 1..n : s[a] = calls[i] /\ calls[i].name \in names
  <2> TAKE a \in 1..Len(s)
  <2>1. g[a] \in 1..n /\ s[a] = calls[g[a]] /\ calls[g[a]].name \in names
    BY <1>5
  <2> QED BY <2>1
<1>7. \A i \in 1..n : calls[i].name \in names => \E a \in 1..Len(s) : s[a] = calls[i]
  <2> SUFFICES ASSUME NEW i \in 1..n, calls[i].name \in names PROVE \E a \in 1..Len(s) : s[a] = calls[i]
    OBVIOUS
  <2>1. i \in K
    OBVIOUS
  <2>2. PICK a \in 1..Len(s) : g[a] = i
    BY <1>5, <2>1
  <2> QED BY <1>5, <2>2
<1> HIDE DEF K
<1>8. s \in Seq(Asked)
  BY <1>3
<1> QED BY <1>6, <1>7, <1>8

LEMMA TalkStarts == Init => TalkInv
<1> SUFFICES ASSUME Init PROVE TalkInv
  OBVIOUS
<1> PICK n : n = PastLength
  OBVIOUS
<1> PICK past : past = [i \in 1..n |-> Plain(IF i % 2 = 1 THEN "user" ELSE "assistant")]
  OBVIOUS
<1>1. n \in Nat
  BY ConversationAssumption DEF ConversationAssumption
<1>2. messages = past \o <<Plain("user")>> /\ start = n /\ pc = "top" /\ batch = <<>> /\ issued = 0
  BY DEF Init
<1> HIDE DEF Init
<1>3. \A i \in 1..n : past[i] \in Msg /\ past[i].text = "remark" /\ past[i].seen = 0
  <2> TAKE i \in 1..n
  <2> PICK role : role = IF i % 2 = 1 THEN "user" ELSE "assistant"
    OBVIOUS
  <2>1. past[i] = Plain(role) /\ role \in {"user", "assistant", "tool"}
    OBVIOUS
  <2> QED BY <2>1, PlainIs
<1>4. past \in Seq(Msg) /\ Len(past) = n
  <2> HIDE DEF Msg
  <2>1. past \in [1..n -> Msg]
    BY <1>3
  <2>2. past \in Seq(Msg)
    BY <1>1, <2>1, SeqDef
  <2> QED BY <1>1, <2>1, <2>2, LenProperties
<1>5. Good(past)
  <2> HIDE DEF Msg
  <2>1. \A i \in 1..Len(past) : past[i].text = "remark" /\ past[i].seen = 0
    BY <1>3, <1>4
  <2> SUFFICES ASSUME NEW i \in 1..Len(past)
               PROVE  /\ past[i].text # "cut" /\ past[i].text # "full" /\ past[i].text = "remark"
                      /\ past[i].seen <= 1
    BY DEF Good
  <2>2. past[i].text = "remark" /\ past[i].seen = 0
    BY <2>1
  <2> PICK m : m = past[i]
    OBVIOUS
  <2>3. m.seen <= 1 /\ m.text # "cut" /\ m.text # "full"
    BY <2>2
  <2> QED BY <2>2, <2>3
<1>6. <<Plain("user")>> \in Seq(Remark)
  <2>1. Plain("user") \in Remark
    BY PlainIs
  <2> QED BY <2>1
<1>7. messages \in Seq(Msg) /\ Good(messages)
  BY <1>2, <1>4, <1>5, <1>6, ConcatGood
<1>8. batch \in Seq(Asked)
  BY <1>2, EmptySeq
<1> QED BY <1>1, <1>2, <1>7, <1>8 DEF TalkInv

LEMMA IterateKeeps ==
  ASSUME TalkInv, Iterate
  PROVE  TalkInv'
<1>1. UNCHANGED <<start, issued>>
  BY DEF Iterate
<1>2. Injected /\ pc = "top"
  BY DEF Iterate
<1> PICK newer : newer = IF Looks /\ unread THEN <<Plain("user")>> ELSE <<>>
  OBVIOUS
<1>3. PICK pressure \in BOOLEAN :
        LET hint == IF pressure /\ ~injected THEN <<Plain("user")>> ELSE <<>> IN
        \/ messages' = messages \o newer \o hint /\ pc' = "paused" /\ UNCHANGED <<batch, reason>>
        \/ messages' = Expired(messages \o newer \o hint) /\ pc' = "call" /\ UNCHANGED <<batch, reason>>
        \/ messages' = messages \o newer \o hint /\ End("budget_exhausted")
  BY <1>2 DEF Injected
<1> PICK hint : hint = IF pressure /\ ~injected THEN <<Plain("user")>> ELSE <<>>
  OBVIOUS
<1> PICK ms : ms = messages \o newer \o hint
  OBVIOUS
<1>4. \/ messages' = ms /\ pc' = "paused" /\ batch' = batch
      \/ messages' = Expired(ms) /\ pc' = "call" /\ batch' = batch
      \/ messages' = ms /\ pc' = "ended" /\ batch' = <<>>
  BY <1>3 DEF End
<1>5. newer \in Seq(Remark) /\ hint \in Seq(Remark)
  <2>1. Plain("user") \in Remark
    BY PlainIs
  <2> HIDE DEF Remark
  <2>2. <<Plain("user")>> \in Seq(Remark) /\ <<>> \in Seq(Remark)
    BY <2>1, EmptySeq
  <2> QED BY <2>2
<1>6. messages \in Seq(Msg) /\ Good(messages) /\ batch \in Seq(Asked) /\ start \in Nat /\ issued \in Nat
  BY DEF TalkInv
<1>7. ms \in Seq(Msg) /\ Good(ms)
  <2>1. messages \o newer \in Seq(Msg) /\ Good(messages \o newer)
    BY <1>5, <1>6, ConcatGood
  <2> QED BY <1>5, <2>1, ConcatGood
<1>8. messages' \in Seq(Msg) /\ Good(messages') /\ (pc' = "call" => Fresh(messages'))
  BY <1>4, <1>7, ExpiredGood
<1>9. batch' \in Seq(Asked) /\ pc' # "tools"
  BY <1>4, <1>6, EmptySeq
<1> QED BY <1>1, <1>6, <1>8, <1>9 DEF TalkInv, Good, Fresh

LEMMA EndKeeps ==
  ASSUME TalkInv, Exhausted \/ Interrupted \/ CallFails
  PROVE  TalkInv'
<1>1. UNCHANGED <<messages, start, issued>> /\ pc' = "ended" /\ batch' = <<>>
  BY DEF Exhausted, Interrupted, CallFails, End
<1>2. messages \in Seq(Msg) /\ Good(messages) /\ start \in Nat /\ issued \in Nat
  BY DEF TalkInv
<1>3. batch' \in Seq(Asked)
  BY <1>1, EmptySeq
<1>4. Good(messages)'
  BY <1>1, <1>2 DEF Good
<1> QED BY <1>1, <1>2, <1>3, <1>4 DEF TalkInv

LEMMA PauseEndsKeeps ==
  ASSUME TalkInv, PauseEnds
  PROVE  TalkInv'
<1>1. UNCHANGED <<start, issued>>
  BY DEF PauseEnds
<1>2. \/ messages' = Expired(messages) /\ pc' = "call" /\ batch' = batch
      \/ messages' = messages /\ pc' = "ended" /\ batch' = <<>>
  BY DEF PauseEnds, End
<1>3. messages \in Seq(Msg) /\ Good(messages) /\ batch \in Seq(Asked) /\ start \in Nat /\ issued \in Nat
  BY DEF TalkInv
<1>4. messages' \in Seq(Msg) /\ Good(messages') /\ (pc' = "call" => Fresh(messages'))
  BY <1>2, <1>3, ExpiredGood
<1>5. batch' \in Seq(Asked) /\ pc' # "tools"
  BY <1>2, <1>3, EmptySeq
<1> QED BY <1>1, <1>3, <1>4, <1>5 DEF TalkInv, Good, Fresh

LEMMA RespondKeeps ==
  ASSUME TalkInv, Respond
  PROVE  TalkInv'
<1>1. pc = "call" /\ UNCHANGED start
  BY DEF Respond
<1>2. PICK n, calls :
       /\ n \in 0..MaxCalls /\ calls \in [1..n -> [name : Names, keep : Keeps \cup {NoInt}]]
       /\ LET made == [i \in 1..n |-> [id |-> issued + i, name |-> calls[i].name, keep |-> calls[i].keep]]
              done == Named(made, {"thinking_done"})
              ends == Named(made, {"end"})
              left == Named(made, Names \ {"end", "thinking_done"})
              asked == Append(Seen(messages), Asking(IdsOf(made)))
              moved == IF Transition(made) THEN Append(asked, Result(done[1].id, "remark")) ELSE asked
              warned == IF left = <<>> THEN moved
                        ELSE moved \o [i \in DOMAIN ends |-> Result(ends[i].id, "remark")] IN
          /\ messages' = warned
          /\ issued' = issued + n
          /\ IF n = 0 \/ (left = <<>> /\ ends # <<>>) THEN End("normal_end")
             ELSE /\ pc' = IF left = <<>> THEN "top" ELSE "tools"
                  /\ batch' = left
                  /\ UNCHANGED reason
  BY DEF Respond
<1> PICK made : made = [i \in 1..n |-> [id |-> issued + i, name |-> calls[i].name, keep |-> calls[i].keep]]
  OBVIOUS
<1> PICK done, ends, left :
      /\ done = Named(made, {"thinking_done"}) /\ ends = Named(made, {"end"})
      /\ left = Named(made, Names \ {"end", "thinking_done"})
  OBVIOUS
<1> PICK asked : asked = Append(Seen(messages), Asking(IdsOf(made)))
  OBVIOUS
<1> PICK moved : moved = IF Transition(made) THEN Append(asked, Result(done[1].id, "remark")) ELSE asked
  OBVIOUS
<1> PICK warnings : warnings = [i \in DOMAIN ends |-> Result(ends[i].id, "remark")]
  OBVIOUS
<1>3. /\ messages' = IF left = <<>> THEN moved ELSE moved \o warnings
      /\ issued' = issued + n
      /\ \/ pc' = "ended" /\ batch' = <<>>
         \/ pc' = (IF left = <<>> THEN "top" ELSE "tools") /\ batch' = left
  BY <1>2 DEF End
<1>4. /\ messages \in Seq(Msg) /\ Good(messages) /\ Fresh(messages) /\ batch \in Seq(Asked)
      /\ start \in Nat /\ issued \in Nat /\ n \in Nat
  BY <1>1, <1>2, ConversationAssumption DEF TalkInv, ConversationAssumption
<1>5. made \in Seq(Asked) /\ DOMAIN made = 1..n /\ \A i \in 1..n : made[i].id \in Int
  <2>1. ASSUME NEW i \in 1..n
        PROVE  [id |-> issued + i, name |-> calls[i].name, keep |-> calls[i].keep] \in Asked
    <3>1. calls[i] \in [name : Names, keep : Keeps \cup {NoInt}] /\ issued + i \in Int
      BY <1>2, <1>4
    <3> QED BY <3>1 DEF Asked
  <2>2. made \in [1..n -> Asked]
    BY <2>1
  <2>3. \A i \in 1..n : made[i].id \in Int
    BY <1>4
  <2> HIDE DEF Asked
  <2>4. made \in Seq(Asked)
    BY <1>4, <2>2, SeqDef
  <2> QED BY <2>2, <2>3, <2>4
<1>6. IdsOf(made) \in Seq(Int)
  <2>1. IdsOf(made) \in [1..n -> Int]
    BY <1>5 DEF IdsOf
  <2> QED BY <1>4, <2>1, ListOf
<1>7. done \in Seq(Asked) /\ ends \in Seq(Asked) /\ left \in Seq(Asked)
  BY <1>5, NamedAre
<1>8. asked \in Seq(Msg) /\ Good(asked)
  BY <1>4, <1>6, AnsweredGood
<1>9. moved \in Seq(Msg) /\ Good(moved)
  <2>1. CASE Transition(made)
    <3>1. done # <<>>
      BY <2>1 DEF Transition
    <3>2. done[1] \in Asked
      <4> HIDE DEF Asked
      <4>1. 1 \in 1..Len(done)
        BY <1>7, <3>1, EmptySeq, LenProperties
      <4> QED BY <1>7, <4>1, LenProperties
    <3>3. done[1].id \in Int
      BY <3>2 DEF Asked
    <3>4. /\ Result(done[1].id, "remark") \in Msg /\ Result(done[1].id, "remark").role # "assistant"
          /\ Result(done[1].id, "remark").text = "remark" /\ Result(done[1].id, "remark").seen = 0
      BY <3>3, ResultIs
    <3> QED BY <1>8, <2>1, <3>4, AppendGood
  <2>2. CASE ~Transition(made)
    BY <1>8, <2>2
  <2> QED BY <2>1, <2>2
<1>10. warnings \in Seq(Remark)
  <2> PICK l : l = Len(ends)
    OBVIOUS
  <2>1. l \in Nat /\ DOMAIN ends = 1..l /\ \A i \in 1..l : ends[i] \in Asked
    <3> HIDE DEF Asked
    <3>1. ends \in Seq(Asked)
      BY <1>7
    <3>2. ends \in [1..Len(ends) -> Asked] /\ Len(ends) \in Nat
      BY <3>1, LenProperties
    <3> QED BY <3>2
  <2>2. \A i \in 1..l : ends[i].id \in Int
    BY <2>1 DEF Asked
  <2>3. \A i \in 1..l : Result(ends[i].id, "remark") \in Remark
    BY <2>2, ResultIs
  <2> HIDE DEF Remark
  <2>4. warnings \in [1..l -> Remark]
    BY <2>1, <2>3
  <2> QED BY <2>1, <2>4, ListOf
<1>11. messages' \in Seq(Msg) /\ Good(messages')
  <2>1. moved \o warnings \in Seq(Msg) /\ Good(moved \o warnings)
    BY <1>9, <1>10, ConcatGood
  <2> QED BY <1>3, <1>9, <2>1
<1>12. batch' \in Seq(Asked) /\ (pc' = "tools" => batch' # <<>>) /\ pc' # "call"
  BY <1>3, <1>7, EmptySeq
<1>13. issued' \in Nat /\ start' \in Nat
  BY <1>1, <1>3, <1>4
<1> QED BY <1>11, <1>12, <1>13 DEF TalkInv, Good

LEMMA ToolKeeps ==
  ASSUME TalkInv, RunTool \/ CompactCrashes
  PROVE  TalkInv'
<1> PICK c : c = Head(batch)
  OBVIOUS
<1> PICK answered : answered = Append(messages, Result(c.id, "full"))
  OBVIOUS
<1>1. /\ pc = "tools" /\ UNCHANGED issued
      /\ \/ messages' = answered /\ start' = start
         \/ c.name = "compact" /\ c.keep # NoInt /\ messages' = Compacted(answered, c.keep) /\ start' = 0
      /\ \/ pc' = "ended" /\ batch' = <<>>
         \/ pc' = (IF Tail(batch) = <<>> THEN "top" ELSE "tools") /\ batch' = Tail(batch)
  BY DEF RunTool, CompactCrashes, End
<1>2. /\ messages \in Seq(Msg) /\ Good(messages) /\ batch \in Seq(Asked) /\ batch # <<>>
      /\ start \in Nat /\ issued \in Nat
  BY <1>1 DEF TalkInv
<1>3. c \in Asked /\ Tail(batch) \in Seq(Asked)
  BY <1>2, HeadTailProperties
<1>4. c.id \in Int /\ c.keep \in Keeps \cup {NoInt}
  BY <1>3 DEF Asked
<1>5. answered \in Seq(Msg) /\ Good(answered)
  <2> PICK m : m = Result(c.id, "full")
    OBVIOUS
  <2>1. m \in Msg /\ m.role # "assistant" /\ m.text = "full" /\ m.seen = 0
    BY <1>4, ResultIs
  <2> QED BY <1>2, <2>1, AppendGood
<1>6. c.keep # NoInt => c.keep \in Nat
  BY <1>4, ConversationAssumption DEF ConversationAssumption
<1>7. messages' \in Seq(Msg) /\ Good(messages')
  BY <1>1, <1>2, <1>5, <1>6, CompactedGood
<1>8. batch' \in Seq(Asked) /\ (pc' = "tools" => batch' # <<>>) /\ pc' # "call"
  BY <1>1, <1>3, EmptySeq
<1>9. issued' \in Nat /\ start' \in Nat
  BY <1>1, <1>2
<1> QED BY <1>7, <1>8, <1>9 DEF TalkInv, Good

LEMMA TalkNext == TalkInv /\ [Next]_vars => TalkInv'
<1> SUFFICES ASSUME TalkInv, [Next]_vars PROVE TalkInv'
  OBVIOUS
<1>1. CASE Change \/ UNCHANGED vars
  <2>1. UNCHANGED <<messages, batch, start, issued, pc>>
    BY <1>1 DEF Change, vars
  <2> QED BY <2>1 DEF TalkInv, Good, Fresh
<1> QED BY <1>1, IterateKeeps, EndKeeps, PauseEndsKeeps, RespondKeeps, ToolKeeps DEF Next, Progress

\* A tool's result is sent in full once, and is not shortened before (agent.py, PromptAssembly).
THEOREM ShownOnce == Spec => []SeenFullOnce
<1>1. TalkInv => SeenFullOnce
  BY MessagesAre DEF TalkInv, Good, SeenFullOnce
<1> QED BY <1>1, TalkStarts, TalkNext, PTL DEF Spec

-----------------------------------------------------------------------------
(* Conversation: calls and their results.                                  *)

OnlyResults(ms, lo, hi) == \A k \in lo..hi : ms[k].role = "tool"
\* Calls have ids that have been given, and only the model makes them.
Shapes(ms, top) ==
  \A i \in 1..Len(ms) :
    /\ ms[i].answers \in 0..top /\ (ms[i].role = "tool" <=> ms[i].answers # 0)
    /\ Asks(ms[i]) \subseteq 1..top
    /\ Asks(ms[i]) # {} => ms[i].role = "assistant"
\* A call's results are behind it, and nothing but results between.
Behind(ms) ==
  \A i, j \in 1..Len(ms) :
    ms[j].role = "tool" /\ ms[j].answers \in Asks(ms[i]) => i < j /\ OnlyResults(ms, i + 1, j)
\* A result without its call is where the history was cut.
Rooted(ms) ==
  \A j \in 1..Len(ms) :
    ms[j].role = "tool" =>
      OnlyResults(ms, 1, j) \/ \E i \in 1..j : ms[j].answers \in Asks(ms[i])
Single(ms) == \A i, j \in 1..Len(ms) : Asks(ms[i]) \cap Asks(ms[j]) # {} => i = j
Sound(ms, top) == Shapes(ms, top) /\ Behind(ms) /\ Rooted(ms) /\ Single(ms)

\* Results of the calls ids may come next: behind their message there are only results, or it was
\* cut off.
Due(ms, top, ids) ==
  /\ ids \subseteq 1..top
  /\ \/ \E p \in 1..Len(ms) : ids \subseteq Asks(ms[p]) /\ OnlyResults(ms, p + 1, Len(ms))
     \/ OnlyResults(ms, 1, Len(ms)) /\ \A i \in 1..Len(ms) : Asks(ms[i]) \cap ids = {}
\* The model did not have the last word.
Turned(ms) == ms # <<>> => ms[Len(ms)].role # "assistant" \/ Asks(ms[Len(ms)]) # {}

PairInv ==
  /\ Sound(messages, issued)
  /\ pc = "tools" => Due(messages, issued, {batch[k].id : k \in 1..Len(batch)})
  /\ pc \in {"top", "paused", "call"} => Turned(messages)

\* Whatever happens to the texts.
LEMMA SameSound ==
  ASSUME NEW ms \in Seq(Msg), NEW s \in Seq(Msg), Len(s) = Len(ms),
         \A i \in 1..Len(ms) :
           s[i].role = ms[i].role /\ s[i].answers = ms[i].answers /\ Asks(s[i]) = Asks(ms[i])
  PROVE  /\ \A top : Sound(ms, top) => Sound(s, top)
         /\ Turned(ms) => Turned(s)
<1> PICK n : n = Len(ms)
  OBVIOUS
<1>1. n \in Nat /\ Len(s) = n
  BY MessagesAre
<1>2. \A i \in 1..n :
        s[i].role = ms[i].role /\ s[i].answers = ms[i].answers /\ Asks(s[i]) = Asks(ms[i])
  OBVIOUS
<1>3. ASSUME NEW lo \in Nat, lo >= 1, NEW hi \in 0..n, OnlyResults(ms, lo, hi) PROVE OnlyResults(s, lo, hi)
  <2>1. \A k \in lo..hi : k \in 1..n
    BY <1>1, <1>3
  <2> QED BY <1>2, <1>3, <2>1 DEF OnlyResults
<1>4. ASSUME NEW top, Sound(ms, top) PROVE Sound(s, top)
  <2>1. Shapes(s, top)
    BY <1>1, <1>2, <1>4 DEF Sound, Shapes
  <2>2. Behind(s)
    <3> SUFFICES ASSUME NEW i \in 1..n, NEW j \in 1..n, s[j].role = "tool", s[j].answers \in Asks(s[i])
                 PROVE  i < j /\ OnlyResults(s, i + 1, j)
      BY <1>1 DEF Behind
    <3>1. i < j /\ OnlyResults(ms, i + 1, j)
      BY <1>2, <1>4 DEF Sound, Behind
    <3>2. i + 1 \in Nat /\ i + 1 >= 1 /\ j \in 0..n
      BY <1>1
    <3> QED BY <1>3, <3>1, <3>2
  <2>3. Rooted(s)
    <3> SUFFICES ASSUME NEW j \in 1..n, s[j].role = "tool"
                 PROVE  OnlyResults(s, 1, j) \/ \E i \in 1..j : s[j].answers \in Asks(s[i])
      BY <1>1 DEF Rooted
    <3>1. CASE OnlyResults(ms, 1, j)
      <4>1. j \in 0..n
        BY <1>1
      <4> QED BY <1>3, <3>1, <4>1
    <3>2. CASE ~ OnlyResults(ms, 1, j)
      <4>1. PICK i \in 1..j : ms[j].answers \in Asks(ms[i])
        BY <1>2, <1>4, <3>2 DEF Sound, Rooted
      <4>2. i \in 1..n
        BY <1>1
      <4> QED BY <1>2, <4>1, <4>2
    <3> QED BY <3>1, <3>2
  <2>4. Single(s)
    BY <1>1, <1>2, <1>4 DEF Sound, Single
  <2> QED BY <2>1, <2>2, <2>3, <2>4 DEF Sound
<1>5. ASSUME Turned(ms), s # <<>> PROVE s[n].role # "assistant" \/ Asks(s[n]) # {}
  <2>1. n # 0
    BY <1>1, <1>5, EmptySeq
  <2>2. n \in 1..n /\ ms # <<>>
    BY <1>1, <2>1, EmptySeq
  <2> QED BY <1>2, <1>5, <2>2 DEF Turned
<1> QED BY <1>1, <1>4, <1>5 DEF Turned

\* People write.
LEMMA UsersSound ==
  ASSUME NEW ms \in Seq(Msg), NEW top, Sound(ms, top), NEW s \in Seq(Msg), Len(ms) <= Len(s),
         \A i \in 1..Len(ms) : s[i] = ms[i], top \in Nat,
         \A j \in (Len(ms) + 1)..Len(s) : s[j].role = "user" /\ s[j].answers = 0 /\ Asks(s[j]) = {}
  PROVE  Sound(s, top)
<1> PICK n, l : n = Len(ms) /\ l = Len(s)
  OBVIOUS
<1>1. n \in Nat /\ l \in Nat /\ n <= l /\ \A i \in 1..n : i \in 1..l
  <2>1. n \in Nat /\ l \in Nat /\ n <= l
    BY MessagesAre
  <2> QED BY <2>1
<1>2. \A i \in 1..l : i \in 1..n \/ i \in (n + 1)..l
  BY <1>1
<1>3. \A i \in 1..n : s[i] = ms[i]
  OBVIOUS
<1>4. \A i \in 1..l : s[i].role = "tool" \/ Asks(s[i]) # {} => i \in 1..n
  <2>1. \A j \in (n + 1)..l : s[j].role # "tool" /\ Asks(s[j]) = {}
    OBVIOUS
  <2> QED BY <1>2, <2>1
<1>5. ASSUME NEW lo \in Nat, lo >= 1, NEW hi \in 1..n, OnlyResults(ms, lo, hi) PROVE OnlyResults(s, lo, hi)
  <2>1. \A k \in lo..hi : k \in 1..n
    BY <1>1, <1>5
  <2> QED BY <1>3, <1>5, <2>1 DEF OnlyResults
<1>6. Shapes(s, top)
  <2> SUFFICES ASSUME NEW i \in 1..l
               PROVE  /\ s[i].answers \in 0..top /\ (s[i].role = "tool" <=> s[i].answers # 0)
                      /\ Asks(s[i]) \subseteq 1..top
                      /\ Asks(s[i]) # {} => s[i].role = "assistant"
    BY DEF Shapes
  <2>1. CASE i \in 1..n
    BY <1>3, <2>1 DEF Sound, Shapes
  <2>2. CASE i \in (n + 1)..l
    <3>1. s[i].role = "user" /\ s[i].answers = 0 /\ Asks(s[i]) = {}
      BY <2>2
    <3> QED BY <3>1
  <2> QED BY <1>2, <2>1, <2>2
<1>7. Behind(s)
  <2> SUFFICES ASSUME NEW i \in 1..l, NEW j \in 1..l, s[j].role = "tool", s[j].answers \in Asks(s[i])
               PROVE  i < j /\ OnlyResults(s, i + 1, j)
    BY DEF Behind
  <2>1. i \in 1..n /\ j \in 1..n
    BY <1>4
  <2>2. i < j /\ OnlyResults(ms, i + 1, j)
    BY <1>3, <2>1 DEF Sound, Behind
  <2>3. i + 1 \in Nat /\ i + 1 >= 1
    BY <2>1
  <2> QED BY <1>5, <2>1, <2>2, <2>3
<1>8. Rooted(s)
  <2> SUFFICES ASSUME NEW j \in 1..l, s[j].role = "tool"
               PROVE  OnlyResults(s, 1, j) \/ \E i \in 1..j : s[j].answers \in Asks(s[i])
    BY DEF Rooted
  <2>1. j \in 1..n
    BY <1>4
  <2>2. CASE OnlyResults(ms, 1, j)
    BY <1>5, <2>1, <2>2
  <2>3. CASE ~ OnlyResults(ms, 1, j)
    <3>1. PICK i \in 1..j : ms[j].answers \in Asks(ms[i])
      BY <1>3, <2>1, <2>3 DEF Sound, Rooted
    <3>2. i \in 1..n
      BY <1>1, <2>1
    <3> QED BY <1>3, <2>1, <3>1, <3>2
  <2> QED BY <2>2, <2>3
<1>9. Single(s)
  <2> SUFFICES ASSUME NEW i \in 1..l, NEW j \in 1..l, Asks(s[i]) \cap Asks(s[j]) # {} PROVE i = j
    BY DEF Single
  <2>1. i \in 1..n /\ j \in 1..n
    BY <1>4
  <2> QED BY <1>3, <2>1 DEF Sound, Single
<1> QED BY <1>6, <1>7, <1>8, <1>9 DEF Sound

\* Results come.
LEMMA ResultsSound ==
  ASSUME NEW ms \in Seq(Msg), NEW top \in Nat, Sound(ms, top), NEW s \in Seq(Msg), Len(ms) <= Len(s),
         \A i \in 1..Len(ms) : s[i] = ms[i], NEW ids, Due(ms, top, ids),
         \A j \in (Len(ms) + 1)..Len(s) : s[j].role = "tool" /\ s[j].answers \in ids /\ Asks(s[j]) = {}
  PROVE  Sound(s, top) /\ Due(s, top, ids)
<1> PICK n, l : n = Len(ms) /\ l = Len(s)
  OBVIOUS
<1>1. n \in Nat /\ l \in Nat /\ n <= l /\ \A i \in 1..n : i \in 1..l
  <2>1. n \in Nat /\ l \in Nat /\ n <= l
    BY MessagesAre
  <2> QED BY <2>1
<1>2. \A i \in 1..l : i \in 1..n \/ i \in (n + 1)..l
  BY <1>1
<1>3. \A i \in 1..n : s[i] = ms[i]
  OBVIOUS
<1>4. \A j \in (n + 1)..l : s[j].role = "tool" /\ s[j].answers \in ids /\ Asks(s[j]) = {}
  OBVIOUS
<1>5. \A i \in 1..l : Asks(s[i]) # {} => i \in 1..n
  BY <1>2, <1>4
\* Results at the end are followed by more.
<1>6. ASSUME NEW lo \in Nat, lo >= 1, NEW hi \in 1..l, OnlyResults(ms, lo, n) PROVE OnlyResults(s, lo, hi)
  <2> SUFFICES ASSUME NEW k \in lo..hi PROVE s[k].role = "tool"
    BY DEF OnlyResults
  <2>1. CASE k \in 1..n
    <3>1. k \in lo..n
      BY <1>1, <1>6, <2>1
    <3> QED BY <1>3, <1>6, <2>1, <3>1 DEF OnlyResults
  <2>2. CASE k \in (n + 1)..l
    BY <1>4, <2>2
  <2>3. k \in 1..n \/ k \in (n + 1)..l
    BY <1>1, <1>6
  <2> QED BY <2>1, <2>2, <2>3
<1>7. ASSUME NEW lo \in Nat, lo >= 1, NEW hi \in 1..n, OnlyResults(ms, lo, hi) PROVE OnlyResults(s, lo, hi)
  <2>1. \A k \in lo..hi : k \in 1..n
    BY <1>1, <1>7
  <2> QED BY <1>3, <1>7, <2>1 DEF OnlyResults
<1>8. Shapes(s, top)
  <2> SUFFICES ASSUME NEW i \in 1..l
               PROVE  /\ s[i].answers \in 0..top /\ (s[i].role = "tool" <=> s[i].answers # 0)
                      /\ Asks(s[i]) \subseteq 1..top
                      /\ Asks(s[i]) # {} => s[i].role = "assistant"
    BY DEF Shapes
  <2>1. CASE i \in 1..n
    BY <1>3, <2>1 DEF Sound, Shapes
  <2>2. CASE i \in (n + 1)..l
    <3>1. s[i].role = "tool" /\ s[i].answers \in 1..top /\ Asks(s[i]) = {}
      BY <1>4, <2>2 DEF Due
    <3> QED BY <3>1
  <2> QED BY <1>2, <2>1, <2>2
<1>9. Single(s)
  <2> SUFFICES ASSUME NEW i \in 1..l, NEW j \in 1..l, Asks(s[i]) \cap Asks(s[j]) # {} PROVE i = j
    BY DEF Single
  <2>1. i \in 1..n /\ j \in 1..n
    BY <1>5
  <2> QED BY <1>3, <2>1 DEF Sound, Single
<1>10. CASE \E p \in 1..n : ids \subseteq Asks(ms[p]) /\ OnlyResults(ms, p + 1, n)
  <2>1. PICK p \in 1..n : ids \subseteq Asks(ms[p]) /\ OnlyResults(ms, p + 1, n)
    BY <1>10
  <2>2. p + 1 \in Nat /\ p + 1 >= 1 /\ p \in 1..l
    BY <1>1
  <2>3. Behind(s)
    <3> SUFFICES ASSUME NEW i \in 1..l, NEW j \in 1..l, s[j].role = "tool", s[j].answers \in Asks(s[i])
                 PROVE  i < j /\ OnlyResults(s, i + 1, j)
      BY DEF Behind
    <3>1. i \in 1..n /\ i + 1 \in Nat /\ i + 1 >= 1
      <4>1. i \in 1..n
        BY <1>5
      <4> QED BY <4>1
    <3>2. CASE j \in 1..n
      <4>1. i < j /\ OnlyResults(ms, i + 1, j)
        BY <1>3, <3>1, <3>2 DEF Sound, Behind
      <4> QED BY <1>7, <3>1, <3>2, <4>1
    <3>3. CASE j \in (n + 1)..l
      <4>1. s[j].answers \in Asks(ms[p]) \cap Asks(ms[i])
        BY <1>3, <1>4, <2>1, <3>1, <3>3
      <4>2. i = p
        BY <3>1, <4>1 DEF Sound, Single
      <4>3. i < j
        BY <1>1, <3>1, <3>3
      <4> QED BY <1>6, <2>1, <2>2, <4>2, <4>3
    <3> QED BY <1>2, <3>2, <3>3
  <2>4. Rooted(s)
    <3> SUFFICES ASSUME NEW j \in 1..l, s[j].role = "tool"
                 PROVE  OnlyResults(s, 1, j) \/ \E i \in 1..j : s[j].answers \in Asks(s[i])
      BY DEF Rooted
    <3>1. CASE j \in (n + 1)..l
      <4>1. p \in 1..j /\ s[j].answers \in Asks(s[p])
        BY <1>1, <1>3, <1>4, <2>1, <3>1
      <4> QED BY <4>1
    <3>2. CASE j \in 1..n
      <4>1. CASE OnlyResults(ms, 1, j)
        BY <1>7, <3>2, <4>1
      <4>2. CASE ~ OnlyResults(ms, 1, j)
        <5>1. PICK i \in 1..j : ms[j].answers \in Asks(ms[i])
          BY <1>3, <3>2, <4>2 DEF Sound, Rooted
        <5>2. i \in 1..n
          BY <1>1, <3>2
        <5> QED BY <1>3, <3>2, <5>1, <5>2
      <4> QED BY <4>1, <4>2
    <3> QED BY <1>2, <3>1, <3>2
  <2>5. Due(s, top, ids)
    <3>1. ids \subseteq 1..top
      BY DEF Due
    <3>2. ids \subseteq Asks(s[p])
      BY <1>3, <2>1
    <3>3. l \in 1..l
      BY <1>1, <2>2
    <3>4. OnlyResults(s, p + 1, l)
      BY <1>6, <2>1, <2>2, <3>3
    <3> QED BY <2>2, <3>1, <3>2, <3>4 DEF Due
  <2> QED BY <1>8, <1>9, <2>3, <2>4, <2>5 DEF Sound
<1>11. CASE OnlyResults(ms, 1, n) /\ \A i \in 1..n : Asks(ms[i]) \cap ids = {}
  <2>1. Behind(s)
    <3> SUFFICES ASSUME NEW i \in 1..l, NEW j \in 1..l, s[j].role = "tool", s[j].answers \in Asks(s[i])
                 PROVE  i < j /\ OnlyResults(s, i + 1, j)
      BY DEF Behind
    <3>1. i \in 1..n /\ i + 1 \in Nat /\ i + 1 >= 1
      <4>1. i \in 1..n
        BY <1>5
      <4> QED BY <4>1
    <3>2. CASE j \in 1..n
      <4>1. i < j /\ OnlyResults(ms, i + 1, j)
        BY <1>3, <3>1, <3>2 DEF Sound, Behind
      <4> QED BY <1>7, <3>1, <3>2, <4>1
    <3>3. CASE j \in (n + 1)..l
      BY <1>3, <1>4, <1>11, <3>1, <3>3
    <3> QED BY <1>2, <3>2, <3>3
  <2>2. \A j \in 1..l : OnlyResults(s, 1, j)
    BY <1>6, <1>11
  <2>3. Rooted(s)
    BY <2>2 DEF Rooted
  <2>4. Due(s, top, ids)
    <3>1. ids \subseteq 1..top
      BY DEF Due
    <3>2. ASSUME NEW i \in 1..l PROVE Asks(s[i]) \cap ids = {}
      <4>1. CASE i \in 1..n
        BY <1>3, <1>11, <4>1
      <4>2. CASE i \in (n + 1)..l
        BY <1>4, <4>2
      <4> QED BY <1>2, <4>1, <4>2
    <3>3. OnlyResults(s, 1, l)
      <4>1. CASE l = 0
        BY <4>1 DEF OnlyResults
      <4>2. CASE l # 0
        <5>1. l \in 1..l
          BY <1>1, <4>2
        <5> QED BY <2>2, <5>1
      <4> QED BY <4>1, <4>2
    <3> QED BY <3>1, <3>2, <3>3 DEF Due
  <2> QED BY <1>8, <1>9, <2>1, <2>3, <2>4 DEF Sound
<1>12. \/ \E p \in 1..n : ids \subseteq Asks(ms[p]) /\ OnlyResults(ms, p + 1, n)
       \/ OnlyResults(ms, 1, n) /\ \A i \in 1..n : Asks(ms[i]) \cap ids = {}
  BY DEF Due
<1> QED BY <1>10, <1>11, <1>12

\* The model answers.
LEMMA AskedSound ==
  ASSUME NEW ms \in Seq(Msg), NEW top \in Nat, Sound(ms, top), NEW s \in Seq(Msg), Len(s) = Len(ms) + 1,
         \A i \in 1..Len(ms) : s[i] = ms[i], NEW up \in Nat, top <= up, NEW m, m = s[Len(ms) + 1],
         m.role = "assistant", m.answers = 0, Asks(m) \subseteq (top + 1)..up
  PROVE  Sound(s, up) /\ \A ids : ids \subseteq Asks(m) => Due(s, up, ids)
<1> PICK n : n = Len(ms)
  OBVIOUS
<1>1. n \in Nat /\ Len(s) = n + 1 /\ n + 1 \in 1..(n + 1) /\ s[n + 1] = m
  <2>1. n \in Nat
    BY MessagesAre
  <2> QED BY <2>1
<1>2. \A i \in 1..(n + 1) : i \in 1..n \/ i = n + 1
  BY <1>1
<1>3. \A i \in 1..n : s[i] = ms[i]
  OBVIOUS
<1>4. ASSUME NEW lo \in Nat, lo >= 1, NEW hi \in 1..n, OnlyResults(ms, lo, hi) PROVE OnlyResults(s, lo, hi)
  <2>1. \A k \in lo..hi : k \in 1..n
    BY <1>1, <1>4
  <2> QED BY <1>3, <1>4, <2>1 DEF OnlyResults
<1>5. \A i \in 1..n :
        /\ ms[i].answers \in 0..top /\ (ms[i].role = "tool" <=> ms[i].answers # 0)
        /\ Asks(ms[i]) \subseteq 1..top
        /\ Asks(ms[i]) # {} => ms[i].role = "assistant"
  BY DEF Sound, Shapes
<1>6. 1..top \subseteq 1..up /\ 0..top \subseteq 0..up /\ (top + 1)..up \subseteq 1..up
      /\ (0..top) \cap ((top + 1)..up) = {} /\ (1..top) \cap ((top + 1)..up) = {}
  OBVIOUS
<1>7. Shapes(s, up)
  <2> SUFFICES ASSUME NEW i \in 1..(n + 1)
               PROVE  /\ s[i].answers \in 0..up /\ (s[i].role = "tool" <=> s[i].answers # 0)
                      /\ Asks(s[i]) \subseteq 1..up
                      /\ Asks(s[i]) # {} => s[i].role = "assistant"
    BY <1>1 DEF Shapes
  <2>1. CASE i \in 1..n
    BY <1>3, <1>5, <1>6, <2>1
  <2>2. CASE i = n + 1
    <3>1. 0 \in 0..up
      OBVIOUS
    <3> QED BY <1>1, <1>6, <2>2, <3>1
  <2> QED BY <1>2, <2>1, <2>2
<1>8. \A j \in 1..(n + 1) : s[j].role = "tool" => j \in 1..n /\ s[j].answers \in 0..top
  BY <1>1, <1>2, <1>3, <1>5
<1>9. Behind(s)
  <2> SUFFICES ASSUME NEW i \in 1..(n + 1), NEW j \in 1..(n + 1), s[j].role = "tool", s[j].answers \in Asks(s[i])
               PROVE  i < j /\ OnlyResults(s, i + 1, j)
    BY <1>1 DEF Behind
  <2>1. j \in 1..n /\ s[j].answers \in 0..top
    BY <1>8
  <2>2. i \in 1..n
    <3>1. i = n + 1 => s[j].answers \in (top + 1)..up
      BY <1>1
    <3> QED BY <1>2, <1>6, <2>1, <3>1
  <2>3. i < j /\ OnlyResults(ms, i + 1, j)
    BY <1>3, <2>1, <2>2 DEF Sound, Behind
  <2>4. i + 1 \in Nat /\ i + 1 >= 1
    BY <2>2
  <2> QED BY <1>4, <2>1, <2>3, <2>4
<1>10. Rooted(s)
  <2> SUFFICES ASSUME NEW j \in 1..(n + 1), s[j].role = "tool"
               PROVE  OnlyResults(s, 1, j) \/ \E i \in 1..j : s[j].answers \in Asks(s[i])
    BY <1>1 DEF Rooted
  <2>1. j \in 1..n
    BY <1>8
  <2>2. CASE OnlyResults(ms, 1, j)
    BY <1>4, <2>1, <2>2
  <2>3. CASE ~ OnlyResults(ms, 1, j)
    <3>1. PICK i \in 1..j : ms[j].answers \in Asks(ms[i])
      BY <1>3, <2>1, <2>3 DEF Sound, Rooted
    <3>2. i \in 1..n
      BY <1>1, <2>1
    <3> QED BY <1>3, <2>1, <3>1, <3>2
  <2> QED BY <2>2, <2>3
<1>11. Single(s)
  <2> SUFFICES ASSUME NEW i \in 1..(n + 1), NEW j \in 1..(n + 1), Asks(s[i]) \cap Asks(s[j]) # {} PROVE i = j
    BY <1>1 DEF Single
  <2>1. CASE i \in 1..n /\ j \in 1..n
    BY <1>3, <2>1 DEF Sound, Single
  <2>2. CASE i \in 1..n /\ j = n + 1
    BY <1>1, <1>3, <1>5, <1>6, <2>2
  <2>3. CASE i = n + 1 /\ j \in 1..n
    BY <1>1, <1>3, <1>5, <1>6, <2>3
  <2>4. CASE i = n + 1 /\ j = n + 1
    BY <2>4
  <2> QED BY <1>2, <2>1, <2>2, <2>3, <2>4
<1>12. ASSUME NEW ids, ids \subseteq Asks(m) PROVE Due(s, up, ids)
  <2>1. ids \subseteq 1..up
    BY <1>6, <1>12
  <2>2. OnlyResults(s, (n + 1) + 1, n + 1)
    <3>1. ((n + 1) + 1)..(n + 1) = {}
      BY <1>1
    <3> QED BY <3>1 DEF OnlyResults
  <2> QED BY <1>1, <1>12, <2>1, <2>2 DEF Due
<1> QED BY <1>7, <1>9, <1>10, <1>11, <1>12 DEF Sound

\* The history is cut.
LEMMA RestSound ==
  ASSUME NEW ms \in Seq(Msg), NEW top, Sound(ms, top), NEW s \in Seq(Msg),
         NEW d \in 0..Len(ms), Len(s) = Len(ms) - d, \A a \in 1..(Len(ms) - d) : s[a] = ms[a + d]
  PROVE  /\ Sound(s, top)
         /\ \A ids : Due(ms, top, ids) => Due(s, top, ids)
         /\ Turned(ms) => Turned(s)
<1> PICK n, l : n = Len(ms) /\ l = n - d
  OBVIOUS
<1>1. n \in Nat /\ d \in Nat /\ l \in Nat /\ n = l + d /\ Len(s) = l
  <2>1. n \in Nat
    BY MessagesAre
  <2> QED BY <2>1
<1>2. l # 0 => l \in 1..l /\ l + d = n
  BY <1>1
<1>3. \A a \in 1..l : a + d \in 1..n /\ s[a] = ms[a + d]
  <2>1. \A a \in 1..l : a + d \in 1..n
    BY <1>1
  <2> QED BY <2>1
<1>4. ASSUME NEW lo \in Nat, NEW hi \in 1..l, lo >= 1, OnlyResults(ms, lo + d, hi + d)
      PROVE  OnlyResults(s, lo, hi)
  <2>1. \A k \in lo..hi : k \in 1..l /\ k + d \in (lo + d)..(hi + d)
    BY <1>1, <1>4
  <2> QED BY <1>3, <1>4, <2>1 DEF OnlyResults
<1>5. ASSUME NEW i \in 0..d, NEW hi \in 1..l, OnlyResults(ms, i + 1, hi + d)
      PROVE  OnlyResults(s, 1, hi)
  <2>1. \A k \in 1..hi : k \in 1..l /\ k + d \in (i + 1)..(hi + d)
    BY <1>1, <1>5
  <2> QED BY <1>3, <1>5, <2>1 DEF OnlyResults
<1>6. Shapes(s, top)
  <2> SUFFICES ASSUME NEW i \in 1..l
               PROVE  /\ s[i].answers \in 0..top /\ (s[i].role = "tool" <=> s[i].answers # 0)
                      /\ Asks(s[i]) \subseteq 1..top
                      /\ Asks(s[i]) # {} => s[i].role = "assistant"
    BY <1>1 DEF Shapes
  <2> PICK j : j = i + d
    OBVIOUS
  <2>1. j \in 1..n /\ s[i] = ms[j]
    BY <1>3
  <2> QED BY <2>1 DEF Sound, Shapes
<1>7. Behind(s)
  <2> SUFFICES ASSUME NEW i \in 1..l, NEW j \in 1..l, s[j].role = "tool", s[j].answers \in Asks(s[i])
               PROVE  i < j /\ OnlyResults(s, i + 1, j)
    BY <1>1 DEF Behind
  <2>1. i + d < j + d /\ OnlyResults(ms, (i + d) + 1, j + d)
    BY <1>3 DEF Sound, Behind
  <2>2. (i + d) + 1 = (i + 1) + d /\ i + 1 \in Nat /\ i + 1 >= 1 /\ i < j
    BY <1>1, <2>1
  <2> QED BY <1>4, <2>1, <2>2
<1>8. Rooted(s)
  <2> SUFFICES ASSUME NEW j \in 1..l, s[j].role = "tool"
               PROVE  OnlyResults(s, 1, j) \/ \E i \in 1..j : s[j].answers \in Asks(s[i])
    BY <1>1 DEF Rooted
  <2>1. CASE OnlyResults(ms, 1, j + d)
    <3>1. 0 \in 0..d /\ 0 + 1 = 1
      BY <1>1
    <3> QED BY <1>5, <2>1, <3>1
  <2>2. CASE ~ OnlyResults(ms, 1, j + d)
    <3>1. PICK i \in 1..(j + d) : ms[j + d].answers \in Asks(ms[i])
      BY <1>3, <2>2 DEF Sound, Rooted
    <3>2. i \in 1..n
      BY <1>1
    <3>3. CASE i > d
      <4> PICK a : a = i - d
        OBVIOUS
      <4>1. a \in 1..j /\ a \in 1..l /\ a + d = i
        BY <1>1, <3>3
      <4> QED BY <1>3, <3>1, <4>1
    <3>4. CASE ~(i > d)
      <4>1. OnlyResults(ms, i + 1, j + d)
        BY <1>3, <3>1, <3>2 DEF Sound, Behind
      <4>2. i \in 0..d
        BY <1>1, <3>2, <3>4
      <4> QED BY <1>5, <4>1, <4>2
    <3> QED BY <3>3, <3>4
  <2> QED BY <2>1, <2>2
<1>9. Single(s)
  <2> SUFFICES ASSUME NEW i \in 1..l, NEW j \in 1..l, Asks(s[i]) \cap Asks(s[j]) # {} PROVE i = j
    BY <1>1 DEF Single
  <2>1. i + d = j + d
    BY <1>3 DEF Sound, Single
  <2> QED BY <1>1, <2>1
<1>10. ASSUME NEW ids, Due(ms, top, ids) PROVE Due(s, top, ids)
  <2>1. ids \subseteq 1..top
    BY <1>10 DEF Due
  <2>2. CASE \E p \in 1..n : ids \subseteq Asks(ms[p]) /\ OnlyResults(ms, p + 1, n)
    <3>1. PICK p \in 1..n : ids \subseteq Asks(ms[p]) /\ OnlyResults(ms, p + 1, n)
      BY <2>2
    <3>2. CASE p > d
      <4> PICK a : a = p - d
        OBVIOUS
      <4>1. a \in 1..l /\ a + d = p /\ (a + 1) + d = p + 1 /\ l + d = n /\ l \in 1..l /\ a + 1 \in Nat /\ a + 1 >= 1
        BY <1>1, <3>2
      <4>2. ids \subseteq Asks(s[a])
        BY <1>3, <3>1, <4>1
      <4>3. OnlyResults(s, a + 1, l)
        BY <1>4, <3>1, <4>1
      <4> QED BY <1>1, <2>1, <4>1, <4>2, <4>3 DEF Due
    <3>3. CASE ~(p > d)
      <4>1. OnlyResults(s, 1, l)
        <5>1. CASE l = 0
          BY <5>1 DEF OnlyResults
        <5>2. CASE l # 0
          <6>1. l \in 1..l /\ l + d = n
            BY <1>2, <5>2
          <6>2. p \in 0..d
            BY <1>1, <3>3
          <6>3. OnlyResults(ms, p + 1, l + d)
            BY <3>1, <6>1
          <6> QED BY <1>5, <6>1, <6>2, <6>3
        <5> QED BY <5>1, <5>2
      <4>2. ASSUME NEW a \in 1..l PROVE Asks(s[a]) \cap ids = {}
        <5>1. a + d # p
          BY <1>1, <3>3
        <5>2. Asks(ms[a + d]) \cap Asks(ms[p]) = {}
          BY <1>3, <5>1 DEF Sound, Single
        <5> QED BY <1>3, <3>1, <5>2
      <4> QED BY <1>1, <2>1, <4>1, <4>2 DEF Due
    <3> QED BY <3>2, <3>3
  <2>3. CASE OnlyResults(ms, 1, n) /\ \A i \in 1..n : Asks(ms[i]) \cap ids = {}
    <3>1. OnlyResults(s, 1, l)
      <4>1. CASE l = 0
        BY <4>1 DEF OnlyResults
      <4>2. CASE l # 0
        <5>1. l \in 1..l /\ l + d = n /\ 0 \in 0..d /\ 0 + 1 = 1
          BY <1>1, <4>2
        <5> QED BY <1>5, <2>3, <5>1
      <4> QED BY <4>1, <4>2
    <3>2. \A a \in 1..l : Asks(s[a]) \cap ids = {}
      BY <1>3, <2>3
    <3> QED BY <1>1, <2>1, <3>1, <3>2 DEF Due
  <2> QED BY <1>10, <2>2, <2>3 DEF Due
<1>11. ASSUME Turned(ms), s # <<>> PROVE s[l].role # "assistant" \/ Asks(s[l]) # {}
  <2>1. l # 0
    BY <1>1, <1>11, EmptySeq
  <2>2. l \in 1..l /\ l + d = n /\ ms # <<>>
    BY <1>1, <2>1, EmptySeq
  <2> QED BY <1>3, <1>11, <2>2 DEF Turned
<1> QED BY <1>1, <1>6, <1>7, <1>8, <1>9, <1>10, <1>11 DEF Sound, Turned

\* What the a-th message of a repaired history is.
Marked(g, place, s, ms, a) ==
  /\ g[a] \in 1..Len(ms) /\ place[g[a]] \in 1..Len(s) /\ place[g[a]] <= a
  /\ \/ a = place[g[a]] /\ s[a] = ms[g[a]]
     \/ /\ place[g[a]] < a /\ s[a].role = "tool" /\ Asks(s[a]) = {}
        /\ s[a].answers \in Asks(ms[g[a]]) \cap Dangling(ms)

LEMMA MarkedAre ==
  ASSUME NEW ms \in Seq(Msg), NEW s \in Seq(Msg), NEW g, NEW place, Marks(g, place, s, ms, Len(ms)),
         NEW a \in 1..Len(s)
  PROVE  Marked(g, place, s, ms, a)
<1> PICK n, l : n = Len(ms) /\ l = Len(s)
  OBVIOUS
<1>1. /\ g \in [1..l -> 1..n] /\ place \in [1..n -> 1..l]
      /\ \A i \in 1..n : g[place[i]] = i /\ s[place[i]] = ms[i]
      /\ \A b \in 1..l : place[g[b]] <= b /\ (b # place[g[b]] => RemarkOn(s[b], ms, g[b]))
  BY DEF Marks
<1> PICK i : i = g[a]
  OBVIOUS
<1>2. i \in 1..n /\ place[i] \in 1..l /\ place[i] <= a /\ s[place[i]] = ms[i]
  BY <1>1
<1>3. CASE a = place[i]
  BY <1>2, <1>3 DEF Marked
<1>4. CASE a # place[i]
  <2>1. PICK id \in Asks(ms[i]) \cap Dangling(ms) : s[a] = Result(id, "remark")
    BY <1>1, <1>4 DEF RemarkOn
  <2>2. id \in Int
    <3>1. ms[i] \in Msg
      <4> HIDE DEF Msg
      <4> QED BY <1>2, LenProperties
    <3>2. ms[i].calls \in Seq(Int)
      BY <3>1 DEF Msg
    <3> QED BY <2>1, <3>2, LenProperties DEF Asks, ToSet
  <2>3. s[a].role = "tool" /\ Asks(s[a]) = {} /\ s[a].answers = id
    BY <2>1, <2>2, ResultIs
  <2>4. place[i] < a
    <3>1. a \in Int /\ place[i] \in Int
      BY <1>2
    <3> QED BY <1>2, <1>4, <3>1
  <2> QED BY <1>2, <2>1, <2>3, <2>4 DEF Marked
<1> QED BY <1>3, <1>4

\* Every call has a result.
Backed(s, n) == \A a \in 1..n : \A id \in Asks(s[a]) : \E b \in 1..n : s[b].answers = id /\ id # 0

LEMMA NothingDangles ==
  ASSUME NEW s, NEW n, DOMAIN s = 1..n, Backed(s, n)
  PROVE  Dangling(s) = {}
<1> SUFFICES ASSUME NEW id, id \in CallsOf(s) PROVE id \in AnsweredIn(s)
  BY DEF Dangling
<1>1. PICK a \in 1..n : id \in Asks(s[a])
  BY DEF CallsOf, Asks
<1>2. PICK b \in 1..n : s[b].answers = id /\ id # 0
  BY <1>1 DEF Backed
<1> QED BY <1>2 DEF AnsweredIn

\* A call's remark follows the call, and the messages stay in their order.
LEMMA RepairedSound ==
  ASSUME NEW ms \in Seq(Msg), NEW top \in Nat, Sound(ms, top)
  PROVE  /\ Repaired(ms) \in Seq(Msg) /\ Sound(Repaired(ms), top)
         /\ \A ids : Due(ms, top, ids) => Due(Repaired(ms), top, ids)
         /\ Turned(ms) => Turned(Repaired(ms))
         /\ Dangling(Repaired(ms)) = {}
         /\ (\A j \in 1..Len(ms) : ms[j].role = "tool" => \E i \in 1..j : ms[j].answers \in Asks(ms[i]))
            => \A b \in 1..Len(Repaired(ms)) : Repaired(ms)[b].role = "tool" =>
                 \E a \in 1..b : Repaired(ms)[b].answers \in Asks(Repaired(ms)[a])
<1> PICK s, n, l : s = Repaired(ms) /\ n = Len(ms) /\ l = Len(s)
  OBVIOUS
<1>1. s \in Seq(Msg) /\ n \in Nat /\ l \in Nat /\ DOMAIN ms = 1..n /\ DOMAIN s = 1..l
  BY RepairedMarks, MessagesAre
<1>2. PICK g, place : Marks(g, place, s, ms, n)
  BY RepairedMarks
<1>3. /\ g \in [1..l -> 1..n] /\ place \in [1..n -> 1..l]
      /\ \A a, b \in 1..l : a <= b => g[a] <= g[b]
      /\ \A i \in 1..n : g[place[i]] = i /\ s[place[i]] = ms[i]
      /\ \A i \in 1..n : \A id \in Asks(ms[i]) \cap Dangling(ms) :
           \E a \in 1..l : g[a] = i /\ a # place[i] /\ s[a] = Result(id, "remark")
  BY <1>2 DEF Marks
<1>4. \A a \in 1..l :
        /\ g[a] \in 1..n /\ place[g[a]] \in 1..l /\ place[g[a]] <= a
        /\ \/ a = place[g[a]] /\ s[a] = ms[g[a]]
           \/ /\ place[g[a]] < a /\ s[a].role = "tool" /\ Asks(s[a]) = {}
              /\ s[a].answers \in Asks(ms[g[a]]) \cap Dangling(ms)
  <2> TAKE a \in 1..l
  <2>1. Marks(g, place, s, ms, Len(ms)) /\ a \in 1..Len(s)
    BY <1>2
  <2>2. Marked(g, place, s, ms, a)
    BY <1>1, <2>1, MarkedAre
  <2> QED BY <2>2 DEF Marked
<1>5. \A i \in 1..n : place[i] \in 1..l /\ g[place[i]] = i /\ s[place[i]] = ms[i]
  BY <1>3
<1>6. ASSUME NEW i \in 1..n, NEW j \in 1..n, i <= j PROVE place[i] <= place[j]
  <2>1. CASE i = j
    <3>1. place[j] \in Int
      BY <1>5
    <3> QED BY <2>1, <3>1
  <2>2. CASE i # j
    <3>1. ~(place[j] <= place[i])
      <4>1. place[j] <= place[i] => j <= i
        BY <1>3, <1>5
      <4> QED BY <1>6, <2>2, <4>1
    <3>2. place[i] \in Int /\ place[j] \in Int
      BY <1>5
    <3> QED BY <3>1, <3>2
  <2> QED BY <2>1, <2>2
<1>7. \A a \in 1..l : Asks(s[a]) # {} => a = place[g[a]] /\ s[a] = ms[g[a]]
  BY <1>4
\* Where there were only results, there are only results.
<1>8. ASSUME NEW i \in 0..n, NEW j \in 0..n, OnlyResults(ms, i + 1, j), NEW a \in 1..l,
             i = 0 \/ place[i] < a, g[a] <= j
      PROVE  s[a].role = "tool"
  <2> PICK k : k = g[a]
    OBVIOUS
  <2>1. k \in 1..n /\ (s[a].role = "tool" \/ (a = place[k] /\ s[a] = ms[k]))
    BY <1>4
  <2>2. CASE a = place[k] /\ s[a] = ms[k]
    <3>1. CASE i = 0
      <4>1. k \in (i + 1)..j
        BY <1>1, <1>8, <2>1, <3>1
      <4> QED BY <1>8, <2>2, <4>1 DEF OnlyResults
    <3>2. CASE i # 0
      <4>1. i \in 1..n /\ place[i] < a
        BY <1>1, <1>8, <3>2
      <4>2. place[i] \in 1..l /\ g[place[i]] = i
        BY <1>5, <4>1
      <4>3. place[i] <= a
        BY <1>1, <4>1, <4>2
      <4>4. i <= k
        BY <1>3, <4>2, <4>3
      <4>5. i # k
        <5>1. a \in Int
          OBVIOUS
        <5> QED BY <2>2, <4>1, <5>1
      <4>6. k \in (i + 1)..j
        BY <1>1, <1>8, <2>1, <4>4, <4>5
      <4> QED BY <1>8, <2>2, <4>6 DEF OnlyResults
    <3> QED BY <3>1, <3>2
  <2> QED BY <2>1, <2>2
<1>9. \A i \in 1..n :
        /\ ms[i].answers \in 0..top /\ (ms[i].role = "tool" <=> ms[i].answers # 0)
        /\ Asks(ms[i]) \subseteq 1..top
        /\ Asks(ms[i]) # {} => ms[i].role = "assistant"
  BY DEF Sound, Shapes
<1>10. Shapes(s, top)
  <2> SUFFICES ASSUME NEW a \in 1..l
               PROVE  /\ s[a].answers \in 0..top /\ (s[a].role = "tool" <=> s[a].answers # 0)
                      /\ Asks(s[a]) \subseteq 1..top
                      /\ Asks(s[a]) # {} => s[a].role = "assistant"
    BY DEF Shapes
  <2> PICK k : k = g[a]
    OBVIOUS
  <2>1. k \in 1..n
    BY <1>4
  <2>2. CASE s[a] = ms[k]
    BY <1>9, <2>1, <2>2
  <2>3. CASE s[a].role = "tool" /\ Asks(s[a]) = {} /\ s[a].answers \in Asks(ms[k])
    <3>1. s[a].answers \in 1..top
      BY <1>9, <2>1, <2>3
    <3> QED BY <2>3, <3>1
  <2> QED BY <1>4, <2>2, <2>3
\* Where a result in the repaired history belongs to.
<1>11. ASSUME NEW a \in 1..l, NEW b \in 1..l, s[b].role = "tool", s[b].answers \in Asks(s[a])
       PROVE  a < b /\ OnlyResults(s, a + 1, b)
  <2> PICK i, j : i = g[a] /\ j = g[b]
    OBVIOUS
  <2>1. i \in 1..n /\ j \in 1..n /\ a = place[i] /\ s[a] = ms[i]
    BY <1>4, <1>7, <1>11
  <2>2. i <= j /\ OnlyResults(ms, i + 1, j) /\ a < b
    <3>1. CASE s[b] = ms[j]
      <4>1. i < j /\ OnlyResults(ms, i + 1, j)
        BY <1>11, <2>1, <3>1 DEF Sound, Behind
      <4>2. ~(b <= a)
        <5>1. b <= a => j <= i
          BY <1>3
        <5> QED BY <2>1, <4>1, <5>1
      <4> QED BY <2>1, <4>1, <4>2
    <3>2. CASE place[j] < b /\ s[b].answers \in Asks(ms[j])
      <4>1. i = j
        BY <1>11, <2>1, <3>2 DEF Sound, Single
      <4>2. OnlyResults(ms, i + 1, j)
        <5>1. (i + 1)..j = {}
          BY <2>1, <4>1
        <5> QED BY <5>1 DEF OnlyResults
      <4> QED BY <2>1, <3>2, <4>1, <4>2
    <3> QED BY <1>4, <3>1, <3>2
  <2>3. ASSUME NEW c \in (a + 1)..b PROVE s[c].role = "tool"
    <3>1. c \in 1..l /\ place[i] < c /\ c <= b
      BY <1>1, <2>1
    <3>2. g[c] <= j
      BY <1>3, <3>1
    <3>3. i \in 0..n /\ j \in 0..n
      BY <1>1, <2>1
    <3> QED BY <1>8, <2>2, <3>1, <3>2, <3>3
  <2> QED BY <2>2, <2>3 DEF OnlyResults
<1>12. Behind(s)
  BY <1>11 DEF Behind
<1>13. ASSUME NEW b \in 1..l, s[b].role = "tool", NEW i \in 1..g[b], ms[g[b]].answers \in Asks(ms[i]) \/ s[b] # ms[g[b]]
       PROVE  \E a \in 1..b : s[b].answers \in Asks(s[a])
  <2> PICK j : j = g[b]
    OBVIOUS
  <2>1. j \in 1..n /\ place[j] <= b /\ place[j] \in 1..l /\ i \in 1..j
    BY <1>4
  <2>2. CASE s[b] = ms[j]
    <3>1. i \in 1..n /\ i <= j
      BY <1>1, <2>1
    <3>2. place[i] <= place[j] /\ place[i] \in 1..l
      BY <1>5, <1>6, <2>1, <3>1
    <3>3. place[i] \in 1..b
      BY <1>1, <2>1, <3>2
    <3>4. s[b].answers \in Asks(s[place[i]])
      BY <1>5, <1>13, <2>2, <3>1
    <3> QED BY <3>3, <3>4
  <2>3. CASE s[b].answers \in Asks(ms[j])
    <3>1. place[j] \in 1..b
      BY <2>1
    <3>2. s[b].answers \in Asks(s[place[j]])
      BY <1>5, <2>1, <2>3
    <3> QED BY <3>1, <3>2
  <2> QED BY <1>4, <2>2, <2>3
<1>14. Rooted(s)
  <2> SUFFICES ASSUME NEW b \in 1..l, s[b].role = "tool"
               PROVE  OnlyResults(s, 1, b) \/ \E a \in 1..b : s[b].answers \in Asks(s[a])
    BY DEF Rooted
  <2> PICK j : j = g[b]
    OBVIOUS
  <2>1. j \in 1..n /\ j \in 1..j /\ j \in 0..n /\ 0 \in 0..n
    <3>1. j \in 1..n
      BY <1>4
    <3> QED BY <1>1, <3>1
  <2>2. CASE s[b] # ms[j]
    BY <1>13, <2>1, <2>2
  <2>3. CASE s[b] = ms[j] /\ OnlyResults(ms, 1, j)
    <3>1. ASSUME NEW c \in 1..b PROVE s[c].role = "tool"
      <4>1. c \in 1..l /\ c <= b
        BY <1>1
      <4>2. g[c] <= j
        BY <1>3, <4>1
      <4>3. OnlyResults(ms, 0 + 1, j)
        BY <2>3
      <4> QED BY <1>8, <2>1, <4>1, <4>2, <4>3
    <3> QED BY <3>1 DEF OnlyResults
  <2>4. CASE s[b] = ms[j] /\ ~ OnlyResults(ms, 1, j)
    <3>1. PICK i \in 1..j : ms[j].answers \in Asks(ms[i])
      BY <2>1, <2>4 DEF Sound, Rooted
    <3> QED BY <1>13, <3>1
  <2> QED BY <2>2, <2>3, <2>4
<1>15. Single(s)
  <2> SUFFICES ASSUME NEW a \in 1..l, NEW b \in 1..l, Asks(s[a]) \cap Asks(s[b]) # {} PROVE a = b
    BY DEF Single
  <2> PICK i, j : i = g[a] /\ j = g[b]
    OBVIOUS
  <2>1. i \in 1..n /\ j \in 1..n /\ a = place[i] /\ b = place[j] /\ s[a] = ms[i] /\ s[b] = ms[j]
    BY <1>4, <1>7
  <2>2. i = j
    BY <2>1 DEF Sound, Single
  <2> QED BY <2>1, <2>2
<1>16. ASSUME NEW ids, Due(ms, top, ids) PROVE Due(s, top, ids)
  <2>1. ids \subseteq 1..top
    BY <1>16 DEF Due
  <2>2. CASE \E p \in 1..n : ids \subseteq Asks(ms[p]) /\ OnlyResults(ms, p + 1, n)
    <3>1. PICK p \in 1..n : ids \subseteq Asks(ms[p]) /\ OnlyResults(ms, p + 1, n)
      BY <2>2
    <3> PICK q : q = place[p]
      OBVIOUS
    <3>2. q \in 1..l /\ s[q] = ms[p]
      BY <1>5
    <3>3. ASSUME NEW c \in (q + 1)..l PROVE s[c].role = "tool"
      <4>1. c \in 1..l /\ place[p] < c /\ p \in 0..n /\ n \in 0..n
        BY <1>1, <3>2
      <4>2. g[c] <= n
        <5>1. g[c] \in 1..n
          BY <1>4, <4>1
        <5> QED BY <5>1
      <4> QED BY <1>8, <3>1, <4>1, <4>2
    <3> QED BY <2>1, <3>1, <3>2, <3>3 DEF Due, OnlyResults
  <2>3. CASE OnlyResults(ms, 1, n) /\ \A i \in 1..n : Asks(ms[i]) \cap ids = {}
    <3>1. ASSUME NEW c \in 1..l PROVE s[c].role = "tool" /\ Asks(s[c]) \cap ids = {}
      <4>1. g[c] \in 1..n
        BY <1>4
      <4>2. 0 \in 0..n /\ n \in 0..n /\ g[c] <= n
        BY <1>1, <4>1
      <4>3. OnlyResults(ms, 0 + 1, n)
        BY <2>3
      <4>4. s[c].role = "tool"
        BY <1>8, <4>2, <4>3
      <4> QED BY <1>4, <2>3, <4>1, <4>4
    <3> QED BY <2>1, <3>1 DEF Due, OnlyResults
  <2> QED BY <1>16, <2>2, <2>3 DEF Due
<1>17. ASSUME Turned(ms), s # <<>> PROVE s[l].role # "assistant" \/ Asks(s[l]) # {}
  <2>1. l # 0
    BY <1>1, <1>17, EmptySeq
  <2>2. l \in 1..l
    BY <1>1, <2>1
  <2>3. g[l] \in 1..n
    BY <1>4, <2>2
  <2>4. n \in 1..n /\ ms # <<>>
    <3>1. n \in 1..n
      BY <1>1, <2>3
    <3> QED BY <3>1, EmptySeq
  <2>5. g[l] = n
    <3>1. place[n] \in 1..l /\ g[place[n]] = n
      BY <1>5, <2>4
    <3>2. place[n] <= l
      BY <3>1
    <3>3. n <= g[l]
      BY <1>3, <2>2, <3>1, <3>2
    <3> QED BY <1>1, <2>3, <3>3
  <2>6. s[l] = ms[n] \/ s[l].role = "tool"
    BY <1>4, <2>2, <2>5
  <2> QED BY <1>17, <2>4, <2>6 DEF Turned
<1>18. Dangling(s) = {}
  <2> SUFFICES ASSUME NEW a \in 1..l, NEW id \in Asks(s[a]) PROVE \E b \in 1..l : s[b].answers = id /\ id # 0
    <3>1. Backed(s, l)
      BY DEF Backed
    <3> QED BY <1>1, <3>1, NothingDangles
  <2> PICK i : i = g[a]
    OBVIOUS
  <2>1. i \in 1..n /\ s[a] = ms[i]
    BY <1>4, <1>7
  <2>2. id \in 1..top
    BY <1>9, <2>1
  <2>3. CASE id \in Dangling(ms)
    <3>1. PICK b \in 1..l : s[b] = Result(id, "remark")
      BY <1>3, <2>1, <2>3
    <3>2. s[b].answers = id
      BY <2>2, <3>1, ResultIs
    <3> QED BY <2>2, <3>2
  <2>4. CASE id \notin Dangling(ms)
    <3>1. id \in CallsOf(ms)
      BY <1>1, <2>1 DEF CallsOf, Asks
    <3>2. PICK j \in 1..n : ms[j].answers = id
      BY <1>1, <2>4, <3>1 DEF Dangling, AnsweredIn
    <3> QED BY <1>5, <2>2, <3>2
  <2> QED BY <2>3, <2>4
<1>19. ASSUME \A j \in 1..n : ms[j].role = "tool" => \E i \in 1..j : ms[j].answers \in Asks(ms[i]),
              NEW b \in 1..l, s[b].role = "tool"
       PROVE  \E a \in 1..b : s[b].answers \in Asks(s[a])
  <2> PICK j : j = g[b]
    OBVIOUS
  <2>1. j \in 1..n /\ j \in 1..j
    <3>1. j \in 1..n
      BY <1>4
    <3> QED BY <3>1
  <2>2. CASE s[b] # ms[j]
    <3>1. j \in 1..g[b] /\ s[b] # ms[g[b]]
      BY <2>1, <2>2
    <3> QED BY <1>13, <1>19, <3>1
  <2>3. CASE s[b] = ms[j]
    <3>1. PICK i \in 1..j : ms[j].answers \in Asks(ms[i])
      BY <1>19, <2>1, <2>3
    <3>2. i \in 1..g[b] /\ ms[g[b]].answers \in Asks(ms[i])
      BY <3>1
    <3> QED BY <1>13, <1>19, <3>2
  <2> QED BY <2>2, <2>3
<1>20. Sound(s, top)
  BY <1>10, <1>12, <1>14, <1>15 DEF Sound
<1>21. Turned(ms) => Turned(s)
  BY <1>17 DEF Turned
<1> QED BY <1>1, <1>16, <1>18, <1>19, <1>20, <1>21

-----------------------------------------------------------------------------
(* Conversation: what the adapters send.                                   *)

LEMMA CallsUpTo ==
  ASSUME NEW ms \in Seq(Msg), NEW i \in 1..Len(ms), NEW id
  PROVE  id \in CallsOf(SubSeq(ms, 1, i)) <=> \E k \in 1..i : id \in Asks(ms[k])
<1> PICK n, s : n = Len(ms) /\ s = SubSeq(ms, 1, i)
  OBVIOUS
<1>1. n \in Nat /\ i \in Nat /\ i <= n
  BY MessagesAre
<1>2. s = [k \in 1..i |-> ms[k]]
  <2>1. s = [k \in 1..((i - 1) + 1) |-> ms[(k + 1) - 1]]
    BY <1>1
  <2>2. (i - 1) + 1 = i /\ \A k \in 1..i : (k + 1) - 1 = k
    BY <1>1
  <2> QED BY <2>1, <2>2
<1> QED BY <1>2 DEF CallsOf, Asks

\* Every result has been asked for.
AllAsked(ms) == \A j \in 1..Len(ms) : ms[j].role = "tool" => \E i \in 1..j : ms[j].answers \in Asks(ms[i])

LEMMA AskedFor ==
  ASSUME NEW ms \in Seq(Msg)
  PROVE  AllAsked(ms) <=> ResultsAsked(ms)
<1> PICK n : n = Len(ms)
  OBVIOUS
<1>1. DOMAIN ms = 1..n
  BY MessagesAre
<1>2. \A j \in 1..n : ms[j].answers \in CallsOf(SubSeq(ms, 1, j)) <=> \E i \in 1..j : ms[j].answers \in Asks(ms[i])
  BY CallsUpTo
<1> QED BY <1>1, <1>2 DEF AllAsked, ResultsAsked

LEMMA AnsweredBehind ==
  ASSUME NEW ms \in Seq(Msg), NEW top \in Nat, Sound(ms, top), Dangling(ms) = {}
  PROVE  CallsAnswered(ms)
<1> PICK n : n = Len(ms)
  OBVIOUS
<1>1. n \in Nat /\ DOMAIN ms = 1..n
  BY MessagesAre
<1> SUFFICES ASSUME NEW i \in 1..n, NEW id \in Asks(ms[i]) PROVE id \in BlockBehind(ms, i)
  BY <1>1 DEF CallsAnswered, Asks
<1>2. \A k \in 1..n :
        /\ ms[k].answers \in 0..top /\ (ms[k].role = "tool" <=> ms[k].answers # 0)
        /\ Asks(ms[k]) \subseteq 1..top
  BY DEF Sound, Shapes
<1>3. id \in CallsOf(ms)
  BY <1>1 DEF CallsOf, Asks
<1>4. PICK j \in 1..n : ms[j].answers = id
  BY <1>1, <1>3 DEF Dangling, AnsweredIn
<1>5. ms[j].role = "tool"
  <2>1. id \in 1..top
    BY <1>2
  <2>2. id # 0
    BY <2>1
  <2> QED BY <1>2, <1>4, <2>2
<1>6. i < j /\ OnlyResults(ms, i + 1, j)
  BY <1>4, <1>5 DEF Sound, Behind
<1>7. j \in (i + 1)..n /\ \A k \in (i + 1)..j : ms[k].role = "tool"
  <2>1. j \in (i + 1)..n
    BY <1>1, <1>6
  <2> QED BY <1>6, <2>1 DEF OnlyResults
<1> QED BY <1>4, <1>7 DEF BlockBehind

\* Results without calls are left out.
LEMMA WithoutOrphansIs ==
  ASSUME NEW ms \in Seq(Msg), NEW top \in Nat, Sound(ms, top)
  PROVE  /\ WithoutOrphans(ms) \in Seq(Msg) /\ Sound(WithoutOrphans(ms), top)
         /\ AllAsked(WithoutOrphans(ms))
         /\ Dangling(ms) = {} /\ Turned(ms) /\ WithoutOrphans(ms) # <<>> =>
              WithoutOrphans(ms)[Len(WithoutOrphans(ms))].role # "assistant"
<1> PICK n, s : n = Len(ms) /\ s = WithoutOrphans(ms)
  OBVIOUS
<1>1. n \in Nat /\ DOMAIN ms = 1..n /\ \A i \in 1..n : ms[i] \in Msg
  BY MessagesAre
<1> DEFINE K == {i \in 1..n : ms[i].role = "tool" => \E k \in 1..i : ms[i].answers \in Asks(ms[k])}
<1>2. s = FlattenSeq(PiecesOf(ms, K))
  <2>1. \A i \in 1..n :
          (ms[i].role = "tool" /\ ms[i].answers \notin CallsOf(SubSeq(ms, 1, i))) <=> i \notin K
    BY CallsUpTo
  <2> HIDE DEF K
  <2>2. [i \in 1..n |->
           IF ms[i].role = "tool" /\ ms[i].answers \notin CallsOf(SubSeq(ms, 1, i)) THEN <<>> ELSE <<ms[i]>>]
        = [i \in 1..n |-> IF i \in K THEN <<ms[i]>> ELSE <<>>]
    BY <2>1
  <2> QED BY <1>1, <2>2 DEF WithoutOrphans, PiecesOf
<1> HIDE DEF Msg
<1>3. s \in Seq(Msg) /\ \E g : Picks(g, s, ms, K, n)
  <2> HIDE DEF K
  <2> QED BY <1>2, PicksExist
<1>4. PICK g : Picks(g, s, ms, K, n)
  BY <1>3
<1> PICK l : l = Len(s)
  OBVIOUS
<1>5. /\ g \in [1..l -> 1..n]
      /\ \A a \in 1..l : s[a] = ms[g[a]] /\ g[a] \in K
      /\ \A a, b \in 1..l : a < b => g[a] < g[b]
      /\ \A i \in 1..n : i \in K => \E a \in 1..l : g[a] = i
  BY <1>4 DEF Picks
<1>6. \A a \in 1..l : g[a] \in 1..n /\ s[a] = ms[g[a]]
  BY <1>5
<1>7. l \in Nat
  BY <1>3, MessagesAre
\* The order is kept, both ways.
<1>8. ASSUME NEW a \in 1..l, NEW b \in 1..l PROVE (g[a] < g[b] => a < b) /\ (g[a] <= g[b] => a <= b)
  <2>1. a = b \/ a < b \/ b < a
    BY <1>7
  <2>2. b < a => g[b] < g[a]
    BY <1>5
  <2>3. g[a] \in Int /\ g[b] \in Int
    BY <1>6
  <2>4. a \in Int /\ b \in Int
    BY <1>7
  <2> QED BY <2>1, <2>2, <2>3, <2>4
<1>9. \A i \in 1..n :
        /\ ms[i].answers \in 0..top /\ (ms[i].role = "tool" <=> ms[i].answers # 0)
        /\ Asks(ms[i]) \subseteq 1..top
        /\ Asks(ms[i]) # {} => ms[i].role = "assistant"
  BY DEF Sound, Shapes
<1>10. Shapes(s, top)
  <2> SUFFICES ASSUME NEW a \in 1..l
               PROVE  /\ s[a].answers \in 0..top /\ (s[a].role = "tool" <=> s[a].answers # 0)
                      /\ Asks(s[a]) \subseteq 1..top
                      /\ Asks(s[a]) # {} => s[a].role = "assistant"
    BY DEF Shapes
  <2> PICK i : i = g[a]
    OBVIOUS
  <2>1. i \in 1..n /\ s[a] = ms[i]
    BY <1>6
  <2> QED BY <1>9, <2>1
<1>11. Behind(s)
  <2> SUFFICES ASSUME NEW a \in 1..l, NEW b \in 1..l, s[b].role = "tool", s[b].answers \in Asks(s[a])
               PROVE  a < b /\ OnlyResults(s, a + 1, b)
    BY DEF Behind
  <2>1. g[a] < g[b] /\ OnlyResults(ms, g[a] + 1, g[b])
    BY <1>6 DEF Sound, Behind
  <2>2. a < b
    BY <1>8, <2>1
  <2>3. ASSUME NEW c \in (a + 1)..b PROVE s[c].role = "tool"
    <3>1. c \in 1..l /\ a < c /\ (c < b \/ c = b)
      BY <1>7
    <3>2. g[a] < g[c] /\ (g[c] < g[b] \/ g[c] = g[b])
      BY <1>5, <3>1
    <3>3. g[c] \in (g[a] + 1)..g[b]
      <4>1. g[a] \in Int /\ g[b] \in Int /\ g[c] \in Int
        BY <1>6, <3>1
      <4> QED BY <3>2, <4>1
    <3> QED BY <1>6, <2>1, <3>1, <3>3 DEF OnlyResults
  <2> QED BY <2>2, <2>3 DEF OnlyResults
<1>12. Single(s)
  <2> SUFFICES ASSUME NEW a \in 1..l, NEW b \in 1..l, Asks(s[a]) \cap Asks(s[b]) # {} PROVE a = b
    BY DEF Single
  <2>1. g[a] = g[b]
    BY <1>6 DEF Sound, Single
  <2>2. a <= b /\ b <= a
    <3>1. g[a] \in Int
      BY <1>6
    <3> QED BY <1>8, <2>1, <3>1
  <2> QED BY <1>7, <2>2
<1>13. AllAsked(s)
  <2> SUFFICES ASSUME NEW b \in 1..l, s[b].role = "tool" PROVE \E a \in 1..b : s[b].answers \in Asks(s[a])
    BY DEF AllAsked
  <2> PICK j : j = g[b]
    OBVIOUS
  <2>1. j \in 1..n /\ s[b] = ms[j] /\ j \in K
    BY <1>5, <1>6
  <2>2. PICK k \in 1..j : ms[j].answers \in Asks(ms[k])
    BY <2>1
  <2>3. k \in 1..n /\ k <= j
    BY <1>1, <2>1
  <2>4. k \in K
    BY <1>9, <2>2, <2>3
  <2>5. PICK a \in 1..l : g[a] = k
    BY <1>5, <2>3, <2>4
  <2>6. a <= b
    BY <1>8, <2>3, <2>5
  <2>7. a \in 1..b
    BY <1>7, <2>6
  <2> QED BY <1>6, <2>1, <2>2, <2>5, <2>7
<1>14. Rooted(s)
  BY <1>13 DEF AllAsked, Rooted
<1>15. ASSUME Dangling(ms) = {}, Turned(ms), s # <<>> PROVE s[l].role # "assistant"
  <2>1. l \in 1..l
    <3>1. l # 0
      BY <1>3, <1>15, EmptySeq
    <3> QED BY <1>7, <3>1
  <2>2. n \in 1..n /\ ms # <<>>
    <3>1. n \in 1..n
      BY <1>1, <1>6, <2>1
    <3> QED BY <3>1, EmptySeq
  <2>3. ms[n].role # "assistant"
    <3> SUFFICES ASSUME ms[n].role = "assistant" PROVE FALSE
      OBVIOUS
    <3>1. PICK id : id \in Asks(ms[n])
      BY <1>15, <2>2 DEF Turned
    <3>2. id \in CallsOf(ms)
      BY <1>1, <2>2, <3>1 DEF CallsOf, Asks
    <3>3. PICK j \in 1..n : ms[j].answers = id
      BY <1>1, <1>15, <3>2 DEF Dangling, AnsweredIn
    <3>4. id # 0
      <4>1. id \in 1..top
        BY <1>9, <2>2, <3>1
      <4> QED BY <4>1
    <3>5. ms[j].role = "tool" /\ ms[j].answers \in Asks(ms[n])
      BY <1>9, <3>1, <3>3, <3>4
    <3>6. n < j
      BY <2>2, <3>5 DEF Sound, Behind
    <3> QED BY <1>1, <3>6
  <2>4. CASE n \in K
    <3>1. PICK a \in 1..l : g[a] = n
      BY <1>5, <2>2, <2>4
    <3>2. g[l] <= g[a]
      BY <1>6, <2>1, <3>1
    <3>3. l <= a
      BY <1>8, <2>1, <3>2
    <3>4. a = l
      BY <1>7, <3>3
    <3> QED BY <1>6, <2>1, <2>3, <3>1, <3>4
  <2>5. CASE n \notin K
    <3>1. ms[n].role = "tool" /\ ~ \E k \in 1..n : ms[n].answers \in Asks(ms[k])
      BY <2>2, <2>5
    <3>2. OnlyResults(ms, 1, n)
      BY <2>2, <3>1 DEF Sound, Rooted
    <3>3. ms[g[l]].role = "tool"
      BY <1>6, <2>1, <3>2 DEF OnlyResults
    <3> QED BY <1>6, <2>1, <3>3
  <2> QED BY <2>4, <2>5
<1>16. Sound(s, top)
  BY <1>10, <1>11, <1>12, <1>14 DEF Sound
<1> QED BY <1>3, <1>13, <1>15, <1>16

\* Where every call has a result there is nothing to repair.
LEMMA NothingToRepair ==
  ASSUME NEW ms \in Seq(Msg), Dangling(ms) = {}
  PROVE  Repaired(ms) = ms
<1> PICK n : n = Len(ms)
  OBVIOUS
<1>1. n \in Nat /\ DOMAIN ms = 1..n /\ \A i \in 1..n : ms[i] \in Msg /\ ms[i].calls \in Seq(Int)
  <2>1. n \in Nat /\ DOMAIN ms = 1..n /\ \A i \in 1..n : ms[i] \in Msg
    BY MessagesAre
  <2> QED BY <2>1 DEF Msg
<1>2. ASSUME NEW i \in 1..n PROVE <<ms[i]>> \o Remarks(ms[i].calls, ms) = <<ms[i]>>
  <2> PICK r : r = Remarks(ms[i].calls, ms)
    OBVIOUS
  <2>1. r \in Seq(Remark) /\ \A j \in 1..Len(r) : \E id \in ToSet(ms[i].calls) \cap Dangling(ms) : r[j] = Result(id, "remark")
    BY <1>1, RemarksAre
  <2>2. r = <<>>
    <3> HIDE DEF Remark
    <3>1. Len(r) \in Nat /\ ~ (1 \in 1..Len(r))
      BY <2>1, LenProperties
    <3>2. Len(r) = 0
      BY <3>1
    <3> QED BY <2>1, <3>2, EmptySeq
  <2> HIDE DEF Msg
  <2>3. <<ms[i]>> \in Seq(Msg)
    BY <1>1
  <2> QED BY <2>2, <2>3, ConcatEmptySeq
<1> HIDE DEF Msg
<1>3. [i \in 1..n |-> <<ms[i]>> \o Remarks(ms[i].calls, ms)] = [i \in 1..n |-> <<ms[i]>>]
  BY <1>2
<1>4. Repaired(ms) = FlattenSeq([i \in 1..n |-> <<ms[i]>>])
  BY <1>1, <1>3 DEF Repaired
<1> QED BY <1>4, SinglesAre

LEMMA WithoutIs ==
  ASSUME NEW ids \in Seq(Int), NEW gone
  PROVE  /\ Without(ids, gone) \in Seq(Int)
         /\ ToSet(Without(ids, gone)) = ToSet(ids) \ gone
         /\ gone = {} => Without(ids, gone) = ids
<1> PICK n, s : n = Len(ids) /\ s = Without(ids, gone)
  OBVIOUS
<1>1. n \in Nat /\ DOMAIN ids = 1..n
  BY LenProperties
<1> DEFINE K == {i \in 1..n : ids[i] \notin gone}
<1>2. s = FlattenSeq(PiecesOf(ids, K))
  <2>1. \A i \in 1..n : ids[i] \in gone <=> i \notin K
    OBVIOUS
  <2> HIDE DEF K
  <2>2. [j \in 1..n |-> IF ids[j] \in gone THEN <<>> ELSE <<ids[j]>>]
        = [j \in 1..n |-> IF j \in K THEN <<ids[j]>> ELSE <<>>]
    BY <2>1
  <2> QED BY <1>1, <2>2 DEF Without, PiecesOf
<1>3. s \in Seq(Int) /\ \E g : Picks(g, s, ids, K, n)
  <2> HIDE DEF K
  <2> QED BY <1>2, PicksExist
<1>4. PICK g : Picks(g, s, ids, K, n)
  BY <1>3
<1>5. /\ g \in [1..Len(s) -> 1..n]
      /\ \A a \in 1..Len(s) : s[a] = ids[g[a]] /\ g[a] \in K
      /\ \A i \in 1..n : i \in K => \E a \in 1..Len(s) : g[a] = i
  BY <1>4 DEF Picks
<1>6. DOMAIN s = 1..Len(s)
  BY <1>3, LenProperties
<1>7. ASSUME NEW id \in ToSet(s) PROVE id \in ToSet(ids) \ gone
  <2>1. PICK a \in 1..Len(s) : s[a] = id
    BY <1>6 DEF ToSet
  <2>2. g[a] \in 1..n /\ ids[g[a]] = id /\ id \notin gone
    BY <1>5, <2>1
  <2> QED BY <1>1, <2>2 DEF ToSet
<1>8. ASSUME NEW id \in ToSet(ids) \ gone PROVE id \in ToSet(s)
  <2>1. PICK i \in 1..n : ids[i] = id
    BY <1>1 DEF ToSet
  <2>2. i \in K
    BY <2>1
  <2>3. PICK a \in 1..Len(s) : g[a] = i
    BY <1>5, <2>2
  <2> QED BY <1>5, <1>6, <2>1, <2>3 DEF ToSet
<1>9. ASSUME gone = {} PROVE s = ids
  <2>1. \A j \in 1..n : ids[j] \notin gone
    BY <1>9
  <2>2. [j \in 1..n |-> IF ids[j] \in gone THEN <<>> ELSE <<ids[j]>>] = [j \in 1..n |-> <<ids[j]>>]
    BY <2>1
  <2>3. s = FlattenSeq([j \in 1..n |-> <<ids[j]>>])
    BY <1>1, <2>2 DEF Without
  <2> QED BY <2>3, SinglesAre
<1> QED BY <1>3, <1>7, <1>8, <1>9

\* Anthropic's request.
LEMMA AnthropicIs ==
  ASSUME NEW ms \in Seq(Msg), NEW top \in Nat, Sound(ms, top)
  PROVE  /\ CallsAnswered(ToAnthropic(ms)) /\ ResultsAsked(ToAnthropic(ms))
         /\ ToAnthropic(ms) # <<>> => Last(ToAnthropic(ms)).role # "assistant"
         /\ Dangling(ms) = {} /\ Dangling(WithoutOrphans(ms)) = {} /\ Turned(ms) =>
              ToAnthropic(ms) = WithoutOrphans(ms)
<1> PICK p : p = WithoutOrphans(ms)
  OBVIOUS
<1> PICK n, gone : n = Len(p) /\ gone = Dangling(p)
  OBVIOUS
<1>1. /\ p \in Seq(Msg) /\ Sound(p, top) /\ AllAsked(p)
      /\ Dangling(ms) = {} /\ Turned(ms) /\ p # <<>> => p[n].role # "assistant"
  BY WithoutOrphansIs
<1>2. n \in Nat /\ DOMAIN p = 1..n /\ \A i \in 1..n : p[i] \in Msg
  BY <1>1, MessagesAre
<1>0. PICK wire : wire = [i \in 1..n |-> [p[i] EXCEPT !.calls = Without(p[i].calls, gone)]]
  OBVIOUS
<1>3. \A i \in 1..n :
        /\ wire[i] \in Msg /\ wire[i].role = p[i].role /\ wire[i].answers = p[i].answers
        /\ Asks(wire[i]) = Asks(p[i]) \ gone
        /\ gone = {} => wire[i] = p[i]
  <2> TAKE i \in 1..n
  <2> PICK m, ids : m = p[i] /\ ids = Without(m.calls, gone)
    OBVIOUS
  <2>1. m \in Msg
    BY <1>2
  <2>2. m.calls \in Seq(Int)
    BY <2>1 DEF Msg
  <2>3. ids \in Seq(Int) /\ ToSet(ids) = ToSet(m.calls) \ gone /\ (gone = {} => ids = m.calls)
    BY <2>2, WithoutIs
  <2>4. wire[i] = [m EXCEPT !.calls = ids]
    BY <1>0
  <2>5. wire[i] \in Msg /\ wire[i].role = m.role /\ wire[i].answers = m.answers /\ wire[i].calls = ids
    BY <2>1, <2>3, <2>4 DEF Msg
  <2>6. ids = m.calls => wire[i] = m
    BY <2>1, <2>4 DEF Msg
  <2> QED BY <2>3, <2>5, <2>6 DEF Asks
<1> HIDE DEF Msg
<1>4. wire \in Seq(Msg) /\ Len(wire) = n
  <2>1. DOMAIN wire = 1..n /\ wire = [i \in 1..n |-> wire[i]]
    BY <1>0
  <2>2. wire \in [1..n -> Msg]
    BY <1>3, <2>1
  <2> QED BY <1>2, <2>2, ListOf
<1>5. gone = {} => wire = p
  <2> SUFFICES ASSUME gone = {} PROVE wire = p
    OBVIOUS
  <2>1. wire = [i \in 1..n |-> p[i]]
    <3>1. wire = [i \in 1..n |-> wire[i]]
      BY <1>0
    <3>2. \A i \in 1..n : wire[i] = p[i]
      BY <1>3
    <3> QED BY <3>1, <3>2
  <2>2. p = [i \in 1..n |-> p[i]]
    BY <1>1, <1>2
  <2> QED BY <2>1, <2>2
\* The calls that are left are answered, and so are those of the results.
<1>6. \A i \in 1..n : \A id \in Asks(wire[i]) : id \in Asks(p[i]) /\ \E j \in 1..n : wire[j].answers = id /\ id # 0
  <2> SUFFICES ASSUME NEW i \in 1..n, NEW id \in Asks(wire[i])
               PROVE  id \in Asks(p[i]) /\ \E j \in 1..n : wire[j].answers = id /\ id # 0
    OBVIOUS
  <2>1. id \in Asks(p[i]) /\ id \notin gone
    BY <1>3
  <2>2. id \in AnsweredIn(p)
    BY <1>2, <2>1 DEF Dangling, CallsOf, Asks
  <2>3. PICK j \in 1..n : p[j].answers = id /\ id # 0
    BY <1>2, <2>2 DEF AnsweredIn
  <2> QED BY <1>3, <2>1, <2>3
<1>7. \A j \in 1..n : wire[j].role = "tool" => wire[j].answers \notin gone /\ wire[j].answers # 0
  <2> SUFFICES ASSUME NEW j \in 1..n, p[j].role = "tool" PROVE p[j].answers \notin gone /\ p[j].answers # 0
    BY <1>3
  <2>1. p[j].answers # 0
    BY <1>1 DEF Sound, Shapes
  <2> QED BY <1>2, <2>1 DEF Dangling, AnsweredIn
<1>8. AllAsked(wire)
  <2> SUFFICES ASSUME NEW j \in 1..n, wire[j].role = "tool"
               PROVE  \E i \in 1..j : wire[j].answers \in Asks(wire[i])
    BY <1>4 DEF AllAsked
  <2>1. PICK i \in 1..j : p[j].answers \in Asks(p[i])
    BY <1>1, <1>3 DEF AllAsked
  <2>2. i \in 1..n
    BY <1>2
  <2>3. wire[j].answers \notin gone /\ wire[j].answers = p[j].answers
    BY <1>3, <1>7
  <2> QED BY <1>3, <2>1, <2>2, <2>3
<1>9. Sound(wire, top)
  <2>1. \A i \in 1..n :
          /\ p[i].answers \in 0..top /\ (p[i].role = "tool" <=> p[i].answers # 0)
          /\ Asks(p[i]) \subseteq 1..top
          /\ Asks(p[i]) # {} => p[i].role = "assistant"
    BY <1>1 DEF Sound, Shapes
  <2>2. Shapes(wire, top)
    <3>1. \A i \in 1..n : Asks(wire[i]) \subseteq Asks(p[i])
      BY <1>3
    <3> SUFFICES ASSUME NEW i \in 1..n
                 PROVE  /\ wire[i].answers \in 0..top /\ (wire[i].role = "tool" <=> wire[i].answers # 0)
                        /\ Asks(wire[i]) \subseteq 1..top
                        /\ Asks(wire[i]) # {} => wire[i].role = "assistant"
      BY <1>4 DEF Shapes
    <3>2. wire[i].role = p[i].role /\ wire[i].answers = p[i].answers
      BY <1>3
    <3>3. Asks(wire[i]) \subseteq Asks(p[i])
      BY <3>1
    <3>4. /\ p[i].answers \in 0..top /\ (p[i].role = "tool" <=> p[i].answers # 0)
          /\ Asks(p[i]) \subseteq 1..top
          /\ Asks(p[i]) # {} => p[i].role = "assistant"
      BY <2>1
    <3> QED BY <3>2, <3>3, <3>4
  <2>3. Behind(wire)
    <3> SUFFICES ASSUME NEW i \in 1..n, NEW j \in 1..n, wire[j].role = "tool", wire[j].answers \in Asks(wire[i])
                 PROVE  i < j /\ OnlyResults(wire, i + 1, j)
      BY <1>4 DEF Behind
    <3>1. p[j].role = "tool" /\ p[j].answers \in Asks(p[i])
      BY <1>3
    <3>2. i < j /\ OnlyResults(p, i + 1, j)
      BY <1>1, <3>1 DEF Sound, Behind
    <3>3. \A k \in (i + 1)..j : k \in 1..n
      BY <1>2
    <3> QED BY <1>3, <3>2, <3>3 DEF OnlyResults
  <2>4. Single(wire)
    <3> SUFFICES ASSUME NEW i \in 1..n, NEW j \in 1..n, Asks(wire[i]) \cap Asks(wire[j]) # {} PROVE i = j
      BY <1>4 DEF Single
    <3>1. Asks(p[i]) \cap Asks(p[j]) # {}
      BY <1>3
    <3> QED BY <1>1, <3>1 DEF Sound, Single
  <2>5. Rooted(wire)
    BY <1>8 DEF AllAsked, Rooted
  <2> QED BY <2>2, <2>3, <2>4, <2>5 DEF Sound
<1>10. Dangling(wire) = {}
  <2>1. DOMAIN wire = 1..n
    BY <1>4, MessagesAre
  <2>2. Backed(wire, n)
    BY <1>6 DEF Backed
  <2> QED BY <2>1, <2>2, NothingDangles
<1>11. ToAnthropic(ms) = IF wire # <<>> /\ Last(wire).role = "assistant" THEN Append(wire, Plain("user")) ELSE wire
  <2>1. wire = [i \in DOMAIN p |-> [p[i] EXCEPT !.calls = Without(@, Dangling(p))]]
    BY <1>0, <1>2
  <2> QED BY <2>1 DEF ToAnthropic
<1>12. CASE wire # <<>> /\ Last(wire).role = "assistant"
  <2> PICK w, u : w = Append(wire, u) /\ u = Plain("user")
    OBVIOUS
  <2>1. u \in Msg /\ u.role = "user" /\ u.answers = 0 /\ u.calls = <<>> /\ Asks(u) = {}
    <3>1. u \in Msg /\ u.role = "user"
      BY PlainIs
    <3>2. u.answers = 0 /\ u.calls = <<>>
      BY DEF Plain
    <3> QED BY <3>1, <3>2 DEF Asks, ToSet
  <2>2. w \in Seq(Msg) /\ Len(w) = n + 1 /\ w[n + 1] = u /\ \A i \in 1..n : w[i] = wire[i]
    BY <1>4, <2>1, AppendProperties
  <2>3. \A i \in 1..(n + 1) : i \in 1..n \/ i = n + 1
    BY <1>2
  <2>4. Sound(w, top)
    <3>1. Len(wire) <= Len(w) /\ \A j \in (Len(wire) + 1)..Len(w) : j = n + 1
      BY <1>2, <1>4, <2>2
    <3>2. \A j \in (Len(wire) + 1)..Len(w) : w[j].role = "user" /\ w[j].answers = 0 /\ Asks(w[j]) = {}
      BY <2>1, <2>2, <3>1
    <3>3. \A i \in 1..Len(wire) : w[i] = wire[i]
      BY <1>4, <2>2
    <3> QED BY <1>4, <1>9, <2>2, <3>1, <3>2, <3>3, UsersSound
  <2>5. AllAsked(w)
    <3> SUFFICES ASSUME NEW j \in 1..(n + 1), w[j].role = "tool"
                 PROVE  \E i \in 1..j : w[j].answers \in Asks(w[i])
      BY <2>2 DEF AllAsked
    <3>1. j \in 1..n
      BY <2>1, <2>2, <2>3
    <3>2. PICK i \in 1..j : wire[j].answers \in Asks(wire[i])
      <4>1. wire[j].role = "tool"
        BY <2>2, <3>1
      <4> QED BY <1>4, <1>8, <3>1, <4>1 DEF AllAsked
    <3>3. i \in 1..n
      BY <1>2, <3>1
    <3> QED BY <2>2, <3>1, <3>2, <3>3
  <2>6. Dangling(w) = {}
    <3> SUFFICES ASSUME NEW a \in 1..(n + 1), NEW id \in Asks(w[a])
                 PROVE  \E b \in 1..(n + 1) : w[b].answers = id /\ id # 0
      <4> PICK k : k = n + 1
        OBVIOUS
      <4>1. DOMAIN w = 1..k
        BY <2>2, MessagesAre
      <4>2. Backed(w, k)
        BY DEF Backed
      <4> QED BY <4>1, <4>2, NothingDangles
    <3>1. a \in 1..n
      BY <2>1, <2>2, <2>3
    <3>2. PICK b \in 1..n : wire[b].answers = id /\ id # 0
      <4>1. id \in Asks(wire[a])
        BY <2>2, <3>1
      <4> QED BY <1>6, <3>1, <4>1
    <3>3. b \in 1..(n + 1)
      BY <1>2
    <3> QED BY <2>2, <3>2, <3>3
  <2>7. Last(w).role # "assistant"
    BY <2>1, <2>2 DEF Last
  <2>8. ToAnthropic(ms) = w
    BY <1>11, <1>12
  <2>9. ~(Dangling(ms) = {} /\ gone = {} /\ Turned(ms))
    <3> SUFFICES ASSUME Dangling(ms) = {}, gone = {}, Turned(ms) PROVE FALSE
      OBVIOUS
    <3>1. wire = p /\ p # <<>>
      BY <1>5, <1>12
    <3> QED BY <1>1, <1>12, <3>1 DEF Last
  <2> QED BY <2>2, <2>4, <2>5, <2>6, <2>7, <2>8, <2>9, AskedFor, AnsweredBehind
<1>13. CASE ~(wire # <<>> /\ Last(wire).role = "assistant")
  <2>1. ToAnthropic(ms) = wire
    BY <1>11, <1>13
  <2> QED BY <1>4, <1>5, <1>8, <1>9, <1>10, <1>13, <2>1, AskedFor, AnsweredBehind
<1> QED BY <1>12, <1>13

\* The empty request of Gemini.
LEMMA EmptyIsFine ==
  CallsAnswered(<<Plain("user")>>) /\ ResultsAsked(<<Plain("user")>>)
<1> PICK u : u = Plain("user")
  OBVIOUS
<1>1. u.role = "user" /\ u.calls = <<>>
  BY DEF Plain
<1>2. DOMAIN <<u>> = {1} /\ <<u>>[1] = u
  OBVIOUS
<1>3. ToSet(u.calls) = {}
  BY <1>1 DEF ToSet
<1> QED BY <1>1, <1>2, <1>3 DEF CallsAnswered, ResultsAsked

LEMMA PairedWires == TalkInv /\ PairInv => WireWellFormed
<1> SUFFICES ASSUME TalkInv, PairInv, pc = "call"
             PROVE  /\ Validated(messages) =>
                         /\ ToOpenAI(messages) = BuiltForOpenAI(messages)
                         /\ ToAnthropic(messages) = BuiltForAnthropic(messages)
                         /\ BuiltForGemini(messages) # <<>> => ToGemini(messages) = BuiltForGemini(messages)
                    /\ CallsAnswered(ToOpenAI(messages))
                    /\ CallsAnswered(ToGemini(messages)) /\ ResultsAsked(ToGemini(messages))
                    /\ ResultsAsked(LegacyGemini(messages))
                    /\ CallsAnswered(ToAnthropic(messages)) /\ ResultsAsked(ToAnthropic(messages))
                    /\ ToAnthropic(messages) # <<>> => Last(ToAnthropic(messages)).role # "assistant"
  BY DEF WireWellFormed, LegacyAnthropic
<1> PICK ms, top, p : ms = messages /\ top = issued /\ p = WithoutOrphans(ms)
  OBVIOUS
<1>1. ms \in Seq(Msg) /\ top \in Nat /\ Sound(ms, top) /\ Turned(ms)
  BY DEF TalkInv, PairInv
<1>2. p \in Seq(Msg) /\ Sound(p, top) /\ AllAsked(p)
  BY <1>1, WithoutOrphansIs
<1>3. CallsAnswered(ToOpenAI(ms))
  <2>1. Repaired(ms) \in Seq(Msg) /\ Sound(Repaired(ms), top) /\ Dangling(Repaired(ms)) = {}
    BY <1>1, RepairedSound
  <2> QED BY <1>1, <2>1, AnsweredBehind DEF ToOpenAI
<1>4. CallsAnswered(Repaired(p)) /\ ResultsAsked(Repaired(p))
  <2> PICK w : w = Repaired(p)
    OBVIOUS
  <2>1. w \in Seq(Msg) /\ Sound(w, top) /\ Dangling(w) = {}
    BY <1>1, <1>2, RepairedSound
  <2>2. AllAsked(w)
    BY <1>1, <1>2, RepairedSound DEF AllAsked
  <2> QED BY <1>1, <2>1, <2>2, AnsweredBehind, AskedFor
<1>5. CallsAnswered(ToGemini(ms)) /\ ResultsAsked(ToGemini(ms))
  BY <1>4, EmptyIsFine DEF ToGemini
<1>6. ResultsAsked(LegacyGemini(ms))
  BY <1>2, AskedFor, EmptyIsFine DEF LegacyGemini
<1>7. /\ CallsAnswered(ToAnthropic(ms)) /\ ResultsAsked(ToAnthropic(ms))
      /\ ToAnthropic(ms) # <<>> => Last(ToAnthropic(ms)).role # "assistant"
  BY <1>1, AnthropicIs
<1>8. ASSUME Validated(ms)
      PROVE  /\ ToOpenAI(ms) = BuiltForOpenAI(ms)
             /\ ToAnthropic(ms) = BuiltForAnthropic(ms)
             /\ BuiltForGemini(ms) # <<>> => ToGemini(ms) = BuiltForGemini(ms)
  <2>1. Dangling(ms) = {} /\ Dangling(p) = {}
    BY <1>8 DEF Validated, InternalValid, GeminiValid, BuiltForGemini
  <2>2. Repaired(ms) = ms /\ Repaired(p) = p
    BY <1>1, <1>2, <2>1, NothingToRepair
  <2>3. ToAnthropic(ms) = p
    BY <1>1, <2>1, AnthropicIs
  <2> QED BY <2>2, <2>3 DEF ToOpenAI, BuiltForOpenAI, BuiltForAnthropic, BuiltForGemini, ToGemini
<1> QED BY <1>3, <1>5, <1>6, <1>7, <1>8

-----------------------------------------------------------------------------
(* Conversation: the steps of the loop keep calls and results together.    *)

LEMMA DueLess ==
  ASSUME NEW ms, NEW top, NEW ids, Due(ms, top, ids), NEW fewer \in SUBSET ids
  PROVE  Due(ms, top, fewer)
<1>1. fewer \subseteq 1..top
  BY DEF Due
<1>2. CASE \E p \in 1..Len(ms) : ids \subseteq Asks(ms[p]) /\ OnlyResults(ms, p + 1, Len(ms))
  <2>1. PICK p \in 1..Len(ms) : ids \subseteq Asks(ms[p]) /\ OnlyResults(ms, p + 1, Len(ms))
    BY <1>2
  <2>2. fewer \subseteq Asks(ms[p])
    BY <2>1
  <2> QED BY <1>1, <2>1, <2>2 DEF Due
<1>3. CASE OnlyResults(ms, 1, Len(ms)) /\ \A i \in 1..Len(ms) : Asks(ms[i]) \cap ids = {}
  <2>1. \A i \in 1..Len(ms) : Asks(ms[i]) \cap fewer = {}
    BY <1>3
  <2> QED BY <1>1, <1>3, <2>1 DEF Due
<1> QED BY <1>2, <1>3 DEF Due

LEMMA AnswersSound ==
  ASSUME NEW ms \in Seq(Msg), NEW top \in Nat, Sound(ms, top), NEW ids, Due(ms, top, ids),
         NEW r \in Seq(Msg),
         \A k \in 1..Len(r) : r[k].role = "tool" /\ r[k].answers \in ids /\ Asks(r[k]) = {}
  PROVE  /\ ms \o r \in Seq(Msg) /\ Sound(ms \o r, top) /\ Due(ms \o r, top, ids)
         /\ Turned(ms) \/ r # <<>> => Turned(ms \o r)
<1> PICK n, l, s : n = Len(ms) /\ l = Len(r) /\ s = ms \o r
  OBVIOUS
<1>1. n \in Nat /\ l \in Nat
  BY MessagesAre
<1> HIDE DEF Msg
<1>2. s \in Seq(Msg) /\ Len(s) = n + l /\ \A i \in 1..(n + l) : s[i] = IF i <= n THEN ms[i] ELSE r[i - n]
  BY ConcatProperties
<1>3. \A i \in 1..n : s[i] = ms[i]
  <2>1. \A i \in 1..n : i \in 1..(n + l) /\ i <= n
    BY <1>1
  <2> QED BY <1>2, <2>1
<1>4. ASSUME NEW j \in (n + 1)..(n + l)
      PROVE  s[j].role = "tool" /\ s[j].answers \in ids /\ Asks(s[j]) = {}
  <2>1. j \in 1..(n + l) /\ ~(j <= n) /\ j - n \in 1..l
    BY <1>1
  <2>2. s[j] = r[j - n]
    BY <1>2, <2>1
  <2> QED BY <2>1, <2>2
<1>5. n <= Len(s) /\ \A j \in (n + 1)..Len(s) : s[j].role = "tool" /\ s[j].answers \in ids /\ Asks(s[j]) = {}
  <2>1. n <= n + l /\ Len(s) = n + l
    BY <1>1, <1>2
  <2> QED BY <1>4, <2>1
<1>6. Sound(s, top) /\ Due(s, top, ids)
  BY <1>2, <1>3, <1>5, ResultsSound
<1>7. ASSUME r # <<>> PROVE Turned(s)
  <2>1. l # 0
    BY <1>7, EmptySeq
  <2>2. n + l \in (n + 1)..(n + l)
    BY <1>1, <2>1
  <2>3. s[n + l].role = "tool"
    BY <1>4, <2>2
  <2> QED BY <1>2, <2>3 DEF Turned
<1>8. ASSUME r = <<>> PROVE s = ms
  BY <1>8, ConcatEmptySeq
<1> QED BY <1>2, <1>6, <1>7, <1>8

LEMMA AnswerSound ==
  ASSUME NEW ms \in Seq(Msg), NEW top \in Nat, Sound(ms, top), NEW ids, Due(ms, top, ids),
         NEW m \in Msg, m.role = "tool", m.answers \in ids, Asks(m) = {}
  PROVE  /\ Append(ms, m) \in Seq(Msg) /\ Sound(Append(ms, m), top) /\ Due(Append(ms, m), top, ids)
         /\ Turned(Append(ms, m))
<1> PICK n, s : n = Len(ms) /\ s = Append(ms, m)
  OBVIOUS
<1> HIDE DEF Msg
<1>1. n \in Nat /\ s \in Seq(Msg) /\ Len(s) = n + 1 /\ s[n + 1] = m /\ \A i \in 1..n : s[i] = ms[i]
  <2>1. n \in Nat
    BY MessagesAre
  <2> QED BY <2>1, AppendProperties
<1>2. \A j \in (n + 1)..Len(s) : j = n + 1
  BY <1>1
<1>3. n <= Len(s) /\ \A j \in (n + 1)..Len(s) : s[j].role = "tool" /\ s[j].answers \in ids /\ Asks(s[j]) = {}
  <2>1. n <= Len(s)
    BY <1>1
  <2> QED BY <1>1, <1>2, <2>1
<1>4. Sound(s, top) /\ Due(s, top, ids)
  BY <1>1, <1>3, ResultsSound
<1>5. Turned(s)
  BY <1>1 DEF Turned
<1> QED BY <1>1, <1>4, <1>5

LEMMA HeardSound ==
  ASSUME NEW ms \in Seq(Msg), NEW top \in Nat, Sound(ms, top), Turned(ms),
         NEW r \in {<<>>, <<Plain("user")>>}
  PROVE  ms \o r \in Seq(Msg) /\ Sound(ms \o r, top) /\ Turned(ms \o r)
<1>1. CASE r = <<>>
  BY <1>1, ConcatEmptySeq
<1>2. CASE r # <<>>
  <2> PICK n, u, s : n = Len(ms) /\ u = Plain("user") /\ s = ms \o r
    OBVIOUS
  <2>1. u \in Msg /\ u.role = "user" /\ u.answers = 0 /\ Asks(u) = {}
    <3>1. u \in Msg /\ u.role = "user"
      BY PlainIs
    <3>2. u.answers = 0 /\ u.calls = <<>>
      BY DEF Plain
    <3> QED BY <3>1, <3>2 DEF Asks, ToSet
  <2> HIDE DEF Msg
  <2>2. n \in Nat /\ r = <<u>> /\ r \in Seq(Msg) /\ Len(r) = 1 /\ r[1] = u
    <3>1. n \in Nat
      BY MessagesAre
    <3> QED BY <1>2, <2>1, <3>1
  <2>3. s \in Seq(Msg) /\ Len(s) = n + 1 /\ \A i \in 1..(n + 1) : s[i] = IF i <= n THEN ms[i] ELSE r[i - n]
    BY <2>2, ConcatProperties
  <2>4. s[n + 1] = u /\ \A i \in 1..n : s[i] = ms[i]
    <3>1. n + 1 \in 1..(n + 1) /\ ~(n + 1 <= n) /\ (n + 1) - n = 1
      BY <2>2
    <3>2. \A i \in 1..n : i \in 1..(n + 1) /\ i <= n
      BY <2>2
    <3> QED BY <2>2, <2>3, <3>1, <3>2
  <2>5. Sound(s, top)
    <3>1. n <= Len(s) /\ \A j \in (n + 1)..Len(s) : j = n + 1
      BY <2>2, <2>3
    <3>2. \A j \in (n + 1)..Len(s) : s[j].role = "user" /\ s[j].answers = 0 /\ Asks(s[j]) = {}
      BY <2>1, <2>4, <3>1
    <3> QED BY <2>3, <2>4, <3>1, <3>2, UsersSound
  <2>6. Turned(s)
    BY <2>1, <2>3, <2>4 DEF Turned
  <2> QED BY <2>3, <2>5, <2>6
<1> QED BY <1>1, <1>2

LEMMA ExpiredSound ==
  ASSUME NEW ms \in Seq(Msg)
  PROVE  /\ Expired(ms) \in Seq(Msg)
         /\ \A top : Sound(ms, top) => Sound(Expired(ms), top)
         /\ Turned(ms) => Turned(Expired(ms))
<1> PICK n, s, last : n = Len(ms) /\ s = Expired(ms) /\ last = LastAnswer(ms)
  OBVIOUS
<1>1. n \in Nat /\ DOMAIN ms = 1..n /\ \A i \in 1..n : ms[i] \in Msg
  BY MessagesAre
<1>2. s = [i \in 1..n |-> IF i < last /\ ms[i].text = "full" THEN [ms[i] EXCEPT !.text = "cut"] ELSE ms[i]]
  BY <1>1 DEF Expired
<1>3. \A i \in 1..n :
        s[i] \in Msg /\ s[i].role = ms[i].role /\ s[i].answers = ms[i].answers /\ s[i].calls = ms[i].calls
  <2>1. \A i \in 1..n : s[i] = IF i < last /\ ms[i].text = "full" THEN [ms[i] EXCEPT !.text = "cut"] ELSE ms[i]
    BY <1>2
  <2> QED BY <1>1, <2>1 DEF Msg, Texts
<1>4. \A i \in 1..n : Asks(s[i]) = Asks(ms[i])
  BY <1>3 DEF Asks
<1> HIDE DEF Msg
<1>5. s \in Seq(Msg) /\ Len(s) = n
  <2>1. s \in [1..n -> Msg]
    BY <1>2, <1>3
  <2> QED BY <1>1, <2>1, ListOf
<1> QED BY <1>3, <1>4, <1>5, SameSound

LEMMA SeenSound ==
  ASSUME NEW ms \in Seq(Msg)
  PROVE  /\ Seen(ms) \in Seq(Msg) /\ Len(Seen(ms)) = Len(ms)
         /\ \A top : Sound(ms, top) => Sound(Seen(ms), top)
<1> PICK n, s : n = Len(ms) /\ s = Seen(ms)
  OBVIOUS
<1>1. n \in Nat /\ DOMAIN ms = 1..n /\ \A i \in 1..n : ms[i] \in Msg /\ ms[i].seen \in Nat
  BY MessagesAre
<1>2. s = [i \in 1..n |-> IF ms[i].text = "full" THEN [ms[i] EXCEPT !.seen = @ + 1] ELSE ms[i]]
  BY <1>1 DEF Seen
<1>3. ASSUME NEW i \in 1..n
      PROVE  s[i] \in Msg /\ s[i].role = ms[i].role /\ s[i].answers = ms[i].answers /\ s[i].calls = ms[i].calls
  <2> PICK m, k : m = ms[i] /\ k = m.seen + 1
    OBVIOUS
  <2>1. m \in Msg /\ k \in Nat
    BY <1>1
  <2>2. s[i] = IF m.text = "full" THEN [m EXCEPT !.seen = k] ELSE m
    BY <1>2
  <2> QED BY <2>1, <2>2 DEF Msg
<1>4. \A i \in 1..n : Asks(s[i]) = Asks(ms[i])
  BY <1>3 DEF Asks
<1> HIDE DEF Msg
<1>5. s \in Seq(Msg) /\ Len(s) = n
  <2>1. s \in [1..n -> Msg]
    BY <1>2, <1>3
  <2> QED BY <1>1, <2>1, ListOf
<1> QED BY <1>3, <1>4, <1>5, SameSound

LEMMA CompactedSound ==
  ASSUME NEW ms \in Seq(Msg), NEW top \in Nat, Sound(ms, top), NEW keep \in Nat, start \in Nat
  PROVE  /\ Sound(Compacted(ms, keep), top)
         /\ \A ids : Due(ms, top, ids) => Due(Compacted(ms, keep), top, ids)
         /\ Turned(ms) => Turned(Compacted(ms, keep))
<1> PICK s : s = SubSeq(ms, start + 1, Len(ms))
  OBVIOUS
<1>1. /\ s \in Seq(Msg) /\ Len(s) \in Nat /\ Sound(s, top)
      /\ \A ids : Due(ms, top, ids) => Due(s, top, ids)
      /\ Turned(ms) => Turned(s)
  <2>1. start + 1 \in Nat /\ start + 1 >= 1
    OBVIOUS
  <2>2. s \in Seq(Msg) /\ Len(s) \in Nat
    BY <2>1, RestIs, MessagesAre
  <2>3. PICK d \in 0..Len(ms) : Len(s) = Len(ms) - d /\ \A i \in 1..(Len(ms) - d) : s[i] = ms[i + d]
    BY <2>1, RestIs
  <2> QED BY <2>2, <2>3, RestSound
<1> PICK t : t = LastOf(s, keep)
  OBVIOUS
<1>2. /\ t \in Seq(Msg) /\ Sound(t, top)
      /\ \A ids : Due(s, top, ids) => Due(t, top, ids)
      /\ Turned(s) => Turned(t)
  <2>1. CASE Len(s) > keep /\ keep > 0
    <3>1. t = SubSeq(s, Len(s) - keep + 1, Len(s))
      BY <2>1 DEF LastOf
    <3>2. Len(s) - keep + 1 \in Nat /\ Len(s) - keep + 1 >= 1
      BY <1>1, <2>1
    <3>3. t \in Seq(Msg)
      BY <1>1, <3>1, <3>2, RestIs
    <3> PICK from : from = Len(s) - keep + 1
      OBVIOUS
    <3>4. PICK d \in 0..Len(s) : Len(t) = Len(s) - d /\ \A i \in 1..(Len(s) - d) : t[i] = s[i + d]
      <4> HIDE DEF Msg
      <4>1. CutOf(SubSeq(s, from, Len(s)), s)
        BY <1>1, <3>2, RestIs
      <4>2. CutOf(t, s)
        BY <3>1, <4>1
      <4> QED BY <4>2 DEF CutOf
    <3> HIDE DEF Msg
    <3> QED BY <1>1, <3>3, <3>4, RestSound
  <2>2. CASE ~(Len(s) > keep /\ keep > 0)
    <3>1. t = s
      BY <2>2 DEF LastOf
    <3> QED BY <1>1, <3>1
  <2> QED BY <2>1, <2>2
<1>3. Compacted(ms, keep) = Repaired(t)
  BY DEF Compacted
<1>4. /\ Sound(Repaired(t), top)
      /\ \A ids : Due(t, top, ids) => Due(Repaired(t), top, ids)
      /\ Turned(t) => Turned(Repaired(t))
  BY <1>2, RepairedSound
<1> QED BY <1>1, <1>2, <1>3, <1>4

LEMMA OneMore ==
  ASSUME NEW ms \in Seq(Msg), NEW u \in Msg, NEW s, s = ms \o <<u>>
  PROVE  /\ s \in Seq(Msg) /\ Len(s) = Len(ms) + 1 /\ s[Len(ms) + 1] = u
         /\ \A i \in 1..Len(ms) : s[i] = ms[i]
<1> PICK n, t : n = Len(ms) /\ t = <<u>>
  OBVIOUS
<1>1. n \in Nat /\ t \in Seq(Msg) /\ Len(t) = 1 /\ t[1] = u
  BY MessagesAre
<1>2. s \in Seq(Msg) /\ Len(s) = n + 1 /\ \A i \in 1..(n + 1) : s[i] = IF i <= n THEN ms[i] ELSE t[i - n]
  BY <1>1, ConcatProperties
<1>3. n + 1 \in 1..(n + 1) /\ ~(n + 1 <= n) /\ (n + 1) - n = 1
  BY <1>1
<1>4. \A i \in 1..n : i \in 1..(n + 1) /\ i <= n
  BY <1>1
<1> QED BY <1>1, <1>2, <1>3, <1>4

LEMMA PairStarts == Init => PairInv
<1> SUFFICES ASSUME Init PROVE PairInv
  OBVIOUS
<1>0. PICK n, past, u : /\ n = PastLength /\ u = Plain("user")
                      /\ past = [i \in 1..n |-> Plain(IF i % 2 = 1 THEN "user" ELSE "assistant")]
  OBVIOUS
<1>1. n \in Nat
  BY <1>0, ConversationAssumption DEF ConversationAssumption
<1>2. messages = past \o <<u>> /\ pc = "top" /\ issued = 0
  BY <1>0 DEF Init
<1> HIDE DEF Init
<1>3. ASSUME NEW role \in {"user", "assistant"}
      PROVE  /\ Plain(role) \in Msg /\ Plain(role).role = role /\ Plain(role).answers = 0
             /\ Asks(Plain(role)) = {}
  <2>1. Plain(role).answers = 0 /\ Plain(role).calls = <<>>
    BY DEF Plain
  <2>2. Asks(Plain(role)) = {}
    BY <2>1 DEF Asks, ToSet
  <2>3. Plain(role) \in Msg /\ Plain(role).role = role
    BY PlainIs
  <2> QED BY <2>1, <2>2, <2>3
<1>4. \A i \in 1..n : past[i] \in Msg /\ past[i].role # "tool" /\ past[i].answers = 0 /\ Asks(past[i]) = {}
  <2> TAKE i \in 1..n
  <2> PICK role : role = IF i % 2 = 1 THEN "user" ELSE "assistant"
    OBVIOUS
  <2>1. past[i] = Plain(role) /\ role \in {"user", "assistant"}
    BY <1>0
  <2>2. past[i] \in Msg /\ past[i].role = role /\ past[i].answers = 0 /\ Asks(past[i]) = {}
    BY <1>3, <2>1
  <2> QED BY <2>1, <2>2
<1> HIDE DEF Msg
<1>5. past \in Seq(Msg) /\ Len(past) = n
  <2>1. past \in [1..n -> Msg]
    BY <1>0, <1>4
  <2> QED BY <1>1, <2>1, ListOf
<1>6. Sound(past, 0) /\ u.role = "user"
  <2>1. Shapes(past, 0)
    <3>1. 0 \in 0..0
      OBVIOUS
    <3> QED BY <1>4, <1>5, <3>1 DEF Shapes
  <2>2. Behind(past) /\ Rooted(past)
    BY <1>4, <1>5 DEF Behind, Rooted
  <2>3. Single(past)
    BY <1>4, <1>5 DEF Single
  <2>4. u.role = "user"
    BY <1>0, <1>3
  <2> QED BY <2>1, <2>2, <2>3, <2>4 DEF Sound
<1> PICK s : s = messages
  OBVIOUS
<1>7. s \in Seq(Msg) /\ Len(s) = n + 1 /\ s[n + 1] = u /\ \A i \in 1..n : s[i] = past[i]
  <2>1. u \in Msg
    BY <1>0, <1>3
  <2>2. s \in Seq(Msg) /\ Len(s) = Len(past) + 1 /\ s[Len(past) + 1] = u /\ \A i \in 1..Len(past) : s[i] = past[i]
    BY <1>2, <1>5, <2>1, OneMore
  <2> QED BY <1>5, <2>2
<1>8. Sound(s, 0)
  <2>1. n <= Len(s) /\ \A j \in (n + 1)..Len(s) : j = n + 1
    BY <1>1, <1>7
  <2>2. \A j \in (n + 1)..Len(s) : s[j].role = "user" /\ s[j].answers = 0 /\ Asks(s[j]) = {}
    BY <1>0, <1>3, <1>7, <2>1
  <2> QED BY <1>5, <1>6, <1>7, <2>1, <2>2, UsersSound
<1>9. Turned(s)
  BY <1>6, <1>7 DEF Turned
<1> QED BY <1>2, <1>8, <1>9 DEF PairInv

LEMMA PairedNext ==
  ASSUME Sound(messages', issued'),
         pc' = "tools" => Due(messages', issued', {batch'[k].id : k \in 1..Len(batch')}),
         pc' \in {"top", "paused", "call"} => Turned(messages')
  PROVE  PairInv'
<1>1. Sound(messages, issued)'
  BY DEF Sound, Shapes, Behind, Rooted, Single, OnlyResults, Asks
<1>2. (pc = "tools" => Due(messages, issued, {batch[k].id : k \in 1..Len(batch)}))'
  BY DEF Due, OnlyResults, Asks
<1>3. (pc \in {"top", "paused", "call"} => Turned(messages))'
  BY DEF Turned, Asks
<1> QED BY <1>1, <1>2, <1>3 DEF PairInv

LEMMA IteratePairs ==
  ASSUME TalkInv, PairInv, Iterate
  PROVE  PairInv'
<1>1. UNCHANGED issued /\ Injected /\ pc = "top"
  BY DEF Iterate
<1> PICK newer : newer = IF Looks /\ unread THEN <<Plain("user")>> ELSE <<>>
  OBVIOUS
<1>2. PICK pressure \in BOOLEAN :
        LET hint == IF pressure /\ ~injected THEN <<Plain("user")>> ELSE <<>> IN
        \/ messages' = messages \o newer \o hint /\ pc' = "paused" /\ UNCHANGED <<batch, reason>>
        \/ messages' = Expired(messages \o newer \o hint) /\ pc' = "call" /\ UNCHANGED <<batch, reason>>
        \/ messages' = messages \o newer \o hint /\ End("budget_exhausted")
  BY <1>1 DEF Injected
<1> PICK hint : hint = IF pressure /\ ~injected THEN <<Plain("user")>> ELSE <<>>
  OBVIOUS
<1> PICK ms : ms = messages \o newer \o hint
  OBVIOUS
<1>3. messages' \in {ms, Expired(ms)} /\ pc' # "tools"
  BY <1>2 DEF End
<1>4. messages \in Seq(Msg) /\ issued \in Nat /\ Sound(messages, issued) /\ Turned(messages)
  BY <1>1 DEF TalkInv, PairInv
<1>5. newer \in {<<>>, <<Plain("user")>>} /\ hint \in {<<>>, <<Plain("user")>>}
  OBVIOUS
<1> PICK z : z = messages \o newer
  OBVIOUS
<1>6. z \in Seq(Msg) /\ Sound(z, issued) /\ Turned(z)
  BY <1>4, <1>5, HeardSound
<1>7. ms \in Seq(Msg) /\ Sound(ms, issued) /\ Turned(ms)
  BY <1>4, <1>5, <1>6, HeardSound
<1>8. Sound(messages', issued') /\ Turned(messages')
  BY <1>1, <1>3, <1>7, ExpiredSound
<1> QED BY <1>3, <1>8, PairedNext

LEMMA EndPairs ==
  ASSUME PairInv, Exhausted \/ Interrupted \/ CallFails
  PROVE  PairInv'
<1>1. UNCHANGED <<messages, issued>> /\ pc' = "ended"
  BY DEF Exhausted, Interrupted, CallFails, End
<1>2. Sound(messages', issued')
  BY <1>1 DEF PairInv
<1> QED BY <1>1, <1>2, PairedNext

LEMMA PauseEndsPairs ==
  ASSUME TalkInv, PairInv, PauseEnds
  PROVE  PairInv'
<1>1. /\ UNCHANGED issued /\ pc = "paused" /\ pc' # "tools"
      /\ messages' \in {messages, Expired(messages)}
  BY DEF PauseEnds, End
<1>2. messages \in Seq(Msg) /\ Sound(messages, issued) /\ Turned(messages)
  BY <1>1 DEF TalkInv, PairInv
<1>3. Sound(messages', issued') /\ Turned(messages')
  BY <1>1, <1>2, ExpiredSound
<1> QED BY <1>1, <1>3, PairedNext

LEMMA RespondPairs ==
  ASSUME TalkInv, PairInv, Respond
  PROVE  PairInv'
<1>1. pc = "call"
  BY DEF Respond
<1>2. PICK n, calls :
       /\ n \in 0..MaxCalls /\ calls \in [1..n -> [name : Names, keep : Keeps \cup {NoInt}]]
       /\ LET made == [i \in 1..n |-> [id |-> issued + i, name |-> calls[i].name, keep |-> calls[i].keep]]
              done == Named(made, {"thinking_done"})
              ends == Named(made, {"end"})
              left == Named(made, Names \ {"end", "thinking_done"})
              asked == Append(Seen(messages), Asking(IdsOf(made)))
              moved == IF Transition(made) THEN Append(asked, Result(done[1].id, "remark")) ELSE asked
              warned == IF left = <<>> THEN moved
                        ELSE moved \o [i \in DOMAIN ends |-> Result(ends[i].id, "remark")] IN
          /\ messages' = warned
          /\ issued' = issued + n
          /\ IF n = 0 \/ (left = <<>> /\ ends # <<>>) THEN End("normal_end")
             ELSE /\ pc' = IF left = <<>> THEN "top" ELSE "tools"
                  /\ batch' = left
                  /\ UNCHANGED reason
  BY DEF Respond
<1>3. PICK made : made = [i \in 1..n |-> [id |-> issued + i, name |-> calls[i].name, keep |-> calls[i].keep]]
  OBVIOUS
<1> PICK done, ends, left :
      /\ done = Named(made, {"thinking_done"}) /\ ends = Named(made, {"end"})
      /\ left = Named(made, Names \ {"end", "thinking_done"})
  OBVIOUS
<1> PICK m : m = Asking(IdsOf(made))
  OBVIOUS
<1> PICK asked : asked = Append(Seen(messages), m)
  OBVIOUS
<1> PICK moved : moved = IF Transition(made) THEN Append(asked, Result(done[1].id, "remark")) ELSE asked
  OBVIOUS
<1>4. PICK warnings : warnings = [i \in DOMAIN ends |-> Result(ends[i].id, "remark")]
  OBVIOUS
<1> PICK top, up : top = issued /\ up = issued + n
  OBVIOUS
<1>5. /\ messages' = IF left = <<>> THEN moved ELSE moved \o warnings
      /\ issued' = up
      /\ \/ pc' = "ended"
         \/ n # 0 /\ pc' = (IF left = <<>> THEN "top" ELSE "tools") /\ batch' = left
  BY <1>3, <1>2, <1>4 DEF End
<1>6. /\ messages \in Seq(Msg) /\ top \in Nat /\ n \in Nat /\ up \in Nat /\ up = top + n
      /\ Sound(messages, top)
  <2>1. messages \in Seq(Msg) /\ top \in Nat /\ Sound(messages, top)
    BY DEF TalkInv, PairInv
  <2>2. n \in Nat
    BY <1>2, ConversationAssumption DEF ConversationAssumption
  <2> QED BY <2>1, <2>2
<1>7. made \in Seq(Asked) /\ Len(made) = n /\ \A i \in 1..n : made[i].id = top + i
  <2>1. ASSUME NEW i \in 1..n
        PROVE  [id |-> issued + i, name |-> calls[i].name, keep |-> calls[i].keep] \in Asked
    <3>1. calls[i] \in [name : Names, keep : Keeps \cup {NoInt}] /\ issued + i \in Int
      BY <1>2, <1>6
    <3> QED BY <3>1 DEF Asked
  <2>2. made \in [1..n -> Asked]
    BY <1>3, <2>1
  <2>3. \A i \in 1..n : made[i].id = top + i
    BY <1>3
  <2> HIDE DEF Asked
  <2> QED BY <1>6, <2>2, <2>3, ListOf
<1> PICK ids : ids = {top + i : i \in 1..n}
  OBVIOUS
<1>8. /\ m \in Msg /\ m.role = "assistant" /\ m.answers = 0 /\ Asks(m) = ids
      /\ \A i \in 1..n : made[i].id \in ids
  <2> PICK l : l = IdsOf(made)
    OBVIOUS
  <2>1. l \in [1..n -> Int] /\ \A i \in 1..n : l[i] = top + i
    <3>1. DOMAIN made = 1..n
      BY <1>7, LenProperties
    <3>2. l = [i \in 1..n |-> made[i].id]
      BY <3>1 DEF IdsOf
    <3>3. \A i \in 1..n : made[i].id \in Int /\ made[i].id = top + i
      BY <1>6, <1>7
    <3> QED BY <3>2, <3>3
  <2>2. l \in Seq(Int)
    BY <1>6, <2>1, ListOf
  <2>3. ToSet(l) = ids
    BY <2>1 DEF ToSet
  <2>4. m = [role |-> "assistant", calls |-> l, answers |-> 0, text |-> "remark", seen |-> 0]
    <3> PICK u : u = Plain("assistant")
      OBVIOUS
    <3>1. u = [role |-> "assistant", calls |-> <<>>, answers |-> 0, text |-> "remark", seen |-> 0]
      BY DEF Plain
    <3>2. m = [u EXCEPT !.calls = l]
      BY DEF Asking
    <3>3. [u EXCEPT !.calls = l] = [role |-> "assistant", calls |-> l, answers |-> 0, text |-> "remark", seen |-> 0]
      BY <3>1
    <3> QED BY <3>2, <3>3
  <2>5. m \in Msg /\ m.role = "assistant" /\ m.answers = 0 /\ m.calls = l
    BY <2>2, <2>4 DEF Msg, Texts
  <2> QED BY <1>7, <2>3, <2>5 DEF Asks
<1>9. ASSUME NEW names, NEW some, some = Named(made, names)
       PROVE  some \in Seq(Asked) /\ \A a \in 1..Len(some) : some[a].id \in ids
  <2> HIDE DEF Asked
  <2>1. /\ some \in Seq(Asked)
        /\ \A a \in 1..Len(some) : \E i \in 1..Len(made) : some[a] = made[i] /\ made[i].name \in names
    BY <1>7, <1>9, NamedAre
  <2>2. \A i \in 1..Len(made) : made[i].id \in ids
    BY <1>7, <1>8
  <2> QED BY <2>1, <2>2
<1>10. \A i \in 1..Len(ends) : ends[i].id \in ids
  BY <1>9
<1>11. \A i \in 1..Len(left) : left[i].id \in ids
  BY <1>9
<1>12. done # <<>> => done[1].id \in ids
  <2> SUFFICES ASSUME done # <<>> PROVE done[1].id \in ids
    OBVIOUS
  <2>1. done \in Seq(Asked) /\ \A a \in 1..Len(done) : done[a].id \in ids
    BY <1>9
  <2> HIDE DEF Asked
  <2>2. 1 \in 1..Len(done)
    BY <2>1, EmptySeq, LenProperties
  <2> QED BY <2>1, <2>2
<1>13. ends \in Seq(Asked)
  BY <1>9
<1> HIDE DEF Msg, Asked
<1>14. /\ asked \in Seq(Msg) /\ Sound(asked, up) /\ Due(asked, up, ids)
       /\ n # 0 => Turned(asked)
  <2> PICK z, k : z = Seen(messages) /\ k = Len(z)
    OBVIOUS
  <2>1. z \in Seq(Msg) /\ Sound(z, top)
    BY <1>6, SeenSound
  <2>2. k \in Nat
    BY <2>1, MessagesAre
  <2>3. asked \in Seq(Msg) /\ Len(asked) = k + 1 /\ asked[k + 1] = m /\ \A i \in 1..k : asked[i] = z[i]
    BY <1>8, <2>1, AppendProperties
  <2>4. top <= up /\ ids \subseteq (top + 1)..up
    BY <1>6
  <2>5. Sound(asked, up) /\ \A some : some \subseteq Asks(m) => Due(asked, up, some)
    BY <1>6, <1>8, <2>1, <2>3, <2>4, AskedSound
  <2>6. Due(asked, up, ids)
    BY <1>8, <2>5
  <2>7. n # 0 => Turned(asked)
    <3> SUFFICES ASSUME n # 0 PROVE Asks(m) # {}
      BY <2>3 DEF Turned
    <3>1. 1 \in 1..n
      BY <1>6
    <3>2. top + 1 \in ids
      BY <3>1
    <3> QED BY <1>8, <3>2
  <2> QED BY <2>3, <2>5, <2>6, <2>7
<1>15. ASSUME NEW id \in ids
       PROVE  /\ Result(id, "remark") \in Msg /\ Result(id, "remark").role = "tool"
              /\ Result(id, "remark").answers = id /\ Asks(Result(id, "remark")) = {}
  <2>1. id \in Int
    BY <1>6
  <2> QED BY <2>1, ResultIs
<1>16. /\ moved \in Seq(Msg) /\ Sound(moved, up) /\ Due(moved, up, ids)
       /\ n # 0 => Turned(moved)
  <2>1. CASE Transition(made)
    <3>1. done # <<>>
      BY <2>1 DEF Transition
    <3> PICK r : r = Result(done[1].id, "remark")
      OBVIOUS
    <3>2. r \in Msg /\ r.role = "tool" /\ r.answers \in ids /\ Asks(r) = {}
      BY <1>12, <1>15, <3>1
    <3>3. moved = Append(asked, r)
      BY <2>1
    <3>4. /\ Append(asked, r) \in Seq(Msg) /\ Sound(Append(asked, r), up) /\ Due(Append(asked, r), up, ids)
          /\ Turned(Append(asked, r))
      BY <1>6, <1>14, <3>2, AnswerSound
    <3> QED BY <3>3, <3>4
  <2>2. CASE ~Transition(made)
    BY <1>14, <2>2
  <2> QED BY <2>1, <2>2
<1>17. /\ warnings \in Seq(Msg)
       /\ \A k \in 1..Len(warnings) :
            warnings[k].role = "tool" /\ warnings[k].answers \in ids /\ Asks(warnings[k]) = {}
  <2> PICK l : l = Len(ends)
    OBVIOUS
  <2>1. l \in Nat /\ DOMAIN ends = 1..l
    BY <1>13, LenProperties
  <2>2. \A i \in 1..l : /\ warnings[i] \in Msg /\ warnings[i].role = "tool"
                        /\ warnings[i].answers \in ids /\ Asks(warnings[i]) = {}
    <3> TAKE i \in 1..l
    <3>1. ends[i].id \in ids
      BY <1>10
    <3>2. warnings[i] = Result(ends[i].id, "remark")
      BY <1>4, <2>1
    <3> QED BY <1>15, <3>1, <3>2
  <2>3. warnings \in [1..l -> Msg]
    <3>1. DOMAIN warnings = 1..l /\ warnings = [i \in 1..l |-> warnings[i]]
      BY <1>4, <2>1
    <3>2. \A i \in 1..l : warnings[i] \in Msg
      BY <2>2
    <3> QED BY <3>1, <3>2
  <2>4. warnings \in Seq(Msg) /\ Len(warnings) = l
    BY <2>1, <2>3, ListOf
  <2> QED BY <2>2, <2>4
<1>18. /\ moved \o warnings \in Seq(Msg) /\ Sound(moved \o warnings, up) /\ Due(moved \o warnings, up, ids)
       /\ n # 0 => Turned(moved \o warnings)
  <2> PICK w : w = moved \o warnings
    OBVIOUS
  <2>1. w \in Seq(Msg) /\ Sound(w, up) /\ Due(w, up, ids) /\ (Turned(moved) => Turned(w))
    BY <1>6, <1>16, <1>17, AnswersSound
  <2> QED BY <1>16, <2>1
<1>19. Sound(messages', issued') /\ Due(messages', issued', ids) /\ (n # 0 => Turned(messages'))
  BY <1>5, <1>16, <1>18
<1>20. pc' = "tools" => Due(messages', issued', {batch'[k].id : k \in 1..Len(batch')})
  <2> SUFFICES ASSUME pc' = "tools" PROVE Due(messages', issued', {batch'[k].id : k \in 1..Len(batch')})
    OBVIOUS
  <2>1. batch' = left
    BY <1>5
  <2>2. {batch'[k].id : k \in 1..Len(batch')} \in SUBSET ids
    BY <1>11, <2>1
  <2> QED BY <1>19, <2>2, DueLess
<1>21. pc' \in {"top", "paused", "call"} => Turned(messages')
  BY <1>5, <1>19
<1> QED BY <1>19, <1>20, <1>21, PairedNext

LEMMA ToolPairs ==
  ASSUME TalkInv, PairInv, RunTool \/ CompactCrashes
  PROVE  PairInv'
<1> PICK c, top : c = Head(batch) /\ top = issued
  OBVIOUS
<1> PICK answered : answered = Append(messages, Result(c.id, "full"))
  OBVIOUS
<1> PICK ids : ids = {batch[k].id : k \in 1..Len(batch)}
  OBVIOUS
<1>1. /\ pc = "tools" /\ UNCHANGED issued
      /\ \/ messages' = answered
         \/ c.name = "compact" /\ c.keep # NoInt /\ messages' = Compacted(answered, c.keep)
      /\ \/ pc' = "ended"
         \/ batch' = Tail(batch)
  BY DEF RunTool, CompactCrashes, End
<1>2. /\ messages \in Seq(Msg) /\ batch \in Seq(Asked) /\ batch # <<>> /\ start \in Nat /\ top \in Nat
      /\ Sound(messages, top) /\ Due(messages, top, ids)
  BY <1>1 DEF TalkInv, PairInv
<1>3. c \in Asked /\ c.id \in ids /\ \A k \in 1..Len(Tail(batch)) : Tail(batch)[k].id \in ids
  <2> PICK n : n = Len(batch)
    OBVIOUS
  <2> HIDE DEF Asked
  <2>1. n \in Nat /\ n # 0 /\ c = batch[1] /\ c \in Asked
    BY <1>2, HeadTailProperties, EmptySeq, LenProperties
  <2>2. 1 \in 1..n
    BY <2>1
  <2>3. Len(Tail(batch)) = n - 1 /\ \A k \in 1..(n - 1) : Tail(batch)[k] = batch[k + 1]
    BY <1>2, HeadTailProperties
  <2>4. \A k \in 1..(n - 1) : k + 1 \in 1..n
    BY <2>1
  <2> QED BY <2>1, <2>2, <2>3, <2>4
<1>4. c.id \in Int /\ c.keep \in Keeps \cup {NoInt}
  BY <1>3 DEF Asked
<1>5. /\ answered \in Seq(Msg) /\ Sound(answered, top) /\ Due(answered, top, ids)
      /\ Turned(answered)
  <2> PICK m : m = Result(c.id, "full")
    OBVIOUS
  <2>1. m \in Msg /\ m.role = "tool" /\ m.answers = c.id /\ Asks(m) = {}
    BY <1>4, ResultIs
  <2> HIDE DEF Msg
  <2> QED BY <1>2, <1>3, <2>1, AnswerSound
<1>6. c.keep # NoInt => c.keep \in Nat
  BY <1>4, ConversationAssumption DEF ConversationAssumption
<1>7. Sound(messages', top) /\ Due(messages', top, ids) /\ Turned(messages')
  BY <1>1, <1>2, <1>5, <1>6, CompactedSound
<1>8. pc' = "tools" => Due(messages', issued', {batch'[k].id : k \in 1..Len(batch')})
  <2> SUFFICES ASSUME pc' = "tools" PROVE Due(messages', issued', {batch'[k].id : k \in 1..Len(batch')})
    OBVIOUS
  <2>1. batch' = Tail(batch)
    BY <1>1
  <2>2. {batch'[k].id : k \in 1..Len(batch')} \in SUBSET ids
    BY <1>3, <2>1
  <2> QED BY <1>1, <1>7, <2>2, DueLess
<1>9. Sound(messages', issued')
  BY <1>1, <1>7
<1> QED BY <1>7, <1>8, <1>9, PairedNext

LEMMA PairNext == TalkInv /\ PairInv /\ [Next]_vars => PairInv'
<1> SUFFICES ASSUME TalkInv, PairInv, [Next]_vars PROVE PairInv'
  OBVIOUS
<1>1. CASE Change \/ UNCHANGED vars
  <2>1. UNCHANGED <<messages, batch, issued, pc>>
    BY <1>1 DEF Change, vars
  <2>2. /\ Sound(messages', issued')
        /\ pc' = "tools" => Due(messages', issued', {batch'[k].id : k \in 1..Len(batch')})
        /\ pc' \in {"top", "paused", "call"} => Turned(messages')
    BY <2>1 DEF PairInv
  <2> QED BY <2>2, PairedNext
<1> QED BY <1>1, IteratePairs, EndPairs, PauseEndsPairs, RespondPairs, ToolPairs DEF Next, Progress

\* Calls and results pair up in whatever the adapters send, however the history was compacted and
\* whichever calls were never run (openai_sdk.py, anthropic_sdk.py, gemini_sdk.py).
THEOREM WireSafe == Spec => []WireWellFormed
<1>1. TalkInv /\ PairInv /\ [Next]_vars => (TalkInv /\ PairInv)'
  BY TalkNext, PairNext
<1>2. Init => TalkInv /\ PairInv
  BY TalkStarts, PairStarts
<1>3. Spec => [](TalkInv /\ PairInv)
  BY <1>1, <1>2, PTL DEF Spec
<1> QED BY <1>3, PairedWires, PTL
=============================================================================
