----------------------------- MODULE ScreenRelay -----------------------------
(***************************************************************************)
(* The relay of a sandbox's screen to those who watch it.  The first       *)
(* viewer starts a task that connects to the sandbox and tries again when  *)
(* the connection is lost; the last one to leave cancels it.  Sections     *)
(* under the proxy's lock are one step; the lock is one for all sandboxes  *)
(* and held while frames are sent, so that anyone may come between two.    *)
(***************************************************************************)
EXTENDS Naturals

CONSTANTS
  Viewers,     \* sockets of browsers
  Relays,      \* tasks that may be running at once
  NoRelay,
  MaxRetries   \* max_retries, connections in all

VARIABLES
  viewer,  \* the socket of every viewer
  stream,  \* the entry of _streams: whether there is one, its viewers and its task
  relay    \* _relay_loop of every task

vars == <<viewer, stream, relay>>

\* An idle task is done, or was never started; why says how it ended (history).
Idle == [at |-> "idle", attempt |-> 0, cancelled |-> FALSE, why |-> "none"]
NoStream == [there |-> FALSE, viewers |-> {}, task |-> NoRelay]

TypeOK ==
  /\ viewer \in [Viewers -> {"out", "in", "gone"}]
  /\ stream \in [there : BOOLEAN, viewers : SUBSET Viewers, task : Relays \cup {NoRelay}]
  /\ relay \in [Relays -> [at : {"idle", "resolving", "streaming", "failed", "sleeping", "leaving"},
                           attempt : 0..MaxRetries, cancelled : BOOLEAN,
                           why : {"none", "spent", "unresolved", "late"}]]

Init ==
  /\ viewer = [v \in Viewers |-> "out"] /\ stream = NoStream
  /\ relay = [t \in Relays |-> Idle]

Done(t) == t = NoRelay \/ relay[t].at = "idle"
Working(t) == relay[t].at # "idle" /\ ~relay[t].cancelled

\* add_viewer.  The mutant starts a task for a new entry only.
NeedsRelayAtFirst == ~stream.there
NeedsRelay == ~stream.there \/ Done(stream.task)

AddViewer(v) ==
  /\ viewer[v] = "out" /\ viewer' = [viewer EXCEPT ![v] = "in"]
  /\ IF NeedsRelay
     THEN \E t \in Relays :
            /\ Done(t)
            /\ relay' = [relay EXCEPT ![t] = [Idle EXCEPT !.at = "resolving", !.attempt = 1]]
            /\ stream' = [there |-> TRUE, viewers |-> stream.viewers \cup {v}, task |-> t]
     ELSE /\ stream' = [stream EXCEPT !.viewers = @ \cup {v}]
          /\ relay' = [relay EXCEPT ![stream.task].why =
                         IF relay[stream.task].at = "leaving" /\ @ = "none" THEN "late" ELSE @]

\* The socket closes; its endpoint will notice.
Gone(v) ==
  /\ viewer[v] = "in" /\ viewer' = [viewer EXCEPT ![v] = "gone"]
  /\ UNCHANGED <<stream, relay>>

\* remove_viewer, at the end of the endpoint.
RemoveViewer(v) ==
  /\ viewer[v] = "gone" /\ viewer' = [viewer EXCEPT ![v] = "out"]
  /\ IF stream.there /\ stream.viewers \subseteq {v}
     THEN /\ stream' = NoStream
          /\ relay' = [t \in Relays |-> IF t = stream.task /\ ~Done(t)
                                        THEN [relay[t] EXCEPT !.cancelled = TRUE] ELSE relay[t]]
     ELSE /\ stream' = [stream EXCEPT !.viewers = @ \ {v}]
          /\ UNCHANGED relay

Goes(t, to) == relay' = [relay EXCEPT ![t].at = to] /\ UNCHANGED <<viewer, stream>>
Ends(t, to, why) ==
  relay' = [relay EXCEPT ![t].at = to, ![t].why = why] /\ UNCHANGED <<viewer, stream>>

\* _resolve_sandbox_connection: the sandbox may not be found.
Resolve(t) ==
  /\ Working(t) /\ relay[t].at = "resolving"
  /\ \/ Goes(t, "streaming") \/ Goes(t, "failed") \/ Ends(t, "idle", "unresolved")

\* Frames go to those who are there, the others are discarded.
FanOut(t) ==
  /\ Working(t) /\ relay[t].at = "streaming"
  /\ stream.there /\ \E v \in stream.viewers : viewer[v] # "in"
  /\ stream' = [stream EXCEPT !.viewers = {v \in @ : viewer[v] = "in"}]
  /\ UNCHANGED <<viewer, relay>>

\* The loop goes on with the next attempt; a connection that was made does not start the
\* count again: what is assigned to attempt there is gone with the iteration.
Again(t) ==
  IF relay[t].attempt < MaxRetries
  THEN /\ relay' = [relay EXCEPT ![t].at = "resolving", ![t].attempt = @ + 1]
       /\ UNCHANGED <<viewer, stream>>
  ELSE Ends(t, "leaving", "spent")

\* The sandbox closes the connection: the next attempt is made at once.
Closed(t) == Working(t) /\ relay[t].at = "streaming" /\ Again(t)
Fails(t) == Working(t) /\ relay[t].at = "streaming" /\ Goes(t, "failed")

\* After an error: without viewers there is no other attempt.
Check(t) ==
  /\ Working(t) /\ relay[t].at = "failed"
  /\ IF ~stream.there \/ stream.viewers = {} THEN Goes(t, "leaving") ELSE Goes(t, "sleeping")

Wake(t) == Working(t) /\ relay[t].at = "sleeping" /\ Again(t)

\* The last section under the lock, and the end of the task.
Leave(t) == Working(t) /\ relay[t].at = "leaving" /\ Goes(t, "idle")
Cancelled(t) ==
  /\ relay[t].cancelled /\ relay' = [relay EXCEPT ![t] = Idle]
  /\ UNCHANGED <<viewer, stream>>

Next ==
  \/ \E v \in Viewers : AddViewer(v) \/ Gone(v) \/ RemoveViewer(v)
  \/ \E t \in Relays :
       \/ Resolve(t) \/ FanOut(t) \/ Closed(t) \/ Fails(t) \/ Check(t) \/ Wake(t) \/ Leave(t)
       \/ Cancelled(t)

Spec == Init /\ [][Next]_vars

-----------------------------------------------------------------------------
(* Properties                                                              *)

\* Somebody who watches is served by a task that works, unless it has made all its attempts
\* (however long the connections lasted), did not find the sandbox, or was about to end for
\* want of viewers when this one came: then nobody starts another one.
ViewersServed ==
  \A v \in Viewers :
    viewer[v] = "in" =>
      /\ stream.there /\ v \in stream.viewers
      /\ Working(stream.task) \/ relay[stream.task].why \in {"spent", "unresolved", "late"}
=============================================================================
