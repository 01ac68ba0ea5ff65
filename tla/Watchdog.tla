------------------------------- MODULE Watchdog -------------------------------
(***************************************************************************)
(* The supervisor of the pool manager's process.  Its main loop looks at   *)
(* the process and asks the port for /api/health; after enough failures it *)
(* kills the process it knows and starts another, and gives up (the alert) *)
(* when it has tried too often of late.  An HTTP thread does the same on   *)
(* POST /restart, with the same variables and no lock.                     *)
(*                                                                         *)
(* Whichever manager holds the port answers the health check, the one the  *)
(* watchdog knows or another; one that finds the port taken exits.         *)
(***************************************************************************)
EXTENDS Integers

CONSTANTS
  NumProcs,       \* processes at a time, enough never to run out of them
  FailThreshold,  \* FAIL_THRESHOLD
  MaxRestarts,    \* MAX_RESTARTS
  MaxFaults,      \* bound on crashes, hangs and kills that do not work
  MaxPosts        \* bound on requests to the watchdog

VARIABLES
  process,   \* _state.process
  failures,  \* _state.consecutive_failures, counted up to the threshold
  attempts,  \* _state.restart_timestamps: how many are in the window, how many older
  status,    \* _state.status
  alert,     \* _state.alert_active
  procs,     \* what each process is doing
  pc,        \* what each thread is doing
  target,    \* the process a thread is killing
  stuck,     \* history: processes that survived SIGKILL
  faults, posts

state == <<process, failures, attempts, status, alert>>
threads == <<pc, target>>
vars == <<state, procs, threads, stuck, faults, posts>>

Procs == 1 .. NumProcs
Threads == {"loop", "http"}
NoProc == 0
Restarting == {"append", "prune", "kill", "dying", "start"}
Alive(p) == procs[p] # "exited"
Running == pc["loop"] # "dead"   \* main's end ends the HTTP thread
Answers == \E p \in Procs : procs[p] = "serving"
Spare == {p \in Procs : ~Alive(p) /\ p # process /\ \A t \in Threads : p # target[t]}

TypeOK ==
  /\ process \in Procs
  /\ failures \in 0 .. FailThreshold
  /\ attempts \in [recent : Nat, old : Nat]
  /\ status \in {"starting", "healthy", "degraded", "alert"}
  /\ alert \in BOOLEAN
  /\ procs \in [Procs -> {"exited", "booting", "serving", "hung"}]
  /\ pc \in [Threads -> {"rest", "probe", "decide", "dead"} \cup Restarting]
  /\ pc["http"] \notin {"probe", "decide", "dead"}
  /\ target \in [Threads -> Procs \cup {NoProc}]
  /\ stuck \subseteq Procs
  /\ \A t \in Threads : pc[t] = "start" => Spare # {}

(* main up to the loop: the first manager is started.                       *)
Init ==
  /\ process = 1
  /\ failures = 0 /\ attempts = [recent |-> 0, old |-> 0]
  /\ status = "starting" /\ alert = FALSE
  /\ procs = [p \in Procs |-> IF p = process THEN "booting" ELSE "exited"]
  /\ pc = [t \in Threads |-> "rest"] /\ target = [t \in Threads |-> NoProc]
  /\ stuck = {} /\ faults = 0 /\ posts = 0

Goes(t, place) == pc' = [pc EXCEPT ![t] = place]

(***************************************************************************)
(* The main loop                                                           *)
(***************************************************************************)
(* A mutant: a manager that has exited is left to the health check.         *)
LookOnce ==
  /\ pc["loop"] = "rest"
  /\ Goes("loop", IF Alive(process) THEN "probe" ELSE "decide")
  /\ UNCHANGED <<state, procs, target, stuck, faults, posts>>

(* poll(): a process that has exited counts as all the failures there may   *)
(* be.                                                                      *)
Look ==
  /\ pc["loop"] = "rest"
  /\ IF Alive(process) THEN Goes("loop", "probe") /\ UNCHANGED failures
     ELSE Goes("loop", "decide") /\ failures' = FailThreshold
  /\ UNCHANGED <<process, attempts, status, alert, procs, target, stuck, faults, posts>>

(* _check_health and what the loop makes of it.                             *)
Probe ==
  /\ pc["loop"] = "probe"
  /\ IF Answers
     THEN /\ failures' = 0
          /\ status' = IF alert THEN status ELSE "healthy"
     ELSE /\ failures' = IF failures = FailThreshold THEN failures ELSE failures + 1
          /\ UNCHANGED status
  /\ Goes("loop", "decide")
  /\ UNCHANGED <<process, attempts, alert, procs, target, stuck, faults, posts>>

Decide ==
  /\ pc["loop"] = "decide"
  /\ Goes("loop", IF failures = FailThreshold /\ ~alert THEN "append" ELSE "rest")
  /\ UNCHANGED <<state, procs, target, stuck, faults, posts>>

(***************************************************************************)
(* _restart_pool_manager, in either thread                                 *)
(***************************************************************************)
Attempt(t) ==
  /\ pc[t] = "append"
  /\ attempts' = [attempts EXCEPT !.recent = @ + 1]
  /\ Goes(t, "prune")
  /\ UNCHANGED <<process, failures, status, alert, procs, target, stuck, faults, posts>>

TooMany == attempts.recent > MaxRestarts

(* Refused attempts stay in the list.                                       *)
Limit(t) ==
  /\ pc[t] = "prune"
  /\ attempts' = [attempts EXCEPT !.old = 0]
  /\ IF TooMany THEN status' = "alert" /\ alert' = TRUE /\ Goes(t, "rest")
                ELSE UNCHANGED <<status, alert>> /\ Goes(t, "kill")
  /\ UNCHANGED <<process, failures, procs, target, stuck, faults, posts>>

(* _kill_process of what _state.process is now.                             *)
Kill(t) ==
  /\ pc[t] = "kill"
  /\ IF Alive(process)
     THEN target' = [target EXCEPT ![t] = process] /\ Goes(t, "dying")
     ELSE Goes(t, "start") /\ UNCHANGED target
  /\ UNCHANGED <<state, procs, stuck, faults, posts>>

(* SIGTERM, and SIGKILL after the grace; a process that sits in the kernel  *)
(* survives the last wait, which is swallowed.                              *)
Killed(t) ==
  /\ pc[t] = "dying"
  /\ \/ /\ procs' = [procs EXCEPT ![target[t]] = "exited"]
        /\ UNCHANGED <<stuck, faults>>
     \/ /\ Alive(target[t]) /\ faults < MaxFaults /\ faults' = faults + 1
        /\ stuck' = stuck \cup {target[t]} /\ UNCHANGED procs
  /\ target' = [target EXCEPT ![t] = NoProc] /\ Goes(t, "start")
  /\ UNCHANGED <<state, posts>>

StartManager(t) ==
  /\ pc[t] = "start"
  /\ LET p == CHOOSE p \in Spare : \A q \in Spare : p <= q
     IN /\ procs' = [procs EXCEPT ![p] = "booting"]
        /\ process' = p /\ stuck' = stuck \ {p}
  /\ failures' = 0 /\ status' = "degraded"
  /\ Goes(t, "rest")
  /\ UNCHANGED <<attempts, alert, target, faults, posts>>

(***************************************************************************)
(* The HTTP thread serves one request after the other                      *)
(***************************************************************************)
PostRestart ==
  /\ Running /\ pc["http"] = "rest" /\ posts < MaxPosts
  /\ alert' = FALSE /\ posts' = posts + 1
  /\ Goes("http", "append")
  /\ UNCHANGED <<process, failures, attempts, status, procs, target, stuck, faults>>

(* The loop that is pruning finds the list empty between its two looks and  *)
(* dies of the IndexError, or does not.                                     *)
PostClearAlert ==
  /\ Running /\ pc["http"] = "rest" /\ posts < MaxPosts
  /\ alert' = FALSE /\ status' = "degraded" /\ posts' = posts + 1
  /\ attempts' = [recent |-> 0, old |-> 0]
  /\ \/ UNCHANGED pc
     \/ pc["loop"] = "prune" /\ attempts.old > 0 /\ Goes("loop", "dead")
  /\ UNCHANGED <<process, failures, procs, target, stuck, faults>>

(***************************************************************************)
(* The processes and time                                                  *)
(***************************************************************************)
(* uvicorn binds the port, or exits because somebody has it.                *)
Boot(p) ==
  /\ procs[p] = "booting"
  /\ procs' = [procs EXCEPT ![p] =
       IF \E q \in Procs : procs[q] \in {"serving", "hung"} THEN "exited" ELSE "serving"]
  /\ UNCHANGED <<state, threads, stuck, faults, posts>>

Fails(p) ==
  /\ faults < MaxFaults /\ faults' = faults + 1
  /\ \/ Alive(p) /\ p \notin stuck /\ procs' = [procs EXCEPT ![p] = "exited"]
     \/ procs[p] = "serving" /\ procs' = [procs EXCEPT ![p] = "hung"]
  /\ UNCHANGED <<state, threads, stuck, posts>>

(* The oldest attempt leaves the window of RESTART_WINDOW seconds, which an  *)
(* attempt reckons back from its own time.  Not while the loop goes from    *)
(* failure to failure: three checks of at most 15 + 10 seconds and a kill   *)
(* of at most 10 are less than a sixth of the 600 the window has.           *)
Ages ==
  /\ attempts.recent > 0 /\ (Answers \/ alert)
  /\ \A t \in Threads : pc[t] # "prune"
  /\ attempts' = [recent |-> attempts.recent - 1, old |-> 1]
  /\ UNCHANGED <<process, failures, status, alert, procs, threads, stuck, faults, posts>>

Restart(t) == Running /\ (Attempt(t) \/ Limit(t) \/ Kill(t) \/ Killed(t) \/ StartManager(t))

Next ==
  \/ Look \/ Probe \/ Decide
  \/ \E t \in Threads : Restart(t)
  \/ PostRestart \/ PostClearAlert
  \/ \E p \in Procs : Boot(p) \/ Fails(p)
  \/ Ages

(* The two threads run; nothing is assumed of the processes.                 *)
Fairness ==
  /\ WF_vars(Look \/ Probe \/ Decide)
  /\ \A t \in Threads : WF_vars(Restart(t))

Spec == Init /\ [][Next]_vars /\ Fairness

(***************************************************************************)
(* Properties                                                              *)
(***************************************************************************)

(* A manager that does not answer is replaced by one that does, or the alert *)
(* calls for help: whatever crashes or hangs, and even if a manager nobody   *)
(* tracks has the port.                                                      *)
Recovers == ~Answers ~> (Answers \/ alert \/ pc["loop"] = "dead")
=============================================================================
