------------------------------ MODULE MCServices ------------------------------
(* Small instances of Spending, Accounts and Watchdog in one run:            *)
(* part says which of them moves, they share no state.  The others stay in   *)
(* a state in which no step is enabled that is assumed to be fair.           *)
EXTENDS Spending

CONSTANTS
  a1, a2, none,
  People, Identities, Emails, Requests, MaxFaults,
  NumProcs, FailThreshold, MaxRestarts, MaxPosts

VARIABLES
  part,
  email, users, conns, requests, admitted, loggedIn, mishaps,
  process, failures, attempts, status, alert, procs, threads, target,
  stuck, deaths, posts

Account == INSTANCE Accounts WITH
  Calls <- Requests, NoUser <- none, NoEmail <- "noemail",
  calls <- requests, faults <- mishaps
Dog == INSTANCE Watchdog WITH pc <- threads, faults <- deaths

spendingVars == <<settings, tokens, calls, share, pc, policy, pending, polls, seen>>
accountVars == <<email, users, conns, requests, admitted, loggedIn, mishaps>>
dogVars == <<process, failures, attempts, status, alert, procs, threads, target,
             stuck, deaths, posts>>

(* No request comes in; the loop is dead, and nobody asks for a restart.      *)
Still == [at |-> "gone", op |-> "none", uid |-> none, to |-> none, found |-> FALSE]
AccountsRest ==
  /\ email = [u \in Account!Uids |-> "m"] /\ users = [u \in Account!Uids |-> "noemail"]
  /\ conns = [u \in Account!Uids |-> none] /\ requests = [c \in Requests |-> Still]
  /\ admitted = People /\ loggedIn = {} /\ mishaps = 0
DogRests ==
  /\ process = 1 /\ failures = 0 /\ attempts = [recent |-> 0, old |-> 0]
  /\ status = "starting" /\ alert = FALSE /\ procs = [p \in Dog!Procs |-> "exited"]
  /\ threads = [t \in Dog!Threads |-> IF t = "loop" THEN "dead" ELSE "rest"]
  /\ target = [t \in Dog!Threads |-> Dog!NoProc]
  /\ stuck = {} /\ deaths = 0 /\ posts = 0

(* Addresses may be renamed, and so may the accounts of the provider.         *)
AllInit ==
  /\ part \in {"spending", "account", "dog"}
  /\ Init
  /\ IF part = "account" THEN Account!Init /\ email["p1"] = "m" /\ (email["o1"] = "m" => email["o2"] = "m")
     ELSE AccountsRest
  /\ IF part = "dog" THEN Dog!Init ELSE DogRests
  /\ part # "spending" => settings = CHOOSE s \in Limits : TRUE

AllNext ==
  /\ UNCHANGED part
  /\ \/ part = "spending" /\ Next /\ UNCHANGED <<accountVars, dogVars>>
     \/ part = "account" /\ Account!Next /\ UNCHANGED <<spendingVars, dogVars>>
     \/ part = "dog" /\ Dog!Next /\ UNCHANGED <<spendingVars, accountVars>>

AllSpec ==
  /\ AllInit /\ [][AllNext]_<<part, spendingVars, accountVars, dogVars>>
  /\ Fairness /\ Account!Fairness /\ Dog!Fairness

(* Accounts: whoever has an address of their own gets in.                    *)
EverybodyGetsIn == Account!EverybodyGetsIn
(* Watchdog: a manager that does not answer is replaced, or the alert is on. *)
ManagerComesBack == Dog!Recovers
=============================================================================
