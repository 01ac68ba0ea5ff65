------------------------------ MODULE MCRecords ------------------------------
(* Small instances of Board, Tasks, Billing, Documents, Toolbox,             *)
(* PromptBuilder and Clusters in one run: part says which of them moves,     *)
(* they share no state.  The others stay at one state of theirs.             *)
EXTENDS Tasks, FiniteSets, Sequences, TLC

CONSTANTS
  t1, t2, a1, a2, c1, c2, k1, none,
  BoardTasks, NoCall, MaxWrites,
  Things, MaxCheckouts, MaxEvents, MaxFaults,
  Editors, MaxVersions, MaxEdits,
  Natives, ServerNames, Offers, MaxRows, MaxChanges,
  MaxSaves, MaxClicks,
  Manifests, Chosen

\* Bounds are numbers, few tools are listed, the tools of the program have no server's name,
\* and the prefix of a manifest is words.
ASSUME RecordsAssumption ==
  /\ MaxVersions \in Nat /\ MaxSaves \in Nat
  /\ IsFiniteSet(Offers) /\ <<>> \notin ServerNames
  /\ \A m \in Manifests : m.prefix \in Seq(STRING)

VARIABLES
  part,
  boardRow, boardWork, boardTx, boardUsed, board, online, wire, fetch, replies, astray,
  writes,
  user, subscription, checkouts, customers, sessions, stripe, events, handlers,
  told, gone, mixed, asked, clock, faults,
  doc, versions, edit, edits, overtaken,
  natives, toolRows, servers, listed, toolTx, drawn, changes, owners, overlap, off,
  blocks, asking, selected, shown, loading, saving, editing, saves, clicks, foreign,
  failures,
  agents, agentWork, agentTx, agentsUsed, agentRequests

Screen == INSTANCE Board WITH
  Tasks <- BoardTasks,
  row <- boardRow, work <- boardWork, tx <- boardTx, used <- boardUsed
Bill == INSTANCE Billing WITH
  Subs <- Things, Requests <- Things, Handlers <- Calls,
  row <- subscription, requests <- checkouts, astray <- gone
Document == INSTANCE Documents WITH Calls <- Editors, tx <- edit
Tools == INSTANCE Toolbox WITH
  Servers <- Things, NoServer <- none,
  rows <- toolRows, tx <- toolTx
Prompts == INSTANCE PromptBuilder WITH
  Agents <- Things, Slots <- Calls, NoAgent <- none,
  rows <- blocks, requests <- asking, mixed <- foreign, faults <- failures

Fleet == INSTANCE Clusters WITH
  Agents <- Things \cup {a1}, NoManifest <- none,
  row <- agents, work <- agentWork, tx <- agentTx, used <- agentsUsed, requests <- agentRequests

\* Two clusters of which one's prefix is the other's, one of engineers, and a manifest that is
\* refused.
FiveManifests ==
  {[cluster |-> "squad", role |-> "worker", prefix |-> <<"squad">>, replicas |-> 2, model |-> "small"],
   [cluster |-> "squad", role |-> "worker", prefix |-> <<"squad">>, replicas |-> 1, model |-> "large"],
   [cluster |-> "team", role |-> "worker", prefix |-> <<"squad", "b">>, replicas |-> 1, model |-> "small"],
   [cluster |-> "team", role |-> "engineer", prefix |-> <<"Engineer">>, replicas |-> 2, model |-> "large"],
   [cluster |-> "none", role |-> "worker", prefix |-> <<"squad">>, replicas |-> 0, model |-> "small"]}
TwoNamesGiven == {[words |-> <<"squad">>, number |-> 1], [words |-> <<"Ann">>, number |-> 0]}

\* One tool of the program, two names of servers, and tools by names that meet when joined.
OneNative == {<<"think">>}
TwoNames == {<<"git">>, <<"git", "hub">>}
TwoOffers == {<<"list">>, <<"hub", "list">>}

boardVars == <<boardRow, boardWork, boardTx, boardUsed, board, online, wire, fetch, replies,
               astray, writes>>
billVars == <<user, subscription, checkouts, customers, sessions, stripe, events,
              handlers, told, gone, mixed, asked, clock, faults>>
documentVars == <<doc, versions, edit, edits, overtaken>>
toolVars == <<natives, toolRows, servers, listed, toolTx, drawn, changes, owners, overlap, off>>
promptVars == <<blocks, asking, selected, shown, loading, saving, editing, saves, clicks,
                foreign, failures>>
fleetVars == <<agents, agentWork, agentTx, agentsUsed, agentRequests>>

\* The page of an agent without blocks, before it has sent anything.
PromptsIdle ==
  /\ blocks = [x \in Things |-> {}] /\ asking = [c \in Calls |-> Prompts!Free]
  /\ selected = none /\ shown = {} /\ loading = FALSE /\ saving = FALSE
  /\ editing = Prompts!NoBlock
  /\ saves = 0 /\ clicks = 0 /\ foreign = FALSE /\ failures = 0

AllInit ==
  /\ part \in {"board", "task", "bill", "document", "tool", "prompts", "fleet"}
  /\ Init /\ Screen!Init /\ Bill!Init /\ Document!Init /\ Tools!Init /\ Fleet!Init
  /\ part # "board" => boardRow = Screen!Nothing
  /\ part # "task" => used = {}
  /\ IF part = "prompts" THEN Prompts!Init ELSE PromptsIdle

AllNext ==
  /\ UNCHANGED part
  /\ \/ /\ part = "board" /\ Screen!Next
        /\ UNCHANGED <<vars, billVars, documentVars, toolVars, promptVars, fleetVars>>
     \/ /\ part = "task" /\ Next
        /\ UNCHANGED <<boardVars, billVars, documentVars, toolVars, promptVars, fleetVars>>
     \/ /\ part = "bill" /\ Bill!Next
        /\ UNCHANGED <<boardVars, vars, documentVars, toolVars, promptVars, fleetVars>>
     \/ /\ part = "document" /\ Document!Next
        /\ UNCHANGED <<boardVars, vars, billVars, toolVars, promptVars, fleetVars>>
     \/ /\ part = "tool" /\ Tools!Next
        /\ UNCHANGED <<boardVars, vars, billVars, documentVars, promptVars, fleetVars>>
     \/ /\ part = "prompts" /\ Prompts!Next
        /\ UNCHANGED <<boardVars, vars, billVars, documentVars, toolVars, fleetVars>>
     \/ /\ part = "fleet" /\ Fleet!Next
        /\ UNCHANGED <<boardVars, vars, billVars, documentVars, toolVars, promptVars>>

AllSpec ==
  AllInit /\ [][AllNext]_<<part, boardVars, vars, billVars, documentVars, toolVars, promptVars, fleetVars>>

\* Tasks, subscriptions, requests, servers and prompted agents may be renamed, and so may transactions.
Symmetry ==
  Permutations(Things \cup Tasks) \cup Permutations(Calls)

(* Board: a browser at rest shows what is committed.                         *)
BoardCurrent == Screen!BoardCurrent
(* Billing: what is shown is what Stripe has.                                *)
FollowsStripe == Bill!FollowsStripe
(* Documents: what an edit overwrites is in the history.                     *)
EditKept == Document!EditKept
(* Toolbox: two rows of one name have one of the causes known.               *)
DuplicatesHaveACause == Tools!DuplicatesHaveACause
(* Toolbox: a tool a user has switched off stays off.                        *)
SwitchedOffStaysOff == Tools!SwitchedOffStaysOff
(* PromptBuilder: blocks get to another agent by one of the causes known.    *)
ForeignHasACause == Prompts!ForeignHasACause
(* Clusters: a manifest applied by itself leaves what it asks for.           *)
Converges == Fleet!Converges
=============================================================================
