---------------------------- MODULE PromptBuilder ----------------------------
(***************************************************************************)
(* The page that edits the prompt blocks of a project's agents, and the    *)
(* rows it edits.  A save sends the whole list: its transaction deletes    *)
(* the rows it sees and inserts the list.  A fetch makes the default rows  *)
(* for an agent that has none.  The page sends requests without waiting    *)
(* for the earlier ones, and shows whatever answer comes, the one for an   *)
(* agent it has left behind too.                                           *)
(***************************************************************************)
EXTENDS Naturals, FiniteSets

CONSTANTS
  Agents,      \* agents of the project
  Slots,       \* requests that may be under way at once
  NoAgent,     \* of a slot that is free
  MaxSaves,    \* bound on the lists that are stored
  MaxClicks,   \* bound on what the user does
  MaxFaults    \* bound on failed requests and timeouts

VARIABLES
  rows,      \* prompt_block_configs of every agent, committed
  requests,  \* what is under way
  selected,  \* selectedAgentId
  shown,     \* blocks, the page's list
  loading,   \* loadingBlocks
  saving,    \* savingBlocks
  editing,   \* editingBlockId
  saves,     \* lists stored so far
  clicks,    \* what the user did so far
  mixed,     \* history: an answer came for another agent, a fetch failed, or a list was
             \* saved before it was there
  faults

vars == <<rows, requests, selected, shown, loading, saving, editing, saves, clicks,
          mixed, faults>>
page == <<selected, shown, loading, saving, editing>>

\* "main" stands for the built-in blocks, "own" for custom_ ones; a block's value is its text
\* and its switch, 0 the default; the rows of one list have one id here; of is the agent in
\* whose list the block was first (history).  What the page adds has an id of the page's own.
Keys == {"main", "own"}
Ids == 0..(MaxSaves + 1)
TempId == MaxSaves + 1
Block == [key : Keys, value : {0, 1}, id : Ids, of : Agents]
Default(a) == {[key |-> "main", value |-> 0, id |-> 0, of |-> a]}
NoBlock == [key |-> "none", id |-> 0]

\* A request is a fetch ("get"), a save ("put") or a reset of one block ("reset"), for the
\* page itself or for its editor, which sends two of them; snap are the rows a transaction has
\* deleted, behind the transactions whose rows it waits for.
Free == [at |-> "free", step |-> "none", editor |-> FALSE, on |-> NoAgent,
         list |-> {}, block |-> NoBlock, snap |-> {}, behind |-> {}, heard |-> TRUE]
Request ==
  [at : {"free", "sent", "empty", "locked", "writing", "answered", "failed"},
   step : {"none", "get", "put", "reset"}, editor : BOOLEAN, on : Agents \cup {NoAgent},
   list : SUBSET Block, block : [key : Keys \cup {"none"}, id : Ids],
   snap : SUBSET Block, behind : SUBSET Slots, heard : BOOLEAN]

TypeOK ==
  /\ rows \in [Agents -> SUBSET Block] /\ requests \in [Slots -> Request]
  /\ selected \in Agents /\ shown \subseteq Block
  /\ {loading, saving, mixed} \subseteq BOOLEAN
  /\ editing \in [key : Keys \cup {"none"}, id : Ids]
  /\ saves \in 0..MaxSaves /\ clicks \in 0..MaxClicks /\ faults \in 0..MaxFaults

Busy == {s \in Slots : requests[s].at # "free"}
IdOf(b) == [key |-> b.key, id |-> b.id]

\* A new request.
Send(kind, list, block, editor) ==
  \E s \in Slots \ Busy :
    /\ requests' = [requests EXCEPT ![s] =
         [Free EXCEPT !.at = "sent", !.step = kind, !.editor = editor, !.on = selected',
                      !.list = list, !.block = block]]

-----------------------------------------------------------------------------
(* The page                                                                *)

\* The first agent of the list is selected; an agent made without a template has no rows.
Init ==
  /\ \E seeded \in SUBSET Agents :
       rows = [a \in Agents |-> IF a \in seeded THEN Default(a) ELSE {}]
  /\ selected \in Agents /\ shown = {} /\ loading = TRUE /\ saving = FALSE
  /\ \E s \in Slots :
       requests = [q \in Slots |->
         IF q = s THEN [Free EXCEPT !.at = "sent", !.step = "get", !.on = selected] ELSE Free]
  /\ editing = NoBlock /\ saves = 0 /\ clicks = 0 /\ mixed = FALSE /\ faults = 0

\* The editor covers the page as long as its block is on the list.
Covered == \E b \in shown : IdOf(b) = editing

\* Built-in blocks are hidden while a list is loaded; custom ones are not.
Operable(b) == ~Covered /\ b \in shown /\ (b.key = "main" => ~loading)

Click == clicks < MaxClicks /\ clicks' = clicks + 1

\* A tab: the rows of the agent left stay on the page until the answer.  The mutant does not
\* say that it is loading.
SelectQuietly(a) ==
  /\ Click /\ ~Covered /\ a # selected
  /\ selected' = a /\ editing' = NoBlock
  /\ Send("get", {}, NoBlock, FALSE)
  /\ UNCHANGED <<rows, shown, loading, saving, saves, mixed, faults>>

Select(a) ==
  /\ Click /\ ~Covered /\ a # selected
  /\ selected' = a /\ loading' = TRUE /\ editing' = NoBlock
  /\ Send("get", {}, NoBlock, FALSE)
  /\ UNCHANGED <<rows, shown, saving, saves, mixed, faults>>

\* persistBlocks: the page shows the list before it is saved.
Persist(list) ==
  /\ Click /\ shown' = list /\ saving' = TRUE
  /\ UNCHANGED <<rows, selected, loading, editing, saves, faults>>
  /\ mixed' = (mixed \/ loading)
  /\ Send("put", list, NoBlock, FALSE)

\* handleToggle; moves are the same to the model.
Toggle(b) ==
  /\ ~saving /\ Operable(b)
  /\ Persist((shown \ {b}) \cup {[b EXCEPT !.value = 1 - @]})

\* The name may be one that the list has.
AddCustomBlock ==
  /\ ~saving /\ ~Covered
  /\ Persist(shown \cup {[key |-> "own", value |-> 1, id |-> TempId, of |-> selected]})

\* It does not wait for the save that is under way.
DeleteBlock(b) ==
  /\ b.key = "own" /\ Operable(b)
  /\ Persist(shown \ {b})

Edit(b) ==
  /\ Click /\ Operable(b)
  /\ editing' = IdOf(b)
  /\ UNCHANGED <<rows, requests, selected, shown, loading, saving, saves, mixed, faults>>

Close ==
  /\ Covered /\ editing' = NoBlock
  /\ UNCHANGED <<rows, requests, selected, shown, loading, saving, saves, clicks, mixed, faults>>

\* handleSave and handleReset of the editor; its buttons wait for its own requests.
EditorSends(kind) ==
  /\ Click /\ Covered /\ \A q \in Busy : ~requests[q].editor
  /\ UNCHANGED <<rows, page, saves, mixed, faults>>
  /\ Send(kind, {}, editing, TRUE)

-----------------------------------------------------------------------------
(* The server                                                              *)

Ended(s, to, list) ==
  [q \in Slots |->
     IF q = s THEN IF requests[s].heard
                   THEN [requests[s] EXCEPT !.at = to, !.list = list, !.snap = {}, !.behind = {}]
                   ELSE Free
     ELSE [requests[q] EXCEPT !.behind = @ \ {s}]]

\* ensure_agent_blocks: look, lock, and look again.
Look(s) ==
  LET r == requests[s] IN
  /\ r.step = "get"
  /\ \/ r.at = "sent"
     \/ r.at = "empty" /\ \A q \in Slots : requests[q].step = "get" /\ requests[q].on = r.on =>
                                          requests[q].at \notin {"locked", "writing"}
  /\ requests' = IF rows[r.on] # {} THEN Ended(s, "answered", rows[r.on])
                 ELSE [requests EXCEPT ![s].at = IF r.at = "sent" THEN "empty" ELSE "locked"]
  /\ UNCHANGED <<rows, page, saves, mixed, faults, clicks>>

\* bulk_replace_agent_blocks, of the request's list or the defaults: the DELETE sees the rows
\* committed, and waits for the transactions that are deleting them.
Delete(s) ==
  LET r == requests[s] IN
  /\ \/ r.at = "locked"
     \/ r.at = "sent" /\ r.step = "put"
  /\ requests' = [requests EXCEPT
       ![s] = [r EXCEPT !.at = "writing", !.snap = rows[r.on],
                 !.list = IF r.step = "get" THEN Default(r.on) ELSE @,
                 !.behind = {q \in Slots : requests[q].at = "writing" /\ requests[q].on = r.on
                                            /\ requests[q].snap \cap rows[r.on] # {}}]]
  /\ UNCHANGED <<rows, page, saves, mixed, faults, clicks>>

\* The inserts and the commit: one row per agent and key.
Stored(list) == {[b EXCEPT !.id = saves + 1] : b \in list}
KeysIn(S) == {b.key : b \in S}
Unique(list, others) ==
  /\ KeysIn(list) \cap KeysIn(others) = {}
  /\ \A b, c \in list : b.key = c.key => b = c

Commit(s) ==
  LET r == requests[s]
      others == rows[r.on] \ r.snap IN
  /\ r.at = "writing" /\ r.behind = {} /\ saves < MaxSaves
  /\ IF Unique(r.list, others)
     THEN /\ rows' = [rows EXCEPT ![r.on] = others \cup Stored(r.list)]
          /\ saves' = saves + 1
          /\ requests' = Ended(s, "answered", Stored(r.list))
     ELSE /\ requests' = Ended(s, "failed", {})
          /\ UNCHANGED <<rows, saves>>
  /\ UNCHANGED <<page, mixed, faults, clicks>>

\* reset_agent_block: by its id, which a save changes.  It waits for a transaction that has
\* deleted the row; a custom block has no default.
Reset(s) ==
  LET r == requests[s] IN
  /\ r.at = "sent" /\ r.step = "reset"
  /\ \A q \in Slots : requests[q].on = r.on => \A b \in requests[q].snap : IdOf(b) # r.block
  /\ IF \E b \in rows[r.on] : IdOf(b) = r.block
     THEN /\ rows' = [rows EXCEPT ![r.on] =
                        {IF IdOf(b) = r.block /\ b.key = "main" THEN [b EXCEPT !.value = 0]
                         ELSE b : b \in @}]
          /\ requests' = Ended(s, "answered", {})
     ELSE /\ requests' = Ended(s, "failed", {})
          /\ UNCHANGED rows
  /\ UNCHANGED <<page, saves, mixed, faults, clicks>>

Fails(s) ==
  /\ faults < MaxFaults /\ faults' = faults + 1
  /\ requests[s].at \notin {"free", "answered", "failed"}
  /\ requests' = Ended(s, "failed", {})
  /\ UNCHANGED <<rows, page, saves, mixed, clicks>>

-----------------------------------------------------------------------------
(* Answers                                                                 *)

Freed(s) == [requests EXCEPT ![s] = Free]

\* The page's own: shown, whatever agent is selected.

Answer(s) ==
  LET r == requests[s] IN
  /\ r.at = "answered" /\ ~r.editor /\ r.step \in {"get", "put"}
  /\ shown' = r.list
  /\ loading' = (loading /\ r.step # "get") /\ saving' = (saving /\ r.step # "put")
  /\ mixed' = (mixed \/ r.on # selected)
  /\ requests' = Freed(s)
  /\ UNCHANGED <<rows, selected, editing, saves, faults, clicks>>

\* An error, or a timeout: what is shown stays.
NoAnswer(s) ==
  LET r == requests[s] IN
  /\ ~r.editor
  /\ loading' = (loading /\ r.step # "get") /\ saving' = (saving /\ r.step # "put")
  /\ mixed' = (mixed \/ r.step = "get")
  /\ \/ r.at = "failed" /\ requests' = Freed(s) /\ UNCHANGED faults
     \/ /\ r.at \notin {"free", "answered", "failed"} /\ r.heard
        /\ faults < MaxFaults /\ faults' = faults + 1
        /\ requests' = [requests EXCEPT ![s].heard = FALSE]
  /\ UNCHANGED <<rows, selected, shown, editing, saves, clicks>>

\* The editor's first request: its fetch is followed by the save of what came, with the block
\* changed, and its reset by a fetch.
EditorGoesOn(s) ==
  LET r == requests[s]
      changed == {IF b.key = r.block.key THEN [b EXCEPT !.value = 1] ELSE b : b \in r.list} IN
  /\ r.at = "answered" /\ r.editor
  /\ \/ /\ r.step = "get" /\ r.block # NoBlock
        /\ requests' = [requests EXCEPT ![s] = [r EXCEPT !.at = "sent", !.step = "put", !.list = changed]]
     \/ /\ r.step = "reset"
        /\ requests' = [requests EXCEPT ![s] =
                          [r EXCEPT !.at = "sent", !.step = "get", !.block = NoBlock]]
  /\ UNCHANGED <<rows, page, saves, mixed, faults, clicks>>

\* onSaved: whatever is being edited by now is closed.
EditorDone(s) ==
  LET r == requests[s] IN
  /\ r.at = "answered" /\ r.editor
  /\ r.step = "put" \/ (r.step = "get" /\ r.block = NoBlock)
  /\ shown' = r.list /\ editing' = NoBlock
  /\ mixed' = (mixed \/ r.on # selected)
  /\ requests' = Freed(s)
  /\ UNCHANGED <<rows, selected, loading, saving, saves, faults, clicks>>

\* The list stays.
EditorFails(s) ==
  LET r == requests[s] IN
  /\ r.editor
  /\ \/ r.at = "failed" /\ requests' = Freed(s) /\ UNCHANGED faults
     \/ /\ r.at \notin {"free", "answered", "failed"} /\ r.heard
        /\ faults < MaxFaults /\ faults' = faults + 1
        /\ requests' = [requests EXCEPT ![s].heard = FALSE]
  /\ UNCHANGED <<rows, page, saves, mixed, clicks>>

Next ==
  \/ \E a \in Agents : Select(a)
  \/ \E b \in shown : Toggle(b) \/ DeleteBlock(b) \/ Edit(b)
  \/ AddCustomBlock \/ Close \/ \E kind \in {"get", "reset"} : EditorSends(kind)
  \/ \E s \in Slots :
       \/ Look(s) \/ Delete(s) \/ Commit(s) \/ Reset(s) \/ Fails(s)
       \/ Answer(s) \/ NoAnswer(s) \/ EditorGoesOn(s) \/ EditorDone(s) \/ EditorFails(s)

Spec == Init /\ [][Next]_vars

-----------------------------------------------------------------------------
(* Properties                                                              *)

\* A list of one agent becomes another's only if an answer came after its agent had been left,
\* a fetch failed, or a list was saved while the agent's own was still to come: then what is
\* on the page is not the selected agent's, and the page saves what it shows.
ForeignHasACause ==
  mixed \/ /\ \A a \in Agents : \A b \in rows[a] : b.of = a
           /\ loading \/ \A b \in shown : b.of = selected
=============================================================================
