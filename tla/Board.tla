-------------------------------- MODULE Board --------------------------------
(* The Kanban board of one browser against the committed tasks.               *)
(*                                                                           *)
(* The task service flushes the UPDATE of a task, whose row is locked from   *)
(* then on until the transaction ends, reads it back and sends it to the     *)
(* sockets before the commit.  A request is a transaction of one operation,  *)
(* an agent's session is one of many; both may be rolled back.  The browser  *)
(* has three sources: the fetch when the page opens, the events of its       *)
(* socket, and the responses to its own requests.                            *)
(*                                                                           *)
(* Of a task's row only the version matters: each flush makes a new one, 0   *)
(* is no row.  What operations there are and what they write is in Tasks.    *)
EXTENDS Integers, Sequences

CONSTANTS
  Tasks,       \* ids, each created once
  Calls,       \* transactions open at a time
  NoCall, NoTask,  \* none of these
  MaxWrites    \* bound on the operations

VARIABLES
  row,      \* the committed version of each task
  work,     \* the version the holder of the row lock sees
  tx,       \* the transactions: who opened it, its locks, what it has to tell
  board,    \* the tasks state of useTasks
  online,   \* the browser's socket is connected
  wire,     \* events sent and not handled
  fetch,    \* the request for all tasks
  replies,  \* responses on their way to the browser
  used,     \* ids taken
  astray,   \* history: tasks of which the board was told wrong or not at all
  writes    \* operations begun

table == <<row, work, tx, used>>
page == <<board, online, wire, fetch, replies>>
vars == <<table, page, astray, writes>>

Versions == 0 .. MaxWrites
Nothing == [t \in Tasks |-> 0]
NoNews == [task |-> NoTask, row |-> 0]
Closed == [by |-> "nobody", locks |-> {}, news |-> NoNews, over |-> FALSE]

Init ==
  /\ row \in [Tasks -> {0, 1}]
  /\ work = row /\ used = {t \in Tasks : row[t] # 0}
  /\ tx = [c \in Calls |-> Closed]
  /\ board = Nothing /\ fetch = [pc |-> "asked", rows |-> Nothing]
  /\ online = FALSE /\ wire = <<>> /\ replies = {}
  /\ astray = {} /\ writes = 1

(***************************************************************************)
(* The browser                                                             *)
(***************************************************************************)
InWire == {wire[i].task : i \in DOMAIN wire}

(* The tasks that board b shows otherwise than their last event would, with  *)
(* no event on its way.                                                      *)
Missed(b) == {t \in Tasks \ InWire : b[t] # work[t]} \cup (astray \cap InWire)

Added(b, t, v) == IF b[t] = 0 THEN [b EXCEPT ![t] = v] ELSE b
(* A mutant: an update of a task the list does not have is dropped.          *)
ReplacedIfShown(b, t, v) == IF b[t] = 0 THEN b ELSE [b EXCEPT ![t] = v]

Replaced(b, t, v) == [b EXCEPT ![t] = v]

(* useTasks' handlers of task_created and task_update.                       *)
HandleEvent ==
  /\ wire # <<>>
  /\ LET e == Head(wire)
     IN board' = IF e.event = "task_created" THEN Added(board, e.task, e.row)
                                             ELSE Replaced(board, e.task, e.row)
  /\ wire' = Tail(wire)
  /\ UNCHANGED <<table, online, fetch, replies, astray, writes>>

(* createTask, updateTask and deleteTask when their response arrives.        *)
HandleReply ==
  \E r \in replies :
    /\ board' = CASE r.op = "create" -> Added(board, r.task, r.row)
                  [] r.op = "update" -> Replaced(board, r.task, r.row)
                  [] r.op = "delete" -> Replaced(board, r.task, 0)
    /\ replies' = replies \ {r}
    /\ astray' = (astray \ {r.task}) \cup ({r.task} \cap Missed(board'))
                 \cup (IF r.op = "delete" THEN {r.task} ELSE {})
    /\ UNCHANGED <<table, online, wire, fetch, writes>>

(* GET /tasks: list_by_project reads what is committed.                      *)
FetchRead ==
  /\ fetch.pc = "asked"
  /\ fetch' = [pc |-> "read", rows |-> row]
  /\ UNCHANGED <<table, board, online, wire, replies, astray, writes>>

(* refreshTasks' setTasks replaces the list, whatever came meanwhile.        *)
FetchApplied ==
  /\ fetch.pc = "read"
  /\ board' = fetch.rows
  /\ fetch' = [pc |-> "none", rows |-> Nothing]
  /\ astray' = Missed(board')
  /\ UNCHANGED <<table, online, wire, replies, writes>>

FetchFailed ==
  /\ fetch.pc # "none"
  /\ fetch' = [pc |-> "none", rows |-> Nothing]
  /\ astray' = Missed(board)
  /\ UNCHANGED <<table, board, online, wire, replies, writes>>

(* /ws and WebSocketManager.connect: no snapshot of the tasks.               *)
Connect ==
  /\ ~online /\ online' = TRUE
  /\ UNCHANGED <<table, board, wire, fetch, replies, astray, writes>>

(* onclose: what was under way is lost; the client connects again, and does  *)
(* not fetch again.                                                          *)
Disconnect ==
  /\ online
  /\ online' = FALSE /\ wire' = <<>>
  /\ astray' = astray \cup InWire
  /\ UNCHANGED <<table, board, fetch, replies, writes>>

(* The page is opened again.                                                 *)
Reload ==
  /\ board' = Nothing /\ fetch' = [pc |-> "asked", rows |-> Nothing]
  /\ online' = FALSE /\ wire' = <<>> /\ replies' = {}
  /\ astray' = {}
  /\ UNCHANGED <<table, writes>>

(***************************************************************************)
(* The service                                                             *)
(***************************************************************************)
Free(c, t) == \A d \in Calls \ {c} : t \notin tx[d].locks
Sees(c, t) == IF t \in tx[c].locks THEN work[t] ELSE row[t]

(* A request is one operation; a session goes on until it ends.              *)
MayBegin(c, by) ==
  /\ writes < MaxWrites
  /\ tx[c] = Closed \/ (by = "session" /\ tx[c].by = by /\ tx[c].news = NoNews)

Locking(c, by, t) ==
  tx' = [tx EXCEPT ![c].by = by, ![c].locks = @ \cup {t}, ![c].over = (by # "session")]

(* broadcast: to the sockets there are.  An event that finds none is lost;   *)
(* one that tells another version than the last misleads.                    *)
Broadcast(event, t, v, latest) ==
  IF online
  THEN /\ wire' = Append(wire, [event |-> event, task |-> t, row |-> v])
       /\ astray' = IF v = latest THEN astray \ {t} ELSE astray \cup {t}
  ELSE wire' = wire /\ astray' = astray \cup {t}

(* The response of the browser's own request leaves before or after the      *)
(* commit, depending on the release of FastAPI.                              *)
Reply(c, by, op, t, v) ==
  replies' = replies \cup
    {[call |-> c, op |-> op, task |-> t, row |-> v] : x \in {"browser"} \cap {by}}

Create(c, by, t) ==
  /\ MayBegin(c, by) /\ t \notin used
  /\ writes' = writes + 1 /\ used' = used \cup {t}
  /\ work' = [work EXCEPT ![t] = writes']
  /\ Locking(c, by, t)
  /\ Broadcast("task_created", t, writes', writes')
  /\ Reply(c, by, "create", t, writes')
  /\ UNCHANGED <<row, board, online, fetch>>

(* update, update_status, assign: the flush with its lock, the refresh and   *)
(* the event.                                                                *)
Update(c, by, t) ==
  /\ MayBegin(c, by) /\ Free(c, t) /\ Sees(c, t) # 0
  /\ writes' = writes + 1
  /\ work' = [work EXCEPT ![t] = writes']
  /\ Locking(c, by, t)
  /\ Broadcast("task_update", t, writes', writes')
  /\ Reply(c, by, "update", t, writes')
  /\ UNCHANGED <<row, used, board, online, fetch>>

(* The same when nothing of the row changes: no lock, so the row may be       *)
(* another one by the time it is told.                                       *)
RefreshOnly(c, by, t) ==
  /\ MayBegin(c, by) /\ Sees(c, t) # 0
  /\ writes' = writes + 1
  /\ tx' = [tx EXCEPT ![c].by = by, ![c].news = [task |-> t, row |-> Sees(c, t)]]
  /\ UNCHANGED <<row, work, used, page, astray>>

Tell(c) ==
  LET news == tx[c].news
  IN /\ news # NoNews
     /\ Broadcast("task_update", news.task, news.row, work[news.task])
     /\ Reply(c, tx[c].by, "update", news.task, news.row)
     /\ tx' = [tx EXCEPT ![c].news = NoNews, ![c].over = (tx[c].by # "session")]
     /\ UNCHANGED <<row, work, used, board, online, fetch, writes>>

(* No event goes with a deletion.                                            *)
Delete(c, by, t) ==
  /\ by # "session"
  /\ MayBegin(c, by) /\ Free(c, t) /\ Sees(c, t) # 0
  /\ writes' = writes + 1
  /\ work' = [work EXCEPT ![t] = 0]
  /\ Locking(c, by, t)
  /\ Reply(c, by, "delete", t, 0)
  /\ astray' = astray \cup {t}
  /\ UNCHANGED <<row, used, board, online, wire, fetch>>

Kept(c) == {IF r.call = c THEN [r EXCEPT !.call = NoCall] ELSE r : r \in replies}

Commit(c) ==
  /\ tx[c].over \/ (tx[c].by = "session" /\ tx[c].news = NoNews)
  /\ row' = [t \in Tasks |-> IF t \in tx[c].locks THEN work[t] ELSE row[t]]
  /\ replies' = Kept(c)
  /\ tx' = [tx EXCEPT ![c] = Closed]
  /\ UNCHANGED <<work, used, board, online, wire, fetch, astray, writes>>

(* A session fails or is interrupted, a request's commit fails.  What has    *)
(* been told stays told; the response may have left.                         *)
Rollback(c) ==
  /\ tx[c] # Closed
  /\ work' = [t \in Tasks |-> IF t \in tx[c].locks THEN row[t] ELSE work[t]]
  /\ replies' \in {Kept(c), {r \in replies : r.call # c}}
  /\ astray' = astray \cup tx[c].locks
  /\ tx' = [tx EXCEPT ![c] = Closed]
  /\ UNCHANGED <<row, used, board, online, wire, fetch, writes>>

Service ==
  \E c \in Calls :
    \/ \E by \in {"browser", "client", "session"}, t \in Tasks :
         Create(c, by, t) \/ Update(c, by, t) \/ RefreshOnly(c, by, t) \/ Delete(c, by, t)
    \/ Tell(c) \/ Commit(c) \/ Rollback(c)

Browser ==
  \/ HandleEvent \/ HandleReply \/ FetchRead \/ FetchApplied \/ FetchFailed
  \/ Connect \/ Disconnect \/ Reload

Next == Browser \/ Service

Spec == Init /\ [][Next]_vars

(***************************************************************************)
(* Properties                                                              *)
(***************************************************************************)
(* The types, and that a version nobody has locked is the committed one.     *)
TypeOK ==
  /\ row \in [Tasks -> Versions] /\ work \in [Tasks -> Versions]
  /\ board \in [Tasks -> Versions] /\ fetch.rows \in [Tasks -> Versions]
  /\ \A t \in Tasks : work[t] # row[t] => \E c \in Calls : t \in tx[c].locks
  /\ \A c, d \in Calls : c # d => tx[c].locks \cap tx[d].locks = {}

(* With nothing under way the board shows the committed tasks.  Events are    *)
(* sent before their commit, responses and the fetch overtake them; still    *)
(* only these lead the board astray, each for the tasks it touches and until *)
(* their next event: an event nobody received, a rollback, a deletion, an     *)
(* event about an unlocked row, a fetch or a response applied after a newer  *)
(* event.                                                                    *)
Quiet ==
  /\ \A c \in Calls : tx[c] = Closed
  /\ wire = <<>> /\ replies = {} /\ fetch.pc = "none"

BoardCurrent == Quiet => \A t \in Tasks \ astray : board[t] = row[t]

=============================================================================
