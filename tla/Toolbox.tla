--------------------------------- MODULE Toolbox ---------------------------------
(***************************************************************************)
(* The tools of one agent: rows of tool_configs, for the tools that come   *)
(* with the program and for those its MCP servers offer.  Pages and        *)
(* sessions add the rows of tools that are new with a release, the user    *)
(* switches tools on and off, and a sync brings a server's rows in line    *)
(* with what the server lists.  Nothing keeps two rows from one name:      *)
(* each transaction looks what there is and adds what it misses.           *)
(***************************************************************************)
EXTENDS Naturals, FiniteSets, Sequences, SequencesExt

CONSTANTS
  Calls,      \* transactions open at a time
  Natives,    \* tools of the program, of releases to come too: raw names
  Servers,    \* MCP servers the agent may have
  ServerNames,   \* what server names become in tool names
  Offers,     \* raw names a server may list
  NoServer,   \* the server of a tool of the program
  MaxRows,    \* bound on the rows ever added
  MaxChanges  \* bound on changes of servers, of their lists and of the release

VARIABLES
  natives,   \* tools in tool_descriptions.json
  rows,      \* committed rows
  servers,   \* the agent's servers: whether there, and the prefix
  listed,    \* raw names each server lists
  tx,        \* the transactions
  drawn,     \* row ids drawn
  changes,   \* changes of servers, of their lists and of the release
  owners,    \* history: the servers that ever had a prefix
  overlap,   \* history: a transaction added rows that others had added rows behind
  off        \* history: rows the user has switched off

vars == <<natives, rows, servers, listed, tx, drawn, changes, owners, overlap, off>>

Name == [prefix : ServerNames \cup {<<>>}, raw : Natives \cup Offers]
Row == [id : 1..MaxRows, name : Name, server : Servers \cup {NoServer}, enabled : BOOLEAN]
Closed == [kind |-> "none", server |-> NoServer, prefix |-> <<>>, found |-> {},
           add |-> {}, put |-> {}, del |-> {}, behind |-> FALSE]

TypeOK ==
  /\ natives \subseteq Natives /\ rows \subseteq Row
  /\ listed \in [Servers -> SUBSET Offers] /\ drawn \in 0..MaxRows
  /\ \A c \in Calls : tx[c].kind \in {"none", "discovering", "writing", "session"}
  /\ changes \in 0..MaxChanges /\ overlap \in BOOLEAN /\ off \subseteq 1..MaxRows

Init ==
  /\ natives = {} /\ rows = {} /\ drawn = 0 /\ changes = 0
  /\ servers = [s \in Servers |-> [there |-> FALSE, prefix |-> <<>>]]
  /\ listed = [s \in Servers |-> Offers]
  /\ tx = [c \in Calls |-> Closed]
  /\ owners = [p \in ServerNames |-> {}] /\ overlap = FALSE /\ off = {}

-----------------------------------------------------------------------------
(* Rows                                                                    *)

NamesIn(S) == {r.name : r \in S}
Native(raw) == [prefix |-> <<>>, raw |-> raw]
Prefixed(prefix, raw) == [prefix |-> prefix, raw |-> raw]

\* The mutant of Missing: all the defaults.
MissingOrNot(S) == {Native(raw) : raw \in natives}

Missing(S) == {Native(raw) : raw \in natives} \ NamesIn(S)

Added(names, server) ==
  LET q == SetToSeq(names)
  IN {[id |-> drawn + i, name |-> q[i], server |-> server, enabled |-> TRUE] : i \in DOMAIN q}

Draw(names) == drawn + Cardinality(names) <= MaxRows /\ drawn' = drawn + Cardinality(names)

(* ensure_agent_tools, for the tools page, which commits at once, or for a   *)
(* session that starts, which commits when it ends.                          *)
Ensure(c, kind) ==
  LET names == Missing(rows) IN
  /\ tx[c] = Closed /\ names # {} /\ Draw(names)
  /\ tx' = [tx EXCEPT ![c] = [Closed EXCEPT !.kind = kind, !.add = Added(names, NoServer)]]
  /\ UNCHANGED <<natives, rows, servers, listed, changes, owners, overlap, off>>

(* bulk_update_agent_tools: of rows with one name it finds one.  A row that  *)
(* has the value already is not written.                                     *)
Save(c, r) ==
  /\ tx[c] = Closed
  /\ tx' = [tx EXCEPT ![c] = [Closed EXCEPT !.kind = "writing",
                                            !.put = {[id |-> r.id, enabled |-> ~r.enabled]}]]
  /\ UNCHANGED <<natives, rows, servers, listed, drawn, changes, owners, overlap, off>>

(* sync_mcp_server_tools: the server's row is read, then the server asked    *)
(* (a server that fails gets a status and nothing else happens).             *)
Discover(c, s) ==
  /\ tx[c] = Closed /\ servers[s].there
  /\ tx' = [tx EXCEPT ![c] = [Closed EXCEPT !.kind = "discovering", !.server = s,
                                !.prefix = servers[s].prefix, !.found = listed[s]]]
  /\ UNCHANGED <<natives, rows, servers, listed, drawn, changes, owners, overlap, off>>

\* A mutant: the rows are all made anew.
SyncAfresh(c) ==
  LET s == tx[c].server
      existing == {r \in rows : r.server = s}
      names == {Prefixed(tx[c].prefix, raw) : raw \in tx[c].found}
  IN /\ tx[c].kind = "discovering"
     /\ Draw(names)
     /\ tx' = [tx EXCEPT ![c] = [Closed EXCEPT !.kind = "writing", !.server = s,
                 !.add = Added(names, s), !.del = NamesIn(existing)]]
     /\ UNCHANGED <<natives, rows, servers, listed, changes, owners, overlap, off>>

(* sync_tools, with the prefix and the list that were read before.           *)
Sync(c) ==
  LET s == tx[c].server
      existing == {r \in rows : r.server = s}
      names == {Prefixed(tx[c].prefix, raw) : raw \in tx[c].found}
  IN /\ tx[c].kind = "discovering"
     /\ Draw(names \ NamesIn(existing))
     /\ tx' = [tx EXCEPT ![c] = [Closed EXCEPT !.kind = "writing", !.server = s,
                 !.add = Added(names \ NamesIn(existing), s),
                 !.del = NamesIn(existing) \ names]]
     /\ UNCHANGED <<natives, rows, servers, listed, changes, owners, overlap, off>>

(* The commit.  A row to be written that is gone fails it, and so does a new *)
(* row of a server that is gone (Rollback).                                  *)
Written(t) ==
  LET kept == {r \in rows : ~(r.server = t.server /\ r.name \in t.del)}
      value(r) == IF \E p \in t.put : p.id = r.id THEN CHOOSE p \in t.put : p.id = r.id ELSE r
  IN {[r EXCEPT !.enabled = value(r).enabled] : r \in kept} \cup t.add

Commit(c) ==
  /\ tx[c].kind \in {"writing", "session"}
  /\ \A p \in tx[c].put : \E r \in rows : r.id = p.id
  /\ tx[c].server # NoServer => servers[tx[c].server].there
  /\ rows' = Written(tx[c])
  /\ off' = (off \cup {p.id : p \in {q \in tx[c].put : ~q.enabled}}) \
            {p.id : p \in {q \in tx[c].put : q.enabled}}
  /\ overlap' = (overlap \/ (tx[c].behind /\ tx[c].add # {}))
  /\ tx' = [d \in Calls |->
              IF d = c THEN Closed
              ELSE [tx[d] EXCEPT !.behind = @ \/ (tx[d].kind \in {"writing", "session"}
                                                    /\ tx[c].add # {})]]
  /\ UNCHANGED <<natives, servers, listed, drawn, changes, owners>>

Rollback(c) ==
  /\ tx[c] # Closed
  /\ tx' = [tx EXCEPT ![c] = Closed]
  /\ UNCHANGED <<natives, rows, servers, listed, drawn, changes, owners, overlap, off>>

-----------------------------------------------------------------------------
(* Servers                                                                 *)

(* create and update_server: two servers may have the same name.  The rows   *)
(* keep theirs until the next sync.                                          *)
NameServer(s, p) ==
  /\ changes < MaxChanges /\ changes' = changes + 1
  /\ servers[s] # [there |-> TRUE, prefix |-> p]
  /\ servers' = [servers EXCEPT ![s] = [there |-> TRUE, prefix |-> p]]
  /\ owners' = [owners EXCEPT ![p] = @ \cup {s}]
  /\ UNCHANGED <<natives, rows, listed, tx, drawn, overlap, off>>

(* delete_server; its rows go by the foreign key.                            *)
DeleteServer(s) ==
  /\ changes < MaxChanges /\ changes' = changes + 1
  /\ servers[s].there
  /\ servers' = [servers EXCEPT ![s].there = FALSE]
  /\ rows' = {r \in rows : r.server # s}
  /\ UNCHANGED <<natives, listed, tx, drawn, owners, overlap, off>>

(* The server lists other tools from now on.                                 *)
Relist(s) ==
  /\ changes < MaxChanges /\ changes' = changes + 1
  /\ listed' \in [Servers -> SUBSET Offers]
  /\ \A t \in Servers \ {s} : listed'[t] = listed[t]
  /\ listed'[s] # listed[s]
  /\ UNCHANGED <<natives, rows, servers, tx, drawn, owners, overlap, off>>

(* A release with more tools is started; what was open is rolled back.       *)
Deploy ==
  /\ changes < MaxChanges /\ changes' = changes + 1
  /\ \E raw \in Natives \ natives : natives' = natives \cup {raw}
  /\ tx' = [c \in Calls |-> Closed]
  /\ UNCHANGED <<rows, servers, listed, drawn, owners, overlap, off>>

Next ==
  \/ \E c \in Calls :
       \/ Ensure(c, "writing") \/ Ensure(c, "session")
       \/ \E r \in rows : Save(c, r)
       \/ \E s \in Servers : Discover(c, s)
       \/ Sync(c) \/ Commit(c) \/ Rollback(c)
  \/ \E s \in Servers : (\E p \in ServerNames : NameServer(s, p)) \/ DeleteServer(s) \/ Relist(s)
  \/ Deploy

Spec == Init /\ [][Next]_vars

(***************************************************************************)
(* Properties                                                              *)
(***************************************************************************)
(* A name has two rows only where two transactions that added rows           *)
(* overlapped, or where a prefix has had two servers: a page that is opened, *)
(* a sync that is repeated and a release add no tool twice.                  *)
DuplicatesHaveACause ==
  Cardinality(NamesIn(rows)) # Cardinality(rows) =>
    overlap \/ \E p \in ServerNames : Cardinality(owners[p]) > 1

(* What the user has switched off stays off whatever is synced, as long as   *)
(* its server lists it and is not renamed: no enabled row comes beside it or *)
(* in its stead.                                                             *)
SwitchedOffStaysOff ==
  [][\A r \in rows : r.id \in off /\ r.id \in off' /\ r.server # NoServer =>
       \/ \E q \in rows' : q = r
       \/ ~\E q \in rows' : q.name = r.name /\ q.server = r.server]_vars
=============================================================================
