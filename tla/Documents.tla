------------------------------- MODULE Documents -------------------------------
(***************************************************************************)
(* One architecture document and its version history, edited by users, in  *)
(* a transaction each, and by the manager agent, in the transaction of its *)
(* session.  An edit reads the row, inserts what it is about to overwrite  *)
(* as version current_version + 1, removes versions beyond the cap and     *)
(* updates the row.  The unique key of the version numbers makes of two    *)
(* edits of one content the second wait and fail; nothing keeps two        *)
(* transactions from creating the document, and an agent cannot create one *)
(* at all: the constraint its INSERT names is created by no migration.     *)
(***************************************************************************)
EXTENDS Integers, FiniteSets

CONSTANTS
  Calls,        \* transactions open at a time
  MaxVersions,  \* _MAX_VERSIONS
  MaxEdits      \* bound on the edits begun

VARIABLES
  doc,        \* the committed row: how many there are, its content and current_version
  versions,   \* committed versions, [n, content]
  tx,         \* the transactions
  edits,      \* edits ever begun; the contents they write are numbered by it
  overtaken   \* history: an edit was so slow that its number has been pruned

vars == <<doc, versions, tx, edits, overtaken>>

NoDoc == [rows |-> 0, content |-> 0, current |-> 0]
NoWrite == [content |-> 0, current |-> 0]
Closed == [by |-> "nobody", at |-> "rest", read |-> NoDoc, content |-> 0,
           inserted |-> {}, added |-> {}, removed |-> {}, write |-> NoWrite, created |-> FALSE]

TypeOK ==
  /\ doc.rows \in 0 .. Cardinality(Calls) /\ doc.content \in 0 .. edits
  /\ \A v, w \in versions : v.n = w.n => v = w
  /\ \A c \in Calls : tx[c].at \in {"rest", "snapshot", "update", "create", "over"}
  /\ overtaken \in BOOLEAN

Init ==
  /\ doc = NoDoc /\ versions = {} /\ edits = 0 /\ overtaken = FALSE
  /\ tx = [c \in Calls |-> Closed]

Numbers(S) == {v.n : v \in S}
Sees(c) ==
  IF tx[c].created THEN [rows |-> doc.rows + 1, content |-> tx[c].write.content, current |-> tx[c].write.current]
  ELSE IF tx[c].write # NoWrite THEN [doc EXCEPT !.content = tx[c].write.content, !.current = tx[c].write.current]
  ELSE doc
Locked(c) == \E d \in Calls \ {c} : tx[d].write # NoWrite /\ ~tx[d].created

(* get_by_type, which raises where there are two rows: nothing edits the     *)
(* document any more.  The content is a new one, or for revert_to_version    *)
(* that of a version.                                                        *)
Read(c, by) ==
  /\ tx[c] = Closed \/ (by = "agent" /\ tx[c].by = by /\ tx[c].at = "rest")
  /\ Sees(c).rows <= 1
  /\ edits < MaxEdits /\ edits' = edits + 1
  /\ \E content \in {edits'} \cup {v.content : v \in {w \in versions : by = "user"}} :
       tx' = [tx EXCEPT ![c].by = by, ![c].read = Sees(c), ![c].content = content,
                        ![c].at = IF Sees(c).rows = 0 THEN "create" ELSE "snapshot"]
  /\ UNCHANGED <<doc, versions, overtaken>>

(* A user's first edit.                                                      *)
Create(c) ==
  /\ tx[c].at = "create" /\ tx[c].by = "user"
  /\ tx' = [tx EXCEPT ![c].at = "over", ![c].created = TRUE,
                      ![c].write = [content |-> tx[c].content, current |-> 1]]
  /\ UNCHANGED <<doc, versions, edits, overtaken>>

Visible(c) == {v \in versions : v.n \notin tx[c].removed} \cup tx[c].added
Newest(S) == {v \in S : Cardinality({w \in S : w.n > v.n}) < MaxVersions}

(* A mutant: the version is the content to come.                             *)
SnapshotOf(c) == [n |-> tx[c].read.current + 1, content |-> tx[c].content]

(* _snapshot_version: its INSERT waits for a transaction that has inserted   *)
(* the same number, deleted again or not, and fails (Rollback) where the     *)
(* number is taken.                                                          *)
OldContent(c) == [n |-> tx[c].read.current + 1, content |-> tx[c].read.content]

Snapshot(c) ==
  LET v == OldContent(c)
      kept == Newest(Visible(c) \cup {v})
  IN /\ tx[c].at = "snapshot"
     /\ v.n \notin Numbers(Visible(c))
     /\ \A d \in Calls \ {c} : v.n \notin tx[d].inserted
     /\ tx' = [tx EXCEPT ![c].at = "update", ![c].inserted = @ \cup {v.n},
                         ![c].added = (@ \cup {v}) \cap kept,
                         ![c].removed = @ \cup (Numbers(Visible(c)) \ Numbers(kept))]
     /\ overtaken' = (overtaken \/ doc.current > tx[c].read.current)
     /\ UNCHANGED <<doc, versions, edits>>

Update(c) ==
  /\ tx[c].at = "update" /\ ~Locked(c)
  /\ tx' = [tx EXCEPT ![c].at = IF tx[c].by = "agent" THEN "rest" ELSE "over",
       ![c].write = [content |-> tx[c].content, current |-> tx[c].read.current + 1]]
  /\ UNCHANGED <<doc, versions, edits, overtaken>>

Commit(c) ==
  /\ tx[c].at = "over" \/ (tx[c].by = "agent" /\ tx[c].at = "rest")
  /\ doc' = IF tx[c].write = NoWrite THEN doc
            ELSE [rows |-> IF tx[c].created THEN doc.rows + 1 ELSE doc.rows,
                  content |-> tx[c].write.content, current |-> tx[c].write.current]
  /\ versions' = {v \in versions : v.n \notin tx[c].removed} \cup tx[c].added
  /\ tx' = [tx EXCEPT ![c] = Closed]
  /\ UNCHANGED <<edits, overtaken>>

(* A statement fails, an agent's INSERT of the document always; the session  *)
(* is interrupted, the commit fails.                                         *)
Rollback(c) ==
  /\ tx[c] # Closed
  /\ tx' = [tx EXCEPT ![c] = Closed]
  /\ UNCHANGED <<doc, versions, edits, overtaken>>

Next ==
  \E c \in Calls :
    \/ \E by \in {"user", "agent"} : Read(c, by)
    \/ Create(c) \/ Snapshot(c) \/ Update(c) \/ Commit(c) \/ Rollback(c)

Spec == Init /\ [][Next]_vars

(***************************************************************************)
(* Properties                                                              *)
(***************************************************************************)
(* Whatever edits overlap, what one overwrites is in the history when it is  *)
(* committed, or so many edits of one session followed that the cap has       *)
(* pruned it: unless the document has been created twice, or an edit was     *)
(* overtaken by so many that the number it took had been pruned again.       *)
EditKept ==
  [][doc'.content # doc.content /\ doc.rows = 1 /\ doc'.rows = 1 /\ ~overtaken =>
       \/ doc.content \in {v.content : v \in versions'}
       \/ \A v \in versions' : v.n > doc.current + 1]_vars

(* project_documents.py:131, the upsert of an agent: constraint=             *)
(* "uq_project_documents_project_type", one row of a project and type.       *)
OneDocument == doc.rows <= 1
=============================================================================
