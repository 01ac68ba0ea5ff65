----------------------------- MODULE Knowledge -----------------------------
(***************************************************************************)
(* The knowledge base of a project: uploads that are admitted under a      *)
(* quota, read, cut into chunks, embedded batch by batch and committed as  *)
(* one transaction each, and deletions.  The quota is compared with what   *)
(* is committed before the file is read and the embedding awaited.  A text *)
(* is a sequence of paragraphs, a paragraph a sequence of sentences, and a *)
(* sentence a length; what separates them has none.                        *)
(***************************************************************************)
EXTENDS Integers, Sequences, FiniteSets, FiniteSetsExt, SequencesExt

CONSTANTS
  Docs,         \* documents that may be uploaded
  Texts,        \* what they may contain
  MaxChunk,     \* _MAX_CHUNK_CHARS
  Overlap,      \* _OVERLAP_CHARS
  BatchSize,    \* knowledge_embed_batch_size
  MaxDocs,      \* knowledge_max_documents, 0 for no quota
  MaxBytes,     \* knowledge_max_total_bytes, 0 for no quota
  MaxFile,      \* knowledge_max_file_size_bytes
  MaxAtOnce     \* uploads at once: each holds a connection of the pool

MaxRetries == 3  \* of _embed_single_batch

VARIABLE doc  \* of every upload: its row, its chunks and its progress

-----------------------------------------------------------------------------
(* Chunks                                                                  *)

\* A sentence is its paragraph, its place in it, and its length.
SentencesOf(text) ==
  [p \in DOMAIN text |-> [i \in DOMAIN text[p] |-> <<p, i, text[p][i]>>]]
Length(sentences) == FoldLeft(LAMBDA n, s : n + s[3], 0, sentences)

\* The buffer of _chunk: what is done, what is collected, and the tail that goes before it.
Buffer == [done |-> <<>>, current |-> <<>>, tail |-> 0]

\* The tail is cut from what was collected, not from the tail before it.
Flush(b) ==
  IF b.current = <<>> THEN b
  ELSE [done |-> Append(b.done, [tail |-> b.tail, body |-> b.current]),
        current |-> <<>>,
        tail |-> IF Overlap < Length(b.current) THEN Overlap ELSE Length(b.current)]

Take(b, piece) ==
  LET room == IF Length(b.current) + Length(piece) > MaxChunk THEN Flush(b) ELSE b
  IN  [room EXCEPT !.current = @ \o piece]

\* A paragraph that is too long goes in by its sentences.
TakeParagraph(b, paragraph) ==
  IF Length(paragraph) > MaxChunk
  THEN FoldLeft(LAMBDA c, s : Take(c, <<s>>), Flush(b), paragraph)
  ELSE Take(b, paragraph)

\* The mutant forgets the remainder.
ChunksWithoutRest(text) == FoldLeft(TakeParagraph, Buffer, SentencesOf(text)).done
Chunks(text) == Flush(FoldLeft(TakeParagraph, Buffer, SentencesOf(text))).done

-----------------------------------------------------------------------------
(* Uploads                                                                 *)

NoDoc == [at |-> "none", text |-> <<>>, chunks |-> <<>>, embedded |-> 0, attempt |-> 1]
Size(text) == FoldLeft(LAMBDA n, p : n + FoldLeft(+, 0, p), 0, text)

Indexed == {d \in Docs : doc[d].at = "indexed"}
UnderWay == {d \in Docs : doc[d].at \in {"admitted", "embedding"}}
Bytes(D) == MapThenSumSet(LAMBDA d : Size(doc[d].text), D)

TypeOK ==
  \A d \in Docs :
    /\ doc[d].at \in {"none", "admitted", "embedding", "indexed"}
    /\ doc[d].text \in Texts \cup {<<>>}
    /\ doc[d].embedded \in 0..Len(doc[d].chunks) /\ doc[d].attempt \in 1..MaxRetries

Init == doc = [d \in Docs |-> NoDoc]

\* check_quota: the rows committed, the new one not counted; a failed upload leaves none.  The
\* mutant compares with the quota wrongly.
WithinQuotaOrAtIt ==
  /\ MaxDocs > 0 => Cardinality(Indexed) <= MaxDocs
  /\ MaxBytes > 0 => Bytes(Indexed) <= MaxBytes
WithinQuota ==
  /\ MaxDocs > 0 => Cardinality(Indexed) < MaxDocs
  /\ MaxBytes > 0 => Bytes(Indexed) < MaxBytes

\* upload_knowledge_document up to the file's arrival; a file that is empty, too large or of
\* another type is refused there.
Upload(d) ==
  /\ doc[d].at = "none" /\ Cardinality(UnderWay) < MaxAtOnce
  /\ WithinQuota
  /\ \E text \in Texts :
       /\ Size(text) <= MaxFile  \* <<>> is a file of white space
       /\ doc' = [doc EXCEPT ![d] = [NoDoc EXCEPT !.at = "admitted", !.text = text]]

\* ingest up to the embedding: a text without chunks is an error.
Parse(d) ==
  LET chunks == Chunks(doc[d].text) IN
  /\ doc[d].at = "admitted"
  /\ doc' = [doc EXCEPT ![d] = IF chunks = <<>> THEN NoDoc
                              ELSE [@ EXCEPT !.at = "embedding", !.chunks = chunks]]

\* One batch is embedded.
Embed(d) ==
  LET n == doc[d].embedded + BatchSize IN
  /\ doc[d].at = "embedding" /\ doc[d].embedded < Len(doc[d].chunks)
  /\ doc' = [doc EXCEPT ![d].embedded = IF n < Len(doc[d].chunks) THEN n ELSE Len(doc[d].chunks),
                        ![d].attempt = 1]

\* A transient error is tried again after a wait.
Retry(d) ==
  /\ doc[d].at = "embedding" /\ doc[d].embedded < Len(doc[d].chunks)
  /\ doc[d].attempt < MaxRetries
  /\ doc' = [doc EXCEPT ![d].attempt = @ + 1]

\* Any other error, at the third attempt too, and a request that breaks off: the row "failed"
\* is rolled back with the rest.
Fails(d) ==
  /\ doc[d].at \in {"admitted", "embedding"}
  /\ doc' = [doc EXCEPT ![d] = NoDoc]

\* The chunks' rows, the status, and the commit.
Commit(d) ==
  /\ doc[d].at = "embedding" /\ doc[d].embedded = Len(doc[d].chunks)
  /\ doc' = [doc EXCEPT ![d].at = "indexed"]

\* With its chunks.
Delete(d) ==
  /\ doc[d].at = "indexed"
  /\ doc' = [doc EXCEPT ![d] = NoDoc]

Next ==
  \E d \in Docs :
    Upload(d) \/ Parse(d) \/ Embed(d) \/ Retry(d) \/ Fails(d) \/ Commit(d) \/ Delete(d)

Spec == Init /\ [][Next]_doc

-----------------------------------------------------------------------------
(* Properties                                                              *)

\* Uploads under way are not counted and the size of a new file is not either: a project
\* passes its quotas, but by less than the uploads that may be under way at once.
QuotaOvershoot ==
  /\ MaxDocs > 0 => Cardinality(Indexed \cup UnderWay) < MaxDocs + MaxAtOnce
  /\ MaxBytes > 0 => Bytes(Indexed \cup UnderWay) < MaxBytes + MaxAtOnce * MaxFile

\* What can be found of an indexed document is the whole of it, in order, and a chunk with the
\* tail before it has at most the two sizes configured, or else is one long sentence: nothing
\* but its sentences cuts a paragraph that is too long, such as a whole CSV file.
ChunksCover ==
  \A d \in Indexed :
    LET chunks == doc[d].chunks IN
    /\ FlattenSeq([i \in DOMAIN chunks |-> chunks[i].body]) = FlattenSeq(SentencesOf(doc[d].text))
    /\ \A i \in DOMAIN chunks :
         /\ chunks[i].tail <= Overlap /\ (i = 1 => chunks[i].tail = 0)
         /\ Length(chunks[i].body) <= MaxChunk \/ Len(chunks[i].body) = 1
=============================================================================
