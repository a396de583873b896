------------------------------- MODULE Knowledge -------------------------------
(***************************************************************************)
(* A knowledge document: the API stores it with its ingest message, and    *)
(* the worker cuts it into chunks, embeds each and writes them one by one, *)
(* without a transaction.  The outbox delivers the message again after a   *)
(* failure, and may while another delivery still runs.                     *)
(***************************************************************************)
EXTENDS Naturals, SequencesExt, FiniteSetsExt

CONSTANTS
  Ingests,  \* deliveries of the message
  Texts,    \* documents: the lengths of their paragraphs
  MaxChars,
  OverlapChars

VARIABLES
  text,       \* the document's paragraphs
  document,   \* knowledge_documents.status
  chunks,     \* knowledge_chunks: [ordinal, content, by]
  embeddings, \* the chunks that have one
  ingest,     \* each delivery: [pc, parts]
  overlapped  \* two deliveries ran at once

knowledgeVars == <<text, document, chunks, embeddings, ingest, overlapped>>
-----------------------------------------------------------------------------
(* chunkText. A character is a pair <<paragraph, index>>. *)

Paragraphs(lengths) == [p \in DOMAIN lengths |-> [i \in 1..lengths[p] |-> <<p, i>>]]
Break == <<<<0, 0>>, <<0, 0>>>>   \* the two newlines between the paragraphs of a chunk

Stride_Gap == MaxChars + OverlapChars   \* the overlap on the wrong side
Stride == MaxChars - OverlapChars
Slices(p) ==
  [k \in 1..((Len(p) + Stride - 1) \div Stride) |->
     SubSeq(p, (k - 1) * Stride + 1, Min({Len(p), (k - 1) * Stride + MaxChars}))]

Flushed(acc) == IF acc.buffer = <<>> THEN acc.chunks ELSE Append(acc.chunks, acc.buffer)
AddParagraph(acc, p) ==
  LET candidate == IF acc.buffer = <<>> THEN p ELSE acc.buffer \o Break \o p IN
  IF Len(p) > MaxChars THEN [chunks |-> Flushed(acc) \o Slices(p), buffer |-> <<>>]
  ELSE IF Len(candidate) > MaxChars THEN [chunks |-> Flushed(acc), buffer |-> p]
  ELSE [acc EXCEPT !.buffer = candidate]
\* acc[n] is what the loop has after n paragraphs.
Chunked(paragraphs) ==
  LET acc[n \in 0..Len(paragraphs)] ==
        IF n = 0 THEN [chunks |-> <<>>, buffer |-> <<>>]
        ELSE AddParagraph(acc[n - 1], paragraphs[n])
  IN Flushed(acc[Len(paragraphs)])
-----------------------------------------------------------------------------
KnowledgeInit ==
  /\ \E t \in Texts : text = Paragraphs(t)
  /\ document = "none" /\ chunks = {} /\ embeddings = {}
  /\ ingest = [d \in Ingests |-> [pc |-> "waiting", parts |-> <<>>]]
  /\ overlapped = FALSE

At(d, pc) == ingest[d].pc = pc
MoveTo(d, pc) == ingest' = [ingest EXCEPT ![d].pc = pc]
Busy(d) == ingest[d].pc \notin {"waiting", "done"}

\* KnowledgeService.ingest: document and message in one transaction.
Upload ==
  /\ document = "none" /\ document' = "PENDING"
  /\ UNCHANGED <<text, chunks, embeddings, ingest, overlapped>>

Begin(d) ==
  /\ At(d, "waiting") /\ document # "none"
  /\ document' = "PROCESSING" /\ MoveTo(d, "clear")
  /\ overlapped' = (overlapped \/ \E e \in Ingests : Busy(e))
  /\ UNCHANGED <<text, chunks, embeddings>>

\* deleteMany; the embeddings go with their chunks.
Clear(d) ==
  /\ At(d, "clear")
  /\ chunks' = {} /\ embeddings' = {}
  /\ ingest' = [ingest EXCEPT ![d] = [pc |-> "create", parts |-> Chunked(text)]]
  /\ UNCHANGED <<text, document, overlapped>>

\* The first of the parts that are left, and the number it gets.
Ordinal(d) == Len(Chunked(text)) - Len(ingest[d].parts)
Row(d) == [ordinal |-> Ordinal(d), content |-> ingest[d].parts[1], by |-> d]
CreateChunk(d) ==
  /\ At(d, "create") /\ ingest[d].parts # <<>>
  /\ IF \E c \in chunks : c.ordinal = Ordinal(d)   \* unique with the document
     THEN MoveTo(d, "failed") /\ UNCHANGED chunks
     ELSE chunks' = chunks \cup {Row(d)} /\ MoveTo(d, "embed")
  /\ UNCHANGED <<text, document, embeddings, overlapped>>
\* The embedding's foreign key needs the chunk.
Embed(d) ==
  /\ At(d, "embed") /\ Row(d) \in chunks
  /\ embeddings' = embeddings \cup {Row(d)}
  /\ ingest' = [ingest EXCEPT ![d] = [pc |-> "create", parts |-> Tail(@.parts)]]
  /\ UNCHANGED <<text, document, chunks, overlapped>>
\* Any statement, or the ai-service, may fail.
Fail(d) ==
  /\ ingest[d].pc \in {"clear", "create", "embed"} /\ MoveTo(d, "failed")
  /\ UNCHANGED <<text, document, chunks, embeddings, overlapped>>

End(d, status) ==
  /\ document' = status /\ MoveTo(d, "done")
  /\ UNCHANGED <<text, chunks, embeddings, overlapped>>
Ready(d) == At(d, "create") /\ ingest[d].parts = <<>> /\ End(d, "READY")
Failed(d) == At(d, "failed") /\ End(d, "FAILED")
Crash(d) ==
  /\ Busy(d) /\ MoveTo(d, "done")
  /\ UNCHANGED <<text, document, chunks, embeddings, overlapped>>

Ingest(d) ==
  \/ Begin(d) \/ Clear(d) \/ CreateChunk(d) \/ Embed(d) \/ Fail(d) \/ Ready(d) \/ Failed(d)
  \/ Crash(d)
KnowledgeNext == Upload \/ \E d \in Ingests : Ingest(d)
KnowledgeSpec == KnowledgeInit /\ [][KnowledgeNext]_knowledgeVars
-----------------------------------------------------------------------------
KnowledgeTypeOK ==
  /\ document \in {"none", "PENDING", "PROCESSING", "READY", "FAILED"}
  /\ embeddings \subseteq chunks

Whole ==
  /\ chunks = embeddings
  /\ \A p \in DOMAIN text : Range(text[p]) \subseteq UNION {Range(c.content) : c \in chunks}
  /\ \A c \in chunks : Len(c.content) \in 1..MaxChars
\* A document that is READY can be found by every character of it, in chunks of at most MaxChars
\* that all have their embedding, unless deliveries of its message overlapped.
ReadyIsWhole == document = "READY" /\ ~overlapped => Whole

\* Without the exception: no, the other delivery deletes what the first one wrote.
ReadyIsAlwaysWhole == document = "READY" => Whole
\* What retrieve cites by its vector is of a document that is READY: no, only the text search asks.
CitedIsReady == embeddings # {} => document = "READY"
\* No chunk is all in another: no, the last slice may be the overlap of the one before it alone.
EveryChunkAdds ==
  \A c, d \in chunks : c.by = d.by /\ Range(c.content) \subseteq Range(d.content) => c = d
===============================================================================
