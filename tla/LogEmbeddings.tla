---------------------------- MODULE LogEmbeddings ----------------------------
(***************************************************************************)
(* Embedding the lines of an ingest job (core/embeddings, called from      *)
(* _flush_log_batch): after every flush the lines that were really         *)
(* inserted are embedded by a remote API in sub-batches, and the vectors   *)
(* are written in a savepoint of the job's transaction.  Everything that   *)
(* goes wrong on the way is logged and ignored.                            *)
(*                                                                         *)
(* A line is its identity for ux_log_entries_dedup with its text, a vector *)
(* is the text it was computed from and whether it has the stored width.   *)
(***************************************************************************)
EXTENDS Integers, Sequences, SequencesExt, FiniteSets

CONSTANTS
  Blank,        \* the text of a line that is empty once stripped
  Batches,      \* the batches a job may flush: sequences of [n, text]
  ApiBatch,     \* _OPENAI_BATCH_SIZE
  ApiAttempts,  \* attempts of one request
  EmbConfigs,   \* settings: [provider, key, width, local], and whether the job asks
  MaxJobs       \* bound on jobs

ASSUME EmbConstants ==
  /\ \A b \in Batches : b \in Seq(Range(b))
  /\ ApiBatch \in Nat \ {0} /\ ApiAttempts \in Nat \ {0} /\ MaxJobs \in Nat

VARIABLES
  entries,   \* committed log_entries
  vectors,   \* committed log_embeddings: [entry, of]
  embJob,    \* the job that is running: its transaction and the flush at hand
  embPast    \* history of completed jobs: lines counted as inserted, and lines
             \* whose flush could not be embedded soundly

embVars == <<entries, vectors, embJob, embPast>>

NoJob == [pc |-> "none", asked |-> 0]

\* The strict factory: the disabled provider without a key, a broken local
\* model raises.
build_embeddings_provider(cfg) ==
  CASE cfg.provider = "openai" /\ cfg.key -> "openai"
    [] cfg.provider = "local" -> IF cfg.local THEN "local" ELSE "raises"
    [] OTHER -> "disabled"

\* The hot path turns a broken configuration into the disabled provider.
get_embeddings_provider(cfg) ==
  IF build_embeddings_provider(cfg) = "raises" THEN "disabled" ELSE build_embeddings_provider(cfg)

\* No embedder unless the job asks for one, the width fits and one is there.
ingest_embeddings_provider(cfg) ==
  IF cfg.asked /\ cfg.width THEN get_embeddings_provider(cfg) ELSE "disabled"

StartJob(cfg) ==
  /\ embJob.pc = "none" /\ embJob.asked < MaxJobs
  /\ embJob' = [pc |-> "read", asked |-> embJob.asked + 1, provider |-> ingest_embeddings_provider(cfg),
                rows |-> {}, vecs |-> {}, eligible |-> <<>>, got |-> <<>>, sent |-> 0, tries |-> 0,
                counted |-> {}, failed |-> {}, sound |-> TRUE]
  /\ UNCHANGED <<entries, vectors, embPast>>

\* The domain of a function to distinct numbers, lowest first.
Ascending(key) ==
  [k \in 1 .. Cardinality(DOMAIN key) |->
     CHOOSE i \in DOMAIN key : Cardinality({j \in DOMAIN key : key[j] <= key[i]}) = k]

\* _entries_inserted: the places of a batch whose line no earlier row conflicts with.
entries_inserted(batch) == {i \in DOMAIN batch : batch[i] \notin entries \cup embJob.rows}

\* Blank lines are not sent, and keep no place.
eligible(batch) ==
  LET order == Ascending([i \in {j \in entries_inserted(batch) : batch[j].text # Blank} |-> i])
  IN [k \in DOMAIN order |-> batch[order[k]]]

\* The INSERT of a batch.  Without an embedder, or with nothing to embed, the
\* job reads on.
FlushBatch(batch) ==
  LET inserted == {batch[i] : i \in entries_inserted(batch)}
      embeds == embJob.provider # "disabled" /\ eligible(batch) # <<>>
  IN /\ embJob.pc = "read"
     /\ embJob' = [embJob EXCEPT
                     !.pc = IF embeds THEN "embed" ELSE "read",
                     !.rows = @ \cup inserted, !.counted = @ \cup inserted,
                     !.eligible = IF embeds THEN eligible(batch) ELSE <<>>,
                     !.failed = IF embJob.provider = "disabled" THEN @ \cup inserted ELSE @,
                     !.got = <<>>, !.sent = 0, !.tries = 0, !.sound = TRUE]
     /\ UNCHANGED <<entries, vectors, embPast>>

\* The lines of the next request: the local model takes all at once.
NextTexts ==
  LET n == Len(embJob.eligible)
      last == IF embJob.provider = "local" \/ embJob.sent + ApiBatch > n THEN n ELSE embJob.sent + ApiBatch
  IN SubSeq(embJob.eligible, embJob.sent + 1, last)

AllSent == NextTexts = <<>>

\* The items of an answer carry the index of their text and may come in any
\* order.
by_index(items) ==
  LET order == Ascending([i \in DOMAIN items |-> items[i].index])
  IN [k \in DOMAIN order |-> items[order[k]].vec]

\* A local model answers in order.  The API may give all items in some order,
\* leave the last one out, or send a first one too narrow for the column.
Answers(texts) ==
  LET item(i, wide) == [index |-> i, vec |-> [of |-> texts[i].text, wide |-> wide]]
      full == [i \in DOMAIN texts |-> item(i, TRUE)]
  IN IF embJob.provider = "local" THEN {full}
     ELSE {full, Reverse(full), SubSeq(full, 1, Len(full) - 1), [full EXCEPT ![1] = item(1, FALSE)]}

EmbedBatch(items) ==
  /\ embJob.pc = "embed" /\ ~AllSent
  /\ embJob' = [embJob EXCEPT !.got = @ \o by_index(items), !.sent = @ + Len(NextTexts), !.tries = 0,
                              !.sound = @ /\ Len(items) = Len(NextTexts) /\ \A i \in DOMAIN items : items[i].vec.wide]
  /\ UNCHANGED <<entries, vectors, embPast>>

\* A request fails and is sent again; after the last attempt, and for a local
\* model at once, the whole flush goes without vectors.
EmbedFails ==
  /\ embJob.pc = "embed" /\ ~AllSent
  /\ embJob' = IF embJob.provider = "openai" /\ embJob.tries + 1 < ApiAttempts
               THEN [embJob EXCEPT !.tries = @ + 1]
               ELSE [embJob EXCEPT !.pc = "read", !.failed = @ \cup ToSet(embJob.eligible)]
  /\ UNCHANGED <<entries, vectors, embPast>>

\* Rows of the width of the column; the lists are parallel.
build_embedding_rows(lines, vecs) ==
  {[entry |-> lines[i], of |-> vecs[i].of] : i \in {j \in DOMAIN lines : vecs[j].wide}}

\* Mutant: without the savepoint a failed INSERT of vectors takes the lines of
\* the transaction with it.
WithoutSavepoint(kept) ==
  /\ embJob.pc = "embed" /\ AllSent
  /\ embJob' = [embJob EXCEPT !.pc = "read", !.failed = @ \cup ToSet(embJob.eligible),
                              !.rows = IF kept THEN @ ELSE {}]
  /\ UNCHANGED <<entries, vectors, embPast>>

\* All vectors are there: written in a savepoint, which may fail as a whole,
\* unless their number is not that of the lines.
PersistVectors(kept) ==
  LET mismatch == Len(embJob.got) # Len(embJob.eligible)
  IN /\ embJob.pc = "embed" /\ AllSent
     /\ embJob' = [embJob EXCEPT !.pc = "read",
                     !.vecs = IF kept /\ ~mismatch
                              THEN @ \cup build_embedding_rows(embJob.eligible, embJob.got) ELSE @,
                     !.failed = IF kept /\ embJob.sound THEN @ ELSE @ \cup ToSet(embJob.eligible)]
     /\ UNCHANGED <<entries, vectors, embPast>>

\* The job ends with its transaction committed, or is lost with it.
CommitJob ==
  /\ embJob.pc = "read"
  /\ entries' = entries \cup embJob.rows /\ vectors' = vectors \cup embJob.vecs
  /\ embPast' = [counted |-> embPast.counted \cup embJob.counted, failed |-> embPast.failed \cup embJob.failed]
  /\ embJob' = [NoJob EXCEPT !.asked = embJob.asked]

LoseJob ==
  /\ embJob.pc # "none"
  /\ embJob' = [NoJob EXCEPT !.asked = embJob.asked]
  /\ UNCHANGED <<entries, vectors, embPast>>

EmbInit ==
  /\ entries = {} /\ vectors = {} /\ embJob = NoJob
  /\ embPast = [counted |-> {}, failed |-> {}]

EmbNext ==
  \/ \E cfg \in EmbConfigs : StartJob(cfg)
  \/ \E b \in Batches : FlushBatch(b)
  \/ embJob.pc = "embed" /\ ~AllSent /\ \E items \in Answers(NextTexts) : EmbedBatch(items)
  \/ EmbedFails
  \/ \E kept \in BOOLEAN : PersistVectors(kept)
  \/ CommitJob \/ LoseJob

EmbSpec == EmbInit /\ [][EmbNext]_embVars
-----------------------------------------------------------------------------
(* Properties.                                                             *)

\* A stored vector was computed from the text of the line it is stored for,
\* though answers come out of order and in parts, blank lines and duplicates
\* are left out and vectors of another width are dropped.
VectorsAreOwn == \A v \in vectors : v.entry \in entries /\ v.of = v.entry.text

\* A stored line with a text lacks its vector only when the flush that inserted
\* it had no embedder or could not be embedded soundly.  Such a line stays
\* without: a later job that reads it again skips it as a duplicate.
VectorMissesAreFailures ==
  \A l \in entries : l.text # Blank /\ (\A v \in vectors : v.entry # l) => l \in embPast.failed

\* Every line a completed job counts as inserted is stored, whatever became of
\* its vectors.
CountedLinesSurvive == embPast.counted \subseteq entries

\* Embedding never harms the job it is part of: a vector belongs to its line, only
\* a failed flush leaves a line without, and no counted line is lost with one.
EmbeddingIsHarmless == VectorsAreOwn /\ VectorMissesAreFailures /\ CountedLinesSurvive
=============================================================================
