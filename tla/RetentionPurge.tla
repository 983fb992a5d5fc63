--------------------------- MODULE RetentionPurge ---------------------------
(***************************************************************************)
(* Retention (src/core/retention): purges that delete expired rows scope   *)
(* by scope in chunks, one transaction per chunk, while ingest and explain *)
(* keep writing.  Raw rows expire by created_at, explanations and cluster  *)
(* runs by creation or window end, cluster embeddings by last_seen, which  *)
(* every clustering of a window overwrites (src/core/embeddings/store.py). *)
(*                                                                         *)
(* The ids of a chunk are selected in one statement and deleted by id in a *)
(* later one.  A row stands for itself and what ON DELETE CASCADE takes    *)
(* with it (log_embeddings, cluster_members, clusters).                    *)
(***************************************************************************)
EXTENDS Naturals, FiniteSets, Sequences, SequencesExt

CONSTANTS
  RowScopes,     \* isolation scopes
  RawRows, EmbRows, DocRows,  \* log_entries, cluster_embeddings, explanations and runs
  RowScope,      \* RowScope[id]: the scope of each row
  RawTTL,        \* RawTTL[s]: raw_interval of scope s: a duration, Off or Broken
  SumTTL,        \* SumTTL[s]: summary_interval
  Off, Broken,   \* "never purge" and an interval that cannot be parsed
  ChunkSize,     \* purge_chunk_size
  Purgers,       \* processes that purge
  MaxTime,       \* bound on the clock
  Never

Rows == RawRows \cup EmbRows \cup DocRows

ASSUME RetentionConstants ==
  /\ ChunkSize \in Nat \ {0} /\ MaxTime \in Nat /\ Never \notin Nat
  /\ IsFiniteSet(RowScopes) /\ IsFiniteSet(Rows)
  /\ RawRows \cap (EmbRows \cup DocRows) = {} /\ EmbRows \cap DocRows = {}
  /\ RowScope \in [Rows -> RowScopes]
  /\ RawTTL \in [RowScopes -> (Nat \ {0}) \cup {Off, Broken}]
  /\ SumTTL \in [RowScopes -> (Nat \ {0}) \cup {Off, Broken}]

VARIABLES
  time,     \* the clock
  table,    \* the expiry stamp of each row, Never if the row does not exist
  newest,   \* history: the latest last_seen each embedding ever had
  purge,    \* per process: where it is
  stamp     \* app_config.last_purge_at, and whether that run took all scopes

purgeVars == <<time, table, newest, purge, stamp>>

Resting == [pc |-> "idle", clock |-> 0, todo |-> <<>>, all |-> FALSE, drain |-> FALSE,
            sel |-> [id \in {} |-> 0], more |-> FALSE]
-----------------------------------------------------------------------------
(* Policies.                                                               *)

\* validate_policy_intervals: one bad interval skips the scope altogether.
valid_policy(s) == RawTTL[s] # Broken /\ SumTTL[s] # Broken

ttl(id) == IF id \in RawRows THEN RawTTL[RowScope[id]] ELSE SumTTL[RowScope[id]]

\* compute_cutoff: no cutoff for a disabled tier, else rows older than clock - ttl.
expired(id, at, clock) ==
  at # Never /\ ttl(id) \notin {Off, Broken} /\ at + ttl(id) < clock

\* The oldest expired rows of one table, at most ChunkSize: ORDER BY stamp LIMIT.
Oldest(ids) ==
  {id \in ids : Cardinality({k \in ids : table[k] < table[id]}) < ChunkSize}

\* Mutant: cluster embeddings are taken whatever their last_seen.
AnyEmbedding(s, rows, clock) ==
  LET due == {id \in rows : RowScope[id] = s /\ table[id] # Never
                             /\ (id \in EmbRows \/ expired(id, table[id], clock))}
  IN {chunk \in SUBSET Oldest(due) :
        Cardinality(chunk) = IF Cardinality(due) < ChunkSize THEN Cardinality(due) ELSE ChunkSize}

select_expired_ids(s, rows, clock) ==
  LET due == {id \in rows : RowScope[id] = s /\ expired(id, table[id], clock)}
  IN {chunk \in SUBSET Oldest(due) :
        Cardinality(chunk) = IF Cardinality(due) < ChunkSize THEN Cardinality(due) ELSE ChunkSize}

\* list_scopes_to_purge: scopes with data, in order.
list_scopes_to_purge ==
  SetToSeq({s \in RowScopes : \E id \in Rows : RowScope[id] = s /\ table[id] # Never})
-----------------------------------------------------------------------------
(* The writers.                                                            *)

Advance ==
  /\ time < MaxTime
  /\ time' = time + 1
  /\ UNCHANGED <<table, newest, purge, stamp>>

\* Ingest and explain insert rows, a cluster run with the end of its window.  A
\* row that is gone does not come back.
InsertRow(id) ==
  /\ id \in RawRows \cup DocRows /\ newest[id] = Never
  /\ \E at \in IF id \in RawRows THEN {time} ELSE 0 .. time :
       /\ table' = [table EXCEPT ![id] = at]
       /\ newest' = [newest EXCEPT ![id] = at]
  /\ UNCHANGED <<time, purge, stamp>>

Latest(a, b) == IF a = Never \/ a < b THEN b ELSE a

\* cluster_embedding_upsert_statement: last_seen becomes the one of the window
\* just clustered, also when that window lies in the past.
UpsertEmbedding(id) ==
  /\ id \in EmbRows
  /\ \E seen \in 0 .. time :
       /\ table' = [table EXCEPT ![id] = seen]
       /\ newest' = [newest EXCEPT ![id] = Latest(@, seen)]
  /\ UNCHANGED <<time, purge, stamp>>
-----------------------------------------------------------------------------
(* run_purge.                                                              *)

\* The worker takes one chunk of every scope; the command line drains one
\* scope or all.
BeginPurge(p) ==
  /\ purge[p].pc = "idle"
  /\ \E one \in RowScopes \cup {"all"}, cli \in BOOLEAN :
       /\ cli \/ one = "all"
       /\ purge' = [purge EXCEPT ![p] =
            [Resting EXCEPT !.pc = "scope", !.clock = time, !.all = (one = "all"), !.drain = cli,
                            !.todo = IF one = "all" THEN list_scopes_to_purge ELSE <<one>>]]
  /\ UNCHANGED <<time, table, newest, stamp>>

SkipScope(p) ==
  /\ purge[p].pc = "scope" /\ purge[p].todo # <<>>
  /\ ~valid_policy(Head(purge[p].todo))
  /\ purge' = [purge EXCEPT ![p].todo = Tail(@)]
  /\ UNCHANGED <<time, table, newest, stamp>>

\* The SELECTs of purge_raw_chunk and purge_summary_chunk.
SelectChunk(p) ==
  LET s == Head(purge[p].todo)
  IN /\ purge[p].pc = "scope" /\ purge[p].todo # <<>> /\ valid_policy(s)
     /\ \E raw \in select_expired_ids(s, RawRows, purge[p].clock),
           emb \in select_expired_ids(s, EmbRows, purge[p].clock),
           doc \in select_expired_ids(s, DocRows, purge[p].clock) :
          purge' = [purge EXCEPT ![p].pc = "delete",
                                 ![p].sel = [id \in raw \cup emb \cup doc |-> table[id]]]
     /\ UNCHANGED <<time, table, newest, stamp>>

more_remaining(sel) ==
  \E t \in {RawRows, EmbRows, DocRows} : Cardinality(DOMAIN sel \cap t) >= ChunkSize

\* The DELETEs by id and the commit.  The command line stays with the scope
\* until a chunk is empty, the worker goes on after one.
DeleteChunk(p) ==
  LET sel == purge[p].sel
      stay == purge[p].drain /\ DOMAIN sel # {}
  IN /\ purge[p].pc = "delete"
     /\ table' = [id \in Rows |-> IF id \in DOMAIN sel THEN Never ELSE table[id]]
     /\ purge' = [purge EXCEPT ![p].pc = "scope", ![p].sel = Resting.sel,
                               ![p].todo = IF stay THEN @ ELSE Tail(@),
                               ![p].more = @ \/ (~purge[p].drain /\ more_remaining(sel))]
     /\ UNCHANGED <<time, newest, stamp>>

\* enqueue_followup_purge, or last_purge_at: also after a purge of one scope.
FinishPurge(p) ==
  /\ purge[p].pc = "scope" /\ purge[p].todo = <<>>
  /\ stamp' = IF purge[p].more THEN stamp ELSE [clock |-> purge[p].clock, all |-> purge[p].all]
  /\ purge' = [purge EXCEPT ![p] = Resting]
  /\ UNCHANGED <<time, table, newest>>

\* A crash rolls the open chunk back.
KillPurge(p) ==
  /\ purge[p].pc # "idle"
  /\ purge' = [purge EXCEPT ![p] = Resting]
  /\ UNCHANGED <<time, table, newest, stamp>>
-----------------------------------------------------------------------------
PurgeInit ==
  /\ time = 0
  /\ table = [id \in Rows |-> Never]
  /\ newest = [id \in Rows |-> Never]
  /\ purge = [p \in Purgers |-> Resting]
  /\ stamp = [clock |-> Never, all |-> FALSE]

PurgeNext ==
  \/ Advance
  \/ \E id \in Rows : InsertRow(id) \/ UpsertEmbedding(id)
  \/ \E p \in Purgers : BeginPurge(p) \/ SkipScope(p) \/ SelectChunk(p) \/ DeleteChunk(p)
                         \/ FinishPurge(p) \/ KillPurge(p)

PurgeSpec == PurgeInit /\ [][PurgeNext]_purgeVars
-----------------------------------------------------------------------------
(* Properties.                                                             *)

Deleted(id) == table[id] # Never /\ table'[id] = Never

\* A raw row, an explanation or a cluster run disappears only when its own
\* scope's policy lets it: never in a scope whose tier is off or whose interval
\* cannot be parsed, whatever scopes are purged at the same time.
RowsKeptForTTL ==
  [][\A id \in RawRows \cup DocRows : Deleted(id) =>
       valid_policy(RowScope[id]) /\ expired(id, table[id], time)]_purgeVars

\* An incident seen within the summary TTL loses its embedding in two ways
\* only: last_seen was moved back by a clustering of an older window, or the
\* row was refreshed between the SELECT and the DELETE of a purge.
RecurringKept ==
  [][\A id \in EmbRows : Deleted(id) /\ ~expired(id, newest[id], time) =>
       \/ table[id] # newest[id]
       \/ \E p \in Purgers : id \in DOMAIN purge[p].sel /\ purge[p].sel[id] # table[id]]_purgeVars

\* After a purge of all scopes has stamped last_purge_at, no raw row is left
\* that was expired when it began: no chunk is forgotten until the next interval.
StampMeansDrained ==
  stamp.all =>
    \A id \in RawRows : valid_policy(RowScope[id]) => ~expired(id, table[id], stamp.clock)

\* A purge takes what has expired, all of it and nothing else: whoever reads
\* last_purge_at may rely on it, no row goes before its own scope's policy lets it,
\* and a recurring incident keeps its embedding but for the two cases named above.
PurgeIsExact == []StampMeansDrained /\ RowsKeptForTTL /\ RecurringKept
=============================================================================
