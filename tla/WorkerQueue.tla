---------------------------- MODULE WorkerQueue ----------------------------
(***************************************************************************)
(* The worker_jobs queue: API requests that enqueue ingest jobs under the  *)
(* INGEST_QUEUE_MAX ceiling, worker processes that claim and run ingest    *)
(* and purge jobs (src/worker/runner.py), the retention purge with its     *)
(* commits in the middle of a job (src/core/retention/purge.py) and the    *)
(* completion callback (src/core/ingestion/webhooks.py).                   *)
(*                                                                         *)
(* `status` is what is committed.  A job is locked by the worker whose     *)
(* open transaction claimed it; the claim's "running" is not visible to    *)
(* anyone before a commit.  `order` lists the rows by created_at, which    *)
(* PostgreSQL's now() fixes when the inserting transaction begins.  The    *)
(* id of a finished purge row stands for the next fresh row.               *)
(***************************************************************************)
EXTENDS Naturals, FiniteSets, Sequences

CONSTANTS
  Threads,     \* API server threads, each serving one POST at a time
  Workers,     \* worker processes
  IngestIds,   \* ingest jobs that may be enqueued (bounds the POSTs)
  PurgeIds,    \* purge rows that may be active at the same time
  Poison,      \* ingest jobs that raise a database error whenever they run
  QueueMax,    \* INGEST_QUEUE_MAX
  MaxRetries,  \* WEBHOOK_MAX_RETRIES
  MaxExpired,  \* bound on chunks of rows that pass their TTL
  MaxAborts,   \* bound on worker crashes and transient database errors
  NoJob

Ids == IngestIds \cup PurgeIds

ASSUME QueueConstants ==
  /\ IsFiniteSet(IngestIds) /\ IsFiniteSet(PurgeIds) /\ IsFiniteSet(Threads)
  /\ IngestIds \cap PurgeIds = {} /\ Poison \subseteq IngestIds
  /\ QueueMax \in Nat \ {0} /\ MaxRetries \in Nat
  /\ MaxExpired \in Nat /\ MaxAborts \in Nat
  /\ NoJob \notin Ids

VARIABLES
  status,     \* committed status of every row
  row,        \* "none", "created" or "linked": the job's ingestion_jobs row
  order,      \* row ids by created_at
  api,        \* per thread: the row of the POST between its check and commit
  wk,         \* per worker: where its loop is, the claimed job, purge result
  lastPurge,  \* app_config.last_purge_at: "never", "recent" or "old"
  backlog,    \* chunks of expired rows still stored
  expired,    \* history: chunks that ever expired
  aborts,     \* history: rolled-back transactions
  received    \* history: callbacks the receiver saw

vars == <<status, row, order, api, wk, lastPurge, backlog, expired, aborts, received>>

Terminal == {"done", "failed"}
JobStatus == {"none", "pending", "running"} \cup Terminal
RowState == {"none", "created", "linked"}
WorkerState == [pc : {"idle", "ingest", "purge", "purged", "finish", "schedule", "notify"},
                job : Ids \cup {NoJob}, more : BOOLEAN, tries : 0 .. MaxRetries]
Idle == [pc |-> "idle", job |-> NoJob, more |-> FALSE, tries |-> 0]

Pending == {j \in Ids : status[j] = "pending"}
Locked == {wk[w].job : w \in {v \in Workers : wk[v].pc \in {"ingest", "purge"}}}

\* Position in created_at order; a row has one place, or none.
Place(s, id) == CHOOSE i \in 1 .. Len(s) : s[i] = id
Without(s, id) ==
  IF \E i \in 1 .. Len(s) : s[i] = id
    THEN SubSeq(s, 1, Place(s, id) - 1) \o SubSeq(s, Place(s, id) + 1, Len(s))
    ELSE s
FreePurgeIds == {p \in PurgeIds : status[p] \in {"none"} \cup Terminal
                                  /\ \A w \in Workers : wk[w].job # p}
FreeIngestIds == {i \in IngestIds : status[i] = "none" /\ \A t \in Threads : api[t] # i}

\* A new purge row's id means nothing, so any one will do (an ingest job's does:
\* it may be a poison job).
Fresh(ids) == CHOOSE id \in ids : TRUE
-----------------------------------------------------------------------------
(* The API: create_ingestion's ceiling check, then its insert and commit.  *)

\* Mutant: off by one.
FullAboveMax(n) == n > QueueMax

ingest_queue_is_full(n) == n >= QueueMax

\* _reject_if_queue_full answers 429, or the row gets its created_at.
CheckQueue(t) ==
  /\ api[t] = NoJob
  /\ ~ingest_queue_is_full(Cardinality(Pending))
  /\ \E id \in FreeIngestIds :
       /\ api' = [api EXCEPT ![t] = id]
       /\ order' = Append(order, id)
  /\ UNCHANGED <<status, row, wk, lastPurge, backlog, expired, aborts, received>>

CommitEnqueue(t) ==
  /\ api[t] # NoJob
  /\ status' = [status EXCEPT ![api[t]] = "pending"]
  /\ api' = [api EXCEPT ![t] = NoJob]
  /\ UNCHANGED <<row, order, wk, lastPurge, backlog, expired, aborts, received>>
-----------------------------------------------------------------------------
(* The worker loop.                                                        *)

Move(w, pc, job, more) ==
  wk' = [wk EXCEPT ![w] = [pc |-> pc, job |-> job, more |-> more, tries |-> 0]]

\* Mutant: a plain SELECT.
ClaimableUnlocked == Pending

\* Rows SELECT ... FOR UPDATE SKIP LOCKED may return.
Claimable == Pending \ Locked

\* Mutant: the claim commits "running" at once, as a lease would.
ClaimCommits(w) ==
  /\ wk[w].pc = "idle"
  /\ \E id \in Claimable :
       /\ \A other \in Claimable : Place(order, id) <= Place(order, other)
       /\ Move(w, IF id \in PurgeIds THEN "purge" ELSE "ingest", id, FALSE)
       /\ status' = [status EXCEPT ![id] = "running"]
  /\ UNCHANGED <<row, order, api, lastPurge, backlog, expired, aborts, received>>

\* claim_next_job: the oldest pending row nobody holds; process_one branches
\* on its job type.
Claim(w) ==
  /\ wk[w].pc = "idle"
  /\ \E id \in Claimable :
       /\ \A other \in Claimable : Place(order, id) <= Place(order, other)
       /\ Move(w, IF id \in PurgeIds THEN "purge" ELSE "ingest", id, FALSE)
  /\ UNCHANGED <<status, row, order, api, lastPurge, backlog, expired, aborts, received>>

\* process_one's db.commit with a terminal status.
CommitTerminal(w, result) ==
  /\ status' = [status EXCEPT ![wk[w].job] = result]
  /\ order' = Without(order, wk[w].job)

\* Mutant: the commit is left to the end of get_db, after the callback.
SucceedsUncommitted(w) ==
  /\ wk[w].pc = "ingest" /\ wk[w].job \notin Poison
  /\ row' = [row EXCEPT ![wk[w].job] = "linked"]
  /\ Move(w, "notify", wk[w].job, FALSE)
  /\ UNCHANGED <<status, order, api, lastPurge, backlog, expired, aborts, received>>

\* run_ingest_job returned and linked the ingestion job: one transaction.
IngestSucceeds(w) ==
  /\ wk[w].pc = "ingest" /\ wk[w].job \notin Poison
  /\ CommitTerminal(w, "done")
  /\ row' = [row EXCEPT ![wk[w].job] = "linked"]
  /\ Move(w, "notify", wk[w].job, FALSE)
  /\ UNCHANGED <<api, lastPurge, backlog, expired, aborts, received>>

\* It raised, before or after ingest_files / ingest_from_source added the
\* ingestion_jobs row; the handler commits "failed", the row stays unlinked.
IngestFails(w) ==
  /\ wk[w].pc = "ingest" /\ wk[w].job \notin Poison
  /\ CommitTerminal(w, "failed")
  /\ \E r \in {"none", "created"} : row' = [row EXCEPT ![wk[w].job] = r]
  /\ Move(w, "notify", wk[w].job, FALSE)
  /\ UNCHANGED <<api, lastPurge, backlog, expired, aborts, received>>

\* A database error left the transaction unusable: the handler's own flush
\* raises, get_db rolls back and the loop starts over.
PoisonRollsBack(w) ==
  /\ wk[w].pc = "ingest" /\ wk[w].job \in Poison
  /\ wk' = [wk EXCEPT ![w] = Idle]
  /\ UNCHANGED <<status, row, order, api, lastPurge, backlog, expired, aborts, received>>
-----------------------------------------------------------------------------
(* run_purge inside a claimed purge job.                                   *)

\* One chunk is deleted and committed, and with it the claim's "running": the
\* row lock is gone from here on.  A full chunk reports more_remaining even
\* when it was the last.
PurgeChunk(w) ==
  /\ wk[w].pc = "purge"
  /\ status' = [status EXCEPT ![wk[w].job] = "running"]
  /\ backlog' = IF backlog = 0 THEN 0 ELSE backlog - 1
  /\ \E more \in {m \in BOOLEAN : (backlog = 0 => ~m) /\ (backlog > 1 => m)} :
       Move(w, "purged", wk[w].job, more)
  /\ UNCHANGED <<row, order, api, lastPurge, expired, aborts, received>>

\* The second commit: a follow-up job when chunks may remain, else the stamp.
PurgeEpilogue(w) ==
  /\ wk[w].pc = "purged"
  /\ IF wk[w].more
       THEN /\ FreePurgeIds # {}
            /\ LET id == Fresh(FreePurgeIds)
               IN /\ status' = [status EXCEPT ![id] = "pending"]
                  /\ order' = Append(order, id)
            /\ UNCHANGED lastPurge
       ELSE /\ lastPurge' = "recent"
            /\ UNCHANGED <<status, order>>
  /\ Move(w, "finish", wk[w].job, FALSE)
  /\ UNCHANGED <<row, api, backlog, expired, aborts, received>>

\* process_one marks the purge job; purge jobs have no callback.
PurgeDone(w) ==
  /\ wk[w].pc = "finish"
  /\ CommitTerminal(w, "done")
  /\ wk' = [wk EXCEPT ![w] = Idle]
  /\ UNCHANGED <<row, api, lastPurge, backlog, expired, aborts, received>>

\* run_purge raised something other than a database error: the handler commits
\* "failed" and last_purge_at is not stamped.
PurgeFails(w) ==
  /\ wk[w].pc \in {"purge", "purged"} /\ aborts < MaxAborts
  /\ aborts' = aborts + 1
  /\ CommitTerminal(w, "failed")
  /\ wk' = [wk EXCEPT ![w] = Idle]
  /\ UNCHANGED <<row, api, lastPurge, backlog, expired, received>>

\* Mutant: only a worker that never purged schedules one.
PurgeOnce(active, last) == ~active /\ last = "never"

should_enqueue_purge(active, last) == ~active /\ last # "recent"

active_purge == \E p \in PurgeIds : status[p] \in {"pending", "running"}

\* maybe_enqueue_purge on an idle poll: the decision ...
ScheduleCheck(w) ==
  /\ wk[w].pc = "idle" /\ Claimable = {}
  /\ should_enqueue_purge(active_purge, lastPurge)
  /\ FreePurgeIds # {}
  /\ LET id == Fresh(FreePurgeIds)
     IN /\ order' = Append(order, id)
        /\ Move(w, "schedule", id, FALSE)
  /\ UNCHANGED <<status, row, api, lastPurge, backlog, expired, aborts, received>>

\* ... and the insert, committed when the loop's with-block ends.
ScheduleCommit(w) ==
  /\ wk[w].pc = "schedule"
  /\ status' = [status EXCEPT ![wk[w].job] = "pending"]
  /\ wk' = [wk EXCEPT ![w] = Idle]
  /\ UNCHANGED <<row, order, api, lastPurge, backlog, expired, aborts, received>>
-----------------------------------------------------------------------------
(* maybe_deliver_ingest_callback, after the terminal commit.               *)

\* terminal_callback_status, and the job_id the payload carries.
callback_payload(j) ==
  [job |-> j, status |-> status[j],
   job_id |-> IF row[j] = "linked" THEN "ingestion_job_id" ELSE "worker_job_id"]

\* An attempt that the receiver saw, whatever answer came back.
Received(w) == received' = received \cup {callback_payload(wk[w].job)}

\* 2xx, a 4xx that is not retried, or no callback_url: delivery ends.
NotifyEnds(w) ==
  /\ wk[w].pc = "notify"
  /\ Received(w) \/ UNCHANGED received
  /\ wk' = [wk EXCEPT ![w] = Idle]
  /\ UNCHANGED <<status, row, order, api, lastPurge, backlog, expired, aborts>>

\* 5xx, 429 or a transport error, with attempts left.
NotifyRetries(w) ==
  /\ wk[w].pc = "notify" /\ wk[w].tries < MaxRetries
  /\ Received(w) \/ UNCHANGED received
  /\ wk' = [wk EXCEPT ![w] = [pc |-> "notify", job |-> wk[w].job, more |-> FALSE,
                               tries |-> wk[w].tries + 1]]
  /\ UNCHANGED <<status, row, order, api, lastPurge, backlog, expired, aborts>>
-----------------------------------------------------------------------------
\* Mutant: recovery puts the claimed job back whatever its status.
AbortRequeues(w) ==
  /\ wk[w].pc # "idle" /\ aborts < MaxAborts
  /\ aborts' = aborts + 1
  /\ status' = [status EXCEPT ![wk[w].job] = "pending"]
  /\ order' = Append(Without(order, wk[w].job), wk[w].job)
  /\ wk' = [wk EXCEPT ![w] = Idle]
  /\ UNCHANGED <<row, api, lastPurge, backlog, expired, received>>

\* A crash, or a database error the handlers cannot survive: everything since
\* the worker's last commit is undone and the loop starts over.
Abort(w) ==
  /\ wk[w].pc # "idle" /\ aborts < MaxAborts
  /\ aborts' = aborts + 1
  /\ order' = IF wk[w].pc = "schedule" THEN Without(order, wk[w].job) ELSE order
  /\ wk' = [wk EXCEPT ![w] = Idle]
  /\ UNCHANGED <<status, row, api, lastPurge, backlog, expired, received>>

\* PURGE_INTERVAL_SECONDS elapse.
IntervalElapses ==
  /\ lastPurge = "recent"
  /\ lastPurge' = "old"
  /\ UNCHANGED <<status, row, order, api, wk, backlog, expired, aborts, received>>

\* Rows pass their retention.
RowsExpire ==
  /\ expired < MaxExpired
  /\ expired' = expired + 1
  /\ backlog' = backlog + 1
  /\ UNCHANGED <<status, row, order, api, wk, lastPurge, aborts, received>>
-----------------------------------------------------------------------------
Init ==
  /\ status = [j \in Ids |-> "none"]
  /\ row = [j \in Ids |-> "none"]
  /\ order = <<>>
  /\ api = [t \in Threads |-> NoJob]
  /\ wk = [w \in Workers |-> Idle]
  /\ lastPurge = "never"
  /\ backlog = 0 /\ expired = 0 /\ aborts = 0
  /\ received = {}

Request(t) == CheckQueue(t) \/ CommitEnqueue(t)

Loop(w) ==
  \/ Claim(w) \/ IngestSucceeds(w) \/ IngestFails(w) \/ PoisonRollsBack(w)
  \/ PurgeChunk(w) \/ PurgeEpilogue(w) \/ PurgeDone(w)
  \/ ScheduleCheck(w) \/ ScheduleCommit(w)
  \/ NotifyEnds(w) \/ NotifyRetries(w)

Next ==
  \/ \E t \in Threads : Request(t)
  \/ \E w \in Workers : Loop(w) \/ PurgeFails(w) \/ Abort(w)
  \/ IntervalElapses
  \/ RowsExpire

Spec == Init /\ [][Next]_vars

\* A started transaction ends, a worker process keeps looping (and is
\* restarted after a crash), time passes.
Fairness ==
  /\ \A t \in Threads : WF_vars(CommitEnqueue(t))
  /\ \A w \in Workers : WF_vars(Loop(w))
  /\ WF_vars(IntervalElapses)

FairSpec == Spec /\ Fairness
-----------------------------------------------------------------------------
\* The types of the queue; every callback is about an ingest job that ended.
TypeOK ==
  /\ status \in [Ids -> JobStatus]
  /\ row \in [Ids -> RowState]
  /\ order \in Seq(Ids)
  /\ api \in [Threads -> IngestIds \cup {NoJob}]
  /\ wk \in [Workers -> WorkerState]
  /\ lastPurge \in {"never", "recent", "old"}
  /\ backlog \in Nat /\ expired \in 0 .. MaxExpired /\ aborts \in 0 .. MaxAborts
  /\ received \subseteq [job : IngestIds, status : Terminal,
                         job_id : {"ingestion_job_id", "worker_job_id"}]

\* "Safe to run multiple workers": two workers never run, finish or report the
\* same job, although the lock that excludes them ends with the first commit.
ClaimExclusive ==
  \A v, w \in Workers : v # w /\ wk[v].job # NoJob => wk[v].job # wk[w].job

\* A finished ingest is never run again: no crash, rollback or second worker
\* changes a committed terminal status or its ingestion row.
TerminalIsFinal ==
  [][\A j \in IngestIds : status[j] \in Terminal =>
        status'[j] = status[j] /\ row'[j] = row[j]]_vars

\* The ceiling check and the insert are not atomic: concurrent POSTs overshoot
\* INGEST_QUEUE_MAX by less than the number of API threads and no more, however
\* many requests, crashes and re-claims there are.
QueueBound ==
  Cardinality(Pending \cap IngestIds) + Cardinality({t \in Threads : api[t] # NoJob})
    <= QueueMax + Cardinality(Threads) - 1

\* A receiver is only ever told a status that is committed and final, even when
\* the worker dies during the retries.
CallbackTruthful ==
  \A c \in received : c.status \in Terminal /\ status[c.job] = c.status

\* Every enqueued ingest job reaches done or failed.
AcceptedJobsFinish ==
  \A j \in IngestIds : status[j] = "pending" ~> status[j] \in Terminal

\* A job that ends in a database error each time it runs waits to be claimed
\* again.
Poisoned == \E p \in Poison : status[p] = "pending"

\* What does hold of it: a crash or a failed commit never loses an accepted job;
\* only a poison job that is claimed again and again can keep another waiting.
FinishUnlessPoisoned ==
  \A j \in IngestIds \ Poison : status[j] = "pending" ~> status[j] \in Terminal \/ Poisoned

\* Expired rows are eventually deleted: the idle workers keep scheduling purges
\* and the follow-up jobs drain what one chunk leaves.
ExpiredRowsPurged == backlog > 0 ~> backlog = 0

\* A purge row that was left "running" by a worker that is gone.
Stranded == \E p \in PurgeIds : status[p] = "running" /\ \A w \in Workers : wk[w].job # p

\* What does hold of it: nothing but a purge row stranded in "running" or a
\* poison job stops the schedule; failed, aborted and duplicate purges only
\* delay it.
PurgedUnlessStranded == backlog > 0 ~> backlog = 0 \/ Stranded \/ Poisoned
=============================================================================
