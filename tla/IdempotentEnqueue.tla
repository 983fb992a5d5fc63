------------------------- MODULE IdempotentEnqueue -------------------------
(***************************************************************************)
(* POST /v1/ingestions with one Idempotency-Key                            *)
(* (src/api/routes/ingestions.py, src/core/ingestion/idempotency.py):      *)
(* concurrent and repeated requests, each in its own READ COMMITTED        *)
(* transaction, look the key up, insert a job, bind the key to it and      *)
(* commit.  A request's name stands for the job it inserts.                *)
(*                                                                         *)
(* `keyrow` is the committed ingest_idempotency_keys row.  A transaction   *)
(* that deleted or inserted the row holds the key until it ends; others    *)
(* that touch the row wait for it.                                         *)
(***************************************************************************)
EXTENDS Integers, FiniteSets

CONSTANTS
  Requests,   \* the requests that carry the key
  Scopes,     \* isolation scopes they are authenticated for
  TTL,        \* INGEST_IDEMPOTENCY_TTL_SECONDS
  MaxClock,    \* bound on the clock
  MaxAborts,  \* bound on requests that die or fail to commit
  NoRow, NoTime, NoRequest

ASSUME KeyConstants ==
  /\ IsFiniteSet(Requests) /\ Scopes # {}
  /\ TTL \in Nat \ {0} /\ MaxClock \in Nat /\ MaxAborts \in Nat
  /\ NoRequest \notin Requests /\ NoRow \notin [job : Requests, expires : Nat]
  /\ Requests \cap {"none", "409", "429", "500"} = {}

VARIABLES
  now,     \* the clock
  keyrow,  \* committed row: the job it names and when it expires, or NoRow
  holder,  \* the request whose open transaction has touched the row
  req,     \* per request: where it is, its scope, the row it read, its clock
  jobs,    \* committed jobs, with their scope
  bound,   \* history: every committed binding and its created_at
  response,  \* per request: the answer
  aborts   \* requests that were rolled back by a failure

keyVars == <<now, keyrow, holder, req, jobs, bound, response, aborts>>

NewRequest == [pc |-> "start", scope |-> NoRow, read |-> NoRow, at |-> NoTime]

\* is_active
is_active(r, t) == r # NoRow /\ r.expires > t

scope_of(job) == (CHOOSE j \in jobs : j.id = job).scope

\* The answer to a request of the scope when the row is already bound:
\* a replay, or the scope conflict.
replay(scope, r) == IF scope_of(r.job) = scope THEN r.job ELSE "409"

\* Mutant: the connection goes back to the pool with its transaction open.
EndKeepsHolder(r, code) ==
  /\ response' = [response EXCEPT ![r] = code]
  /\ req' = [req EXCEPT ![r].pc = "done"]
  /\ UNCHANGED holder

\* The transaction ends without writing anything: the request's own job was
\* never inserted, was deleted again, or is rolled back with it.
EndWith(r, code) ==
  /\ response' = [response EXCEPT ![r] = code]
  /\ req' = [req EXCEPT ![r].pc = "done"]
  /\ holder' = IF holder = r THEN NoRequest ELSE holder
-----------------------------------------------------------------------------
\* _replay_if_active: an active row answers at once.
Lookup(r, scope) ==
  /\ req[r].pc = "start"
  /\ IF is_active(keyrow, now)
       THEN /\ response' = [response EXCEPT ![r] = replay(scope, keyrow)]
            /\ req' = [req EXCEPT ![r].pc = "done", ![r].scope = scope]
       ELSE /\ req' = [req EXCEPT ![r].pc = "enqueue", ![r].scope = scope]
            /\ UNCHANGED response
  /\ UNCHANGED <<now, keyrow, holder, jobs, bound, aborts>>

\* _reject_if_queue_full
QueueFull(r) ==
  /\ req[r].pc = "enqueue"
  /\ EndWith(r, "429")
  /\ UNCHANGED <<now, keyrow, jobs, bound, aborts>>

\* The job is inserted (uncommitted); store_idempotency_key takes its clock.
InsertJob(r) ==
  /\ req[r].pc = "enqueue"
  /\ req' = [req EXCEPT ![r].pc = "reread", ![r].at = now]
  /\ UNCHANGED <<now, keyrow, holder, jobs, bound, response, aborts>>

\* store_idempotency_key reads the row again: another request may have bound
\* the key since the lookup, and then this one's job is deleted again.
Reread(r) ==
  /\ req[r].pc = "reread"
  /\ IF is_active(keyrow, req[r].at)
       THEN EndWith(r, replay(req[r].scope, keyrow))
       ELSE /\ req' = [req EXCEPT ![r].pc = IF keyrow = NoRow THEN "insert" ELSE "delete",
                                  ![r].read = keyrow]
            /\ UNCHANGED <<holder, response>>
  /\ UNCHANGED <<now, keyrow, jobs, bound, aborts>>

\* db.delete(existing) becomes DELETE ... WHERE key = ..., the primary key, with a
\* snapshot of its own: it removes whatever row is committed by now, also one
\* that replaced the expired row since the reread, or queues behind the
\* transaction that holds the row.
DeleteExpired(r) ==
  /\ req[r].pc = "delete"
  /\ IF holder = NoRequest
       THEN /\ holder' = r
            /\ req' = [req EXCEPT ![r].pc = "insert"]
       ELSE /\ req' = [req EXCEPT ![r].pc = "deleting", ![r].read = keyrow]
            /\ UNCHANGED holder
  /\ UNCHANGED <<now, keyrow, jobs, bound, response, aborts>>

\* The queued DELETE goes on.  A row replaced in the meantime is not in its
\* snapshot: it then matches nothing, which only warns.
DeleteResumes(r) ==
  /\ req[r].pc = "deleting" /\ holder = NoRequest
  /\ holder' = IF keyrow = req[r].read THEN r ELSE holder
  /\ req' = [req EXCEPT ![r].pc = "insert"]
  /\ UNCHANGED <<now, keyrow, jobs, bound, response, aborts>>

\* Mutant: the key column has no unique constraint.
InsertDuplicate(r) ==
  /\ req[r].pc = "insert"
  /\ holder' = r
  /\ req' = [req EXCEPT ![r].pc = "commit"]
  /\ UNCHANGED <<now, keyrow, jobs, bound, response, aborts>>

\* The savepoint's insert waits for another transaction on the key, then
\* succeeds if there is no row but the one this transaction deleted.
InsertKey(r) ==
  /\ req[r].pc = "insert" /\ holder \in {NoRequest, r}
  /\ keyrow = NoRow \/ holder = r
  /\ holder' = r
  /\ req' = [req EXCEPT ![r].pc = "commit"]
  /\ UNCHANGED <<now, keyrow, jobs, bound, response, aborts>>

\* Mutant: the loser's own job is left in its transaction, which commits.
RaceKeepsJob(r) ==
  /\ req[r].pc = "insert" /\ holder = NoRequest /\ keyrow # NoRow
  /\ EndWith(r, IF is_active(keyrow, req[r].at)
                  THEN replay(req[r].scope, keyrow) ELSE "500")
  /\ jobs' = jobs \cup {[id |-> r, scope |-> req[r].scope]}
  /\ UNCHANGED <<now, keyrow, bound, aborts>>

\* IntegrityError: the winner's row is replayed and this job deleted, or, if it
\* is not active for this request's clock, the error is raised.
RaceLost(r) ==
  /\ req[r].pc = "insert" /\ holder = NoRequest /\ keyrow # NoRow
  /\ EndWith(r, IF is_active(keyrow, req[r].at)
                  THEN replay(req[r].scope, keyrow) ELSE "500")
  /\ UNCHANGED <<now, keyrow, jobs, bound, aborts>>

\* get_db commits the job and the binding together.
Commit(r) ==
  /\ req[r].pc = "commit"
  /\ keyrow' = [job |-> r, expires |-> req[r].at + TTL]
  /\ jobs' = jobs \cup {[id |-> r, scope |-> req[r].scope]}
  /\ bound' = bound \cup {[job |-> r, at |-> req[r].at]}
  /\ EndWith(r, r)
  /\ UNCHANGED <<now, aborts>>

\* The request dies or its commit fails: get_db rolls back.
Abort(r) ==
  /\ req[r].pc \notin {"start", "done"} /\ aborts < MaxAborts
  /\ aborts' = aborts + 1
  /\ EndWith(r, "500")
  /\ UNCHANGED <<now, keyrow, jobs, bound>>

ClockTicks ==
  /\ now < MaxClock
  /\ now' = now + 1
  /\ UNCHANGED <<keyrow, holder, req, jobs, bound, response, aborts>>
-----------------------------------------------------------------------------
KeyInit ==
  /\ now = 0
  /\ keyrow = NoRow
  /\ holder = NoRequest
  /\ req = [r \in Requests |-> NewRequest]
  /\ jobs = {} /\ bound = {}
  /\ response = [r \in Requests |-> "none"]
  /\ aborts = 0

Serve(r) ==
  \/ QueueFull(r) \/ InsertJob(r) \/ Reread(r) \/ DeleteExpired(r)
  \/ DeleteResumes(r) \/ InsertKey(r) \/ RaceLost(r) \/ Commit(r)

KeyNext ==
  \/ \E r \in Requests : (\E scope \in Scopes : Lookup(r, scope)) \/ Serve(r) \/ Abort(r)
  \/ ClockTicks

KeySpec == KeyInit /\ [][KeyNext]_keyVars

\* The server keeps serving a request it has accepted.
KeyFairSpec == KeySpec /\ \A r \in Requests : WF_keyVars(Serve(r))
-----------------------------------------------------------------------------
\* The types of the key row, the requests and their answers; a key never expires
\* before the clock starts.
KeyTypeOK ==
  /\ now \in 0 .. MaxClock
  /\ keyrow \in [job : Requests, expires : Nat] \cup {NoRow}
  /\ holder \in Requests \cup {NoRequest}
  /\ \A r \in Requests :
       /\ req[r].pc \in {"start", "enqueue", "reread", "delete", "deleting",
                         "insert", "commit", "done"}
       /\ req[r].scope \in Scopes \cup {NoRow}
       /\ req[r].at \in (0 .. MaxClock) \cup {NoTime}
       /\ response[r] \in Requests \cup {"none", "409", "429", "500"}
  /\ jobs \subseteq [id : Requests, scope : Scopes]
  /\ bound \subseteq [job : Requests, at : 0 .. MaxClock]
  /\ aborts \in 0 .. MaxAborts

\* "A repeat within INGEST_IDEMPOTENCY_TTL_SECONDS returns the original job instead
\* of starting a new one": two jobs started under one key are at least a TTL
\* apart, whatever requests race for the key.
OneJobPerTTL ==
  \A a, b \in bound : a.job # b.job => a.at - b.at >= TTL \/ b.at - a.at >= TTL

\* What does hold of it: while a binding has not expired, requests that race for
\* the key start no second job.  Two bindings less than a TTL apart both came
\* after the expiry of a common predecessor.
OneJobUnlessExpired ==
  \A a, b \in bound : (a.job # b.job /\ a.at - b.at < TTL /\ b.at - a.at < TTL) =>
     \E c \in bound : c.at + TTL <= a.at /\ c.at + TTL <= b.at

\* A request that loses the race leaves nothing behind: the committed jobs are
\* exactly the ones some binding started.
NoOrphanJob == {j.id : j \in jobs} = {b.job : b \in bound}

\* A 202 names a committed job of the caller's own scope: a replay never hands
\* out another scope's job, nor one whose transaction was rolled back.
AnswerNamesOwnJob ==
  \A r \in Requests : response[r] \in Requests =>
     [id |-> response[r], scope |-> req[r].scope] \in jobs

\* No request waits for ever for the row another transaction holds: in the end
\* none is left between its arrival and its answer.
EveryRequestAnswered == <>[](\A r \in Requests : req[r].pc \in {"start", "done"})

\* Jobs and answers agree: the losers of a race leave no job behind, and a 202
\* names a committed job of the caller's own scope.
JobsMatchAnswers == NoOrphanJob /\ AnswerNamesOwnJob
=============================================================================
