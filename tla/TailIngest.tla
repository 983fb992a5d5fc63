----------------------------- MODULE TailIngest -----------------------------
(***************************************************************************)
(* A tail-mode ingestion job (src/core/ingestion/tail.py), the worker tick *)
(* that polls it, and the HTTP lifecycle requests (pause / resume / stop)  *)
(* that race with the tick.                                                *)
(*                                                                         *)
(* Time is a natural number.  A window [start, end) covers the instants    *)
(* start .. end-1.  A stream's pagination cursor is the first instant of   *)
(* the window that has not been read yet (Loki's cursor is exactly that,   *)
(* CloudWatch and Datadog tokens stand for it), or NoCursor.               *)
(*                                                                         *)
(* The tick runs in the transaction that holds the row lock taken by       *)
(* SELECT ... FOR UPDATE SKIP LOCKED; a lifecycle request loads the row    *)
(* without a lock and issues its UPDATE later, waiting for the row lock.   *)
(***************************************************************************)
EXTENDS Integers, FiniteSets

CONSTANTS
  Streams,         \* stream ids the adapter discovers for the job
  Workers,         \* worker processes
  Clients,         \* concurrent lifecycle requests
  Adapters,        \* the adapters the job may be created for
  PollInterval,    \* TAIL_POLL_INTERVAL
  ErrorThreshold,  \* TAIL_ERROR_THRESHOLD
  FirstSpan,       \* length of the first window (spec's since, or one minute)
  FromTimes,       \* the from_time a job may be created with
  ToTimes,         \* the to_time a job with a from_time may be created with
  MaxTime,         \* bound on the clock
  MaxOutages,      \* bound on ticks with an unavailable source or another error
  MaxCrashes,      \* bound on worker crashes and failed commits
  NoCursor, NoTime, NoWindow, Nobody

Statuses == {"running", "paused", "stopped"}
TAIL_LIFECYCLE_ACTIONS == {"pause", "resume", "stop"}

Instant == -FirstSpan .. MaxTime
Window == [start : Instant, end : Instant]
Asked == [start : FromTimes, end : ToTimes \cup {NoTime}]
Poll == [now : 0 .. MaxTime, window : Window]
LifecycleRequest == [action : TAIL_LIFECYCLE_ACTIONS, loaded : Statuses]
Job == [status : Statuses, lastPolled : (0 .. MaxTime) \cup {NoTime},
        errors : 0 .. MaxOutages, cursor : [Streams -> Instant \cup {NoCursor}],
        held : Window \cup {NoWindow}]

ASSUME TailConstants ==
  /\ Adapters \subseteq {"cloudwatch", "datadog", "loki"}
  /\ PollInterval \in Nat \ {0} /\ ErrorThreshold \in Nat \ {0}
  /\ FirstSpan \in Nat \ {0} /\ MaxTime \in Nat
  /\ FromTimes \subseteq Instant /\ ToTimes \subseteq Instant
  /\ MaxOutages \in Nat /\ MaxCrashes \in Nat
  /\ IsFiniteSet(Streams) /\ Streams # {}
  /\ Workers \cap Clients = {}
  /\ NoTime \notin Int /\ NoCursor \notin Int
  /\ NoWindow \notin Window \cup Asked \cup Poll \cup LifecycleRequest
  /\ Nobody \notin Workers \cup Clients

VARIABLES
  adapter,  \* the source adapter the job was created for
  asked,    \* the from_time and to_time it was created with, or NoWindow
  now,      \* the clock
  job,      \* the committed ingestion_jobs row
  lock,     \* holder of the row lock
  poll,     \* per worker: the tick's captured clock and window, or NoWindow
  req,      \* per client: the lifecycle request being served
  outages,  \* ticks that met an outage so far
  crashes,  \* ticks that were rolled back so far
  from,     \* history: start of the first window whose tick was committed
  covered,  \* history: per stream, instants read and committed
  issued,   \* history: per stream, the window its open cursor belongs to
  lapses    \* history: how committed ticks fell short of the poll clock they set

vars == <<adapter, asked, now, job, lock, poll, req, outages, crashes, from, covered, issued, lapses>>
-----------------------------------------------------------------------------
(* Helpers of tail.py.                                                     *)

\* The status the action asks for.
requested_status(action) ==
  CASE action = "stop" -> "stopped"
    [] action = "pause" -> "paused"
    [] action = "resume" -> "running"

\* apply_tail_lifecycle raises a conflict exactly when this is FALSE.
lifecycle_allowed(status, action) == action = "stop" \/ status # "stopped"

has_open_cursors(cursors) == \E s \in Streams : cursors[s] # NoCursor

\* The first window: the span asked for with since (or one minute) up to the
\* clock, else from the job's from_time to its to_time or the clock.
resolve_window(t) ==
  IF asked = NoWindow THEN [start |-> t - FirstSpan, end |-> t]
  ELSE [start |-> asked.start, end |-> IF asked.end = NoTime THEN t ELSE asked.end]

\* Mutant: the window starts just after the last poll.
StartsAfterLastPoll(j, t) ==
  IF has_open_cursors(j.cursor) /\ j.held # NoWindow THEN j.held
  ELSE IF j.lastPolled # NoTime THEN [start |-> j.lastPolled + 1, end |-> t]
  ELSE resolve_window(t)

\* The window one tick reads: the held paging window while a cursor is open,
\* else from the last poll, else the first window.
tick_window_for_job(j, t) ==
  IF has_open_cursors(j.cursor) /\ j.held # NoWindow THEN j.held
  ELSE IF j.lastPolled # NoTime THEN [start |-> j.lastPolled, end |-> t]
  ELSE resolve_window(t)

\* Mutant: the status is not checked.
DueWhateverStatus(j, t) ==
  j.lastPolled # NoTime => j.lastPolled <= t - PollInterval

is_tail_job_due(j, t) ==
  /\ j.status = "running"
  /\ j.lastPolled # NoTime => j.lastPolled <= t - PollInterval

\* Mutant: the window just polled is stored, not the one that was read.
HoldsPollClockWindow(j, cursors, w, t) ==
  [status |-> j.status, lastPolled |-> t, errors |-> 0, cursor |-> cursors,
   held |-> IF has_open_cursors(cursors) THEN [start |-> w.start, end |-> t] ELSE NoWindow]

\* The row after a tick that read every stream it could.
apply_tail_window_progress(j, cursors, w, t) ==
  [status |-> j.status, lastPolled |-> t, errors |-> 0, cursor |-> cursors,
   held |-> IF has_open_cursors(cursors) THEN w ELSE NoWindow]

\* The row after a tick that raised: the counter, and the auto-pause.
after_failure(j, t) ==
  [status |-> IF j.errors + 1 >= ErrorThreshold THEN "paused" ELSE j.status,
   lastPolled |-> t, errors |-> j.errors + 1, cursor |-> j.cursor, held |-> j.held]
-----------------------------------------------------------------------------
(* SourceAdapter.read(ref, window) from the cursor: the reached instant,   *)
(* the cursor left on the ref and whether AdapterUnavailableError ended    *)
(* it.                                                                     *)

Position(c, w) == IF c = NoCursor THEN w.start ELSE c

\* Loki's loop runs while start_ns < end_ns; the token adapters always issue
\* at least one page request.
Requests(c, w) == adapter # "loki" \/ Position(c, w) < w.end

\* Lines are at instants before the clock t, so a page of them ends there.
Pages(c, w, t) == {q \in Position(c, w) .. w.end : q <= t}

\* Every adapter reads on until the window is exhausted and clears the cursor.
Exhausts(c, w) ==
  {r \in {[to |-> w.end, cursor |-> NoCursor, failed |-> FALSE]} : Requests(c, w)}

\* A page request failed: the cursor of the last complete page is kept.
FailsPart(c, w, t) ==
  {[to |-> p, cursor |-> IF p = Position(c, w) THEN c ELSE p, failed |-> TRUE] :
     p \in {q \in {Position(c, w)} \cup Pages(c, w, t) : adapter # "loki" \/ q < w.end}}

\* Datadog stops after max_rows and keeps the next-page cursor.
StopsAtMaxRows(c, w, t) ==
  {[to |-> p, cursor |-> p, failed |-> FALSE] :
     p \in {q \in Pages(c, w, t) : adapter = "datadog" /\ q # Position(c, w)}}

\* A full Loki page whose last line is at the window's last instant leaves the
\* loop with the cursor set to the window's end.
LeavesLoopAtEnd(c, w, t) ==
  {r \in {[to |-> w.end, cursor |-> w.end, failed |-> FALSE]} :
     adapter = "loki" /\ Requests(c, w) /\ w.end <= t}

\* A Loki read with nothing left of its window returns at once and keeps its
\* cursor.
ReturnsAtOnce(c, w) ==
  {r \in {[to |-> w.end, cursor |-> c, failed |-> FALSE]} : ~Requests(c, w)}

Reads(c, w, t) ==
  Exhausts(c, w) \cup StopsAtMaxRows(c, w, t) \cup LeavesLoopAtEnd(c, w, t)
    \cup ReturnsAtOnce(c, w)
    \cup (IF outages < MaxOutages THEN FailsPart(c, w, t) ELSE {})
-----------------------------------------------------------------------------
(* The worker's tick.                                                      *)

\* tick_tail_jobs: the due row is locked, the clock and the window are read.
BeginTick(w) ==
  /\ poll[w] = NoWindow
  /\ lock = Nobody
  /\ is_tail_job_due(job, now)
  /\ lock' = w
  /\ poll' = [poll EXCEPT ![w] = [now |-> now,
                                  window |-> tick_window_for_job(job, now)]]
  /\ UNCHANGED <<adapter, asked, now, job, req, outages, crashes, from, covered, issued, lapses>>

\* The transaction of the worker loop ends and the row lock is released.
ReleaseTick(w) ==
  /\ lock = w
  /\ lock' = Nobody
  /\ poll' = [poll EXCEPT ![w] = NoWindow]
  /\ UNCHANGED <<adapter, asked, now, req>>

\* ingest_from_source returned: every stream was read to some instant, failed
\* streams were skipped, and not everything failed before a single line.
TickSucceeds(w) ==
  LET win == poll[w].window
      t == poll[w].now
  IN /\ poll[w] # NoWindow
     /\ \E read \in [Streams -> UNION {Reads(job.cursor[s], win, t) : s \in Streams}] :
          /\ \A s \in Streams : read[s] \in Reads(job.cursor[s], win, t)
          /\ (\E s \in Streams : read[s].failed) =>
                \E s \in Streams : read[s].to > Position(job.cursor[s], win)
          /\ job' = apply_tail_window_progress(
                      job, [s \in Streams |-> read[s].cursor], win, t)
          /\ covered' = [s \in Streams |->
               covered[s] \cup {i \in Position(job.cursor[s], win) .. (read[s].to - 1) : i < t}]
          /\ issued' = [s \in Streams |->
               IF read[s].cursor = NoCursor THEN NoWindow
               ELSE IF read[s].cursor = job.cursor[s] THEN issued[s] ELSE win]
          /\ outages' = IF \E s \in Streams : read[s].failed THEN outages + 1 ELSE outages
          /\ lapses' = lapses
               \cup {k \in {"failed"} : \E s \in Streams : read[s].failed}
               \cup {k \in {"held"} : \E s \in Streams : read[s].cursor # NoCursor}
               \cup {k \in {"to_time"} : job.lastPolled = NoTime /\ win.end < t}
     /\ from' = IF from = NoTime THEN win.start ELSE from
     /\ ReleaseTick(w)
     /\ UNCHANGED crashes

\* ingest_from_source raised (every stream down, or any other error): nothing
\* it read moves the job's cursors, the error handler commits the counter.
TickFails(w) ==
  /\ poll[w] # NoWindow
  /\ outages < MaxOutages
  /\ outages' = outages + 1
  /\ job' = after_failure(job, poll[w].now)
  /\ lapses' = lapses \cup {"failed"}
  /\ from' = IF from = NoTime THEN poll[w].window.start ELSE from
  /\ ReleaseTick(w)
  /\ UNCHANGED <<crashes, covered, issued>>

\* The worker dies or its commit fails: the whole tick is rolled back.
TickAborts(w) ==
  /\ poll[w] # NoWindow
  /\ crashes < MaxCrashes
  /\ crashes' = crashes + 1
  /\ ReleaseTick(w)
  /\ UNCHANGED <<job, outages, from, covered, issued, lapses>>
-----------------------------------------------------------------------------
(* The HTTP lifecycle requests (_apply_tail_action).                       *)

\* The row is loaded without FOR UPDATE; apply_tail_lifecycle decides on the
\* loaded status.
LoadLifecycle(c, action) ==
  /\ req[c] = NoWindow
  /\ lifecycle_allowed(job.status, action)
  /\ req' = [req EXCEPT ![c] = [action |-> action, loaded |-> job.status]]
  /\ UNCHANGED <<adapter, asked, now, job, lock, poll, outages, crashes, from, covered, issued, lapses>>

\* Mutant: the UPDATE does not wait for the tick's row lock.
CommitWithoutLock(c) ==
  /\ req[c] # NoWindow
  /\ job' = [job EXCEPT !.status = requested_status(req[c].action)]
  /\ req' = [req EXCEPT ![c] = NoWindow]
  /\ UNCHANGED <<adapter, asked, now, lock, poll, outages, crashes, from, covered, issued, lapses>>

\* db.flush and commit: the ORM emits the UPDATE of status only when it
\* differs from the loaded value; the UPDATE waits for the row lock.
CommitLifecycle(c) ==
  LET new == requested_status(req[c].action)
  IN /\ req[c] # NoWindow
     /\ lock = Nobody
     /\ job' = [job EXCEPT !.status = IF new = req[c].loaded THEN @ ELSE new]
     /\ req' = [req EXCEPT ![c] = NoWindow]
     /\ UNCHANGED <<adapter, asked, now, lock, poll, outages, crashes, from, covered, issued, lapses>>

Advance ==
  /\ now < MaxTime
  /\ now' = now + 1
  /\ UNCHANGED <<adapter, asked, job, lock, poll, req, outages, crashes, from, covered, issued, lapses>>
-----------------------------------------------------------------------------
\* _create_tail_job: a to_time without a from_time is refused, and since goes
\* before both.
Init ==
  /\ adapter \in Adapters
  /\ asked \in Asked \cup {NoWindow}
  /\ now = 0
  /\ job = [status |-> "running", lastPolled |-> NoTime, errors |-> 0,
            cursor |-> [s \in Streams |-> NoCursor], held |-> NoWindow]
  /\ lock = Nobody
  /\ poll = [w \in Workers |-> NoWindow]
  /\ req = [c \in Clients |-> NoWindow]
  /\ outages = 0 /\ crashes = 0
  /\ from = NoTime
  /\ covered = [s \in Streams |-> {}]
  /\ issued = [s \in Streams |-> NoWindow]
  /\ lapses = {}

Tick(w) == BeginTick(w) \/ TickSucceeds(w) \/ TickFails(w) \/ TickAborts(w)

Lifecycle(c) ==
  \/ \E action \in TAIL_LIFECYCLE_ACTIONS : LoadLifecycle(c, action)
  \/ CommitLifecycle(c)

Next ==
  \/ \E w \in Workers : Tick(w)
  \/ \E c \in Clients : Lifecycle(c)
  \/ Advance

Spec == Init /\ [][Next]_vars
-----------------------------------------------------------------------------
\* The types of the committed tail row, the ticks and the requests in flight.
TypeOK ==
  /\ adapter \in Adapters
  /\ asked \in Asked \cup {NoWindow}
  /\ now \in 0 .. MaxTime
  /\ job \in Job
  /\ lock \in Workers \cup {Nobody}
  /\ poll \in [Workers -> Poll \cup {NoWindow}]
  /\ req \in [Clients -> LifecycleRequest \cup {NoWindow}]
  /\ outages \in 0 .. MaxOutages /\ crashes \in 0 .. MaxCrashes
  /\ from \in Instant \cup {NoTime}
  /\ covered \in [Streams -> SUBSET Instant]
  /\ issued \in [Streams -> Window \cup {NoWindow}]
  /\ lapses \subseteq {"failed", "held", "to_time"}

\* A pagination cursor is only ever sent with the window it was issued for
\* (Datadog and CloudWatch page tokens are valid for one from/to only): while
\* a cursor is open the job holds that very window, whatever ticks fail, abort
\* or leave other streams open in between.
CursorBoundToWindow ==
  /\ \A s \in Streams : job.cursor[s] # NoCursor =>
        job.held # NoWindow /\ issued[s] = job.held
  /\ \A w \in Workers, s \in Streams :
        poll[w] # NoWindow /\ job.cursor[s] # NoCursor => poll[w].window = issued[s]

\* One tick at a time, and only on a job whose committed status is running: an
\* operator's pause or stop never lands in the middle of a tick.
TickedJobIsRunning ==
  /\ \A w \in Workers : poll[w] # NoWindow => lock = w /\ job.status = "running"
  /\ \A v, w \in Workers : poll[v] # NoWindow /\ poll[w] # NoWindow => v = w

\* The worker never undoes an operator: a paused or stopped job changes status
\* only in the commit of a lifecycle request.
OnlyOperatorsRevive ==
  [][job.status # "running" /\ job'.status # job.status
       => \E c \in Clients : req[c] # NoWindow /\ req'[c] = NoWindow]_vars

\* "stop is terminal" (docs/api.md): a stopped job never leaves that status.
StopIsTerminal == [][job.status = "stopped" => job'.status = "stopped"]_vars

\* What a later tick will still read for stream s.
StillToRead(s) ==
  IF has_open_cursors(job.cursor) /\ job.held # NoWindow
    THEN Position(job.cursor[s], job.held) .. (job.held.end - 1)
    ELSE {}

\* The tail loses nothing: every instant from the job's first window up to its
\* last poll has been read from every stream or is still going to be.
NoInstantSkipped ==
  (from # NoTime /\ job.lastPolled # NoTime) =>
     \A s \in Streams : from .. (job.lastPolled - 1) \subseteq
                           covered[s] \cup StillToRead(s)

\* Crashes, rolled-back commits, pauses, second workers, a from_time ahead of the
\* clock or behind it, and the seam between two windows lose nothing.  Instants
\* are skipped in three ways only: a tick failed, a tick left a cursor open, or
\* the first tick ran later than the job's to_time, where its window ended while
\* the poll clock was set to now.
CaughtUpLosesNothing == lapses = {} => NoInstantSkipped
=============================================================================
