-------------------------- MODULE TailIngestProofs --------------------------
(***************************************************************************)
(* The safety of a tail job for any number of streams, workers and         *)
(* lifecycle requests, any adapter, clock bound and number of faults.      *)
(*                                                                         *)
(* The three invariants need one another.  A tick stores the window it     *)
(* read only if that window is still the one its open cursors belong to,   *)
(* which holds because no other tick and no lifecycle commit touched the   *)
(* row since it was locked; and the error counter stays within its type    *)
(* because every failed tick is one of the counted outages.                *)
(*                                                                         *)
(* That a caught-up tail loses nothing rests on the seam between windows:  *)
(* the next window starts where the poll clock stands, and the poll clock  *)
(* stands where the last exhausted window ended.                           *)
(***************************************************************************)
EXTENDS TailIngest, TLAPS

\* Every error of the row's counter was an outage.
ErrorsCounted == job.errors <= outages

\* The inductive invariant.
IInv == TypeOK /\ ErrorsCounted /\ CursorBoundToWindow /\ TickedJobIsRunning

\* While no tick fell short no cursor is open, everything up to the poll clock is
\* covered, and a tick under way that is not the first starts at the poll clock
\* and will move it to its window's end.
Seam ==
  lapses = {} =>
    /\ \A s \in Streams : job.cursor[s] = NoCursor
    /\ from = NoTime => job.lastPolled = NoTime
    /\ job.lastPolled = NoTime => from = NoTime
    /\ \A w \in Workers : poll[w] # NoWindow /\ job.lastPolled # NoTime =>
          poll[w].window = [start |-> job.lastPolled, end |-> poll[w].now]
    /\ from # NoTime => \A s \in Streams : from .. (job.lastPolled - 1) \subseteq covered[s]

USE TailConstants

\* What an adapter's read leaves: an instant, a cursor and a flag, and the flag
\* only while an outage is still possible.
LEMMA ReadsType ==
  ASSUME NEW c \in Instant \cup {NoCursor}, NEW w \in Window, NEW t \in 0 .. MaxTime,
         NEW r \in Reads(c, w, t)
  PROVE  /\ r.to \in Instant
         /\ r.cursor \in Instant \cup {NoCursor}
         /\ r.failed => outages < MaxOutages
<1>1. Position(c, w) \in Instant
  BY DEF Position, Window, Instant
<1>2. CASE r \in Exhausts(c, w)
  BY <1>2 DEF Exhausts, Window
<1>3. CASE r \in StopsAtMaxRows(c, w, t)
  BY <1>1, <1>3 DEF StopsAtMaxRows, Pages, Window, Instant
<1>4. CASE r \in LeavesLoopAtEnd(c, w, t)
  BY <1>4 DEF LeavesLoopAtEnd, Window
<1>5. CASE outages < MaxOutages /\ r \in FailsPart(c, w, t)
  <2>1. PICK p \in {Position(c, w)} \cup Pages(c, w, t) :
          r = [to |-> p, cursor |-> IF p = Position(c, w) THEN c ELSE p, failed |-> TRUE]
    BY <1>5 DEF FailsPart
  <2>2. p \in Instant
    BY <1>1, <2>1 DEF Pages, Window, Instant
  <2> QED
    BY <1>5, <2>1, <2>2
<1>6. CASE r \in ReturnsAtOnce(c, w)
  BY <1>6 DEF ReturnsAtOnce, Window
<1> QED
  BY <1>2, <1>3, <1>4, <1>5, <1>6 DEF Reads

\* A read that did not fail and left no cursor reached the window's end.
LEMMA ExhaustedReachesEnd ==
  ASSUME NEW c \in Instant \cup {NoCursor}, NEW w \in Window, NEW t \in 0 .. MaxTime,
         NEW r \in Reads(c, w, t), r.cursor = NoCursor, ~r.failed
  PROVE  r.to = w.end
<1>1. Position(c, w) \in Instant
  BY DEF Position, Window, Instant
<1>2. r \notin StopsAtMaxRows(c, w, t)
  BY <1>1 DEF StopsAtMaxRows, Pages, Window, Instant
<1>3. r \notin FailsPart(c, w, t)
  BY DEF FailsPart
<1> QED
  BY <1>2, <1>3 DEF Reads, Exhausts, LeavesLoopAtEnd, ReturnsAtOnce

\* What a read covers lies within the modelled time.
LEMMA CoverageType ==
  ASSUME NEW c \in Instant \cup {NoCursor}, NEW w \in Window, NEW t \in 0 .. MaxTime,
         NEW r \in Reads(c, w, t)
  PROVE  {i \in Position(c, w) .. (r.to - 1) : i < t} \subseteq Instant
<1>1. Position(c, w) \in Instant
  BY DEF Position, Window, Instant
<1>2. r.to \in Instant
  BY ReadsType
<1> QED
  BY <1>1, <1>2 DEF Instant

\* The window of a tick is a window.
LEMMA TickWindowType ==
  ASSUME TypeOK
  PROVE  tick_window_for_job(job, now) \in Window
<1>1. resolve_window(now) \in Window
  <2>1. now \in Instant /\ now - FirstSpan \in Instant
    BY DEF TypeOK, Instant
  <2>2. CASE asked = NoWindow
    BY <2>1, <2>2 DEF Window, resolve_window
  <2>3. CASE asked # NoWindow
    <3>1. asked \in Asked
      BY <2>3 DEF TypeOK
    <3>2. asked.start \in Instant /\ asked.end \in Instant \cup {NoTime}
      BY <3>1 DEF Asked
    <3> QED
      BY <2>1, <2>3, <3>2 DEF Window, resolve_window
  <2> QED
    BY <2>2, <2>3
<1> QED
  BY <1>1 DEF TypeOK, Job, Window, Instant, tick_window_for_job

\* A new tail job satisfies the invariant.
LEMMA InitIInv == Init => IInv
<1> SUFFICES ASSUME Init PROVE IInv
  OBVIOUS
<1>1. TypeOK
  BY DEF Init, TypeOK, Job, Statuses
<1> QED
  BY <1>1 DEF Init, IInv, ErrorsCounted, CursorBoundToWindow, TickedJobIsRunning

\* The lock is taken on a running, unlocked row, and the window is the held one
\* whenever a cursor is open.
LEMMA BeginTickStep ==
  ASSUME IInv, NEW w \in Workers, BeginTick(w)
  PROVE  IInv'
<1>1. tick_window_for_job(job, now) \in Window
  BY TickWindowType DEF IInv
<1>2. TypeOK'
  BY <1>1 DEF IInv, TypeOK, BeginTick, Poll
<1>3. \A v \in Workers : poll[v] = NoWindow
  BY DEF IInv, TickedJobIsRunning, BeginTick
<1>4. /\ poll'[w].window = tick_window_for_job(job, now)
      /\ \A v \in Workers : v # w => poll'[v] = NoWindow
  BY <1>3 DEF IInv, TypeOK, BeginTick
<1>5. \A s \in Streams : job.cursor[s] # NoCursor =>
         tick_window_for_job(job, now) = issued[s]
  BY DEF IInv, CursorBoundToWindow, tick_window_for_job, has_open_cursors
<1>6. CursorBoundToWindow'
  BY <1>4, <1>5 DEF IInv, CursorBoundToWindow, BeginTick
<1>7. TickedJobIsRunning'
  BY <1>4 DEF TickedJobIsRunning, BeginTick, is_tail_job_due
<1>8. ErrorsCounted'
  BY DEF IInv, ErrorsCounted, BeginTick
<1> QED
  BY <1>2, <1>6, <1>7, <1>8 DEF IInv

\* The end of a tick's transaction leaves no tick.
LEMMA ReleaseLemma ==
  ASSUME IInv, NEW w \in Workers, ReleaseTick(w)
  PROVE  /\ \A v \in Workers : poll'[v] = NoWindow
         /\ TickedJobIsRunning'
         /\ lock' = Nobody
         /\ poll' \in [Workers -> Poll \cup {NoWindow}]
<1>1. \A v \in Workers : v # w => poll[v] = NoWindow
  BY DEF IInv, TickedJobIsRunning, ReleaseTick
<1>2. \A v \in Workers : poll'[v] = NoWindow
  BY <1>1 DEF IInv, TypeOK, ReleaseTick
<1> QED
  BY <1>2 DEF IInv, TypeOK, ReleaseTick, TickedJobIsRunning

\* A tick that read its streams.
LEMMA SucceedsStep ==
  ASSUME IInv, NEW w \in Workers, TickSucceeds(w)
  PROVE  IInv'
<1> DEFINE win == poll[w].window
           t == poll[w].now
<1>1. PICK read \in [Streams -> UNION {Reads(job.cursor[s], win, t) : s \in Streams}] :
        /\ \A s \in Streams : read[s] \in Reads(job.cursor[s], win, t)
        /\ job' = apply_tail_window_progress(
                    job, [s \in Streams |-> read[s].cursor], win, t)
        /\ covered' = [s \in Streams |->
             covered[s] \cup {i \in Position(job.cursor[s], win) .. (read[s].to - 1) : i < t}]
        /\ issued' = [s \in Streams |->
             IF read[s].cursor = NoCursor THEN NoWindow
             ELSE IF read[s].cursor = job.cursor[s] THEN issued[s] ELSE win]
        /\ outages' = IF \E s \in Streams : read[s].failed THEN outages + 1 ELSE outages
  BY DEF TickSucceeds
<1>2. /\ poll[w] # NoWindow /\ ReleaseTick(w) /\ crashes' = crashes
      /\ from' = IF from = NoTime THEN win.start ELSE from
  BY DEF TickSucceeds
<1>3. win \in Window /\ t \in 0 .. MaxTime /\ win # NoWindow
  BY <1>2 DEF IInv, TypeOK, Poll
<1>4. \A s \in Streams : job.cursor[s] \in Instant \cup {NoCursor}
  BY DEF IInv, TypeOK, Job
<1>5. \A s \in Streams : /\ read[s].cursor \in Instant \cup {NoCursor}
                         /\ read[s].failed => outages < MaxOutages
                         /\ {i \in Position(job.cursor[s], win) .. (read[s].to - 1) : i < t}
                              \subseteq Instant
  BY <1>1, <1>3, <1>4, ReadsType, CoverageType
<1>6. /\ outages' \in 0 .. MaxOutages /\ outages' >= 0
  BY <1>1, <1>5 DEF IInv, TypeOK
<1> DEFINE cursors == [s \in Streams |-> read[s].cursor]
<1>7. cursors \in [Streams -> Instant \cup {NoCursor}]
  BY <1>5
<1> HIDE DEF cursors
<1>8. /\ job' \in Job /\ job'.cursor = cursors /\ job'.errors = 0
      /\ job'.held = IF has_open_cursors(cursors) THEN win ELSE NoWindow
  BY <1>1, <1>3, <1>7 DEF IInv, TypeOK, Job, apply_tail_window_progress, cursors
<1>9. covered' \in [Streams -> SUBSET Instant]
  BY <1>1, <1>5 DEF IInv, TypeOK
<1>10. issued' \in [Streams -> Window \cup {NoWindow}]
  BY <1>1, <1>3 DEF IInv, TypeOK
<1>11. from' \in Instant \cup {NoTime}
  BY <1>2, <1>3 DEF IInv, TypeOK, Window
<1>12. lapses' \subseteq {"failed", "held", "to_time"}
  BY DEF TickSucceeds, IInv, TypeOK
<1>16. TypeOK'
  BY <1>2, <1>6, <1>12, <1>8, <1>9, <1>10, <1>11, ReleaseLemma DEF IInv, TypeOK, ReleaseTick
<1>13. ErrorsCounted'
  BY <1>6, <1>8 DEF ErrorsCounted
<1>14. ASSUME NEW s \in Streams, job'.cursor[s] # NoCursor
       PROVE  job'.held = win /\ issued'[s] = win
  <2>1. cursors[s] # NoCursor /\ cursors[s] = read[s].cursor
    BY <1>8, <1>14 DEF cursors
  <2>2. job'.held = win
    BY <1>8, <2>1 DEF has_open_cursors
  <2>3. read[s].cursor = job.cursor[s] => issued[s] = win
    BY <1>2, <2>1 DEF IInv, CursorBoundToWindow
  <2> QED
    BY <1>1, <2>1, <2>2, <2>3
<1>15. CursorBoundToWindow'
  BY <1>2, <1>3, <1>14, ReleaseLemma DEF CursorBoundToWindow
<1> QED
  BY <1>2, <1>16, <1>13, <1>15, ReleaseLemma DEF IInv

\* A tick that raised keeps cursors and window; the counter moves with the
\* outages.
LEMMA FailsStep ==
  ASSUME IInv, NEW w \in Workers, TickFails(w)
  PROVE  IInv'
<1>1. /\ poll[w] # NoWindow /\ ReleaseTick(w)
      /\ outages' = outages + 1 /\ outages' \in 0 .. MaxOutages
  BY DEF TickFails, IInv, TypeOK
<1>2. poll[w].window \in Window /\ poll[w].now \in 0 .. MaxTime
  BY <1>1 DEF IInv, TypeOK, Poll
<1>3. /\ job' \in Job /\ job'.errors = job.errors + 1
      /\ job'.cursor = job.cursor /\ job'.held = job.held
  BY <1>1, <1>2 DEF IInv, TypeOK, ErrorsCounted, Job, Statuses, TickFails, after_failure
<1>4. TypeOK'
  BY <1>1, <1>2, <1>3, ReleaseLemma DEF IInv, TypeOK, Window, TickFails, ReleaseTick
<1>5. ErrorsCounted'
  BY <1>1, <1>3 DEF IInv, TypeOK, Job, ErrorsCounted
<1>6. CursorBoundToWindow'
  BY <1>1, <1>3, ReleaseLemma DEF IInv, CursorBoundToWindow, TickFails
<1> QED
  BY <1>1, <1>4, <1>5, <1>6, ReleaseLemma DEF IInv

\* A rolled-back tick only gives the lock back.
LEMMA AbortsStep ==
  ASSUME IInv, NEW w \in Workers, TickAborts(w)
  PROVE  IInv'
<1>1. ReleaseTick(w)
  BY DEF TickAborts
<1>2. TypeOK'
  BY <1>1, ReleaseLemma DEF IInv, TypeOK, TickAborts, ReleaseTick
<1>3. ErrorsCounted' /\ CursorBoundToWindow'
  BY <1>1, ReleaseLemma DEF IInv, ErrorsCounted, CursorBoundToWindow, TickAborts
<1> QED
  BY <1>1, <1>2, <1>3, ReleaseLemma DEF IInv

\* A lifecycle commit finds no tick under way: it waited for the row lock.
LEMMA LifecycleStep ==
  ASSUME IInv, NEW c \in Clients, Lifecycle(c)
  PROVE  IInv'
<1>1. ASSUME NEW action \in TAIL_LIFECYCLE_ACTIONS, LoadLifecycle(c, action)
      PROVE  IInv'
  <2>1. TypeOK'
    BY <1>1 DEF IInv, TypeOK, Job, LoadLifecycle, LifecycleRequest
  <2> QED
    BY <1>1, <2>1 DEF IInv, LoadLifecycle, ErrorsCounted, CursorBoundToWindow, TickedJobIsRunning
<1>2. CASE CommitLifecycle(c)
  <2>1. \A w \in Workers : poll[w] = NoWindow
    BY <1>2 DEF IInv, TickedJobIsRunning, CommitLifecycle
  <2>2. req[c] \in LifecycleRequest
    BY <1>2 DEF IInv, TypeOK, CommitLifecycle
  <2>3. requested_status(req[c].action) \in Statuses
    BY <2>2 DEF LifecycleRequest, TAIL_LIFECYCLE_ACTIONS, requested_status, Statuses
  <2>4. /\ job' \in Job /\ job'.errors = job.errors
        /\ job'.cursor = job.cursor /\ job'.held = job.held
    BY <1>2, <2>3 DEF IInv, TypeOK, Job, CommitLifecycle
  <2>5. TypeOK'
    BY <1>2, <2>4 DEF IInv, TypeOK, CommitLifecycle
  <2>6. ErrorsCounted' /\ CursorBoundToWindow' /\ TickedJobIsRunning'
    BY <1>2, <2>1, <2>4
    DEF IInv, CommitLifecycle, ErrorsCounted, CursorBoundToWindow, TickedJobIsRunning
  <2> QED
    BY <2>5, <2>6 DEF IInv
<1> QED
  BY <1>1, <1>2 DEF Lifecycle

\* Every step, and every stutter, preserves the inductive invariant.
LEMMA NextIInv == IInv /\ [Next]_vars => IInv'
<1> SUFFICES ASSUME IInv, [Next]_vars PROVE IInv'
  OBVIOUS
<1>1. CASE UNCHANGED vars
  BY <1>1 DEF vars, IInv, TypeOK, ErrorsCounted, CursorBoundToWindow, TickedJobIsRunning
<1>2. CASE Advance
  BY <1>2 DEF Advance, IInv, TypeOK, ErrorsCounted, CursorBoundToWindow, TickedJobIsRunning
<1>3. ASSUME NEW w \in Workers, Tick(w) PROVE IInv'
  BY <1>3, BeginTickStep, SucceedsStep, FailsStep, AbortsStep DEF Tick
<1>4. ASSUME NEW c \in Clients, Lifecycle(c) PROVE IInv'
  BY <1>4, LifecycleStep
<1> QED
  BY <1>1, <1>2, <1>3, <1>4 DEF Next

\* The seam of a tick that succeeded: it moves the poll clock from the start of
\* its window to the end, and covers what lies between.
LEMMA SeamSucceeds ==
  ASSUME IInv, Seam, NEW w \in Workers, TickSucceeds(w)
  PROVE  Seam'
<1> SUFFICES ASSUME lapses' = {} PROVE Seam'
  BY DEF Seam
<1> DEFINE win == poll[w].window
           t == poll[w].now
<1>1. PICK read \in [Streams -> UNION {Reads(job.cursor[s], win, t) : s \in Streams}] :
        /\ \A s \in Streams : read[s] \in Reads(job.cursor[s], win, t)
        /\ job' = apply_tail_window_progress(
                    job, [s \in Streams |-> read[s].cursor], win, t)
        /\ covered' = [s \in Streams |->
             covered[s] \cup {i \in Position(job.cursor[s], win) .. (read[s].to - 1) : i < t}]
        /\ lapses' = lapses
             \cup {k \in {"failed"} : \E s \in Streams : read[s].failed}
             \cup {k \in {"held"} : \E s \in Streams : read[s].cursor # NoCursor}
             \cup {k \in {"to_time"} : job.lastPolled = NoTime /\ win.end < t}
  BY DEF TickSucceeds
<1>2. /\ poll[w] # NoWindow /\ ReleaseTick(w)
      /\ from' = IF from = NoTime THEN win.start ELSE from
  BY DEF TickSucceeds
<1>3. /\ lapses = {}
      /\ \A s \in Streams : ~read[s].failed /\ read[s].cursor = NoCursor
      /\ ~(job.lastPolled = NoTime /\ win.end < t)
  BY <1>1
<1>4. win \in Window /\ t \in 0 .. MaxTime
  BY <1>2 DEF IInv, TypeOK, Poll
<1>5. ASSUME NEW s \in Streams
      PROVE  job.cursor[s] = NoCursor /\ read[s].to = win.end
  <2>1. job.cursor[s] = NoCursor
    BY <1>3 DEF Seam
  <2>2. job.cursor[s] \in Instant \cup {NoCursor}
    BY <2>1
  <2>3. read[s] \in Reads(job.cursor[s], win, t) /\ read[s].cursor = NoCursor /\ ~read[s].failed
    BY <1>1, <1>3
  <2> HIDE DEF win
  <2>4. read[s].to = win.end
    BY <1>4, <2>2, <2>3, ExhaustedReachesEnd
  <2> QED
    BY <2>1, <2>4
<1>6. /\ win.end >= t
      /\ job.lastPolled # NoTime => win.start = job.lastPolled
  <2>1. CASE job.lastPolled = NoTime
    BY <1>3, <1>4, <2>1 DEF Window, Instant
  <2>2. CASE job.lastPolled # NoTime
    <3>1. win = [start |-> job.lastPolled, end |-> t]
      BY <1>2, <1>3, <2>2 DEF Seam
    <3> QED
      BY <1>4, <3>1
  <2> QED
    BY <2>1, <2>2
<1>7. /\ job'.lastPolled = t
      /\ \A s \in Streams : job'.cursor[s] = NoCursor
  <2>1. job'.lastPolled = t /\ job'.cursor = [s \in Streams |-> read[s].cursor]
    BY <1>1 DEF apply_tail_window_progress
  <2> QED
    BY <1>3, <2>1
<1>8. \A s \in Streams : covered[s] \cup (win.start .. (t - 1)) \subseteq covered'[s]
  <2> SUFFICES ASSUME NEW s \in Streams
               PROVE  covered[s] \cup (win.start .. (t - 1)) \subseteq covered'[s]
    OBVIOUS
  <2>1. covered'[s] = covered[s] \cup {i \in win.start .. (win.end - 1) : i < t}
    BY <1>1, <1>5 DEF Position
  <2> QED
    BY <1>4, <1>6, <2>1 DEF Window, Instant
<1>9. from' # NoTime /\ job'.lastPolled # NoTime
  BY <1>2, <1>4, <1>7 DEF Window, Instant
<1>10. ASSUME NEW s \in Streams PROVE from' .. (t - 1) \subseteq covered'[s]
  <2>1. CASE from = NoTime
    BY <1>2, <1>8, <2>1
  <2>2. CASE from # NoTime
    <3>1. /\ job.lastPolled \in 0 .. MaxTime /\ win.start = job.lastPolled
          /\ from \in Instant /\ from' = from
      BY <1>2, <1>3, <1>6, <2>2 DEF IInv, TypeOK, Job, Seam
    <3>2. from .. (job.lastPolled - 1) \subseteq covered[s]
      BY <1>3, <2>2 DEF Seam
    <3>3. from .. (t - 1) \subseteq (from .. (job.lastPolled - 1)) \cup (job.lastPolled .. (t - 1))
      BY <1>4, <3>1 DEF Instant
    <3> QED
      BY <1>8, <3>1, <3>2, <3>3
  <2> QED
    BY <2>1, <2>2
<1>11. \A v \in Workers : poll'[v] = NoWindow
  BY <1>2, ReleaseLemma
<1> QED
  BY <1>7, <1>9, <1>10, <1>11 DEF Seam

\* Every step preserves the seam.
LEMMA NextSeam == IInv /\ Seam /\ [Next]_vars => Seam'
<1> SUFFICES ASSUME IInv, Seam, [Next]_vars PROVE Seam'
  OBVIOUS
<1>1. CASE UNCHANGED vars
  BY <1>1 DEF vars, Seam
<1>2. CASE Advance
  BY <1>2 DEF Advance, Seam
<1>3. ASSUME NEW w \in Workers, BeginTick(w) PROVE Seam'
  <2>1. \A v \in Workers : v # w => poll'[v] = NoWindow
    BY <1>3 DEF IInv, TypeOK, TickedJobIsRunning, BeginTick
  <2>2. /\ poll'[w].now = now
        /\ poll'[w].window = tick_window_for_job(job, now)
    BY <1>3 DEF IInv, TypeOK, BeginTick
  <2>3. lapses = {} /\ job.lastPolled # NoTime =>
          tick_window_for_job(job, now) = [start |-> job.lastPolled, end |-> now]
    BY DEF Seam, tick_window_for_job, has_open_cursors
  <2> QED
    BY <1>3, <2>1, <2>2, <2>3 DEF Seam, BeginTick
<1>4. ASSUME NEW w \in Workers, TickSucceeds(w) PROVE Seam'
  BY <1>4, SeamSucceeds
<1>5. ASSUME NEW w \in Workers, TickFails(w) PROVE Seam'
  BY <1>5 DEF TickFails, Seam
<1>6. ASSUME NEW w \in Workers, TickAborts(w) PROVE Seam'
  <2>1. \A v \in Workers : poll'[v] = NoWindow
    BY <1>6, ReleaseLemma DEF TickAborts
  <2> QED
    BY <1>6, <2>1 DEF TickAborts, Seam
<1>7. ASSUME NEW c \in Clients, NEW action \in TAIL_LIFECYCLE_ACTIONS,
             LoadLifecycle(c, action)
      PROVE  Seam'
  BY <1>7 DEF LoadLifecycle, Seam
<1>8. ASSUME NEW c \in Clients, CommitLifecycle(c) PROVE Seam'
  <2>1. job'.cursor = job.cursor /\ job'.lastPolled = job.lastPolled
    BY <1>8 DEF IInv, TypeOK, Job, CommitLifecycle
  <2> QED
    BY <1>8, <2>1 DEF CommitLifecycle, Seam
<1> QED
  BY <1>1, <1>2, <1>3, <1>4, <1>5, <1>6, <1>7, <1>8 DEF Next, Tick, Lifecycle

\* The inductive invariant holds in every reachable state.
THEOREM Invariance == Spec => []IInv
  BY InitIInv, NextIInv, PTL DEF Spec

\* Type correctness of the tail job, its ticks and its lifecycle requests.
THEOREM TypeCorrect == Spec => []TypeOK
<1>1. IInv => TypeOK
  BY DEF IInv
<1> QED
  BY <1>1, Invariance, PTL

\* _held_paging_window always returns the window the open page tokens were
\* issued for.
THEOREM CursorsStayBound == Spec => []CursorBoundToWindow
<1>1. IInv => CursorBoundToWindow
  BY DEF IInv
<1> QED
  BY <1>1, Invariance, PTL

\* FOR UPDATE SKIP LOCKED admits one tick at a time, of a running job.
THEOREM OneTickOfARunningJob == Spec => []TickedJobIsRunning
<1>1. IInv => TickedJobIsRunning
  BY DEF IInv
<1> QED
  BY <1>1, Invariance, PTL

\* A tail whose ticks all exhausted their windows, the first of them one that
\* reached the clock, has skipped no instant.
THEOREM CaughtUpTailIsComplete == Spec => []CaughtUpLosesNothing
<1>1. Init => Seam
  BY DEF Init, Seam
<1>2. Seam => CaughtUpLosesNothing
  BY DEF Seam, CaughtUpLosesNothing, NoInstantSkipped
<1> QED
  BY <1>1, <1>2, Invariance, NextSeam, PTL DEF Spec

\* A worker never changes the status of a paused or stopped job.
THEOREM WorkersNeverRevive == Spec => OnlyOperatorsRevive
<1> DEFINE Revive == job.status # "running" /\ job'.status # job.status
                       => \E c \in Clients : req[c] # NoWindow /\ req'[c] = NoWindow
<1>1. IInv /\ [Next]_vars => [Revive]_vars
  <2> SUFFICES ASSUME IInv, Next, job.status # "running", job'.status # job.status
               PROVE  \E c \in Clients : req[c] # NoWindow /\ req'[c] = NoWindow
    OBVIOUS
  <2>1. \A w \in Workers : poll[w] = NoWindow
    BY DEF IInv, TickedJobIsRunning
  <2>2. ASSUME NEW w \in Workers, Tick(w) PROVE FALSE
    BY <2>1, <2>2 DEF Tick, BeginTick, TickSucceeds, TickFails, TickAborts
  <2>3. ASSUME NEW c \in Clients, Lifecycle(c) PROVE req[c] # NoWindow /\ req'[c] = NoWindow
    BY <2>3 DEF Lifecycle, LoadLifecycle, CommitLifecycle, IInv, TypeOK
  <2>4. CASE Advance
    BY <2>4 DEF Advance
  <2> QED
    BY <2>2, <2>3, <2>4 DEF Next
<1> QED
  BY <1>1, Invariance, PTL DEF Spec, OnlyOperatorsRevive
=============================================================================
