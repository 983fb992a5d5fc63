--------------------------- MODULE IngestPipeline ---------------------------
(***************************************************************************)
(* The ingest pipeline (src/core/ingestion/service.py): runs that read     *)
(* streams page by page, parse every line, collect entries in batches and  *)
(* flush them with INSERT ... ON CONFLICT DO NOTHING, all inside one       *)
(* transaction that the caller commits (the worker, which also commits a   *)
(* failed run) or rolls back (CLI, API request).  A later run may resume an  *)
(* earlier one from its saved cursors and completed streams.               *)
(*                                                                         *)
(* A line is identified by its stream and its position; what parsing makes *)
(* of it is its class.  Two lines of a stream with the same text and time  *)
(* share a key.  Rows that are not committed are seen by nobody, but an    *)
(* INSERT that meets one with its own key waits for that transaction.      *)
(***************************************************************************)
EXTENDS Naturals, FiniteSets, Sequences

CONSTANTS
  Runs,        \* ingest runs: worker jobs, CLI commands, push requests
  Streams,     \* files, log groups, LogQL queries, or the body of a push
  Keys,        \* (line hash, timestamp) pairs
  Sourced,     \* runs of ingest_from_source; the others are ingest_files, or
  Pushed,      \* push requests; the lines of a pushed stream are the non-blank
               \* lines of the body
  PushMaxLines,
  ByWorker,    \* runs of the worker; the others run inside the CLI's or a
               \* request's get_db
  StreamsOf,   \* StreamsOf[r]: what discover returns, in order
  Content,     \* Content[s]: the lines of stream s
  ScopeOf,     \* ScopeOf[r]: isolation scope of the run
  Prior,       \* Prior[r]: the run that r resumes, or NoRun
  Outages,     \* streams whose backend may answer AdapterUnavailableError
  Capped,      \* streams of an adapter whose read may end with its cursor kept
  Unreadable,  \* streams whose read may raise anything else (IOError, EOFError)
  BatchSize, PageSize,
  NoRun

Classes == {"blank", "bad", "untimed", "timed"}

ASSUME IngestConstants ==
  /\ IsFiniteSet(Runs) /\ NoRun \notin Runs
  /\ Sourced \subseteq Runs /\ Pushed \subseteq Runs \ (Sourced \cup ByWorker)
  /\ PushMaxLines \in Nat /\ \A r \in Pushed : Len(StreamsOf[r]) = 1
  /\ ByWorker \subseteq Runs
  /\ StreamsOf \in [Runs -> Seq(Streams)]
  /\ Content \in [Streams -> Seq([class : Classes, key : Keys])]
  \* discover_files drops repeated paths, Loki and Datadog have one stream; a
  \* caller that names a CloudWatch log group twice is left out.
  /\ \A r \in Runs : \A i, j \in DOMAIN StreamsOf[r] : StreamsOf[r][i] = StreamsOf[r][j] => i = j
  /\ Prior \in [Runs -> Runs \cup {NoRun}]
  /\ \A r \in Runs : Prior[r] # NoRun => r \in Sourced /\ Prior[r] \in Sourced
  /\ Outages \subseteq Streams /\ Capped \subseteq Streams /\ Unreadable \subseteq Streams
  /\ BatchSize \in Nat \ {0} /\ PageSize \in Nat \ {0}

VARIABLES
  run,      \* per run: its local state and its open transaction
  rows,     \* committed log_entries: the run and the line of each
  job,      \* committed ingestion_jobs row of each run
  sources   \* committed sources rows, named by the run that inserted them

vars == <<run, rows, job, sources>>

Lines == UNION {{<<s, i>> : i \in 1 .. Len(Content[s])} : s \in Streams}
LineOf(l) == Content[l[1]][l[2]]

\* The columns of ux_log_entries_dedup; its WHERE leaves out rows without a
\* timestamp.
Entry(scope, l) == <<scope, l[1], LineOf(l).key>>
Timed(l) == LineOf(l).class = "timed"
SameEntry(s1, l1, s2, l2) == Timed(l1) /\ Timed(l2) /\ Entry(s1, l1) = Entry(s2, l2)

Fresh == [pc |-> "idle", todo |-> <<>>, pos |-> 1, batch |-> <<>>, new |-> {},
          read |-> 0, parsed |-> 0, errors |-> 0, deduped |-> 0,
          cursors |-> [s \in Streams |-> 0], done |-> {},
          outage |-> FALSE, source |-> NoRun]
NoJob == [status |-> "none", read |-> 0, parsed |-> 0, errors |-> 0, deduped |-> 0,
          cursors |-> [s \in Streams |-> 0], done |-> {}, partial |-> FALSE]

Set(r, new) == run' = [run EXCEPT ![r] = new]
Open == {r \in Runs : run[r].pc \notin {"idle", "ended"}}
-----------------------------------------------------------------------------
(* Starting a run.                                                         *)

\* run_ingest_job loads the job to resume and refuses one of another scope.
ResumeRefused(r) == Prior[r] # NoRun /\ ScopeOf[Prior[r]] # ScopeOf[r]

\* resume_completed_streams: never read again.
completed_at_start(r) == IF Prior[r] = NoRun THEN {} ELSE job[Prior[r]].done

\* resume_cursors: 0 is the cursor None, n the page that starts with line n.
resume_cursor(r, s) == IF Prior[r] = NoRun THEN 0 ELSE job[Prior[r]].cursors[s]
first_line(r, s) == IF resume_cursor(r, s) = 0 THEN 1 ELSE resume_cursor(r, s)

\* The for loop reaches its next stream: it is skipped, or read from the cursor.
Opening(r, rec) ==
  IF rec.todo = <<>> THEN [rec EXCEPT !.pc = "close"]
  ELSE IF Head(rec.todo) \in completed_at_start(r) THEN [rec EXCEPT !.pc = "skip"]
  ELSE [rec EXCEPT !.pc = "read", !.pos = first_line(r, Head(rec.todo))]

\* _get_or_create_source sees committed rows only: NoRun stands for its own
\* insert, of which two open runs may make two.
get_or_create_source == IF sources = {} THEN NoRun ELSE CHOOSE s \in sources : TRUE

Started(r, rec) ==
  /\ run[r].pc = "idle" /\ StreamsOf[r] # <<>>
  /\ Set(r, Opening(r, [rec EXCEPT !.source = get_or_create_source]))
  /\ UNCHANGED <<rows, job, sources>>

\* Source and job row are added; discover found streams (it raises otherwise).
BeginSource(r) ==
  /\ r \in Sourced /\ ~ResumeRefused(r)
  /\ Prior[r] # NoRun => job[Prior[r]].status \in {"completed", "failed"}
  /\ Started(r, [Fresh EXCEPT !.todo = StreamsOf[r], !.done = completed_at_start(r)])

BeginFiles(r) ==
  r \notin Sourced \cup Pushed /\ Started(r, [Fresh EXCEPT !.todo = StreamsOf[r]])

\* A body without a line, or with too many, is refused as a whole.
body_accepted(r) == Len(Content[StreamsOf[r][1]]) \in 1 .. PushMaxLines

BeginPush(r) ==
  r \in Pushed /\ body_accepted(r) /\ Started(r, [Fresh EXCEPT !.todo = StreamsOf[r]])

\* HTTP 400, or 429 while the worker queue is full: nothing is written.
RefusePush(r) ==
  /\ run[r].pc = "idle" /\ r \in Pushed
  /\ Set(r, [Fresh EXCEPT !.pc = "ended"])
  /\ UNCHANGED <<rows, job, sources>>

\* A ValueError before anything is written: the worker commits only its own row.
RefuseBegin(r) ==
  /\ run[r].pc = "idle"
  /\ \/ StreamsOf[r] = <<>>
     \/ ResumeRefused(r) /\ job[Prior[r]].status \in {"completed", "failed"}
  /\ Set(r, [Fresh EXCEPT !.pc = "ended"])
  /\ UNCHANGED <<rows, job, sources>>
-----------------------------------------------------------------------------
(* Reading.                                                                *)

Current(r) == Head(run[r].todo)
AtEnd(r) == run[r].pos > Len(Content[Current(r)])

\* A page is requested when the generator reaches its first line; ref.cursor
\* names that page (None for the first one).
AtPageStart(r) == run[r].pc = "read" /\ ~AtEnd(r) /\ (run[r].pos - 1) % PageSize = 0
PageCursor(r) == IF run[r].pos = 1 THEN 0 ELSE run[r].pos

\* Mutant: the batch is flushed when it exceeds BATCH_SIZE.
ProcessLineLate(r) ==
  /\ run[r].pc = "read" /\ ~AtEnd(r)
  /\ Set(r, [run[r] EXCEPT !.pos = @ + 1, !.read = @ + 1, !.parsed = @ + 1,
                           !.batch = Append(@, <<Current(r), run[r].pos>>),
                           !.pc = IF Len(run[r].batch) >= BatchSize THEN "flush" ELSE @])
  /\ UNCHANGED <<rows, job, sources>>

\* Mutant: a page that repeats its token is requested again and again.
ProcessLineAgain(r) ==
  /\ run[r].pc = "read" /\ ~AtEnd(r)
  /\ UNCHANGED vars

\* The page arrives, if the line is its first, and _process_line runs: a blank
\* line and one the parser drops only count as read, a parse error is counted,
\* anything else joins the batch, which is flushed when it is full.
ProcessLine(r) ==
  LET l == <<Current(r), run[r].pos>>
      c == LineOf(l).class
  IN /\ run[r].pc = "read" /\ ~AtEnd(r)
     /\ Set(r, IF c \in {"blank", "bad"}
               THEN [run[r] EXCEPT !.pos = @ + 1, !.read = @ + 1,
                                   !.errors = IF c = "bad" THEN @ + 1 ELSE @]
               ELSE [run[r] EXCEPT !.pos = @ + 1, !.read = @ + 1, !.parsed = @ + 1,
                                   !.batch = Append(@, l),
                                   !.pc = IF Len(run[r].batch) + 1 >= BatchSize
                                          THEN "flush" ELSE @])
     /\ UNCHANGED <<rows, job, sources>>

\* Mutant: the try's else branch runs after an outage too.
StreamFailsCompletes(r) ==
  /\ AtPageStart(r) /\ Current(r) \in Outages /\ r \in Sourced
  /\ Set(r, Opening(r, [run[r] EXCEPT !.todo = Tail(@), !.outage = TRUE,
                                   !.done = @ \cup {Current(r)}]))
  /\ UNCHANGED <<rows, job, sources>>

\* AdapterUnavailableError: the stream is left with its cursor, the run goes on.
StreamFails(r) ==
  /\ AtPageStart(r) /\ Current(r) \in Outages /\ r \in Sourced
  /\ Set(r, Opening(r, [run[r] EXCEPT !.todo = Tail(@), !.outage = TRUE,
                                   !.cursors[Current(r)] = PageCursor(r)]))
  /\ UNCHANGED <<rows, job, sources>>

\* "already fully ingested in a prior run": the loop goes on to the next stream.
SkipCompleted(r) ==
  /\ run[r].pc = "skip"
  /\ Set(r, Opening(r, [run[r] EXCEPT !.todo = Tail(@)]))
  /\ UNCHANGED <<rows, job, sources>>

\* The window is exhausted: cursor None, and the stream is complete.
StreamEnds(r) ==
  /\ run[r].pc = "read" /\ AtEnd(r)
  /\ Set(r, Opening(r, [run[r] EXCEPT
       !.todo = Tail(@), !.cursors[Current(r)] = 0,
       !.done = IF r \in Sourced THEN @ \cup {Current(r)} ELSE @]))
  /\ UNCHANGED <<rows, job, sources>>

\* Mutant: the read that stops at its row limit clears the cursor.
StopsShortForgets(r) ==
  /\ run[r].pc = "read" /\ r \in Sourced /\ Current(r) \in Capped
  /\ run[r].pos > first_line(r, Current(r))
  /\ AtEnd(r) \/ AtPageStart(r)
  /\ Set(r, Opening(r, [run[r] EXCEPT !.todo = Tail(@), !.cursors[Current(r)] = 0]))
  /\ UNCHANGED <<rows, job, sources>>

\* Datadog's read stops at max_rows, a multiple of the page size, and a Loki read
\* stops after a full page that ends its window: no error, the next page's cursor
\* is kept, and the stream is not complete.
StopsShort(r) ==
  /\ run[r].pc = "read" /\ r \in Sourced /\ Current(r) \in Capped
  /\ run[r].pos > first_line(r, Current(r))
  /\ AtEnd(r) \/ AtPageStart(r)
  /\ Set(r, Opening(r, [run[r] EXCEPT !.todo = Tail(@),
                                   !.cursors[Current(r)] = run[r].pos]))
  /\ UNCHANGED <<rows, job, sources>>
-----------------------------------------------------------------------------
(* Flushing.                                                               *)

\* Mutant: the conflict target misses the rows this transaction inserted.
ConflictCommitted(r, l) ==
  \E row \in rows : SameEntry(ScopeOf[row.run], row.line, ScopeOf[r], l)

\* ON CONFLICT: a committed row, or one of the transaction's own.
conflict(r, l) ==
  \/ \E row \in rows : SameEntry(ScopeOf[row.run], row.line, ScopeOf[r], l)
  \/ \E k \in run[r].new : SameEntry(ScopeOf[r], k, ScopeOf[r], l)

\* Transactions whose uncommitted row has the key that r is inserting.
WaitsFor(r) ==
  {q \in Open \ {r} : run[r].pc = "flush" /\
     \E k \in run[q].new : SameEntry(ScopeOf[q], k, ScopeOf[r], Head(run[r].batch))}

\* One row of the multi-row INSERT of _flush_log_batch; RETURNING tells the
\* inserted rows from the skipped ones.
FlushRow(r) ==
  LET l == Head(run[r].batch)
      last == Len(run[r].batch) = 1
  IN /\ run[r].pc = "flush" /\ WaitsFor(r) = {}
     /\ Set(r, [run[r] EXCEPT
          !.deduped = IF conflict(r, l) THEN @ + 1 ELSE @,
          !.new = IF conflict(r, l) THEN @ ELSE @ \cup {l},
          !.batch = Tail(@),
          !.pc = IF ~last THEN @ ELSE IF run[r].todo = <<>> THEN "close" ELSE "read"])
     /\ UNCHANGED <<rows, job, sources>>
-----------------------------------------------------------------------------
(* Ending a run.                                                           *)

Unread(r) == run[r].outage /\ run[r].read = 0

\* The last, partial batch.
FlushRest(r) ==
  /\ run[r].pc = "close" /\ ~Unread(r) /\ run[r].batch # <<>>
  /\ Set(r, [run[r] EXCEPT !.pc = "flush"])
  /\ UNCHANGED <<rows, job, sources>>

Committed(r) == rows' = rows \cup {[run |-> r, line |-> l] : l \in run[r].new}
SourceCommitted(r) == sources' = IF run[r].source = NoRun THEN sources \cup {r} ELSE sources

JobRow(r, status, cursors) ==
  [status |-> status, read |-> run[r].read, parsed |-> run[r].parsed,
   errors |-> run[r].errors, deduped |-> run[r].deduped, cursors |-> cursors,
   done |-> run[r].done, partial |-> run[r].outage]

Ended(r, status, cursors) ==
  /\ Committed(r) /\ SourceCommitted(r)
  /\ job' = [job EXCEPT ![r] = JobRow(r, status, cursors)]
  /\ Set(r, [Fresh EXCEPT !.pc = "ended"])

\* Counts, cursors and completed streams are written and the caller commits.
Complete(r) ==
  /\ r \in Sourced /\ run[r].pc = "close" /\ ~Unread(r) /\ run[r].batch = <<>>
  /\ Ended(r, "completed", run[r].cursors)

\* Files and pushes report counts only: cursors and streams stay empty.
CompleteFiles(r) ==
  /\ r \notin Sourced \cup Pushed /\ run[r].pc = "close" /\ run[r].batch = <<>>
  /\ Ended(r, "completed", run[r].cursors)

CompletePush(r) ==
  /\ r \in Pushed /\ run[r].pc = "close" /\ run[r].batch = <<>>
  /\ Ended(r, "completed", run[r].cursors)

\* The except branch.  process_one commits: what was flushed stays, what waits
\* in the batch is gone.  Everywhere else get_db rolls everything back.
Fail(r, cursors) ==
  IF r \in ByWorker THEN Ended(r, "failed", cursors)
  ELSE Set(r, [Fresh EXCEPT !.pc = "ended"]) /\ UNCHANGED <<rows, job, sources>>

\* Every stream failed before a line was read: no partial silent ingest.
FailUnread(r) == run[r].pc = "close" /\ Unread(r) /\ Fail(r, run[r].cursors)

\* A read raises something else than AdapterUnavailableError: a file that is
\* gone, a truncated gzip.  The finally clause keeps the stream's cursor.
ReadRaises(r) ==
  /\ AtPageStart(r) /\ Current(r) \in Unreadable
  /\ Fail(r, IF r \in Sourced THEN [run[r].cursors EXCEPT ![Current(r)] = PageCursor(r)]
             ELSE run[r].cursors)

\* PostgreSQL cancels a transaction of a wait cycle; the database error rolls
\* the run back with its claim, and the worker starts it again.
InWaitCycle(r) ==
  \E C \in SUBSET {q \in Open : WaitsFor(q) # {}} :
     r \in C /\ \A q \in C : WaitsFor(q) \cap C # {} /\ \E p \in C : q \in WaitsFor(p)
DeadlockVictim(r) ==
  /\ InWaitCycle(r)
  /\ Set(r, Fresh)
  /\ UNCHANGED <<rows, job, sources>>

\* The process dies: the transaction is rolled back, the claim with it.
Abort(r) ==
  /\ r \in Open
  /\ Set(r, Fresh)
  /\ UNCHANGED <<rows, job, sources>>

AllEnded == \A r \in Runs : run[r].pc = "ended"
Terminated == AllEnded /\ UNCHANGED vars
-----------------------------------------------------------------------------
Init ==
  /\ run = [r \in Runs |-> Fresh]
  /\ rows = {}
  /\ job = [r \in Runs |-> NoJob]
  /\ sources = {}

Step(r) ==
  \/ BeginSource(r) \/ BeginFiles(r) \/ BeginPush(r) \/ RefuseBegin(r) \/ RefusePush(r)
  \/ ProcessLine(r) \/ SkipCompleted(r) \/ StreamEnds(r) \/ StopsShort(r)
  \/ FlushRow(r) \/ FlushRest(r)
  \/ Complete(r) \/ CompleteFiles(r) \/ CompletePush(r) \/ FailUnread(r)

Fault(r) == StreamFails(r) \/ ReadRaises(r) \/ DeadlockVictim(r) \/ Abort(r)

Next == (\E r \in Runs : Step(r) \/ Fault(r)) \/ Terminated

\* A run is a loop without waits but for row locks, and PostgreSQL resolves
\* every wait cycle after deadlock_timeout.
Fairness == \A r \in Runs : WF_vars(Step(r)) /\ WF_vars(DeadlockVictim(r))

Spec == Init /\ [][Next]_vars /\ Fairness
-----------------------------------------------------------------------------
(* Properties.                                                             *)

RunState ==
  [pc : {"idle", "skip", "read", "flush", "close", "ended"},
   todo : Seq(Streams), pos : Nat, batch : Seq(Lines), new : SUBSET Lines,
   read : Nat, parsed : Nat, errors : Nat, deduped : Nat,
   cursors : [Streams -> Nat], done : SUBSET Streams,
   outage : BOOLEAN, source : Runs \cup {NoRun}]
JobState ==
  [status : {"none", "completed", "failed"}, read : Nat, parsed : Nat, errors : Nat,
   deduped : Nat, cursors : [Streams -> Nat], done : SUBSET Streams, partial : BOOLEAN]

\* Types; a full batch is being flushed, so no batch exceeds BATCH_SIZE.
TypeOK ==
  /\ run \in [Runs -> RunState]
  /\ \A r \in Runs : Len(run[r].batch) <= BatchSize
  /\ \A r \in Runs : run[r].pc \in {"skip", "read"} => run[r].todo # <<>>
  /\ rows \subseteq [run : Runs, line : Lines]
  /\ job \in [Runs -> JobState]
  /\ sources \subseteq Runs

\* Entries of this scope that have a committed row; a line without timestamp is
\* stored if this very line has one.
Stored(scope, l) ==
  \E row \in rows : ScopeOf[row.run] = scope /\
     (row.line = l \/ SameEntry(scope, row.line, scope, l))
Readable(s) == {l \in Lines : l[1] = s /\ LineOf(l).class \in {"untimed", "timed"}}

RowsOf(r) == {row \in rows : row.run = r}

\* The run ended with parsed lines in a batch that was never flushed.
Dropped(r) == job[r].parsed # Cardinality(RowsOf(r)) + job[r].deduped

\* A stream that a job lists in completed_streams has all its parsed lines in
\* log_entries: a run that resumes the job skips it ("already fully ingested in
\* a prior run", service.py:512).
CompletedStreamsStored ==
  \A r \in Runs : \A s \in job[r].done : \A l \in Readable(s) : Stored(ScopeOf[r], l)

\* The same, as long as no run failed with lines in its batch: across outages,
\* crashes, resumed runs and concurrent runs over the same streams.
CompletedUnlessDropped == (\A r \in Runs : ~Dropped(r)) => CompletedStreamsStored

\* A completed job that is not marked partial has every line of its streams,
\* whether it read the line itself, met it as a duplicate or skipped its stream
\* on the word of the run it resumes, but for the streams it keeps a cursor of:
\* "hitting the cap saves the next cursor for resume" (docs/adapters.md:39), and
\* sets neither partial nor a completed stream.
PartialIsTold ==
  (\A r \in Runs : ~Dropped(r)) =>
    \A r \in Runs : job[r].status = "completed" /\ ~job[r].partial =>
       \A i \in DOMAIN StreamsOf[r] : LET s == StreamsOf[r][i] IN
          job[r].cursors[s] = 0 => \A l \in Readable(s) : Stored(ScopeOf[r], l)

\* What a completed job reports: every parsed line is a new row or a counted
\* duplicate, and each line is counted in one way.
CountsAddUp ==
  \A r \in Runs : job[r].status = "completed" =>
     ~Dropped(r) /\ job[r].parsed + job[r].errors <= job[r].read

\* The store as its readers see it: the committed rows of each entry.
OfferedBy(r) ==
  {Entry(ScopeOf[r], l) : l \in {k \in Lines : Timed(k) /\
                                 \E i \in DOMAIN StreamsOf[r] : StreamsOf[r][i] = k[1]}}
AllEntries == UNION {OfferedBy(r) : r \in Runs}
Store == INSTANCE LineStore WITH
  Entries <- AllEntries,
  Offers <- [r \in Runs |-> OfferedBy(r)],
  count <- [e \in AllEntries |-> Cardinality({row \in rows : Timed(row.line) /\
                                             Entry(ScopeOf[row.run], row.line) = e})],
  ended <- {r \in Runs : job[r].status # "none"}

\* The pipeline implements the store its readers count on (LineStore): a
\* timestamped line has one row per scope, and rows become visible run by run.
ImplementsLineStore == Store!Spec

\* Runs that insert the same lines in different orders wait for each other and
\* are rolled back; once that and crashes stop, every run ends.
RunsEndOnceQuiet ==
  <>[][\A r \in Runs : ~DeadlockVictim(r) /\ ~Abort(r)]_vars => <>AllEnded

\* What a completed job says of itself is true: a stream with a line missing has a
\* cursor or marks the job partial, and its counts of new rows, duplicates and unparsable
\* lines account for every line it read.
JobReportIsTrue == PartialIsTold /\ CountsAddUp
=============================================================================
