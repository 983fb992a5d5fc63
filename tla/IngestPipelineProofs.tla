------------------------ MODULE IngestPipelineProofs ------------------------
(***************************************************************************)
(* The ingest pipeline for any runs, streams, contents, batch and page     *)
(* sizes: its types, what a job's report and its completed streams are     *)
(* worth, and that it implements LineStore.                                *)
(*                                                                         *)
(* The properties speak of committed rows.  What makes them inductive is   *)
(* what an open transaction owes them: each line a run has read is still   *)
(* in its batch, in its uncommitted rows, or has a committed row (Covers); *)
(* the lines it has in hand are distinct and behind its reading position   *)
(* (InHand), so that none is counted twice; and no two transactions hold   *)
(* rows of one entry (OneRowEach), which is what the wait for the other    *)
(* transaction's row achieves.                                             *)
(***************************************************************************)
EXTENDS IngestPipeline, FiniteSetTheorems, SequenceTheorems, TLAPS

Distinct(t) == \A i, j \in DOMAIN t : t[i] = t[j] => i = j

\* Line l of the stream being read has been processed.
Behind(q, l) == l[1] = Head(q.todo) /\ l[2] < q.pos /\ q.pc \in {"read", "flush"}

\* The local variables of a run fit together.
RunTypes(q) ==
  /\ q \in RunState
  /\ Len(q.batch) <= BatchSize
  /\ q.pc \in {"skip", "read", "close"} => Len(q.batch) < BatchSize
  /\ q.pc = "flush" => q.batch # <<>>
  /\ q.pc \in {"skip", "read"} => q.todo # <<>>
  /\ q.pc = "skip" => Head(q.todo) \in q.done
  /\ q.pc = "close" => q.todo = <<>>
  /\ q.pos # 0

\* Every parsed line is a row, a duplicate or in the batch.
Counts(q) ==
  /\ IsFiniteSet(q.new)
  /\ q.parsed = Cardinality(q.new) + q.deduped + Len(q.batch)
  /\ q.parsed + q.errors <= q.read

\* The lines a run has in hand are distinct lines of its own streams, behind its
\* reading position; each of its streams is read once.
InHand(r, q) ==
  /\ Range(q.todo) \subseteq Range(StreamsOf[r])
  /\ Distinct(q.todo) /\ Distinct(q.batch)
  /\ Range(q.batch) \cap q.new = {}
  /\ \A l \in Range(q.batch) \cup q.new :
       /\ l[1] \in Range(StreamsOf[r])
       /\ l[1] \in Range(q.todo) => Behind(q, l)

\* Stored, RowsOf and Dropped of any set R of rows and any job record j.
StoredIn(R, scope, l) ==
  \E row \in R : ScopeOf[row.run] = scope /\
     (row.line = l \/ SameEntry(scope, row.line, scope, l))
RowsIn(R, r) == {row \in R : row.run = r}
DroppedIn(R, r, j) == j.parsed # Cardinality(RowsIn(R, r)) + j.deduped

\* What becomes of a line that was read: it has a committed row, or the run will
\* commit one, or one of the same entry.
Covers(R, r, q, l) ==
  \/ StoredIn(R, ScopeOf[r], l)
  \/ \E k \in Range(q.batch) \cup q.new : k = l \/ SameEntry(ScopeOf[r], k, ScopeOf[r], l)

\* What a run owes to the streams it has behind it.
OwesDone(R, r, q) == \A s \in q.done : \A l \in Readable(s) : Covers(R, r, q, l)
OwesCursors(R, r, q, c) == \A s \in Streams : \A l \in Readable(s) : l[2] < c[s] => Covers(R, r, q, l)
OwesRead(R, r, q) ==
  ~q.outage => \A s \in Range(StreamsOf[r]) \ Range(q.todo) :
                  q.cursors[s] = 0 => \A l \in Readable(s) : Covers(R, r, q, l)
OwesBehind(R, r, q) ==
  q.pc \in {"read", "flush"} /\ q.todo # <<>> =>
    \A l \in Readable(Head(q.todo)) : l[2] < q.pos => Covers(R, r, q, l)

Owes(R, r, q) ==
  q.pc \notin {"idle", "ended"} =>
    OwesDone(R, r, q) /\ OwesCursors(R, r, q, q.cursors) /\ OwesRead(R, r, q) /\ OwesBehind(R, r, q)

\* What a committed job promises to the run that resumes it and to its readers.
Promises(R, r, j) ==
  /\ \A s \in j.done : \A l \in Readable(s) : StoredIn(R, ScopeOf[r], l)
  /\ \A s \in Streams : \A l \in Readable(s) : l[2] < j.cursors[s] => StoredIn(R, ScopeOf[r], l)
  /\ j.status = "completed" /\ ~j.partial =>
       \A s \in Range(StreamsOf[r]) : j.cursors[s] = 0 =>
          \A l \in Readable(s) : StoredIn(R, ScopeOf[r], l)

\* The report of a completed job.
Reports(R, r, j) ==
  j.status = "completed" => ~DroppedIn(R, r, j) /\ j.parsed + j.errors <= j.read

NoneDropped == \A r \in Runs : ~DroppedIn(rows, r, job[r])

Types ==
  /\ run \in [Runs -> RunState] /\ \A r \in Runs : RunTypes(run[r])
  /\ rows \subseteq [run : Runs, line : Lines] /\ IsFiniteSet(rows)
  /\ job \in [Runs -> JobState]
  /\ sources \subseteq Runs

\* A run writes rows and its job when it ends, and not before.
EndsOnce ==
  \A r \in Runs :
    /\ job[r].status = "none" => job[r] = NoJob /\ RowsIn(rows, r) = {}
    /\ job[r].status # "none" => run[r].pc = "ended"

\* An entry has one row, committed or not.
OneRowEach ==
  /\ \A x, y \in rows : SameEntry(ScopeOf[x.run], x.line, ScopeOf[y.run], y.line) => x = y
  /\ \A r \in Runs : \A k \in run[r].new : \A x \in rows :
       ~SameEntry(ScopeOf[x.run], x.line, ScopeOf[r], k)
  /\ \A r, q \in Runs : \A k \in run[r].new : \A m \in run[q].new :
       SameEntry(ScopeOf[q], m, ScopeOf[r], k) => r = q /\ k = m

Running(r) == run[r].pc \notin {"idle", "ended"}

\* A resuming run works from a job of its own scope that has ended.
Resumes ==
  \A r \in Runs : Running(r) =>
    /\ ~ResumeRefused(r)
    /\ Prior[r] # NoRun => job[Prior[r]].status # "none"
    /\ completed_at_start(r) \subseteq run[r].done

Books == \A r \in Runs : Counts(run[r]) /\ InHand(r, run[r])
Owed == NoneDropped => \A r \in Runs : Owes(rows, r, run[r]) /\ Promises(rows, r, job[r])
Rested == \A r \in Runs : ~Running(r) => run[r].new = {} /\ run[r].batch = <<>>
Reported == \A r \in Runs : Reports(rows, r, job[r])

IInv == Types /\ Books /\ EndsOnce /\ OneRowEach /\ Resumes /\ Owed /\ Rested /\ Reported
-----------------------------------------------------------------------------
(* Sequences and lines.                                                    *)

LEMMA TailRange ==
  ASSUME NEW S, NEW t \in Seq(S), t # <<>>
  PROVE  /\ Head(t) \in S /\ Tail(t) \in Seq(S) /\ Len(Tail(t)) = Len(t) - 1
         /\ Range(t) = {Head(t)} \cup Range(Tail(t))
         /\ Distinct(t) => Distinct(Tail(t)) /\ Head(t) \notin Range(Tail(t))
<1>1. /\ Head(t) = t[1] /\ Tail(t) \in Seq(S) /\ Len(Tail(t)) = Len(t) - 1 /\ Len(t) \in Nat \ {0}
      /\ \A i \in 1 .. Len(Tail(t)) : Tail(t)[i] = t[i + 1]
  BY HeadTailProperties
<1>2. DOMAIN t = 1 .. Len(t) /\ DOMAIN Tail(t) = 1 .. (Len(t) - 1)
  BY <1>1
<1>3. \A i \in DOMAIN t : i = 1 \/ (i - 1 \in DOMAIN Tail(t) /\ Tail(t)[i - 1] = t[i])
  BY <1>1, <1>2
<1>4. \A i \in DOMAIN Tail(t) : i + 1 \in DOMAIN t /\ i + 1 # 1 /\ Tail(t)[i] = t[i + 1]
  BY <1>1, <1>2
<1>5. Range(t) = {Head(t)} \cup Range(Tail(t))
  <2>1. 1 \in DOMAIN t
    BY <1>1, <1>2
  <2>2. \A x \in Range(t) : x = Head(t) \/ x \in Range(Tail(t))
    <3> TAKE x \in Range(t)
    <3>1. PICK i \in DOMAIN t : x = t[i]
      BY DEF Range
    <3>2. i = 1 \/ (i - 1 \in DOMAIN Tail(t) /\ Tail(t)[i - 1] = t[i])
      BY <1>3
    <3> QED
      BY <1>1, <3>1, <3>2 DEF Range
  <2>3. \A x \in Range(Tail(t)) : x \in Range(t)
    BY <1>4 DEF Range
  <2>4. Head(t) \in Range(t)
    BY <1>1, <2>1 DEF Range
  <2> QED
    BY <2>2, <2>3, <2>4
<1>6. ASSUME Distinct(t) PROVE Distinct(Tail(t)) /\ Head(t) \notin Range(Tail(t))
  <2>1. 1 \in DOMAIN t /\ \A i \in DOMAIN Tail(t) : i \in Nat
    BY <1>1, <1>2
  <2>2. Distinct(Tail(t))
    BY <1>4, <1>6, <2>1 DEF Distinct
  <2>3. Head(t) \notin Range(Tail(t))
    BY <1>1, <1>4, <1>6, <2>1 DEF Distinct, Range
  <2> QED
    BY <2>2, <2>3
<1> QED
  BY <1>1, <1>5, <1>6, HeadTailProperties

LEMMA AppendRange ==
  ASSUME NEW S, NEW t \in Seq(S), NEW e \in S
  PROVE  /\ Append(t, e) \in Seq(S) /\ Len(Append(t, e)) = Len(t) + 1
         /\ Range(Append(t, e)) = Range(t) \cup {e}
         /\ Distinct(t) /\ e \notin Range(t) => Distinct(Append(t, e))
<1>1. /\ Append(t, e) \in Seq(S) /\ Len(Append(t, e)) = Len(t) + 1 /\ Len(t) \in Nat
      /\ \A i \in 1 .. Len(t) : Append(t, e)[i] = t[i]
      /\ Append(t, e)[Len(t) + 1] = e
  BY AppendProperties
<1>2. DOMAIN t = 1 .. Len(t) /\ DOMAIN Append(t, e) = 1 .. (Len(t) + 1)
  BY <1>1
<1>3. \A i \in DOMAIN Append(t, e) : i = Len(t) + 1 \/ (i \in DOMAIN t /\ Append(t, e)[i] = t[i])
  BY <1>1, <1>2
<1>4. Len(t) + 1 \in DOMAIN Append(t, e) /\ \A i \in DOMAIN t : i \in DOMAIN Append(t, e) /\ Append(t, e)[i] = t[i]
  BY <1>1, <1>2
<1>5. Range(Append(t, e)) = Range(t) \cup {e}
  BY <1>1, <1>3, <1>4 DEF Range
<1>6. ASSUME Distinct(t), e \notin Range(t) PROVE Distinct(Append(t, e))
  BY <1>1, <1>3, <1>6 DEF Distinct, Range
<1> QED
  BY <1>1, <1>5, <1>6

LEMMA EmptyRange == Range(<<>>) = {} /\ Distinct(<<>>)
  BY DEF Range, Distinct

LEMMA LinesDef ==
  /\ \A s \in Streams : \A i \in 1 .. Len(Content[s]) : <<s, i>> \in Lines
  /\ \A l \in Lines : l = <<l[1], l[2]>> /\ l[1] \in Streams /\ l[2] \in 1 .. Len(Content[l[1]])
  BY DEF Lines

LEMMA EntryFacts ==
  /\ \A a, b, k, l : SameEntry(a, k, b, l) => a = b /\ SameEntry(b, l, a, k)
  /\ \A a, b, c, k, l, m : SameEntry(a, k, b, l) /\ SameEntry(b, l, c, m) => SameEntry(a, k, c, m)
  BY DEF SameEntry, Entry
-----------------------------------------------------------------------------
(* Steps inside a transaction.                                             *)

\* No committed row and no open transaction has the entry of line k in r's scope.
Free(r, k) ==
  /\ \A x \in rows : ~SameEntry(ScopeOf[x.run], x.line, ScopeOf[r], k)
  /\ \A q \in Runs : \A m \in run[q].new : ~SameEntry(ScopeOf[q], m, ScopeOf[r], k)

\* Only the local variables of run r change, and at most one row is added to its
\* transaction.
LEMMA LocalStep ==
  ASSUME IInv, NEW r \in Runs, run[r].pc # "ended", NEW n \in RunState,
         Set(r, n), UNCHANGED <<rows, job, sources>>,
         RunTypes(n), Counts(n), InHand(r, n),
         n.pc \in {"idle", "ended"} => n.new = {} /\ n.batch = <<>>,
         n.pc \notin {"idle", "ended"} =>
           /\ ~ResumeRefused(r)
           /\ Prior[r] # NoRun => job[Prior[r]].status # "none"
           /\ completed_at_start(r) \subseteq n.done,
         NoneDropped => Owes(rows, r, n),
         \/ n.new \subseteq run[r].new
         \/ \E k : n.new = run[r].new \cup {k} /\ Free(r, k)
  PROVE  IInv'
<1>1. /\ run' = [run EXCEPT ![r] = n] /\ run' \in [Runs -> RunState]
      /\ run'[r] = n /\ \A q \in Runs : q # r => run'[q] = run[q]
      /\ job' = job /\ rows' = rows /\ sources' = sources
  BY DEF Set, IInv, Types
<1>2. Types'
  BY <1>1 DEF IInv, Types
<1>3. Books'
  BY <1>1 DEF IInv, Books
<1>4. job[r].status = "none"
  BY DEF IInv, EndsOnce
<1>5. EndsOnce'
  BY <1>1, <1>4 DEF IInv, EndsOnce
<1>6. OneRowEach'
  <2>1. \A q \in Runs : \A k \in run'[q].new : \A x \in rows :
          ~SameEntry(ScopeOf[x.run], x.line, ScopeOf[q], k)
    BY <1>1 DEF IInv, OneRowEach, Free
  <2>2. ASSUME NEW p \in Runs, NEW q \in Runs, NEW k \in run'[p].new, NEW m \in run'[q].new,
               SameEntry(ScopeOf[q], m, ScopeOf[p], k)
        PROVE  p = q /\ k = m
    <3>1. CASE k \in run[p].new /\ m \in run[q].new
      BY <2>2, <3>1 DEF IInv, OneRowEach
    <3>2. CASE k \notin run[p].new
      <4>1. p = r /\ Free(r, k) /\ n.new = run[r].new \cup {k}
        BY <1>1, <3>2
      <4>2. m \notin run[q].new
        BY <2>2, <4>1 DEF Free
      <4> QED
        BY <1>1, <4>1, <4>2
    <3>3. CASE m \notin run[q].new
      <4>1. q = r /\ Free(r, m) /\ n.new = run[r].new \cup {m}
        BY <1>1, <3>3
      <4>2. SameEntry(ScopeOf[p], k, ScopeOf[q], m)
        BY <2>2, EntryFacts
      <4>3. k \notin run[p].new
        BY <4>1, <4>2 DEF Free
      <4> QED
        BY <1>1, <4>1, <4>3
    <3> QED
      BY <3>1, <3>2, <3>3
  <2> QED
    BY <1>1, <2>1, <2>2 DEF IInv, OneRowEach
<1>7. Resumes'
  BY <1>1 DEF IInv, Resumes, Running, completed_at_start, ResumeRefused
<1>8. Owed'
  BY <1>1 DEF IInv, Owed, NoneDropped
<1>9. Rested' /\ Reported'
  BY <1>1 DEF IInv, Rested, Running, Reported
<1> QED
  BY <1>2, <1>3, <1>5, <1>6, <1>7, <1>8, <1>9 DEF IInv

LEMMA FreshType ==
  ASSUME NEW p \in {"idle", "ended"}, NEW e \in Seq(Streams), NEW f \in Seq(Lines),
         NEW c \in [Streams -> Nat], NEW n,
         n = [pc |-> p, todo |-> e, pos |-> 1, batch |-> f, new |-> {},
              read |-> 0, parsed |-> 0, errors |-> 0, deduped |-> 0, cursors |-> c,
              done |-> {}, outage |-> FALSE, source |-> NoRun]
  PROVE  n \in RunState
  BY DEF RunState

\* A run without anything in hand.
LEMMA FreshFacts ==
  ASSUME NEW r \in Runs, NEW p \in {"idle", "ended"}, NEW n, n = [Fresh EXCEPT !.pc = p]
  PROVE  n \in RunState /\ RunTypes(n) /\ Counts(n) /\ InHand(r, n)
         /\ n.pc = p /\ n.new = {} /\ n.batch = <<>>
<1>1. /\ n.pc = p /\ n.todo = <<>> /\ n.batch = <<>> /\ n.new = {} /\ n.read = 0 /\ n.parsed = 0
      /\ n.errors = 0 /\ n.deduped = 0 /\ n.pos = 1 /\ n \in RunState
  <2> DEFINE c == [s \in Streams |-> 0]
             e == <<>>
  <2>1. n = [pc |-> p, todo |-> e, pos |-> 1, batch |-> e, new |-> {},
             read |-> 0, parsed |-> 0, errors |-> 0, deduped |-> 0, cursors |-> c,
             done |-> {}, outage |-> FALSE, source |-> NoRun]
    BY DEF Fresh
  <2>2. c \in [Streams -> Nat] /\ e \in Seq(Streams) /\ e \in Seq(Lines)
    OBVIOUS
  <2>3. /\ n.pc = p /\ n.todo = <<>> /\ n.batch = <<>> /\ n.new = {} /\ n.read = 0 /\ n.parsed = 0
        /\ n.errors = 0 /\ n.deduped = 0 /\ n.pos = 1
    BY <2>1
  <2> HIDE DEF c, e
  <2>4. n \in RunState
    BY <2>1, <2>2, FreshType
  <2> QED
    BY <2>3, <2>4
<1>2. RunTypes(n)
  <2>1. Len(n.batch) < BatchSize /\ Len(n.batch) <= BatchSize
    BY <1>1, IngestConstants
  <2> QED
    BY <1>1, <2>1 DEF RunTypes
<1>3. Counts(n)
  <2>1. IsFiniteSet(n.new) /\ Cardinality(n.new) = 0
    BY <1>1, FS_EmptySet
  <2>2. n.parsed = 0 /\ n.errors = 0 /\ n.read = 0 /\ n.deduped = 0 /\ Len(n.batch) = 0
    BY <1>1
  <2> QED
    BY <2>1, <2>2 DEF Counts
<1>4. InHand(r, n)
  BY <1>1, EmptyRange DEF InHand
<1> QED
  BY <1>1, <1>2, <1>3, <1>4

\* Rollback: a run that ends or starts over without a commit.
LEMMA RollbackStep ==
  ASSUME IInv, NEW r \in Runs, run[r].pc # "ended", NEW p \in {"idle", "ended"},
         Set(r, [Fresh EXCEPT !.pc = p]), UNCHANGED <<rows, job, sources>>
  PROVE  IInv'
<1> DEFINE n == [Fresh EXCEPT !.pc = p]
<1>1. n \in RunState /\ RunTypes(n) /\ Counts(n) /\ InHand(r, n)
      /\ n.pc = p /\ n.new = {} /\ n.batch = <<>>
  BY FreshFacts
<1>2. Set(r, n)
  OBVIOUS
<1> HIDE DEF n
<1>3. Owes(rows, r, n)
  BY <1>1 DEF Owes
<1> QED
  BY <1>1, <1>2, <1>3, LocalStep
-----------------------------------------------------------------------------
(* Commits.                                                                *)

\* Rows are never lost: what is stored, covered or promised stays so.
LEMMA MoreRows ==
  ASSUME NEW R, NEW S, R \subseteq S, NEW r, NEW q, NEW j
  PROVE  /\ Owes(R, r, q) => Owes(S, r, q)
         /\ Promises(R, r, j) => Promises(S, r, j)
<1>1. \A scope, l : StoredIn(R, scope, l) => StoredIn(S, scope, l)
  BY DEF StoredIn
<1>2. \A l : Covers(R, r, q, l) => Covers(S, r, q, l)
  BY <1>1 DEF Covers
<1>3. Owes(R, r, q) => Owes(S, r, q)
  BY <1>2 DEF Owes, OwesDone, OwesCursors, OwesRead, OwesBehind
<1>4. Promises(R, r, j) => Promises(S, r, j)
  BY <1>1 DEF Promises
<1> QED
  BY <1>3, <1>4

\* The rows of one transaction, as the commit shows them.
NewRows(r) == {[run |-> r, line |-> l] : l \in run[r].new}

LEMMA NewRowsCount ==
  ASSUME NEW r, IsFiniteSet(run[r].new)
  PROVE  IsFiniteSet(NewRows(r)) /\ Cardinality(NewRows(r)) = Cardinality(run[r].new)
<1> DEFINE f == [l \in run[r].new |-> [run |-> r, line |-> l]]
<1>1. f \in [run[r].new -> NewRows(r)]
  BY DEF NewRows
<1>2. \A a, b \in run[r].new : f[a] = f[b] => a = b
  <2> TAKE a, b \in run[r].new
  <2>1. f[a].line = a /\ f[b].line = b
    OBVIOUS
  <2> QED
    BY <2>1
<1>3. \A x \in NewRows(r) : \E l \in run[r].new : f[l] = x
  BY DEF NewRows
<1> HIDE DEF f
<1>4. f \in Bijection(run[r].new, NewRows(r))
  BY <1>1, <1>2, <1>3 DEF Bijection, Injection, Surjection, IsInjective
<1>5. ExistsBijection(run[r].new, NewRows(r))
  BY <1>4 DEF ExistsBijection
<1> QED
  BY <1>5, FS_Bijection

\* What the commit of run r makes visible.
LEMMA CommitEffect ==
  ASSUME IInv, NEW r \in Runs, Running(r), NEW st, NEW c, Ended(r, st, c)
  PROVE  /\ rows' = rows \cup NewRows(r) /\ IsFiniteSet(rows')
         /\ rows' \subseteq [run : Runs, line : Lines]
         /\ RowsIn(rows', r) = NewRows(r)
         /\ \A q \in Runs : q # r => RowsIn(rows', q) = RowsIn(rows, q)
         /\ Cardinality(NewRows(r)) = Cardinality(run[r].new)
         /\ DroppedIn(rows', r, JobRow(r, st, c)) <=> run[r].batch # <<>>
<1> DEFINE N == NewRows(r)
           j == JobRow(r, st, c)
<1>1. rows' = rows \cup N
  BY DEF Ended, Committed, NewRows
<1>2. \A x \in N : x.run = r /\ x \in [run : Runs, line : Lines]
  BY DEF NewRows, IInv, Types, RunState
<1>3. IsFiniteSet(N) /\ Cardinality(N) = Cardinality(run[r].new) /\ Cardinality(run[r].new) \in Nat
  BY NewRowsCount, FS_CardinalityType DEF IInv, Books, Counts
<1>4. IsFiniteSet(rows')
  BY <1>1, <1>3, FS_Union DEF IInv, Types
<1>5. job[r].status = "none" /\ RowsIn(rows, r) = {}
  BY DEF IInv, EndsOnce, Running
<1>6. RowsIn(rows', r) = N /\ \A q \in Runs : q # r => RowsIn(rows', q) = RowsIn(rows, q)
  BY <1>1, <1>2, <1>5 DEF RowsIn
<1>7. j.parsed = Cardinality(N) + j.deduped + Len(run[r].batch)
  BY <1>3 DEF JobRow, IInv, Books, Counts
<1>8. j.deduped \in Nat /\ run[r].batch \in Seq(Lines)
  BY DEF JobRow, IInv, Types, RunState
<1>9. DroppedIn(rows', r, j) <=> run[r].batch # <<>>
  <2>1. Len(run[r].batch) \in Nat /\ (Len(run[r].batch) = 0 <=> run[r].batch = <<>>)
    BY <1>8
  <2> HIDE DEF N, j
  <2> QED
    BY <1>3, <1>6, <1>7, <1>8, <2>1 DEF DroppedIn
<1> QED
  BY <1>1, <1>2, <1>3, <1>4, <1>6, <1>9 DEF IInv, Types

LEMMA CommitStep ==
  ASSUME IInv, NEW r \in Runs, Running(r), NEW st \in {"completed", "failed"},
         NEW c \in [Streams -> Nat], Ended(r, st, c),
         st = "completed" => run[r].todo = <<>> /\ run[r].batch = <<>> /\ c = run[r].cursors,
         NoneDropped => OwesCursors(rows, r, run[r], c)
  PROVE  IInv'
<1> DEFINE j == JobRow(r, st, c)
           n == [Fresh EXCEPT !.pc = "ended"]
<1>1. /\ rows' = rows \cup NewRows(r) /\ IsFiniteSet(rows')
      /\ rows' \subseteq [run : Runs, line : Lines]
      /\ RowsIn(rows', r) = NewRows(r)
      /\ \A q \in Runs : q # r => RowsIn(rows', q) = RowsIn(rows, q)
      /\ DroppedIn(rows', r, j) <=> run[r].batch # <<>>
  BY CommitEffect
<1>2. /\ n \in RunState /\ RunTypes(n) /\ Counts(n) /\ InHand(r, n)
      /\ n.pc = "ended" /\ n.new = {} /\ n.batch = <<>>
  BY FreshFacts
<1>3. /\ run' = [run EXCEPT ![r] = n] /\ job' = [job EXCEPT ![r] = j]
      /\ sources' \subseteq Runs
  BY DEF Ended, Set, SourceCommitted, IInv, Types
<1>4. /\ j \in JobState /\ j.status = st /\ j.done = run[r].done /\ j.cursors = c
      /\ j.partial = run[r].outage /\ j.parsed = run[r].parsed /\ j.errors = run[r].errors
      /\ j.read = run[r].read
  BY DEF JobRow, JobState, IInv, Types, RunState
<1> HIDE DEF j, n
<1>5. /\ run' \in [Runs -> RunState] /\ run'[r] = n /\ \A q \in Runs : q # r => run'[q] = run[q]
      /\ job' \in [Runs -> JobState] /\ job'[r] = j /\ \A q \in Runs : q # r => job'[q] = job[q]
  BY <1>2, <1>3, <1>4 DEF IInv, Types
<1>6. Types'
  BY <1>1, <1>2, <1>3, <1>5 DEF IInv, Types
<1>7. Books'
  BY <1>2, <1>5 DEF IInv, Books
<1>8. EndsOnce'
  BY <1>1, <1>2, <1>4, <1>5, ZenonT(40) DEF IInv, EndsOnce
<1>9. OneRowEach'
  <2>1. \A x \in NewRows(r) : x.run = r /\ x.line \in run[r].new /\ x = [run |-> r, line |-> x.line]
    BY DEF NewRows
  <2>2. ASSUME NEW x \in rows', NEW y \in rows', SameEntry(ScopeOf[x.run], x.line, ScopeOf[y.run], y.line)
        PROVE  x = y
    <3>1. CASE x \in rows /\ y \in rows
      BY <2>2, <3>1 DEF IInv, OneRowEach
    <3>2. CASE x \in rows /\ y \in NewRows(r)
      BY <2>1, <2>2, <3>2 DEF IInv, OneRowEach
    <3>3. CASE x \in NewRows(r) /\ y \in rows
      BY <2>1, <2>2, <3>3, EntryFacts DEF IInv, OneRowEach
    <3>4. CASE x \in NewRows(r) /\ y \in NewRows(r)
      BY <2>1, <2>2, <3>4 DEF IInv, OneRowEach
    <3> QED
      BY <1>1, <3>1, <3>2, <3>3, <3>4
  <2>3. ASSUME NEW q \in Runs, NEW k \in run'[q].new, NEW x \in rows',
               SameEntry(ScopeOf[x.run], x.line, ScopeOf[q], k)
        PROVE  FALSE
    <3>1. q # r /\ k \in run[q].new
      BY <1>2, <1>5
    <3>2. x \notin rows
      BY <2>3, <3>1 DEF IInv, OneRowEach
    <3>3. x \in NewRows(r)
      BY <1>1, <3>2
    <3> QED
      BY <2>1, <2>3, <3>1, <3>3 DEF IInv, OneRowEach
  <2>4. \A p, q \in Runs : \A k \in run'[p].new : \A m \in run'[q].new :
          SameEntry(ScopeOf[q], m, ScopeOf[p], k) => p = q /\ k = m
    BY <1>2, <1>5 DEF IInv, OneRowEach
  <2> QED
    BY <2>2, <2>3, <2>4 DEF OneRowEach
<1>10. Resumes'
  <2>1. \A q \in Runs : job[q].status # "none" => job'[q] = job[q]
    BY <1>5 DEF IInv, EndsOnce, Running
  <2>2. ASSUME NEW q \in Runs, Running(q)'
        PROVE  q # r /\ Running(q) /\ run'[q] = run[q]
    BY <1>2, <1>5, <2>2 DEF Running
  <2>3. ASSUME NEW q \in Runs, Running(q)'
        PROVE  /\ ~ResumeRefused(q)
               /\ Prior[q] # NoRun => job'[Prior[q]].status # "none"
               /\ completed_at_start(q)' \subseteq run'[q].done
    <3>1. Prior[q] # NoRun => Prior[q] \in Runs
      BY IngestConstants
    <3>2. Prior[q] # NoRun => job'[Prior[q]] = job[Prior[q]] /\ job[Prior[q]].status # "none"
      BY <2>1, <2>2, <2>3, <3>1 DEF IInv, Resumes
    <3>3. completed_at_start(q)' = completed_at_start(q)
      BY <3>2 DEF completed_at_start
    <3> QED
      BY <2>2, <2>3, <3>2, <3>3 DEF IInv, Resumes
  <2> QED
    BY <2>3 DEF Resumes, ResumeRefused
<1>11. Owed'
  <2> SUFFICES ASSUME NoneDropped' PROVE \A q \in Runs : Owes(rows', q, run'[q]) /\ Promises(rows', q, job'[q])
    BY DEF Owed
  <2>1. run[r].batch = <<>>
    BY <1>1, <1>5 DEF NoneDropped
  <2>2. NoneDropped
    <3>1. \A q \in Runs : q # r => ~DroppedIn(rows, q, job[q])
      BY <1>1, <1>5 DEF NoneDropped, DroppedIn
    <3>2. ~DroppedIn(rows, r, job[r])
      <4>1. job[r].status = "none"
        BY DEF IInv, EndsOnce, Running
      <4>2. job[r] = NoJob /\ RowsIn(rows, r) = {}
        BY <4>1 DEF IInv, EndsOnce
      <4>3. NoJob.parsed = 0 /\ NoJob.deduped = 0
        BY DEF NoJob
      <4> QED
        BY <4>2, <4>3, FS_EmptySet DEF DroppedIn
    <3> QED
      BY <3>1, <3>2 DEF NoneDropped
  <2>3. ASSUME NEW l, Covers(rows, r, run[r], l) PROVE StoredIn(rows', ScopeOf[r], l)
    <3>1. CASE StoredIn(rows, ScopeOf[r], l)
      BY <1>1, <3>1 DEF StoredIn
    <3>2. CASE \E k \in run[r].new : k = l \/ SameEntry(ScopeOf[r], k, ScopeOf[r], l)
      <4>1. PICK k \in run[r].new : k = l \/ SameEntry(ScopeOf[r], k, ScopeOf[r], l)
        BY <3>2
      <4> DEFINE x == [run |-> r, line |-> k]
      <4>2. x \in rows' /\ x.run = r /\ x.line = k
        BY <1>1 DEF NewRows
      <4> QED
        BY <4>1, <4>2 DEF StoredIn
    <3> QED
      BY <2>1, <2>3, <3>1, <3>2, EmptyRange DEF Covers
  <2>4. Owes(rows, r, run[r]) /\ OwesCursors(rows, r, run[r], c)
    BY <2>2 DEF IInv, Owed
  <2>5. Promises(rows', r, j)
    <3>1. OwesDone(rows, r, run[r]) /\ OwesRead(rows, r, run[r])
      BY <2>4 DEF Owes, Running
    <3>2. \A s \in j.done : \A l \in Readable(s) : StoredIn(rows', ScopeOf[r], l)
      BY <1>4, <2>3, <3>1 DEF OwesDone
    <3>3. \A s \in Streams : \A l \in Readable(s) : l[2] < j.cursors[s] => StoredIn(rows', ScopeOf[r], l)
      BY <1>4, <2>3, <2>4 DEF OwesCursors
    <3>4. ASSUME j.status = "completed", ~j.partial, NEW s \in Range(StreamsOf[r]), j.cursors[s] = 0,
                 NEW l \in Readable(s)
          PROVE  StoredIn(rows', ScopeOf[r], l)
      BY <1>4, <2>3, <3>1, <3>4, EmptyRange DEF OwesRead
    <3> QED
      BY <3>2, <3>3, <3>4 DEF Promises
  <2>6. Owes(rows', r, n)
    BY <1>2 DEF Owes
  <2>7. ASSUME NEW q \in Runs, q # r PROVE Owes(rows', q, run'[q]) /\ Promises(rows', q, job'[q])
    BY <1>1, <1>5, <2>2, <2>7, MoreRows DEF IInv, Owed
  <2> QED
    BY <1>5, <2>5, <2>6, <2>7
<1>12. Rested'
  BY <1>2, <1>5 DEF IInv, Rested, Running
<1>13. Reported'
  <2>1. Reports(rows', r, j)
    BY <1>1, <1>4 DEF Reports, IInv, Books, Counts
  <2>2. \A q \in Runs : q # r => Reports(rows', q, job[q])
    BY <1>1 DEF IInv, Reported, Reports, DroppedIn
  <2> QED
    BY <1>5, <2>1, <2>2 DEF Reported
<1> QED
  BY <1>6, <1>7, <1>8, <1>9, <1>10, <1>11, <1>12, <1>13 DEF IInv
-----------------------------------------------------------------------------
(* Between two streams.                                                    *)

\* A record that the for loop carries to its next stream.
Between(r, q) ==
  /\ q \in RunState /\ Len(q.batch) < BatchSize /\ q.pos # 0 /\ Counts(q)
  /\ Range(q.todo) \subseteq Range(StreamsOf[r]) /\ Distinct(q.todo) /\ Distinct(q.batch)
  /\ Range(q.batch) \cap q.new = {}
  /\ \A l \in Range(q.batch) \cup q.new : l[1] \in Range(StreamsOf[r]) /\ l[1] \notin Range(q.todo)

\* Opening only moves the program counter and the position.
LEMMA OpeningFields ==
  ASSUME IInv, NEW r \in Runs, NEW q \in RunState, NEW n, n = Opening(r, q)
  PROVE  /\ n \in RunState /\ n.todo = q.todo /\ n.batch = q.batch /\ n.new = q.new
         /\ n.read = q.read /\ n.parsed = q.parsed /\ n.errors = q.errors /\ n.deduped = q.deduped
         /\ n.cursors = q.cursors /\ n.done = q.done /\ n.outage = q.outage
         /\ q.pos # 0 => n.pos # 0
         /\ \/ n.pc = "close" /\ q.todo = <<>>
            \/ n.pc = "skip" /\ q.todo # <<>> /\ Head(q.todo) \in completed_at_start(r)
            \/ /\ n.pc = "read" /\ q.todo # <<>>
               /\ n.pos = first_line(r, Head(q.todo))
<1> DEFINE s == Head(q.todo)
           p == first_line(r, s)
<1>2. q.todo # <<>> => s \in Streams
  BY TailRange DEF RunState
<1>3. q.todo # <<>> => p \in Nat
  <2>1. Prior[r] # NoRun => job[Prior[r]].cursors \in [Streams -> Nat]
    BY IngestConstants DEF IInv, Types, JobState
  <2> QED
    BY <1>2, <2>1 DEF resume_cursor, first_line
<1>4. CASE q.todo = <<>>
  <2>1. n = [q EXCEPT !.pc = "close"]
    BY <1>4 DEF Opening
  <2> QED
    BY <1>4, <2>1 DEF RunState
<1>5. CASE q.todo # <<>> /\ s \in completed_at_start(r)
  <2>1. n = [q EXCEPT !.pc = "skip"]
    BY <1>5 DEF Opening
  <2> QED
    BY <1>5, <2>1 DEF RunState
<1>6. CASE q.todo # <<>> /\ s \notin completed_at_start(r)
  <2>1. n = [q EXCEPT !.pc = "read", !.pos = p]
    BY <1>6 DEF Opening
  <2>2. n.pos = p
    BY <2>1 DEF RunState
  <2> HIDE DEF p
  <2>3. /\ n \in RunState /\ n.pc = "read" /\ n.todo = q.todo /\ n.batch = q.batch /\ n.new = q.new
        /\ n.read = q.read /\ n.parsed = q.parsed /\ n.errors = q.errors /\ n.deduped = q.deduped
        /\ n.cursors = q.cursors /\ n.done = q.done /\ n.outage = q.outage
    BY <1>3, <1>6, <2>1 DEF RunState
  <2>4. p # 0
    BY <2>2 DEF first_line, p
  <2> QED
    BY <1>6, <2>2, <2>3, <2>4 DEF p
<1> QED
  BY <1>4, <1>5, <1>6

LEMMA OpeningStep ==
  ASSUME IInv, NEW r \in Runs, run[r].pc # "ended", NEW q, Between(r, q), q.new \subseteq run[r].new,
         Set(r, Opening(r, q)), UNCHANGED <<rows, job, sources>>,
         ~ResumeRefused(r), Prior[r] # NoRun => job[Prior[r]].status # "none",
         completed_at_start(r) \subseteq q.done,
         NoneDropped => OwesDone(rows, r, q) /\ OwesCursors(rows, r, q, q.cursors) /\ OwesRead(rows, r, q)
  PROVE  IInv'
<1> DEFINE n == Opening(r, q)
<1>1. Set(r, n)
  OBVIOUS
<1>2. q \in RunState
  BY DEF Between
<1>3. /\ n \in RunState /\ n.todo = q.todo /\ n.batch = q.batch /\ n.new = q.new
      /\ n.read = q.read /\ n.parsed = q.parsed /\ n.errors = q.errors /\ n.deduped = q.deduped
      /\ n.cursors = q.cursors /\ n.done = q.done /\ n.outage = q.outage /\ n.pos # 0
      /\ \/ n.pc = "close" /\ q.todo = <<>>
         \/ n.pc = "skip" /\ q.todo # <<>> /\ Head(q.todo) \in completed_at_start(r)
         \/ /\ n.pc = "read" /\ q.todo # <<>>
            /\ n.pos = first_line(r, Head(q.todo))
  BY <1>2, OpeningFields DEF Between
<1> HIDE DEF n
<1>4. RunTypes(n)
  <2>1. Len(n.batch) < BatchSize /\ Len(n.batch) \in Nat /\ BatchSize \in Nat
    BY <1>2, <1>3, IngestConstants DEF Between, RunState
  <2>2. n.pc = "skip" => Head(n.todo) \in n.done
    BY <1>3
  <2> QED
    BY <1>3, <2>1, <2>2 DEF RunTypes
<1>5. Counts(n)
  BY <1>3 DEF Between, Counts
<1>6. InHand(r, n)
  BY <1>3 DEF Between, InHand
<1>7. ASSUME NoneDropped PROVE Owes(rows, r, n)
  <2>1. \A l : Covers(rows, r, q, l) => Covers(rows, r, n, l)
    BY <1>3 DEF Covers
  <2>2. OwesDone(rows, r, n) /\ OwesCursors(rows, r, n, n.cursors) /\ OwesRead(rows, r, n)
    BY <1>3, <1>7, <2>1 DEF OwesDone, OwesCursors, OwesRead
  <2>3. ASSUME n.pc = "read", NEW l \in Readable(Head(n.todo)), l[2] < n.pos
        PROVE  Covers(rows, r, n, l)
    <3> DEFINE k == resume_cursor(r, Head(q.todo))
    <3>1. l \in Lines /\ l[2] \in Nat /\ l[2] >= 1
      BY LinesDef DEF Readable
    <3>2. k # 0 /\ n.pos = k
      BY <1>3, <2>3, <3>1 DEF first_line
    <3>3. Prior[r] # NoRun /\ Prior[r] \in Runs /\ k = job[Prior[r]].cursors[Head(q.todo)]
      BY <3>2, IngestConstants DEF resume_cursor
    <3>4. ScopeOf[Prior[r]] = ScopeOf[r]
      BY <3>3 DEF ResumeRefused
    <3>5. Head(q.todo) \in Streams
      BY <1>2, <1>3, <2>3, TailRange DEF RunState
    <3>6. Promises(rows, Prior[r], job[Prior[r]])
      BY <1>7, <3>3 DEF IInv, Owed
    <3> HIDE DEF k
    <3>7. StoredIn(rows, ScopeOf[r], l)
      BY <1>3, <2>3, <3>2, <3>3, <3>4, <3>5, <3>6 DEF Promises
    <3> QED
      BY <3>7 DEF Covers
  <2>4. OwesBehind(rows, r, n)
    BY <1>3, <2>3 DEF OwesBehind
  <2> QED
    BY <2>2, <2>4 DEF Owes
<1> QED
  BY <1>1, <1>3, <1>4, <1>5, <1>6, <1>7, LocalStep
-----------------------------------------------------------------------------
(* One lemma per action.                                                   *)

\* The record a run starts with.
Starting(t, d, g) ==
  [pc |-> "idle", todo |-> t, pos |-> 1, batch |-> <<>>, new |-> {},
   read |-> 0, parsed |-> 0, errors |-> 0, deduped |-> 0, cursors |-> [s \in Streams |-> 0],
   done |-> d, outage |-> FALSE, source |-> g]

LEMMA StartingType ==
  ASSUME NEW t \in Seq(Streams), NEW d \in SUBSET Streams, NEW g \in Runs \cup {NoRun},
         NEW e \in Seq(Lines), NEW c \in [Streams -> Nat], NEW q,
         q = [pc |-> "idle", todo |-> t, pos |-> 1, batch |-> e, new |-> {},
              read |-> 0, parsed |-> 0, errors |-> 0, deduped |-> 0, cursors |-> c,
              done |-> d, outage |-> FALSE, source |-> g]
  PROVE  q \in RunState
  BY DEF RunState

LEMMA StartStep ==
  ASSUME IInv, NEW r \in Runs, NEW m, m = Starting(StreamsOf[r], completed_at_start(r), NoRun),
         Started(r, m), ~ResumeRefused(r), Prior[r] # NoRun => job[Prior[r]].status # "none"
  PROVE  IInv'
<1> DEFINE d == completed_at_start(r)
           g == get_or_create_source
           t == StreamsOf[r]
           q == [m EXCEPT !.source = g]
           e == <<>>
           c == [s \in Streams |-> 0]
<1>1. /\ c \in [Streams -> Nat] /\ t \in Seq(Streams) /\ Distinct(t)
      /\ e \in Seq(Lines) /\ g \in Runs \cup {NoRun}
  BY IngestConstants DEF get_or_create_source, Distinct, IInv, Types
<1>2. d \in SUBSET Streams
  BY IngestConstants DEF completed_at_start, IInv, Types, JobState
<1>3. q = Starting(t, d, g)
  <2>1. ASSUME NEW x, x = q PROVE x = Starting(t, d, g)
    BY <2>1 DEF Starting
  <2> QED
    BY <2>1, Zenon
<1>4. q = [pc |-> "idle", todo |-> t, pos |-> 1, batch |-> e, new |-> {},
           read |-> 0, parsed |-> 0, errors |-> 0, deduped |-> 0, cursors |-> c,
           done |-> d, outage |-> FALSE, source |-> g]
  BY <1>3, Zenon DEF Starting
<1>5. e = <<>> /\ Len(e) = 0 /\ Range(e) = {} /\ Distinct(e)
  BY EmptyRange
<1>6. d = completed_at_start(r) /\ t = StreamsOf[r] /\ \A s \in Streams : c[s] = 0
  OBVIOUS
<1>7. Set(r, Opening(r, q)) /\ UNCHANGED <<rows, job, sources>> /\ run[r].pc = "idle"
  BY DEF Started
<1> HIDE DEF d, g, t, e, c, q
<1>8. q \in RunState
  BY <1>1, <1>2, <1>4, StartingType
<1>9. /\ q.todo = t /\ q.batch = e /\ q.new = {} /\ q.read = 0 /\ q.parsed = 0 /\ q.errors = 0
      /\ q.deduped = 0 /\ q.cursors = c /\ q.done = d /\ q.outage = FALSE /\ q.pos = 1
  BY <1>4
<1>10. Counts(q)
  BY <1>5, <1>9, FS_EmptySet DEF Counts
<1>11. Between(r, q)
  BY <1>1, <1>5, <1>6, <1>8, <1>9, <1>10, IngestConstants DEF Between
<1>12. ASSUME NoneDropped
       PROVE  OwesDone(rows, r, q) /\ OwesCursors(rows, r, q, q.cursors) /\ OwesRead(rows, r, q)
  <2>1. \A s \in d : Prior[r] \in Runs /\ s \in job[Prior[r]].done /\ ScopeOf[Prior[r]] = ScopeOf[r]
    BY <1>6, IngestConstants DEF completed_at_start, ResumeRefused
  <2>2. \A s \in d : \A l \in Readable(s) : StoredIn(rows, ScopeOf[r], l)
    BY <1>12, <2>1 DEF IInv, Owed, Promises
  <2>3. OwesDone(rows, r, q)
    BY <1>9, <2>2 DEF OwesDone, Covers
  <2>4. OwesCursors(rows, r, q, q.cursors)
    <3>1. \A s \in Streams : \A l \in Readable(s) : l[2] \in Nat
      BY LinesDef DEF Readable
    <3> QED
      BY <1>6, <1>9, <3>1 DEF OwesCursors
  <2>5. OwesRead(rows, r, q)
    BY <1>6, <1>9 DEF OwesRead
  <2> QED
    BY <2>3, <2>4, <2>5
<1>13. q.new \subseteq run[r].new /\ completed_at_start(r) \subseteq q.done /\ run[r].pc # "ended"
  BY <1>6, <1>7, <1>9
<1> QED
  BY <1>7, <1>11, <1>12, <1>13, OpeningStep

LEMMA BeginStep ==
  ASSUME IInv, NEW r \in Runs, BeginSource(r) \/ BeginFiles(r) \/ BeginPush(r)
  PROVE  IInv'
<1>1. CASE BeginSource(r)
  <2> DEFINE m == [Fresh EXCEPT !.todo = StreamsOf[r], !.done = completed_at_start(r)]
  <2>1. /\ Started(r, m) /\ ~ResumeRefused(r) /\ (Prior[r] # NoRun => job[Prior[r]].status # "none")
    BY <1>1 DEF BeginSource
  <2>2. m = Starting(StreamsOf[r], completed_at_start(r), NoRun)
    <3>1. ASSUME NEW x, x = m PROVE x = Starting(StreamsOf[r], completed_at_start(r), NoRun)
      BY <3>1 DEF Fresh, Starting
    <3> QED
      BY <3>1, Zenon
  <2> QED
    BY <2>1, <2>2, StartStep
<1>2. CASE BeginFiles(r) \/ BeginPush(r)
  <2> DEFINE m == [Fresh EXCEPT !.todo = StreamsOf[r]]
  <2>1. Started(r, m) /\ Prior[r] = NoRun
    BY <1>2, IngestConstants DEF BeginFiles, BeginPush
  <2>2. completed_at_start(r) = {} /\ ~ResumeRefused(r)
    BY <2>1 DEF completed_at_start, ResumeRefused
  <2>3. m = Starting(StreamsOf[r], completed_at_start(r), NoRun)
    <3>1. ASSUME NEW x, x = m PROVE x = Starting(StreamsOf[r], completed_at_start(r), NoRun)
      BY <2>2, <3>1 DEF Fresh, Starting
    <3> QED
      BY <3>1, Zenon
  <2> QED
    BY <2>1, <2>2, <2>3, StartStep
<1> QED
  BY <1>1, <1>2

LEMMA RefuseStep ==
  ASSUME IInv, NEW r \in Runs,
         RefuseBegin(r) \/ RefusePush(r) \/ DeadlockVictim(r) \/ Abort(r)
  PROVE  IInv'
<1>1. CASE RefuseBegin(r) \/ RefusePush(r)
  BY <1>1, RollbackStep DEF RefuseBegin, RefusePush
<1>2. CASE DeadlockVictim(r) \/ Abort(r)
  <2> DEFINE n == [Fresh EXCEPT !.pc = "idle"]
  <2>1. run[r].pc # "ended"
    BY <1>2 DEF DeadlockVictim, InWaitCycle, Abort, Open
  <2>2. ASSUME NEW x, x = n PROVE x = Fresh
    BY <2>2 DEF Fresh
  <2>3. Set(r, n) /\ UNCHANGED <<rows, job, sources>>
    BY <1>2, <2>2 DEF DeadlockVictim, Abort
  <2> QED
    BY <2>1, <2>3, RollbackStep
<1> QED
  BY <1>1, <1>2

\* The for loop leaves a stream: skipped, read to its end or given up.
LEMMA LeaveStep ==
  ASSUME IInv, NEW r \in Runs, run[r].pc \in {"skip", "read"}, NEW q \in RunState,
         q.todo = Tail(run[r].todo), q.batch = run[r].batch, q.new = run[r].new,
         q.read = run[r].read, q.parsed = run[r].parsed, q.errors = run[r].errors,
         q.deduped = run[r].deduped, q.pos = run[r].pos, run[r].done \subseteq q.done,
         run[r].outage => q.outage,
         \A s \in Streams : s # Current(r) => q.cursors[s] = run[r].cursors[s],
         Set(r, Opening(r, q)), UNCHANGED <<rows, job, sources>>,
         NoneDropped => /\ OwesDone(rows, r, q) /\ OwesCursors(rows, r, q, q.cursors)
                        /\ ~q.outage /\ q.cursors[Current(r)] = 0 =>
                             \A l \in Readable(Current(r)) : Covers(rows, r, q, l)
  PROVE  IInv'
<1> DEFINE p == run[r]
           t == p.todo
<1>1. /\ p \in RunState /\ t \in Seq(Streams) /\ t # <<>> /\ Len(p.batch) < BatchSize
      /\ Counts(p) /\ InHand(r, p) /\ p.pos # 0
  BY DEF IInv, Types, RunTypes, Books, RunState
<1>2. Range(t) = {Head(t)} \cup Range(Tail(t)) /\ Distinct(Tail(t)) /\ Head(t) \notin Range(Tail(t))
  BY <1>1, TailRange DEF InHand
<1> HIDE DEF t
<1>3. \A l \in Range(p.batch) \cup p.new : l[1] \in Range(StreamsOf[r]) /\ l[1] \notin Range(Tail(t))
  BY <1>1, <1>2 DEF InHand, Behind, t
<1>4. Counts(q)
  BY <1>1 DEF Counts
<1>5. Between(r, q)
  BY <1>1, <1>2, <1>3, <1>4 DEF Between, InHand, t
<1>6. Running(r)
  BY DEF Running
<1>7. /\ ~ResumeRefused(r) /\ (Prior[r] # NoRun => job[Prior[r]].status # "none")
      /\ completed_at_start(r) \subseteq q.done
  BY <1>6 DEF IInv, Resumes
<1>8. ASSUME NoneDropped PROVE OwesRead(rows, r, q)
  <2>1. OwesRead(rows, r, p)
    BY <1>6, <1>8 DEF IInv, Owed, Owes, Running
  <2>2. \A l : Covers(rows, r, p, l) => Covers(rows, r, q, l)
    BY DEF Covers
  <2>3. \A s \in Range(StreamsOf[r]) : s \in Streams
    BY IngestConstants DEF Range
  <2> QED
    BY <1>2, <1>8, <2>1, <2>2, <2>3 DEF OwesRead, Current, t
<1> QED
  BY <1>5, <1>7, <1>8, OpeningStep

LEMMA SkipCompletedStep ==
  ASSUME IInv, NEW r \in Runs, SkipCompleted(r)
  PROVE  IInv'
<1> DEFINE p == run[r]
           q == [p EXCEPT !.todo = Tail(@)]
<1>1. p \in RunState /\ p.pc = "skip" /\ p.todo # <<>> /\ Head(p.todo) \in p.done
  BY DEF IInv, Types, RunTypes, SkipCompleted
<1>2. Tail(p.todo) \in Seq(Streams)
  BY <1>1, TailRange DEF RunState
<1>3. /\ q \in RunState /\ q.todo = Tail(p.todo) /\ q.batch = p.batch /\ q.new = p.new
      /\ q.read = p.read /\ q.parsed = p.parsed /\ q.errors = p.errors /\ q.deduped = p.deduped
      /\ q.pos = p.pos
      /\ q.cursors = p.cursors /\ q.done = p.done /\ q.outage = p.outage
  BY <1>1, <1>2 DEF RunState
<1>4. Set(r, Opening(r, q)) /\ UNCHANGED <<rows, job, sources>>
  BY DEF SkipCompleted
<1> HIDE DEF q
<1>5. ASSUME NoneDropped
      PROVE  /\ OwesDone(rows, r, q) /\ OwesCursors(rows, r, q, q.cursors)
             /\ \A l \in Readable(Current(r)) : Covers(rows, r, q, l)
  <2>1. OwesDone(rows, r, p) /\ OwesCursors(rows, r, p, p.cursors)
    BY <1>1, <1>5 DEF IInv, Owed, Owes
  <2>2. \A l : Covers(rows, r, p, l) => Covers(rows, r, q, l)
    BY <1>3 DEF Covers
  <2> QED
    BY <1>1, <1>3, <2>1, <2>2 DEF OwesDone, OwesCursors, Current
<1> QED
  BY <1>1, <1>3, <1>4, <1>5, LeaveStep

LEMMA StreamEndsStep ==
  ASSUME IInv, NEW r \in Runs, StreamEnds(r)
  PROVE  IInv'
<1> DEFINE p == run[r]
           s == Current(r)
           d == IF r \in Sourced THEN p.done \cup {s} ELSE p.done
           q == [p EXCEPT !.todo = Tail(@), !.cursors[s] = 0, !.done = d]
<1>1. p \in RunState /\ p.pc = "read" /\ p.todo # <<>> /\ p.pos > Len(Content[s])
  BY DEF IInv, Types, RunTypes, StreamEnds, AtEnd
<1>2. Tail(p.todo) \in Seq(Streams) /\ s \in Streams
  BY <1>1, TailRange DEF RunState, Current
<1>3. /\ Set(r, Opening(r, q)) /\ UNCHANGED <<rows, job, sources>> /\ d \in SUBSET Streams
      /\ p.done \subseteq d /\ d \subseteq p.done \cup {s}
  BY <1>1, <1>2 DEF StreamEnds, RunState
<1> HIDE DEF d, s
<1>4. /\ q \in RunState /\ q.todo = Tail(p.todo) /\ q.batch = p.batch /\ q.new = p.new
      /\ q.read = p.read /\ q.parsed = p.parsed /\ q.errors = p.errors /\ q.deduped = p.deduped
      /\ q.pos = p.pos
      /\ q.cursors = [p.cursors EXCEPT ![s] = 0] /\ q.done = d /\ q.outage = p.outage
  BY <1>1, <1>2, <1>3 DEF RunState
<1> HIDE DEF q
<1>5. ASSUME NoneDropped
      PROVE  /\ OwesDone(rows, r, q) /\ OwesCursors(rows, r, q, q.cursors)
             /\ \A l \in Readable(Current(r)) : Covers(rows, r, q, l)
  <2>1. OwesDone(rows, r, p) /\ OwesCursors(rows, r, p, p.cursors) /\ OwesBehind(rows, r, p)
    BY <1>1, <1>5 DEF IInv, Owed, Owes
  <2>2. \A l : Covers(rows, r, p, l) => Covers(rows, r, q, l)
    BY <1>4 DEF Covers
  <2>3. ASSUME NEW l \in Readable(s) PROVE Covers(rows, r, q, l)
    <3>1. l[2] \in Nat /\ l[2] <= Len(Content[s]) /\ Len(Content[s]) \in Nat /\ p.pos \in Nat
      <4>1. l \in Lines /\ l[1] = s
        BY DEF Readable
      <4>2. l[2] \in 1 .. Len(Content[s])
        BY <4>1, LinesDef
      <4>3. Content[s] \in Seq([class : Classes, key : Keys])
        BY <1>2, IngestConstants
      <4>4. Len(Content[s]) \in Nat
        BY <4>3
      <4>5. p.pos \in Nat
        BY <1>1 DEF RunState
      <4> QED
        BY <4>2, <4>4, <4>5
    <3>2. l[2] < p.pos
      BY <1>1, <3>1
    <3> QED
      BY <1>1, <2>1, <2>2, <3>2 DEF OwesBehind, Current, s
  <2>4. OwesDone(rows, r, q)
    BY <1>3, <1>4, <2>1, <2>2, <2>3 DEF OwesDone
  <2>5. OwesCursors(rows, r, q, q.cursors)
    <3>1. \A x \in Streams : x # s => q.cursors[x] = p.cursors[x]
      BY <1>1, <1>4 DEF RunState
    <3> QED
      BY <2>1, <2>2, <2>3, <3>1 DEF OwesCursors
  <2> QED
    BY <2>3, <2>4, <2>5 DEF s
<1>6. \A x \in Streams : x # Current(r) => q.cursors[x] = p.cursors[x]
  BY <1>1, <1>4 DEF RunState, s
<1>7. NoneDropped => /\ OwesDone(rows, r, q) /\ OwesCursors(rows, r, q, q.cursors)
                     /\ ~q.outage /\ q.cursors[Current(r)] = 0 =>
                          \A l \in Readable(Current(r)) : Covers(rows, r, q, l)
  BY <1>5
<1>8. p.pc \in {"skip", "read"} /\ p.done \subseteq q.done /\ (p.outage => q.outage)
  BY <1>1, <1>3, <1>4
<1> QED
  BY <1>3, <1>4, <1>6, <1>7, <1>8, LeaveStep

\* What a run has of a stream, up to the position it keeps as the cursor.
LEMMA StopsShortStep ==
  ASSUME IInv, NEW r \in Runs, StopsShort(r)
  PROVE  IInv'
<1> DEFINE p == run[r]
           s == Current(r)
           q == [p EXCEPT !.todo = Tail(@), !.cursors[s] = p.pos]
<1>1. /\ p \in RunState /\ p.pc = "read" /\ p.todo # <<>> /\ p.pos \in Nat /\ p.pos # 0
      /\ Set(r, Opening(r, q)) /\ UNCHANGED <<rows, job, sources>>
  BY DEF IInv, Types, RunTypes, RunState, StopsShort
<1>2. Tail(p.todo) \in Seq(Streams) /\ s \in Streams
  BY <1>1, TailRange DEF RunState, Current
<1> HIDE DEF s
<1>3. /\ q \in RunState /\ q.todo = Tail(p.todo) /\ q.batch = p.batch /\ q.new = p.new
      /\ q.read = p.read /\ q.parsed = p.parsed /\ q.errors = p.errors /\ q.deduped = p.deduped
      /\ q.pos = p.pos
      /\ q.cursors = [p.cursors EXCEPT ![s] = p.pos] /\ q.done = p.done /\ q.outage = p.outage
  BY <1>1, <1>2 DEF RunState
<1>4. q.cursors[s] = p.pos /\ \A x \in Streams : x # s => q.cursors[x] = p.cursors[x]
  BY <1>1, <1>2, <1>3 DEF RunState
<1> HIDE DEF q
<1>5. ASSUME NoneDropped
      PROVE  OwesDone(rows, r, q) /\ OwesCursors(rows, r, q, q.cursors)
  <2>1. OwesDone(rows, r, p) /\ OwesCursors(rows, r, p, p.cursors) /\ OwesBehind(rows, r, p)
    BY <1>1, <1>5 DEF IInv, Owed, Owes
  <2>2. \A l : Covers(rows, r, p, l) => Covers(rows, r, q, l)
    BY <1>3 DEF Covers
  <2>3. \A l \in Readable(s) : l[2] < p.pos => Covers(rows, r, q, l)
    BY <1>1, <2>1, <2>2 DEF OwesBehind, Current, s
  <2> QED
    BY <1>3, <1>4, <2>1, <2>2, <2>3 DEF OwesDone, OwesCursors
<1>6. q.cursors[Current(r)] # 0 /\ \A x \in Streams : x # Current(r) => q.cursors[x] = p.cursors[x]
  BY <1>1, <1>4 DEF s
<1>7. NoneDropped => /\ OwesDone(rows, r, q) /\ OwesCursors(rows, r, q, q.cursors)
                     /\ ~q.outage /\ q.cursors[Current(r)] = 0 =>
                          \A l \in Readable(Current(r)) : Covers(rows, r, q, l)
  BY <1>5, <1>6
<1>8. p.pc \in {"skip", "read"} /\ p.done \subseteq q.done /\ (p.outage => q.outage)
  BY <1>1, <1>3
<1> QED
  BY <1>1, <1>3, <1>6, <1>7, <1>8, LeaveStep

LEMMA PageCursorFacts ==
  ASSUME IInv, NEW r \in Runs, AtPageStart(r)
  PROVE  /\ run[r].pc = "read" /\ run[r].todo # <<>> /\ Current(r) \in Streams
         /\ PageCursor(r) \in Nat /\ PageCursor(r) <= run[r].pos
<1>1. run[r] \in RunState /\ run[r].pc = "read" /\ run[r].todo # <<>>
  BY DEF IInv, Types, RunTypes, AtPageStart
<1>2. Current(r) \in Streams
  BY <1>1, TailRange DEF RunState, Current
<1>3. run[r].pos \in Nat
  BY <1>1 DEF RunState
<1> QED
  BY <1>1, <1>2, <1>3 DEF PageCursor

\* The cursor kept for a stream that raised: what it has behind it is owed.
LEMMA KeptCursor ==
  ASSUME IInv, NEW r \in Runs, AtPageStart(r), NoneDropped
  PROVE  OwesCursors(rows, r, run[r], [run[r].cursors EXCEPT ![Current(r)] = PageCursor(r)])
<1> DEFINE p == run[r]
           s == Current(r)
           k == PageCursor(r)
           c == [p.cursors EXCEPT ![s] = k]
<1>1. p \in RunState /\ p.pc = "read" /\ p.todo # <<>> /\ s \in Streams /\ k \in Nat /\ k <= p.pos
  BY PageCursorFacts DEF IInv, Types
<1>2. OwesCursors(rows, r, p, p.cursors) /\ OwesBehind(rows, r, p)
  BY <1>1 DEF IInv, Owed, Owes
<1>3. c[s] = k /\ \A x \in Streams : x # s => c[x] = p.cursors[x]
  BY <1>1 DEF RunState
<1>4. ASSUME NEW l \in Readable(s), l[2] < k PROVE Covers(rows, r, p, l)
  <2>1. l[2] \in Nat /\ p.pos \in Nat
    BY <1>1, LinesDef DEF Readable, RunState
  <2>2. l[2] < p.pos
    BY <1>1, <1>4, <2>1
  <2> QED
    BY <1>1, <1>2, <2>2 DEF OwesBehind, Current
<1> HIDE DEF c, s, k
<1>5. OwesCursors(rows, r, p, c)
  BY <1>2, <1>3, <1>4 DEF OwesCursors
<1> QED
  BY <1>5 DEF c, s, k

LEMMA StreamFailsStep ==
  ASSUME IInv, NEW r \in Runs, StreamFails(r)
  PROVE  IInv'
<1> DEFINE p == run[r]
           s == Current(r)
           k == PageCursor(r)
           q == [p EXCEPT !.todo = Tail(@), !.outage = TRUE, !.cursors[s] = k]
<1>1. AtPageStart(r) /\ Set(r, Opening(r, q)) /\ UNCHANGED <<rows, job, sources>>
  BY DEF StreamFails
<1>2. p \in RunState /\ p.pc = "read" /\ p.todo # <<>> /\ s \in Streams /\ k \in Nat
  BY <1>1, PageCursorFacts DEF IInv, Types
<1>3. Tail(p.todo) \in Seq(Streams)
  BY <1>2, TailRange DEF RunState
<1> HIDE DEF s, k
<1>4. /\ q \in RunState /\ q.todo = Tail(p.todo) /\ q.batch = p.batch /\ q.new = p.new
      /\ q.read = p.read /\ q.parsed = p.parsed /\ q.errors = p.errors /\ q.deduped = p.deduped
      /\ q.pos = p.pos
      /\ q.cursors = [p.cursors EXCEPT ![s] = k] /\ q.done = p.done /\ q.outage = TRUE
  BY <1>2, <1>3 DEF RunState
<1> HIDE DEF q
<1>5. ASSUME NoneDropped
      PROVE  OwesDone(rows, r, q) /\ OwesCursors(rows, r, q, q.cursors)
  <2>1. OwesDone(rows, r, p)
    BY <1>2, <1>5 DEF IInv, Owed, Owes
  <2>2. \A l : Covers(rows, r, p, l) => Covers(rows, r, q, l)
    BY <1>4 DEF Covers
  <2>3. OwesCursors(rows, r, p, q.cursors)
    BY <1>1, <1>4, <1>5, KeptCursor DEF s, k
  <2> QED
    BY <1>4, <2>1, <2>2, <2>3 DEF OwesDone, OwesCursors
<1>6. \A x \in Streams : x # Current(r) => q.cursors[x] = p.cursors[x]
  BY <1>2, <1>4 DEF RunState, s
<1> QED
  BY <1>1, <1>2, <1>4, <1>5, <1>6, LeaveStep

LEMMA RunFields ==
  ASSUME NEW q \in RunState
  PROVE  /\ q.todo \in Seq(Streams) /\ q.pos \in Nat /\ q.batch \in Seq(Lines) /\ q.new \subseteq Lines
         /\ q.read \in Nat /\ q.parsed \in Nat /\ q.errors \in Nat /\ q.deduped \in Nat
         /\ Len(q.batch) \in Nat
  BY DEF RunState

LEMMA ProcessLineStep ==
  ASSUME IInv, NEW r \in Runs, ProcessLine(r)
  PROVE  IInv'
<1> DEFINE p == run[r]
           s == Current(r)
           l == <<s, p.pos>>
           i == p.pos + 1
           j == p.read + 1
           a == p.parsed + 1
           e == IF LineOf(l).class = "bad" THEN p.errors + 1 ELSE p.errors
           f == IF Len(p.batch) + 1 >= BatchSize THEN "flush" ELSE p.pc
           b == Append(p.batch, l)
           n == IF LineOf(l).class \in {"blank", "bad"}
                THEN [p EXCEPT !.pos = i, !.read = j, !.errors = e]
                ELSE [p EXCEPT !.pos = i, !.read = j, !.parsed = a, !.batch = b, !.pc = f]
<1>1. /\ p \in RunState /\ p.pc = "read" /\ p.todo # <<>> /\ p.pos <= Len(Content[s]) /\ p.pos # 0
      /\ Len(p.batch) < BatchSize /\ Counts(p) /\ InHand(r, p) /\ s \in Range(StreamsOf[r])
  <2>1. p \in RunState /\ p.pc = "read" /\ p.todo # <<>> /\ p.pos # 0 /\ Len(p.batch) < BatchSize
        /\ Counts(p) /\ InHand(r, p)
    BY DEF IInv, Types, RunTypes, ProcessLine, Books
  <2>2. s \in Range(p.todo) /\ s \in Streams
    BY <2>1, TailRange DEF RunState, Current
  <2>3. p.pos <= Len(Content[s])
    BY <2>1, <2>2, IngestConstants, SMTT(30) DEF ProcessLine, AtEnd, RunState
  <2> QED
    BY <2>1, <2>2, <2>3 DEF InHand
<1>2. /\ p.todo \in Seq(Streams) /\ p.pos \in Nat /\ p.batch \in Seq(Lines) /\ p.new \subseteq Lines
      /\ p.read \in Nat /\ p.parsed \in Nat /\ p.errors \in Nat /\ p.deduped \in Nat
      /\ Len(p.batch) \in Nat /\ BatchSize \in Nat \ {0}
  BY <1>1, RunFields, IngestConstants
<1>3. s \in Streams /\ l \in Lines /\ l[1] = s /\ l[2] = p.pos
  <2>1. s \in Streams
    BY <1>1, <1>2, TailRange DEF Current
  <2>2. p.pos \in 1 .. Len(Content[s])
    BY <1>1, <1>2, <2>1, IngestConstants
  <2> QED
    BY <2>1, <2>2, LinesDef
<1>4. ASSUME NEW k \in Range(p.batch) \cup p.new PROVE k # l
  <2>1. s \in Range(p.todo)
    BY <1>1, <1>2, TailRange DEF Current
  <2>2. k[1] = s => k[2] < p.pos
    BY <1>1, <2>1 DEF InHand, Behind
  <2> QED
    BY <1>2, <1>3, <2>2
<1>5. Set(r, n) /\ UNCHANGED <<rows, job, sources>>
  BY DEF ProcessLine
<1>6. ASSUME NEW m \in Readable(s), m[2] < p.pos + 1, m # l PROVE m[2] < p.pos
  <2>1. m = <<m[1], m[2]>> /\ m[1] = s /\ m[2] \in Nat
    BY LinesDef DEF Readable
  <2> QED
    BY <1>2, <1>6, <2>1
<1>7. s = Head(p.todo)
  BY DEF Current
<1>8. /\ b \in Seq(Lines) /\ Len(b) = Len(p.batch) + 1 /\ Range(b) = Range(p.batch) \cup {l} /\ Distinct(b)
  <2>1. Distinct(p.batch) /\ l \notin Range(p.batch)
    BY <1>1, <1>4 DEF InHand
  <2> HIDE DEF l, p
  <2> QED
    BY <1>2, <1>3, <2>1, AppendRange
<1>9. Running(r)
  BY <1>1 DEF Running
<1>10. /\ ~ResumeRefused(r) /\ (Prior[r] # NoRun => job[Prior[r]].status # "none")
       /\ completed_at_start(r) \subseteq p.done
  BY <1>9 DEF IInv, Resumes
<1> HIDE DEF s
<1>11. CASE LineOf(l).class \in {"blank", "bad"}
  <2>1. e \in {p.errors, p.errors + 1}
    OBVIOUS
  <2>2. n = [p EXCEPT !.pos = i, !.read = j, !.errors = e]
    BY <1>11
  <2> HIDE DEF n, e, b, l
  <2>3. /\ n \in RunState /\ n.pc = "read" /\ n.todo = p.todo /\ n.pos = p.pos + 1 /\ n.batch = p.batch
        /\ n.new = p.new /\ n.read = p.read + 1 /\ n.parsed = p.parsed /\ n.errors = e
        /\ n.deduped = p.deduped /\ n.cursors = p.cursors /\ n.done = p.done /\ n.outage = p.outage
    <3>1. i \in Nat /\ j \in Nat /\ e \in Nat
      BY <1>2, <2>1, SMTT(30)
    <3> HIDE DEF i, j
    <3>2. /\ n \in RunState /\ n.pc = "read" /\ n.todo = p.todo /\ n.pos = i /\ n.batch = p.batch
          /\ n.new = p.new /\ n.read = j /\ n.parsed = p.parsed /\ n.errors = e
          /\ n.deduped = p.deduped /\ n.cursors = p.cursors /\ n.done = p.done /\ n.outage = p.outage
      BY <1>1, <2>2, <3>1 DEF RunState
    <3> QED
      BY <3>2 DEF i, j
  <2>4. RunTypes(n)
    BY <1>1, <1>2, <2>3 DEF RunTypes
  <2>5. Counts(n)
    BY <1>1, <1>2, <2>1, <2>3, SMTT(30) DEF Counts
  <2>6. InHand(r, n)
    <3>1. \A k \in Range(p.batch) \cup p.new : Behind(p, k) => Behind(n, k)
      <4>1. \A k \in Range(p.batch) \cup p.new : k \in Lines
        BY <1>2 DEF Range
      <4> QED
        BY <1>2, <2>3, <4>1, LinesDef DEF Behind
    <3> QED
      BY <1>1, <2>3, <3>1 DEF InHand
  <2>7. ASSUME NoneDropped PROVE Owes(rows, r, n)
    <3>1. OwesDone(rows, r, p) /\ OwesCursors(rows, r, p, p.cursors) /\ OwesRead(rows, r, p) /\ OwesBehind(rows, r, p)
      BY <1>1, <2>7 DEF IInv, Owed, Owes
    <3>2. \A k : Covers(rows, r, p, k) => Covers(rows, r, n, k)
      BY <2>3 DEF Covers
    <3>3. OwesDone(rows, r, n) /\ OwesCursors(rows, r, n, n.cursors) /\ OwesRead(rows, r, n)
      BY <2>3, <3>1, <3>2 DEF OwesDone, OwesCursors, OwesRead
    <3>4. l \notin Readable(s)
      BY <1>11 DEF Readable
    <3>5. OwesBehind(rows, r, n)
      BY <1>1, <1>6, <1>7, <2>3, <3>1, <3>2, <3>4 DEF OwesBehind
    <3> QED
      BY <3>3, <3>5 DEF Owes
  <2> QED
    BY <1>1, <1>5, <1>10, <2>3, <2>4, <2>5, <2>6, <2>7, LocalStep
<1>12. CASE LineOf(l).class \notin {"blank", "bad"}
  <2>1. n = [p EXCEPT !.pos = i, !.read = j, !.parsed = a, !.batch = b, !.pc = f]
    BY <1>12
  <2>2. \/ f = "flush"
        \/ f = "read" /\ Len(b) < BatchSize
    BY <1>1, <1>2, <1>8
  <2> HIDE DEF n, f, b, l
  <2>3. /\ n \in RunState /\ n.pc = f /\ n.todo = p.todo /\ n.pos = p.pos + 1 /\ n.batch = b
        /\ n.new = p.new /\ n.read = p.read + 1 /\ n.parsed = p.parsed + 1 /\ n.errors = p.errors
        /\ n.deduped = p.deduped /\ n.cursors = p.cursors /\ n.done = p.done /\ n.outage = p.outage
    <3>1. i \in Nat /\ j \in Nat /\ a \in Nat /\ f \in {"read", "flush"}
      BY <1>2, <2>2, SMTT(30)
    <3> HIDE DEF i, j, a
    <3>2. /\ n \in RunState /\ n.pc = f /\ n.todo = p.todo /\ n.pos = i /\ n.batch = b
          /\ n.new = p.new /\ n.read = j /\ n.parsed = a /\ n.errors = p.errors
          /\ n.deduped = p.deduped /\ n.cursors = p.cursors /\ n.done = p.done /\ n.outage = p.outage
      BY <1>1, <1>8, <2>1, <3>1 DEF RunState
    <3> QED
      BY <3>2 DEF i, j, a
  <2>4. RunTypes(n)
    <3>1. Len(b) <= BatchSize /\ b # <<>>
      BY <1>1, <1>2, <1>8
    <3> QED
      BY <1>1, <1>2, <2>2, <2>3, <3>1 DEF RunTypes
  <2>5. Counts(n)
    <3>1. Cardinality(p.new) \in Nat
      BY <1>1, FS_CardinalityType DEF Counts
    <3>2. /\ n.parsed = p.parsed + 1 /\ n.new = p.new /\ n.deduped = p.deduped /\ Len(n.batch) = Len(p.batch) + 1
          /\ n.read = p.read + 1 /\ n.errors = p.errors
      BY <1>8, <2>3
    <3>3. IsFiniteSet(p.new) /\ p.parsed = Cardinality(p.new) + p.deduped + Len(p.batch)
          /\ p.parsed + p.errors <= p.read
      BY <1>1 DEF Counts
    <3>4. n.parsed = Cardinality(n.new) + n.deduped + Len(n.batch)
      <4>1. \A c, d, k \in Nat : (c + d + k) + 1 = c + d + (k + 1)
        OBVIOUS
      <4>2. (Cardinality(p.new) + p.deduped + Len(p.batch)) + 1 = Cardinality(p.new) + p.deduped + (Len(p.batch) + 1)
        BY <1>2, <3>1, <4>1, SMTT(30)
      <4> QED
        BY <3>2, <3>3, <4>2, Zenon
    <3>5. n.parsed + n.errors <= n.read
      BY <1>2, <3>2, <3>3
    <3> QED
      BY <3>2, <3>3, <3>4, <3>5 DEF Counts
  <2>6. InHand(r, n)
    <3>1. ASSUME NEW k \in Range(b) \cup p.new
          PROVE  k[1] \in Range(StreamsOf[r]) /\ (k[1] \in Range(p.todo) => Behind(n, k))
      <4>1. CASE k = l
        BY <1>1, <1>2, <1>3, <1>7, <2>2, <2>3, <4>1 DEF Behind
      <4>2. CASE k \in Range(p.batch) \cup p.new
        <5>1. k \in Lines
          BY <1>2, <4>2 DEF Range
        <5>2. k[2] \in Nat
          BY <5>1, LinesDef
        <5> QED
          BY <1>1, <1>2, <2>2, <2>3, <4>2, <5>2 DEF InHand, Behind
      <4> QED
        BY <1>8, <3>1, <4>1, <4>2
    <3>2. Range(b) \cap p.new = {}
      BY <1>1, <1>4, <1>8 DEF InHand
    <3> QED
      BY <1>1, <1>8, <2>3, <3>1, <3>2 DEF InHand
  <2>7. ASSUME NoneDropped PROVE Owes(rows, r, n)
    <3>1. OwesDone(rows, r, p) /\ OwesCursors(rows, r, p, p.cursors) /\ OwesRead(rows, r, p) /\ OwesBehind(rows, r, p)
      BY <1>1, <2>7 DEF IInv, Owed, Owes
    <3>2. \A k : Covers(rows, r, p, k) => Covers(rows, r, n, k)
      BY <1>8, <2>3 DEF Covers
    <3>3. OwesDone(rows, r, n) /\ OwesCursors(rows, r, n, n.cursors) /\ OwesRead(rows, r, n)
      BY <2>3, <3>1, <3>2 DEF OwesDone, OwesCursors, OwesRead
    <3>4. Covers(rows, r, n, l)
      BY <1>8, <2>3 DEF Covers
    <3>5. OwesBehind(rows, r, n)
      BY <1>1, <1>6, <1>7, <2>3, <3>1, <3>2, <3>4 DEF OwesBehind
    <3> QED
      BY <3>3, <3>5 DEF Owes
  <2> QED
    BY <1>1, <1>5, <1>10, <2>2, <2>3, <2>4, <2>5, <2>6, <2>7, LocalStep
<1> QED
  BY <1>11, <1>12

\* The row of the batch that is flushed: inserted, or met as a duplicate.
LEMMA FlushRowStep ==
  ASSUME IInv, NEW r \in Runs, FlushRow(r)
  PROVE  IInv'
<1> DEFINE p == run[r]
           l == Head(p.batch)
           b == Tail(p.batch)
           d == IF conflict(r, l) THEN p.deduped + 1 ELSE p.deduped
           w == IF conflict(r, l) THEN p.new ELSE p.new \cup {l}
           f == IF Len(p.batch) # 1 THEN p.pc ELSE IF p.todo = <<>> THEN "close" ELSE "read"
           n == [p EXCEPT !.deduped = d, !.new = w, !.batch = b, !.pc = f]
<1>1. /\ p \in RunState /\ p.pc = "flush" /\ p.batch # <<>> /\ p.pos # 0 /\ Len(p.batch) <= BatchSize
      /\ Counts(p) /\ InHand(r, p) /\ WaitsFor(r) = {}
  BY DEF IInv, Types, RunTypes, FlushRow, Books
<1>2. /\ p.todo \in Seq(Streams) /\ p.batch \in Seq(Lines) /\ p.new \subseteq Lines
      /\ p.parsed \in Nat /\ p.deduped \in Nat /\ Len(p.batch) \in Nat /\ BatchSize \in Nat
  BY <1>1, RunFields, IngestConstants
<1>3. Set(r, n) /\ UNCHANGED <<rows, job, sources>>
  BY DEF FlushRow
<1>4. /\ l \in Lines /\ b \in Seq(Lines) /\ Len(b) = Len(p.batch) - 1 /\ Range(p.batch) = {l} \cup Range(b)
      /\ Distinct(b) /\ l \notin Range(b)
  BY <1>1, <1>2, TailRange DEF InHand
<1>5. /\ \/ f = "flush" /\ Len(b) # 0
         \/ f = "close" /\ p.todo = <<>>
         \/ f = "read" /\ p.todo # <<>>
      /\ Len(b) < BatchSize /\ Len(b) \in Nat
  BY <1>1, <1>2, <1>4
<1>6. \/ conflict(r, l) /\ d = p.deduped + 1 /\ w = p.new
      \/ ~conflict(r, l) /\ d = p.deduped /\ w = p.new \cup {l}
  OBVIOUS
<1>7. d \in Nat /\ w \in SUBSET Lines /\ f \in {"flush", "close", "read"}
  BY <1>2, <1>4, <1>5, <1>6
<1>8. Running(r)
  BY <1>1 DEF Running
<1>9. /\ ~ResumeRefused(r) /\ (Prior[r] # NoRun => job[Prior[r]].status # "none")
      /\ completed_at_start(r) \subseteq p.done
  BY <1>8 DEF IInv, Resumes
<1>10. ~conflict(r, l) => Free(r, l)
  <2> SUFFICES ASSUME ~conflict(r, l) PROVE Free(r, l)
    OBVIOUS
  <2>1. \A x \in rows : ~SameEntry(ScopeOf[x.run], x.line, ScopeOf[r], l)
    BY DEF conflict
  <2>2. ASSUME NEW q \in Runs, NEW m \in run[q].new PROVE ~SameEntry(ScopeOf[q], m, ScopeOf[r], l)
    <3>1. CASE q = r
      BY <2>2, <3>1 DEF conflict
    <3>2. CASE q # r
      <4>1. q \in Open
        BY <2>2 DEF IInv, Rested, Running, Open
      <4> QED
        BY <1>1, <2>2, <3>2, <4>1 DEF WaitsFor
    <3> QED
      BY <3>1, <3>2
  <2> QED
    BY <2>1, <2>2 DEF Free
<1> HIDE DEF d, w, f, b, l
<1>11. /\ n \in RunState /\ n.pc = f /\ n.todo = p.todo /\ n.pos = p.pos /\ n.batch = b
       /\ n.new = w /\ n.read = p.read /\ n.parsed = p.parsed /\ n.errors = p.errors
       /\ n.deduped = d /\ n.cursors = p.cursors /\ n.done = p.done /\ n.outage = p.outage
  BY <1>1, <1>4, <1>7 DEF RunState
<1> HIDE DEF n
<1>12. RunTypes(n)
  <2>1. Len(n.batch) <= BatchSize /\ Len(n.batch) < BatchSize
    BY <1>2, <1>5, <1>11
  <2>2. n.pc = "flush" => n.batch # <<>>
    BY <1>5, <1>11
  <2> QED
    BY <1>1, <1>5, <1>11, <2>1, <2>2 DEF RunTypes
<1>13. Counts(n)
  <2>1. IsFiniteSet(p.new) /\ Cardinality(p.new) \in Nat
    BY <1>1, FS_CardinalityType DEF Counts
  <2>2. l \notin p.new
    BY <1>1, <1>4 DEF InHand
  <2>3. /\ IsFiniteSet(w)
        /\ \/ Cardinality(w) = Cardinality(p.new) /\ d = p.deduped + 1
           \/ Cardinality(w) = Cardinality(p.new) + 1 /\ d = p.deduped
    <3>1. IsFiniteSet(p.new \cup {l}) /\ Cardinality(p.new \cup {l}) = Cardinality(p.new) + 1
      BY <2>1, <2>2, FS_AddElement
    <3> QED
      BY <1>6, <2>1, <3>1, Zenon
  <2>4. p.parsed = Cardinality(p.new) + p.deduped + Len(p.batch) /\ p.parsed + p.errors <= p.read
    BY <1>1 DEF Counts
  <2>5. Cardinality(w) \in Nat
    BY <2>3, FS_CardinalityType
  <2>6. p.parsed = Cardinality(w) + d + Len(b)
    <3> DEFINE x == Cardinality(p.new)
               y == Cardinality(w)
               i == Len(p.batch)
               j == Len(b)
               g == p.deduped
    <3>1. x \in Nat /\ y \in Nat /\ i \in Nat /\ j = i - 1 /\ g \in Nat /\ p.parsed = x + g + i
      BY <1>2, <1>4, <2>1, <2>4, <2>5, Zenon
    <3>2. (y = x /\ d = g + 1) \/ (y = x + 1 /\ d = g)
      BY <2>3, Zenon
    <3> HIDE DEF x, y, i, j, g
    <3>3. p.parsed = y + d + j
      BY <3>1, <3>2
    <3> QED
      BY <3>3 DEF y, j
  <2> QED
    BY <1>11, <2>3, <2>4, <2>6 DEF Counts
<1>14. InHand(r, n)
  <2>1. \A k \in Range(b) \cup w : k \in Range(p.batch) \cup p.new
    BY <1>4, <1>6
  <2>2. Range(b) \cap w = {}
    BY <1>1, <1>4, <1>6 DEF InHand
  <2>3. ASSUME NEW k, Behind(p, k), k[1] \in Range(p.todo) PROVE Behind(n, k)
    BY <1>1, <1>5, <1>11, <2>3, EmptyRange DEF Behind
  <2> QED
    BY <1>1, <1>4, <1>11, <2>1, <2>2, <2>3 DEF InHand
<1>15. ASSUME NEW m, Covers(rows, r, p, m) PROVE Covers(rows, r, n, m)
  <2>1. CASE StoredIn(rows, ScopeOf[r], m)
    BY <2>1 DEF Covers
  <2>2. CASE \E k \in Range(b) \cup p.new : k = m \/ SameEntry(ScopeOf[r], k, ScopeOf[r], m)
    BY <1>6, <1>11, <2>2 DEF Covers
  <2>3. CASE l = m \/ SameEntry(ScopeOf[r], l, ScopeOf[r], m)
    <3>1. CASE ~conflict(r, l)
      BY <1>6, <1>11, <2>3, <3>1 DEF Covers
    <3>2. CASE conflict(r, l)
      <4>1. CASE \E x \in rows : SameEntry(ScopeOf[x.run], x.line, ScopeOf[r], l)
        <5>1. PICK x \in rows : SameEntry(ScopeOf[x.run], x.line, ScopeOf[r], l)
          BY <4>1
        <5>2. ScopeOf[x.run] = ScopeOf[r] /\ SameEntry(ScopeOf[r], x.line, ScopeOf[r], m)
          BY <2>3, <5>1, EntryFacts
        <5> QED
          BY <5>2 DEF Covers, StoredIn
      <4>2. CASE \E k \in p.new : SameEntry(ScopeOf[r], k, ScopeOf[r], l)
        <5>1. PICK k \in p.new : SameEntry(ScopeOf[r], k, ScopeOf[r], l)
          BY <4>2
        <5>2. SameEntry(ScopeOf[r], k, ScopeOf[r], m)
          BY <2>3, <5>1, EntryFacts
        <5> QED
          BY <1>6, <1>11, <5>2 DEF Covers
      <4> QED
        BY <3>2, <4>1, <4>2 DEF conflict
    <3> QED
      BY <3>1, <3>2
  <2> QED
    BY <1>4, <1>15, <2>1, <2>2, <2>3 DEF Covers
<1>16. ASSUME NoneDropped PROVE Owes(rows, r, n)
  <2>1. OwesDone(rows, r, p) /\ OwesCursors(rows, r, p, p.cursors) /\ OwesRead(rows, r, p) /\ OwesBehind(rows, r, p)
    BY <1>1, <1>16 DEF IInv, Owed, Owes
  <2> QED
    BY <1>1, <1>5, <1>11, <1>15, <2>1 DEF Owes, OwesDone, OwesCursors, OwesRead, OwesBehind
<1>17. \/ n.new \subseteq p.new
       \/ n.new = p.new \cup {l} /\ Free(r, l)
  BY <1>6, <1>10, <1>11
<1> QED
  BY <1>1, <1>3, <1>5, <1>9, <1>11, <1>12, <1>13, <1>14, <1>16, <1>17, LocalStep

LEMMA FlushRestStep ==
  ASSUME IInv, NEW r \in Runs, FlushRest(r)
  PROVE  IInv'
<1> DEFINE p == run[r]
           n == [p EXCEPT !.pc = "flush"]
<1>1. p \in RunState /\ p.pc = "close" /\ p.batch # <<>> /\ p.todo = <<>> /\ RunTypes(p) /\ Counts(p) /\ InHand(r, p)
  BY DEF IInv, Types, RunTypes, FlushRest, Books
<1>2. Set(r, n) /\ UNCHANGED <<rows, job, sources>>
  BY DEF FlushRest
<1>3. /\ n \in RunState /\ n.pc = "flush" /\ n.todo = p.todo /\ n.pos = p.pos /\ n.batch = p.batch
      /\ n.new = p.new /\ n.read = p.read /\ n.parsed = p.parsed /\ n.errors = p.errors
      /\ n.deduped = p.deduped /\ n.cursors = p.cursors /\ n.done = p.done /\ n.outage = p.outage
  BY <1>1 DEF RunState
<1> HIDE DEF n
<1>4. RunTypes(n)
  BY <1>1, <1>3 DEF RunTypes
<1>5. Counts(n)
  BY <1>1, <1>3 DEF Counts
<1>6. InHand(r, n)
  BY <1>1, <1>3, EmptyRange DEF InHand
<1>7. ASSUME NoneDropped PROVE Owes(rows, r, n)
  <2>1. OwesDone(rows, r, p) /\ OwesCursors(rows, r, p, p.cursors) /\ OwesRead(rows, r, p)
    BY <1>1, <1>7 DEF IInv, Owed, Owes
  <2>2. \A l : Covers(rows, r, p, l) => Covers(rows, r, n, l)
    BY <1>3 DEF Covers
  <2> QED
    BY <1>1, <1>3, <2>1, <2>2 DEF Owes, OwesDone, OwesCursors, OwesRead, OwesBehind
<1>8. /\ ~ResumeRefused(r) /\ (Prior[r] # NoRun => job[Prior[r]].status # "none")
      /\ completed_at_start(r) \subseteq p.done
  BY <1>1 DEF IInv, Resumes, Running
<1> QED
  BY <1>1, <1>2, <1>3, <1>4, <1>5, <1>6, <1>7, <1>8, LocalStep

LEMMA CompleteStep ==
  ASSUME IInv, NEW r \in Runs, Complete(r) \/ CompleteFiles(r) \/ CompletePush(r)
  PROVE  IInv'
<1>1. /\ run[r].pc = "close" /\ run[r].batch = <<>> /\ Ended(r, "completed", run[r].cursors)
  BY DEF Complete, CompleteFiles, CompletePush
<1>2. run[r].todo = <<>> /\ run[r].cursors \in [Streams -> Nat] /\ Running(r)
  BY <1>1 DEF IInv, Types, RunTypes, RunState, Running
<1>3. NoneDropped => OwesCursors(rows, r, run[r], run[r].cursors)
  BY <1>1 DEF IInv, Owed, Owes
<1> QED
  BY <1>1, <1>2, <1>3, CommitStep

LEMMA FailStep ==
  ASSUME IInv, NEW r \in Runs, Running(r), NEW c \in [Streams -> Nat], Fail(r, c),
         NoneDropped => OwesCursors(rows, r, run[r], c)
  PROVE  IInv'
<1>1. CASE r \in ByWorker
  BY <1>1, CommitStep DEF Fail
<1>2. CASE r \notin ByWorker
  BY <1>2, RollbackStep DEF Fail, Running
<1> QED
  BY <1>1, <1>2

LEMMA FailUnreadStep ==
  ASSUME IInv, NEW r \in Runs, FailUnread(r)
  PROVE  IInv'
<1>1. run[r].pc = "close" /\ Fail(r, run[r].cursors) /\ run[r].cursors \in [Streams -> Nat] /\ Running(r)
  BY DEF FailUnread, IInv, Types, RunState, Running
<1>2. NoneDropped => OwesCursors(rows, r, run[r], run[r].cursors)
  BY <1>1 DEF IInv, Owed, Owes
<1> QED
  BY <1>1, <1>2, FailStep

LEMMA ReadRaisesStep ==
  ASSUME IInv, NEW r \in Runs, ReadRaises(r)
  PROVE  IInv'
<1> DEFINE c == [run[r].cursors EXCEPT ![Current(r)] = PageCursor(r)]
<1>1. /\ AtPageStart(r) /\ run[r].pc = "read" /\ Current(r) \in Streams /\ PageCursor(r) \in Nat
      /\ run[r].cursors \in [Streams -> Nat] /\ Running(r)
  BY PageCursorFacts DEF ReadRaises, IInv, Types, RunState, Running
<1>2. c \in [Streams -> Nat]
  BY <1>1
<1>3. CASE r \in Sourced
  <2>1. Fail(r, c)
    BY <1>3 DEF ReadRaises
  <2>2. NoneDropped => OwesCursors(rows, r, run[r], c)
    BY <1>1, KeptCursor
  <2> QED
    BY <1>1, <1>2, <2>1, <2>2, FailStep
<1>4. CASE r \notin Sourced
  <2>1. Fail(r, run[r].cursors)
    BY <1>4 DEF ReadRaises
  <2>2. NoneDropped => OwesCursors(rows, r, run[r], run[r].cursors)
    BY <1>1 DEF IInv, Owed, Owes
  <2> QED
    BY <1>1, <2>1, <2>2, FailStep
<1> QED
  BY <1>3, <1>4
-----------------------------------------------------------------------------
(* The invariant.                                                          *)

LEMMA NoJobFacts ==
  /\ NoJob \in JobState /\ NoJob.status = "none" /\ NoJob.done = {} /\ NoJob.parsed = 0
  /\ NoJob.deduped = 0 /\ \A s \in Streams : NoJob.cursors[s] = 0
  BY DEF NoJob, JobState

LEMMA InitIInv == Init => IInv
<1> SUFFICES ASSUME Init PROVE IInv
  OBVIOUS
<1> DEFINE n == [Fresh EXCEPT !.pc = "idle"]
<1>1. Fresh = n
  <2>1. ASSUME NEW x, x = n PROVE x = Fresh
    BY <2>1 DEF Fresh
  <2> QED
    BY <2>1, Zenon
<1>2. \A r \in Runs : /\ Fresh \in RunState /\ RunTypes(Fresh) /\ Counts(Fresh) /\ InHand(r, Fresh)
                      /\ Fresh.pc = "idle" /\ Fresh.new = {} /\ Fresh.batch = <<>>
  <2> TAKE r \in Runs
  <2>1. n \in RunState /\ RunTypes(n) /\ Counts(n) /\ InHand(r, n)
        /\ n.pc = "idle" /\ n.new = {} /\ n.batch = <<>>
    BY FreshFacts
  <2> HIDE DEF n
  <2> QED
    BY <1>1, <2>1
<1> HIDE DEF n
<1>3. /\ \A r \in Runs : run[r] = Fresh /\ job[r] = NoJob
      /\ rows = {} /\ sources = {} /\ run = [r \in Runs |-> Fresh] /\ job = [r \in Runs |-> NoJob]
  BY DEF Init
<1>4. Types
  BY <1>2, <1>3, NoJobFacts, FS_EmptySet DEF Types
<1>5. Books
  BY <1>2, <1>3 DEF Books
<1>6. EndsOnce
  BY <1>3, NoJobFacts DEF EndsOnce, RowsIn
<1>7. OneRowEach
  BY <1>2, <1>3 DEF OneRowEach
<1>8. Resumes /\ Rested
  BY <1>2, <1>3 DEF Resumes, Rested, Running
<1>9. Owed
  <2>1. \A r \in Runs : Owes(rows, r, run[r])
    BY <1>2, <1>3 DEF Owes
  <2>2. ASSUME NEW r \in Runs PROVE Promises(rows, r, job[r])
    <3>1. \A s \in Streams : \A l \in Readable(s) : l[2] \in Nat
      BY LinesDef DEF Readable
    <3> QED
      BY <1>3, <3>1, NoJobFacts DEF Promises
  <2> QED
    BY <2>1, <2>2 DEF Owed
<1>10. Reported
  BY <1>3, NoJobFacts DEF Reported, Reports
<1> QED
  BY <1>4, <1>5, <1>6, <1>7, <1>8, <1>9, <1>10 DEF IInv

LEMMA StutterIInv ==
  ASSUME IInv, UNCHANGED vars
  PROVE  IInv'
<1>1. run' = run /\ rows' = rows /\ job' = job /\ sources' = sources
  BY DEF vars
<1>2. Types' /\ Books' /\ EndsOnce' /\ OneRowEach'
  BY <1>1 DEF IInv, Types, Books, EndsOnce, OneRowEach
<1>3. Resumes' /\ Owed' /\ Rested' /\ Reported'
  BY <1>1 DEF IInv, Resumes, Running, completed_at_start, ResumeRefused, Owed, NoneDropped, Rested, Reported
<1> QED
  BY <1>2, <1>3 DEF IInv

LEMMA NextIInv == IInv /\ [Next]_vars => IInv'
<1> SUFFICES ASSUME IInv, [Next]_vars PROVE IInv'
  OBVIOUS
<1>1. ASSUME NEW r \in Runs, Step(r) PROVE IInv'
  BY <1>1, BeginStep, RefuseStep, ProcessLineStep, SkipCompletedStep, StreamEndsStep, StopsShortStep,
     FlushRowStep,
     FlushRestStep, CompleteStep, FailUnreadStep DEF Step
<1>2. ASSUME NEW r \in Runs, Fault(r) PROVE IInv'
  BY <1>2, StreamFailsStep, ReadRaisesStep, RefuseStep DEF Fault
<1>3. CASE Terminated \/ UNCHANGED vars
  BY <1>3, StutterIInv DEF Terminated
<1> QED
  BY <1>1, <1>2, <1>3 DEF Next

\* The inductive invariant holds in every reachable state.
THEOREM Invariance == Spec => []IInv
<1>1. Init => IInv
  BY InitIInv
<1>2. IInv /\ [Next]_vars => IInv'
  BY NextIInv
<1> QED
  BY <1>1, <1>2, PTL DEF Spec
-----------------------------------------------------------------------------
(* What it gives.                                                          *)

\* Every variable keeps its type, no batch exceeds BATCH_SIZE and the for loop
\* never opens a stream it does not have.
THEOREM TypeCorrect == Spec => []TypeOK
<1>1. IInv => TypeOK
  BY DEF IInv, Types, RunTypes, TypeOK
<1> QED
  BY <1>1, Invariance, PTL

LEMMA SameWords ==
  /\ \A scope, l : Stored(scope, l) <=> StoredIn(rows, scope, l)
  /\ \A r : Dropped(r) <=> DroppedIn(rows, r, job[r])
  BY DEF Stored, StoredIn, Dropped, DroppedIn, RowsOf, RowsIn

\* However runs interleave, fail, crash and resume each other, a stream that a
\* committed job lists as completed has a row for each of its parsed lines, as
\* long as no run failed with parsed lines in its batch.
THEOREM CompletedMeansStored == Spec => []CompletedUnlessDropped
<1>1. IInv => CompletedUnlessDropped
  BY SameWords DEF IInv, Owed, NoneDropped, Promises, CompletedUnlessDropped, CompletedStreamsStored
<1> QED
  BY <1>1, Invariance, PTL

\* A completed job tells the truth: it is marked partial if a line of its streams
\* is missing, and its counts account for every line it read.
THEOREM ReportsAreTrue == Spec => []JobReportIsTrue
<1>1. ASSUME IInv PROVE PartialIsTold
  <2> SUFFICES ASSUME \A r \in Runs : ~Dropped(r), NEW r \in Runs, job[r].status = "completed", ~job[r].partial,
                      NEW i \in DOMAIN StreamsOf[r], job[r].cursors[StreamsOf[r][i]] = 0,
                      NEW l \in Readable(StreamsOf[r][i])
               PROVE  Stored(ScopeOf[r], l)
    BY DEF PartialIsTold
  <2>1. NoneDropped
    BY SameWords DEF NoneDropped
  <2>2. Promises(rows, r, job[r])
    BY <1>1, <2>1 DEF IInv, Owed
  <2>3. StreamsOf[r][i] \in Range(StreamsOf[r])
    BY DEF Range
  <2> QED
    BY <2>2, <2>3, SameWords DEF Promises
<1>2. ASSUME IInv PROVE CountsAddUp
  BY <1>2, SameWords DEF IInv, Reported, Reports, CountsAddUp
<1>3. IInv => JobReportIsTrue
  BY <1>1, <1>2 DEF JobReportIsTrue
<1> QED
  BY <1>3, Invariance, PTL
-----------------------------------------------------------------------------
(* The refinement.                                                         *)

\* The rows of R that have entry e.
HasEntry(R, e) == {row \in R : Timed(row.line) /\ Entry(ScopeOf[row.run], row.line) = e}

\* Every step commits one run or leaves the store alone.
LEMMA OnlyCommitsShow ==
  ASSUME IInv, [Next]_vars
  PROVE  \/ rows' = rows /\ job' = job
         \/ \E r \in Runs : Running(r) /\ \E st \in {"completed", "failed"} : \E c : Ended(r, st, c)
<1>1. ASSUME NEW r \in Runs, Complete(r) \/ CompleteFiles(r) \/ CompletePush(r)
      PROVE  Running(r) /\ Ended(r, "completed", run[r].cursors)
  BY <1>1 DEF Complete, CompleteFiles, CompletePush, Running
<1>2. ASSUME NEW r \in Runs, NEW c, Running(r), Fail(r, c)
      PROVE  (rows' = rows /\ job' = job) \/ Ended(r, "failed", c)
  BY <1>2 DEF Fail
<1>3. ASSUME NEW r \in Runs, FailUnread(r) \/ ReadRaises(r)
      PROVE  Running(r) /\ \E c : Fail(r, c)
  BY <1>3 DEF FailUnread, ReadRaises, AtPageStart, Running
<1>4. ASSUME NEW r \in Runs, Step(r) \/ Fault(r)
      PROVE  \/ rows' = rows /\ job' = job
             \/ Running(r) /\ \E st \in {"completed", "failed"} : \E c : Ended(r, st, c)
  <2>1. CASE Complete(r) \/ CompleteFiles(r) \/ CompletePush(r)
    BY <1>1, <2>1
  <2>2. CASE FailUnread(r) \/ ReadRaises(r)
    BY <1>2, <1>3, <2>2
  <2>3. CASE BeginSource(r) \/ BeginFiles(r) \/ BeginPush(r) \/ RefuseBegin(r) \/ RefusePush(r)
    BY <2>3 DEF BeginSource, BeginFiles, BeginPush, RefuseBegin, RefusePush, Started
  <2>4. CASE ProcessLine(r) \/ SkipCompleted(r) \/ StreamEnds(r) \/ StopsShort(r) \/ FlushRow(r) \/ FlushRest(r)
    BY <2>4 DEF ProcessLine, SkipCompleted, StreamEnds, StopsShort, FlushRow, FlushRest
  <2>5. CASE StreamFails(r) \/ DeadlockVictim(r) \/ Abort(r)
    BY <2>5 DEF StreamFails, DeadlockVictim, Abort
  <2> QED
    BY <1>4, <2>1, <2>2, <2>3, <2>4, <2>5 DEF Step, Fault
<1>5. CASE Terminated \/ UNCHANGED vars
  BY <1>5 DEF Terminated, vars
<1> QED
  BY <1>4, <1>5 DEF Next

\* What the commit of run r does to the rows of an entry.
LEMMA CommitCounts ==
  ASSUME IInv, NEW r \in Runs, Running(r), NEW st \in {"completed", "failed"}, NEW c, Ended(r, st, c),
         NEW e
  PROVE  LET new == {Entry(ScopeOf[r], l) : l \in {k \in run[r].new : Timed(k)}}
         IN  /\ e \in new => /\ e \in OfferedBy(r) /\ HasEntry(rows, e) = {}
                             /\ \E x : HasEntry(rows', e) = {x}
             /\ e \notin new => HasEntry(rows', e) = HasEntry(rows, e)
<1> DEFINE new == {Entry(ScopeOf[r], l) : l \in {k \in run[r].new : Timed(k)}}
<1>1. rows' = rows \cup NewRows(r)
  BY CommitEffect
<1>2. \A x \in NewRows(r) : x.run = r /\ x.line \in run[r].new /\ x = [run |-> r, line |-> x.line]
  BY DEF NewRows
<1>3. ASSUME e \in new
      PROVE  e \in OfferedBy(r) /\ HasEntry(rows, e) = {} /\ \E x : HasEntry(rows', e) = {x}
  <2>1. PICK l \in run[r].new : Timed(l) /\ e = Entry(ScopeOf[r], l)
    BY <1>3
  <2>2. l \in Lines /\ l[1] \in Range(StreamsOf[r])
    BY DEF IInv, Types, RunState, Books, InHand
  <2>3. e \in OfferedBy(r)
    BY <2>1, <2>2 DEF OfferedBy, Range
  <2>4. HasEntry(rows, e) = {}
    BY <2>1 DEF HasEntry, IInv, OneRowEach, SameEntry
  <2> DEFINE x == [run |-> r, line |-> l]
  <2>5. x \in NewRows(r) /\ x.run = r /\ x.line = l
    BY DEF NewRows
  <2>6. ASSUME NEW y \in HasEntry(rows', e) PROVE y = x
    <3>1. y \in NewRows(r) /\ Timed(y.line) /\ Entry(ScopeOf[y.run], y.line) = e
      BY <1>1, <2>4 DEF HasEntry
    <3>2. SameEntry(ScopeOf[r], y.line, ScopeOf[r], l)
      BY <1>2, <2>1, <3>1 DEF SameEntry
    <3>3. y.line = l
      BY <1>2, <3>1, <3>2 DEF IInv, OneRowEach
    <3> QED
      BY <1>2, <3>1, <3>3
  <2>7. x \in HasEntry(rows', e)
    BY <1>1, <2>1, <2>5 DEF HasEntry
  <2>8. HasEntry(rows', e) = {x}
    BY <2>6, <2>7
  <2> QED
    BY <2>3, <2>4, <2>8
<1>4. ASSUME e \notin new PROVE HasEntry(rows', e) = HasEntry(rows, e)
  <2>1. \A x \in NewRows(r) : ~(Timed(x.line) /\ Entry(ScopeOf[x.run], x.line) = e)
    BY <1>2, <1>4
  <2> QED
    BY <1>1, <2>1 DEF HasEntry
<1> QED
  BY <1>3, <1>4

\* A commit is LineStore's End.
LEMMA CommitIsEnd ==
  ASSUME IInv, NEW r \in Runs, Running(r), NEW st \in {"completed", "failed"}, NEW c, Ended(r, st, c)
  PROVE  Store!End(r)
<1> DEFINE new == {Entry(ScopeOf[r], l) : l \in {k \in run[r].new : Timed(k)}}
           cnt == [e \in AllEntries |-> Cardinality(HasEntry(rows, e))]
           cnt2 == [e \in AllEntries |-> Cardinality(HasEntry(rows', e))]
           off == [q \in Runs |-> OfferedBy(q)]
<1>1. job' = [job EXCEPT ![r] = JobRow(r, st, c)] /\ JobRow(r, st, c).status = st
  BY DEF Ended, JobRow
<1>2. job[r].status = "none" /\ job \in [Runs -> JobState]
  BY DEF IInv, Types, EndsOnce, Running
<1>3. {q \in Runs : job'[q].status # "none"} = {q \in Runs : job[q].status # "none"} \cup {r}
  BY <1>1, <1>2
<1>4. \A e \in new : e \in OfferedBy(r) /\ HasEntry(rows, e) = {} /\ \E x : HasEntry(rows', e) = {x}
  BY CommitCounts
<1>5. \A e : e \notin new => HasEntry(rows', e) = HasEntry(rows, e)
  BY CommitCounts
<1> HIDE DEF new
<1>6. off[r] = OfferedBy(r) /\ \A e \in OfferedBy(r) : e \in AllEntries
  BY DEF AllEntries
<1>7. \A e \in new : e \in AllEntries /\ cnt[e] = 0
  BY <1>4, <1>6, FS_EmptySet
<1>8. new \in SUBSET {e \in off[r] : cnt[e] = 0}
  BY <1>4, <1>6, <1>7
<1>9. \A e \in new : Cardinality(HasEntry(rows', e)) = 1
  BY <1>4, FS_Singleton
<1>10. cnt2 = [e \in AllEntries |-> IF e \in new THEN 1 ELSE cnt[e]]
  BY <1>5, <1>9
<1> HIDE DEF off
<1>11. \E S \in SUBSET {e \in off[r] : cnt[e] = 0} : cnt2 = [e \in AllEntries |-> IF e \in S THEN 1 ELSE cnt[e]]
  BY <1>8, <1>10
<1> QED
  BY <1>2, <1>3, <1>11 DEF Store!End, HasEntry, off

\* The pipeline implements LineStore: whatever runs do to each other, a
\* timestamped line has at most one row per scope, rows appear run by run, come
\* from the streams of the run that commits them, and never disappear.
THEOREM StoreRefinement == Spec => ImplementsLineStore
<1> DEFINE cnt == [e \in AllEntries |-> Cardinality({row \in rows : Timed(row.line) /\
                                             Entry(ScopeOf[row.run], row.line) = e})]
           end == {r \in Runs : job[r].status # "none"}
<1>1. Init => Store!Init
  <2> SUFFICES ASSUME Init PROVE Store!Init
    OBVIOUS
  <2>1. rows = {} /\ job = [r \in Runs |-> NoJob]
    BY DEF Init
  <2>2. \A e : {row \in rows : Timed(row.line) /\ Entry(ScopeOf[row.run], row.line) = e} = {}
    BY <2>1
  <2>3. cnt = [e \in AllEntries |-> 0]
    BY <2>2, FS_EmptySet
  <2>4. end = {}
    BY <2>1, NoJobFacts
  <2> QED
    BY <2>3, <2>4 DEF Store!Init
<1>2. IInv /\ [Next]_vars => [Store!Next]_<<cnt, end>>
  <2> SUFFICES ASSUME IInv, [Next]_vars PROVE [Store!Next]_<<cnt, end>>
    OBVIOUS
  <2>1. CASE rows' = rows /\ job' = job
    <3>1. cnt' = cnt /\ end' = end
      BY <2>1
    <3> QED
      BY <3>1
  <2>2. CASE \E r \in Runs : Running(r) /\ \E st \in {"completed", "failed"} : \E c : Ended(r, st, c)
    <3>1. \E r \in Runs : Store!End(r)
      BY <2>2, CommitIsEnd
    <3>2. Store!Next
      BY <3>1 DEF Store!Next
    <3> QED
      BY <3>2
  <2> QED
    BY <2>1, <2>2, OnlyCommitsShow
<1> QED
  BY <1>1, <1>2, Invariance, PTL DEF Spec, ImplementsLineStore, Store!Spec
=============================================================================
