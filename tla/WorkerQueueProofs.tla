------------------------- MODULE WorkerQueueProofs -------------------------
(***************************************************************************)
(* The safety of the worker queue for any number of API threads, workers,  *)
(* jobs and crashes, and any ceiling.                                      *)
(*                                                                         *)
(* ClaimExclusive is not inductive: the row lock excludes a second worker  *)
(* only until the first commit.  What excludes it afterwards is the        *)
(* committed status, so the invariant ties each place of the worker loop   *)
(* to the status its job can have there.  Everything else follows from it. *)
(***************************************************************************)
EXTENDS WorkerQueue, FiniteSetTheorems, TLAPS

\* The committed status of a worker's job, by the place of its loop.
Fits(s, st) ==
  /\ s.pc = "idle" => s.job = NoJob
  /\ s.pc \in {"ingest", "notify"} => s.job \in IngestIds
  /\ s.pc \in {"purge", "purged", "finish", "schedule"} => s.job \in PurgeIds
  /\ s.pc \in {"ingest", "purge"} => st[s.job] = "pending"
  /\ s.pc \in {"purged", "finish"} => st[s.job] = "running"
  /\ s.pc = "notify" => st[s.job] \in Terminal
  /\ s.pc = "schedule" => st[s.job] \in {"none"} \cup Terminal

\* A POST between its check and its commit owns a row nobody sees yet.
OwnRow ==
  /\ \A t \in Threads : api[t] # NoJob => status[api[t]] = "none"
  /\ \A t, u \in Threads : t # u /\ api[t] # NoJob => api[t] # api[u]

Types ==
  /\ status \in [Ids -> JobStatus]
  /\ row \in [Ids -> RowState]
  /\ api \in [Threads -> IngestIds \cup {NoJob}]
  /\ wk \in [Workers -> WorkerState]

\* The inductive invariant.
IInv ==
  /\ Types
  /\ \A w \in Workers : Fits(wk[w], status)
  /\ OwnRow
  /\ ClaimExclusive

USE QueueConstants

\* A worker moves, and only jobs of its own, or of nobody, change status.
LEMMA WorkerMoves ==
  ASSUME IInv, NEW w \in Workers, NEW s \in WorkerState, NEW X \in SUBSET Ids,
         wk' = [wk EXCEPT ![w] = s],
         api' = api,
         row' \in [Ids -> RowState],
         status' \in [Ids -> JobStatus],
         \A j \in Ids \ X : status'[j] = status[j],
         \A v \in Workers : v # w => wk[v].job \notin X,
         \A t \in Threads : api[t] \notin X,
         Fits(s, status'),
         s.job # NoJob => \A v \in Workers : v # w => wk[v].job # s.job
  PROVE  IInv'
<1>1. Types'
  BY DEF IInv, Types
<1>2. ASSUME NEW v \in Workers PROVE Fits(wk'[v], status')
  <2>1. CASE v = w
    BY <2>1 DEF IInv, Types
  <2>2. CASE v # w
    <3>1. wk'[v] = wk[v] /\ wk[v] \in WorkerState /\ Fits(wk[v], status)
      BY <2>2 DEF IInv, Types
    <3>2. CASE wk[v].job \in Ids
      <4>1. status'[wk[v].job] = status[wk[v].job]
        BY <2>2, <3>2
      <4> QED
        BY <3>1, <4>1 DEF Fits
    <3>3. CASE wk[v].job \notin Ids
      <4>1. wk[v].pc = "idle"
        BY <3>1, <3>3 DEF Fits, WorkerState, Ids
      <4> QED
        BY <3>1, <4>1 DEF Fits
    <3> QED
      BY <3>2, <3>3
  <2> QED
    BY <2>1, <2>2
<1>3. OwnRow'
  <2>1. \A t \in Threads : api[t] # NoJob => status'[api[t]] = status[api[t]]
    BY DEF IInv, Types, Ids
  <2> QED
    BY <2>1 DEF IInv, OwnRow
<1>4. ClaimExclusive'
  BY DEF IInv, Types, ClaimExclusive
<1> QED
  BY <1>1, <1>2, <1>3, <1>4 DEF IInv

\* The step of worker w writes at most the status of id, a job nobody else has.
OnlyWrites(w, id) ==
  /\ id \in Ids
  /\ row' \in [Ids -> RowState]
  /\ status' \in [Ids -> JobStatus]
  /\ \A j \in Ids : j # id => status'[j] = status[j]
  /\ \A v \in Workers : v # w => wk[v].job # id
  /\ \A t \in Threads : api[t] # id

\* The two ways the lemma is used: one job's status changes, or none.
LEMMA WorkerWrites ==
  ASSUME IInv, NEW w \in Workers, NEW s \in WorkerState, NEW id, OnlyWrites(w, id),
         wk' = [wk EXCEPT ![w] = s], api' = api, Fits(s, status'),
         s.job # NoJob => \A v \in Workers : v # w => wk[v].job # s.job
  PROVE  IInv'
<1> DEFINE X == {id}
<1>1. /\ X \in SUBSET Ids
      /\ row' \in [Ids -> RowState] /\ status' \in [Ids -> JobStatus]
      /\ \A j \in Ids \ X : status'[j] = status[j]
      /\ \A v \in Workers : v # w => wk[v].job \notin X
      /\ \A t \in Threads : api[t] \notin X
  BY DEF OnlyWrites
<1> HIDE DEF X
<1> QED
  BY <1>1, WorkerMoves

LEMMA WorkerTurns ==
  ASSUME IInv, NEW w \in Workers, NEW s \in WorkerState,
         wk' = [wk EXCEPT ![w] = s],
         api' = api, row' = row, status' = status,
         Fits(s, status),
         s.job # NoJob => \A v \in Workers : v # w => wk[v].job # s.job
  PROVE  IInv'
<1> DEFINE X == {}
<1>1. /\ X \in SUBSET Ids
      /\ \A j \in Ids \ X : status'[j] = status[j]
      /\ \A v \in Workers : v # w => wk[v].job \notin X
      /\ \A t \in Threads : api[t] \notin X
      /\ row' \in [Ids -> RowState] /\ status' \in [Ids -> JobStatus]
      /\ Fits(s, status')
  BY DEF IInv, Types
<1> HIDE DEF X
<1> QED
  BY <1>1, WorkerMoves

\* Where a worker is, with the facts the steps below use.
LEMMA WorkerFacts ==
  ASSUME IInv, NEW w \in Workers
  PROVE  /\ wk[w] \in WorkerState /\ Fits(wk[w], status)
         /\ wk[w].pc # "idle" => /\ wk[w].job \in Ids /\ wk[w].job # NoJob
                                 /\ \A v \in Workers : v # w => wk[v].job # wk[w].job
                                 /\ \A t \in Threads : api[t] # wk[w].job
<1>1. wk[w] \in WorkerState /\ Fits(wk[w], status)
  BY DEF IInv, Types
<1>2. ASSUME wk[w].pc # "idle"
      PROVE  /\ wk[w].job \in Ids /\ wk[w].job # NoJob
             /\ \A v \in Workers : v # w => wk[v].job # wk[w].job
             /\ \A t \in Threads : api[t] # wk[w].job
  <2>1. wk[w].job \in Ids /\ wk[w].job # NoJob
    BY <1>1, <1>2 DEF Fits, WorkerState, Ids
  <2>2. \A v \in Workers : v # w => wk[v].job # wk[w].job
    BY <2>1 DEF IInv, ClaimExclusive
  <2>3. ASSUME NEW t \in Threads PROVE api[t] # wk[w].job
    <3>1. SUFFICES ASSUME api[t] = wk[w].job PROVE FALSE
      OBVIOUS
    <3>2. api[t] \in IngestIds /\ status[wk[w].job] = "none"
      BY <2>1, <3>1 DEF IInv, Types, OwnRow
    <3>3. wk[w].pc = "schedule"
      BY <1>1, <1>2, <3>2 DEF Fits, WorkerState, Terminal
    <3> QED
      BY <1>1, <3>1, <3>2, <3>3 DEF Fits
  <2> QED
    BY <2>1, <2>2, <2>3
<1> QED
  BY <1>1, <1>2

\* The idle state fits any statuses.
LEMMA IdleFits == \A st : Idle \in WorkerState /\ Idle.job = NoJob /\ Fits(Idle, st)
  BY DEF Idle, WorkerState, Fits

\* A new system satisfies the invariant.
LEMMA InitIInv == Init => IInv
<1> SUFFICES ASSUME Init PROVE IInv
  OBVIOUS
<1>1. Types
  BY IdleFits DEF Init, Types, JobStatus, RowState
<1>2. \A w \in Workers : wk[w] = Idle
  BY DEF Init
<1>3. \A w \in Workers : Fits(wk[w], status)
  BY <1>2, IdleFits
<1>4. OwnRow /\ ClaimExclusive
  BY <1>2, IdleFits DEF Init, OwnRow, ClaimExclusive
<1> QED
  BY <1>1, <1>3, <1>4 DEF IInv

\* The API's two steps.
LEMMA RequestStep ==
  ASSUME IInv, NEW t \in Threads, Request(t)
  PROVE  IInv'
<1>1. CASE CheckQueue(t)
  <2>1. PICK id \in FreeIngestIds : api' = [api EXCEPT ![t] = id]
    BY <1>1 DEF CheckQueue, Fresh
  <2>2. id \in IngestIds /\ status[id] = "none" /\ \A u \in Threads : api[u] # id
    BY <2>1 DEF FreeIngestIds
  <2>3. Types' /\ OwnRow'
    BY <1>1, <2>1, <2>2 DEF CheckQueue, IInv, Types, OwnRow
  <2> QED
    BY <1>1, <2>3 DEF CheckQueue, IInv, ClaimExclusive
<1>2. CASE CommitEnqueue(t)
  <2>1. /\ api[t] \in IngestIds /\ status[api[t]] = "none"
        /\ status' = [status EXCEPT ![api[t]] = "pending"]
        /\ api' = [api EXCEPT ![t] = NoJob] /\ wk' = wk /\ row' = row
    BY <1>2 DEF CommitEnqueue, IInv, Types, OwnRow
  <2>2. Types'
    BY <2>1 DEF IInv, Types, JobStatus
  <2>3. \A j \in Ids : j # api[t] => status'[j] = status[j]
    BY <2>1 DEF IInv, Types
  <2>4. OwnRow'
    BY <2>1, <2>3 DEF IInv, Types, OwnRow, Ids
  <2>5. ASSUME NEW w \in Workers PROVE Fits(wk'[w], status')
    <3>1. CASE wk[w].pc = "idle"
      BY <2>1, <3>1 DEF IInv, Fits
    <3>2. CASE wk[w].pc # "idle"
      <4>1. status'[wk[w].job] = status[wk[w].job]
        BY <2>3, <3>2, WorkerFacts
      <4> QED
        BY <2>1, <4>1 DEF IInv, Fits
    <3> QED
      BY <3>1, <3>2
  <2> QED
    BY <2>1, <2>2, <2>4, <2>5 DEF IInv, ClaimExclusive
<1> QED
  BY <1>1, <1>2 DEF Request

\* A claimed row is pending and nobody else's.
LEMMA ClaimStep ==
  ASSUME IInv, NEW w \in Workers, Claim(w)
  PROVE  IInv'
<1>1. PICK id \in Claimable :
        Move(w, IF id \in PurgeIds THEN "purge" ELSE "ingest", id, FALSE)
  BY DEF Claim
<1> DEFINE s == [pc |-> IF id \in PurgeIds THEN "purge" ELSE "ingest", job |-> id,
                 more |-> FALSE, tries |-> 0]
<1>2. id \in Ids /\ id # NoJob /\ status[id] = "pending"
  BY <1>1 DEF Claimable, Pending
<1>3. s \in WorkerState /\ Fits(s, status)
  BY <1>2 DEF WorkerState, Fits, Ids
<1>4. ASSUME NEW v \in Workers, v # w PROVE wk[v].job # id
  <2>1. SUFFICES ASSUME wk[v].job = id PROVE FALSE
    OBVIOUS
  <2>2. wk[v].pc \in {"ingest", "purge"}
    BY <1>2, <2>1, WorkerFacts DEF WorkerState, Fits, Terminal
  <2>3. id \in Locked
    BY <2>1, <2>2 DEF Locked
  <2> QED
    BY <1>1, <2>3 DEF Claimable
<1>5. wk' = [wk EXCEPT ![w] = s] /\ status' = status /\ row' = row /\ api' = api
  BY <1>1 DEF Claim, Move
<1> HIDE DEF s
<1>6. s.job = id
  BY DEF s
<1> QED
  BY <1>3, <1>4, <1>5, <1>6, WorkerTurns

\* A terminal commit, of an ingest or a purge job.
LEMMA TerminalStep ==
  ASSUME IInv, NEW w \in Workers, wk[w].pc # "idle", NEW result \in Terminal,
         NEW s \in WorkerState, s.job \in {NoJob, wk[w].job},
         status' = [status EXCEPT ![wk[w].job] = result],
         wk' = [wk EXCEPT ![w] = s], api' = api, row' \in [Ids -> RowState],
         Fits(s, status')
  PROVE  IInv'
<1>1. /\ wk[w].job \in Ids
      /\ \A v \in Workers : v # w => wk[v].job # wk[w].job
      /\ \A t \in Threads : api[t] # wk[w].job
  BY WorkerFacts
<1>2. /\ status' \in [Ids -> JobStatus]
      /\ \A j \in Ids : j # wk[w].job => status'[j] = status[j]
  BY <1>1 DEF IInv, Types, JobStatus
<1>3. OnlyWrites(w, wk[w].job)
  BY <1>1, <1>2 DEF OnlyWrites
<1>4. s.job # NoJob => \A v \in Workers : v # w => wk[v].job # s.job
  BY <1>1
<1> QED
  BY <1>3, <1>4, WorkerWrites

\* The ends of an ingest job.
LEMMA IngestStep ==
  ASSUME IInv, NEW w \in Workers, IngestSucceeds(w) \/ IngestFails(w)
  PROVE  IInv'
<1> DEFINE s == [pc |-> "notify", job |-> wk[w].job, more |-> FALSE, tries |-> 0]
<1>1. PICK result \in Terminal :
        /\ wk[w].pc = "ingest" /\ wk' = [wk EXCEPT ![w] = s] /\ api' = api
        /\ status' = [status EXCEPT ![wk[w].job] = result]
  BY DEF IngestSucceeds, IngestFails, CommitTerminal, Move, Terminal
<1>2. wk[w].job \in IngestIds /\ wk[w].job \in Ids
  BY <1>1, WorkerFacts DEF Fits
<1>3. row' \in [Ids -> RowState]
  BY DEF IngestSucceeds, IngestFails, IInv, Types, RowState
<1>4. s \in WorkerState
  BY <1>2 DEF WorkerState
<1>5. status'[wk[w].job] = result
  BY <1>1, <1>2 DEF IInv, Types
<1>6. Fits(s, status')
  BY <1>2, <1>5 DEF Fits
<1>7. s.job = wk[w].job
  OBVIOUS
<1> HIDE DEF s
<1> QED
  BY <1>1, <1>3, <1>4, <1>6, <1>7, TerminalStep

\* Steps that end a purge job or give a worker's transaction up.
LEMMA IdleStep ==
  ASSUME IInv, NEW w \in Workers,
         PurgeDone(w) \/ PurgeFails(w) \/ PoisonRollsBack(w) \/ Abort(w) \/ NotifyEnds(w)
  PROVE  IInv'
<1>1. wk' = [wk EXCEPT ![w] = Idle] /\ api' = api /\ row' = row
  BY DEF PurgeDone, PurgeFails, PoisonRollsBack, Abort, NotifyEnds
<1>2. CASE PurgeDone(w) \/ PurgeFails(w)
  <2>1. PICK result \in Terminal : status' = [status EXCEPT ![wk[w].job] = result]
    BY <1>2 DEF PurgeDone, PurgeFails, CommitTerminal, Terminal
  <2>2. wk[w].pc # "idle"
    BY <1>2 DEF PurgeDone, PurgeFails
  <2> QED
    BY <1>1, <2>1, <2>2, IdleFits, TerminalStep DEF IInv, Types
<1>3. CASE PoisonRollsBack(w) \/ Abort(w) \/ NotifyEnds(w)
  <2>1. status' = status
    BY <1>3 DEF PoisonRollsBack, Abort, NotifyEnds
  <2> QED
    BY <1>1, <2>1, IdleFits, WorkerTurns
<1> QED
  BY <1>2, <1>3

\* The chunk's commit publishes "running" for the worker's own job.
LEMMA ChunkStep ==
  ASSUME IInv, NEW w \in Workers, PurgeChunk(w)
  PROVE  IInv'
<1>1. PICK more \in BOOLEAN : Move(w, "purged", wk[w].job, more)
  BY DEF PurgeChunk
<1> DEFINE s == [pc |-> "purged", job |-> wk[w].job, more |-> more, tries |-> 0]
<1>2. /\ wk[w].job \in PurgeIds /\ wk[w].job \in Ids
      /\ \A v \in Workers : v # w => wk[v].job # wk[w].job
      /\ \A t \in Threads : api[t] # wk[w].job
  BY WorkerFacts DEF PurgeChunk, Fits
<1>3. /\ wk' = [wk EXCEPT ![w] = s] /\ api' = api /\ row' = row
      /\ status' = [status EXCEPT ![wk[w].job] = "running"]
  BY <1>1 DEF PurgeChunk, Move
<1>4. /\ status' \in [Ids -> JobStatus] /\ status'[wk[w].job] = "running"
      /\ \A j \in Ids : j # wk[w].job => status'[j] = status[j]
  BY <1>2, <1>3 DEF IInv, Types, JobStatus
<1>5. s \in WorkerState /\ s.job = wk[w].job /\ Fits(s, status')
  BY <1>2, <1>4 DEF WorkerState, Fits
<1> HIDE DEF s
<1>6. OnlyWrites(w, wk[w].job)
  BY <1>2, <1>3, <1>4 DEF OnlyWrites, IInv, Types
<1> QED
  BY <1>2, <1>3, <1>5, <1>6, WorkerWrites

\* A fresh purge row belongs to no worker and no request.
LEMMA FreshPurge ==
  ASSUME IInv, NEW id \in FreePurgeIds
  PROVE  /\ id \in PurgeIds /\ id \in Ids /\ id # NoJob
         /\ status[id] \in {"none"} \cup Terminal
         /\ \A v \in Workers : wk[v].job # id
         /\ \A t \in Threads : api[t] # id
  BY DEF FreePurgeIds, Ids, IInv, Types

\* The second commit of a purge: a follow-up row, or the stamp.
LEMMA EpilogueStep ==
  ASSUME IInv, NEW w \in Workers, PurgeEpilogue(w)
  PROVE  IInv'
<1> DEFINE s == [pc |-> "finish", job |-> wk[w].job, more |-> FALSE, tries |-> 0]
<1>1. /\ wk' = [wk EXCEPT ![w] = s] /\ api' = api /\ row' = row /\ wk[w].pc = "purged"
  BY DEF PurgeEpilogue, Move
<1>2. /\ wk[w].job \in PurgeIds /\ wk[w].job \in Ids /\ status[wk[w].job] = "running"
      /\ \A v \in Workers : v # w => wk[v].job # wk[w].job
  BY <1>1, WorkerFacts DEF Fits
<1>3. s \in WorkerState /\ s.job = wk[w].job
  BY <1>2 DEF WorkerState
<1>4. ASSUME status'[wk[w].job] = "running" PROVE Fits(s, status')
  BY <1>2, <1>4 DEF Fits
<1> HIDE DEF s
<1>5. CASE wk[w].more
  <2>1. PICK id \in FreePurgeIds : status' = [status EXCEPT ![id] = "pending"]
    BY <1>5 DEF PurgeEpilogue, Fresh
  <2>2. id \in Ids /\ (\A v \in Workers : wk[v].job # id) /\ (\A t \in Threads : api[t] # id)
    BY <2>1, FreshPurge
  <2>3. /\ status' \in [Ids -> JobStatus]
        /\ \A j \in Ids : j # id => status'[j] = status[j]
    BY <2>1, <2>2 DEF IInv, Types, JobStatus
  <2>4. Fits(s, status')
    BY <1>2, <1>4, <2>2, <2>3
  <2>5. OnlyWrites(w, id)
    BY <1>1, <2>2, <2>3 DEF OnlyWrites, IInv, Types
  <2> QED
    BY <1>1, <1>2, <1>3, <2>4, <2>5, WorkerWrites
<1>6. CASE ~wk[w].more
  <2>1. status' = status
    BY <1>6 DEF PurgeEpilogue
  <2> QED
    BY <1>1, <1>2, <1>3, <1>4, <2>1, WorkerTurns
<1> QED
  BY <1>5, <1>6

\* Scheduling a purge on an idle poll.
LEMMA ScheduleStep ==
  ASSUME IInv, NEW w \in Workers, ScheduleCheck(w) \/ ScheduleCommit(w)
  PROVE  IInv'
<1>1. CASE ScheduleCheck(w)
  <2>1. PICK id \in FreePurgeIds : Move(w, "schedule", id, FALSE)
    BY <1>1 DEF ScheduleCheck, Fresh
  <2> DEFINE s == [pc |-> "schedule", job |-> id, more |-> FALSE, tries |-> 0]
  <2>2. /\ wk' = [wk EXCEPT ![w] = s]
        /\ api' = api /\ row' = row /\ status' = status
    BY <1>1, <2>1 DEF ScheduleCheck, Move
  <2>3. s \in WorkerState /\ s.job = id /\ Fits(s, status)
    BY <2>1, FreshPurge DEF WorkerState, Fits
  <2> HIDE DEF s
  <2> QED
    BY <2>1, <2>2, <2>3, FreshPurge, WorkerTurns
<1>2. CASE ScheduleCommit(w)
  <2>1. /\ wk' = [wk EXCEPT ![w] = Idle] /\ api' = api /\ row' = row
        /\ status' = [status EXCEPT ![wk[w].job] = "pending"] /\ wk[w].pc = "schedule"
    BY <1>2 DEF ScheduleCommit
  <2>2. /\ wk[w].job \in Ids
        /\ \A v \in Workers : v # w => wk[v].job # wk[w].job
        /\ \A t \in Threads : api[t] # wk[w].job
    BY <2>1, WorkerFacts
  <2>3. /\ status' \in [Ids -> JobStatus]
        /\ \A j \in Ids : j # wk[w].job => status'[j] = status[j]
    BY <2>1, <2>2 DEF IInv, Types, JobStatus
  <2>4. OnlyWrites(w, wk[w].job)
    BY <2>1, <2>2, <2>3 DEF OnlyWrites, IInv, Types
  <2> QED
    BY <2>1, <2>4, IdleFits, WorkerWrites
<1> QED
  BY <1>1, <1>2

\* A callback that will be tried again.
LEMMA RetryStep ==
  ASSUME IInv, NEW w \in Workers, NotifyRetries(w)
  PROVE  IInv'
<1> DEFINE s == [pc |-> "notify", job |-> wk[w].job, more |-> FALSE, tries |-> wk[w].tries + 1]
<1>1. /\ wk' = [wk EXCEPT ![w] = s] /\ api' = api /\ row' = row /\ status' = status
      /\ wk[w].pc = "notify" /\ wk[w].tries < MaxRetries
  BY DEF NotifyRetries
<1>2. /\ wk[w].job \in IngestIds /\ wk[w].job \in Ids /\ status[wk[w].job] \in Terminal
      /\ \A v \in Workers : v # w => wk[v].job # wk[w].job
      /\ wk[w].tries \in 0 .. MaxRetries
  BY <1>1, WorkerFacts DEF Fits, WorkerState
<1>3. s \in WorkerState /\ s.job = wk[w].job
  BY <1>1, <1>2 DEF WorkerState
<1>4. Fits(s, status)
  BY <1>2 DEF Fits
<1> HIDE DEF s
<1> QED
  BY <1>1, <1>2, <1>3, <1>4, WorkerTurns

\* Every step, and every stutter, preserves the inductive invariant.
LEMMA NextIInv == IInv /\ [Next]_vars => IInv'
<1> SUFFICES ASSUME IInv, [Next]_vars PROVE IInv'
  OBVIOUS
<1>1. CASE UNCHANGED vars \/ IntervalElapses \/ RowsExpire
  <2>1. status' = status /\ row' = row /\ api' = api /\ wk' = wk
    BY <1>1 DEF vars, IntervalElapses, RowsExpire
  <2> QED
    BY <2>1 DEF IInv, Types, OwnRow, ClaimExclusive
<1>2. ASSUME NEW t \in Threads, Request(t) PROVE IInv'
  BY <1>2, RequestStep
<1>3. ASSUME NEW w \in Workers, Loop(w) \/ PurgeFails(w) \/ Abort(w) PROVE IInv'
  BY <1>3, ClaimStep, IngestStep, IdleStep, ChunkStep, EpilogueStep, ScheduleStep, RetryStep
  DEF Loop
<1> QED
  BY <1>1, <1>2, <1>3 DEF Next

\* The inductive invariant holds in every reachable state.
THEOREM Invariance == Spec => []IInv
  BY InitIInv, NextIInv, PTL DEF Spec

\* No two workers run, finish or report the same job.
THEOREM NoDoubleClaim == Spec => []ClaimExclusive
<1>1. IInv => ClaimExclusive
  BY DEF IInv
<1> QED
  BY <1>1, Invariance, PTL
-----------------------------------------------------------------------------
(* What the steps do to ingest jobs, and what follows from it.             *)

\* A worker's step leaves an ingest job alone, or ends a pending one.
IngestEffect ==
  /\ api' = api
  /\ \A j \in IngestIds : \/ status'[j] = status[j] /\ row'[j] = row[j]
                          \/ status[j] = "pending" /\ status'[j] \in Terminal

LEMMA WorkerEffect ==
  ASSUME IInv, NEW w \in Workers, Loop(w) \/ PurgeFails(w) \/ Abort(w)
  PROVE  IngestEffect
<1>1. CASE IngestSucceeds(w) \/ IngestFails(w)
  <2>1. wk[w].job \in Ids /\ status[wk[w].job] = "pending" /\ api' = api
    BY <1>1, WorkerFacts DEF IngestSucceeds, IngestFails, Fits
  <2>2. PICK result \in Terminal, r \in RowState :
          /\ status' = [status EXCEPT ![wk[w].job] = result]
          /\ row' = [row EXCEPT ![wk[w].job] = r]
    BY <1>1 DEF IngestSucceeds, IngestFails, CommitTerminal, Terminal, RowState
  <2> QED
    BY <2>1, <2>2 DEF IngestEffect, IInv, Types, Ids
<1>2. CASE PurgeChunk(w) \/ PurgeDone(w) \/ PurgeFails(w) \/ ScheduleCommit(w)
  <2>1. wk[w].job \in PurgeIds /\ row' = row /\ api' = api
    BY <1>2, WorkerFacts DEF PurgeChunk, PurgeDone, PurgeFails, ScheduleCommit, Fits
  <2>2. PICK st \in JobStatus : status' = [status EXCEPT ![wk[w].job] = st]
    BY <1>2 DEF PurgeChunk, PurgeDone, PurgeFails, ScheduleCommit, CommitTerminal,
                JobStatus, Terminal
  <2>3. \A j \in IngestIds : j # wk[w].job /\ j \in Ids
    BY <2>1 DEF Ids
  <2> QED
    BY <2>1, <2>2, <2>3 DEF IngestEffect, IInv, Types
<1>3. CASE PurgeEpilogue(w)
  <2>1. row' = row /\ api' = api
    BY <1>3 DEF PurgeEpilogue
  <2>2. CASE wk[w].more
    <3>1. PICK id \in FreePurgeIds : status' = [status EXCEPT ![id] = "pending"]
      BY <1>3, <2>2 DEF PurgeEpilogue, Fresh
    <3>2. \A j \in IngestIds : j # id /\ j \in Ids
      BY <3>1 DEF FreePurgeIds, Ids
    <3> QED
      BY <2>1, <3>1, <3>2 DEF IngestEffect, IInv, Types
  <2>3. CASE ~wk[w].more
    BY <1>3, <2>1, <2>3 DEF PurgeEpilogue, IngestEffect
  <2> QED
    BY <2>2, <2>3
<1>4. CASE Claim(w) \/ PoisonRollsBack(w) \/ ScheduleCheck(w) \/ NotifyEnds(w)
           \/ NotifyRetries(w) \/ Abort(w)
  BY <1>4 DEF Claim, PoisonRollsBack, ScheduleCheck, NotifyEnds, NotifyRetries, Abort,
              IngestEffect
<1> QED
  BY <1>1, <1>2, <1>3, <1>4 DEF Loop

\* The same for every step: besides ending, an ingest job is enqueued.
LEMMA StepEffect ==
  ASSUME IInv, [Next]_vars, NEW j \in IngestIds
  PROVE  \/ status'[j] = status[j] /\ row'[j] = row[j]
         \/ status[j] = "none" /\ status'[j] = "pending"
         \/ status[j] = "pending" /\ status'[j] \in Terminal
<1>1. CASE UNCHANGED vars \/ IntervalElapses \/ RowsExpire
  BY <1>1 DEF vars, IntervalElapses, RowsExpire
<1>2. ASSUME NEW t \in Threads, CheckQueue(t) PROVE status' = status /\ row' = row
  BY <1>2 DEF CheckQueue
<1>3. ASSUME NEW t \in Threads, CommitEnqueue(t)
      PROVE  \/ status'[j] = status[j] /\ row'[j] = row[j]
             \/ status[j] = "none" /\ status'[j] = "pending"
  BY <1>3 DEF CommitEnqueue, IInv, Types, OwnRow, Ids
<1>4. ASSUME NEW w \in Workers, Loop(w) \/ PurgeFails(w) \/ Abort(w) PROVE IngestEffect
  BY <1>4, WorkerEffect
<1> QED
  BY <1>1, <1>2, <1>3, <1>4 DEF Next, Request, IngestEffect

\* The end of an ingest job is final: crashes, retries and other workers'
\* steps leave its committed status and its ingestion row alone.
THEOREM TerminalStays == Spec => TerminalIsFinal
<1>1. IInv /\ [Next]_vars =>
        [\A j \in IngestIds : status[j] \in Terminal =>
            status'[j] = status[j] /\ row'[j] = row[j]]_vars
  <2> SUFFICES ASSUME IInv, [Next]_vars, NEW j \in IngestIds, status[j] \in Terminal
               PROVE  status'[j] = status[j] /\ row'[j] = row[j]
    OBVIOUS
  <2> QED
    BY StepEffect DEF Terminal
<1> QED
  BY <1>1, Invariance, PTL DEF Spec, TerminalIsFinal

\* CallbackTruthful, with what keeps it true: callbacks are about ingest jobs.
Heard ==
  \A c \in received : c.job \in IngestIds /\ c.status \in Terminal /\ status[c.job] = c.status

\* A callback reports the terminal status of the ingest job it is about.
LEMMA StepHeard == IInv /\ Heard /\ [Next]_vars => Heard'
<1> SUFFICES ASSUME IInv, Heard, [Next]_vars, NEW c \in received' PROVE
      c.job \in IngestIds /\ c.status \in Terminal /\ status'[c.job] = c.status
  BY DEF Heard
<1>1. CASE c \in received
  <2>1. c.job \in IngestIds /\ c.status \in Terminal /\ status[c.job] = c.status
    BY <1>1 DEF Heard
  <2> QED
    BY <2>1, StepEffect DEF Terminal
<1>2. CASE c \notin received
  <2>1. PICK w \in Workers : NotifyEnds(w) \/ NotifyRetries(w)
    BY <1>2 DEF Next, vars, IntervalElapses, RowsExpire, Request, CheckQueue, CommitEnqueue,
       Loop, Claim, IngestSucceeds, IngestFails, PoisonRollsBack, PurgeChunk, PurgeEpilogue,
       PurgeDone, ScheduleCheck, ScheduleCommit, PurgeFails, Abort
  <2>2. c = callback_payload(wk[w].job) /\ wk[w].pc = "notify" /\ status' = status
    BY <1>2, <2>1 DEF NotifyEnds, NotifyRetries, Received
  <2>3. wk[w].job \in IngestIds /\ status[wk[w].job] \in Terminal
    BY <2>2, WorkerFacts DEF Fits
  <2> QED
    BY <2>2, <2>3 DEF callback_payload
<1> QED
  BY <1>1, <1>2

\* Whatever a receiver was told stays the committed status of the job.
THEOREM CallbacksTellTheTruth == Spec => []CallbackTruthful
<1>1. Init => Heard
  BY DEF Init, Heard
<1>2. Heard => CallbackTruthful
  BY DEF Heard, CallbackTruthful
<1> QED
  BY <1>1, <1>2, StepHeard, Invariance, PTL DEF Spec
-----------------------------------------------------------------------------
(* The ceiling: a POST adds one pending job when its own place among the   *)
(* requests in flight becomes free, and every other step only removes.     *)

Queued == Pending \cap IngestIds
InFlight == {t \in Threads : api[t] # NoJob}

LEMMA Counts ==
  /\ IsFiniteSet(Queued) /\ Cardinality(Queued) \in Nat
  /\ IsFiniteSet(InFlight) /\ Cardinality(InFlight) \in Nat
  /\ Cardinality(Threads) \in Nat /\ Cardinality(InFlight) <= Cardinality(Threads)
  /\ IsFiniteSet(Pending) /\ Cardinality(Pending) \in Nat
  /\ Cardinality(Queued) <= Cardinality(Pending)
<1>1. Queued \subseteq Pending /\ Pending \subseteq Ids /\ InFlight \subseteq Threads
  BY DEF Queued, Pending, InFlight
<1>2. IsFiniteSet(Ids)
  BY FS_Union DEF Ids
<1>3. IsFiniteSet(Pending)
  BY <1>1, <1>2, FS_Subset
<1> QED
  BY <1>1, <1>3, FS_Subset, FS_CardinalityType

LEMMA PrimedCounts ==
  /\ IsFiniteSet(Queued') /\ Cardinality(Queued') \in Nat
  /\ Cardinality(InFlight') \in Nat /\ Cardinality(InFlight') <= Cardinality(Threads)
<1>1. Queued' \subseteq Ids /\ InFlight' \subseteq Threads
  BY DEF Queued, Pending, InFlight
<1>2. IsFiniteSet(Ids)
  BY FS_Union DEF Ids
<1> QED
  BY <1>1, <1>2, FS_Subset, FS_CardinalityType

LEMMA StepBound == IInv /\ QueueBound /\ [Next]_vars => QueueBound'
<1> SUFFICES ASSUME IInv, QueueBound, [Next]_vars PROVE QueueBound'
  OBVIOUS
<1>now. QueueBound <=> Cardinality(Queued) + Cardinality(InFlight) <= QueueMax + Cardinality(Threads) - 1
  BY DEF QueueBound, Queued, InFlight
<1>next. QueueBound' <=> Cardinality(Queued') + Cardinality(InFlight') <= QueueMax + Cardinality(Threads) - 1
  BY DEF QueueBound, Queued, InFlight
<1>1. CASE Queued' \subseteq Queued /\ api' = api
  <2>1. InFlight' = InFlight
    BY <1>1 DEF InFlight
  <2>2. Cardinality(Queued') <= Cardinality(Queued)
    BY <1>1, Counts, FS_Subset
  <2> QED
    BY <1>now, <1>next, <2>1, <2>2, Counts, PrimedCounts
<1>2. ASSUME NEW t \in Threads, CheckQueue(t) PROVE QueueBound'
  <2>1. Cardinality(Pending) < QueueMax
    BY <1>2, Counts DEF CheckQueue, ingest_queue_is_full
  <2>2. Queued' = Queued
    BY <1>2 DEF CheckQueue, Queued, Pending
  <2> QED
    BY <1>next, <2>1, <2>2, Counts, PrimedCounts
<1>3. ASSUME NEW t \in Threads, CommitEnqueue(t) PROVE QueueBound'
  <2>1. /\ api[t] \in IngestIds /\ api[t] \in Ids /\ status[api[t]] = "none"
        /\ status' = [status EXCEPT ![api[t]] = "pending"]
        /\ api' = [api EXCEPT ![t] = NoJob] /\ api[t] # NoJob
    BY <1>3 DEF CommitEnqueue, IInv, Types, OwnRow, Ids
  <2>2. Queued' = Queued \cup {api[t]} /\ api[t] \notin Queued
    BY <2>1 DEF Queued, Pending, IInv, Types
  <2>3. InFlight' = InFlight \ {t} /\ t \in InFlight
    BY <2>1 DEF InFlight, IInv, Types
  <2>4. Cardinality(Queued') = Cardinality(Queued) + 1
    BY <2>2, Counts, FS_AddElement
  <2>5. Cardinality(InFlight') = Cardinality(InFlight) - 1
    BY <2>3, Counts, FS_RemoveElement
  <2> QED
    BY <1>now, <1>next, <2>4, <2>5, Counts
<1>4. ASSUME NEW w \in Workers, Loop(w) \/ PurgeFails(w) \/ Abort(w)
      PROVE  Queued' \subseteq Queued /\ api' = api
  <2>1. IngestEffect
    BY <1>4, WorkerEffect
  <2> QED
    BY <2>1 DEF IngestEffect, Queued, Pending, Terminal, Ids
<1>5. CASE UNCHANGED vars \/ IntervalElapses \/ RowsExpire
  <2>1. Queued' = Queued /\ api' = api
    BY <1>5 DEF vars, IntervalElapses, RowsExpire, Queued, Pending
  <2> QED
    BY <1>1, <2>1
<1> QED
  BY <1>1, <1>2, <1>3, <1>4, <1>5 DEF Next, Request

\* Concurrent POSTs overshoot INGEST_QUEUE_MAX by less than the number of API
\* threads, whatever the workers do.
THEOREM OverrunIsBounded == Spec => []QueueBound
<1>1. Init => QueueBound
  <2> SUFFICES ASSUME Init PROVE QueueBound
    OBVIOUS
  <2>1. Queued = {} /\ InFlight = {}
    BY DEF Init, Queued, Pending, InFlight
  <2>2. Cardinality(Queued) = 0 /\ Cardinality(InFlight) = 0
    BY <2>1, FS_EmptySet
  <2> QED
    BY <2>2, Counts DEF QueueBound, Queued, InFlight
<1> QED
  BY <1>1, StepBound, Invariance, PTL DEF Spec
-----------------------------------------------------------------------------
(* The rest of the types: the created_at order, the purge's books and the  *)
(* receivers' callbacks.                                                   *)

\* Removing a row from the created_at order leaves an order of rows.
LEMMA WithoutType ==
  ASSUME NEW S, NEW s \in Seq(S), NEW id
  PROVE  Without(s, id) \in Seq(S)
<1>1. CASE \E i \in 1 .. Len(s) : s[i] = id
  <2>1. Place(s, id) \in 1 .. Len(s)
    BY <1>1 DEF Place
  <2> DEFINE k == Place(s, id)
  <2>2. k \in Nat /\ 1 <= k /\ k <= Len(s)
    BY <2>1
  <2> HIDE DEF k
  <2>3. SubSeq(s, 1, k - 1) \in Seq(S) /\ SubSeq(s, k + 1, Len(s)) \in Seq(S)
    BY <2>2
  <2>4. Without(s, id) = SubSeq(s, 1, k - 1) \o SubSeq(s, k + 1, Len(s))
    BY <1>1 DEF Without, k
  <2> QED
    BY <2>3, <2>4
<1>2. CASE ~\E i \in 1 .. Len(s) : s[i] = id
  BY <1>2 DEF Without
<1> QED
  BY <1>1, <1>2

Payloads == [job : IngestIds, status : Terminal,
             job_id : {"ingestion_job_id", "worker_job_id"}]

\* What TypeOK says beyond Types.
Books ==
  /\ order \in Seq(Ids)
  /\ lastPurge \in {"never", "recent", "old"}
  /\ backlog \in Nat /\ expired \in 0 .. MaxExpired /\ aborts \in 0 .. MaxAborts
  /\ received \subseteq Payloads

\* The API adds a row at the end of the order.
LEMMA RequestBooks ==
  ASSUME IInv, Books, NEW t \in Threads, Request(t)
  PROVE  Books'
<1>1. CASE CheckQueue(t)
  <2>1. PICK id \in Ids : order' = Append(order, id)
    BY <1>1 DEF CheckQueue, FreeIngestIds, Ids
  <2> QED
    BY <1>1, <2>1 DEF CheckQueue, Books
<1>2. CASE CommitEnqueue(t)
  BY <1>2 DEF CommitEnqueue, Books
<1> QED
  BY <1>1, <1>2 DEF Request

\* A worker's steps on the order of the rows.
LEMMA WorkerBooks ==
  ASSUME IInv, Books, NEW w \in Workers, Loop(w) \/ PurgeFails(w) \/ Abort(w)
  PROVE  Books'
<1>0. order \in Seq(Ids) /\ Without(order, wk[w].job) \in Seq(Ids)
  BY WithoutType DEF Books
<1>1. CASE IngestSucceeds(w) \/ IngestFails(w) \/ PurgeDone(w)
  BY <1>0, <1>1 DEF IngestSucceeds, IngestFails, PurgeDone, CommitTerminal, Books
<1>2. CASE PurgeFails(w) \/ Abort(w)
  <2>1. order' \in Seq(Ids) /\ aborts' \in 0 .. MaxAborts
    BY <1>0, <1>2 DEF PurgeFails, Abort, CommitTerminal, Books
  <2> QED
    BY <1>2, <2>1 DEF PurgeFails, Abort, Books
<1>3. CASE PurgeEpilogue(w) \/ ScheduleCheck(w)
  <2>0. FreePurgeIds # {} => Fresh(FreePurgeIds) \in FreePurgeIds
    BY DEF Fresh
  <2>1. \/ order' = order
        \/ FreePurgeIds # {} /\ order' = Append(order, Fresh(FreePurgeIds))
    BY <1>3 DEF PurgeEpilogue, ScheduleCheck
  <2>3. FreePurgeIds \subseteq Ids
    BY DEF FreePurgeIds, Ids
  <2>2. order' \in Seq(Ids)
    <3> DEFINE id == Fresh(FreePurgeIds)
    <3>1. FreePurgeIds # {} => id \in Ids
      BY <2>0, <2>3
    <3>2. order' = order \/ (FreePurgeIds # {} /\ order' = Append(order, id))
      BY <2>1
    <3> HIDE DEF id
    <3> QED
      BY <1>0, <3>1, <3>2
  <2>4. lastPurge' \in {"never", "recent", "old"}
    BY <1>3 DEF PurgeEpilogue, ScheduleCheck, Books
  <2> QED
    BY <1>3, <2>2, <2>4 DEF PurgeEpilogue, ScheduleCheck, Books
<1>4. CASE PurgeChunk(w)
  <2>1. backlog' \in Nat
    BY <1>4 DEF PurgeChunk, Books
  <2> QED
    BY <1>4, <2>1 DEF PurgeChunk, Books
<1>5. CASE Claim(w) \/ PoisonRollsBack(w) \/ ScheduleCommit(w)
  BY <1>5 DEF Claim, PoisonRollsBack, ScheduleCommit, Books
<1>6. CASE NotifyEnds(w) \/ NotifyRetries(w)
  <2>1. wk[w].job \in IngestIds /\ status[wk[w].job] \in Terminal
    BY <1>6, WorkerFacts DEF NotifyEnds, NotifyRetries, Fits
  <2>2. callback_payload(wk[w].job) \in Payloads
    BY <2>1 DEF callback_payload, Payloads
  <2>3. received' \subseteq received \cup {callback_payload(wk[w].job)}
    BY <1>6 DEF NotifyEnds, NotifyRetries, Received
  <2> QED
    BY <1>6, <2>2, <2>3 DEF NotifyEnds, NotifyRetries, Books
<1> QED
  BY <1>1, <1>2, <1>3, <1>4, <1>5, <1>6 DEF Loop

LEMMA StepBooks == IInv /\ Books /\ [Next]_vars => Books'
<1> SUFFICES ASSUME IInv, Books, [Next]_vars PROVE Books'
  OBVIOUS
<1>1. CASE UNCHANGED vars \/ IntervalElapses \/ RowsExpire
  BY <1>1 DEF vars, IntervalElapses, RowsExpire, Books
<1>2. ASSUME NEW t \in Threads, Request(t) PROVE Books'
  BY <1>2, RequestBooks
<1>3. ASSUME NEW w \in Workers, Loop(w) \/ PurgeFails(w) \/ Abort(w) PROVE Books'
  BY <1>3, WorkerBooks
<1> QED
  BY <1>1, <1>2, <1>3 DEF Next

\* The whole type invariant: the order lists rows only, whatever ends, aborts
\* and follow-up jobs do to it, and receivers only hear of ended ingest jobs.
THEOREM TypeCorrect == Spec => []TypeOK
<1>1. Init => Books
  BY DEF Init, Books
<1>2. IInv /\ Books => TypeOK
  BY DEF IInv, Types, Books, Payloads, TypeOK
<1> QED
  BY <1>1, <1>2, StepBooks, Invariance, PTL DEF Spec
=============================================================================
