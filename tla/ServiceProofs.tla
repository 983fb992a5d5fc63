---------------------------- MODULE ServiceProofs ----------------------------
(***************************************************************************)
(* The parts of the service that many requests go through at once: the LLM *)
(* call path, for any number of threads, slots and attempts and any        *)
(* threshold and cooldown, the Idempotency-Key, for any number of requests *)
(* and scopes, any TTL and any number of failures, the guard of the API,   *)
(* for any keys, subjects, tokens, rates and settings, and retention, for  *)
(* any rows, scopes, intervals, chunk size, clock and number of processes  *)
(* that purge at the same time.                                            *)
(*                                                                         *)
(* The type of the call path is not inductive alone: that releasing a slot *)
(* keeps the semaphore within its bound follows from SlotsConserved, and   *)
(* ProbeHasOwner needs neither more nor less than the clearing of the flag *)
(* by every record_*.                                                      *)
(*                                                                         *)
(* OneJobUnlessExpired is not inductive: it does not say what a request    *)
(* that is about to bind the key knows.  FirstBinding is: one binding is a *)
(* TTL older than every other.  It is kept because whoever commits a       *)
(* second binding has seen an expired row (Licensed), and that row was a   *)
(* committed binding (RowIsBound).                                         *)
(*                                                                         *)
(* What ties the steps of one guarded request together is the principal    *)
(* that authorize_request leaves for the limiter and the handler: it       *)
(* carries the columns of a key's row, or the pinned scope of an OIDC      *)
(* caller (Carried).  A bucket's account (BucketHonest) needs its times in *)
(* order and nothing admitted before its first use (Accounts).             *)
(***************************************************************************)
EXTENDS MCPlatform, FiniteSetTheorems, SequenceTheorems, TLAPS

\* The inductive invariant.
CallInv == TypeOK /\ SlotsConserved /\ ProbeHasOwner /\ OpenedByFailures

\* The callers inside the semaphore's with-block are finitely many.
LEMMA HoldersFinite == IsFiniteSet(Holders) /\ Cardinality(Holders) \in Nat
<1>1. Holders \subseteq Callers
  BY DEF Holders
<1>2. IsFiniteSet(Holders)
  BY <1>1, FS_Subset, BreakerConstants
<1> QED
  BY <1>2, FS_CardinalityType

\* A caller that acquires a slot is one more holder.
LEMMA AcquireCounts ==
  ASSUME CallInv, NEW c \in Callers, Acquire(c)
  PROVE  SlotsConserved' /\ free' \in 0 .. Slots
<1>1. Holders' = Holders \cup {c} /\ c \notin Holders
  BY DEF CallInv, TypeOK, Acquire, Holders
<1>2. Cardinality(Holders') = Cardinality(Holders) + 1
  BY <1>1, HoldersFinite, FS_AddElement
<1> QED
  BY <1>2, HoldersFinite, BreakerConstants DEF CallInv, TypeOK, Acquire, SlotsConserved

\* A caller that leaves the with-block gives its slot back, once.
LEMMA LeaveCounts ==
  ASSUME CallInv, NEW c \in Callers, pc[c] \in {"admit", "calling"}, Leave(c)
  PROVE  SlotsConserved' /\ free' \in 0 .. Slots
<1>1. Holders' = Holders \ {c} /\ c \in Holders
  BY DEF CallInv, TypeOK, Leave, Holders
<1>2. Cardinality(Holders') = Cardinality(Holders) - 1
  BY <1>1, HoldersFinite, FS_RemoveElement
<1>3. Cardinality(Holders) # 0
  BY <1>1, HoldersFinite, FS_EmptySet
<1> QED
  BY <1>2, <1>3, HoldersFinite, BreakerConstants DEF CallInv, TypeOK, Leave, SlotsConserved

\* Leaving the with-block resets the caller's own fields within their types.
LEMMA LeaveTypes ==
  ASSUME CallInv, NEW c \in Callers, Leave(c)
  PROVE  /\ pc' \in [Callers -> {"idle", "waiting", "admit", "calling"}]
         /\ tries' \in [Callers -> 0 .. (Attempts - 1)]
         /\ probing' \in [Callers -> BOOLEAN]
  BY BreakerConstants DEF CallInv, TypeOK, Leave

\* A step that keeps the semaphore and the holders keeps the count.
LEMMA SameHolders ==
  ASSUME CallInv, free' = free, Holders' = Holders
  PROVE  SlotsConserved' /\ free' \in 0 .. Slots
  BY DEF CallInv, TypeOK, SlotsConserved

\* The initial state satisfies the inductive invariant.
LEMMA CallInit == Init => CallInv
<1> SUFFICES ASSUME Init PROVE CallInv
  OBVIOUS
<1>1. TypeOK
  <2>1. free \in 0 .. Slots /\ failures \in 0 .. MaxFailed
    BY BreakerConstants DEF Init
  <2>2. tries \in [Callers -> 0 .. (Attempts - 1)]
    BY BreakerConstants DEF Init
  <2>3. /\ pc \in [Callers -> {"idle", "waiting", "admit", "calling"}]
        /\ probing \in [Callers -> BOOLEAN]
    BY DEF Init
  <2>4. opened \in (0 .. Cooldown) \cup {NotOpened} /\ probe \in BOOLEAN
    BY Zenon DEF Init
  <2> QED
    BY <2>1, <2>2, <2>3, <2>4 DEF TypeOK
<1>2. Holders = {}
  BY DEF Init, Holders
<1>3. SlotsConserved
  BY <1>2, FS_EmptySet, BreakerConstants DEF Init, SlotsConserved
<1>4. ProbeHasOwner /\ OpenedByFailures
  BY DEF Init, ProbeHasOwner, OpenedByFailures
<1> QED
  BY <1>1, <1>3, <1>4 DEF CallInv

\* Asking and acquiring leave the breaker alone.
LEMMA QueueStep ==
  ASSUME CallInv, NEW c \in Callers, Ask(c) \/ Acquire(c)
  PROVE  CallInv'
<1>1. CASE Ask(c)
  <2>1. Holders' = Holders
    BY <1>1 DEF CallInv, TypeOK, Ask, Holders
  <2>2. SlotsConserved' /\ free' \in 0 .. Slots
    BY <1>1, <2>1, SameHolders DEF Ask
  <2>3. TypeOK'
    BY <1>1, <2>2 DEF CallInv, TypeOK, Ask, breaker
  <2>4. ProbeHasOwner' /\ OpenedByFailures'
    BY <1>1 DEF CallInv, TypeOK, Ask, breaker, ProbeHasOwner, OpenedByFailures
  <2> QED
    BY <2>2, <2>3, <2>4 DEF CallInv
<1>2. CASE Acquire(c)
  <2>1. SlotsConserved' /\ free' \in 0 .. Slots
    BY <1>2, AcquireCounts
  <2>2. TypeOK'
    BY <1>2, <2>1 DEF CallInv, TypeOK, Acquire, breaker
  <2>3. ProbeHasOwner' /\ OpenedByFailures'
    BY <1>2 DEF CallInv, TypeOK, Acquire, breaker, ProbeHasOwner, OpenedByFailures
  <2> QED
    BY <2>1, <2>2, <2>3 DEF CallInv
<1> QED
  BY <1>1, <1>2

\* Admission: a refused or over-budget caller was never the probe's owner, an
\* admitted one becomes it.
LEMMA AdmissionStep ==
  ASSUME CallInv, NEW c \in Callers, Admission(c)
  PROVE  CallInv'
<1>1. CASE OverBudget(c) \/ Refuse(c)
  <2>1. pc[c] = "admit" /\ Leave(c) /\ UNCHANGED breaker
    BY <1>1 DEF OverBudget, Refuse
  <2>2. SlotsConserved' /\ free' \in 0 .. Slots
    BY <2>1, LeaveCounts
  <2>3. TypeOK'
    BY <2>1, <2>2, BreakerConstants DEF CallInv, TypeOK, Leave, breaker
  <2>4. ProbeHasOwner'
    BY <2>1 DEF CallInv, TypeOK, Leave, breaker, ProbeHasOwner
  <2>5. OpenedByFailures'
    BY <2>1 DEF CallInv, breaker, OpenedByFailures
  <2> QED
    BY <2>2, <2>3, <2>4, <2>5 DEF CallInv
<1>2. CASE Admit(c)
  <2>1. Holders' = Holders
    BY <1>2 DEF CallInv, TypeOK, Admit, Holders
  <2>2. SlotsConserved' /\ free' \in 0 .. Slots
    BY <1>2, <2>1, SameHolders DEF Admit
  <2>3. TypeOK'
    BY <1>2, <2>2 DEF CallInv, TypeOK, Admit
  <2>4. ProbeHasOwner'
    <3>1. SUFFICES ASSUME probe' PROVE \E d \in Callers : pc'[d] = "calling" /\ probing'[d]
      BY DEF ProbeHasOwner
    <3>2. CASE State = "half_open"
      <4>1. pc'[c] = "calling" /\ probing'[c]
        BY <1>2, <3>2 DEF Admit, CallInv, TypeOK
      <4> QED
        BY <4>1
    <3>3. CASE State # "half_open"
      <4>1. State = "closed" /\ probe
        BY <1>2, <3>1, <3>3 DEF Admit
      <4>2. opened # NotOpened
        BY <4>1 DEF CallInv, OpenedByFailures
      <4>3. State # "closed"
        BY <4>2 DEF State
      <4> QED
        BY <4>1, <4>3
    <3> QED
      BY <3>2, <3>3
  <2>5. OpenedByFailures'
    <3>1. State = "half_open" => opened # NotOpened
      BY BreakerConstants DEF State
    <3> QED
      BY <1>2, <3>1 DEF CallInv, Admit, OpenedByFailures
  <2> QED
    BY <2>2, <2>3, <2>4, <2>5 DEF CallInv
<1> QED
  BY <1>1, <1>2 DEF Admission

\* The end of a call clears the probe flag, whoever the caller is.
LEMMA CallStep ==
  ASSUME CallInv, NEW c \in Callers, Call(c)
  PROVE  CallInv'
<1>1. CASE Retry(c)
  <2>1. Holders' = Holders
    BY <1>1 DEF Retry, Holders
  <2>2. SlotsConserved' /\ free' \in 0 .. Slots
    BY <1>1, <2>1, SameHolders DEF Retry
  <2>3. TypeOK'
    BY <1>1, <2>2, BreakerConstants DEF CallInv, TypeOK, Retry, breaker
  <2>4. ProbeHasOwner' /\ OpenedByFailures'
    BY <1>1 DEF CallInv, Retry, breaker, ProbeHasOwner, OpenedByFailures
  <2> QED
    BY <2>2, <2>3, <2>4 DEF CallInv
<1>2. CASE Succeed(c)
  <2>1. SlotsConserved' /\ free' \in 0 .. Slots
    BY <1>2, LeaveCounts DEF Succeed
  <2>2. TypeOK'
    <3>1. failures' \in 0 .. MaxFailed
      BY <1>2, BreakerConstants DEF Succeed, record_success
    <3>2. opened' \in (0 .. Cooldown) \cup {NotOpened} /\ probe' \in BOOLEAN
      BY <1>2, Zenon DEF Succeed, record_success
    <3> QED
      BY <1>2, <2>1, <3>1, <3>2, LeaveTypes DEF Succeed, TypeOK
  <2>3. ProbeHasOwner' /\ OpenedByFailures'
    BY <1>2 DEF Succeed, record_success, ProbeHasOwner, OpenedByFailures
  <2> QED
    BY <2>1, <2>2, <2>3 DEF CallInv
<1>3. CASE Fail(c)
  <2>1. SlotsConserved' /\ free' \in 0 .. Slots
    BY <1>3, LeaveCounts DEF Fail
  <2>2. TypeOK'
    <3>1. failures' \in 0 .. MaxFailed
      BY <1>3, BreakerConstants DEF CallInv, TypeOK, Fail, record_failure
    <3>2. Cooldown \in 0 .. Cooldown
      BY BreakerConstants
    <3>3. opened' \in (0 .. Cooldown) \cup {NotOpened} /\ probe' \in BOOLEAN
      BY <1>3, <3>2, Zenon DEF CallInv, TypeOK, Fail, record_failure
    <3> QED
      BY <1>3, <2>1, <3>1, <3>3, LeaveTypes DEF Fail, TypeOK
  <2>3. ProbeHasOwner'
    BY <1>3 DEF Fail, record_failure, ProbeHasOwner
  <2>4. OpenedByFailures'
    BY <1>3, BreakerConstants DEF CallInv, TypeOK, Fail, record_failure, OpenedByFailures
  <2> QED
    BY <2>1, <2>2, <2>3, <2>4 DEF CallInv
<1> QED
  BY <1>1, <1>2, <1>3 DEF Call

\* The clock only shortens the cooldown.
LEMMA ClockStep ==
  ASSUME CallInv, CooldownPasses
  PROVE  CallInv'
<1>1. opened # NotOpened /\ opened \in 1 .. Cooldown
  BY BreakerConstants DEF CallInv, TypeOK, CooldownPasses, State
<1>2. Holders' = Holders
  BY DEF CooldownPasses, Holders
<1>3. SlotsConserved' /\ free' \in 0 .. Slots
  BY <1>2, SameHolders DEF CooldownPasses
<1>4. opened' \in 0 .. Cooldown /\ opened' # NotOpened
  BY <1>1, BreakerConstants DEF CooldownPasses
<1>5. TypeOK'
  BY <1>3, <1>4 DEF CallInv, TypeOK, CooldownPasses
<1>6. ProbeHasOwner' /\ OpenedByFailures'
  BY <1>1, <1>4 DEF CallInv, CooldownPasses, ProbeHasOwner, OpenedByFailures
<1> QED
  BY <1>3, <1>5, <1>6 DEF CallInv

\* Every step, and every stutter, preserves the inductive invariant.
LEMMA CallInvStep == CallInv /\ [Next]_vars => CallInv'
<1> SUFFICES ASSUME CallInv, [Next]_vars PROVE CallInv'
  OBVIOUS
<1>1. CASE UNCHANGED vars
  BY <1>1 DEF vars, CallInv, TypeOK, SlotsConserved, ProbeHasOwner, OpenedByFailures, Holders
<1>2. CASE CooldownPasses
  BY <1>2, ClockStep
<1>3. CASE \E c \in Callers : Caller(c)
  <2>1. PICK c \in Callers : Caller(c)
    BY <1>3
  <2> QED
    BY <2>1, QueueStep, AdmissionStep, CallStep DEF Caller
<1> QED
  BY <1>1, <1>2, <1>3 DEF Next

\* The inductive invariant holds in every reachable state.
THEOREM CallInvariance == Spec => []CallInv
  BY CallInit, CallInvStep, PTL DEF Spec

\* Type correctness of the LLM call path.
THEOREM TypeCorrect == Spec => []TypeOK
<1>1. CallInv => TypeOK
  BY DEF CallInv
<1> QED
  BY <1>1, CallInvariance, PTL

\* No slot of llm_concurrency_slot is leaked or released twice.
THEOREM SlotsNeverLeak == Spec => []SlotsConserved
<1>1. CallInv => SlotsConserved
  BY DEF CallInv
<1> QED
  BY <1>1, CallInvariance, PTL

\* _probe_in_flight never outlives the probe: the breaker cannot be wedged
\* half-open.
THEOREM ProbeNeverOrphaned == Spec => []ProbeHasOwner
<1>1. CallInv => ProbeHasOwner
  BY DEF CallInv
<1> QED
  BY <1>1, CallInvariance, PTL

\* The breaker is open only after Threshold consecutive failures.
THEOREM OpenOnlyByFailures == Spec => []OpenedByFailures
<1>1. CallInv => OpenedByFailures
  BY DEF CallInv
<1> QED
  BY <1>1, CallInvariance, PTL
-----------------------------------------------------------------------------
(* Idempotency keys.                                                       *)

PCs == {"start", "enqueue", "reread", "delete", "deleting", "insert", "commit", "done"}
RowType == [job : Requests, expires : Nat]
RequestType == [pc : PCs, scope : Scopes \cup {NoRow}, read : RowType \cup {NoRow},
                at : (0 .. MaxClock) \cup {NoTime}]

\* What the types say beyond KeyTypeOK: past the lookup a request has a scope,
\* past the insert of its job a clock, and before its end no answer.
KeyTypes ==
  /\ KeyTypeOK
  /\ req \in [Requests -> RequestType]
  /\ response \in [Requests -> Requests \cup {"none", "409", "429", "500"}]
  /\ \A r \in Requests :
       /\ req[r].pc \notin {"start", "done"} => req[r].scope \in Scopes
       /\ req[r].pc \in {"reread", "delete", "deleting", "insert", "commit"} =>
            req[r].at \in 0 .. MaxClock
       /\ req[r].pc # "done" => response[r] = "none"

\* The committed row is that of a committed binding and names a committed job.
RowIsBound ==
  /\ keyrow = NoRow => bound = {}
  /\ keyrow # NoRow =>
       /\ \E b \in bound : b.job = keyrow.job /\ b.at + TTL = keyrow.expires
       /\ \E j \in jobs : j.id = keyrow.job

\* Some binding had expired when request r took its clock.
SawExpiry(r) == \E c \in bound : c.at + TTL <= req[r].at

\* Who is about to replace the row has seen one expire; who holds the key without
\* that holds it because there is no row at all.
Licensed ==
  \A r \in Requests :
    /\ holder = r => req[r].pc \in {"insert", "commit"}
    /\ req[r].pc \in {"delete", "deleting"} => SawExpiry(r)
    /\ req[r].pc = "insert" => SawExpiry(r) \/ holder # r
    /\ req[r].pc = "commit" => holder = r /\ (SawExpiry(r) \/ keyrow = NoRow)

\* The first binding had expired before any other was made.
FirstBinding ==
  bound # {} => \E f \in bound : \A b \in bound : b = f \/ f.at + TTL <= b.at

KeyInv == KeyTypes /\ RowIsBound /\ Licensed /\ FirstBinding /\ JobsMatchAnswers
-----------------------------------------------------------------------------
LEMMA KeyStart == KeyInit => KeyInv
<1> SUFFICES ASSUME KeyInit PROVE KeyInv
  OBVIOUS
<1>1. KeyTypes
  BY KeyConstants DEF KeyInit, KeyTypes, KeyTypeOK, RequestType, PCs, RowType, NewRequest
<1>2. RowIsBound /\ Licensed /\ FirstBinding
  BY KeyConstants DEF KeyInit, RowIsBound, Licensed, FirstBinding, NewRequest
<1>3. JobsMatchAnswers
  BY KeyConstants DEF KeyInit, JobsMatchAnswers, NoOrphanJob, AnswerNamesOwnJob
<1> QED
  BY <1>1, <1>2, <1>3 DEF KeyInv

\* A replay hands out the bound job only to a caller of that job's scope.
LEMMA ReplayIsOwn ==
  ASSUME KeyInv, keyrow # NoRow, NEW scope \in Scopes
  PROVE  /\ replay(scope, keyrow) \in Requests \cup {"409"}
         /\ replay(scope, keyrow) \in Requests =>
              [id |-> replay(scope, keyrow), scope |-> scope] \in jobs
<1> DEFINE j == CHOOSE k \in jobs : k.id = keyrow.job
<1>1. j \in jobs /\ j.id = keyrow.job
  BY DEF KeyInv, RowIsBound
<1>2. j \in [id : Requests, scope : Scopes] /\ keyrow.job \in Requests
  BY <1>1 DEF KeyInv, KeyTypes, KeyTypeOK
<1>3. scope_of(keyrow.job) = j.scope
  BY DEF scope_of
<1>4. j = [id |-> keyrow.job, scope |-> j.scope]
  BY <1>1, <1>2
<1> QED
  BY <1>1, <1>2, <1>3, <1>4, KeyConstants DEF replay

\* Request r moves to p, with scope s and clock t; no other request moves.
Moved(r, p, s, t) ==
  /\ req' \in [Requests -> RequestType]
  /\ req'[r].pc = p /\ req'[r].scope = s /\ req'[r].at = t
  /\ \A q \in Requests : q # r => req'[q] = req[q]

LEMMA MovedTypes ==
  ASSUME KeyInv, NEW r \in Requests, NEW p \in PCs, NEW s, NEW t, Moved(r, p, s, t),
         now' \in 0 .. MaxClock, keyrow' \in RowType \cup {NoRow},
         holder' \in Requests \cup {NoRequest},
         jobs' \subseteq [id : Requests, scope : Scopes],
         bound' \subseteq [job : Requests, at : 0 .. MaxClock], aborts' \in 0 .. MaxAborts,
         NEW code \in Requests \cup {"none", "409", "429", "500"},
         response' = [response EXCEPT ![r] = code],
         p \notin {"start", "done"} => s \in Scopes,
         p \in {"reread", "delete", "deleting", "insert", "commit"} => t \in 0 .. MaxClock,
         p # "done" => code = "none"
  PROVE  KeyTypes'
<1>1. response' \in [Requests -> Requests \cup {"none", "409", "429", "500"}]
      /\ response'[r] = code /\ \A q \in Requests : q # r => response'[q] = response[q]
  BY DEF KeyInv, KeyTypes
<1>2. \A q \in Requests :
        /\ req'[q].pc \notin {"start", "done"} => req'[q].scope \in Scopes
        /\ req'[q].pc \in {"reread", "delete", "deleting", "insert", "commit"} =>
             req'[q].at \in 0 .. MaxClock
        /\ req'[q].pc # "done" => response'[q] = "none"
  BY <1>1 DEF KeyInv, KeyTypes, Moved
<1>3. \A q \in Requests :
        /\ req'[q].pc \in PCs /\ req'[q].scope \in Scopes \cup {NoRow}
        /\ req'[q].at \in (0 .. MaxClock) \cup {NoTime}
  BY DEF Moved, RequestType
<1> QED
  BY <1>1, <1>2, <1>3 DEF KeyTypes, KeyTypeOK, Moved, PCs, RowType

\* A request that ends without binding keeps the invariant, whatever its answer,
\* if an answer that names a job names one of the request's own scope.
LEMMA EndStep ==
  ASSUME KeyInv, NEW r \in Requests, NEW s \in Scopes,
         NEW code \in Requests \cup {"409", "429", "500"},
         Moved(r, "done", s, req[r].at), req[r].pc # "done",
         response' = [response EXCEPT ![r] = code],
         holder' = IF holder = r THEN NoRequest ELSE holder,
         code \in Requests => [id |-> code, scope |-> s] \in jobs,
         UNCHANGED <<now, keyrow, jobs, bound>>, aborts' \in 0 .. MaxAborts
  PROVE  KeyInv'
<1>1. KeyTypes'
  <2>1. /\ now' \in 0 .. MaxClock /\ keyrow' \in RowType \cup {NoRow}
        /\ holder' \in Requests \cup {NoRequest}
        /\ jobs' \subseteq [id : Requests, scope : Scopes]
        /\ bound' \subseteq [job : Requests, at : 0 .. MaxClock]
    BY DEF KeyInv, KeyTypes, KeyTypeOK, RowType
  <2> QED
    BY <2>1, MovedTypes DEF PCs
<1>2. RowIsBound' /\ FirstBinding'
  BY DEF KeyInv, RowIsBound, FirstBinding
<1>3. Licensed'
  BY KeyConstants DEF KeyInv, Moved, Licensed, SawExpiry
<1>4. JobsMatchAnswers'
  BY KeyConstants DEF KeyInv, KeyTypes, Moved, JobsMatchAnswers, NoOrphanJob, AnswerNamesOwnJob
<1> QED
  BY <1>1, <1>2, <1>3, <1>4 DEF KeyInv

\* EndWith is such an end, from any state past the lookup.
LEMMA EndWithStep ==
  ASSUME KeyInv, NEW r \in Requests, NEW code \in Requests \cup {"409", "429", "500"},
         EndWith(r, code), req[r].pc \notin {"start", "done"},
         code \in Requests => [id |-> code, scope |-> req[r].scope] \in jobs,
         UNCHANGED <<now, keyrow, jobs, bound>>, aborts' \in 0 .. MaxAborts
  PROVE  KeyInv'
<1>1. Moved(r, "done", req[r].scope, req[r].at)
  BY DEF EndWith, KeyInv, KeyTypes, RequestType, PCs, Moved
<1>2. req[r].scope \in Scopes
  BY DEF KeyInv, KeyTypes
<1> QED
  BY <1>1, <1>2, EndStep DEF EndWith

\* A step of r that only moves r on, takes a clock or takes the key.
LEMMA MoveStep ==
  ASSUME KeyInv, NEW r \in Requests, NEW p \in PCs \ {"start", "done"}, NEW s \in Scopes, NEW t,
         Moved(r, p, s, t), response[r] = "none", holder' \in Requests \cup {NoRequest},
         p # "enqueue" => t \in 0 .. MaxClock,
         Licensed',
         UNCHANGED <<now, keyrow, jobs, bound, response, aborts>>
  PROVE  KeyInv'
<1>1. KeyTypes'
  <2>1. /\ now' \in 0 .. MaxClock /\ keyrow' \in RowType \cup {NoRow}
        /\ jobs' \subseteq [id : Requests, scope : Scopes]
        /\ bound' \subseteq [job : Requests, at : 0 .. MaxClock] /\ aborts' \in 0 .. MaxAborts
        /\ response' = [response EXCEPT ![r] = "none"]
    BY DEF KeyInv, KeyTypes, KeyTypeOK, RowType
  <2> QED
    BY <2>1, MovedTypes
<1>2. RowIsBound' /\ FirstBinding'
  BY DEF KeyInv, RowIsBound, FirstBinding
<1>3. JobsMatchAnswers'
  BY KeyConstants DEF KeyInv, Moved, JobsMatchAnswers, NoOrphanJob, AnswerNamesOwnJob
<1> QED
  BY <1>1, <1>2, <1>3 DEF KeyInv

LEMMA LookupStep ==
  ASSUME KeyInv, NEW r \in Requests, NEW scope \in Scopes, Lookup(r, scope)
  PROVE  KeyInv'
<1>1. CASE is_active(keyrow, now)
  <2>1. Moved(r, "done", scope, req[r].at)
    BY <1>1 DEF Lookup, KeyInv, KeyTypes, RequestType, PCs, Moved
  <2>2. /\ replay(scope, keyrow) \in Requests \cup {"409"}
        /\ replay(scope, keyrow) \in Requests =>
             [id |-> replay(scope, keyrow), scope |-> scope] \in jobs
    BY <1>1, ReplayIsOwn DEF is_active
  <2>3. holder' = IF holder = r THEN NoRequest ELSE holder
    BY DEF Lookup, KeyInv, Licensed
  <2>4. aborts' \in 0 .. MaxAborts
    BY DEF Lookup, KeyInv, KeyTypes, KeyTypeOK
  <2> QED
    BY <1>1, <2>1, <2>2, <2>3, <2>4, EndStep DEF Lookup
<1>2. CASE ~is_active(keyrow, now)
  <2>1. Moved(r, "enqueue", scope, req[r].at)
    BY <1>2 DEF Lookup, KeyInv, KeyTypes, RequestType, PCs, Moved
  <2>2. Licensed'
    BY <1>2, <2>1 DEF Lookup, KeyInv, Licensed, SawExpiry, Moved
  <2>3. response[r] = "none" /\ holder' \in Requests \cup {NoRequest}
    BY DEF Lookup, KeyInv, KeyTypes, KeyTypeOK
  <2> QED
    BY <1>2, <2>1, <2>2, <2>3, MoveStep DEF Lookup, PCs
<1> QED
  BY <1>1, <1>2

\* Past the lookup a request has a scope, no answer yet and, past the insert of
\* its job, a clock.
LEMMA Underway ==
  ASSUME KeyInv, NEW r \in Requests, req[r].pc \notin {"start", "done"}
  PROVE  /\ req[r].scope \in Scopes /\ response[r] = "none"
         /\ req[r].pc # "enqueue" => req[r].at \in 0 .. MaxClock
         /\ now \in 0 .. MaxClock /\ aborts \in 0 .. MaxAborts
         /\ holder \in Requests \cup {NoRequest}
<1>1. req[r].pc \in PCs
  BY DEF KeyInv, KeyTypes, RequestType
<1> QED
  BY <1>1 DEF KeyInv, KeyTypes, KeyTypeOK, PCs

LEMMA InsertJobStep ==
  ASSUME KeyInv, NEW r \in Requests, InsertJob(r)
  PROVE  KeyInv'
<1>1. Moved(r, "reread", req[r].scope, now)
  BY ZenonT(40) DEF InsertJob, KeyInv, KeyTypes, KeyTypeOK, RequestType, PCs, Moved
<1>2. Licensed'
  BY <1>1 DEF InsertJob, KeyInv, Licensed, SawExpiry, Moved
<1> QED
  BY <1>1, <1>2, Underway, MoveStep DEF InsertJob, PCs

LEMMA RereadStep ==
  ASSUME KeyInv, NEW r \in Requests, Reread(r)
  PROVE  KeyInv'
<1>0. req[r].pc = "reread" /\ req[r].scope \in Scopes /\ req[r].at \in 0 .. MaxClock
  BY Underway DEF Reread
<1>1. CASE is_active(keyrow, req[r].at)
  <2>1. /\ replay(req[r].scope, keyrow) \in Requests \cup {"409"}
        /\ replay(req[r].scope, keyrow) \in Requests =>
             [id |-> replay(req[r].scope, keyrow), scope |-> req[r].scope] \in jobs
    BY <1>0, <1>1, ReplayIsOwn DEF is_active
  <2> QED
    BY <1>0, <1>1, <2>1, EndWithStep, Underway DEF Reread
<1>2. CASE ~is_active(keyrow, req[r].at)
  <2> DEFINE p == IF keyrow = NoRow THEN "insert" ELSE "delete"
  <2>1. Moved(r, p, req[r].scope, req[r].at)
    BY <1>2 DEF Reread, KeyInv, KeyTypes, KeyTypeOK, RequestType, RowType, PCs, Moved
  <2>2. keyrow # NoRow => SawExpiry(r)
    <3>1. keyrow # NoRow => keyrow.expires <= req[r].at
      BY <1>0, <1>2 DEF is_active, KeyInv, KeyTypes, KeyTypeOK
    <3> QED
      BY <3>1 DEF KeyInv, RowIsBound, SawExpiry
  <2>3. holder # r
    BY <1>0 DEF KeyInv, Licensed
  <2>4. Licensed'
    BY <1>2, <2>1, <2>2, <2>3 DEF Reread, KeyInv, Licensed, SawExpiry, Moved
  <2> QED
    BY <1>0, <1>2, <2>1, <2>4, Underway, MoveStep DEF Reread, PCs
<1> QED
  BY <1>1, <1>2

LEMMA DeleteStep ==
  ASSUME KeyInv, NEW r \in Requests, DeleteExpired(r) \/ DeleteResumes(r)
  PROVE  KeyInv'
<1>0. req[r].pc \in {"delete", "deleting"} /\ SawExpiry(r)
  BY DEF DeleteExpired, DeleteResumes, KeyInv, Licensed
<1>1. PICK p \in {"deleting", "insert"} : Moved(r, p, req[r].scope, req[r].at)
                                     /\ (holder' = holder \/ (holder' = r /\ p = "insert" /\ holder = NoRequest))
  <2>1. CASE DeleteExpired(r) /\ holder # NoRequest
    <3>1. Moved(r, "deleting", req[r].scope, req[r].at)
      BY <2>1 DEF DeleteExpired, KeyInv, KeyTypes, KeyTypeOK, RequestType, RowType, PCs, Moved
    <3> QED
      BY <2>1, <3>1 DEF DeleteExpired
  <2>2. CASE (DeleteExpired(r) /\ holder = NoRequest) \/ DeleteResumes(r)
    <3>1. Moved(r, "insert", req[r].scope, req[r].at)
      BY <2>2, SMTT(30) DEF DeleteExpired, DeleteResumes, KeyInv, KeyTypes, RequestType, PCs, Moved
    <3> QED
      BY <2>2, <3>1 DEF DeleteExpired, DeleteResumes
  <2> QED
    BY <2>1, <2>2
<1>2. UNCHANGED <<now, keyrow, jobs, bound, response, aborts>>
  BY DEF DeleteExpired, DeleteResumes
<1>3. Licensed'
  BY <1>0, <1>1, <1>2, KeyConstants DEF KeyInv, Licensed, SawExpiry, Moved
<1>4. p \in PCs \ {"start", "done"} /\ holder' \in Requests \cup {NoRequest}
  BY <1>1, <1>0, Underway DEF PCs
<1> QED
  BY <1>0, <1>1, <1>2, <1>3, <1>4, Underway, MoveStep

LEMMA InsertKeyStep ==
  ASSUME KeyInv, NEW r \in Requests, InsertKey(r)
  PROVE  KeyInv'
<1>1. Moved(r, "commit", req[r].scope, req[r].at)
  BY DEF InsertKey, KeyInv, KeyTypes, RequestType, PCs, Moved
<1>2. Licensed'
  BY <1>1, KeyConstants DEF InsertKey, KeyInv, Licensed, SawExpiry, Moved
<1> QED
  BY <1>1, <1>2, Underway, MoveStep DEF InsertKey, PCs

LEMMA RaceLostStep ==
  ASSUME KeyInv, NEW r \in Requests, RaceLost(r)
  PROVE  KeyInv'
<1>1. req[r].pc = "insert" /\ req[r].scope \in Scopes
  BY Underway DEF RaceLost
<1>2. /\ replay(req[r].scope, keyrow) \in Requests \cup {"409"}
      /\ replay(req[r].scope, keyrow) \in Requests =>
           [id |-> replay(req[r].scope, keyrow), scope |-> req[r].scope] \in jobs
  BY <1>1, ReplayIsOwn DEF RaceLost
<1>3. "500" \notin Requests
  BY KeyConstants
<1> QED
  BY <1>1, <1>2, <1>3, EndWithStep, Underway DEF RaceLost

\* The commit: the row, the job and the binding appear together.
LEMMA CommitStep ==
  ASSUME KeyInv, NEW r \in Requests, Commit(r)
  PROVE  KeyInv'
<1> DEFINE b == [job |-> r, at |-> req[r].at]
           j == [id |-> r, scope |-> req[r].scope]
<1>0. /\ req[r].pc = "commit" /\ req[r].scope \in Scopes /\ req[r].at \in 0 .. MaxClock
      /\ holder = r /\ (SawExpiry(r) \/ keyrow = NoRow) /\ TTL \in Nat
  BY Underway, KeyConstants DEF Commit, KeyInv, Licensed
<1>1. Moved(r, "done", req[r].scope, req[r].at)
  BY DEF Commit, EndWith, KeyInv, KeyTypes, RequestType, PCs, Moved
<1>2. /\ keyrow' = [job |-> r, expires |-> req[r].at + TTL]
      /\ jobs' = jobs \cup {j} /\ bound' = bound \cup {b} /\ UNCHANGED <<now, aborts>>
      /\ response' = [response EXCEPT ![r] = r] /\ holder' = NoRequest
  BY <1>0 DEF Commit, EndWith
<1>3. KeyTypes'
  <2>1. /\ now' \in 0 .. MaxClock /\ keyrow' \in RowType \cup {NoRow}
        /\ jobs' \subseteq [id : Requests, scope : Scopes]
        /\ bound' \subseteq [job : Requests, at : 0 .. MaxClock] /\ aborts' \in 0 .. MaxAborts
    BY <1>0, <1>2 DEF KeyInv, KeyTypes, KeyTypeOK, RowType
  <2> QED
    BY <1>1, <1>2, <2>1, MovedTypes DEF PCs
<1>4. RowIsBound'
  <2>1. keyrow' # NoRow
    BY <1>0, <1>2, KeyConstants
  <2>2. b \in bound' /\ b.job = keyrow'.job /\ b.at + TTL = keyrow'.expires
    BY <1>2
  <2>3. j \in jobs' /\ j.id = keyrow'.job
    BY <1>2
  <2> QED
    BY <2>1, <2>2, <2>3 DEF RowIsBound
<1>5. Licensed'
  <2>1. \A q \in Requests : q # r => (holder # q /\ req[q].pc # "commit")
    BY <1>0 DEF KeyInv, Licensed
  <2>2. \A q \in Requests : q # r /\ SawExpiry(q) => SawExpiry(q)'
    BY <1>1, <1>2 DEF SawExpiry, Moved
  <2> QED
    BY <1>1, <1>2, <2>1, <2>2, KeyConstants DEF KeyInv, Licensed, Moved
<1>6. FirstBinding'
  <2>1. CASE bound = {}
    BY <1>2, <2>1 DEF FirstBinding
  <2>2. CASE bound # {}
    <3>1. PICK f \in bound : \A x \in bound : x = f \/ f.at + TTL <= x.at
      BY <2>2 DEF KeyInv, FirstBinding
    <3>2. PICK c \in bound : c.at + TTL <= req[r].at
      BY <1>0, <2>2 DEF KeyInv, RowIsBound, SawExpiry
    <3>3. f.at \in Nat /\ c.at \in Nat
      BY KeyConstants DEF KeyInv, KeyTypes, KeyTypeOK
    <3>4. f.at + TTL <= b.at
      BY <1>0, <3>1, <3>2, <3>3
    <3> QED
      BY <1>2, <3>1, <3>4 DEF FirstBinding
  <2> QED
    BY <2>1, <2>2
<1>7. JobsMatchAnswers'
  <2>1. NoOrphanJob'
    <3>1. j.id = r /\ b.job = r
      OBVIOUS
    <3> HIDE DEF j, b
    <3>2. \A i : (\E k \in jobs' : k.id = i) <=> (\E x \in bound' : x.job = i)
      <4>1. \A i : (\E k \in jobs : k.id = i) <=> (\E x \in bound : x.job = i)
        BY DEF KeyInv, JobsMatchAnswers, NoOrphanJob
      <4> QED
        BY <1>2, <3>1, <4>1
    <3> QED
      BY <3>2 DEF NoOrphanJob
  <2>2. AnswerNamesOwnJob'
    BY <1>1, <1>2 DEF KeyInv, KeyTypes, Moved, JobsMatchAnswers, AnswerNamesOwnJob
  <2> QED
    BY <2>1, <2>2 DEF JobsMatchAnswers
<1> QED
  BY <1>3, <1>4, <1>5, <1>6, <1>7 DEF KeyInv

LEMMA KeyInvStep == KeyInv /\ [KeyNext]_keyVars => KeyInv'
<1> SUFFICES ASSUME KeyInv, [KeyNext]_keyVars PROVE KeyInv'
  OBVIOUS
<1>1. ASSUME NEW r \in Requests, NEW scope \in Scopes, Lookup(r, scope) PROVE KeyInv'
  BY <1>1, LookupStep
<1>2. ASSUME NEW r \in Requests, QueueFull(r) PROVE KeyInv'
  BY <1>2, EndWithStep, Underway, KeyConstants DEF QueueFull
<1>3. ASSUME NEW r \in Requests, Serve(r), ~QueueFull(r) PROVE KeyInv'
  BY <1>3, InsertJobStep, RereadStep, DeleteStep, InsertKeyStep, RaceLostStep, CommitStep DEF Serve
<1>4. ASSUME NEW r \in Requests, Abort(r) PROVE KeyInv'
  <2>1. aborts' \in 0 .. MaxAborts
    BY <1>4, KeyConstants DEF Abort, KeyInv, KeyTypes, KeyTypeOK
  <2> QED
    BY <1>4, <2>1, EndWithStep, KeyConstants DEF Abort
<1>5. CASE ClockTicks
  <2>1. now' \in 0 .. MaxClock
    BY <1>5, KeyConstants DEF ClockTicks, KeyInv, KeyTypes, KeyTypeOK
  <2>2. KeyTypes'
    BY <1>5, <2>1 DEF ClockTicks, KeyInv, KeyTypes, KeyTypeOK
  <2> QED
    BY <1>5, <2>2 DEF ClockTicks, KeyInv, RowIsBound, Licensed, SawExpiry, FirstBinding,
                      JobsMatchAnswers, NoOrphanJob, AnswerNamesOwnJob
<1>6. CASE UNCHANGED keyVars
  BY <1>6 DEF keyVars, KeyInv, KeyTypes, KeyTypeOK, RowIsBound, Licensed, SawExpiry, FirstBinding,
              JobsMatchAnswers, NoOrphanJob, AnswerNamesOwnJob
<1> QED
  BY <1>1, <1>2, <1>3, <1>4, <1>5, <1>6 DEF KeyNext

\* The inductive invariant holds in every reachable state.
THEOREM KeyInvariance == KeySpec => []KeyInv
  BY KeyStart, KeyInvStep, PTL DEF KeySpec

\* Type correctness of the key row, the requests and their answers.
THEOREM KeyTypeCorrect == KeySpec => []KeyTypeOK
<1>1. KeyInv => KeyTypeOK
  BY DEF KeyInv, KeyTypes
<1> QED
  BY <1>1, KeyInvariance, PTL

\* Requests that race for a key whose binding has not expired start no second
\* job, for any number of requests: two jobs less than a TTL apart both came
\* after a binding that had expired for both (store_idempotency_key).
THEOREM NoSecondJobBeforeExpiry == KeySpec => []OneJobUnlessExpired
<1>1. KeyInv => OneJobUnlessExpired
  <2> SUFFICES ASSUME KeyInv, NEW a \in bound, NEW b \in bound, a.job # b.job,
                      a.at - b.at < TTL, b.at - a.at < TTL
               PROVE  \E c \in bound : c.at + TTL <= a.at /\ c.at + TTL <= b.at
    BY DEF OneJobUnlessExpired
  <2>1. PICK f \in bound : \A x \in bound : x = f \/ f.at + TTL <= x.at
    BY DEF KeyInv, FirstBinding
  <2>2. a.at \in Nat /\ b.at \in Nat /\ f.at \in Nat /\ TTL \in Nat
    BY KeyConstants DEF KeyInv, KeyTypes, KeyTypeOK
  <2> QED
    BY <2>1, <2>2
<1> QED
  BY <1>1, KeyInvariance, PTL

\* The loser of a race leaves no job behind, and a 202 names a committed job of
\* the caller's own scope, whatever dies or fails to commit on the way.
THEOREM AnswersNameCommittedJobs == KeySpec => []JobsMatchAnswers
<1>1. KeyInv => JobsMatchAnswers
  BY DEF KeyInv
<1> QED
  BY <1>1, KeyInvariance, PTL
-----------------------------------------------------------------------------
(***************************************************************************)
(* The API guard.                                                          *)
(***************************************************************************)
\* What authentication makes of a caller: an override comes from the key's row.
Principals ==
  [method : {"none", "api_key", "oidc"}, id : ApiKeys \cup Subjects \cup {Nobody},
   role : Roles \cup {Nobody}, scope : ReqScopes \cup {NoScope, Default}, override : BOOLEAN]
Carried(who) ==
  /\ who \in Principals
  /\ who.override => who.method = "api_key" /\ KeyOverride[who.id]

RequestState == [pc : {"limit", "handle"}, ep : Endpoints, who : Principals, scope : ReqScopes]
BucketState == [fresh : BOOLEAN, at : Nat, born : Nat, level : Nat]

GuardTypes ==
  /\ tick \in Nat
  /\ buckets \in [Buckets -> BucketState]
  /\ admitted \in [Buckets -> Nat]
  /\ request # Nobody => request \in RequestState /\ Carried(request.who)

Accounts ==
  \A b \in Buckets :
    /\ buckets[b].at <= tick /\ buckets[b].born <= buckets[b].at
    /\ buckets[b].fresh => admitted[b] = 0

GuardInv == GuardTypes /\ Accounts /\ ScopeConfined /\ JudgedAsIssuerWould /\ BucketHonest
-----------------------------------------------------------------------------
LEMMA CapacityFacts == Capacity \in Nat /\ UnitsPerToken <= Capacity
  BY GuardConstants DEF Capacity

LEMMA Distribute ==
  ASSUME NEW a \in Int, NEW b \in Int, NEW c \in Int, NEW u \in Int
  PROVE  (b - c) * u + (a - b) * u = (a - c) * u /\ (a + 1) * u = a * u + u
  OBVIOUS

LEMMA NatProduct ==
  ASSUME NEW a \in Nat, NEW u \in Nat
  PROVE  a * u \in Nat
  OBVIOUS
-----------------------------------------------------------------------------
(* Who is let in.                                                          *)

LEMMA PrincipalFacts ==
  ASSUME NEW tok \in KeyTokens \cup Jwts, NEW up \in BOOLEAN, NEW p \in authenticate(tok, up)
  PROVE  Carried(p)
<1>1. CASE tok.kind = "jwt"
  <2>1. tok \in Jwts /\ p = OidcPrincipal(tok)
    BY <1>1 DEF authenticate, KeyTokens, Jwts
  <2>2. tok.id \in Subjects \cup {Nobody} /\ role_from_claims(tok.claim) \in Roles
    BY <2>1 DEF Jwts, role_from_claims, Roles
  <2> QED
    BY <2>1, <2>2 DEF OidcPrincipal, Carried, Principals
<1>2. CASE tok.kind # "jwt"
  <2>1. tok \in KeyTokens /\ p = KeyPrincipal(tok.id)
    BY <1>2 DEF authenticate, KeyTokens, Jwts
  <2>2. tok.id \in ApiKeys
    BY <2>1 DEF KeyTokens
  <2> QED
    BY <2>1, <2>2, GuardConstants DEF KeyPrincipal, Carried, Principals
<1> QED
  BY <1>1, <1>2

LEMMA AnonymousFacts == Carried(Anonymous)
  BY DEF Anonymous, Carried, Principals

\* A key is judged by its row, a JWT by the current signing key unless the JWKS
\* document is stale or cannot be had.
LEMMA Judgement ==
  ASSUME NEW tok \in KeyTokens \cup Jwts, NEW up \in BOOLEAN,
         \/ tok.kind = "key" /\ config.mode \in {"api_key", "both"}
         \/ tok.kind = "jwt" /\ config.mode \in {"oidc", "both"} /\ jwks \in {idp, Nobody} /\ up
  PROVE  (authenticate(tok, up) # {}) <=> Vouched(tok)
<1>1. CASE tok.kind = "key"
  BY <1>1 DEF authenticate, find_verified_key, Vouched
<1>2. CASE tok.kind = "jwt"
  <2>1. get_jwks = idp
    BY <1>2 DEF get_jwks
  <2> QED
    BY <1>2, <2>1 DEF authenticate, validate_oidc_token, key_from_jwks, Vouched
<1> QED
  BY <1>1, <1>2

LEMMA AuthorizeStep ==
  ASSUME GuardInv, NEW ep \in Endpoints, NEW s \in ReqScopes, NEW tok \in KeyTokens \cup Jwts,
         Authorize(ep, tok, s)
  PROVE  GuardInv'
<1>1. /\ request = Nobody
      /\ config' = config /\ tick' = tick /\ buckets' = buckets /\ admitted' = admitted
  BY DEF Authorize
<1>2. PICK up \in BOOLEAN :
        LET who == authenticate(tok, up)
            may == {p \in who : p.role \in required_roles(ep)}
        IN /\ verdict' = Judged(tok, who # {}, up)
           /\ IF may = {}
              THEN /\ answer' = Ended(IF who = {} THEN 401 ELSE 403, Anonymous, NoScope)
                   /\ UNCHANGED request
              ELSE /\ request' = [pc |-> "limit", ep |-> ep, scope |-> s,
                                  who |-> CHOOSE p \in may : TRUE]
                   /\ answer' = NoAnswer
  BY DEF Authorize
<1> DEFINE who == authenticate(tok, up)
           may == {p \in who : p.role \in required_roles(ep)}
<1>3. JudgedAsIssuerWould'
  <2>1. CASE ~heeded(tok)
    BY <1>2, <2>1 DEF JudgedAsIssuerWould, Judged
  <2>2. CASE heeded(tok) /\ asks(tok) /\ (jwks \notin {idp, Nobody} \/ ~up)
    BY <1>2, <2>2 DEF JudgedAsIssuerWould, Judged
  <2>3. CASE heeded(tok) /\ (asks(tok) => jwks \in {idp, Nobody} /\ up)
    <3>1. (who # {}) <=> Vouched(tok)
      BY <2>3, Judgement DEF heeded, asks
    <3>2. (who # {}) = Vouched(tok)
      BY <3>1 DEF Vouched, KeyTokens, Jwts
    <3> QED
      BY <1>2, <2>3, <3>2 DEF JudgedAsIssuerWould, Judged
  <2> QED
    BY <2>1, <2>2, <2>3
<1>4. ScopeConfined'
  <2>1. CASE may = {}
    <3>1. \A x \in {401, 403} : Ended(x, Anonymous, NoScope).status # 200
      BY DEF Ended
    <3> QED
      BY <1>2, <2>1, <3>1 DEF ScopeConfined
  <2>2. CASE may # {}
    <3>1. NoAnswer.status # 200
      BY DEF Ended, NoAnswer
    <3> QED
      BY <1>2, <2>2, <3>1 DEF ScopeConfined
  <2> QED
    BY <2>1, <2>2
<1>5. ASSUME request' # Nobody PROVE request' \in RequestState /\ Carried(request'.who)
  <2> DEFINE p == CHOOSE x \in may : TRUE
  <2>1. may # {} /\ request' = [pc |-> "limit", ep |-> ep, scope |-> s, who |-> p]
    BY <1>1, <1>2, <1>5
  <2>2. Carried(p)
    BY <2>1, PrincipalFacts
  <2> HIDE DEF p
  <2> QED
    BY <2>1, <2>2 DEF RequestState, Carried
<1>6. GuardTypes'
  BY <1>1, <1>5 DEF GuardInv, GuardTypes
<1>7. Accounts' /\ BucketHonest'
  BY <1>1 DEF GuardInv, Accounts, BucketHonest
<1> QED
  BY <1>3, <1>4, <1>6, <1>7 DEF GuardInv

LEMMA PassOpenStep ==
  ASSUME GuardInv, NEW ep \in Endpoints, NEW s \in ReqScopes, PassOpen(ep, s)
  PROVE  GuardInv'
<1>1. /\ config' = config /\ tick' = tick /\ buckets' = buckets /\ admitted' = admitted /\ verdict' = verdict
      /\ request' = [pc |-> "limit", ep |-> ep, who |-> Anonymous, scope |-> s] /\ answer' = NoAnswer
  BY DEF PassOpen
<1>2. request' \in RequestState /\ Carried(request'.who)
  BY <1>1, AnonymousFacts DEF RequestState, Carried
<1>3. NoAnswer.status # 200
  BY DEF NoAnswer, Ended
<1>4. GuardTypes'
  BY <1>1, <1>2 DEF GuardInv, GuardTypes
<1>5. Accounts' /\ BucketHonest' /\ JudgedAsIssuerWould' /\ ScopeConfined'
  BY <1>1, <1>3 DEF GuardInv, Accounts, BucketHonest, JudgedAsIssuerWould, ScopeConfined
<1> QED
  BY <1>4, <1>5 DEF GuardInv
-----------------------------------------------------------------------------
(* The limiter's account.                                                  *)

\* One consume() of a bucket: the account balances before and after.
LEMMA Consume ==
  ASSUME NEW x \in BucketState, NEW t \in Nat, x.at <= t, x.born <= x.at, NEW n \in Nat,
         x.fresh => n = 0,
         ~x.fresh => /\ Capacity <= n * UnitsPerToken + x.level
                     /\ n * UnitsPerToken + x.level <= Capacity + (x.at - x.born) * UnitsPerTick,
         NEW lv, lv = IF x.fresh \/ x.level + (t - x.at) * UnitsPerTick > Capacity THEN Capacity
                      ELSE x.level + (t - x.at) * UnitsPerTick,
         NEW bn, bn = IF x.fresh THEN t ELSE x.born
  PROVE  /\ lv \in Nat /\ bn \in Nat /\ bn <= t
         /\ Capacity <= n * UnitsPerToken + lv
         /\ n * UnitsPerToken + lv <= Capacity + (t - bn) * UnitsPerTick
<1> DEFINE U == UnitsPerTick
           T == n * UnitsPerToken
           d == (t - x.at) * U
<1>1. /\ U \in Nat /\ Capacity \in Nat /\ UnitsPerToken \in Nat
      /\ x.level \in Nat /\ x.at \in Nat /\ x.born \in Nat /\ x.fresh \in BOOLEAN
  BY GuardConstants, CapacityFacts DEF BucketState
<1>2. T \in Nat /\ d \in Nat
  <2>1. t - x.at \in Nat
    BY <1>1
  <2> QED
    BY <1>1, <2>1, NatProduct
<1>3. CASE x.fresh
  <2>1. lv = Capacity /\ bn = t /\ n = 0
    BY <1>3
  <2>2. T = 0 /\ (t - bn) * U = 0
    BY <1>1, <2>1
  <2> QED
    BY <1>1, <2>1, <2>2
<1>4. CASE ~x.fresh
  <2> DEFINE e == (x.at - x.born) * U
             g == (t - x.born) * U
  <2>1. e + d = g
    BY <1>1, Distribute
  <2>2. e \in Nat
    <3>1. x.at - x.born \in Nat
      BY <1>1
    <3> QED
      BY <1>1, <3>1, NatProduct
  <2>3. bn = x.born /\ Capacity <= T + x.level /\ T + x.level <= Capacity + e
    BY <1>4
  <2>4. (lv = Capacity /\ x.level + d > Capacity) \/ (lv = x.level + d /\ ~(x.level + d > Capacity))
    BY <1>4
  <2>5. g = (t - bn) * U
    BY <2>3
  <2> HIDE DEF T, d, e, g
  <2>6. lv \in Nat /\ Capacity <= T + lv /\ T + lv <= Capacity + g
    BY <1>1, <1>2, <2>1, <2>2, <2>3, <2>4
  <2>7. bn \in Nat /\ bn <= t
    BY <1>1, <2>3
  <2> QED
    BY <2>5, <2>6, <2>7 DEF T
<1> QED
  BY <1>3, <1>4

LEMMA RateLimitStep ==
  ASSUME GuardInv, RateLimit
  PROVE  GuardInv'
<1> DEFINE b == bucket_of(request)
           x == buckets[b]
           lv == refilled(b)
           bn == IF x.fresh THEN tick ELSE x.born
           pays == lv >= UnitsPerToken
           k == lv - IF pays THEN UnitsPerToken ELSE 0
           y == [fresh |-> FALSE, at |-> tick, born |-> bn, level |-> k]
           n == admitted[b]
           m == n + IF pays THEN 1 ELSE 0
<1>1. /\ b \in Buckets /\ request # Nobody /\ request.pc = "limit"
      /\ buckets' = [buckets EXCEPT ![b] = y] /\ admitted' = [admitted EXCEPT ![b] = m]
      /\ request' = IF pays THEN [request EXCEPT !.pc = "handle"] ELSE Nobody
      /\ answer' = IF pays THEN answer ELSE Ended(429, request.who, NoScope)
      /\ config' = config /\ tick' = tick /\ verdict' = verdict
  BY DEF RateLimit
<1>2. /\ buckets \in [Buckets -> BucketState] /\ admitted \in [Buckets -> Nat] /\ tick \in Nat
      /\ request \in RequestState /\ Carried(request.who)
  BY <1>1 DEF GuardInv, GuardTypes
<1>3. x \in BucketState /\ n \in Nat
  BY <1>1, <1>2
<1>4. /\ x.at <= tick /\ x.born <= x.at /\ (x.fresh => n = 0)
      /\ ~x.fresh => /\ Capacity <= n * UnitsPerToken + x.level
                     /\ n * UnitsPerToken + x.level <= Capacity + (x.at - x.born) * UnitsPerTick
  BY <1>1 DEF GuardInv, Accounts, BucketHonest
<1>5. lv = IF x.fresh \/ x.level + (tick - x.at) * UnitsPerTick > Capacity THEN Capacity
           ELSE x.level + (tick - x.at) * UnitsPerTick
  BY DEF refilled
<1>6. /\ lv \in Nat /\ bn \in Nat /\ bn <= tick
      /\ Capacity <= n * UnitsPerToken + lv
      /\ n * UnitsPerToken + lv <= Capacity + (tick - bn) * UnitsPerTick
  <2> HIDE DEF b, x, lv, n
  <2> QED
    BY <1>2, <1>3, <1>4, <1>5, Consume
<1>7. k \in Nat /\ m \in Nat /\ m * UnitsPerToken + k = n * UnitsPerToken + lv
  <2> HIDE DEF lv, n
  <2>1. UnitsPerToken \in Nat /\ (n + 1) * UnitsPerToken = n * UnitsPerToken + UnitsPerToken
    BY <1>3, GuardConstants, Distribute
  <2>2. n * UnitsPerToken \in Nat
    BY <1>3, <2>1, NatProduct
  <2>3. CASE pays
    <3>1. k = lv - UnitsPerToken /\ m = n + 1
      BY <2>3
    <3> QED
      BY <1>3, <1>6, <2>1, <2>2, <2>3, <3>1
  <2>4. CASE ~pays
    <3>1. k = lv /\ m = n
      BY <1>3, <1>6, <2>4
    <3> QED
      BY <1>3, <1>6, <3>1
  <2> QED
    BY <2>3, <2>4
<1>8. y \in BucketState /\ y.fresh = FALSE /\ y.at = tick /\ y.born = bn /\ y.level = k
  <2> HIDE DEF bn, k
  <2> QED
    BY <1>2, <1>6, <1>7 DEF BucketState
<1> HIDE DEF b, y, m, k, bn, lv
<1>9. /\ buckets' \in [Buckets -> BucketState] /\ admitted' \in [Buckets -> Nat]
      /\ buckets'[b] = y /\ admitted'[b] = m
      /\ \A c \in Buckets : c # b => buckets'[c] = buckets[c] /\ admitted'[c] = admitted[c]
  BY <1>1, <1>2, <1>7, <1>8
<1>10. request' # Nobody => request' \in RequestState /\ Carried(request'.who)
  <2> SUFFICES ASSUME request' # Nobody PROVE request' \in RequestState /\ Carried(request'.who)
    OBVIOUS
  <2>1. request' = [request EXCEPT !.pc = "handle"]
    BY <1>1
  <2>2. request' \in RequestState /\ request'.who = request.who
    BY <1>2, <2>1 DEF RequestState
  <2> QED
    BY <1>2, <2>2
<1>11. GuardTypes'
  BY <1>1, <1>2, <1>9, <1>10 DEF GuardTypes
<1>12. Accounts'
  <2>1. y.at <= tick /\ y.born <= y.at /\ ~y.fresh
    BY <1>2, <1>6, <1>8
  <2> QED
    BY <1>1, <1>9, <2>1 DEF GuardInv, Accounts
<1>13. BucketHonest'
  <2>1. Capacity <= m * UnitsPerToken + y.level /\ m * UnitsPerToken + y.level <= Capacity + (y.at - y.born) * UnitsPerTick
    BY <1>6, <1>7, <1>8
  <2> QED
    BY <1>9, <2>1 DEF GuardInv, BucketHonest
<1>14. ScopeConfined'
  <2>1. Ended(429, request.who, NoScope).status # 200
    BY DEF Ended
  <2> QED
    BY <1>1, <2>1 DEF GuardInv, ScopeConfined
<1>15. JudgedAsIssuerWould'
  BY <1>1 DEF GuardInv, JudgedAsIssuerWould
<1> QED
  BY <1>11, <1>12, <1>13, <1>14, <1>15 DEF GuardInv
-----------------------------------------------------------------------------
(* The handler.                                                            *)

LEMMA ResolveScope ==
  ASSUME NEW who, Carried(who), NEW s, config.auth, NEW a, a = resolve_scope(s, who),
         a.status = 200, a.scope # NoScope
  PROVE  a.scope = a.who.scope \/ (a.who.method = "api_key" /\ KeyOverride[a.who.id])
<1>1. who.method # "none" /\ a.who = who
  BY DEF resolve_scope, Ended, Carried, Principals
<1>2. who.method = "oidc" \/ who.override \/ a.scope = who.scope
  <2> SUFFICES ASSUME who.method # "oidc", ~who.override PROVE a.scope = who.scope
    OBVIOUS
  <2>1. a = IF s \in {NoScope, who.scope} THEN Ended(200, who, who.scope) ELSE Ended(403, who, NoScope)
    BY <1>1 DEF resolve_scope
  <2>2. Ended(403, who, NoScope).status # 200 /\ Ended(200, who, who.scope).scope = who.scope
    BY DEF Ended
  <2> QED
    BY <2>1, <2>2
<1>3. CASE who.method = "oidc"
  <2>1. a.scope = who.scope
    BY <1>1, <1>3 DEF resolve_scope, Ended
  <2> QED
    BY <1>1, <2>1
<1>4. CASE who.method # "oidc" /\ who.override
  BY <1>1, <1>4 DEF Carried
<1> QED
  BY <1>1, <1>2, <1>3, <1>4

LEMMA HandleStep ==
  ASSUME GuardInv, Handle
  PROVE  GuardInv'
<1>1. /\ request # Nobody /\ request' = Nobody
      /\ answer' = IF request.ep \in {"ingest", "status", "query"}
                   THEN resolve_scope(request.scope, request.who)
                   ELSE Ended(200, request.who, NoScope)
      /\ config' = config /\ tick' = tick /\ buckets' = buckets /\ admitted' = admitted /\ verdict' = verdict
  BY DEF Handle
<1>2. Carried(request.who)
  BY <1>1 DEF GuardInv, GuardTypes
<1>3. ScopeConfined'
  <2>1. CASE request.ep \in {"ingest", "status", "query"}
    BY <1>1, <1>2, <2>1, ResolveScope DEF ScopeConfined
  <2>2. CASE request.ep \notin {"ingest", "status", "query"}
    <3>1. Ended(200, request.who, NoScope).scope = NoScope
      BY DEF Ended
    <3> QED
      BY <1>1, <2>2, <3>1 DEF ScopeConfined
  <2> QED
    BY <2>1, <2>2
<1>4. GuardTypes' /\ Accounts' /\ BucketHonest' /\ JudgedAsIssuerWould'
  BY <1>1 DEF GuardInv, GuardTypes, Accounts, BucketHonest, JudgedAsIssuerWould
<1> QED
  BY <1>3, <1>4 DEF GuardInv

LEMMA UnlimitedStep ==
  ASSUME GuardInv, Unlimited
  PROVE  GuardInv'
<1>1. /\ request # Nobody /\ request' = [request EXCEPT !.pc = "handle"]
      /\ config' = config /\ tick' = tick /\ buckets' = buckets /\ admitted' = admitted
      /\ verdict' = verdict /\ answer' = answer
  BY DEF Unlimited
<1>2. request \in RequestState /\ Carried(request.who)
  BY <1>1 DEF GuardInv, GuardTypes
<1>3. request' \in RequestState /\ request'.who = request.who
  BY <1>1, <1>2 DEF RequestState
<1>4. GuardTypes'
  BY <1>1, <1>2, <1>3 DEF GuardInv, GuardTypes
<1>5. Accounts' /\ BucketHonest' /\ JudgedAsIssuerWould' /\ ScopeConfined'
  BY <1>1 DEF GuardInv, Accounts, BucketHonest, JudgedAsIssuerWould, ScopeConfined
<1> QED
  BY <1>4, <1>5 DEF GuardInv

\* Start-up, time, the key tables and the identity provider.
LEMMA AroundStep ==
  ASSUME GuardInv,
         Start \/ TimePasses \/ Rotate \/ (\E k \in ApiKeys : create_api_key(k) \/ revoke_api_key(k))
           \/ UNCHANGED guardVars
  PROVE  GuardInv'
<1>1. /\ config' = config /\ buckets' = buckets /\ admitted' = admitted
      /\ request' = request /\ verdict' = verdict /\ answer' = answer
      /\ tick' \in {tick, tick + 1} /\ tick \in Nat
  BY DEF Start, TimePasses, Rotate, create_api_key, revoke_api_key, guardVars, GuardInv, GuardTypes
<1>2. GuardTypes'
  BY <1>1 DEF GuardInv, GuardTypes
<1>3. Accounts'
  <2>1. \A b \in Buckets : buckets[b].at \in Nat /\ buckets[b].at <= tick
    BY DEF GuardInv, GuardTypes, BucketState, Accounts
  <2> QED
    BY <1>1, <2>1 DEF GuardInv, Accounts
<1>4. BucketHonest' /\ JudgedAsIssuerWould' /\ ScopeConfined'
  BY <1>1 DEF GuardInv, BucketHonest, JudgedAsIssuerWould, ScopeConfined
<1> QED
  BY <1>2, <1>3, <1>4 DEF GuardInv
-----------------------------------------------------------------------------
(* The invariant and what it gives.                                        *)

LEMMA GuardStart == GuardInit => GuardInv
<1> SUFFICES ASSUME GuardInit PROVE GuardInv
  OBVIOUS
<1>1. \A b \in Buckets : /\ buckets[b] = [fresh |-> TRUE, at |-> 0, born |-> 0, level |-> 0]
                         /\ admitted[b] = 0
  BY DEF GuardInit
<1>2. \A b \in Buckets : buckets[b].fresh = TRUE /\ buckets[b].at = 0 /\ buckets[b].born = 0
  BY <1>1
<1>3. GuardTypes
  <2>1. [fresh |-> TRUE, at |-> 0, born |-> 0, level |-> 0] \in BucketState
    BY DEF BucketState
  <2> QED
    BY <2>1 DEF GuardInit, GuardTypes
<1>4. Accounts
  BY <1>1, <1>2 DEF GuardInit, Accounts
<1>5. BucketHonest
  BY <1>2 DEF BucketHonest
<1>6. JudgedAsIssuerWould /\ ScopeConfined
  <2>1. NoAnswer.status # 200
    BY DEF NoAnswer, Ended
  <2> QED
    BY <2>1 DEF GuardInit, JudgedAsIssuerWould, ScopeConfined
<1> QED
  BY <1>3, <1>4, <1>5, <1>6 DEF GuardInv

LEMMA GuardInvStep == GuardInv /\ [GuardNext]_guardVars => GuardInv'
<1> SUFFICES ASSUME GuardInv, [GuardNext]_guardVars PROVE GuardInv'
  OBVIOUS
<1>1. CASE RateLimit \/ Unlimited \/ Handle
  BY <1>1, RateLimitStep, UnlimitedStep, HandleStep
<1>2. CASE \E ep \in Endpoints, s \in ReqScopes :
             PassOpen(ep, s) \/ \E tok \in KeyTokens \cup Jwts : Authorize(ep, tok, s)
  BY <1>2, PassOpenStep, AuthorizeStep
<1>3. CASE Start \/ TimePasses \/ Rotate \/ (\E k \in ApiKeys : create_api_key(k) \/ revoke_api_key(k))
             \/ UNCHANGED guardVars
  BY <1>3, AroundStep
<1> QED
  BY <1>1, <1>2, <1>3 DEF GuardNext

\* Whatever keys are revoked, signing keys rotated, tokens presented and time
\* passes: a caller is answered only from a scope it may address, its credentials
\* are judged as their issuer would unless the JWKS document is stale or missing,
\* and its bucket is charged for each request and for nothing else.
THEOREM AccessJustified == GuardSpec => []AccessIsJustified
<1>1. GuardInit => GuardInv
  BY GuardStart
<1>2. GuardInv /\ [GuardNext]_guardVars => GuardInv'
  BY GuardInvStep
<1>3. GuardInv => AccessIsJustified
  BY DEF GuardInv, AccessIsJustified
<1> QED
  BY <1>1, <1>2, <1>3, PTL DEF GuardSpec

-----------------------------------------------------------------------------
(***************************************************************************)
(* Retention.  The DELETE goes by the ids an earlier statement selected,   *)
(* so what keeps it exact is what is known of those ids in between         *)
(* (Chosen): each was expired at the purge's clock, and a raw row or a     *)
(* document still has the stamp it was selected with, or is gone.  What    *)
(* makes the stamp mean something is that a purge of all scopes owes an    *)
(* expired raw row either a scope that is still on its list or a follow-up *)
(* (Sweeps), and that a chunk shorter than ChunkSize held all of its       *)
(* scope's (Complete).                                                     *)
(***************************************************************************)


Stamps == [Rows -> Nat \cup {Never}]

Selections == UNION {[D -> Nat] : D \in SUBSET Rows}
PurgeState == [pc : {"idle", "scope", "delete"}, clock : Nat, todo : Seq(RowScopes),
               all : BOOLEAN, drain : BOOLEAN,
               sel : Selections, more : BOOLEAN]

PurgeTypes ==
  /\ time \in Nat /\ table \in Stamps /\ newest \in Stamps
  /\ purge \in [Purgers -> PurgeState]
  /\ stamp \in [clock : Nat \cup {Never}, all : BOOLEAN]
  /\ stamp.all => stamp.clock \in Nat /\ stamp.clock <= time

\* A row that exists was written at some time.
Written(tb, nw) == \A id \in Rows : tb[id] # Never => nw[id] # Never

\* A raw row that a purge should take: expired at its clock, in a valid scope.
Due(id, at, clock) == valid_policy(RowScope[id]) /\ expired(id, at, clock)

\* Where a purge is.
Placed(q, tm) ==
  /\ q.clock <= tm
  /\ q.pc # "delete" => DOMAIN q.sel = {}
  /\ q.pc = "delete" => q.todo # <<>>

\* What was selected was expired, and is refreshed only if it is an embedding.
Chosen(q, tb, nw) ==
  \A id \in DOMAIN q.sel :
    /\ Due(id, q.sel[id], q.clock) /\ nw[id] # Never
    /\ id \in RawRows \cup DocRows => tb[id] \in {Never, q.sel[id]}

\* A chunk that did not fill up holds every raw row of its scope that is due.
Complete(q, tb) ==
  q.pc = "delete" /\ Cardinality(DOMAIN q.sel \cap RawRows) < ChunkSize =>
    \A id \in RawRows : RowScope[id] = Head(q.todo) /\ Due(id, tb[id], q.clock)
                        => id \in DOMAIN q.sel

Listed(todo, s) == \E i \in DOMAIN todo : todo[i] = s

\* What a purge of all scopes still owes.
Sweeps(q, tb) ==
  q.pc # "idle" /\ q.all /\ ~q.more =>
    \A id \in RawRows : Due(id, tb[id], q.clock) => Listed(q.todo, RowScope[id])

PurgeInv(q, tm, tb, nw) ==
  Placed(q, tm) /\ Chosen(q, tb, nw) /\ Complete(q, tb) /\ Sweeps(q, tb)

\* The inductive invariant.
RetentionInv ==
  /\ PurgeTypes
  /\ Written(table, newest)
  /\ \A p \in Purgers : PurgeInv(purge[p], time, table, newest)
  /\ StampMeansDrained

USE RetentionConstants
-----------------------------------------------------------------------------
(* Expiry.                                                                 *)

\* What is expired stays so as the clock goes on.
LEMMA ExpiredStays ==
  ASSUME NEW id \in Rows, NEW at \in Nat \cup {Never}, NEW c \in Nat, NEW d \in Nat,
         expired(id, at, c), c <= d
  PROVE  at \in Nat /\ expired(id, at, d)
<1>1. at \in Nat /\ ttl(id) \notin {Off, Broken} /\ at + ttl(id) < c
  BY DEF expired
<1>2. ttl(id) \in Nat
  BY <1>1 DEF ttl, Rows
<1> QED
  BY <1>1, <1>2 DEF expired

\* A row that is written after the clock was read is not expired at it.
LEMMA NewNotExpired ==
  ASSUME NEW id \in Rows, NEW at \in Nat, NEW c \in Nat, c <= at
  PROVE  ~expired(id, at, c)
<1>1. SUFFICES ASSUME ttl(id) \notin {Off, Broken}, at + ttl(id) < c PROVE FALSE
  BY DEF expired
<1>2. ttl(id) \in Nat
  BY <1>1 DEF ttl, Rows
<1> QED
  BY <1>1, <1>2

LEMMA NoneNotExpired == \A id, c : ~expired(id, Never, c)
  BY DEF expired

\* What the writers and the other purges do meanwhile: time goes on, raw rows
\* and documents are written once and only deleted afterwards.
Onwards(tm, tb, nw, tm2, tb2, nw2) ==
  /\ tm <= tm2
  /\ \A id \in Rows : nw[id] # Never => nw2[id] # Never
  /\ \A id \in RawRows \cup DocRows : nw[id] # Never => tb2[id] \in {Never, tb[id]}
  /\ \A id \in RawRows : tb2[id] \in {Never, tb[id]} \/ (tb2[id] \in Nat /\ tm <= tb2[id])

\* A raw row that is due later was due before.
LEMMA DueBefore ==
  ASSUME NEW tm \in Nat, NEW tb \in Stamps, NEW nw \in Stamps,
         NEW tm2 \in Nat, NEW tb2 \in Stamps, NEW nw2 \in Stamps,
         Onwards(tm, tb, nw, tm2, tb2, nw2),
         NEW id \in RawRows, NEW c \in Nat, c <= tm, Due(id, tb2[id], c)
  PROVE  tb2[id] = tb[id] /\ Due(id, tb[id], c)
<1>1. id \in Rows /\ expired(id, tb2[id], c)
  BY DEF Due, Rows
<1>2. tb2[id] # Never
  BY <1>1, NoneNotExpired
<1>3. CASE tb2[id] \in Nat /\ tm <= tb2[id]
  <2>1. c <= tb2[id]
    BY <1>3
  <2> QED
    BY <1>1, <1>3, <2>1, NewNotExpired
<1>4. CASE tb2[id] = tb[id]
  BY <1>4
<1> QED
  BY <1>2, <1>3, <1>4 DEF Onwards

\* A purge's invariant survives whatever the others do.
LEMMA OthersKeep ==
  ASSUME NEW tm \in Nat, NEW tb \in Stamps, NEW nw \in Stamps,
         NEW tm2 \in Nat, NEW tb2 \in Stamps, NEW nw2 \in Stamps,
         Onwards(tm, tb, nw, tm2, tb2, nw2),
         NEW q \in PurgeState, PurgeInv(q, tm, tb, nw)
  PROVE  PurgeInv(q, tm2, tb2, nw2)
<1>0. q.clock \in Nat /\ q.clock <= tm /\ DOMAIN q.sel \subseteq Rows
  BY DEF PurgeState, Selections, PurgeInv, Placed
<1>1. Placed(q, tm2)
  BY <1>0 DEF PurgeInv, Placed, Onwards
<1>2. Chosen(q, tb2, nw2)
  <2> SUFFICES ASSUME NEW id \in DOMAIN q.sel
               PROVE  /\ Due(id, q.sel[id], q.clock) /\ nw2[id] # Never
                      /\ id \in RawRows \cup DocRows => tb2[id] \in {Never, q.sel[id]}
    BY DEF Chosen
  <2>1. /\ id \in Rows /\ Due(id, q.sel[id], q.clock) /\ nw[id] # Never
        /\ id \in RawRows \cup DocRows => tb[id] \in {Never, q.sel[id]}
    BY <1>0 DEF PurgeInv, Chosen
  <2> QED
    BY <2>1 DEF Onwards
<1>3. Complete(q, tb2)
  BY <1>0, DueBefore DEF PurgeInv, Complete
<1>4. Sweeps(q, tb2)
  BY <1>0, DueBefore DEF PurgeInv, Sweeps
<1> QED
  BY <1>1, <1>2, <1>3, <1>4 DEF PurgeInv

\* So does the meaning of the stamp.
LEMMA StampKeeps ==
  ASSUME PurgeTypes, PurgeTypes', StampMeansDrained, stamp' = stamp,
         Onwards(time, table, newest, time', table', newest')
  PROVE  StampMeansDrained'
<1> SUFFICES ASSUME stamp.all, NEW id \in RawRows, valid_policy(RowScope[id]),
                    expired(id, table'[id], stamp.clock)
             PROVE  FALSE
  BY DEF StampMeansDrained
<1>1. stamp.clock \in Nat /\ stamp.clock <= time
  BY DEF PurgeTypes
<1>2. Due(id, table'[id], stamp.clock)
  BY DEF Due
<1>3. Due(id, table[id], stamp.clock)
  BY <1>1, <1>2, DueBefore DEF PurgeTypes
<1> QED
  BY <1>3 DEF Due, StampMeansDrained
-----------------------------------------------------------------------------
(* What the statements select.                                             *)

\* A chunk holds expired rows of its scope, all of them when it is short.
LEMMA SelectFacts ==
  ASSUME NEW s, NEW tier \in SUBSET Rows, NEW clock,
         NEW chunk \in select_expired_ids(s, tier, clock)
  PROVE  /\ chunk \subseteq tier
         /\ \A id \in chunk : RowScope[id] = s /\ expired(id, table[id], clock)
         /\ Cardinality(chunk) < ChunkSize =>
              \A id \in tier : RowScope[id] = s /\ expired(id, table[id], clock) => id \in chunk
<1> DEFINE due == {id \in tier : RowScope[id] = s /\ expired(id, table[id], clock)}
<1>1. /\ chunk \subseteq Oldest(due)
      /\ Cardinality(chunk) = IF Cardinality(due) < ChunkSize THEN Cardinality(due) ELSE ChunkSize
  BY DEF select_expired_ids
<1>2. Oldest(due) \subseteq due
  BY DEF Oldest
<1>3. IsFiniteSet(due) /\ Cardinality(due) \in Nat
  <2>1. due \subseteq Rows
    OBVIOUS
  <2> QED
    BY <2>1, FS_Subset, FS_CardinalityType
<1>4. due \subseteq tier /\ \A id \in due : RowScope[id] = s /\ expired(id, table[id], clock)
  OBVIOUS
<1>5. \A id \in tier : RowScope[id] = s /\ expired(id, table[id], clock) => id \in due
  OBVIOUS
<1> HIDE DEF due
<1>6. chunk \in SUBSET due
  BY <1>1, <1>2
<1>7. ASSUME Cardinality(chunk) < ChunkSize PROVE chunk = due
  <2>1. Cardinality(chunk) = Cardinality(due)
    BY <1>1, <1>3, <1>7
  <2> QED
    BY <1>3, <1>6, <2>1, FS_Subset
<1> QED
  BY <1>4, <1>5, <1>6, <1>7

\* The list of a finite set names each of its elements.
LEMMA ListOf ==
  ASSUME NEW S, IsFiniteSet(S)
  PROVE  SetToSeq(S) \in Seq(S) /\ \A s \in S : Listed(SetToSeq(S), s)
<1> DEFINE n == Cardinality(S)
           f == SetToSeq(S)
<1>1. n \in Nat /\ ExistsBijection(1 .. n, S)
  BY FS_CardinalityType
<1>2. PICK g \in Bijection(1 .. n, S) : TRUE
  BY <1>1 DEF ExistsBijection
<1>3. g \in [1 .. n -> S] /\ IsInjective(g)
  BY <1>2 DEF Bijection, Injection
<1>4. f \in [1 .. n -> S] /\ IsInjective(f)
  BY <1>3 DEF SetToSeq
<1> HIDE DEF f, n
<1>5. f \in Seq(S)
  BY <1>1, <1>4
<1>6. IsFiniteSet(1 .. n) /\ Cardinality(1 .. n) = n
  BY <1>1, FS_Interval
<1>7. f \in Surjection(1 .. n, S)
  <2>1. f \in Injection(1 .. n, S)
    BY <1>4 DEF Injection
  <2> QED
    BY <1>6, <2>1, FS_Injection DEF n
<1>8. \A s \in S : \E i \in 1 .. n : f[i] = s
  BY <1>7 DEF Surjection
<1>9. \A s \in S : Listed(f, s)
  BY <1>4, <1>8 DEF Listed
<1> QED
  BY <1>5, <1>9 DEF f
-----------------------------------------------------------------------------
(* The purge's steps.                                                      *)

\* A purge that rests owes nothing.
LEMMA RestingFacts ==
  /\ Resting \in PurgeState
  /\ \A tm \in Nat : \A tb, nw : PurgeInv(Resting, tm, tb, nw)
<1>1. Resting.sel \in [{} -> Nat] /\ DOMAIN Resting.sel = {}
  BY DEF Resting
<1>2. Resting \in PurgeState
  <2> DEFINE none == [id \in {} |-> 0]
  <2>1. none \in Selections
    <3>1. none \in [{} -> Nat] /\ {} \in SUBSET Rows
      OBVIOUS
    <3> QED
      BY <3>1, Zenon DEF Selections
  <2>2. Resting = [pc |-> "idle", clock |-> 0, todo |-> <<>>, all |-> FALSE, drain |-> FALSE,
                   sel |-> none, more |-> FALSE]
    BY DEF Resting
  <2> HIDE DEF none
  <2> QED
    BY <2>1, <2>2 DEF PurgeState
<1>3. Resting.pc = "idle" /\ Resting.clock = 0
  BY DEF Resting
<1> QED
  BY <1>1, <1>2, <1>3 DEF PurgeInv, Placed, Chosen, Complete, Sweeps

\* One purge moves to state q, whatever it does to the tables.
LEMMA PurgeMoves ==
  ASSUME RetentionInv, NEW p \in Purgers, NEW q \in PurgeState,
         purge' = [purge EXCEPT ![p] = q], time' = time, newest' = newest, table' \in Stamps,
         \A id \in Rows : table'[id] \in {Never, table[id]},
         PurgeInv(q, time, table', newest),
         stamp' = stamp \/ (StampMeansDrained'
                            /\ stamp' \in [clock : Nat \cup {Never}, all : BOOLEAN]
                            /\ (stamp'.all => stamp'.clock \in Nat /\ stamp'.clock <= time))
  PROVE  RetentionInv'
<1>1. PurgeTypes'
  BY DEF RetentionInv, PurgeTypes
<1>2. Onwards(time, table, newest, time', table', newest')
  BY DEF Onwards, RetentionInv, PurgeTypes, Rows
<1>3. Written(table', newest')
  BY DEF RetentionInv, Written
<1>4. ASSUME NEW o \in Purgers PROVE PurgeInv(purge'[o], time', table', newest')
  <2>1. CASE o = p
    BY <2>1 DEF RetentionInv, PurgeTypes
  <2>2. CASE o # p
    <3>1. purge'[o] = purge[o] /\ purge[o] \in PurgeState /\ PurgeInv(purge[o], time, table, newest)
      BY <2>2 DEF RetentionInv, PurgeTypes
    <3> QED
      BY <1>1, <1>2, <3>1, OthersKeep DEF RetentionInv, PurgeTypes
  <2> QED
    BY <2>1, <2>2
<1>5. StampMeansDrained'
  BY <1>1, <1>2, StampKeeps DEF RetentionInv
<1> QED
  BY <1>1, <1>3, <1>4, <1>5 DEF RetentionInv

\* A purge begins with every scope that has data, or with one.
LEMMA BeginStep ==
  ASSUME RetentionInv, NEW p \in Purgers, BeginPurge(p)
  PROVE  RetentionInv'
<1> DEFINE S == {s \in RowScopes : \E id \in Rows : RowScope[id] = s /\ table[id] # Never}
<1>1. PICK one \in RowScopes \cup {"all"}, cli \in BOOLEAN :
        purge' = [purge EXCEPT ![p] =
            [Resting EXCEPT !.pc = "scope", !.clock = time, !.all = (one = "all"), !.drain = cli,
                            !.todo = IF one = "all" THEN list_scopes_to_purge ELSE <<one>>]]
  BY DEF BeginPurge
<1> DEFINE every == one = "all"
           todo == IF one = "all" THEN list_scopes_to_purge ELSE <<one>>
           q == [pc |-> "scope", clock |-> time, todo |-> todo, all |-> every,
                 drain |-> cli, sel |-> Resting.sel, more |-> FALSE]
<1>2. purge' = [purge EXCEPT ![p] = q]
  <2>1. ASSUME NEW l, NEW c, NEW a, NEW d, NEW r,
               r = [Resting EXCEPT !.pc = "scope", !.clock = c, !.all = a, !.drain = d, !.todo = l]
        PROVE  r = [pc |-> "scope", clock |-> c, todo |-> l, all |-> a,
                    drain |-> d, sel |-> Resting.sel, more |-> FALSE]
    BY <2>1 DEF Resting
  <2> DEFINE r == [Resting EXCEPT !.pc = "scope", !.clock = time, !.all = every,
                                  !.drain = cli, !.todo = todo]
  <2>2. purge' = [purge EXCEPT ![p] = r]
    BY <1>1, Zenon
  <2> HIDE DEF todo, every
  <2>3. r = q
    BY <2>1
  <2> QED
    BY <2>2, <2>3, Zenon
<1>3. list_scopes_to_purge \in Seq(RowScopes) /\ \A s \in S : Listed(list_scopes_to_purge, s)
  <2>1. IsFiniteSet(S)
    BY FS_Subset
  <2>2. list_scopes_to_purge = SetToSeq(S)
    BY DEF list_scopes_to_purge
  <2>3. SetToSeq(S) \in Seq(S) /\ \A s \in S : Listed(SetToSeq(S), s)
    BY <2>1, ListOf
  <2>4. S \subseteq RowScopes
    OBVIOUS
  <2> HIDE DEF S
  <2> QED
    BY <2>2, <2>3, <2>4
<1>4. todo \in Seq(RowScopes)
  BY <1>3
<1>5. (one = "all") => \A id \in RawRows : table[id] # Never => Listed(todo, RowScope[id])
  BY <1>3 DEF Rows
<1> HIDE DEF S
<1>6. Resting.sel \in Selections /\ DOMAIN Resting.sel = {}
  BY RestingFacts DEF PurgeState, Resting
<1>7. time \in Nat /\ table \in Stamps /\ newest \in Stamps
  BY DEF RetentionInv, PurgeTypes
<1> HIDE DEF todo
<1>8. q \in PurgeState
  <2>1. every \in BOOLEAN
    OBVIOUS
  <2> HIDE DEF every
  <2> QED
    BY <2>1, <1>4, <1>6, <1>7 DEF PurgeState
<1>9. PurgeInv(q, time, table, newest)
  <2>1. Placed(q, time) /\ Chosen(q, table, newest) /\ Complete(q, table)
    BY <1>6, <1>7 DEF Placed, Chosen, Complete
  <2>2. Sweeps(q, table)
    <3> SUFFICES ASSUME one = "all", NEW id \in RawRows, Due(id, table[id], time)
                 PROVE  Listed(todo, RowScope[id])
      BY DEF Sweeps
    <3>1. table[id] # Never
      BY NoneNotExpired DEF Due
    <3> QED
      BY <1>5, <3>1
  <2> QED
    BY <2>1, <2>2 DEF PurgeInv
<1> HIDE DEF q
<1>10. time' = time /\ newest' = newest /\ table' = table /\ stamp' = stamp
  BY DEF BeginPurge
<1> QED
  BY <1>2, <1>7, <1>8, <1>9, <1>10, PurgeMoves

\* A scope whose policy cannot be parsed owes nothing, and is skipped.
LEMMA SkipStep ==
  ASSUME RetentionInv, NEW p \in Purgers, SkipScope(p)
  PROVE  RetentionInv'
<1> DEFINE q == purge[p]
           n == [q EXCEPT !.todo = Tail(@)]
<1>1. /\ purge' = [purge EXCEPT ![p] = n] /\ time' = time /\ table' = table
      /\ newest' = newest /\ stamp' = stamp
      /\ q.pc = "scope" /\ q.todo # <<>> /\ ~valid_policy(Head(q.todo))
  BY DEF SkipScope
<1>2. q \in PurgeState /\ PurgeInv(q, time, table, newest)
  BY DEF RetentionInv, PurgeTypes
<1>3. /\ n.pc = "scope" /\ n.clock = q.clock /\ n.todo = Tail(q.todo) /\ n.all = q.all
      /\ n.sel = q.sel /\ n.more = q.more
  BY <1>1, <1>2 DEF PurgeState
<1>4. n \in PurgeState
  <2>1. Tail(q.todo) \in Seq(RowScopes)
    BY <1>1, <1>2 DEF PurgeState
  <2> QED
    BY <1>2, <2>1 DEF PurgeState
<1>5. q.todo \in Seq(RowScopes)
  BY <1>2 DEF PurgeState
<1> HIDE DEF n, q
<1>6. PurgeInv(n, time, table, newest)
  <2>1. Placed(n, time) /\ Chosen(n, table, newest) /\ Complete(n, table)
    BY <1>1, <1>2, <1>3 DEF PurgeInv, Placed, Chosen, Complete
  <2>2. Sweeps(n, table)
    <3> SUFFICES ASSUME n.all, ~n.more, NEW id \in RawRows, Due(id, table[id], n.clock)
                 PROVE  Listed(n.todo, RowScope[id])
      BY DEF Sweeps
    <3>1. PICK i \in DOMAIN q.todo : q.todo[i] = RowScope[id]
      BY <1>1, <1>2, <1>3 DEF PurgeInv, Sweeps, Listed
    <3>2. i # 1
      BY <1>1, <1>5, <3>1 DEF Due
    <3>3. i - 1 \in DOMAIN Tail(q.todo) /\ Tail(q.todo)[i - 1] = q.todo[i]
      BY <1>1, <1>5, <3>1, <3>2
    <3> QED
      BY <1>3, <3>1, <3>3 DEF Listed
  <2> QED
    BY <2>1, <2>2 DEF PurgeInv
<1>7. table \in Stamps
  BY DEF RetentionInv, PurgeTypes
<1> QED
  BY <1>1, <1>4, <1>6, <1>7, PurgeMoves

\* The chunk of a scope: what the SELECTs return is due.
LEMMA SelectStep ==
  ASSUME RetentionInv, NEW p \in Purgers, SelectChunk(p)
  PROVE  RetentionInv'
<1> DEFINE q == purge[p]
           s == Head(q.todo)
<1>1. PICK raw \in select_expired_ids(s, RawRows, q.clock),
           emb \in select_expired_ids(s, EmbRows, q.clock),
           doc \in select_expired_ids(s, DocRows, q.clock) :
        purge' = [purge EXCEPT ![p].pc = "delete",
                               ![p].sel = [id \in raw \cup emb \cup doc |-> table[id]]]
  BY DEF SelectChunk
<1>2. /\ time' = time /\ table' = table /\ newest' = newest /\ stamp' = stamp
      /\ q.pc = "scope" /\ q.todo # <<>> /\ valid_policy(s)
  BY DEF SelectChunk
<1>3. q \in PurgeState /\ PurgeInv(q, time, table, newest)
  BY DEF RetentionInv, PurgeTypes
<1>4. time \in Nat /\ table \in Stamps /\ newest \in Stamps
  BY DEF RetentionInv, PurgeTypes
<1>5. RawRows \in SUBSET Rows /\ EmbRows \in SUBSET Rows /\ DocRows \in SUBSET Rows
  BY DEF Rows
<1> HIDE DEF s
<1>6. /\ raw \subseteq RawRows /\ emb \subseteq EmbRows /\ doc \subseteq DocRows
      /\ \A id \in raw \cup emb \cup doc : RowScope[id] = s /\ expired(id, table[id], q.clock)
  BY <1>5, SelectFacts
<1>7. Cardinality(raw) < ChunkSize =>
        \A id \in RawRows : RowScope[id] = s /\ expired(id, table[id], q.clock) => id \in raw
  BY <1>5, SelectFacts
<1> DEFINE ids == raw \cup emb \cup doc
           sel == [id \in ids |-> table[id]]
           n == [q EXCEPT !.pc = "delete", !.sel = sel]
<1>8. ids \subseteq Rows /\ ids \cap RawRows = raw
  BY <1>6 DEF Rows
<1>9. \A id \in ids : id \in Rows /\ table[id] \in Nat /\ newest[id] # Never
  <2> TAKE id \in ids
  <2>1. id \in Rows /\ expired(id, table[id], q.clock)
    BY <1>6, <1>8
  <2>2. table[id] # Never
    BY <2>1, NoneNotExpired
  <2> QED
    BY <1>4, <2>1, <2>2 DEF RetentionInv, Written, Stamps
<1>10. \A id \in ids : RowScope[id] = s /\ expired(id, table[id], q.clock)
  BY <1>6
<1>11. purge' = [purge EXCEPT ![p] = n]
  BY <1>1 DEF RetentionInv, PurgeTypes
<1> HIDE DEF ids
<1>12. sel \in [ids -> Nat]
  BY <1>9
<1>13. DOMAIN sel = ids /\ \A id \in ids : sel[id] = table[id]
  OBVIOUS
<1> HIDE DEF sel
<1>14. n \in PurgeState
  <2>1. sel \in Selections
    BY <1>8, <1>12, Zenon DEF Selections
  <2> QED
    BY <1>3, <2>1 DEF PurgeState
<1>15. /\ n.pc = "delete" /\ n.clock = q.clock /\ n.todo = q.todo /\ n.all = q.all
       /\ n.sel = sel /\ n.more = q.more
  BY <1>3 DEF PurgeState
<1> HIDE DEF n, q
<1>16. PurgeInv(n, time, table, newest)
  <2>1. Placed(n, time) /\ Sweeps(n, table)
    BY <1>2, <1>3, <1>15 DEF PurgeInv, Placed, Sweeps
  <2>2. Chosen(n, table, newest)
    BY <1>2, <1>9, <1>10, <1>13, <1>15 DEF Chosen, Due
  <2>3. Complete(n, table)
    <3> SUFFICES ASSUME Cardinality(DOMAIN n.sel \cap RawRows) < ChunkSize, NEW id \in RawRows,
                        RowScope[id] = Head(n.todo), Due(id, table[id], n.clock)
                 PROVE  id \in DOMAIN n.sel
      BY DEF Complete
    <3>1. Cardinality(raw) < ChunkSize
      BY <1>8, <1>13, <1>15
    <3>2. id \in raw
      BY <1>7, <1>15, <3>1 DEF Due, s, q
    <3> QED
      BY <1>8, <1>13, <1>15, <3>2
  <2> QED
    BY <2>1, <2>2, <2>3 DEF PurgeInv
<1> QED
  BY <1>2, <1>4, <1>11, <1>14, <1>16, PurgeMoves

\* The DELETE by id: the list goes on when the chunk was the scope's last, or
\* more_remaining keeps a follow-up owed.
LEMMA PurgeDeleteStep ==
  ASSUME RetentionInv, NEW p \in Purgers, DeleteChunk(p)
  PROVE  RetentionInv'
<1> DEFINE q == purge[p]
           n == purge'[p]
           stay == q.drain /\ DOMAIN q.sel # {}
           owed == q.more \/ (~q.drain /\ more_remaining(q.sel))
           todo == IF stay THEN q.todo ELSE Tail(q.todo)
<1>1. /\ time' = time /\ newest' = newest /\ stamp' = stamp /\ q.pc = "delete"
      /\ table' = [id \in Rows |-> IF id \in DOMAIN q.sel THEN Never ELSE table[id]]
  BY DEF DeleteChunk
<1>2. q \in PurgeState /\ PurgeInv(q, time, table, newest)
  BY DEF RetentionInv, PurgeTypes
<1>3. time \in Nat /\ table \in Stamps /\ newest \in Stamps /\ table' \in Stamps
  BY <1>1 DEF RetentionInv, PurgeTypes, Stamps
<1>4. \A id \in Rows : table'[id] \in {Never, table[id]}
  BY <1>1
<1>5. owed \in BOOLEAN /\ q.todo \in Seq(RowScopes) /\ q.todo # <<>>
  BY <1>1, <1>2 DEF PurgeState, PurgeInv, Placed
<1>6. todo \in Seq(RowScopes)
  BY <1>5
<1>7. purge' = [purge EXCEPT ![p] = [q EXCEPT !.pc = "scope", !.sel = Resting.sel,
                                             !.todo = todo, !.more = owed]]
  BY DEF DeleteChunk, RetentionInv, PurgeTypes
<1> DEFINE r == [q EXCEPT !.pc = "scope", !.sel = Resting.sel, !.todo = todo, !.more = owed]
<1>8. Resting.sel \in Selections /\ DOMAIN Resting.sel = {}
  BY RestingFacts DEF PurgeState, Resting
<1>9. todo # q.todo => ~q.drain \/ DOMAIN q.sel = {}
  OBVIOUS
<1>10. todo \in {q.todo, Tail(q.todo)}
  OBVIOUS
<1>11. ~owed => ~q.more /\ (q.drain \/ ~more_remaining(q.sel))
  OBVIOUS
<1> HIDE DEF todo, owed
<1>12. r \in PurgeState
  BY <1>2, <1>5, <1>6, <1>8 DEF PurgeState
<1>13. /\ r.pc = "scope" /\ r.clock = q.clock /\ r.todo = todo /\ r.all = q.all
       /\ r.sel = Resting.sel /\ (r.more <=> owed)
  BY <1>2, <1>5 DEF PurgeState
<1> HIDE DEF r
<1>14. PurgeInv(q, time, table', newest)
  <2>1. Onwards(time, table, newest, time, table', newest)
    BY <1>3, <1>4 DEF Onwards, Rows
  <2> QED
    BY <1>2, <1>3, <2>1, OthersKeep
<1> HIDE DEF q
<1>15. PurgeInv(r, time, table', newest)
  <2>1. Placed(r, time) /\ Chosen(r, table', newest) /\ Complete(r, table')
    BY <1>2, <1>8, <1>13 DEF PurgeInv, Placed, Chosen, Complete
  <2>2. Sweeps(r, table')
    <3> SUFFICES ASSUME r.all, ~r.more, NEW id \in RawRows, Due(id, table'[id], r.clock)
                 PROVE  Listed(r.todo, RowScope[id])
      BY DEF Sweeps
    <3>1. PICK i \in DOMAIN q.todo : q.todo[i] = RowScope[id]
      BY <1>1, <1>11, <1>13, <1>14 DEF PurgeInv, Sweeps, Listed
    <3>2. CASE todo = q.todo
      BY <1>13, <3>1, <3>2 DEF Listed
    <3>3. CASE todo # q.todo
      <4>1. ~more_remaining(q.sel) \/ DOMAIN q.sel = {}
        BY <1>9, <1>11, <1>13, <3>3
      <4>2. Cardinality(DOMAIN q.sel \cap RawRows) < ChunkSize
        <5>1. CASE DOMAIN q.sel = {}
          BY <5>1, FS_EmptySet
        <5>2. CASE ~more_remaining(q.sel)
          <6> DEFINE c == Cardinality(DOMAIN q.sel \cap RawRows)
          <6>1. ~(c >= ChunkSize)
            BY <5>2 DEF more_remaining
          <6>2. c \in Nat
            <7>1. DOMAIN q.sel \cap RawRows \subseteq Rows
              BY DEF Rows
            <7> QED
              BY <7>1, FS_Subset, FS_CardinalityType
          <6> HIDE DEF c
          <6>3. c < ChunkSize
            BY <6>1, <6>2
          <6> QED
            BY <6>3 DEF c
        <5> QED
          BY <4>1, <5>1, <5>2
      <4>3. i # 1
        <5> SUFFICES ASSUME i = 1 PROVE FALSE
          OBVIOUS
        <5>1. RowScope[id] = Head(q.todo)
          BY <1>5, <3>1
        <5>2. id \in DOMAIN q.sel
          BY <1>1, <1>13, <1>14, <4>2, <5>1 DEF PurgeInv, Complete
        <5>3. table'[id] = Never
          BY <1>1, <5>2 DEF Rows
        <5> QED
          BY <5>3, NoneNotExpired DEF Due
      <4>4. i - 1 \in DOMAIN Tail(q.todo) /\ Tail(q.todo)[i - 1] = q.todo[i]
        BY <1>5, <3>1, <4>3
      <4>5. todo = Tail(q.todo)
        BY <1>10, <3>3
      <4> QED
        BY <1>13, <3>1, <4>4, <4>5 DEF Listed
    <3> QED
      BY <3>2, <3>3
  <2> QED
    BY <2>1, <2>2 DEF PurgeInv
<1>16. purge' = [purge EXCEPT ![p] = r]
  BY <1>7 DEF r
<1> QED
  BY <1>1, <1>3, <1>4, <1>12, <1>15, <1>16, PurgeMoves

\* A purge of all scopes that owes no follow-up has drained them: its stamp
\* may be relied on.
LEMMA FinishStep ==
  ASSUME RetentionInv, NEW p \in Purgers, FinishPurge(p)
  PROVE  RetentionInv'
<1> DEFINE q == purge[p]
<1>1. /\ purge' = [purge EXCEPT ![p] = Resting] /\ time' = time /\ table' = table
      /\ newest' = newest /\ q.pc = "scope" /\ q.todo = <<>>
      /\ stamp' = IF q.more THEN stamp ELSE [clock |-> q.clock, all |-> q.all]
  BY DEF FinishPurge
<1>2. q \in PurgeState /\ PurgeInv(q, time, table, newest)
  BY DEF RetentionInv, PurgeTypes
<1>3. time \in Nat /\ table \in Stamps /\ PurgeInv(Resting, time, table, newest)
  BY RestingFacts DEF RetentionInv, PurgeTypes
<1>4. q.clock \in Nat /\ q.clock <= time /\ q.all \in BOOLEAN
  BY <1>2 DEF PurgeState, PurgeInv, Placed
<1> HIDE DEF q
<1>5. CASE ~q.more
  <2>1. stamp'.clock = q.clock /\ stamp'.all = q.all
    BY <1>1, <1>5
  <2>2. stamp' \in [clock : Nat \cup {Never}, all : BOOLEAN]
    BY <1>1, <1>4, <1>5
  <2>3. StampMeansDrained'
    <3> SUFFICES ASSUME q.all, NEW id \in RawRows, valid_policy(RowScope[id]),
                        expired(id, table[id], q.clock)
                 PROVE  FALSE
      BY <1>1, <2>1 DEF StampMeansDrained
    <3>1. Listed(q.todo, RowScope[id])
      BY <1>1, <1>2, <1>5 DEF PurgeInv, Sweeps, Due
    <3> QED
      BY <1>1, <3>1 DEF Listed
  <2>4. stamp'.all => stamp'.clock \in Nat /\ stamp'.clock <= time
    BY <1>4, <2>1
  <2> QED
    BY <1>1, <1>3, <2>2, <2>3, <2>4, RestingFacts, PurgeMoves
<1>6. CASE q.more
  BY <1>1, <1>3, <1>6, RestingFacts, PurgeMoves
<1> QED
  BY <1>5, <1>6

\* A crash owes nothing: the next purge starts over.
LEMMA KillStep ==
  ASSUME RetentionInv, NEW p \in Purgers, KillPurge(p)
  PROVE  RetentionInv'
<1>1. /\ purge' = [purge EXCEPT ![p] = Resting] /\ time' = time /\ table' = table
      /\ newest' = newest /\ stamp' = stamp
  BY DEF KillPurge
<1>2. time \in Nat /\ table \in Stamps /\ PurgeInv(Resting, time, table, newest)
  BY RestingFacts DEF RetentionInv, PurgeTypes
<1> QED
  BY <1>1, <1>2, RestingFacts, PurgeMoves
-----------------------------------------------------------------------------
(* The writers' steps.                                                     *)

\* The clock, an insert and a refresh only add what is not expired yet, or
\* touch an embedding.
LEMMA WriterStep ==
  ASSUME RetentionInv, Advance \/ \E id \in Rows : InsertRow(id) \/ UpsertEmbedding(id)
  PROVE  RetentionInv'
<1>1. purge' = purge /\ stamp' = stamp
  BY DEF Advance, InsertRow, UpsertEmbedding
<1>2. time \in Nat /\ table \in Stamps /\ newest \in Stamps /\ Written(table, newest)
  BY DEF RetentionInv, PurgeTypes
<1>3. /\ time' \in Nat /\ table' \in Stamps /\ newest' \in Stamps /\ Written(table', newest')
      /\ Onwards(time, table, newest, time', table', newest')
  <2>1. CASE Advance
    BY <1>2, <2>1 DEF Advance, Onwards, Rows, Stamps
  <2>2. ASSUME NEW id \in Rows, InsertRow(id)
        PROVE  /\ time' \in Nat /\ table' \in Stamps /\ newest' \in Stamps
               /\ Written(table', newest')
               /\ Onwards(time, table, newest, time', table', newest')
    <3>1. PICK at \in Nat : /\ id \in RawRows => at = time
                            /\ table' = [table EXCEPT ![id] = at]
                            /\ newest' = [newest EXCEPT ![id] = at]
      <4>1. PICK at \in IF id \in RawRows THEN {time} ELSE 0 .. time :
              /\ table' = [table EXCEPT ![id] = at] /\ newest' = [newest EXCEPT ![id] = at]
        BY <2>2 DEF InsertRow
      <4>2. at \in Nat /\ (id \in RawRows => at = time)
        BY <1>2, <4>1
      <4> QED
        BY <4>1, <4>2
    <3>2. time' = time /\ newest[id] = Never
      BY <2>2 DEF InsertRow
    <3>3. table' \in Stamps /\ newest' \in Stamps /\ Written(table', newest')
      BY <1>2, <3>1 DEF Stamps, Written
    <3>4. Onwards(time, table, newest, time', table', newest')
      BY <1>2, <3>1, <3>2 DEF Stamps, Onwards, Rows
    <3> QED
      BY <1>2, <3>2, <3>3, <3>4
  <2>3. ASSUME NEW id \in Rows, UpsertEmbedding(id)
        PROVE  /\ time' \in Nat /\ table' \in Stamps /\ newest' \in Stamps
               /\ Written(table', newest')
               /\ Onwards(time, table, newest, time', table', newest')
    <3>1. PICK seen \in 0 .. time :
            /\ table' = [table EXCEPT ![id] = seen]
            /\ newest' = [newest EXCEPT ![id] = Latest(newest[id], seen)]
      BY <2>3 DEF UpsertEmbedding
    <3>2. time' = time /\ id \in EmbRows /\ seen \in Nat
      BY <1>2, <2>3 DEF UpsertEmbedding
    <3>3. Latest(newest[id], seen) \in Nat
      BY <1>2, <3>2 DEF Latest, Stamps
    <3>4. table' \in Stamps /\ newest' \in Stamps /\ Written(table', newest')
      BY <1>2, <3>1, <3>2, <3>3 DEF Stamps, Written
    <3>5. Onwards(time, table, newest, time', table', newest')
      BY <1>2, <3>1, <3>2, <3>3 DEF Stamps, Onwards, Rows
    <3> QED
      BY <1>2, <3>2, <3>4, <3>5
  <2> QED
    BY <2>1, <2>2, <2>3
<1>4. PurgeTypes'
  BY <1>1, <1>3 DEF RetentionInv, PurgeTypes, Onwards
<1>5. \A p \in Purgers : PurgeInv(purge'[p], time', table', newest')
  <2> TAKE p \in Purgers
  <2>1. purge[p] \in PurgeState /\ PurgeInv(purge[p], time, table, newest)
    BY DEF RetentionInv, PurgeTypes
  <2> QED
    BY <1>1, <1>2, <1>3, <2>1, OthersKeep
<1>6. StampMeansDrained'
  BY <1>1, <1>3, <1>4, StampKeeps DEF RetentionInv
<1> QED
  BY <1>3, <1>4, <1>5, <1>6 DEF RetentionInv

\* Empty tables and resting purges satisfy the invariant.
LEMMA RetentionStart == PurgeInit => RetentionInv
<1> SUFFICES ASSUME PurgeInit PROVE RetentionInv
  OBVIOUS
<1>1. PurgeTypes
  BY RestingFacts DEF PurgeInit, PurgeTypes, Stamps
<1>2. Written(table, newest)
  BY DEF PurgeInit, Written
<1>3. \A p \in Purgers : PurgeInv(purge[p], time, table, newest)
  BY <1>1, RestingFacts DEF PurgeInit, PurgeTypes
<1>4. StampMeansDrained
  BY DEF PurgeInit, StampMeansDrained
<1> QED
  BY <1>1, <1>2, <1>3, <1>4 DEF RetentionInv

\* Every step, and every stutter, preserves the inductive invariant.
LEMMA RetentionStep == RetentionInv /\ [PurgeNext]_purgeVars => RetentionInv'
<1> SUFFICES ASSUME RetentionInv, [PurgeNext]_purgeVars PROVE RetentionInv'
  OBVIOUS
<1>1. CASE UNCHANGED purgeVars
  <2>1. time' = time /\ table' = table /\ newest' = newest /\ purge' = purge /\ stamp' = stamp
    BY <1>1 DEF purgeVars
  <2> QED
    BY <2>1 DEF RetentionInv, PurgeTypes, StampMeansDrained
<1>2. CASE Advance \/ \E id \in Rows : InsertRow(id) \/ UpsertEmbedding(id)
  BY <1>2, WriterStep
<1>3. ASSUME NEW p \in Purgers, BeginPurge(p) \/ SkipScope(p) \/ SelectChunk(p)
             \/ DeleteChunk(p) \/ FinishPurge(p) \/ KillPurge(p)
      PROVE  RetentionInv'
  BY <1>3, BeginStep, SkipStep, SelectStep, PurgeDeleteStep, FinishStep, KillStep
<1> QED
  BY <1>1, <1>2, <1>3 DEF PurgeNext

\* The inductive invariant holds in every reachable state.
THEOREM RetentionInvariance == PurgeSpec => []RetentionInv
  BY RetentionStart, RetentionStep, PTL DEF PurgeSpec
-----------------------------------------------------------------------------
(* What the invariant says of a deletion.                                  *)

\* A row disappears only with a chunk that was selected for a reason.
LEMMA DeletedWhenChosen ==
  ASSUME RetentionInv, [PurgeNext]_purgeVars, NEW id \in Rows, Deleted(id)
  PROVE  \E p \in Purgers :
           /\ id \in DOMAIN purge[p].sel /\ valid_policy(RowScope[id])
           /\ purge[p].sel[id] \in Nat /\ expired(id, purge[p].sel[id], time)
           /\ id \in RawRows \cup DocRows => table[id] = purge[p].sel[id]
<1>1. table[id] # Never /\ table'[id] = Never /\ table \in Stamps /\ time \in Nat
  BY DEF Deleted, RetentionInv, PurgeTypes
<1>2. PICK p \in Purgers : DeleteChunk(p)
  <2>1. ~UNCHANGED purgeVars /\ ~Advance
    BY <1>1 DEF purgeVars, Advance
  <2>2. ASSUME NEW k \in Rows PROVE ~InsertRow(k) /\ ~UpsertEmbedding(k)
    <3>1. ASSUME NEW at \in Nat, table' = [table EXCEPT ![k] = at] PROVE FALSE
      BY <1>1, <3>1 DEF Stamps
    <3> QED
      BY <1>1, <3>1 DEF InsertRow, UpsertEmbedding
  <2>3. ASSUME NEW o \in Purgers
        PROVE  ~(BeginPurge(o) \/ SkipScope(o) \/ SelectChunk(o) \/ FinishPurge(o) \/ KillPurge(o))
    BY <1>1 DEF BeginPurge, SkipScope, SelectChunk, FinishPurge, KillPurge
  <2> QED
    BY <2>1, <2>2, <2>3 DEF PurgeNext
<1>3. id \in DOMAIN purge[p].sel
  BY <1>1, <1>2 DEF DeleteChunk
<1>4. purge[p] \in PurgeState /\ PurgeInv(purge[p], time, table, newest)
  BY DEF RetentionInv, PurgeTypes
<1>5. /\ purge[p].clock \in Nat /\ purge[p].clock <= time /\ purge[p].sel[id] \in Nat
  BY <1>3, <1>4 DEF PurgeState, Selections, PurgeInv, Placed
<1>6. /\ Due(id, purge[p].sel[id], purge[p].clock)
      /\ id \in RawRows \cup DocRows => table[id] \in {Never, purge[p].sel[id]}
  BY <1>3, <1>4 DEF PurgeInv, Chosen
<1>7. expired(id, purge[p].sel[id], time)
  BY <1>1, <1>5, <1>6, ExpiredStays DEF Due
<1> QED
  BY <1>1, <1>3, <1>5, <1>6, <1>7 DEF Due

\* A purge takes what has expired, all of it and nothing else, however purges,
\* crashes, inserts and refreshes interleave: whoever reads last_purge_at may
\* rely on it, no row goes before its own scope's policy lets it, and a recurring
\* incident loses its embedding only in the two ways RecurringKept names.
THEOREM PurgeExact == PurgeSpec => PurgeIsExact
<1>1. RetentionInv => StampMeansDrained
  BY DEF RetentionInv
<1>2. RetentionInv /\ [PurgeNext]_purgeVars =>
        [\A id \in RawRows \cup DocRows : Deleted(id) =>
           valid_policy(RowScope[id]) /\ expired(id, table[id], time)]_purgeVars
  <2> SUFFICES ASSUME RetentionInv, [PurgeNext]_purgeVars, NEW id \in RawRows \cup DocRows, Deleted(id)
               PROVE  valid_policy(RowScope[id]) /\ expired(id, table[id], time)
    OBVIOUS
  <2> QED
    BY DeletedWhenChosen DEF Rows
<1>3. RetentionInv /\ [PurgeNext]_purgeVars =>
        [\A id \in EmbRows : Deleted(id) /\ ~expired(id, newest[id], time) =>
           \/ table[id] # newest[id]
           \/ \E p \in Purgers : id \in DOMAIN purge[p].sel /\ purge[p].sel[id] # table[id]]_purgeVars
  <2> SUFFICES ASSUME RetentionInv, [PurgeNext]_purgeVars, NEW id \in EmbRows, Deleted(id),
                      ~expired(id, newest[id], time), table[id] = newest[id]
               PROVE  \E p \in Purgers : id \in DOMAIN purge[p].sel /\ purge[p].sel[id] # table[id]
    OBVIOUS
  <2> QED
    BY DeletedWhenChosen DEF Rows
<1> QED
  BY <1>1, <1>2, <1>3, RetentionInvariance, PTL DEF PurgeSpec, PurgeIsExact, RowsKeptForTTL, RecurringKept

-----------------------------------------------------------------------------
(***************************************************************************)
(* The parts side by side: a step of one leaves the others alone.          *)
(***************************************************************************)
LEMMA CallLlmStep == CallLlm => [Next]_vars /\ UNCHANGED keyVars
<1> SUFFICES ASSUME CallLlm PROVE Next /\ UNCHANGED keyVars
  OBVIOUS
<1>1. UNCHANGED keyVars
  BY DEF CallLlm, NotLlm
<1>2. \A c \in Callers : Ask(c) \/ Acquire(c) \/ OverBudget(c) \/ Admit(c) \/ Refuse(c)
                          \/ Retry(c) \/ Succeed(c) \/ Fail(c) => Caller(c)
  BY Zenon DEF Caller, Admission, Call
<1>3. (\E c \in Callers : Caller(c)) \/ CooldownPasses
  BY <1>2, Zenon DEF CallLlm
<1> QED
  BY <1>1, <1>3, Zenon DEF Next

LEMMA EnqueueStep == Enqueue => [KeyNext]_keyVars /\ UNCHANGED vars
<1> SUFFICES ASSUME Enqueue PROVE KeyNext /\ UNCHANGED vars
  OBVIOUS
<1>1. UNCHANGED vars
  BY DEF Enqueue, NotKeys
<1>2. CASE ClockTicks
  BY <1>1, <1>2 DEF KeyNext
<1>3. ASSUME NEW r \in Requests, NEW s \in MCScopesOf(r), Lookup(r, s) PROVE KeyNext
  <2>1. s \in Scopes
    BY PlatformScopes DEF MCScopesOf
  <2> QED
    BY <1>3, <2>1 DEF KeyNext
<1>4. ASSUME NEW r \in Requests, Serve(r) \/ Abort(r) PROVE KeyNext
  BY <1>4 DEF KeyNext
<1> QED
  BY <1>1, <1>2, <1>3, <1>4 DEF Enqueue, Serve

LEMMA OtherStep ==
  ASSUME Purge \/ Guard \/ Override \/ Explain \/ Page \/ Embed \/ UNCHANGED platformVars
  PROVE  UNCHANGED <<vars, keyVars>>
  BY DEF Purge, Guard, Override, Explain, Page, Embed, platformVars,
         NotLlm, NotPurge, NotGuard, NotOverrides, NotCache, NotPaging, NotEmbeddings

\* Beside whatever the other parts of the service do, attempts, slots, the key's
\* row and its requests stay within their types (openai_provider.py's semaphore and
\* breaker, idempotency.py's row).
THEOREM PlatformTypes == PlatformSpec => []PlatformTypeOK
<1>1. PlatformInit => CallInv /\ KeyInv
  BY CallInit, KeyStart DEF PlatformInit
<1>2. CallInv /\ KeyInv /\ [PlatformNext]_platformVars => CallInv' /\ KeyInv'
  <2>1. [PlatformNext]_platformVars => [Next]_vars /\ [KeyNext]_keyVars
    BY CallLlmStep, EnqueueStep, OtherStep DEF PlatformNext
  <2> QED
    BY <2>1, CallInvStep, KeyInvStep
<1>3. CallInv /\ KeyInv => PlatformTypeOK
  BY DEF CallInv, KeyInv, KeyTypes, PlatformTypeOK
<1> QED
  BY <1>1, <1>2, <1>3, PTL DEF PlatformSpec
=============================================================================
