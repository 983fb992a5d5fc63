----------------------------- MODULE LLMBreaker -----------------------------
(***************************************************************************)
(* Calls to the LLM provider from the threads of one process: the in-flight *)
(* semaphore (src/core/llm/provider.py), then the token budget, the circuit *)
(* breaker and the bounded retries (src/core/llm/resilience.py).            *)
(*                                                                         *)
(* The breaker's clock is the remaining cooldown: NotOpened when            *)
(* _opened_at is None, else what is left of cooldown_seconds, 0 once it is  *)
(* over.  One HTTP attempt may take arbitrarily long (the httpx timeout     *)
(* bounds each socket operation, not the call).                             *)
(***************************************************************************)
EXTENDS Naturals, FiniteSets

CONSTANTS
  Callers,     \* threads serving explain or ask
  Slots,       \* LLM_MAX_CONCURRENCY (positive: 0 means no semaphore)
  Threshold,   \* LLM_BREAKER_THRESHOLD (0: the breaker never opens)
  Cooldown,    \* LLM_BREAKER_COOLDOWN_SECONDS
  Attempts,    \* LLM_MAX_RETRIES + 1
  MaxFailed,   \* bound on exhausted retry sequences
  NotOpened

ASSUME BreakerConstants ==
  /\ IsFiniteSet(Callers)
  /\ Slots \in Nat \ {0} /\ Threshold \in Nat /\ Cooldown \in Nat
  /\ Attempts \in Nat \ {0} /\ MaxFailed \in Nat
  /\ NotOpened \notin Nat

VARIABLES
  free,      \* the semaphore's value
  pc,        \* per caller: "idle", "waiting", "admit" or "calling"
  tries,     \* per caller: attempts of the current call that failed
  probing,   \* per caller: allow_request made it the half-open probe
  failures,  \* _failures
  opened,    \* _opened_at, as the remaining cooldown
  probe      \* _probe_in_flight

vars == <<free, pc, tries, probing, failures, opened, probe>>
breaker == <<failures, opened, probe>>

Holders == {c \in Callers : pc[c] \in {"admit", "calling"}}

\* _state_unlocked
State == CASE opened = NotOpened -> "closed"
           [] opened # NotOpened /\ opened # 0 -> "open"
           [] opened = 0 -> "half_open"
-----------------------------------------------------------------------------
(* CappedLLMProvider: the slot around the whole call.                      *)

Ask(c) ==
  /\ pc[c] = "idle"
  /\ pc' = [pc EXCEPT ![c] = "waiting"]
  /\ UNCHANGED <<free, tries, probing, breaker>>

\* llm_concurrency_slot: sem.acquire()
Acquire(c) ==
  /\ pc[c] = "waiting" /\ free > 0
  /\ free' = free - 1
  /\ pc' = [pc EXCEPT ![c] = "admit"]
  /\ UNCHANGED <<tries, probing, breaker>>

\* The with-block is left, normally or by an exception: sem.release(), and the
\* caller renders the LLM's text or falls back to the template.
Leave(c) ==
  /\ free' = free + 1
  /\ pc' = [pc EXCEPT ![c] = "idle"]
  /\ tries' = [tries EXCEPT ![c] = 0]
  /\ probing' = [probing EXCEPT ![c] = FALSE]
-----------------------------------------------------------------------------
(* invoke_llm: admission.                                                  *)

\* prepare_llm_packet raises LLMBudgetExceeded before the breaker is asked.
OverBudget(c) ==
  /\ pc[c] = "admit"
  /\ Leave(c)
  /\ UNCHANGED breaker

\* allow_request returns True: closed, or the half-open probe.
Admit(c) ==
  /\ pc[c] = "admit"
  /\ State = "closed" \/ (State = "half_open" /\ ~probe)
  /\ pc' = [pc EXCEPT ![c] = "calling"]
  /\ probe' = (probe \/ State = "half_open")
  /\ probing' = [probing EXCEPT ![c] = (State = "half_open")]
  /\ UNCHANGED <<free, tries, failures, opened>>

\* Mutant: the refusal returns without leaving the with-block.
RefuseKeepsSlot(c) ==
  /\ pc[c] = "admit"
  /\ State = "open" \/ (State = "half_open" /\ probe)
  /\ pc' = [pc EXCEPT ![c] = "idle"]
  /\ UNCHANGED <<free, tries, probing, breaker>>

\* allow_request returns False: LLMCircuitOpen.
Refuse(c) ==
  /\ pc[c] = "admit"
  /\ State = "open" \/ (State = "half_open" /\ probe)
  /\ Leave(c)
  /\ UNCHANGED breaker
-----------------------------------------------------------------------------
(* invoke_llm: the attempts and what they report.                          *)

\* Mutant: one attempt too many.
RetryOnceMore(c) ==
  /\ pc[c] = "calling" /\ tries[c] < Attempts
  /\ tries' = [tries EXCEPT ![c] = @ + 1]
  /\ UNCHANGED <<free, pc, probing, breaker>>

\* A retryable error with attempts left.
Retry(c) ==
  /\ pc[c] = "calling" /\ tries[c] + 1 < Attempts
  /\ tries' = [tries EXCEPT ![c] = @ + 1]
  /\ UNCHANGED <<free, pc, probing, breaker>>

\* Mutant: opened_at and the probe flag are left for the next failure.
SuccessClearsCountOnly ==
  /\ failures' = 0
  /\ UNCHANGED <<opened, probe>>

record_success ==
  /\ failures' = 0
  /\ opened' = NotOpened
  /\ probe' = FALSE

\* Mutant: the probe flag is only cleared by a success.
FailureKeepsProbe ==
  /\ failures' = failures + 1
  /\ opened' = IF Threshold > 0 /\ failures + 1 >= Threshold THEN Cooldown ELSE opened
  /\ UNCHANGED probe

record_failure ==
  /\ probe' = FALSE
  /\ failures' = failures + 1
  /\ opened' = IF Threshold > 0 /\ failures + 1 >= Threshold THEN Cooldown ELSE opened

Succeed(c) ==
  /\ pc[c] = "calling"
  /\ record_success
  /\ Leave(c)

\* The attempts are used up, or the error is a 4xx other than 429.
Fail(c) ==
  /\ pc[c] = "calling" /\ failures < MaxFailed
  /\ record_failure
  /\ Leave(c)

\* time.monotonic() moves on.
CooldownPasses ==
  /\ State = "open"
  /\ opened' = opened - 1
  /\ UNCHANGED <<free, pc, tries, probing, failures, probe>>
-----------------------------------------------------------------------------
Init ==
  /\ free = Slots
  /\ pc = [c \in Callers |-> "idle"]
  /\ tries = [c \in Callers |-> 0]
  /\ probing = [c \in Callers |-> FALSE]
  /\ failures = 0
  /\ opened = NotOpened
  /\ probe = FALSE

Admission(c) == OverBudget(c) \/ Admit(c) \/ Refuse(c)
Call(c) == Retry(c) \/ Succeed(c) \/ Fail(c)
Caller(c) == Ask(c) \/ Acquire(c) \/ Admission(c) \/ Call(c)

Next == (\E c \in Callers : Caller(c)) \/ CooldownPasses

Spec == Init /\ [][Next]_vars

\* Questions keep coming and not all of them are over budget, a slot that is
\* freed again and again is not always taken by others, an admitted call
\* returns, the clock runs.
Fairness ==
  /\ \A c \in Callers : WF_vars(Ask(c)) /\ SF_vars(Acquire(c))
  /\ \A c \in Callers : WF_vars(Admission(c)) /\ SF_vars(Admit(c))
  /\ \A c \in Callers : WF_vars(Succeed(c) \/ Fail(c))
  /\ WF_vars(CooldownPasses)

FairSpec == Spec /\ Fairness
-----------------------------------------------------------------------------
\* The types of the call path: no call makes more than Attempts attempts, and the
\* semaphore's value stays within its bounds.
TypeOK ==
  /\ free \in 0 .. Slots
  /\ pc \in [Callers -> {"idle", "waiting", "admit", "calling"}]
  /\ tries \in [Callers -> 0 .. (Attempts - 1)]
  /\ probing \in [Callers -> BOOLEAN]
  /\ failures \in 0 .. MaxFailed
  /\ opened \in (0 .. Cooldown) \cup {NotOpened}
  /\ probe \in BOOLEAN

\* No slot is leaked or released twice, whichever way a call ends (budget,
\* refusal, exhausted retries, success): what is not free is held by a caller
\* inside the with-block, so at most LLM_MAX_CONCURRENCY calls are in flight.
SlotsConserved == free + Cardinality(Holders) = Slots

\* The probe flag never outlives its probe: while it is set, a caller that
\* allow_request made the probe is still calling and will clear it.  Otherwise
\* the breaker would refuse every request for good.
ProbeHasOwner ==
  probe => \E c \in Callers : pc[c] = "calling" /\ probing[c]

\* The breaker is open only for a reason: Threshold exhausted sequences in a
\* row; and a probe flag exists only while it is open or half-open.
OpenedByFailures ==
  /\ opened # NotOpened => Threshold > 0 /\ failures >= Threshold
  /\ probe => opened # NotOpened

\* An outage ends: an open breaker is closed again once the provider answers.
BreakerRecovers == opened # NotOpened ~> opened = NotOpened
=============================================================================
