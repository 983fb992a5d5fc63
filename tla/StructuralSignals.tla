------------------------ MODULE StructuralSignals ---------------------------
(***************************************************************************)
(* The telemetry behind the structural view (src/core/rca:                 *)
(* structural_model, structural, metric_series).  Spans and metric samples *)
(* are reduced, over a baseline and an incident window, to three-valued    *)
(* observables (sig of a service, edge of a call, util of a resource), and *)
(* the services worth suspecting are generated from them.                  *)
(*                                                                         *)
(* A state "" is UNKNOWN.  A span is a record [trace, id, parent, svc, op, *)
(* at, dur, status] with -1 for a missing or malformed duration, 0 for no  *)
(* parent and "unset" for no explicit status.  A sample is [svc, metric,   *)
(* inst, mode, type, at, value]: inst "none" when the source recorded no   *)
(* identity at all and "" when the identity names no instance.             *)
(***************************************************************************)
EXTENDS Naturals, Integers, Sequences, FiniteSets, FiniteSetsExt, SequencesExt

CONSTANTS
  TeleServices,
  SpanPool, SamplePool,  \* the rows that may be ingested
  IncidentAt,            \* window_start: earlier rows are the baseline
  MaxTelemetry           \* how many rows are ingested (a bound)

\* The columns of a span and of a sample.  A span id is never 0, which stands
\* for no parent and for no trace.
ASSUME SignalConstants ==
  /\ IncidentAt \in Nat /\ MaxTelemetry \in Nat
  /\ \A x \in SpanPool :
       /\ x = [trace |-> x.trace, id |-> x.id, parent |-> x.parent, svc |-> x.svc, op |-> x.op,
               at |-> x.at, dur |-> x.dur, status |-> x.status]
       /\ x.trace \in Nat /\ x.id \in Nat \ {0} /\ x.parent \in Nat
       /\ x.svc \in TeleServices /\ x.at \in Nat /\ x.dur \in Int
  /\ \A x \in SamplePool :
       /\ x = [svc |-> x.svc, metric |-> x.metric, inst |-> x.inst, mode |-> x.mode,
               type |-> x.type, at |-> x.at, value |-> x.value]
       /\ x.svc \in TeleServices /\ x.at \in Nat

VARIABLES
  sent,                  \* the rows handed to the persist functions so far
  spanRows, sampleRows,  \* trace_spans and metric_samples of the scope
  structural             \* the last structural view, with the rows it was built from

signalVars == <<sent, spanRows, sampleRows, structural>>

During(S) == {x \in S : x.at >= IncidentAt}
Before(S) == {x \in S : x.at < IncidentAt}
SumOf(S) == MapThenSumSet(LAMBDA x : x.value, S)
-----------------------------------------------------------------------------
(* Branches.  An error or latency branch is "hit", "normal" or unmeasured. *)

\* PRESENT needs one anomalous branch, ABSENT two measured and normal ones.
sig_state(err, lat) ==
  IF "hit" \in {err, lat} THEN "present"
  ELSE IF err = "normal" /\ lat = "normal" THEN "absent" ELSE ""

\* discretize_rate: at least 5 % of the explicit statuses are ERROR.
error_branch(S) ==
  LET explicit == {x \in During(S) : x.status # "unset"}
      failed == {x \in explicit : x.status = "error"}
  IN IF explicit = {} THEN "unmeasured"
     ELSE IF 20 * Cardinality(failed) >= Cardinality(explicit) THEN "hit" ELSE "normal"

\* The k-th of the durations in ascending order: the least that k do not exceed.
nth_duration(S, k) == Min({d \in {x.dur : x \in S} : Cardinality({x \in S : x.dur <= d}) >= k})

\* Twice the median duration, so that it stays an integer.
_median(S) ==
  LET n == Cardinality(S)
  IN nth_duration(S, (n + 1) \div 2) + nth_duration(S, (n \div 2) + 1)

\* discretize_ratio: the incident median is at least twice the baseline's.
latency_branch(S) ==
  LET timed == {x \in S : x.dur >= 0}
  IN IF During(timed) = {} \/ Before(timed) = {} THEN "unmeasured"
     ELSE IF _median(Before(timed)) = 0 THEN "unmeasured"
     ELSE IF _median(During(timed)) >= 2 * _median(Before(timed)) THEN "hit" ELSE "normal"

summarize_spans(T) ==
  [s \in TeleServices |-> LET S == {x \in T : x.svc = s}
                          IN sig_state(error_branch(S), latency_branch(S))]
-----------------------------------------------------------------------------
(* Metrics: every series is reduced on its own.                            *)

series_key(x) == IF x.inst = "none" THEN <<>> ELSE <<x.inst, x.mode>>

SeriesOf(X) == {{y \in X : series_key(y) = series_key(x)} : x \in X}

rate_series(X) ==
  LET xs == During(X)
  IN IF xs = {} \/ \E x \in xs : x.value \notin 0 .. 100 THEN "unmeasured"
     ELSE IF SumOf(xs) >= 5 * Cardinality(xs) THEN "hit" ELSE "normal"

ratio_series(X) ==
  LET ix == During(X)
      bx == Before(X)
  IN IF ix = {} \/ SumOf(bx) <= 0 \/ \E x \in X : x.value < 0 THEN "unmeasured"
     ELSE IF SumOf(ix) * Cardinality(bx) >= 2 * SumOf(bx) * Cardinality(ix) THEN "hit" ELSE "normal"

\* Anomalous if any series is, normal only if every series is.
over_series(states) ==
  IF "hit" \in states THEN "hit" ELSE IF states = {"normal"} THEN "normal" ELSE "unmeasured"

summarize_metrics(M) ==
  [s \in TeleServices |->
     LET series(m) == SeriesOf({x \in M : x.svc = s /\ x.metric = m})
     IN sig_state(over_series({rate_series(S) : S \in series("error_rate")}),
                  over_series({ratio_series(S) : S \in series("latency_ms")}))]

\* PRESENT > ABSENT > UNKNOWN over the modalities.
strongest(states) ==
  IF "present" \in states THEN "present" ELSE IF "absent" \in states THEN "absent" ELSE ""

combine_signals(a, b) == [s \in TeleServices |-> strongest({a[s], b[s]})]
-----------------------------------------------------------------------------
(* Utilization.                                                            *)

\* The resource a metric name is about and the instrument it must be;
\* collector and SDK self-telemetry is about no resource.
util_metric_class ==
  [cpu_utilization |-> [resource |-> "cpu", type |-> "gauge"],
   cpu_time |-> [resource |-> "cpu", type |-> "counter"],
   memory_utilization |-> [resource |-> "memory", type |-> "gauge"]]

Resources == {"cpu", "memory"}

UtilRows(M) == {x \in M : x.metric \in DOMAIN util_metric_class}

Ascending(X) == SetToSortSeq(X, LAMBDA x, y : x.at < y.at)

\* First and last of a window, for its rate of growth.
growth(X) == LET s == Ascending(X) IN s[Len(s)].value - s[1].value
span_of(X) == LET s == Ascending(X) IN s[Len(s)].at - s[1].at

\* A counter that never falls, at least two points in either window.
counter_state(X) ==
  LET s == Ascending(X)
  IN IF \/ \E i \in 1 .. Len(s) - 1 : s[i + 1].value < s[i].value
        \/ Cardinality(Before(X)) < 2 \/ Cardinality(During(X)) < 2
     THEN ""
     ELSE IF growth(Before(X)) = 0 THEN ""
     ELSE IF growth(During(X)) * span_of(Before(X)) >= 2 * growth(Before(X)) * span_of(During(X))
     THEN "present" ELSE "absent"

_measure_series(X, type) ==
  IF Before(X) = {} \/ During(X) = {} \/ (\E x \in X : x.value < 0)
     \/ (\E x, y \in X : x # y /\ x.at = y.at) THEN ""
  ELSE IF type = "counter" THEN counter_state(X)
  ELSE LET r == ratio_series(X)
       IN IF r = "hit" THEN "present" ELSE IF r = "normal" THEN "absent" ELSE ""

\* Every sample names its instance, one mode only, the instrument it should be.
identified(X, type) ==
  /\ \A x \in X : x.inst \notin {"none", ""} /\ x.type = type
  /\ \A x, y \in X : x.mode = y.mode

\* The states of the instances of one metric.
instance_states(X, type) ==
  IF ~identified(X, type) THEN {""}
  ELSE {_measure_series({y \in X : y.inst = x.inst}, type) : x \in X}

metric_state(X, type) ==
  LET states == instance_states(X, type)
  IN IF "present" \in states THEN "present" ELSE IF states = {"absent"} THEN "absent" ELSE ""

summarize_utilization(M) ==
  [k \in TeleServices \X Resources |->
     strongest({metric_state({x \in M : x.svc = k[1] /\ x.metric = m}, util_metric_class[m].type) :
                  m \in {n \in {x.metric : x \in {y \in UtilRows(M) : y.svc = k[1]}} :
                           util_metric_class[n].resource = k[2]}})]
-----------------------------------------------------------------------------
(* Calls.                                                                  *)

\* Mutant: the trace is not compared.
SpanIdAlone(p, c) == p.id = c.parent

\* p is the parent of c: a span id is only meaningful within its trace.
is_parent(p, c) == c.trace # 0 /\ p.trace = c.trace /\ p.id = c.parent

CrossCalls(T) == {pc \in T \X T : is_parent(pc[1], pc[2]) /\ pc[1].svc # pc[2].svc}

\* The incident call graph: the child starts in the window, the parent may not.
call_edges(T) == {<<pc[1].svc, pc[2].svc>> : pc \in {x \in CrossCalls(T) : x[2].at >= IncidentAt}}

\* Targets are learned from the baseline and the incident.
learnable(T) == T

\* The service at least 90 % of the operation's cross-service children are in.
learn_call_targets(T, caller, op) ==
  LET calls == {pc \in CrossCalls(learnable(T)) : pc[1].svc = caller /\ pc[1].op = op}
      to(s) == Cardinality({pc \in calls : pc[2].svc = s})
  IN {s \in TeleServices : to(s) > 0 /\ 10 * to(s) >= 9 * Cardinality(calls)}

\* An edge is judged by the caller's spans of the operations that call the callee.
summarize_edges(T) ==
  LET spansOf(e) == {x \in T : x.svc = e[1] /\ e[2] \in learn_call_targets(T, x.svc, x.op)}
      called == {e \in TeleServices \X TeleServices : During(spansOf(e)) # {}}
  IN [e \in called |-> sig_state(error_branch(spansOf(e)), latency_branch(spansOf(e)))]
-----------------------------------------------------------------------------
structural_signals(T, M) ==
  [signals |-> combine_signals(summarize_spans(T), summarize_metrics(M)),
   edges |-> call_edges(T),
   edge_signals |-> summarize_edges(T),
   util_signals |-> summarize_utilization(M)]

\* Anomalous services, the callees of one whose fault no callee shows, the
\* callees of failing calls and the services with a saturated resource.
build_hypotheses(inp) ==
  LET anomalous == {s \in TeleServices : inp.signals[s] = "present"}
      callees(s) == {e[2] : e \in {x \in inp.edges : x[1] = s}}
  IN anomalous
     \cup (UNION {callees(s) : s \in {t \in anomalous : callees(t) \cap anomalous = {}}})
     \cup {e[2] : e \in {x \in DOMAIN inp.edge_signals : inp.edge_signals[x] = "present"}}
     \cup {k[1] : k \in {x \in DOMAIN inp.util_signals : inp.util_signals[x] = "present"}}

\* Every coordinate with a proven state; an UNKNOWN one is left out.
build_observables(inp) ==
  {<<"sig", s>> : s \in {t \in TeleServices : inp.signals[t] # ""}}
  \cup {<<"edge", e[1], e[2]>> : e \in {x \in DOMAIN inp.edge_signals : inp.edge_signals[x] # ""}}
  \cup {<<"util", k[1], k[2]>> : k \in {x \in DOMAIN inp.util_signals : inp.util_signals[x] # ""}}

NoView == [hypotheses |-> {}, observables |-> {}]

\* No candidate, no structural claim.
build_structural_view(T, M) ==
  LET inp == structural_signals(T, M)
  IN IF build_hypotheses(inp) = {} THEN NoView
     ELSE [hypotheses |-> build_hypotheses(inp), observables |-> build_observables(inp)]

SignalsInit ==
  /\ sent = {} /\ spanRows = {} /\ sampleRows = {}
  /\ structural = [spans |-> {}, samples |-> {}, view |-> NoView]

\* The deterministic primary keys, on which a second insert does nothing.
span_pk(x) == <<x.trace, x.id, x.at, x.svc>>

\* A sample's series is part of its key if the source recorded one.
metric_pk(x) == <<x.svc, x.metric, x.at, series_key(x)>>

persist_spans(x) ==
  /\ x \in SpanPool /\ Cardinality(sent \cup {x}) <= MaxTelemetry
  /\ sent' = sent \cup {x}
  /\ spanRows' = spanRows \cup {y \in {x} : \A z \in spanRows : span_pk(z) # span_pk(y)}
  /\ UNCHANGED <<sampleRows, structural>>

persist_metric_samples(x) ==
  /\ x \in SamplePool /\ Cardinality(sent \cup {x}) <= MaxTelemetry
  /\ sent' = sent \cup {x}
  /\ sampleRows' = sampleRows \cup {y \in {x} : \A z \in sampleRows : metric_pk(z) # metric_pk(y)}
  /\ UNCHANGED <<spanRows, structural>>

\* An explanation asks for the structural view of the rows so far.
ViewStructure ==
  /\ <<structural.spans, structural.samples>> # <<spanRows, sampleRows>>
  /\ structural' = [spans |-> spanRows, samples |-> sampleRows,
                    view |-> build_structural_view(spanRows, sampleRows)]
  /\ UNCHANGED <<sent, spanRows, sampleRows>>

SignalsNext ==
  \/ \E x \in SpanPool : persist_spans(x)
  \/ \E x \in SamplePool : persist_metric_samples(x)
  \/ ViewStructure

SignalsSpec == SignalsInit /\ [][SignalsNext]_signalVars
-----------------------------------------------------------------------------
(* Properties.                                                             *)

\* The tables have no dedup index, yet sending telemetry again adds nothing and
\* drops nothing: a stored row is missing only if it repeats a span of its trace,
\* service and time or a point of its own series.  A source that names no series
\* keeps one of its points per time.
TelemetryKeptOnce ==
  LET spans == {x \in sent : "trace" \in DOMAIN x}
      samples == sent \ spans
      samePoint(x, y) == x.svc = y.svc /\ x.metric = y.metric /\ x.at = y.at /\ x.inst = y.inst
                         /\ (x.inst = "none" \/ x.mode = y.mode)
  IN /\ \A x \in spans : Cardinality({y \in spanRows : y.trace = x.trace /\ y.id = x.id
                                     /\ y.at = x.at /\ y.svc = x.svc}) = 1
     /\ \A x \in samples : Cardinality({y \in sampleRows : samePoint(x, y)}) = 1

\* A service that goes dark is not declared healthy: take away what one service
\* reported during the incident, as a dead process or a lost exporter does, and
\* neither its signal nor its resources are ABSENT, whatever its baseline shows.
SilenceIsNotHealth ==
  \A s \in TeleServices :
    LET kept(S) == {x \in S : x.svc # s \/ x.at < IncidentAt}
        inp == structural_signals(kept(structural.spans), kept(structural.samples))
    IN /\ inp.signals[s] # "absent"
       /\ \A r \in Resources : inp.util_signals[<<s, r>>] # "absent"

\* A callee that answers nothing is still suspected.  An operation with calls
\* into s, and into no other service, that fails during the incident makes s a
\* hypothesis even if every span of s is from the baseline (the ERROR is then at
\* least one in twenty of the caller's statuses).
DarkCalleeSuspected ==
  LET T == structural.spans
  IN \A x \in During(T), s \in TeleServices :
       /\ x.status = "error" /\ Cardinality(During(T)) <= 20
       /\ \E pc \in CrossCalls(T) : pc[1].svc = x.svc /\ pc[1].op = x.op /\ pc[2].svc = s
       /\ \A pc \in CrossCalls(T) : pc[1].svc = x.svc /\ pc[1].op = x.op => pc[2].svc = s
       => s \in structural.view.hypotheses

\* Span ids are local to a trace: renumbering the spans so that no two traces
\* share an id leaves the view as it was.
TraceIdsAreLocal ==
  LET renumber(x) == [x EXCEPT !.id = 10 * x.trace + x.id,
                               !.parent = IF x.parent = 0 THEN 0 ELSE 10 * x.trace + x.parent]
  IN structural.view = build_structural_view({renumber(x) : x \in structural.spans}, structural.samples)

\* A calm replica hides no pegged one: what the samples of one instance or
\* series prove on their own is still proved with those of the others beside
\* them, unless the metric has more than one mode or a sample of no instance.
CalmReplicaDoesNotHide ==
  LET M == structural.samples
      proven(N) == structural_signals({}, N)
      alone(x) == {y \in M : y.svc = x.svc /\ y.metric = x.metric /\ series_key(y) = series_key(x)}
      whole(x) == {y \in M : y.svc = x.svc /\ y.metric = x.metric}
  IN \A x \in M :
       /\ x.metric = "error_rate" /\ proven(alone(x)).signals[x.svc] = "present"
            => x.svc \in structural.view.hypotheses
       /\ x.metric \in DOMAIN util_metric_class =>
            LET c == util_metric_class[x.metric]
            IN identified(whole(x), c.type) /\ proven(alone(x)).util_signals[<<x.svc, c.resource>>] = "present"
               => x.svc \in structural.view.hypotheses

\* Telemetry is read for what it proves, not for what it lacks: rows are kept once,
\* silence is neither health nor innocence, and neither span ids of other traces
\* nor calm replicas change what one service's own rows show.
SignalsProveWhatTheySay ==
  /\ TelemetryKeptOnce /\ SilenceIsNotHealth /\ DarkCalleeSuspected
  /\ TraceIdsAreLocal /\ CalmReplicaDoesNotHide
=============================================================================
