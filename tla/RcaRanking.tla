----------------------------- MODULE RcaRanking -----------------------------
(***************************************************************************)
(* The learned ranking of root-cause candidates (src/core/rca: features,   *)
(* candidates, ranker, propagation, calibration, linkage; explain/         *)
(* summarizer._rank_candidates, _propagation_rerank, _silent_services).    *)
(* Rows of logs, spans and metrics give a feature row per service, a tree  *)
(* ensemble scores them, the trace graph may reorder them, a calibrator    *)
(* turns the head of the list into a probability.                          *)
(*                                                                         *)
(* Ratios are in tenths, scores in percent, squares of them in the final   *)
(* score; all rows lie between the baseline's start and the window's end.  *)
(***************************************************************************)
EXTENDS StructuralSignals, Functions

CONSTANTS
  ErrorPool,      \* log lines [n, svc, level, at, fp, stack]
  BaseLen, IncLen,        \* seconds of baseline and incident
  MinBaseline, MinExpected,  \* min_baseline_spans, min_expected_incident
  OnsetGap, MaxHops,      \* min_onset_gap, max_hops
  HopWeight,      \* proximity_decay ** (hops - 1), scaled to integers
  BlameUnit,      \* an ERROR span's weight, scaled so that its callees divide it
  Excluded,       \* rca_excluded_services
  NameOrder,      \* [TeleServices -> Nat]: alphabetical order
  RankConfigs     \* [trees, rerank, feature]: the configured artifacts and flags

\* A tree's children come after their parent, as they are numbered when it is fitted.
well_grown(t) ==
  /\ t # <<>> /\ t \in Seq(ToSet(t))
  /\ \A n \in DOMAIN t :
       t[n].value \in Int /\ (t[n].left # 0 => {t[n].left, t[n].right} \subseteq n + 1 .. Len(t))

ASSUME RankConstants ==
  /\ IsFiniteSet(TeleServices) /\ NameOrder \in [TeleServices -> Int]
  /\ \A e \in ErrorPool : e.svc \in TeleServices /\ e.at \in Nat
  /\ OnsetGap \in Nat /\ MaxHops \in Nat \ {0} /\ HopWeight \in [1 .. MaxHops -> Nat \ {0}]
  /\ BlameUnit \in Nat \ {0} /\ \A n \in 1 .. Cardinality(TeleServices) : BlameUnit % n = 0
  /\ \A c \in RankConfigs :
       c.trees \in Seq(ToSet(c.trees)) /\ \A t \in ToSet(c.trees) : well_grown(t)

VARIABLES
  errorRows,   \* log_entries of the scope
  ranking      \* the ranking under way: pc, config, cands, top, confidence, silent

rankVars == <<signalVars, errorRows, ranking>>

Huge == 1000  \* a ratio over a baseline of nothing
NoConfidence == -1000
-----------------------------------------------------------------------------
(* Features.                                                               *)

ErrorLines(E) == {e \in During(E) : e.level \in {"error", "fatal", "critical"}}

log_err(E, s) == Cardinality({e \in ErrorLines(E) : e.svc = s})

log_grp(E, s) ==
  Max({0} \cup {Cardinality({d \in ErrorLines(E) : d.svc = s /\ d.fp = e.fp}) : e \in ErrorLines(E)})

log_stack(E, s) == Cardinality({e \in During(E) : e.svc = s /\ e.stack})

Timed(T, s) == {x \in T : x.svc = s /\ x.dur >= 0}
Slowest(S) == Max({0} \cup {x.dur : x \in S})

\* Only a service seen in the window has a rate and a duration.
tr_rate(T, s) ==
  LET b == Cardinality(Before(Timed(T, s)))
      i == Cardinality(During(Timed(T, s)))
  IN IF b = 0 THEN Huge ELSE (10 * i * BaseLen) \div (b * IncLen)

tr_dur(T, s) == (10 * (Slowest(During(Timed(T, s))) + 1)) \div (Slowest(Before(Timed(T, s))) + 1)

\* The series of a service with samples in both windows.
PairedSeries(M, s) ==
  {S \in {{y \in M : y.svc = s /\ y.metric = x.metric /\ series_key(y) = series_key(x)} :
            x \in {z \in M : z.svc = s}} : Before(S) # {} /\ During(S) # {}}

Change(S) ==
  LET b == SumOf(Before(S)) * Cardinality(During(S))
      i == SumOf(During(S)) * Cardinality(Before(S))
  IN IF b = 0 THEN (IF i = 0 THEN 0 ELSE Huge)
     ELSE (10 * (IF i > b THEN i - b ELSE b - i)) \div (IF b > 0 THEN b ELSE -b)

met_anom(M, s) == Max({0} \cup {Change(S) : S \in PairedSeries(M, s)})

\* Services of span traffic that was expected and fell to a fifth.
collapsed_services(T) ==
  {s \in TeleServices :
     LET b == Cardinality(Before({x \in T : x.svc = s}))
         i == Cardinality(During({x \in T : x.svc = s}))
     IN /\ b >= MinBaseline /\ b * IncLen >= MinExpected * BaseLen
        /\ 5 * i * BaseLen <= b * IncLen}

\* The union of the services with error lines, incident spans or paired metrics.
feature_services(E, T, M) ==
  {s \in TeleServices : log_err(E, s) > 0 \/ During(Timed(T, s)) # {} \/ PairedSeries(M, s) # {}}

compute_features(E, T, M) ==
  LET services == feature_services(E, T, M)
      flag(P) == IF P THEN 1 ELSE 0
  IN [s \in services |->
        [log_err |-> log_err(E, s), log_grp |-> log_grp(E, s), log_stack |-> log_stack(E, s),
         tr_rate |-> IF During(Timed(T, s)) = {} THEN 0 ELSE tr_rate(T, s),
         tr_dur |-> IF During(Timed(T, s)) = {} THEN 0 ELSE tr_dur(T, s),
         met_anom |-> met_anom(M, s),
         has_logs |-> flag(\E t \in services : log_err(E, t) > 0),
         has_traces |-> flag(\E t \in services : During(Timed(T, t)) # {}),
         has_metrics |-> flag(\E t \in services : PairedSeries(M, t) # {})]]
-----------------------------------------------------------------------------
(* Ranker.  A tree is a sequence of nodes; node 1 is the root and a node   *)
(* without children is a leaf.                                             *)

predict(t, x) ==
  LET walk[n \in DOMAIN t] ==
        IF t[n].left = 0 THEN t[n].value
        ELSE IF x[t[n].feature] <= t[n].threshold THEN walk[t[n].left] ELSE walk[t[n].right]
  IN walk[1]

\* The sigmoid only confines the sum.
score(trees, x) ==
  LET total == SumFunction([i \in DOMAIN trees |-> predict(trees[i], x)])
  IN IF total < 0 THEN 0 ELSE IF total > 100 THEN 100 ELSE total

\* The highest key first, equals by name.
ByScore(S, key) ==
  CHOOSE s \in SetToSeqs(S) : \A i, j \in DOMAIN s : i < j =>
    \/ key[s[i]] > key[s[j]]
    \/ key[s[i]] = key[s[j]] /\ NameOrder[s[i].svc] <= NameOrder[s[j].svc]

modalities(f) ==
  {m \in {"logs", "traces", "metrics"} :
     \/ m = "logs" /\ f.log_err > 0
     \/ m = "traces" /\ (f.tr_rate > 0 \/ f.tr_dur > 0)
     \/ m = "metrics" /\ f.met_anom > 0}

build_candidates(trees, table) ==
  LET cands == {[svc |-> s, score |-> score(trees, table[s]), err |-> table[s].log_err,
                 modalities |-> modalities(table[s])] : s \in DOMAIN table \ Excluded}
  IN ByScore(cands, [c \in cands |-> c.score])
-----------------------------------------------------------------------------
(* Propagation.  Span ids alone key this graph; of the rows with one id    *)
(* the last one read counts.                                               *)

RowPerId(T) ==
  {f \in [{x.id : x \in During(T)} -> During(T)] : \A i \in DOMAIN f : f[i].id = i}

service_graph_from_spans(rows) ==
  {<<rows[rows[i].parent].svc, rows[i].svc>> :
     i \in {j \in DOMAIN rows : rows[j].parent \in DOMAIN rows /\ rows[rows[j].parent].svc # rows[j].svc}}

\* BFS over the edges without their direction.
_undirected_hops(edges, s) ==
  LET next(N) == N \cup {e[1] : e \in {x \in edges : x[2] \in N}} \cup {e[2] : e \in {x \in edges : x[1] \in N}}
      within[d \in 0 .. MaxHops] == IF d = 0 THEN {s} ELSE next(within[d - 1])
  IN [n \in within[MaxHops] \ {s} |-> CHOOSE d \in 1 .. MaxHops : n \in within[d] /\ n \notin within[d - 1]]

\* An ERROR span's weight is split over the n services it called.
share(n) == BlameUnit \div n

\* An ERROR span blames the services of its child spans, or itself.
failed_edge_dependencies(T) ==
  LET W == During(T)
      errors == {x \in W : x.status = "error"}
      callees(x) == {y.svc : y \in {z \in W : z.parent = x.id /\ z.svc # x.svc}}
      blamed(x) == IF callees(x) = {} THEN {x.svc} ELSE callees(x)
  IN [s \in UNION {blamed(x) : x \in errors} |->
        SumFunction([x \in {e \in errors : s \in blamed(e)} |-> share(Cardinality(blamed(x)))])]

_error_onsets(E) ==
  [s \in {e.svc : e \in ErrorLines(E)} |-> Min({e.at : e \in {x \in ErrorLines(E) : x.svc = s}})]

\* The service that degraded first is upstream.
precedence(a, b) == IF a < b THEN 1 ELSE -1

\* tanh, as an odd increasing function of the fraction num / den.
squash(num, den) ==
  IF num >= 0 THEN (100 * num) \div (num + den) ELSE -((100 * (-num)) \div (den - num))

\* The candidates' scores with the onset and the dependency term.
propagation_score(c, cands, edges, onset, dep) ==
  LET anomalous == {d \in ToSet(cands) : d.err > 0}
      loudest == Max({1} \cup {d.err : d \in anomalous})
      hops == _undirected_hops(edges, c.svc)
      near == {d \in anomalous : d.svc \in DOMAIN hops}
      gap(d) == IF onset[d.svc] > onset[c.svc] THEN onset[d.svc] - onset[c.svc]
                ELSE onset[c.svc] - onset[d.svc]
      weight(d) == IF {c.svc, d.svc} \subseteq DOMAIN onset /\ gap(d) > OnsetGap
                   THEN precedence(onset[c.svc], onset[d.svc]) * d.err * HopWeight[hops[d.svc]]
                   ELSE 0
      adj == squash(SumFunction([d \in near |-> weight(d)]), loudest * HopWeight[1])
      factor == IF Cardinality(anomalous) >= 2 /\ c.err > 0 THEN 400 + adj ELSE 400
      most == Max({1} \cup {dep[s] : s \in DOMAIN dep})
      boost == IF c.svc \in DOMAIN dep THEN (40000 * dep[c.svc]) \div most ELSE 0
  IN c.score * factor + boost

\* The order changes, the candidates keep their scores.
rerank_candidates(cands, services, edges, onset, dep) ==
  IF services = {} \/ Len(cands) < 2 THEN cands
  ELSE ByScore(ToSet(cands), [c \in ToSet(cands) |-> propagation_score(c, cands, edges, onset, dep)])
-----------------------------------------------------------------------------
(* Confidence.                                                             *)

calibration_feature(cands, feature) ==
  LET top == cands[1]
  IN CASE feature = "top_score" -> top.score
       [] feature = "margin" -> IF Len(cands) > 1 THEN top.score - cands[2].score ELSE 0
       [] feature = "n_modalities" -> Cardinality(top.modalities)

\* Mutant: the calibrator is applied whoever leads.
AlwaysCalibrated(cands, rankerTop) == TRUE

\* The calibrator was fitted on the ranker's first choice.
may_calibrate(cands, rankerTop) == cands[1].svc = rankerTop

Calibrated(cands, config, rankerTop) ==
  IF config.feature # "none" /\ may_calibrate(cands, rankerTop)
  THEN calibration_feature(cands, config.feature) ELSE NoConfidence
-----------------------------------------------------------------------------
NothingRanked(config) ==
  [pc |-> "idle", config |-> config, cands |-> <<>>, top |-> "", confidence |-> NoConfidence, silent |-> {}]

RankingInit ==
  /\ SignalsInit /\ errorRows = {}
  /\ ranking \in {NothingRanked(c) : c \in RankConfigs}

RecordError(e) ==
  /\ e \in ErrorPool \ errorRows /\ Cardinality(sent) + Cardinality(errorRows) < MaxTelemetry
  /\ errorRows' = errorRows \cup {e}
  /\ UNCHANGED <<signalVars, ranking>>

\* compute_features and the ranker; without an artifact there is no ranking.
ScoreServices ==
  /\ ranking.pc = "idle"
  /\ LET table == compute_features(errorRows, spanRows, sampleRows)
         cands == build_candidates(ranking.config.trees, table)
     IN ranking' = IF ranking.config.trees = <<>> \/ cands = <<>>
                   THEN [ranking EXCEPT !.pc = "silence"]
                   ELSE [ranking EXCEPT !.pc = "scored", !.cands = cands, !.top = cands[1].svc]
  /\ UNCHANGED <<signalVars, errorRows>>

\* The graph, the onsets and the failed edges are read after the features.
RerankAndCalibrate ==
  /\ ranking.pc = "scored"
  /\ \E rows \in RowPerId(spanRows) :
       LET cands == IF ~ranking.config.rerank THEN ranking.cands
                    ELSE rerank_candidates(ranking.cands, {x.svc : x \in During(spanRows)},
                           service_graph_from_spans(rows), _error_onsets(errorRows),
                           failed_edge_dependencies(spanRows))
       IN ranking' = [ranking EXCEPT !.pc = "silence", !.cands = cands,
                        !.confidence = Calibrated(cands, ranking.config, ranking.top)]
  /\ UNCHANGED <<signalVars, errorRows>>

FindSilent ==
  /\ ranking.pc = "silence"
  /\ ranking' = [ranking EXCEPT !.pc = "done", !.silent = collapsed_services(spanRows)]
  /\ UNCHANGED <<signalVars, errorRows>>

RankingNext ==
  \/ SignalsNext /\ UNCHANGED <<errorRows, ranking>>
  \/ \E e \in ErrorPool : RecordError(e)
  \/ ScoreServices \/ RerankAndCalibrate \/ FindSilent

RankingSpec == RankingInit /\ [][RankingNext]_rankVars
-----------------------------------------------------------------------------
(* Properties.                                                             *)

\* Silence is evidence and never a suspicion (collapsed_services): the rows of a
\* service that reported nothing during the incident change no feature, score or
\* position of any candidate.
SilenceMovesNobody ==
  ranking.pc = "idle" /\ ranking'.pc = "scored" =>
    LET heard == {x.svc : x \in During(spanRows) \cup During(sampleRows) \cup During(errorRows)}
        kept(S) == {x \in S : x.svc \in heard}
    IN ranking'.cands = build_candidates(ranking.config.trees,
         compute_features(kept(errorRows), kept(spanRows), kept(sampleRows)))

SilenceIsOnlyAClue == [][SilenceMovesNobody]_rankVars

\* Each failed span blames services with a weight of one in all, however many
\* services it called: a handler that fans out cannot outvote a single call.
BlameAddsUp ==
  LET dep == failed_edge_dependencies(spanRows)
  IN SumFunction(dep) = BlameUnit * Cardinality({x \in During(spanRows) : x.status = "error"})

\* Of two neighbours the ranker scored equally, alone in having error lines and
\* equally blamed by failed calls, the one that failed first by more than the gap
\* is listed first, even if lines were committed after the features were read.
FirstIsAhead ==
  ranking.pc = "scored" /\ ranking'.pc = "silence" /\ ranking.config.rerank =>
    LET onset == _error_onsets(errorRows)
        dep == failed_edge_dependencies(spanRows)
        blame(c) == IF c.svc \in DOMAIN dep THEN dep[c.svc] ELSE 0
        at(c) == CHOOSE i \in DOMAIN ranking'.cands : ranking'.cands[i] = c
    IN \A a, b \in ToSet(ranking.cands) :
         /\ a.score = b.score /\ a.score > 0 /\ blame(a) = blame(b)
         /\ {c \in ToSet(ranking.cands) : c.err > 0} = {a, b}
         /\ onset[b.svc] - onset[a.svc] > OnsetGap
         /\ \A rows \in RowPerId(spanRows) :
              {<<a.svc, b.svc>>, <<b.svc, a.svc>>} \cap service_graph_from_spans(rows) # {}
         => at(a) < at(b)

FirstToFailLeads == [][FirstIsAhead]_rankVars

\* A probability is only shown for what it was fitted on: the candidate at the
\* head when it was computed is the ranker's first choice and has the best score
\* of the list, reordered or not.  (With the "margin" feature the second place
\* may be a reordered one, and the margin is not the one of the ranker.)
ProbabilityIsTheRankers ==
  ranking.confidence # NoConfidence =>
    /\ \A i \in DOMAIN ranking.cands : ranking.cands[i].score <= ranking.cands[1].score
    /\ ranking.config.feature = "top_score" => ranking.confidence = Max({c.score : c \in ToSet(ranking.cands)})

\* The ranking rests on its evidence through all its stages: failed calls share
\* out one blame each, silence moves nobody, of equals the first to fail leads, and
\* a probability is shown only for the candidate it was computed for.
RankingRestsOnEvidence ==
  /\ [](BlameAddsUp /\ ProbabilityIsTheRankers)
  /\ SilenceIsOnlyAClue /\ FirstToFailLeads
=============================================================================
