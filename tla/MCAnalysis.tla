----------------------------- MODULE MCAnalysis -----------------------------
(***************************************************************************)
(* The instance of the analysis of logs and telemetry that TLC checks:     *)
(* parsing, clustering and explanation, the views of a window, retrieval,  *)
(* the structural view and the ranking of root causes.  `part` picks the   *)
(* one a behaviour is about; the others are not asked anything.            *)
(***************************************************************************)
EXTENDS Explanation, WindowViews, LineParsing, Retrieval, StructuralPartition, RcaRanking,
        EvalHarness

VARIABLE part

AnalysisParts == {"explain", "views", "parsing", "retrieval", "partition", "signals", "ranking",
                  "split", "eval"}

NotExplain == <<part, viewVars, parsingVars, retrievalVars, partitionVars, rankVars, evalVars>>
NotViews == <<part, explanationVars, parsingVars, retrievalVars, partitionVars, rankVars, evalVars>>
NotParsing == <<part, explanationVars, viewVars, retrievalVars, partitionVars, rankVars, evalVars>>
NotRetrieval == <<part, explanationVars, viewVars, parsingVars, partitionVars, rankVars, evalVars>>
NotPartition == <<part, explanationVars, viewVars, parsingVars, retrievalVars, rankVars, evalVars>>
NotTelemetry == <<part, explanationVars, viewVars, parsingVars, retrievalVars, partitionVars, evalVars>>
NotEval == <<part, explanationVars, viewVars, parsingVars, retrievalVars, partitionVars, rankVars>>
-----------------------------------------------------------------------------
(* Clustering and explanation: four fingerprints, two services, two        *)
(* environments; the last kind of line belongs to another scope.           *)

Line(f, s, l, t, e, h) == [fp |-> f, svc |-> s, lvl |-> l, at |-> t, env |-> e, here |-> h]
MCRowKinds ==
  {Line(1, "s", "error", 3, "p", TRUE), Line(1, "t", "info", 3, "p", TRUE),
   Line(2, "t", "warn", 2, "q", TRUE), Line(3, "", "error", 4, "p", TRUE),
   Line(3, "s", "info", 1, "p", TRUE), Line(4, "s", "", 4, "p", TRUE),
   Line(4, "t", "error", 2, "p", FALSE)}
MCTables ==
  {t \in [MCRowKinds -> 0 .. 2] :
     SumFunction(t) = 3 /\ \A k \in MCRowKinds : t[k] = 2 => k.fp \in {1, 3} /\ k.lvl = "error"}
MCFpMessage == <<"plain", "plain", "causal", "reactive">>
MCSimilar == {<<1, 2>>, <<2, 1>>, <<2, 3>>, <<3, 2>>}
MCMetricOnsets == {<<>>, <<"t">>}
MCLinked == {<<"t", "s">>}
MCAsks == {[svc |-> "", env |-> ""], [svc |-> "s", env |-> ""], [svc |-> "", env |-> "p"]}

(* Views of a window.                                                      *)

MCMessageClass == <<"retry", "fail", "retry", "queue">>
MCContents == {c \in [1 .. 4 -> 0 .. 3] : SumFunction(c) <= 4}
MCTriggerSets == {{[key |-> "deploy", version |-> 1]},
                  {[key |-> "deploy", version |-> 2], [key |-> "config", version |-> 0]}}
Listed(f, n, t, c) == [fp |-> f, count |-> n, first |-> t, class |-> c]
SecondaryClusters == {Listed(1, 2, 1, "retry"), Listed(2, 1, 3, "retry"), Listed(3, 1, 1, "queue"),
              Listed(4, 2, 3, "fail"), Listed(5, 1, 2, "slow"), Listed(6, 1, Untimed, "other")}
MCPackets ==
  [triggers : {<<>>, <<3, 1>>, <<2>>},
   primary : {Listed(0, 3, 2, "fail"), Listed(0, 3, Untimed, "fail")},
   secondary : UNION {SetToSeqs(s) : s \in {x \in SUBSET SecondaryClusters : Cardinality(x) <= 3}}]

(* Lines: every body of up to three tokens, longer ones of fewer kinds.    *)

MCBodies ==
  SeqOf({"ts", "LVL", "w"}, 5) \cup SeqOf({"day", "clock", "LVL", "w"}, 4)
  \cup SeqOf({"lts", "day", "clock", "bts", "blvl", "LVL", "w"}, 3)
MCStampValues ==
  [form : {"number", "digits"},
   n : {0, 2000, 20260, 253402, 253403, 1000000, 1000001, 1770000, 1770123, 253402000, 253402999, 253403000, 400000000}]

(* Retrieval.                                                              *)

AskLine(id, sc, fp, svc, lvl, at, kw, s) ==
  [id |-> id, scope |-> sc, fp |-> fp, svc |-> svc, lvl |-> lvl, at |-> at, kw |-> kw, sim |-> s]
MCAskRows ==
  {AskLine(1, "s1", 1, "api", "error", 1, TRUE, 3), AskLine(2, "s1", 3, "db", "error", 2, FALSE, 1),
   AskLine(3, "s2", 2, "api", "warn", 2, TRUE, 2), AskLine(4, "s1", 2, "api", "info", 1, TRUE, 2),
   AskLine(5, "s1", 3, "db", "fatal", 1, FALSE, 0), AskLine(6, "s1", 2, "api", "error", 3, TRUE, 3)}
MCAskTables == {{}} \cup {T \in SUBSET MCAskRows : Cardinality(T) \in {1, 3, 5}}
MCQuestions ==
  [kw : BOOLEAN, bias : {"", "error", "info"}, scope : {"s1"}, svc : {"", "db"}, llm : {TRUE}]
MCVectorRows ==
  {[scope |-> "s1", fp |-> 1], [scope |-> "s1", fp |-> 2], [scope |-> "s2", fp |-> 1],
   [scope |-> "s2", fp |-> 3], [scope |-> "s2", fp |-> 2]}
MCClusterSim == [t1 |-> <<9, 4, 3>>, t2 |-> <<2, 8, 5>>, h3 |-> <<0, 1, 1>>]
MCCallers == [auth : BOOLEAN, role : {"query", "admin"}, override : BOOLEAN, scope : {"s1", "s2"}]
MCQueried ==
  {<<>>, <<[fp |-> 1, text |-> "t1"]>>, <<[fp |-> 1, text |-> "t1"], [fp |-> 2, text |-> "t2"]>>,
   <<[fp |-> 3, text |-> "h3"]>>}

(* The structural view: three hypotheses over three observables, of which  *)
(* two can be collected.                                                   *)

Expected == [a : {"", "p", "n"}, b : {"", "p"}, c : {"", "p"}]
Contradicting == {[a |-> {}, b |-> {}, c |-> {}], [a |-> {}, b |-> {"n"}, c |-> {}]}
MCObservationModels ==
  [expects : Expected, strength : {[a |-> "usually", b |-> "often", c |-> "maybe"]}, contra : Contradicting]
MCModels ==
  {m \in [Hyps -> MCObservationModels] :
     /\ m["h1"].expects.a = "p" /\ m["h1"].expects.b = "p" /\ m["h1"].contra.b = {}
     /\ m["h3"].expects.a # "n" /\ m["h3"].expects.b = "" /\ m["h3"].contra.b = {}}
MCRankings == {[h \in Hyps |-> NoRank], [h1 |-> 1, h2 |-> 5, h3 |-> 9]}

(* Telemetry: the rows the structural view is asked about, and those the   *)
(* ranking is.                                                             *)

Span(t, i, p, s, o, a, d, st) ==
  [trace |-> t, id |-> i, parent |-> p, svc |-> s, op |-> o, at |-> a, dur |-> d, status |-> st]
Sample(s, m, i, a, v) ==
  [svc |-> s, metric |-> m, inst |-> i, mode |-> "", type |-> "gauge", at |-> a, value |-> v]
ErrorLine(n, s, l, a, f, k) == [n |-> n, svc |-> s, level |-> l, at |-> a, fp |-> f, stack |-> k]

SignalSpans ==
  {Span(1, 1, 0, "web", "pay", 0, 2, "ok"), Span(1, 2, 1, "db", "q", 0, 1, "ok"),
   Span(2, 1, 0, "web", "pay", 5, 2, "error"), Span(2, 2, 1, "api", "r", 5, 4, "ok"),
   Span(2, 2, 1, "api", "r", 5, 4, "error"), Span(0, 3, 1, "db", "q", 7, 9, "error")}
RankSpans ==
  {Span(1, 3, 0, "db", "q", 0, 1, "ok"), Span(2, 1, 0, "web", "pay", 5, 2, "error"),
   Span(2, 2, 1, "db", "q", 5, 4, "ok"), Span(3, 2, 1, "api", "q", 6, 1, "unset"),
   Span(4, 4, 0, "web", "pay", 5, 2, "ok"), Span(4, 5, 4, "db", "q", 5, 2, "ok")}
MCSpans == SignalSpans \cup RankSpans
RankSamples == {Sample("db", "cpu_utilization", "r1", 1, 10), Sample("db", "cpu_utilization", "r1", 6, 90)}
MCSamples ==
  RankSamples \cup
  {Sample("web", "error_rate", "r1", 5, 50), Sample("web", "error_rate", "r2", 5, 0),
   Sample("web", "latency_ms", "none", 0, 10), Sample("web", "latency_ms", "none", 5, 10),
   Sample("web", "latency_ms", "none", 5, 30),
   Sample("db", "cpu_utilization", "r2", 2, 80), Sample("db", "cpu_utilization", "r2", 7, 40)}
MCErrors ==
  {ErrorLine(1, "web", "error", 8, 1, FALSE), ErrorLine(2, "db", "fatal", 6, 2, TRUE),
   ErrorLine(3, "web", "error", 5, 1, FALSE)}

Leaf(v) == [left |-> 0, right |-> 0, feature |-> "log_err", threshold |-> 0, value |-> v]
MCTrees ==
  << <<[left |-> 2, right |-> 3, feature |-> "tr_dur", threshold |-> 15, value |-> 0], Leaf(20), Leaf(40)>> >>
MCRankConfigs ==
  [trees : {MCTrees}, rerank : {TRUE}, feature : {"top_score", "margin"}]
  \cup {[trees |-> MCTrees, rerank |-> FALSE, feature |-> "top_score"],
        [trees |-> <<>>, rerank |-> FALSE, feature |-> "none"]}
MCHopWeight == <<2, 1>>
MCNameOrder == [web |-> 3, api |-> 1, db |-> 2]

(* The evaluation corpus: two directories, three log files, and one that   *)
(* is gone.  The split is asked about the cases that differ in labels and  *)
(* ids, the commands about those that differ in lines, windows and ids.    *)

LogLine(n, s, f, lvl, t) == [n |-> n, svc |-> s, fp |-> f, level |-> lvl, at |-> t]
MCFileLines ==
  [f |-> {LogLine(1, "web", 1, "error", 1), LogLine(2, "db", 1, "error", 2), LogLine(3, "web", 2, "warn", 2),
          LogLine(5, "db", 2, "error", 3)},
   g |-> {LogLine(4, "web", 3, "info", 2), LogLine(6, "db", 3, "info", 4)},
   h |-> {LogLine(1, "web", 1, "error", 1), LogLine(3, "web", 2, "warn", 2), LogLine(4, "web", 3, "info", 2)}]
CaseDoc(id, fam, l, g, c, w, f) ==
  [id |-> id, family |-> fam, label |-> l, flag |-> g, cause |-> c, positive |-> c # Nothing,
   trigger |-> "deploy", window |-> w, logs |-> f]
SplitDocs ==
  {CaseDoc(Nothing, Nothing, "slow", "kill", "web", 1 .. 2, "f"),
   CaseDoc(Nothing, Nothing, Nothing, "kill", "db", 1 .. 2, "f"),
   CaseDoc(Nothing, "kill", "slow", Nothing, "db", 1 .. 2, "f"),
   CaseDoc(Nothing, Nothing, Nothing, Nothing, Nothing, 1 .. 2, "g"),
   CaseDoc(1, "kill", "slow", Nothing, "web", 1 .. 2, "h"),
   CaseDoc(Nothing, Nothing, Nothing, Nothing, "db", 1 .. 2, "gone")}
ScoredDocs ==
  {CaseDoc(Nothing, Nothing, "slow", "kill", "web", 1 .. 3, "f"),
   CaseDoc(Nothing, Nothing, "slow", "kill", "db", 2 .. 2, "h"),
   CaseDoc(Nothing, Nothing, "slow", "kill", "db", 4 .. 4, "f"),
   CaseDoc(Nothing, Nothing, Nothing, Nothing, Nothing, 1 .. 2, "g"),
   CaseDoc(1, Nothing, "slow", "kill", "db", 1 .. 2, "h")}
MCCaseDocs == SplitDocs \cup ScoredDocs
MCClusterings ==
  {[keep |-> [F \in SUBSET (1 .. 3) |-> F], pick |-> [F \in SUBSET (1 .. 3) \ {{}} |-> Min(F)]],
   [keep |-> [F \in SUBSET (1 .. 3) |-> {f \in F : f = Max(F)}], pick |-> [F \in SUBSET (1 .. 3) \ {{}} |-> Max(F)]]}
Listing(all, order) == [S \in SUBSET all |-> SelectSeq(order, LAMBDA x : x \in S)]
MCRankers ==
  {NoRanker, [S \in SUBSET CaseServices |-> <<"db">>]}
  \cup {Listing(CaseServices, order) : order \in SetToSeqs(CaseServices)}
MCHoldOuts == {[families |-> {"kill"}, services |-> {}], [families |-> {"negative"}, services |-> {"web"}]}
-----------------------------------------------------------------------------
\* What a part that is not asked about is given.
SomeModel == CHOOSE m \in Models : TRUE
SomeRanking == CHOOSE r \in Rankings : TRUE
SomeConfig == CHOOSE c \in RankConfigs : TRUE

AnalysisInit ==
  /\ part \in AnalysisParts
  /\ IF part = "explain" THEN ExplanationInit
     ELSE logTable = <<>> /\ clu = [pc |-> "rest"] /\ expl = NoAnswer
  /\ IF part = "views" THEN ViewInit ELSE viewAsk = [op |-> "none"] /\ page = <<>>
  /\ ParsingInit
  /\ IF part = "retrieval" THEN RetrievalInit ELSE lines = {} /\ ask = Quiet /\ sim = Quiet
  /\ IF part = "partition" THEN PartitionInit
     ELSE model = SomeModel /\ ranks = SomeRanking /\ PartitionStarts
  /\ RankingInit
  /\ part # "ranking" => ranking = NothingRanked(SomeConfig)
  /\ EvalInit

Explain == part = "explain" /\ ExplanationNext /\ UNCHANGED NotExplain

View ==
  /\ part = "views" /\ UNCHANGED NotViews
  /\ ViewNext

Parse == part = "parsing" /\ ParsingNext /\ UNCHANGED NotParsing

Retrieve == part = "retrieval" /\ RetrievalNext /\ UNCHANGED NotRetrieval

Partition == part = "partition" /\ PartitionNext /\ UNCHANGED NotPartition

Signals ==
  /\ part = "signals" /\ UNCHANGED NotTelemetry /\ UNCHANGED <<errorRows, ranking>>
  /\ \/ \E x \in SignalSpans : persist_spans(x)
     \/ \E x \in SamplePool : persist_metric_samples(x)
     \/ ViewStructure

RankCauses ==
  /\ part = "ranking" /\ UNCHANGED NotTelemetry
  /\ \/ /\ \/ \E x \in RankSpans : persist_spans(x)
           \/ \E x \in RankSamples : persist_metric_samples(x)
        /\ UNCHANGED <<errorRows, ranking>>
     \/ \E e \in ErrorPool : RecordError(e)
     \/ ScoreServices \/ RerankAndCalibrate \/ FindSilent

Evaluate ==
  /\ UNCHANGED NotEval
  /\ \/ /\ part = "split"
        /\ \/ \E c \in CaseIds, doc \in SplitDocs : CaptureCase(c, doc)
           \/ \E hold \in HoldOuts : Seal(hold)
           \/ ScoreDev \/ ScoreTest
     \/ /\ part = "eval"
        /\ \/ \E c \in CaseIds, doc \in ScoredDocs : CaptureCase(c, doc)
           \/ \E k \in Clusterings, ranker \in Rankers : EvalCmd(k, ranker) \/ FrozenEvalCmd(k, ranker)

AnalysisNext == Explain \/ View \/ Parse \/ Retrieve \/ Partition \/ Signals \/ RankCauses \/ Evaluate

AnalysisSpec == AnalysisInit /\ [][AnalysisNext]_<<part, NotExplain, explanationVars>>
=============================================================================
