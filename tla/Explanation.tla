---------------------------- MODULE Explanation -----------------------------
(***************************************************************************)
(* explain_window (src/core/explain): the clusters of Clustering become an *)
(* evidence packet (total, primary and secondary clusters, triggers), a    *)
(* confidence label and a narrative.  Each SELECT again has its own        *)
(* snapshot.  Times are half minutes.                                      *)
(***************************************************************************)
EXTENDS Clustering

CONSTANTS
  Lookback,             \* trigger_lookback_minutes
  Grace,                \* onset_grace_seconds
  RareRatio,            \* trigger_rare_change_ratio
  Linked,               \* pairs of services the trace graph joins
  WVolume, WAnomaly, WOnset,  \* rca_weight_*
  CountHigh, CountLow, RatioHigh, RatioLow,  \* confidence_*
  MaxItems,             \* max_evidence_items
  Modes,                \* trigger_mode: "regex", "rare_event"
  MetricOnsets,         \* services with a metric anomaly, as lists (external)
  Probabilities,        \* P(top-1 correct) of a calibrator, in percent
  NoAnswer

ASSUME ExplanationConstants ==
  /\ Lookback \in Nat /\ Grace \in Nat /\ MaxItems \in Nat /\ NoAnswer \notin Probabilities
  /\ WVolume \in Int /\ WAnomaly \in Int /\ WOnset \in Int

VARIABLE expl  \* the explanation: mode, total, triggers, result

explanationVars == <<clusteringVars, expl>>

NoCluster == [fp |-> 0, count |-> 0]
-----------------------------------------------------------------------------
(* Primary and secondary clusters.                                         *)

\* The places of the clusters of a list that are candidates.
select_significant_clusters(cs) ==
  LET significant == {i \in DOMAIN cs :
                        \E l \in Lvls \cap {"error", "fatal", "warn", "critical"} : cs[i].levels[l] > 0}
  IN IF significant = {} THEN DOMAIN cs ELSE significant

\* Where the first line falls in the window: 1000 at its start, 0 at its end.
onset_earliness(c) ==
  IF c.first = NoTime \/ WinEnd = WinStart THEN 500
  ELSE (1000 * (WinEnd - c.first)) \div (WinEnd - WinStart)

candidate_score(c) ==
  WVolume * Ln(TopErrors(c) + 1) + WAnomaly * (Ln(c.count + c.baseline + 2) - Ln(c.baseline + 1))
    + WOnset * onset_earliness(c)

\* The first of the best.
select_primary_cluster(cs) ==
  LET significant == select_significant_clusters(cs)
      failing == {i \in significant : TopErrors(cs[i]) > 0}
  IN IF significant = {} THEN NoCluster
     ELSE IF failing # {}
     THEN cs[Best([i \in failing |-> <<candidate_score(cs[i]), cs[i].count, cs[i].importance, -i>>])]
     ELSE cs[Best([i \in significant |-> <<cs[i].count, cs[i].importance, -i, 0>>])]

Primary == select_primary_cluster(clu.clusters)

\* The other significant clusters by count, at most four.
Secondary ==
  LET rest == {i \in select_significant_clusters(clu.clusters) : clu.clusters[i] # Primary}
      order == Descending([i \in rest |-> <<clu.clusters[i].count, -i, 0, 0>>])
  IN [n \in 1 .. Min({4, Cardinality(rest)}) |-> clu.clusters[order[n]]]
-----------------------------------------------------------------------------
(* Triggers.                                                               *)

\* Causes are searched up to the onset of the primary cluster, reactions up to
\* the end of the window.
search_end(class) ==
  IF class = "causal" /\ Primary.count > 0 THEN Primary.first ELSE WinEnd

\* The trigger-shaped lines of the scope; the service and environment filters of
\* the request do not apply.
TriggerKinds ==
  {k \in Present(logTable, RowKinds) :
     /\ k.here /\ k.at >= WinStart - Lookback
     /\ FpMessage[k.fp] \in {"causal", "reactive"} /\ k.at <= search_end(FpMessage[k.fp])}

\* By time, one per message, the first three; the ids order simultaneous lines.
find_trigger_candidates ==
  LET earliest(fp) == Min({k.at : k \in {x \in TriggerKinds : x.fp = fp}})
      picks == {f \in [{k.fp : k \in TriggerKinds} -> TriggerKinds] :
                  \A fp \in DOMAIN f : f[fp].fp = fp /\ f[fp].at = earliest(fp)}
      inTime(s) == \A i, j \in DOMAIN s : i < j => s[i].at <= s[j].at
  IN {[n \in 1 .. Min({3, Len(s)}) |-> [fp |-> s[n].fp, at |-> s[n].at, svc |-> s[n].svc]] :
        s \in {x \in UNION {SetToSeqs(Range(f)) : f \in picks} : inTime(x)}}

IsRare(c) == c.baseline = 0 \/ c.count + 1 >= RareRatio * (c.baseline + 1)

\* rarity x earliness
RareScore(c, onset) ==
  LET lead == IF c.first # NoTime /\ onset > c.first THEN onset - c.first ELSE 0
  IN (1000 + Ln(30 * lead + 1)) \div (c.baseline + 1)

\* By score, then by the first line; clusters without a time last.
RareKey(c, onset, i) ==
  <<RareScore(c, onset), IF c.first = NoTime THEN 0 ELSE 1, IF c.first = NoTime THEN 0 ELSE -c.first, -i>>

DominantService(c) ==
  IF Spread(c.services) = 0 THEN ""
  ELSE CHOOSE s \in Svcs : \A t \in Svcs : c.services[s] >= c.services[t]

\* The service whose errors a trigger has to explain.
PrimaryService ==
  IF TopErrors(Primary) > 0
  THEN CHOOSE s \in Svcs : \A t \in Svcs : Primary.errors[s] >= Primary.errors[t]
  ELSE DominantService(Primary)

IsLinked(svc) ==
  /\ svc # "" /\ PrimaryService # ""
  /\ svc = PrimaryService \/ <<svc, PrimaryService>> \in Linked

\* Rare clusters that began by the onset, and metric anomalies (external): linked
\* ones first, then by score.
rare_event_triggers(metricSvcs) ==
  LET onset == Primary.first
      rare == {i \in DOMAIN clu.clusters :
                 LET c == clu.clusters[i]
                 IN /\ c # Primary /\ IsRare(c)
                    /\ c.first # NoTime => c.first <= onset + Grace}
      logs == Descending([i \in rare |-> RareKey(clu.clusters[i], onset, i)])
      all == [n \in 1 .. Min({5, Cardinality(rare)}) |->
                LET c == clu.clusters[logs[n]]
                IN [fp |-> c.fp, svc |-> DominantService(c),
                    at |-> IF c.first = NoTime THEN onset ELSE c.first]]
             \o [n \in DOMAIN metricSvcs |-> [fp |-> 0, at |-> WinStart, svc |-> metricSvcs[n]]]
  IN IF Primary = NoCluster \/ Primary.first = NoTime THEN <<>>
     ELSE SelectSeq(all, LAMBDA t : IsLinked(t.svc)) \o SelectSeq(all, LAMBDA t : ~IsLinked(t.svc))
-----------------------------------------------------------------------------
(* Confidence and evidence items.                                          *)

ServicesAffected ==
  {s \in Svcs : \E i \in DOMAIN clu.clusters : clu.clusters[i].services[s] > 0}

compute_confidence_points(triggers) ==
  LET p == Primary
      ratioAbove(r) == p.count + 1 > r * (p.baseline + 1)
  IN (IF p.count >= CountHigh THEN 2 ELSE IF p.count >= CountLow THEN 1 ELSE 0)
     + (IF p.baseline = 0 THEN 0 ELSE IF ratioAbove(RatioHigh) THEN 2
        ELSE IF ratioAbove(RatioLow) THEN 1 ELSE 0)
     + (IF expl.mode = "regex" /\ triggers # <<>> THEN 2 ELSE 0)
     + (IF Secondary # <<>> THEN 1 ELSE 0)
     + (IF Cardinality(ServicesAffected) > 1 THEN 1 ELSE 0)

compute_confidence(triggers) ==
  LET points == compute_confidence_points(triggers)
  IN IF Primary = NoCluster THEN "low"
     ELSE IF points >= 5 /\ expl.mode = "regex" /\ triggers # <<>> THEN "high"
     ELSE IF points >= 4 THEN "medium-high"
     ELSE IF points >= 2 THEN "medium" ELSE "low"

label_from_calibrated_probability(p) ==
  IF p >= 80 THEN "high" ELSE IF p >= 65 THEN "medium-high" ELSE IF p >= 45 THEN "medium" ELSE "low"

\* int(seconds / 60): towards zero.
Minutes(delta) == IF delta >= 0 THEN delta \div 2 ELSE -((-delta) \div 2)

\* The kinds of line in the evidence list, in order and cut at max_items.
build_evidence_items(triggers) ==
  LET p == Primary
      minutes == Minutes(p.first - triggers[1].at)
      items == IF p = NoCluster THEN <<"total", "no clusters">>
               ELSE <<"failures", IF p.baseline = 0 THEN "new" ELSE "seen before">>
                    \o (IF triggers # <<>> /\ p.first # NoTime /\ minutes >= 0 /\ minutes <= 30
                        THEN <<"after trigger">> ELSE <<>>)
                    \o [n \in 1 .. Min({3, Len(Secondary)}) |-> "secondary"]
  IN SubSeq(items, 1, Min({MaxItems, Len(items)}))
-----------------------------------------------------------------------------
(* Steps.                                                                  *)

\* The environment filter does not apply to the count.
counted_kinds == {k \in RowKinds : Matches([svc |-> clu.ask.svc, env |-> ""], k, WinStart, WinEnd)}

CountLogs ==
  /\ clu.pc = "clustered"
  /\ expl' = [expl EXCEPT !.total = Total(logTable, counted_kinds)]
  /\ clu' = [clu EXCEPT !.pc = "triggers"]
  /\ UNCHANGED logTable

FindTriggers(metricSvcs) ==
  /\ clu.pc = "triggers"
  /\ \E ts \in (IF expl.mode = "regex" THEN find_trigger_candidates
                ELSE {rare_event_triggers(metricSvcs)}) :
       expl' = [expl EXCEPT !.triggers = ts]
  /\ clu' = [clu EXCEPT !.pc = "summary"]
  /\ UNCHANGED logTable

\* The ranker's calibrated probability, if any; the LLM answers, fails or is off.
Summarize(p, llm) ==
  /\ clu.pc = "summary"
  /\ LET insufficient == clu.clusters = <<>> \/ Primary = NoCluster
     IN expl' = [expl EXCEPT !.result =
          [narrative |-> IF insufficient THEN "insufficient" ELSE IF llm THEN "llm" ELSE "rules",
           confidence |-> IF insufficient THEN "low"
                          ELSE IF p # NoAnswer THEN label_from_calibrated_probability(p)
                          ELSE compute_confidence(expl.triggers),
           calibrated |-> ~insufficient /\ p # NoAnswer,
           primary |-> Primary, items |-> build_evidence_items(expl.triggers)]]
  /\ clu' = [clu EXCEPT !.pc = "done"]
  /\ UNCHANGED logTable

ExplanationNext ==
  \/ ClusteringNext /\ UNCHANGED expl
  \/ CountLogs
  \/ \E metricSvcs \in MetricOnsets : FindTriggers(metricSvcs)
  \/ \E p \in Probabilities \cup {NoAnswer}, llm \in BOOLEAN : Summarize(p, llm)

ExplanationInit ==
  /\ ClusteringInit
  /\ expl \in {[mode |-> m, total |-> 0, triggers |-> <<>>, result |-> NoAnswer] : m \in Modes}

ExplanationSpec == ExplanationInit /\ [][ExplanationNext]_explanationVars
-----------------------------------------------------------------------------
(* Properties.                                                             *)

\* The display cap never changes the diagnosis (rank_and_merge_clusters: the top
\* root-cause candidate survives): when the score weighs the volume alone, as by
\* default, the primary cluster of the capped list is the one of the full list
\* whenever some line is an error.
CapKeepsPrimary ==
  clu.pc = "triggers" /\ WVolume > 0 /\ WAnomaly = 0 /\ WOnset = 0
    /\ (\E i \in DOMAIN clu.ranked : TopErrors(clu.ranked[i]) > 0)
    => Primary = select_primary_cluster(clu.ranked)

\* In regex mode no cause is offered that came after the first error, and the
\* evidence says "after" only of a trigger that came before the first error, or
\* less than a minute after it (the minutes are cut towards zero).
TriggerPrecedesErrors ==
  clu.pc = "done" /\ expl.mode = "regex" /\ expl.result.primary.count > 0 =>
    LET first == expl.result.primary.first
    IN /\ \A i \in DOMAIN expl.triggers :
            FpMessage[expl.triggers[i].fp] = "causal" => expl.triggers[i].at <= first
       /\ "after trigger" \in Range(expl.result.items) => expl.triggers[1].at < first + 2

\* The narrative fits the numbers beside it.  Without an environment filter and
\* with no line committed while the explanation was computed, the total is the
\* sum over the groups, so "insufficient evidence" goes with a total of zero; and a
\* primary cluster of no lines (it was seen by a later query only) needs such a
\* commit.
NarrativeFitsTotals ==
  clu.pc = "done" =>
    /\ expl.result.narrative = "insufficient" =>
         expl.result.confidence = "low" /\ ~expl.result.calibrated
    /\ clu.inserts = 0 =>
         /\ clu.ask.env = "" =>
              expl.total = SumFunction([fp \in DOMAIN clu.groups |-> clu.groups[fp].count])
         /\ expl.result.narrative # "insufficient" => expl.result.primary.count > 0

\* The explanation follows from the window: the display cap does not change the
\* diagnosis, an offered cause precedes the errors, the narrative fits the totals.
ExplanationFitsWindow == CapKeepsPrimary /\ TriggerPrecedesErrors /\ NarrativeFitsTotals
=============================================================================
