----------------------------- MODULE Clustering -----------------------------
(***************************************************************************)
(* run_clustering (src/core/clustering): the window's log lines grouped by *)
(* fingerprint in four SELECTs and a baseline SELECT, scored, optionally   *)
(* merged by embedding similarity, ranked, capped and stored.              *)
(*                                                                         *)
(* The session is READ COMMITTED: each SELECT has a snapshot of its own,   *)
(* and ingest may commit lines between two of them.  The table is a bag of *)
(* row kinds.  Scores are in thousandths of a point.                       *)
(***************************************************************************)
EXTENDS Naturals, Integers, Sequences, FiniteSets, SequencesExt, FiniteSetsExt, Functions

CONSTANTS
  RowKinds,      \* records [fp, svc, lvl, at, env, here]: the lines there may be
  Tables,        \* the tables to start from: functions from RowKinds to counts
  FpMessage,     \* fingerprint -> "none", "plain", "causal" or "reactive"
  Similar,       \* pairs of fingerprints whose vectors are close enough
  Asks,          \* requests: records [svc, env]; "" is no filter
  WinStart, WinEnd, BaselineLen,
  MaxClusters,   \* max_clusters
  MemberCap,     \* _MAX_CLUSTER_MEMBERS
  MergeMinCount, \* cluster_merge_min_count
  MaxInserts,    \* bound on lines committed during a run
  NoTime

ASSUME ClusteringConstants ==
  /\ IsFiniteSet(RowKinds) /\ NoTime \notin Int
  /\ \A k \in RowKinds : k.fp \in Int /\ k.at \in Int
  /\ \A t \in Tables : t \in [RowKinds -> Nat]
  /\ \A p \in Similar : <<p[2], p[1]>> \in Similar
  /\ WinStart \in Int /\ WinEnd \in Int /\ WinStart <= WinEnd /\ BaselineLen \in Nat
  /\ MaxClusters \in Nat /\ MemberCap \in Nat /\ MergeMinCount \in Nat

VARIABLES
  logTable,  \* log_entries, as a bag
  clu        \* the run: pc, ask, groups, baseline, clusters, the tables it has seen

clusteringVars == <<logTable, clu>>

Fps == {k.fp : k \in RowKinds}
Svcs == {k.svc : k \in RowKinds} \ {""}
Lvls == {k.lvl : k \in RowKinds} \ {""}
Errors == {"error", "fatal", "critical"}

\* ln n, in thousandths; of numbers no run reaches, only that it grows.
LnTable == <<0, 693, 1099, 1386, 1609, 1792, 1946, 2079, 2197, 2303, 2398, 2485, 2565, 2639>>
Ln(n) == IF n <= 14 THEN LnTable[n] ELSE LnTable[14] + (n - 14)

Present(tab, kinds) == {k \in kinds : tab[k] > 0}
Total(tab, kinds) == SumFunction([k \in kinds |-> tab[k]])
MaxOr(S, default) == IF S = {} THEN default ELSE Max(S)

\* Keys are four numbers, compared from the left.  The best of a family of keys,
\* and the members of its domain from the best on.
Exceeds(a, b) == \E n \in 1 .. 4 : a[n] > b[n] /\ \A m \in 1 .. n - 1 : a[m] = b[m]
Best(key) == CHOOSE i \in DOMAIN key : \A j \in DOMAIN key \ {i} : Exceeds(key[i], key[j])
Descending(key) ==
  [n \in 1 .. Cardinality(DOMAIN key) |->
     CHOOSE i \in DOMAIN key : Cardinality({j \in DOMAIN key : Exceeds(key[j], key[i])}) = n - 1]
-----------------------------------------------------------------------------
(* The queries.                                                            *)

\* The filters of _base_window_query and get_baseline_counts.
Matches(ask, k, lo, hi) ==
  /\ k.at >= lo /\ k.at <= hi /\ k.here
  /\ ask.svc \in {"", k.svc} /\ ask.env \in {"", k.env}

window(ask) == {k \in RowKinds : Matches(ask, k, WinStart, WinEnd)}
base(ask, fp) == {k \in window(ask) : k.fp = fp}

\* GROUP BY fingerprint: a row for each fingerprint of the lines selected.
GroupsOf(tab, kinds) == {k.fp : k \in Present(tab, kinds)}

\* What a query sets in the group of a fingerprint whose lines are of these kinds.
WithCounts(g, tab, kinds) ==
  LET ats == {k.at : k \in Present(tab, kinds)}
      total == Total(tab, kinds)
  IN [g EXCEPT !.count = total, !.ids = IF total < MemberCap THEN total ELSE MemberCap,
               !.first = IF ats = {} THEN NoTime ELSE Min(ats),
               !.last = IF ats = {} THEN NoTime ELSE Max(ats)]
WithServices(g, tab, kinds) ==
  [g EXCEPT !.services = [s \in Svcs |-> Total(tab, {k \in kinds : k.svc = s})],
            !.errors = [s \in Svcs |-> Total(tab, {k \in kinds : k.svc = s /\ k.lvl \in Errors})]]
WithLevels(g, tab, kinds) ==
  [g EXCEPT !.levels = [l \in Lvls |-> Total(tab, {k \in kinds : k.lvl = l})]]
WithMessage(g) == [g EXCEPT !.named = TRUE]

\* group_for: a fingerprint that only a later query sees gets an empty group.
EmptyGroup ==
  [count |-> 0, ids |-> 0, first |-> NoTime, last |-> NoTime, levels |-> [l \in Lvls |-> 0],
   services |-> [s \in Svcs |-> 0], errors |-> [s \in Svcs |-> 0], named |-> FALSE]

\* _group_rows: the same groups from one scan of the rows, the oracle of the tests.
group_rows(tab, ask) ==
  [fp \in GroupsOf(tab, window(ask)) |->
     LET rows == base(ask, fp)
         g == WithLevels(WithServices(WithCounts(EmptyGroup, tab, rows), tab, rows), tab, rows)
     IN IF FpMessage[fp] # "none" THEN WithMessage(g) ELSE g]
-----------------------------------------------------------------------------
(* Scoring and the semantic merge.                                         *)

\* severity_weight_*, in thousandths; an unknown level weighs 1.
Severity(l) ==
  CASE l \in {"fatal", "critical"} -> 5000 [] l = "error" -> 4000 [] l = "warn" -> 3000
    [] l = "debug" -> 500 [] OTHER -> 1000

get_severity_weight(levels) ==
  LET total == SumFunction(levels)
  IN IF total = 0 THEN 1000
     ELSE SumFunction([l \in Lvls |-> Severity(l) * levels[l]]) \div total

Spread(services) == Cardinality({s \in Svcs : services[s] > 0})

\* ln(change_ratio + 1) = ln((count + baseline + 2) / (baseline + 1))
compute_importance_score(g, baseline, trigger) ==
  get_severity_weight(g.levels) + Ln(g.count + 1) + Ln(g.count + baseline + 2) - Ln(baseline + 1)
    + Ln(Spread(g.services) + 1) \div 2 + (IF trigger THEN 2000 ELSE 0)

\* A ClusterData of these sums.
ClusterOf(fp, sums, baseline, trigger, merged) ==
  [fp |-> fp, count |-> sums.count, ids |-> sums.ids, first |-> sums.first, last |-> sums.last,
   services |-> sums.services, errors |-> sums.errors, levels |-> sums.levels, named |-> sums.named,
   baseline |-> baseline, trigger |-> trigger, merged |-> merged,
   importance |-> compute_importance_score(sums, baseline, trigger)]

build_cluster_data(fp, g, baseline) ==
  ClusterOf(fp, g, baseline, g.named /\ FpMessage[fp] \in {"causal", "reactive"}, {})

\* max over error_service_counts
TopErrors(c) == MaxOr({c.errors[s] : s \in Svcs}, 0)

Eligible(c) == c.count >= MergeMinCount /\ c.named

\* The clusters that a chain of similar eligible ones joins to the i-th: those in
\* every set with it that no such pair leaves.
Closed(cs, S) ==
  \A x \in S, y \in DOMAIN cs :
    <<cs[x].fp, cs[y].fp>> \in Similar /\ Eligible(cs[x]) /\ Eligible(cs[y]) => y \in S
Component(cs, i) == {x \in DOMAIN cs : \A S \in SUBSET DOMAIN cs : i \in S /\ Closed(cs, S) => x \in S}

merge_component(cs, members) ==
  LET canonical == cs[Best([i \in members |-> <<cs[i].importance, cs[i].count, -cs[i].fp, 0>>])]
      times == ({cs[i].first : i \in members} \cup {cs[i].last : i \in members}) \ {NoTime}
      sums == [count |-> SumFunction([i \in members |-> cs[i].count]),
               ids |-> SumFunction([i \in members |-> cs[i].ids]),
               levels |-> [l \in Lvls |-> SumFunction([i \in members |-> cs[i].levels[l]])],
               services |-> [s \in Svcs |-> SumFunction([i \in members |-> cs[i].services[s]])],
               errors |-> [s \in Svcs |-> SumFunction([i \in members |-> cs[i].errors[s]])],
               first |-> IF times = {} THEN NoTime ELSE Min(times),
               last |-> IF times = {} THEN NoTime ELSE Max(times), named |-> TRUE]
  IN ClusterOf(canonical.fp, sums, SumFunction([i \in members |-> cs[i].baseline]),
               \E i \in members : cs[i].trigger, {cs[i].fp : i \in members} \ {canonical.fp})

\* The first member of each component, in their order.
Roots(cs) ==
  LET first == {i \in DOMAIN cs : \A j \in Component(cs, i) : i <= j}
  IN Descending([i \in first |-> <<-i, 0, 0, 0>>])

\* Mutant: clusters linked to the first member only, not to each other's friends.
MergeNeighbours(cs) ==
  LET near(i) == {j \in Component(cs, i) : j = i \/ <<cs[i].fp, cs[j].fp>> \in Similar}
  IN [n \in DOMAIN Roots(cs) |->
        IF Cardinality(near(Roots(cs)[n])) = 1 THEN cs[Roots(cs)[n]]
        ELSE merge_component(cs, near(Roots(cs)[n]))]

merge_semantic_clusters(cs) ==
  [n \in DOMAIN Roots(cs) |->
     LET root == Roots(cs)[n]
     IN IF Component(cs, root) = {root} THEN cs[root] ELSE merge_component(cs, Component(cs, root))]

\* Sorted by importance; ties keep their order.
ByImportance(cs) ==
  LET order == Descending([i \in DOMAIN cs |-> <<cs[i].importance, -i, 0, 0>>])
  IN [n \in DOMAIN cs |-> cs[order[n]]]

\* Mutant: the cap is only a cap.
CapOnly(cs) == SubSeq(cs, 1, Min({MaxClusters, Len(cs)}))

\* The first max_clusters, and the cluster with the largest error group of one
\* service if the cap would drop it.
capped(cs) ==
  LET top == SubSeq(cs, 1, Min({MaxClusters, Len(cs)}))
      candidate == Best([i \in DOMAIN cs |-> <<TopErrors(cs[i]), cs[i].count, -i, 0>>])
  IN IF Len(cs) > Len(top) /\ TopErrors(cs[candidate]) > 0 /\ candidate > Len(top)
     THEN Append(top, cs[candidate]) ELSE top
-----------------------------------------------------------------------------
(* Steps.                                                                  *)

AtStep(pc) == clu.pc = pc

\* Ingest commits a line while the run is under way.
CommitLine(k) ==
  /\ clu.pc # "done" /\ clu.inserts < MaxInserts
  /\ logTable' = [logTable EXCEPT ![k] = @ + 1]
  /\ clu' = [clu EXCEPT !.inserts = @ + 1, !.seen = @ \cup {logTable'}]

group_for(fp) == IF fp \in DOMAIN clu.groups THEN clu.groups[fp] ELSE EmptyGroup

\* The groups with those the rows of one query set or add.
Grouped(parts) ==
  [fp \in DOMAIN clu.groups \cup DOMAIN parts |->
     IF fp \in DOMAIN parts THEN parts[fp] ELSE clu.groups[fp]]

QueryCounts ==
  LET rows == GroupsOf(logTable, window(clu.ask))
  IN /\ AtStep("counts")
     /\ clu' = [clu EXCEPT !.pc = "services", !.seen = {logTable},
                 !.groups = [fp \in rows |-> WithCounts(EmptyGroup, logTable, base(clu.ask, fp))]]
     /\ UNCHANGED logTable

QueryServices ==
  LET rows == GroupsOf(logTable, {k \in window(clu.ask) : k.svc # ""})
  IN /\ AtStep("services")
     /\ clu' = [clu EXCEPT !.pc = "levels",
                 !.groups = Grouped([fp \in rows |->
                              WithServices(group_for(fp), logTable, base(clu.ask, fp))])]
     /\ UNCHANGED logTable

QueryLevels ==
  LET rows == GroupsOf(logTable, {k \in window(clu.ask) : k.lvl # ""})
  IN /\ AtStep("levels")
     /\ clu' = [clu EXCEPT !.pc = "messages",
                 !.groups = Grouped([fp \in rows |->
                              WithLevels(group_for(fp), logTable, base(clu.ask, fp))])]
     /\ UNCHANGED logTable

\* The message is the normalized text the fingerprint is the hash of.  An empty
\* dict of groups ends the run with no cluster.
QueryMessages ==
  LET rows == GroupsOf(logTable, {k \in window(clu.ask) : FpMessage[k.fp] # "none"})
      groups == Grouped([fp \in rows |-> WithMessage(group_for(fp))])
  IN /\ AtStep("messages")
     /\ clu' = [clu EXCEPT !.pc = IF DOMAIN groups = {} THEN "clustered" ELSE "baseline",
                 !.groups = groups]
     /\ UNCHANGED logTable

\* The baseline ends at window_start, inclusive like the window's start.
QueryBaseline ==
  /\ AtStep("baseline")
  /\ clu' = [clu EXCEPT !.pc = "rank",
              !.baseline = [fp \in Fps |->
                 Total(logTable, {k \in RowKinds : k.fp = fp
                                   /\ Matches(clu.ask, k, WinStart - BaselineLen, WinStart)})]]
  /\ UNCHANGED logTable

\* rank_and_merge_clusters over the groups in the order the database gave them;
\* the embeddings backend is disabled, answers or fails (then nothing is merged).
RankAndMerge(order, embeds) ==
  LET built == [i \in DOMAIN order |->
                  build_cluster_data(order[i], clu.groups[order[i]], clu.baseline[order[i]])]
      ranked == ByImportance(IF embeds /\ Len(built) >= 2
                             THEN merge_semantic_clusters(built) ELSE built)
  IN /\ AtStep("rank") /\ order \in SetToSeqs(DOMAIN clu.groups)
     /\ clu' = [clu EXCEPT !.pc = "clustered", !.ranked = ranked, !.clusters = capped(ranked)]
     /\ UNCHANGED logTable

ClusteringNext ==
  \/ \E k \in RowKinds : CommitLine(k)
  \/ QueryCounts \/ QueryServices \/ QueryLevels \/ QueryMessages \/ QueryBaseline
  \/ \E order \in SetToSeqs(DOMAIN clu.groups), embeds \in BOOLEAN : RankAndMerge(order, embeds)

ClusteringInit ==
  /\ logTable \in Tables
  /\ clu \in {[pc |-> "counts", ask |-> a, groups |-> <<>>, baseline |-> [fp \in Fps |-> 0],
               ranked |-> <<>>, clusters |-> <<>>, seen |-> {}, inserts |-> 0] : a \in Asks}
-----------------------------------------------------------------------------
(* Properties.                                                             *)

\* _aggregate_groups returns what _group_rows would (its docstring, and
\* tests/integration/test_cluster_aggregation.py): exactly, when no line was
\* committed between its queries; otherwise each part is what some moment between
\* the first query and the last would give, and no group is made up.
AggregationMatchesScan ==
  clu.pc \in {"baseline", "rank"} =>
    LET oracles == {group_rows(t, clu.ask) : t \in clu.seen}
        GroupIn(o, fp) == IF fp \in DOMAIN o THEN o[fp] ELSE EmptyGroup
    IN /\ Cardinality(clu.seen) = 1 => clu.groups \in oracles
       /\ \A fp \in DOMAIN clu.groups :
            /\ \E o \in oracles : fp \in DOMAIN o
            /\ \E o \in oracles : GroupIn(o, fp).count = clu.groups[fp].count
            /\ \E o \in oracles : GroupIn(o, fp).services = clu.groups[fp].services
            /\ \E o \in oracles : GroupIn(o, fp).levels = clu.groups[fp].levels

\* Semantic merging loses nothing and counts nothing twice (grounded counts):
\* every fingerprint is in one cluster, and lines, services and error lines sum
\* to those of the groups.  Two groups share a cluster exactly when a chain of
\* similar clusters joins them, whatever the order the groups came in.
MergeConserves ==
  clu.pc = "clustered" /\ clu.ranked # <<>> =>
    LET r == clu.ranked
        fpsOf(i) == {r[i].fp} \cup r[i].merged
    IN /\ UNION {fpsOf(i) : i \in DOMAIN r} = DOMAIN clu.groups
       /\ \A i, j \in DOMAIN r : i # j => fpsOf(i) \cap fpsOf(j) = {}
       /\ \A i \in DOMAIN r :
            /\ r[i].count = SumFunction([fp \in fpsOf(i) |-> clu.groups[fp].count])
            /\ \A s \in Svcs :
                 r[i].errors[s] = SumFunction([fp \in fpsOf(i) |-> clu.groups[fp].errors[s]])
       /\ (\E i \in DOMAIN r : r[i].merged # {}) =>
            \A p \in Similar : \A i, j \in DOMAIN r :
              /\ p[1] \in fpsOf(i) /\ p[2] \in fpsOf(j) /\ i # j
              => \E fp \in {p[1], p[2]} :
                   clu.groups[fp].count < MergeMinCount \/ ~clu.groups[fp].named

\* Every line of the window is in one cluster and counted once, through the split
\* of the scan into queries and the merging of similar clusters.
ClustersPartitionLines == AggregationMatchesScan /\ MergeConserves
=============================================================================
