---------------------------- MODULE WindowViews -----------------------------
(***************************************************************************)
(* The two other views of a window: the timeline of an evidence packet     *)
(* (src/core/timeline) and the comparison of two windows' cluster lists    *)
(* (src/core/compare).  A cluster is its fingerprint, count, first time and *)
(* the class of its message; each list was capped by run_clustering.       *)
(***************************************************************************)
EXTENDS Naturals, Integers, Sequences, FiniteSets, SequencesExt, FiniteSetsExt, Functions

CONSTANTS
  ViewFps,        \* fingerprints
  MessageClass,   \* fingerprint -> "retry", "queue", "fail", "slow" or "other"
  Contents,       \* true line counts of a window: functions from ViewFps
  ClusterCap,     \* max_clusters
  TriggerSets,    \* sets of triggers [key, version]
  Packets,        \* evidence packets: records [triggers, primary, secondary]
  Untimed         \* first_seen is None

Times == Nat \cup {Untimed}
ClusterRows == [fp : Nat, count : Nat, first : Times, class : {"retry", "queue", "fail", "slow", "other"}]

ASSUME ViewConstants ==
  /\ IsFiniteSet(ViewFps) /\ ViewFps \subseteq Nat /\ ClusterCap \in Nat \ {0} /\ Untimed \notin Nat
  /\ \A c \in Contents : c \in [ViewFps -> Nat]
  /\ \A p \in Packets : /\ p.primary \in ClusterRows
                         /\ p.triggers \in Seq(Nat) /\ p.secondary \in Seq(ClusterRows)

VARIABLES
  viewAsk,  \* the request: [op, a, b, ta, tb] or [op, packet]
  page      \* the answer

viewVars == <<viewAsk, page>>
-----------------------------------------------------------------------------
(* Comparison.                                                             *)

\* The clusters of a window: the largest ones, and the largest failing one; the
\* rest is cut by max_clusters.  (Of equal severity, importance follows the count.)
listed(content) ==
  LET there == {fp \in ViewFps : content[fp] > 0}
      failing == {fp \in there : MessageClass[fp] = "fail"}
      bigger(f, g) == content[f] > content[g] \/ (content[f] = content[g] /\ f < g)
  IN {fp \in there : Cardinality({g \in there : bigger(g, fp)}) < ClusterCap}
     \cup {fp \in failing : \A g \in failing : ~bigger(g, fp)}

Noise == {"retry", "queue"}

\* The entry a cluster is compared under: noisy classes have one each.
Entry(fp) == IF MessageClass[fp] \in Noise THEN <<MessageClass[fp], 0>> ELSE <<"cluster", fp>>

\* The lines of the clusters that share an entry.
Lines(content, fps, e) == SumFunction([f \in {g \in fps : Entry(g) = e} |-> content[f]])

\* Mutant: retry clusters are dropped instead of merged.
CollapseDropsRetries(content) ==
  LET fps == {f \in listed(content) : MessageClass[f] # "retry"}
  IN [e \in {Entry(f) : f \in fps} |-> Lines(content, fps, e)]

\* Retry and queue-growth clusters become one entry each; the others pass.
collapse_clusters(content) ==
  [e \in {Entry(f) : f \in listed(content)} |-> Lines(content, listed(content), e)]

\* ratio = a / max(b, 1) against 1.5 and 1 / 1.5
direction(a, b) ==
  IF 2 * a >= 3 * Max({b, 1}) THEN "increased"
  ELSE IF 3 * a <= 2 * Max({b, 1}) THEN "decreased" ELSE "stable"

compare_windows(a, b) ==
  LET ca == collapse_clusters(a)
      cb == collapse_clusters(b)
  IN [e \in DOMAIN ca \cup DOMAIN cb |->
        IF e \notin DOMAIN ca THEN "disappeared"
        ELSE IF e \notin DOMAIN cb THEN "new" ELSE direction(ca[e], cb[e])]

\* Triggers of one window whose message, without the version, the other lacks.
trigger_diff(ta, tb) == {t \in ta : \A u \in tb : u.key # t.key}

Compare ==
  /\ viewAsk.op = "compare" /\ page = <<>>
  /\ LET diff == compare_windows(viewAsk.a, viewAsk.b)
         new == trigger_diff(viewAsk.ta, viewAsk.tb)
         dropped == trigger_diff(viewAsk.tb, viewAsk.ta)
     IN page' = [diff |-> diff, new |-> new, dropped |-> dropped,
                 has_changes |-> \/ \E e \in DOMAIN diff : diff[e] # "stable"
                                 \/ new # {} \/ dropped # {}]
  /\ UNCHANGED viewAsk
-----------------------------------------------------------------------------
(* Timeline.                                                               *)

classify_secondary(c, primary) ==
  IF c.class = "queue" THEN "symptom" ELSE IF c.fp = primary.fp THEN "error" ELSE "effect"

Rank(category) == CASE category = "error" -> 0 [] category = "effect" -> 1 [] OTHER -> 2
\* _effect_severity_from_desc
DescRank(class) == CASE class = "fail" -> 0 [] class = "slow" -> 1 [] OTHER -> 2

Event(at, category, class, count) == [at |-> at, category |-> category, class |-> class, count |-> count]

\* An effect is not shown before its cause.
clamped(at, primary) == IF primary.first = Untimed THEN at ELSE Max({at, primary.first})

\* The secondary clusters that can be shown, and those shown as one.
timed(p) == {i \in DOMAIN p.secondary : p.secondary[i].first # Untimed}
retry_clusters(p) == {i \in timed(p) : p.secondary[i].class = "retry"}

retry_event(p) ==
  Event(clamped(Min({p.secondary[i].first : i \in retry_clusters(p)}), p.primary), "effect", "retry",
        SumFunction([i \in retry_clusters(p) |-> p.secondary[i].count]))

\* The events in the order they are appended, the collapsed retries last.
post_events(p) ==
  LET last == Len(p.secondary) + 1
      shown(c) == Event(clamped(c.first, p.primary), classify_secondary(c, p.primary), c.class, c.count)
  IN [i \in (timed(p) \ retry_clusters(p)) \cup (IF retry_clusters(p) = {} THEN {} ELSE {last}) |->
        IF i = last THEN retry_event(p) ELSE shown(p.secondary[i])]

\* The key of the sort, and the place where it leaves a tie.
sort_key(events, i) == <<Rank(events[i].category), DescRank(events[i].class), events[i].at, i>>
Sooner(a, b) == \E n \in 1 .. 4 : a[n] < b[n] /\ \A m \in 1 .. n - 1 : a[m] = b[m]

\* The members of the domain by their keys: each at the number of those before it.
InOrder(events) ==
  [n \in 1 .. Cardinality(DOMAIN events) |->
     CHOOSE i \in DOMAIN events :
       Cardinality({j \in DOMAIN events : Sooner(sort_key(events, j), sort_key(events, i))}) = n - 1]

effects(p) ==
  LET events == post_events(p)
      order == InOrder(events)
  IN [n \in DOMAIN order |-> events[order[n]]]

\* Triggers by time, then the primary error, then effects by severity.
build_timeline(p) ==
  LET order == SetToSortSeq(DOMAIN p.triggers,
                 LAMBDA i, j : p.triggers[i] < p.triggers[j] \/ (p.triggers[i] = p.triggers[j] /\ i < j))
  IN [n \in DOMAIN p.triggers |-> Event(p.triggers[order[n]], "trigger", "other", 0)]
     \o (IF p.primary.first = Untimed THEN <<>>
         ELSE <<Event(p.primary.first, "error", p.primary.class, p.primary.count)>>)
     \o effects(p)

Timeline ==
  /\ viewAsk.op = "timeline" /\ page = <<>>
  /\ page' = [events |-> build_timeline(viewAsk.packet)]
  /\ UNCHANGED viewAsk

ViewNext == Compare \/ Timeline

ViewInit ==
  /\ viewAsk \in [op : {"compare"}, a : Contents, b : Contents, ta : TriggerSets, tb : TriggerSets]
                 \cup [op : {"timeline"}, packet : Packets]
  /\ page = <<>>

ViewSpec == ViewInit /\ [][ViewNext]_viewVars
-----------------------------------------------------------------------------
(* Properties.                                                             *)

Uncapped(content) == Cardinality({fp \in ViewFps : content[fp] > 0}) <= ClusterCap
Mirror ==
  [new |-> "disappeared", disappeared |-> "new", increased |-> "decreased",
   decreased |-> "increased", stable |-> "stable"]

\* Comparing B with A says the opposite of comparing A with B, so the sections do
\* not depend on which window is called the incident.
CompareMirrors ==
  viewAsk.op = "compare" /\ page # <<>> =>
    compare_windows(viewAsk.b, viewAsk.a) = [e \in DOMAIN page.diff |-> Mirror[page.diff[e]]]

\* Nothing a window shows is lost by the collapsing, and when the cap cut neither
\* list, "new" and "disappeared" are the truth: no line of that entry is in the
\* other window.  (When max_clusters cut a list, an entry that is in both windows
\* may be reported as new or as disappeared.)
CompareAccountsForAll ==
  viewAsk.op = "compare" /\ page # <<>> =>
    LET there(content, e) == {fp \in ViewFps : content[fp] > 0 /\ Entry(fp) = e}
    IN /\ \A fp \in listed(viewAsk.a) \cup listed(viewAsk.b) : Entry(fp) \in DOMAIN page.diff
       /\ Uncapped(viewAsk.a) /\ Uncapped(viewAsk.b) =>
            \A e \in DOMAIN page.diff :
              /\ page.diff[e] = "new" <=> there(viewAsk.b, e) = {}
              /\ page.diff[e] = "disappeared" <=> there(viewAsk.a, e) = {}

\* The timeline reads as a story: what is listed after the primary error is not
\* dated before it, failures come before symptoms whatever their times, and no
\* timed cluster's lines are lost or counted twice by the collapsing of retries.
TimelineTellsAll ==
  viewAsk.op = "timeline" /\ page # <<>> =>
    LET p == viewAsk.packet
        after == {i \in DOMAIN page.events : i > Len(p.triggers)}
    IN /\ p.primary.first # Untimed =>
            \A i \in after : page.events[i].at >= p.primary.first
       /\ \A i, j \in after : i < j => Rank(page.events[i].category) <= Rank(page.events[j].category)
       /\ SumFunction([i \in after |-> page.events[i].count])
            = SumFunction([i \in timed(p) |-> p.secondary[i].count])
              + (IF p.primary.first = Untimed THEN 0 ELSE p.primary.count)

\* Both views account for everything they were given: a comparison for each
\* fingerprint and alike from either side, a timeline for each timed cluster, in
\* the order of cause and effect.
ViewsTellAll == CompareMirrors /\ CompareAccountsForAll /\ TimelineTellsAll
=============================================================================
