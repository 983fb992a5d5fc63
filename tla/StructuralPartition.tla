------------------------ MODULE StructuralPartition ------------------------
(***************************************************************************)
(* The structural root-cause view (src/core/rca: observable, expectations, *)
(* hypothesis, partition, outcome, scoring, presentation).  Hypotheses are *)
(* grouped by what they predict over the measurements that can be used,    *)
(* after the contradicted ones are dropped; the grouping gives one of five *)
(* outcomes, an ordering for display and a list of what to measure next.   *)
(*                                                                         *)
(* Each measurement that becomes known gives a new view of the incident.   *)
(* A state of an observable or a prediction is "" when there is none.      *)
(***************************************************************************)
EXTENDS Naturals, Integers, Sequences, FiniteSets, SequencesExt, FiniteSetsExt, Functions

CONSTANTS
  Hyps,         \* hypothesis ids
  Observables,  \* coordinates
  Collectable,  \* the coordinates this deployment can measure
  MeasuredStates,
  Tau,          \* UsabilityPolicy: the confidence a measurement needs
  Confidences,  \* the confidences a measurement may have
  Models,       \* [Hyps -> observation model]: records [expects, strength, contra]
  Rankings      \* ranker scores: functions from Hyps to Int, NoRank for no provenance

NoRank == -1

\* An observation model never contradicts its own expectation.
well_formed(om) == \A f \in Observables : om.expects[f] = "" \/ om.expects[f] \notin om.contra[f]

Strengths == {"usually", "often", "maybe", "not_required"}

ObservationModels ==
  [expects : [Observables -> MeasuredStates \cup {""}], strength : [Observables -> Strengths],
   contra : [Observables -> SUBSET MeasuredStates]]

ASSUME PartitionConstants ==
  /\ IsFiniteSet(Hyps) /\ Hyps # {} /\ IsFiniteSet(Observables)
  /\ Collectable \subseteq Observables /\ "" \notin MeasuredStates
  /\ Tau \in Int /\ Confidences \subseteq Int
  /\ \A m \in Models : \A h \in DOMAIN m : well_formed(m[h])
  /\ \A m \in Models : m \in [Hyps -> ObservationModels]
  /\ \A r \in Rankings : r \in [Hyps -> Int]

VARIABLES
  model,   \* the hypotheses' observation models
  ranks,   \* their ranker scores
  obs,     \* [Observables -> [state, conf]]
  view     \* the last structural result with its ranking

partitionVars == <<model, ranks, obs, view>>
-----------------------------------------------------------------------------
(* partition.                                                              *)

\* Mutant: only the best measurements count.
MostConfident(o) ==
  {f \in Collectable : o[f].state # "" /\ o[f].conf >= Tau /\ \A g \in Collectable : o[g].conf <= o[f].conf}

\* F_usable: collectable, observed, and measured confidently enough.
usable_ids(o) == {f \in Collectable : o[f].state # "" /\ o[f].conf >= Tau}

\* The facts hard elimination may use.
eliminating_ids(o) == usable_ids(o)

hard_incompatibility(m, h, o) == \E f \in eliminating_ids(o) : o[f].state \in m[h].contra[f]

\* The models m own the predictions; a map that disagrees with them is refused.
predictions(m, h) == m[h].expects

\* Two hypotheses with the same predictions over F_usable are one class.
same_signature(m, g, h, o) == \A f \in usable_ids(o) : predictions(m, g)[f] = predictions(m, h)[f]

Survivors(m, o) == {h \in Hyps : ~hard_incompatibility(m, h, o)}

classes_of(m, o) == {{h \in Survivors(m, o) : same_signature(m, g, h, o)} : g \in Survivors(m, o)}

\* Predictions that differ within the class, on a coordinate that is not usable.
d_missing(m, C, o) ==
  {f \in Observables \ usable_ids(o) : \E g, h \in C : predictions(m, g)[f] # predictions(m, h)[f]}

-----------------------------------------------------------------------------
(* outcome.                                                                *)

classify(m, classes, o) ==
  IF classes = {} THEN "no_compatible_hypothesis"
  ELSE IF Cardinality(classes) > 1 THEN "uncertain"
  ELSE LET C == CHOOSE C \in classes : TRUE
       IN IF Cardinality(C) = 1 THEN "identified"
          ELSE IF d_missing(m, C, o) # {} THEN "non_identifiable" ELSE "irreducible"

\* The contradictions of a survivor that no usable measurement has tried.
elimination_checks(m, C, o) ==
  {c \in C \X Observables : m[c[1]].contra[c[2]] # {} /\ c[2] \notin usable_ids(o)}

eliminated_evidence(m, h, o) == {f \in usable_ids(o) : o[f].state \in m[h].contra[f]}

\* How each usable fact bears on what the class predicts.
class_evidence(m, C, o) ==
  LET h == CHOOSE h \in C : TRUE
  IN {<<f, IF o[f].state = predictions(m, h)[f] THEN "supports" ELSE "mismatch">> :
        f \in {g \in usable_ids(o) : predictions(m, h)[g] # ""}}

\* A partition describes a hypothesis, and so does each of its classes.
valid_partition(classes, eliminated) ==
  {} \notin classes /\ (classes # {} \/ eliminated # {})

\* What the packet must agree with, or its constructor raises and the view is lost.
expected_outcome(m, classes, o) ==
  IF classes = {} THEN "no_compatible_hypothesis"
  ELSE IF Cardinality(classes) > 1 THEN "uncertain"
  ELSE IF \E C \in classes : Cardinality(C) = 1 THEN "identified"
  ELSE IF \E C \in classes : d_missing(m, C, o) # {} THEN "non_identifiable" ELSE "irreducible"

packet_valid(m, v, o) ==
  /\ valid_partition(v.classes, v.eliminated)
  /\ v.outcome = expected_outcome(m, v.classes, o)
  /\ v.outcome = "no_compatible_hypothesis" =>
       v.eliminated # {} /\ \A h \in v.eliminated : eliminated_evidence(m, h, o) # {}
-----------------------------------------------------------------------------
(* scoring.                                                                *)

MatchScore == [usually |-> 3, often |-> 2, maybe |-> 1, not_required |-> 0]
MismatchScore == [usually |-> -2, often |-> -1, maybe |-> -1, not_required |-> 0]

\* An expectation nobody measured is neutral.
score_hypothesis(m, h, o) ==
  SumFunction([f \in {g \in usable_ids(o) : m[h].expects[g] # ""} |->
                 IF o[f].state = m[h].expects[f] THEN MatchScore[m[h].strength[f]]
                 ELSE MismatchScore[m[h].strength[f]]])

class_score(m, C, o) == Max({score_hypothesis(m, h, o) : h \in C})

ranker_signal(C, r) == Max({r[h] : h \in C})

\* The sort key of rank_classes, but for the signatures.
ranks_before(m, C, D, o, r) ==
  \/ class_score(m, C, o) > class_score(m, D, o)
  \/ class_score(m, C, o) = class_score(m, D, o) /\ ranker_signal(C, r) > ranker_signal(D, r)

\* The order of the signatures decides between equals: some fixed order.
rank_classes(m, classes, o, r) ==
  CHOOSE s \in SetToSeqs(classes) : \A i, j \in DOMAIN s : i < j => ~ranks_before(m, s[j], s[i], o, r)
-----------------------------------------------------------------------------
(* presentation.                                                           *)

\* The distinguishers worth collecting: an uncollectable one is only a gap.
separable_missing(m, classes, o) == (UNION {d_missing(m, C, o) : C \in classes}) \cap Collectable

\* The facts some class predicted; mismatches are not listed.
supporting_evidence(m, ranking, o) ==
  {e[1] : e \in {x \in UNION {class_evidence(m, ranking[i], o) : i \in DOMAIN ranking} : x[2] = "supports"}}

\* The sections of the text: when nothing is left only the reasons are shown, and
\* only a class that cannot be separated says why.
render_lines(m, ranking, o, outcome, missing) ==
  IF outcome = "no_compatible_hypothesis"
  THEN [listed |-> {}, ruled_out |-> Hyps \ Survivors(m, o), observed |-> {}, why |-> {}]
  ELSE [listed |-> UNION ToSet(ranking), ruled_out |-> {},
        observed |-> supporting_evidence(m, ranking, o),
        why |-> IF outcome = "non_identifiable" THEN missing ELSE {}]

\* Recommendations: distinguishers, hard-rule checks, telemetry to wire up.
next_observations(missing, checks) ==
  missing \cup {c[2] : c \in checks} \cup (Observables \ Collectable)

structural_view(m, o, r) ==
  LET classes == classes_of(m, o)
      ranking == rank_classes(m, classes, o, r)
      missing == separable_missing(m, classes, o)
      checks == UNION {elimination_checks(m, C, o) : C \in classes}
      outcome == classify(m, classes, o)
  IN [classes |-> classes,
      eliminated |-> Hyps \ Survivors(m, o),
      outcome |-> outcome,
      ranking |-> ranking,
      next |-> missing,
      checks |-> checks,
      text |-> render_lines(m, ranking, o, outcome, missing),
      advised |-> next_observations(missing, checks)]
-----------------------------------------------------------------------------
Unmeasured == [state |-> "", conf |-> 0]

PartitionStarts ==
  /\ obs = [f \in Observables |-> Unmeasured]
  /\ view = structural_view(model, obs, ranks)

PartitionInit == model \in Models /\ ranks \in Rankings /\ PartitionStarts

\* A trustworthy or doubtful measurement of f becomes known; a doubtful one may
\* be replaced by later telemetry.
Measure(f, s, conf) ==
  /\ f \in Collectable \ usable_ids(obs) /\ obs[f] # [state |-> s, conf |-> conf]
  /\ obs' = [obs EXCEPT ![f] = [state |-> s, conf |-> conf]]
  /\ view' = structural_view(model, obs', ranks)
  /\ UNCHANGED <<model, ranks>>

\* The ranker scores the candidates anew.
Rescore(r) ==
  /\ r # ranks /\ ranks' = r
  /\ view' = structural_view(model, obs, r)
  /\ UNCHANGED <<model, obs>>

PartitionNext ==
  \/ \E f \in Observables, s \in MeasuredStates, conf \in Confidences : Measure(f, s, conf)
  \/ \E r \in Rankings : Rescore(r)

PartitionSpec == PartitionInit /\ [][PartitionNext]_partitionVars
-----------------------------------------------------------------------------
Together(v, g, h) == \E C \in v.classes : {g, h} \subseteq C

\* More evidence only ever separates: a step never puts two hypotheses back
\* into one class, and a hypothesis once contradicted stays eliminated.  New
\* ranker scores alone change neither classes nor outcome.
EvidenceOnlySplits ==
  [][/\ obs' = obs => view'.classes = view.classes /\ view'.outcome = view.outcome
     /\ view.eliminated \subseteq view'.eliminated
     /\ \A g, h \in Hyps : Together(view', g, h) => Together(view, g, h)]_partitionVars

\* The outcome tells what measuring can do.  Measuring a distinguisher the view
\* asks for separates a non-identifiable class unless it contradicts a member;
\* nothing short of a contradiction separates an irreducible one.
OutcomeKeepsItsWord ==
  [][view'.eliminated = view.eliminated =>
       /\ view.outcome = "irreducible" => view'.outcome = "irreducible"
       /\ view.outcome = "non_identifiable" /\ (view.next \cap usable_ids(obs')) # {}
            => view'.outcome = "uncertain"]_partitionVars

\* A hypothesis is given up only for a measurement that also counts elsewhere:
\* each eliminated one is contradicted by a usable fact the packet can cite, and
\* an identified cause is the only one no usable fact contradicts.
EliminationIsProven ==
  /\ \A h \in view.eliminated : eliminated_evidence(model, h, obs) # {}
  /\ view.outcome = "identified" =>
       \A h \in Hyps : eliminated_evidence(model, h, obs) # {} <=> {h} \notin view.classes

\* The ranker orders, it does not decide: whatever the scores, no class is
\* listed before one with a better evidence score, and every class is listed.
RankerOnlyBreaksTies ==
  /\ \A i, j \in DOMAIN view.ranking :
       i < j => class_score(model, view.ranking[i], obs) >= class_score(model, view.ranking[j], obs)
  /\ ToSet(view.ranking) = view.classes

\* The text is grounded: a view is never lost to its own validation, each fact
\* it lists as observed was measured well enough and is what every member of a
\* listed class predicts, nothing observed is also reported as missing or worth
\* collecting, and an empty-handed text names each hypothesis with its refutation.
TextIsGrounded ==
  /\ packet_valid(model, view, obs)
  /\ \A f \in view.text.observed :
       /\ f \in usable_ids(obs) \ (view.text.why \cup view.advised)
       /\ \E C \in view.classes : \A h \in C : h \in view.text.listed /\ model[h].expects[f] = obs[f].state
  /\ view.text.listed = {} => \A h \in Hyps : h \in view.text.ruled_out /\ eliminated_evidence(model, h, obs) # {}

\* What the view asks to be measured can be measured, has not been to a usable
\* standard, and tells two hypotheses of a class apart or may rule one out.
AdviceIsUseful ==
  /\ \A f \in view.next :
       /\ f \in Collectable \ usable_ids(obs)
       /\ \E C \in view.classes : \E g, h \in C : model[g].expects[f] # model[h].expects[f]
  /\ \A c \in view.checks : c[1] \notin view.eliminated /\ c[2] \notin usable_ids(obs)

\* The structural view of an incident can be relied on while measurements arrive:
\* each view is grounded in usable facts, eliminates only with proof, advises only
\* what helps and is ordered by evidence; and later views only refine earlier ones
\* the way their outcome announced.
ViewsRefineWithEvidence ==
  /\ [](TextIsGrounded /\ EliminationIsProven /\ AdviceIsUseful /\ RankerOnlyBreaksTies)
  /\ EvidenceOnlySplits /\ OutcomeKeepsItsWord
=============================================================================
