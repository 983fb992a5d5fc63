----------------------------- MODULE EvalHarness -----------------------------
(***************************************************************************)
(* The evaluation harness (src/eval): a corpus of labelled cases, its      *)
(* sealed DEV/TEST split, and the commands that ingest every case into a   *)
(* scope of its own, explain it, and score the answer against the label.   *)
(*                                                                         *)
(* A case's content is its case.yaml and the log file it names.  The split *)
(* goes by the directory of a case, everything else by its id, which the   *)
(* case.yaml may give.  A line of a file is stored once per scope          *)
(* (ux_log_entries_dedup), and a job owns only the lines it inserted; the  *)
(* log-cluster arm reads the lines of the job in the case's window, the    *)
(* ranker those of the scope.  Span and metric files, labelled trigger     *)
(* times, confidence buckets and the rendering of reports are left out.    *)
(***************************************************************************)
EXTENDS Naturals, FiniteSets, Sequences, SequencesExt

CONSTANTS
  CaseIds,      \* directories of the corpus, numbered in their order
  CaseDocs,     \* the contents a case.yaml may have
  FileLines,    \* FileLines[f]: the lines of a log file; a missing file has no entry
  CaseServices, \* services named by lines and labels
  Clusterings,  \* which clusters a run may keep of a set of fingerprints, and pick of some
  Rankers,      \* what a ranker may answer to the services it reads about
  HoldOuts,     \* what --holdout-family and --holdout-service may ask for
  TopK,         \* candidates kept of a ranking
  MaxEvals,     \* bound on eval commands
  Nothing       \* no field, no prediction, no directory

\* Cases are numbered; of some clusters at least one is kept, and a pick is among
\* the clusters picked from.
ASSUME EvalConstants ==
  /\ CaseIds \subseteq Nat /\ TopK \in Nat \ {0} /\ IsFiniteSet(CaseServices)
  /\ \A f \in DOMAIN FileLines : \A l \in FileLines[f] : l.svc \in CaseServices
  /\ \A k \in Clusterings, F \in SUBSET UNION {{l.fp : l \in FileLines[f]} : f \in DOMAIN FileLines} :
       k.keep[F] \subseteq F /\ (F # {} => k.keep[F] # {} /\ k.pick[F] \in F)
  /\ \A ranker \in Rankers, S \in SUBSET CaseServices : ranker[S] \in Seq(CaseServices)
  /\ Nothing \notin CaseServices /\ Nothing \notin Seq(CaseServices) /\ Nothing \notin CaseDocs

VARIABLES
  corpus,   \* case.yaml of each case, Nothing where there is no directory
  split,    \* split.yaml, and as a history the corpus it was made of
  handed,   \* history: the cases the last scoring of the split was given
  store,    \* the log lines of the evaluation scopes
  report,   \* the last report, and as a history what each scope held at a case's turn
  evals     \* number of eval commands run

evalVars == <<corpus, split, handed, store, report, evals>>

Cases == {c \in CaseIds : corpus[c] # Nothing}

\* load_case: a positive case needs a label, and the logs must exist.
load_case(doc) ==
  (doc.positive => doc.cause # Nothing) /\ doc.logs \in DOMAIN FileLines

\* load_cases: one case that does not load ends the command.
load_cases == Cases # {} /\ \A c \in Cases : load_case(corpus[c])
-----------------------------------------------------------------------------
(* sealed_split.py.                                                        *)

\* The most specific description of the failure wins: an explicit family, the
\* trace-localization label, the flag in the notes, "negative" for a healthy case,
\* then the trigger's type.
fault_family(doc) ==
  Head(SelectSeq(<<doc.family, doc.label, doc.flag, IF doc.positive THEN Nothing ELSE "negative",
                   doc.trigger, "unknown">>, LAMBDA name : name # Nothing))

held_out(doc, hold) == fault_family(doc) \in hold.families \/ doc.cause \in hold.services

\* Whole families and services move together.
make_split(hold) ==
  LET out == {c \in Cases : held_out(corpus[c], hold)}
  IN [dev |-> Cases \ out, test |-> out]

\* The ids and the content of every file.
content_fingerprint(ids) == [c \in ids |-> corpus[c]]

\* scripts/seal_corpus_split.py: a seal is written once.
Seal(hold) ==
  /\ split = Nothing /\ Cases # {}
  /\ hold.families \cup hold.services # {}
  /\ split' = [dev |-> make_split(hold).dev, test |-> make_split(hold).test, hold |-> hold,
               fingerprint |-> content_fingerprint(make_split(hold).test), of |-> corpus]
  /\ UNCHANGED <<corpus, handed, store, report, evals>>

\* load_manifest raises when the TEST cases have changed since the seal.
load_manifest == content_fingerprint(split.test) = split.fingerprint

case_id(c) == IF corpus[c].id = Nothing THEN c ELSE corpus[c].id

\* The scorer reads the trace-localization label of the directory a case's id
\* names, which must be there.
Labelled == {c \in Cases : corpus[case_id(c)].label # Nothing}

\* scripts/eval_trace_localization.py: only labelled cases are scored, by their id.
Hand(who, ids) ==
  /\ load_cases
  /\ \A c \in Cases : case_id(c) \in Cases
  /\ Labelled # {}
  /\ handed' = [who |-> who, cases |-> [c \in {d \in Labelled : case_id(d) \in ids} |-> corpus[c]]]
  /\ UNCHANGED <<corpus, split, store, report, evals>>

\* The tuning loop scores DEV, or everything while there is no split.
ScoreDev ==
  \/ split = Nothing /\ Hand("all", CaseIds)
  \/ split # Nothing /\ load_manifest /\ Hand("dev", split.dev)

\* --sealed-test: the frozen model's look.
ScoreTest ==
  /\ split # Nothing /\ load_manifest
  /\ Hand("test", split.test)

\* Somebody captures a case, edits its label or captures it again.
CaptureCase(c, doc) ==
  /\ corpus[c] # doc
  /\ corpus' = [corpus EXCEPT ![c] = doc]
  /\ UNCHANGED <<split, handed, store, report, evals>>
-----------------------------------------------------------------------------
(* runner.py, baseline.py: one case.                                       *)

scope_for(c) == case_id(c)

\* What the scope of a case holds when its turn comes: cases are ingested in order.
SeenBefore(c) ==
  {x.line : x \in {y \in store : y.scope = scope_for(c)}}
    \cup UNION {FileLines[corpus[d].logs] : d \in {e \in Cases : e < c /\ scope_for(e) = scope_for(c)}}

\* The lines the case's job inserts: a line its scope holds is skipped as a duplicate.
Inserted(c) == FileLines[corpus[c].logs] \ SeenBefore(c)

CaseLinesIn(lines, doc) == {l \in lines : l.at \in doc.window}

Failing(lines) == {l \in lines : l.level = "error"}

Services(lines) == {l.svc : l \in lines}

\* Clusters with a warning or an error, or all of them so that there is an
\* explanation.
significant_of(kept, lines) ==
  LET significant == {f \in kept : \E l \in lines : l.fp = f /\ l.level \in {"warn", "error"}}
  IN IF significant # {} THEN significant ELSE kept

\* The clusters the primary one is picked from: those with errors, if there are any.
primary_pool(significant, lines) ==
  LET errors == {f \in significant : \E l \in Failing(lines) : l.fp = f}
  IN IF errors # {} THEN errors ELSE significant

NoRanker == [S \in SUBSET CaseServices |-> <<>>]

\* explain_window of the job's lines in the window.  The ranker reads all lines of
\* the scope there; NoRanker is that of a configuration without a model.
explain_window(c, k, ranker) ==
  LET lines == CaseLinesIn(Inserted(c), corpus[c])
      kept == k.keep[{l.fp : l \in lines}]
      significant == significant_of(kept, lines)
      of(f) == Services({l \in lines : l.fp = f})
      ranked == ranker[Services(CaseLinesIn(SeenBefore(c) \cup Inserted(c), corpus[c]))]
  IN [primary |-> IF kept = {} THEN Nothing ELSE SetToSeq(of(k.pick[primary_pool(significant, lines)])),
      candidates |-> SubSeq(ranked, 1, IF Len(ranked) < TopK THEN Len(ranked) ELSE TopK),
      predicted |-> IF ranked = <<>> THEN Nothing ELSE Head(ranked),
      generated |-> IF ranked = <<>> THEN UNION {of(f) : f \in significant} ELSE ToSet(ranked)]

FirstOf(primary) == IF primary = Nothing THEN Nothing ELSE Head(primary)

\* Mutant: the ranking replaces the services but not the root cause.
HalfOverridden(r) ==
  [produced |-> r.primary # Nothing \/ r.candidates # <<>>, root |-> FirstOf(r.primary),
   predicted |-> ToSet(r.candidates), generated |-> r.generated]

\* The ranking, if there is one, overrides the pick of the log clusters.
prediction_from_result(r) ==
  IF r.candidates # <<>>
  THEN [produced |-> TRUE, root |-> r.predicted, predicted |-> ToSet(r.candidates), generated |-> r.generated]
  ELSE [produced |-> r.primary # Nothing, root |-> FirstOf(r.primary),
        predicted |-> IF r.primary = Nothing THEN {} ELSE ToSet(r.primary), generated |-> r.generated]

\* The service of the largest group of error lines by service and fingerprint.
baseline_prediction(c) ==
  LET errors == Failing(CaseLinesIn(Inserted(c), corpus[c]))
      group(l) == {k \in errors : k.svc = l.svc /\ k.fp = l.fp}
      top == {l \in errors : \A k \in errors : Cardinality(group(k)) <= Cardinality(group(l))}
  IN [produced |-> top # {},
      predicted |-> IF top = {} THEN {} ELSE {(CHOOSE l \in top : TRUE).svc}]

(* frozen.py judges the same result by rules of its own.                   *)

frozen_case_result(r) ==
  [ranked |-> IF r.candidates = <<>> /\ r.primary # Nothing THEN r.primary ELSE r.candidates,
   produced |-> r.predicted # Nothing \/ r.primary # Nothing]
-----------------------------------------------------------------------------
(* metrics.py, taxonomy.py, report.py: the sets of cases a report counts.  *)

Positive(docs) == {c \in DOMAIN docs : docs[c].positive /\ docs[c].cause # Nothing}
Negative(docs) == {c \in DOMAIN docs : ~docs[c].positive}

score_arm(docs, pred) ==
  [hit |-> {c \in DOMAIN docs : docs[c].cause # Nothing /\ docs[c].cause \in pred[c].predicted},
   abstained |-> {c \in Negative(docs) : ~pred[c].produced}]

classify_failure(doc, pred) ==
  CASE ~pred.produced -> "detection"
    [] pred.produced /\ pred.root = doc.cause -> "correct"
    [] pred.produced /\ pred.root # doc.cause /\ doc.cause \in pred.generated -> "inference"
    [] OTHER -> "coverage"

build_report(docs, pred, base) ==
  [raglogs |-> score_arm(docs, pred), baseline |-> score_arm(docs, base),
   bucket |-> [c \in Positive(docs) |-> classify_failure(docs[c], pred[c])]]

score_frozen(docs, res) ==
  [top1 |-> {c \in Positive(docs) : res[c].ranked # <<>> /\ Head(res[c].ranked) = docs[c].cause},
   top3 |-> {c \in Positive(docs) : \E i \in DOMAIN res[c].ranked : i <= 3 /\ res[c].ranked[i] = docs[c].cause},
   abstained |-> {c \in Negative(docs) : ~res[c].produced}]

\* Both commands take every case of the corpus, in one transaction.
RunCases(cmd, result, docs, out) ==
  /\ evals < MaxEvals /\ load_cases
  /\ evals' = evals + 1
  /\ store' = store \cup UNION {[scope : {scope_for(c)}, line : FileLines[corpus[c].logs]] : c \in Cases}
  /\ report' = [cmd |-> cmd, out |-> out, result |-> result, docs |-> docs,
                before |-> [c \in Cases |-> SeenBefore(c)]]
  /\ UNCHANGED <<corpus, split, handed>>

EvalCmd(k, ranker) ==
  LET docs == [c \in Cases |-> corpus[c]]
      result == [c \in Cases |-> explain_window(c, k, ranker)]
  IN RunCases("eval", result, docs, build_report(docs, [c \in Cases |-> prediction_from_result(result[c])],
                                                 [c \in Cases |-> baseline_prediction(c)]))

\* frozen-eval always configures a ranker.
FrozenEvalCmd(k, ranker) ==
  LET docs == [c \in Cases |-> corpus[c]]
      result == [c \in Cases |-> explain_window(c, k, ranker)]
  IN /\ ranker # NoRanker
     /\ RunCases("frozen", result, docs, score_frozen(docs, [c \in Cases |-> frozen_case_result(result[c])]))

EvalInit ==
  /\ corpus = [c \in CaseIds |-> Nothing]
  /\ split = Nothing /\ handed = Nothing
  /\ store = {} /\ report = Nothing /\ evals = 0

EvalNext ==
  \/ \E c \in CaseIds, doc \in CaseDocs : CaptureCase(c, doc)
  \/ \E hold \in HoldOuts : Seal(hold)
  \/ ScoreDev \/ ScoreTest
  \/ \E k \in Clusterings, ranker \in Rankers : EvalCmd(k, ranker) \/ FrozenEvalCmd(k, ranker)

EvalSpec == EvalInit /\ [][EvalNext]_evalVars
-----------------------------------------------------------------------------
(* Properties.                                                             *)

\* A case whose id is the name of another directory.
NamesAnother(c, doc) == doc.id \notin {Nothing, c}

\* A tuning loop that respects the split is given a held-out case in two ways only:
\* the case was labelled or captured anew after the seal, which the fingerprint
\* does not cover for DEV cases, or its case.yaml gives it the id of a DEV
\* directory, by which the scorer goes.
DevShowsNoHeldOut ==
  handed # Nothing /\ handed.who = "dev" =>
    \A c \in DOMAIN handed.cases :
      held_out(handed.cases[c], split.hold) => handed.cases[c] # split.of[c] \/ NamesAnother(c, handed.cases[c])

\* The one look at TEST sees, of the cases that go by their directory's name, the
\* sealed ones with the content they had then, and every one that was held out and
\* has a trace-localization label; held-out cases without one are never scored.
TestIsAsSealed ==
  handed # Nothing /\ handed.who = "test" =>
    /\ \A c \in DOMAIN handed.cases : NamesAnother(c, handed.cases[c]) \/ handed.cases[c] = split.of[c]
    /\ \A c \in CaseIds :
         split.of[c] # Nothing /\ held_out(split.of[c], split.hold) =>
           c \in DOMAIN handed.cases \/ split.of[c].label = Nothing \/ NamesAnother(c, split.of[c])

\* A positive case is booked as a detection failure, and a healthy one as left
\* alone, only when every line of its window was in its scope before its turn,
\* stored by an earlier command or by a case of the same id: the duplicates belong
\* to the other job and the case's own has nothing to explain.  On a first run a
\* case with any line in its window is explained, be it healthy.
AbstentionIsReal ==
  report # Nothing /\ report.cmd = "eval" =>
    LET bucket == report.out.bucket
    IN \A c \in report.out.raglogs.abstained \cup {d \in DOMAIN bucket : bucket[d] = "detection"} :
         CaseLinesIn(FileLines[report.docs[c].logs], report.docs[c]) \subseteq report.before[c]

\* The failure taxonomy explains the accuracy printed beside it: what is correct
\* was hit, and neither an undetected case nor one whose cause was never
\* generated can have been a hit.
BucketsExplainScore ==
  report # Nothing /\ report.cmd = "eval" =>
    \A c \in DOMAIN report.out.bucket :
      /\ report.out.bucket[c] = "correct" => c \in report.out.raglogs.hit
      /\ report.out.bucket[c] \in {"detection", "coverage"} => c \notin report.out.raglogs.hit

\* The two scorers read an explanation by different rules; on the results of one
\* and the same run they agree on what is right at the first place and on which
\* healthy cases were left alone.
ScorersAgree ==
  report # Nothing =>
    LET pred == [c \in DOMAIN report.docs |-> prediction_from_result(report.result[c])]
        mine == build_report(report.docs, pred, pred)
        theirs == score_frozen(report.docs, [c \in DOMAIN report.docs |-> frozen_case_result(report.result[c])])
    IN /\ theirs.top1 = {c \in DOMAIN mine.bucket : mine.bucket[c] = "correct"}
       /\ theirs.abstained = mine.raglogs.abstained

\* The numbers the harness prints mean what they say: DEV and TEST are the cases of
\* the seal, an abstention is the explainer's own, and scores, failure buckets and
\* the second scorer agree about every case of a run.
EvaluationIsHonest ==
  /\ DevShowsNoHeldOut /\ TestIsAsSealed
  /\ AbstentionIsReal /\ BucketsExplainScore /\ ScorersAgree
=============================================================================
