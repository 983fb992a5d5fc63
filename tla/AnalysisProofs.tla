---------------------------- MODULE AnalysisProofs ----------------------------
(***************************************************************************)
(* Safety of the analysis of a window: the two retrieval queries, for any  *)
(* tables, similarities and limits; the evaluation harness, for any corpus *)
(* and any ranker; the structural signals, for any spans and samples; the  *)
(* structural view, for any models, measurements and ranker scores; the    *)
(* learned ranking, for any rows, trees and flags.                         *)
(***************************************************************************)
EXTENDS Retrieval, EvalHarness, RcaRanking, StructuralPartition, WindowProofs

(***************************************************************************)
(* What a maximum, and a list ORDER BY ... LIMIT, is.                      *)
(***************************************************************************)
\* Of finitely many things that are valued, one is worth the most.
LEMMA Greatest ==
  ASSUME NEW S, IsFiniteSet(S), S # {}, NEW f \in [S -> Int]
  PROVE  \E x \in S : \A y \in S : f[x] >= f[y]
<1> DEFINE above(x) == {y \in S : f[y] > f[x]}
           counts == {Cardinality(above(x)) : x \in S}
<1>1. \A x \in S : IsFiniteSet(above(x)) /\ Cardinality(above(x)) \in Nat
  BY FS_Subset, FS_CardinalityType
<1>2. counts \subseteq Nat /\ counts # {}
  BY <1>1
<1>3. PICK c \in counts : \A d \in counts : c <= d
  BY <1>2, LeastOf
<1>4. PICK x \in S : c = Cardinality(above(x))
  OBVIOUS
<1>5. ASSUME NEW y \in S, f[y] > f[x] PROVE FALSE
  <2>1. above(y) \subseteq above(x) /\ y \in above(x) /\ y \notin above(y)
    BY <1>5
  <2>2. /\ Cardinality(above(y)) <= Cardinality(above(x))
        /\ Cardinality(above(x)) = Cardinality(above(y)) => above(x) = above(y)
    <3>1. IsFiniteSet(above(x)) /\ above(y) \in SUBSET above(x)
      BY <2>1, <1>1
    <3> HIDE DEF above
    <3> QED
      BY <3>1, FS_Subset
  <2>3. Cardinality(above(y)) < Cardinality(above(x))
    <3>1. Cardinality(above(x)) \in Nat /\ Cardinality(above(y)) \in Nat /\ above(x) # above(y)
      BY <2>1, <1>1
    <3> HIDE DEF above
    <3> QED
      BY <2>2, <3>1
  <2>4. Cardinality(above(y)) \in counts /\ Cardinality(above(y)) \in Nat /\ c \in Nat
    BY <1>1, <1>2, <1>3
  <2> HIDE DEF above, counts
  <2> QED
    BY <2>3, <2>4, <1>3, <1>4
<1> QED
  BY <1>5

\* Max is the greatest element.
LEMMA MaxFacts ==
  ASSUME NEW S, IsFiniteSet(S), S # {}, S \subseteq Int
  PROVE  Max(S) \in S /\ \A y \in S : Max(S) >= y
<1>1. \E x \in S : \A y \in S : [z \in S |-> z][x] >= [z \in S |-> z][y]
  BY Greatest
<1> QED
  BY <1>1 DEF Max

LEMMA LesserOf ==
  ASSUME NEW a \in Nat, NEW b \in Nat
  PROVE  Min({a, b}) = IF a <= b THEN a ELSE b
<1>1. CASE a <= b
  <2>1. \A x \in {a, b} : (\A y \in {a, b} : x <= y) <=> x = a
    BY <1>1
  <2> QED
    BY <2>1, <1>1 DEF Min
<1>2. CASE ~(a <= b)
  <2>1. \A x \in {a, b} : (\A y \in {a, b} : x <= y) <=> x = b
    BY <1>2
  <2> QED
    BY <2>1, <1>2 DEF Min
<1> QED
  BY <1>1, <1>2

\* A LIMIT of at least one cuts a list only if it is full, and never to nothing.
LEMMA CutFacts ==
  ASSUME NEW S, IsFiniteSet(S), NEW n \in Nat \ {0}, NEW T \in SUBSET S,
         Cardinality(T) = Min({n, Cardinality(S)})
  PROVE  /\ IsFiniteSet(T) /\ Cardinality(T) \in Nat /\ Cardinality(T) <= n
         /\ T # S => Cardinality(T) = n
         /\ T = {} => S = {}
<1>1. /\ IsFiniteSet(T) /\ Cardinality(T) \in Nat /\ Cardinality(S) \in Nat
      /\ Cardinality(T) = Cardinality(S) => T = S
  BY FS_Subset, FS_CardinalityType
<1>2. Cardinality(T) = IF n <= Cardinality(S) THEN n ELSE Cardinality(S)
  BY <1>1, LesserOf
<1>3. T = {} => Cardinality(T) = 0
  BY FS_EmptySet
<1> QED
  BY <1>1, <1>2, <1>3, FS_EmptySet

\* There is such a list, whatever the key and the LIMIT.
LEMMA TopExists ==
  ASSUME NEW S, IsFiniteSet(S), NEW f \in [S -> Int], NEW n \in Nat
  PROVE  \E T \in SUBSET S : /\ Cardinality(T) = Min({n, Cardinality(S)})
                             /\ \A x \in T, y \in S \ T : f[x] >= f[y]
<1> DEFINE Cut(T, k) == /\ T \in SUBSET S /\ Cardinality(T) = Min({k, Cardinality(S)})
                        /\ \A x \in T, y \in S \ T : f[x] >= f[y]
           bad == {k \in Nat : ~\E T : Cut(T, k)}
<1>1. Cardinality(S) \in Nat
  BY FS_CardinalityType
<1>2. ASSUME bad # {} PROVE FALSE
  <2>1. PICK k \in bad : \A j \in bad : k <= j
    BY <1>2, LeastOf
  <2>2. Cut({}, 0)
    BY <1>1, LesserOf, FS_EmptySet
  <2>3. k \in Nat \ {0}
    BY <2>1, <2>2
  <2>4. PICK T : Cut(T, k - 1)
    BY <2>1, <2>3
  <2>5. /\ IsFiniteSet(T) /\ Cardinality(T) \in Nat /\ T \in SUBSET S
        /\ Cardinality(T) = Cardinality(S) => T = S
        /\ IsFiniteSet(S \ T)
    BY <2>4, FS_Subset, FS_CardinalityType
  <2>6. Cardinality(T) = IF k - 1 <= Cardinality(S) THEN k - 1 ELSE Cardinality(S)
    BY <2>3, <2>4, <1>1, LesserOf
  <2>7. Min({k, Cardinality(S)}) = IF k <= Cardinality(S) THEN k ELSE Cardinality(S)
    BY <2>3, <1>1, LesserOf
  <2>8. CASE T = S
    <3>1. Cut(T, k)
      BY <2>4, <2>5, <2>6, <2>7, <2>8, <2>3, <1>1
    <3> QED
      BY <3>1, <2>1
  <2>9. CASE T # S
    <3>1. S \ T # {} /\ [z \in S \ T |-> f[z]] \in [S \ T -> Int]
      BY <2>9, <2>5
    <3>2. PICK x \in S \ T : \A y \in S \ T : [z \in S \ T |-> f[z]][x] >= [z \in S \ T |-> f[z]][y]
      BY <3>1, <2>5, Greatest
    <3>3. \A y \in S \ T : f[x] >= f[y]
      BY <3>2
    <3>4. Cardinality(T \cup {x}) = Cardinality(T) + 1
      BY <2>5, FS_AddElement
    <3>5. T \cup {x} \in SUBSET S /\ Cardinality(T \cup {x}) <= Cardinality(S)
      BY <2>5, FS_Subset
    <3>6. Cardinality(T \cup {x}) = Min({k, Cardinality(S)})
      BY <3>4, <3>5, <2>5, <2>6, <2>7, <2>3, <1>1, <2>9
    <3>7. \A a \in T \cup {x}, y \in S \ (T \cup {x}) : f[a] >= f[y]
      BY <3>3, <2>4
    <3>8. Cut(T \cup {x}, k)
      BY <3>5, <3>6, <3>7
    <3> QED
      BY <3>8, <2>1
  <2> QED
    BY <2>8, <2>9
<1> QED
  BY <1>2
-----------------------------------------------------------------------------
(***************************************************************************)
(* Questions.  What makes an answer right is that the lines it rests on    *)
(* were searched after the question came: no line leaves the table, so an  *)
(* empty search is empty for the lines there were before (AskInv).         *)
(***************************************************************************)
AskModes == {"semantic", "keyword", "fallback"}

AskStates ==
  {Quiet}
  \cup [pc : {"semantic", "keyword", "fallback", "aborted", "raised"}, q : Questions, before : SUBSET AskRows]
  \cup [pc : {"answer"}, q : Questions, before : SUBSET AskRows, mode : AskModes, entries : SUBSET AskRows]
  \cup [pc : {"done"}, q : Questions, before : SUBSET AskRows, mode : AskModes, entries : SUBSET AskRows,
        clusters : SUBSET {r.fp : r \in AskRows}, total : Nat, by : {"llm", "rules"}]

\* A line that was asked for.
AskedFor(q, mode, r) ==
  /\ r.scope = q.scope /\ InWindow(r) /\ q.svc \in {"", r.svc}
  /\ mode # "fallback" => q.bias \in {"", r.lvl}

\* The lists of clusters an answer may show.
ClusterLists(entries) == TopOf({r.fp : r \in entries}, LAMBDA fp : Of(entries, fp), AskCap)

AskInv ==
  /\ lines \in SUBSET AskRows /\ ask \in AskStates
  /\ ask.pc # "idle" => ask.before \subseteq lines
  /\ ask.pc = "fallback" => search_logs(ask.q, ask.before) = {}
  /\ ask.pc \in {"answer", "done"} =>
       /\ \A r \in ask.entries : AskedFor(ask.q, ask.mode, r)
       /\ ask.mode = "fallback" => search_logs(ask.q, ask.before) = {}
       /\ ask.entries = {} => fetch_fallback_clusters(ask.q, ask.before) = {}
  /\ ask.pc = "done" => ask.clusters \in ClusterLists(ask.entries)

\* Searches only find more in a table that has more.
LEMMA SearchesGrow ==
  ASSUME NEW q, NEW before, NEW after, before \subseteq after
  PROVE  /\ search_logs(q, before) \subseteq search_logs(q, after)
         /\ fetch_fallback_clusters(q, before) \subseteq fetch_fallback_clusters(q, after)
BY DEF search_logs, fetch_fallback_clusters, filtered

LEMMA SearchesFit ==
  ASSUME NEW q, NEW rows, rows \subseteq AskRows
  PROVE  /\ search_logs(q, rows) \in SUBSET AskRows
         /\ search_logs_semantic(q, rows) \in SUBSET AskRows
         /\ fetch_fallback_clusters(q, rows) \in SUBSET AskRows
         /\ \A r \in search_logs(q, rows) : AskedFor(q, "keyword", r)
         /\ \A r \in search_logs_semantic(q, rows) : AskedFor(q, "semantic", r)
         /\ \A r \in fetch_fallback_clusters(q, rows) : AskedFor(q, "fallback", r)
BY DEF search_logs, search_logs_semantic, fetch_fallback_clusters, filtered, AskedFor

\* cluster_logs picks a list there is.
LEMMA ClustersPicked ==
  ASSUME NEW entries \in SUBSET AskRows
  PROVE  /\ cluster_logs(entries) \in ClusterLists(entries)
         /\ cluster_logs(entries) \in SUBSET {r.fp : r \in AskRows}
         /\ Cardinality(entries) \in Nat
<1> DEFINE fps == {r.fp : r \in entries}
           size == [fp \in fps |-> Of(entries, fp)]
<1>1. IsFiniteSet(entries) /\ Cardinality(entries) \in Nat
  BY FS_Subset, FS_CardinalityType, RetrievalConstants
<1>2. IsFiniteSet(fps)
  <2>1. [r \in entries |-> r.fp] \in Surjection(entries, fps)
    BY DEF Surjection
  <2> QED
    BY <2>1, <1>1, FS_Surjection
<1>3. \A fp : Of(entries, fp) \in Nat
  BY <1>1, FS_Subset, FS_CardinalityType DEF Of
<1>4. size \in [fps -> Int] /\ \A fp \in fps : size[fp] = Of(entries, fp)
  BY <1>3
<1>5. AskCap \in Nat
  BY RetrievalConstants
<1>6. \E T \in SUBSET fps : /\ Cardinality(T) = Min({AskCap, Cardinality(fps)})
                            /\ \A x \in T, y \in fps \ T : size[x] >= size[y]
  <2> HIDE DEF fps, size
  <2> QED
    BY <1>2, <1>4, <1>5, TopExists
<1>7. \E T : T \in TopOf(fps, LAMBDA fp : Of(entries, fp), AskCap)
  <2> HIDE DEF fps, size
  <2> QED
    BY <1>4, <1>6 DEF TopOf
<1>8. cluster_logs(entries) \in TopOf(fps, LAMBDA fp : Of(entries, fp), AskCap)
  BY <1>7 DEF cluster_logs
<1>9. cluster_logs(entries) \in SUBSET fps
  <2> HIDE DEF fps
  <2> QED
    BY <1>8 DEF TopOf
<1>10. cluster_logs(entries) \in ClusterLists(entries)
  BY <1>8 DEF ClusterLists
<1> QED
  BY <1>1, <1>9, <1>10

LEMMA AskStart == RetrievalInit => AskInv
<1> SUFFICES ASSUME RetrievalInit PROVE AskInv
  OBVIOUS
<1>1. lines \in SUBSET AskRows /\ ask = Quiet
  BY RetrievalConstants DEF RetrievalInit
<1>2. ask \in AskStates /\ ask.pc = "idle"
  BY <1>1 DEF AskStates, Quiet
<1> QED
  BY <1>1, <1>2 DEF AskInv

\* A question that stands where it was, with a table that grew.
LEMMA CommitStep ==
  ASSUME AskInv, NEW r \in AskRows, CommitAskLine(r)
  PROVE  AskInv'
BY DEF AskInv, CommitAskLine

\* What is known of a question under way.
LEMMA Waiting ==
  ASSUME AskInv, ask.pc \in {"semantic", "keyword", "fallback", "aborted"}
  PROVE  /\ ask \in [pc : {"semantic", "keyword", "fallback", "aborted", "raised"}, q : Questions,
                     before : SUBSET AskRows]
         /\ ask.before \subseteq lines /\ lines \in SUBSET AskRows
BY DEF AskInv, AskStates, Quiet

\* Lines were found in the table of now.
LEMMA RetrievedStep ==
  ASSUME AskInv, ask.pc \in {"semantic", "keyword", "fallback"}, UNCHANGED lines,
         NEW mode \in AskModes, NEW T \in SUBSET AskRows, ask' = Retrieved(mode, T),
         \A r \in T : AskedFor(ask.q, mode, r),
         mode = "fallback" => search_logs(ask.q, ask.before) = {},
         T = {} => fetch_fallback_clusters(ask.q, ask.before) = {}
  PROVE  AskInv'
<1>1. /\ ask'.pc = "answer" /\ ask'.q = ask.q /\ ask'.before = ask.before /\ ask'.mode = mode
      /\ ask'.entries = T
  BY DEF Retrieved
<1>2. ask' \in [pc : {"answer"}, q : Questions, before : SUBSET AskRows, mode : AskModes, entries : SUBSET AskRows]
  BY Waiting DEF Retrieved
<1>3. ask' \in AskStates
  BY <1>2 DEF AskStates
<1> QED
  BY <1>1, <1>3, Waiting DEF AskInv

\* A question that goes on without lines.
LEMMA GoOnStep ==
  ASSUME AskInv, ask.pc \in {"semantic", "keyword", "fallback", "aborted"}, UNCHANGED lines,
         NEW pc \in {"keyword", "fallback", "aborted", "raised"}, ask' = [ask EXCEPT !.pc = pc],
         pc = "fallback" => search_logs(ask.q, ask.before) = {}
  PROVE  AskInv'
<1>1. /\ ask'.pc = pc /\ ask'.q = ask.q /\ ask'.before = ask.before
      /\ ask' \in [pc : {"semantic", "keyword", "fallback", "aborted", "raised"}, q : Questions,
                     before : SUBSET AskRows]
  BY Waiting
<1>2. ask' \in AskStates
  BY <1>1 DEF AskStates
<1> QED
  BY <1>1, <1>2, Waiting DEF AskInv

LEMMA SemanticStep ==
  ASSUME AskInv, NEW o, AskSemantic(o)
  PROVE  AskInv'
<1>1. ask.pc = "semantic" /\ UNCHANGED lines
  BY DEF AskSemantic
<1>2. CASE \E T \in TopOf(search_logs_semantic(ask.q, lines), LAMBDA r : r.sim, AskLimit) :
             T # {} /\ ask' = Retrieved("semantic", T)
  <2>1. PICK T \in SUBSET search_logs_semantic(ask.q, lines) : T # {} /\ ask' = Retrieved("semantic", T)
    BY <1>2 DEF TopOf
  <2>2. T \in SUBSET AskRows /\ \A r \in T : AskedFor(ask.q, "semantic", r)
    BY <1>1, <2>1, Waiting, SearchesFit
  <2> QED
    BY <1>1, <2>1, <2>2, RetrievedStep DEF AskModes
<1>3. CASE ask' = [ask EXCEPT !.pc = "keyword"]
  BY <1>1, <1>3, GoOnStep
<1>4. CASE ask' = [ask EXCEPT !.pc = "aborted"]
  BY <1>1, <1>4, GoOnStep
<1> QED
  BY <1>2, <1>3, <1>4 DEF AskSemantic

LEMMA KeywordStep == ASSUME AskInv, AskKeyword PROVE AskInv'
<1>1. ask.pc = "keyword" /\ UNCHANGED lines
  BY DEF AskKeyword
<1>2. IsFiniteSet(search_logs(ask.q, lines))
  BY <1>1, Waiting, SearchesFit, FS_Subset, RetrievalConstants
<1>3. CASE search_logs(ask.q, lines) = {} /\ ask' = [ask EXCEPT !.pc = "fallback"]
  <2>1. search_logs(ask.q, ask.before) = {}
    BY <1>1, <1>3, Waiting, SearchesGrow
  <2> QED
    BY <1>1, <1>3, <2>1, GoOnStep
<1>4. CASE /\ search_logs(ask.q, lines) # {}
           /\ \E T \in TopOf(search_logs(ask.q, lines), LAMBDA r : r.at, AskLimit) : ask' = Retrieved("keyword", T)
  <2>1. PICK T \in SUBSET search_logs(ask.q, lines) :
          /\ Cardinality(T) = Min({AskLimit, Cardinality(search_logs(ask.q, lines))})
          /\ ask' = Retrieved("keyword", T)
    BY <1>4 DEF TopOf
  <2>2. T # {}
    BY <1>2, <1>4, <2>1, CutFacts, RetrievalConstants
  <2>3. T \in SUBSET AskRows /\ \A r \in T : AskedFor(ask.q, "keyword", r)
    BY <1>1, <2>1, Waiting, SearchesFit
  <2> QED
    BY <1>1, <2>1, <2>2, <2>3, RetrievedStep DEF AskModes
<1> QED
  BY <1>3, <1>4 DEF AskKeyword

LEMMA FallbackStep == ASSUME AskInv, AskFallback PROVE AskInv'
<1>1. ask.pc = "fallback" /\ UNCHANGED lines
  BY DEF AskFallback
<1> DEFINE found == fetch_fallback_clusters(ask.q, lines)
<1>2. IsFiniteSet(found)
  BY <1>1, Waiting, SearchesFit, FS_Subset, RetrievalConstants
<1>3. PICK T \in SUBSET found :
        Cardinality(T) = Min({AskLimit, Cardinality(found)}) /\ ask' = Retrieved("fallback", T)
  BY DEF AskFallback, TopOf
<1>4. T = {} => found = {}
  <2> HIDE DEF found
  <2> QED
    BY <1>2, <1>3, CutFacts, RetrievalConstants
<1>5. T = {} => fetch_fallback_clusters(ask.q, ask.before) = {}
  BY <1>1, <1>4, Waiting, SearchesGrow
<1>6. T \in SUBSET AskRows /\ \A r \in T : AskedFor(ask.q, "fallback", r)
  BY <1>1, <1>3, Waiting, SearchesFit
<1>7. search_logs(ask.q, ask.before) = {}
  BY <1>1 DEF AskInv
<1> QED
  BY <1>1, <1>3, <1>5, <1>6, <1>7, RetrievedStep DEF AskModes

LEMMA AnswerStep ==
  ASSUME AskInv, NEW said \in BOOLEAN, AnswerAsk(said)
  PROVE  AskInv'
<1>1. /\ ask \in [pc : {"answer"}, q : Questions, before : SUBSET AskRows, mode : AskModes, entries : SUBSET AskRows]
      /\ ask.before \subseteq lines /\ lines \in SUBSET AskRows /\ UNCHANGED lines
  BY DEF AskInv, AskStates, Quiet, AnswerAsk
<1>2. /\ ask'.pc = "done" /\ ask'.q = ask.q /\ ask'.before = ask.before /\ ask'.mode = ask.mode
      /\ ask'.entries = ask.entries /\ ask'.clusters = cluster_logs(ask.entries)
  BY DEF AnswerAsk
<1>3. ask' \in [pc : {"done"}, q : Questions, before : SUBSET AskRows, mode : AskModes, entries : SUBSET AskRows,
                clusters : SUBSET {r.fp : r \in AskRows}, total : Nat, by : {"llm", "rules"}]
  BY <1>1, ClustersPicked DEF AnswerAsk
<1>4. ask' \in AskStates
  BY <1>3 DEF AskStates
<1>5. cluster_logs(ask.entries) \in ClusterLists(ask.entries)
  BY <1>1, ClustersPicked
<1>6. /\ \A r \in ask.entries : AskedFor(ask.q, ask.mode, r)
      /\ ask.mode = "fallback" => search_logs(ask.q, ask.before) = {}
      /\ ask.entries = {} => fetch_fallback_clusters(ask.q, ask.before) = {}
  BY DEF AskInv, AnswerAsk
<1> QED
  BY <1>1, <1>2, <1>4, <1>5, <1>6 DEF AskInv

LEMMA BeginAskStep == ASSUME AskInv, NEW q \in Questions, BeginAsk(q) PROVE AskInv'
<1>1. /\ ask'.pc = "semantic" /\ ask'.before = lines /\ UNCHANGED lines
      /\ lines \in SUBSET AskRows
  BY DEF BeginAsk, AskInv
<1>2. ask' \in AskStates
  BY <1>1 DEF BeginAsk, AskStates
<1> QED
  BY <1>1, <1>2 DEF AskInv

LEMMA AskStep == AskInv /\ [RetrievalNext]_retrievalVars => AskInv'
<1> SUFFICES ASSUME AskInv, [RetrievalNext]_retrievalVars PROVE AskInv'
  OBVIOUS
<1>1. CASE AskRaises
  BY <1>1, GoOnStep DEF AskRaises
<1>2. CASE UNCHANGED <<lines, ask>>
  BY <1>2 DEF AskInv
<1>3. CASE \/ UNCHANGED retrievalVars \/ SimilarFingerprint
           \/ \E c \in Callers, wants \in {"yes", "no", "unset"}, query \in Queried : BeginSimilar(c, wants, query)
           \/ \E o \in {"answered", "unavailable", "sqlerror"} : SimilarSemantic(o)
  BY <1>2, <1>3 DEF retrievalVars, SimilarFingerprint, BeginSimilar, SimilarSemantic
<1> QED
  BY <1>1, <1>3, CommitStep, BeginAskStep, SemanticStep, KeywordStep, FallbackStep, AnswerStep
     DEF RetrievalNext

LEMMA AskMeans == AskInv => AnswerRestsOnMatches /\ SilenceMeansQuiet
<1> SUFFICES ASSUME AskInv PROVE AnswerRestsOnMatches /\ SilenceMeansQuiet
  OBVIOUS
<1>1. AnswerRestsOnMatches
  <2> SUFFICES ASSUME ask.pc = "done" PROVE AnswerRestsOnMatches
    BY DEF AnswerRestsOnMatches
  <2> DEFINE fps == {r.fp : r \in ask.entries}
             size(fp) == Of(ask.entries, fp)
  <2>1. ask.entries \in SUBSET AskRows /\ \A r \in ask.entries : AskedFor(ask.q, ask.mode, r)
    BY DEF AskInv, AskStates, Quiet
  <2>2. IsFiniteSet(fps)
    <3>1. [r \in ask.entries |-> r.fp] \in Surjection(ask.entries, fps)
      BY DEF Surjection
    <3>2. IsFiniteSet(ask.entries)
      BY <2>1, FS_Subset, RetrievalConstants
    <3> QED
      BY <3>1, <3>2, FS_Surjection
  <2>3. /\ ask.clusters \in SUBSET fps /\ Cardinality(ask.clusters) = Min({AskCap, Cardinality(fps)})
        /\ \A g \in ask.clusters, fp \in fps \ ask.clusters : size(g) >= size(fp)
    <3>1. ask.clusters \in ClusterLists(ask.entries)
      BY DEF AskInv
    <3> QED
      BY <3>1 DEF ClusterLists, TopOf
  <2>4. fps \ ask.clusters # {} => Cardinality(ask.clusters) = AskCap
    <3> HIDE DEF fps
    <3> QED
      BY <2>2, <2>3, CutFacts, RetrievalConstants
  <2>5. \A fp : size(fp) \in Nat
    <3>1. IsFiniteSet(ask.entries)
      BY <2>1, FS_Subset, RetrievalConstants
    <3> QED
      BY <3>1, FS_Subset, FS_CardinalityType DEF Of
  <2>6. \A fp \in fps \ ask.clusters, g \in ask.clusters : size(fp) <= size(g)
    <3> HIDE DEF fps, size
    <3> QED
      BY <2>3, <2>5
  <2> QED
    BY <2>1, <2>4, <2>6 DEF AnswerRestsOnMatches, AskedFor
<1>2. SilenceMeansQuiet
  <2>1. ASSUME ask.pc = "done", ask.entries = {}
        PROVE  ~\E r \in ask.before : /\ r.scope = ask.q.scope /\ InWindow(r) /\ ask.q.svc \in {"", r.svc}
                                      /\ r.lvl \in {"error", "fatal", "warn", "critical"}
    <3>1. fetch_fallback_clusters(ask.q, ask.before) = {}
      BY <2>1 DEF AskInv
    <3> QED
      BY <3>1 DEF fetch_fallback_clusters
  <2>2. ask.pc = "done" /\ ask.mode = "fallback" => search_logs(ask.q, ask.before) = {}
    BY DEF AskInv
  <2> QED
    BY <2>1, <2>2 DEF SilenceMeansQuiet
<1> QED
  BY <1>1, <1>2
-----------------------------------------------------------------------------
(***************************************************************************)
(* Similar incidents.  Each vector SELECT is cut to SimilarTop rows, and   *)
(* so is the merged list.  That nothing near is lost (Crowd): a row that a *)
(* SELECT cut was crowded out by SimilarTop rows at least as near to that  *)
(* queried cluster, and with those the merged list is full.                *)
(***************************************************************************)
\* A row the caller may be shown.
Shown(r) == visible(sim.caller, sim.cross, QueryFps(sim.query), r)

Similarity(i, r) == ClusterSim[sim.query[i].text][r.fp]

\* What the merging makes of the results of the SELECTs.
Seen(hits, r) == {Similarity(j, r) : j \in {i \in DOMAIN hits : r \in hits[i]}}

LEMMA QueryFacts ==
  ASSUME sim.query \in Queried
  PROVE  /\ IsFiniteSet(DOMAIN sim.query) /\ IsFiniteSet(VectorRows) /\ SimilarTop \in Nat \ {0} /\ MinSim \in Int
         /\ \A i \in DOMAIN sim.query, r \in VectorRows : Similarity(i, r) \in Int
<1>1. DOMAIN sim.query = 1 .. Len(sim.query) /\ Len(sim.query) \in Nat
  BY RetrievalConstants
<1>2. IsFiniteSet(1 .. Len(sim.query))
  <2>1. \A n \in Nat : IsFiniteSet(1 .. n)
    BY FS_Interval
  <2> QED
    BY <1>1, <2>1
<1> QED
  BY <1>1, <1>2, RetrievalConstants DEF Similarity

\* The result of one SELECT.
LEMMA ResultFacts ==
  ASSUME sim.query \in Queried, NEW hits \in SearchResults, NEW i \in DOMAIN sim.query
  PROVE  /\ DOMAIN hits = DOMAIN sim.query
         /\ hits[i] \in SUBSET VectorRows /\ IsFiniteSet(hits[i]) /\ Cardinality(hits[i]) \in Nat
         /\ \A r \in hits[i] : Shown(r) /\ Similarity(i, r) >= MinSim
         /\ \A r \in VectorRows \ hits[i] :
              Shown(r) /\ Similarity(i, r) >= MinSim =>
                /\ Cardinality(hits[i]) = SimilarTop
                /\ \A x \in hits[i] : Similarity(i, x) >= Similarity(i, r)
<1> DEFINE near == Nearby(sim.query[i].text)
<1>1. near = {r \in VectorRows : Shown(r) /\ Similarity(i, r) >= MinSim}
  BY DEF Nearby, Shown, Similarity
<1>2. IsFiniteSet(near)
  BY <1>1, QueryFacts, FS_Subset
<1>3. /\ DOMAIN hits = DOMAIN sim.query
      /\ hits[i] \in SUBSET near /\ Cardinality(hits[i]) = Min({SimilarTop, Cardinality(near)})
      /\ \A x \in hits[i], y \in near \ hits[i] : Similarity(i, x) >= Similarity(i, y)
  BY DEF SearchResults, TopOf, Similarity
<1>4. /\ IsFiniteSet(hits[i]) /\ Cardinality(hits[i]) \in Nat
      /\ hits[i] # near => Cardinality(hits[i]) = SimilarTop
  <2> HIDE DEF near
  <2> QED
    BY <1>2, <1>3, QueryFacts, CutFacts
<1> QED
  BY <1>1, <1>3, <1>4

LEMMA SeenFacts ==
  ASSUME sim.query \in Queried, NEW hits \in SearchResults, NEW r, NEW i \in DOMAIN sim.query, r \in hits[i]
  PROVE  /\ r \in VectorRows /\ Max(Seen(hits, r)) \in Int
         /\ \A j \in DOMAIN sim.query : r \in hits[j] => Max(Seen(hits, r)) >= Similarity(j, r)
         /\ \E j \in DOMAIN sim.query : r \in hits[j] /\ Max(Seen(hits, r)) = Similarity(j, r)
<1> DEFINE places == {j \in DOMAIN hits : r \in hits[j]}
<1>1. DOMAIN hits = DOMAIN sim.query /\ r \in VectorRows
  BY ResultFacts
<1>2. IsFiniteSet(places) /\ i \in places
  BY <1>1, QueryFacts, FS_Subset
<1>3. Seen(hits, r) = {Similarity(j, r) : j \in places}
  BY DEF Seen
<1>4. IsFiniteSet(Seen(hits, r))
  <2>1. [j \in places |-> Similarity(j, r)] \in Surjection(places, Seen(hits, r))
    BY <1>3 DEF Surjection
  <2> HIDE DEF places
  <2> QED
    BY <2>1, <1>2, FS_Surjection
<1>5. Seen(hits, r) # {} /\ Seen(hits, r) \subseteq Int
  BY <1>1, <1>2, <1>3, QueryFacts
<1>6. Max(Seen(hits, r)) \in Seen(hits, r) /\ \A y \in Seen(hits, r) : Max(Seen(hits, r)) >= y
  BY <1>4, <1>5, MaxFacts
<1> QED
  BY <1>1, <1>3, <1>5, <1>6

LEMMA MergedFacts ==
  ASSUME sim.query \in Queried, NEW hits \in SearchResults
  PROVE  /\ merge_matches(hits) = {[row |-> r, similarity |-> Max(Seen(hits, r))] :
                                     r \in {x \in VectorRows : \E i \in DOMAIN sim.query : x \in hits[i]}}
         /\ IsFiniteSet(merge_matches(hits))
<1> DEFINE rows == {x \in VectorRows : \E i \in DOMAIN sim.query : x \in hits[i]}
           record(r) == [row |-> r, similarity |-> Max(Seen(hits, r))]
<1>1. UNION Range(hits) = rows
  BY ResultFacts DEF Range, SearchResults
<1>2. \A r : {ClusterSim[sim.query[i].text][r.fp] : i \in {j \in DOMAIN hits : r \in hits[j]}} = Seen(hits, r)
  BY DEF Seen, Similarity
<1>3. merge_matches(hits) = {record(r) : r \in rows}
  <2> DEFINE sims(r) == {ClusterSim[sim.query[i].text][r.fp] : i \in {j \in DOMAIN hits : r \in hits[j]}}
             full(r) == [row |-> r, similarity |-> Max(sims(r))]
  <2>1. merge_matches(hits) = {full(r) : r \in UNION Range(hits)}
    BY DEF merge_matches
  <2>2. \A r : sims(r) = Seen(hits, r)
    BY <1>2
  <2>3. \A r : full(r) = record(r)
    <3> HIDE DEF sims
    <3> QED
      BY <2>2
  <2> HIDE DEF rows, full, record
  <2> QED
    BY <1>1, <2>1, <2>3
<1>4. IsFiniteSet(rows)
  BY QueryFacts, FS_Subset
<1>5. [r \in rows |-> record(r)] \in Surjection(rows, {record(r) : r \in rows})
  BY DEF Surjection
<1>6. IsFiniteSet({record(r) : r \in rows})
  <2> HIDE DEF rows, record
  <2> QED
    BY <1>4, <1>5, FS_Surjection
<1> QED
  BY <1>3, <1>6

\* Nothing nearer than a cards match is missing.
LEMMA Crowd ==
  ASSUME sim.query \in Queried, NEW hits \in SearchResults, NEW T \in SUBSET merge_matches(hits),
         Cardinality(T) = Min({SimilarTop, Cardinality(merge_matches(hits))}),
         \A x \in T, y \in merge_matches(hits) \ T : x.similarity >= y.similarity,
         NEW m \in T, NEW r \in VectorRows, NEW i \in DOMAIN sim.query,
         Shown(r), Similarity(i, r) >= MinSim, Similarity(i, r) > m.similarity
  PROVE  r \in hits[i] /\ [row |-> r, similarity |-> Max(Seen(hits, r))] \in T
<1> DEFINE record(x) == [row |-> x, similarity |-> Max(Seen(hits, x))]
           near == hits[i]
<1>1. m.similarity \in Int
  BY MergedFacts, SeenFacts
<1>2. \A x \in near : Similarity(i, x) > m.similarity => record(x) \in T /\ record(x) # m
  <2> SUFFICES ASSUME NEW x \in near, Similarity(i, x) > m.similarity
               PROVE  record(x) \in T /\ record(x) # m
    OBVIOUS
  <2>1. x \in VectorRows /\ Max(Seen(hits, x)) \in Int /\ Max(Seen(hits, x)) >= Similarity(i, x)
    BY SeenFacts
  <2>2. record(x) \in merge_matches(hits)
    BY <2>1, MergedFacts
  <2>3. record(x).similarity > m.similarity
    BY <2>1, <1>1, QueryFacts
  <2> QED
    BY <2>2, <2>3, <1>1, <2>1
<1>3. CASE r \in near
  BY <1>2, <1>3
<1>4. CASE r \notin near
  <2>1. Cardinality(near) = SimilarTop /\ \A x \in near : Similarity(i, x) >= Similarity(i, r)
    BY <1>4, ResultFacts
  <2>2. \A x \in near : Similarity(i, x) > m.similarity
    BY <2>1, <1>1, ResultFacts, QueryFacts
  <2>3. [x \in near |-> record(x)] \in Injection(near, T \ {m})
    BY <1>2, <2>2 DEF Injection, IsInjective
  <2>4. IsFiniteSet(T) /\ Cardinality(T) \in Nat /\ Cardinality(T) <= SimilarTop
    BY MergedFacts, QueryFacts, CutFacts
  <2>5. IsFiniteSet(T \ {m}) /\ Cardinality(T \ {m}) = Cardinality(T) - 1
    BY <2>4, FS_RemoveElement
  <2>6. Cardinality(near) <= Cardinality(T \ {m})
    <3> HIDE DEF near, record
    <3> QED
      BY <2>3, <2>5, FS_Injection
  <2> QED
    BY <2>1, <2>4, <2>5, <2>6, QueryFacts
<1> QED
  BY <1>3, <1>4

LEMMA BestFacts ==
  ASSUME sim.query \in Queried, NEW r \in VectorRows, DOMAIN sim.query # {}
  PROVE  /\ BestSim(r) \in Int /\ \A i \in DOMAIN sim.query : BestSim(r) >= Similarity(i, r)
         /\ \E i \in DOMAIN sim.query : BestSim(r) = Similarity(i, r)
<1> DEFINE places == DOMAIN sim.query
           sims == {Similarity(i, r) : i \in places}
<1>1. BestSim(r) = Max(sims)
  BY DEF BestSim, Similarity
<1>2. [i \in places |-> Similarity(i, r)] \in Surjection(places, sims)
  BY DEF Surjection
<1>3. IsFiniteSet(sims) /\ sims # {} /\ sims \subseteq Int
  <2>1. sims # {} /\ sims \subseteq Int
    BY QueryFacts
  <2>2. IsFiniteSet(places)
    BY QueryFacts
  <2> HIDE DEF places, sims
  <2> QED
    BY <1>2, <2>1, <2>2, FS_Surjection
<1>4. Max(sims) \in sims /\ \A y \in sims : Max(sims) >= y
  <2> HIDE DEF sims
  <2> QED
    BY <1>3, MaxFacts
<1> QED
  BY <1>1, <1>3, <1>4

\* What a search by vectors lists.
LEMMA NearestFacts ==
  ASSUME sim.query \in Queried, NEW hits \in SearchResults,
         NEW T \in TopOf(merge_matches(hits), LAMBDA m : m.similarity, SimilarTop)
  PROVE  /\ \A m \in T : /\ m.row \in VectorRows /\ m.similarity \in Int /\ Shown(m.row)
                         /\ m = [row |-> m.row, similarity |-> m.similarity]
                         /\ m.similarity = BestSim(m.row)
         /\ \A r \in VectorRows, m \in T :
              Shown(r) /\ BestSim(r) > m.similarity => \E n \in T : n.row = r
<1>1. /\ T \in SUBSET merge_matches(hits)
      /\ Cardinality(T) = Min({SimilarTop, Cardinality(merge_matches(hits))})
      /\ \A x \in T, y \in merge_matches(hits) \ T : x.similarity >= y.similarity
  BY DEF TopOf
<1>2. ASSUME NEW m \in T
      PROVE  /\ m.row \in VectorRows /\ m.similarity \in Int /\ Shown(m.row) /\ m.similarity >= MinSim
             /\ m = [row |-> m.row, similarity |-> m.similarity] /\ DOMAIN sim.query # {}
             /\ m.similarity = BestSim(m.row)
  <2>1. PICK x \in VectorRows : /\ \E i \in DOMAIN sim.query : x \in hits[i]
                                /\ m = [row |-> x, similarity |-> Max(Seen(hits, x))]
    BY <1>1, MergedFacts
  <2>2. m.row = x /\ m.similarity = Max(Seen(hits, x))
    BY <2>1
  <2>3. PICK j \in DOMAIN sim.query : x \in hits[j] /\ m.similarity = Similarity(j, x)
    BY <2>1, <2>2, SeenFacts
  <2>4. Shown(x) /\ m.similarity >= MinSim /\ m.similarity \in Int
    BY <2>3, ResultFacts, QueryFacts
  <2>5. PICK i \in DOMAIN sim.query : BestSim(x) = Similarity(i, x)
    BY <2>3, BestFacts
  <2>6. BestSim(x) >= m.similarity /\ BestSim(x) \in Int
    BY <2>3, BestFacts
  <2>7. ASSUME BestSim(x) > m.similarity PROVE FALSE
    <3>1. Similarity(i, x) > m.similarity /\ Similarity(i, x) >= MinSim
      BY <2>4, <2>5, <2>6, <2>7, QueryFacts
    <3>2. x \in hits[i]
      BY <1>1, <2>4, <3>1, Crowd
    <3>3. m.similarity >= Similarity(i, x)
      BY <2>2, <3>2, SeenFacts
    <3> QED
      BY <3>1, <3>3, <2>4, QueryFacts
  <2>8. BestSim(x) = m.similarity
    BY <2>4, <2>6, <2>7
  <2> QED
    BY <2>1, <2>2, <2>3, <2>4, <2>8
<1>3. ASSUME NEW r \in VectorRows, NEW m \in T, Shown(r), BestSim(r) > m.similarity
      PROVE  \E n \in T : n.row = r
  <2>1. PICK i \in DOMAIN sim.query : BestSim(r) = Similarity(i, r)
    BY <1>2, BestFacts
  <2>2. Similarity(i, r) > m.similarity /\ Similarity(i, r) >= MinSim
    BY <1>2, <1>3, <2>1, QueryFacts
  <2>3. [row |-> r, similarity |-> Max(Seen(hits, r))] \in T
    BY <1>1, <1>3, <2>2, Crowd
  <2> QED
    BY <2>3
<1> QED
  BY <1>2, <1>3

CrossValues == {cross_scope(c, w) : c \in Callers, w \in {"yes", "no", "unset"}}

FoundRows == VectorRows \cup {[scope |-> l.scope, fp |-> l.fp] : l \in AskRows}

Searches ==
  [pc : {"semantic", "fingerprint", "done"}, caller : Callers, wants : {"yes", "no", "unset"},
   cross : CrossValues, query : Queried, mode : {"semantic", "fingerprint"},
   matches : SUBSET [row : FoundRows, similarity : Int], failed : BOOLEAN]

\* One query is under way at a time; a search knows the visibility it was given,
\* and what it lists may be shown.
SimInv ==
  /\ sim = Quiet \/ ask = Quiet
  /\ sim = Quiet \/ (sim \in Searches /\ sim.cross = cross_scope(sim.caller, sim.wants))
  /\ sim.pc \in {"semantic", "fingerprint"} => sim.mode = "fingerprint" /\ sim.matches = {}
  /\ sim.pc = "done" => \A m \in sim.matches : Shown(m.row)
  /\ NearestAreListed /\ FallbackFinds

LEMMA SimStart == RetrievalInit => SimInv
BY DEF RetrievalInit, SimInv, Quiet, NearestAreListed, FallbackFinds

\* The last four fields of a search decide what is claimed of it.
LEMMA SearchStands ==
  ASSUME SimInv, UNCHANGED <<lines, sim>>, sim = Quiet \/ ask' = Quiet
  PROVE  SimInv'
<1>1. (\A r : Shown(r)' <=> Shown(r)) /\ (\A r : BestSim(r)' = BestSim(r))
  BY DEF Shown, BestSim
<1>2. NearestAreListed'
  BY <1>1 DEF SimInv, NearestAreListed
<1>3. FallbackFinds'
  BY DEF SimInv, FallbackFinds
<1>4. Quiet' = Quiet
  BY DEF Quiet
<1> QED
  BY <1>1, <1>2, <1>3, <1>4 DEF SimInv

LEMMA AskKeepsSim ==
  ASSUME SimInv, ask # Quiet, UNCHANGED sim
  PROVE  SimInv'
<1>1. sim = Quiet /\ sim' = Quiet
  BY DEF SimInv
<1> QED
  BY <1>1 DEF SimInv, NearestAreListed, FallbackFinds, Quiet

\* A search under way.
LEMMA Searching ==
  ASSUME SimInv, sim.pc \in {"semantic", "fingerprint"}
  PROVE  /\ sim \in Searches /\ sim.cross = cross_scope(sim.caller, sim.wants) /\ ask = Quiet
         /\ sim.mode = "fingerprint" /\ sim.matches = {}
BY DEF SimInv, Quiet

LEMMA BeginSimilarStep ==
  ASSUME SimInv, NEW c \in Callers, NEW w \in {"yes", "no", "unset"}, NEW query \in Queried,
         BeginSimilar(c, w, query)
  PROVE  SimInv'
<1>1. /\ ask' = Quiet /\ sim'.pc \in {"done", "semantic"} /\ sim'.matches = {} /\ sim'.mode = "fingerprint"
      /\ sim'.query = query /\ sim'.cross = cross_scope(sim'.caller, sim'.wants)
      /\ sim'.pc = "done" => query = <<>>
  BY DEF BeginSimilar
<1>2. cross_scope(c, w) \in CrossValues
  BY DEF CrossValues
<1>3. sim' \in Searches
  BY <1>2 DEF BeginSimilar, Searches
<1>4. sim'.pc = "done" => QueryFps(sim'.query) = {}
  BY <1>1 DEF QueryFps
<1>5. NearestAreListed' /\ FallbackFinds'
  BY <1>1, <1>4 DEF NearestAreListed, FallbackFinds
<1> QED
  BY <1>1, <1>3, <1>5 DEF SimInv

LEMMA SimilarSemanticStep ==
  ASSUME SimInv, NEW o, SimilarSemantic(o)
  PROVE  SimInv'
<1>1. sim.pc = "semantic" /\ UNCHANGED <<lines, ask>>
  BY DEF SimilarSemantic
<1>2. /\ sim \in Searches /\ sim.cross = cross_scope(sim.caller, sim.wants) /\ ask' = Quiet
      /\ sim.mode = "fingerprint" /\ sim.matches = {}
  BY <1>1, Searching
<1>3. CASE sim' = [sim EXCEPT !.pc = "fingerprint"]
  <2>1. sim' \in Searches /\ sim'.pc = "fingerprint" /\ sim'.mode = "fingerprint" /\ sim'.matches = {}
        /\ sim'.cross = cross_scope(sim'.caller, sim'.wants)
    BY <1>2, <1>3 DEF Searches
  <2>2. NearestAreListed' /\ FallbackFinds'
    BY <2>1 DEF NearestAreListed, FallbackFinds
  <2> QED
    BY <1>2, <2>1, <2>2 DEF SimInv
<1>4. CASE sim' = [sim EXCEPT !.pc = "done", !.failed = TRUE]
  <2>1. sim' \in Searches /\ sim'.pc = "done" /\ sim'.mode = "fingerprint" /\ sim'.matches = {} /\ sim'.failed
        /\ sim'.cross = cross_scope(sim'.caller, sim'.wants)
    BY <1>2, <1>4 DEF Searches
  <2>2. NearestAreListed' /\ FallbackFinds'
    BY <2>1 DEF NearestAreListed, FallbackFinds
  <2> QED
    BY <1>2, <2>1, <2>2 DEF SimInv
<1>5. ASSUME NEW hits \in SearchResults,
             NEW T \in TopOf(merge_matches(hits), LAMBDA m : m.similarity, SimilarTop), T # {},
             sim' = [sim EXCEPT !.pc = "done", !.mode = "semantic", !.matches = T]
      PROVE  SimInv'
  <2>1. sim.query \in Queried
    BY <1>2 DEF Searches
  <2>2. /\ \A m \in T : /\ m.row \in VectorRows /\ m.similarity \in Int /\ Shown(m.row)
                        /\ m = [row |-> m.row, similarity |-> m.similarity]
                        /\ m.similarity = BestSim(m.row)
        /\ \A r \in VectorRows, m \in T : Shown(r) /\ BestSim(r) > m.similarity => \E n \in T : n.row = r
    BY <2>1, NearestFacts
  <2>3. T \in SUBSET [row : FoundRows, similarity : Int]
    BY <2>2 DEF FoundRows
  <2>4. /\ sim' \in Searches /\ sim'.pc = "done" /\ sim'.mode = "semantic" /\ sim'.matches = T
        /\ sim'.query = sim.query /\ sim'.caller = sim.caller /\ sim'.cross = sim.cross /\ sim'.wants = sim.wants
    BY <1>2, <1>5, <2>3 DEF Searches
  <2>5. (\A r : Shown(r)' <=> Shown(r)) /\ (\A r : BestSim(r)' = BestSim(r))
    BY <2>4 DEF Shown, BestSim
  <2>6. NearestAreListed'
    BY <2>2, <2>4, <2>5 DEF NearestAreListed, Shown
  <2>7. FallbackFinds'
    BY <1>5, <2>4 DEF FallbackFinds
  <2> QED
    BY <1>2, <2>2, <2>4, <2>5, <2>6, <2>7 DEF SimInv
<1> QED
  BY <1>3, <1>4, <1>5 DEF SimilarSemantic

LEMMA SimilarFingerprintStep ==
  ASSUME SimInv, AskInv, SimilarFingerprint
  PROVE  SimInv'
<1>1. sim.pc = "fingerprint" /\ UNCHANGED <<lines, ask>>
  BY DEF SimilarFingerprint
<1>2. /\ sim \in Searches /\ sim.cross = cross_scope(sim.caller, sim.wants) /\ ask' = Quiet
      /\ sim.mode = "fingerprint" /\ sim.matches = {}
  BY <1>1, Searching
<1> DEFINE stored == ByFingerprint(VectorRows)
           found == IF stored # {} THEN stored ELSE log_entry_pairs
<1>3. PICK T \in SUBSET found :
        /\ Cardinality(T) = Min({SimilarTop, Cardinality(found)})
        /\ sim' = [sim EXCEPT !.pc = "done", !.matches = {[row |-> r, similarity |-> 1000] : r \in T}]
  BY DEF SimilarFingerprint, TopOf
<1>4. lines \in SUBSET AskRows
  BY DEF AskInv
<1>5. found \in SUBSET FoundRows /\ \A r \in found : Shown(r)
  BY <1>4 DEF ByFingerprint, log_entry_pairs, FoundRows, Shown
<1>6. IsFiniteSet(FoundRows)
  <2> DEFINE pairs == {[scope |-> l.scope, fp |-> l.fp] : l \in AskRows}
  <2>1. [l \in AskRows |-> [scope |-> l.scope, fp |-> l.fp]] \in Surjection(AskRows, pairs)
    BY DEF Surjection
  <2>2. IsFiniteSet(pairs)
    <3> HIDE DEF pairs
    <3> QED
      BY <2>1, FS_Surjection, RetrievalConstants
  <2>3. FoundRows = VectorRows \cup pairs
    BY DEF FoundRows
  <2> HIDE DEF pairs
  <2> QED
    BY <2>2, <2>3, FS_Union, RetrievalConstants
<1>7. IsFiniteSet(found)
  <2> HIDE DEF found
  <2> QED
    BY <1>5, <1>6, FS_Subset
<1>8. T = {} => found = {}
  <2> HIDE DEF found
  <2> QED
    BY <1>3, <1>7, CutFacts, RetrievalConstants
<1> DEFINE cards == {[row |-> r, similarity |-> 1000] : r \in T}
<1>9. cards \in SUBSET [row : FoundRows, similarity : Int] /\ \A m \in cards : Shown(m.row)
  BY <1>3, <1>5
<1>10. cards = {} => found = {}
  <2> HIDE DEF found
  <2>1. \A r \in T : [row |-> r, similarity |-> 1000] \in cards
    OBVIOUS
  <2> HIDE DEF cards
  <2> QED
    BY <1>8, <2>1
<1>11. /\ sim' \in Searches /\ sim'.pc = "done" /\ sim'.mode = "fingerprint" /\ sim'.matches = cards
       /\ sim'.query = sim.query /\ sim'.caller = sim.caller /\ sim'.cross = sim.cross /\ sim'.wants = sim.wants
  <2> HIDE DEF cards
  <2>1. sim' = [sim EXCEPT !.pc = "done", !.matches = cards]
    BY <1>3 DEF cards
  <2> QED
    BY <1>2, <1>9, <2>1 DEF Searches
<1>12. \A r : Shown(r)' <=> Shown(r)
  BY <1>11 DEF Shown
<1>13. NearestAreListed'
  BY <1>11 DEF NearestAreListed
<1>14. ASSUME sim.cross, NEW l \in lines, l.fp \in QueryFps(sim.query), l.scope # sim.caller.scope
       PROVE  cards # {}
  <2>1. [scope |-> l.scope, fp |-> l.fp] \in log_entry_pairs
    BY <1>14 DEF log_entry_pairs, ByFingerprint, visible
  <2> QED
    BY <2>1, <1>10
<1>15. FallbackFinds'
  <2> HIDE DEF cards
  <2> QED
    BY <1>1, <1>11, <1>14 DEF FallbackFinds
<1> QED
  <2> HIDE DEF cards
  <2> QED
    BY <1>2, <1>9, <1>11, <1>12, <1>13, <1>15 DEF SimInv

LEMMA SimStep == AskInv /\ SimInv /\ [RetrievalNext]_retrievalVars => SimInv'
<1> SUFFICES ASSUME AskInv, SimInv, [RetrievalNext]_retrievalVars PROVE SimInv'
  OBVIOUS
<1>1. CASE UNCHANGED retrievalVars
  BY <1>1, SearchStands DEF retrievalVars, SimInv
<1>2. CASE \/ \E r \in AskRows : CommitAskLine(r)
           \/ \E o \in {"hits", "none", "unavailable", "sqlerror"} : AskSemantic(o)
           \/ AskRaises \/ AskKeyword \/ AskFallback
           \/ \E said \in BOOLEAN : AnswerAsk(said)
  <2>1. ask.pc # "idle" /\ UNCHANGED sim
    BY <1>2 DEF CommitAskLine, AskSemantic, AskRaises, AskKeyword, AskFallback, AnswerAsk
  <2>2. ask # Quiet
    BY <2>1 DEF Quiet
  <2> QED
    BY <2>1, <2>2, AskKeepsSim
<1>3. CASE \E q \in Questions : BeginAsk(q)
  BY <1>3, SearchStands DEF BeginAsk
<1> QED
  BY <1>1, <1>2, <1>3, BeginSimilarStep, SimilarSemanticStep, SimilarFingerprintStep DEF RetrievalNext

LEMMA SimMeans == SimInv => MatchesStayInScope /\ NearestAreListed /\ FallbackFinds
<1> SUFFICES ASSUME SimInv, sim.pc = "done" PROVE MatchesStayInScope
  BY DEF SimInv, MatchesStayInScope
<1>1. sim.cross = cross_scope(sim.caller, sim.wants) /\ \A m \in sim.matches : Shown(m.row)
  BY DEF SimInv, Quiet
<1>2. (Pinned(sim.caller) \/ (sim.caller.auth /\ sim.caller.role # "admin" /\ sim.wants # "yes")) => ~sim.cross
  BY <1>1 DEF Pinned, cross_scope
<1> QED
  BY <1>1, <1>2 DEF MatchesStayInScope, Shown, visible

\* Whatever step of the fallback chain found it, what a retrieval query shows was
\* asked for, may be shown to the caller and is the nearest there is, and a
\* question is told of no activity only in a quiet window (answer_question,
\* find_similar_incidents).
THEOREM RetrievalRight == RetrievalSpec => []RetrievalKeepsToTheQuestion
<1>1. RetrievalInit => AskInv /\ SimInv
  BY AskStart, SimStart
<1>2. AskInv /\ SimInv /\ [RetrievalNext]_retrievalVars => AskInv' /\ SimInv'
  BY AskStep, SimStep
<1>3. AskInv /\ SimInv => RetrievalKeepsToTheQuestion
  BY AskMeans, SimMeans DEF RetrievalKeepsToTheQuestion
<1> QED
  BY <1>1, <1>2, <1>3, PTL DEF RetrievalSpec
-----------------------------------------------------------------------------
(***************************************************************************)
(* The evaluation harness: what an explanation is, and what is made of it. *)
(***************************************************************************)
\* The services of a cluster, cards: nonempty when the cluster has one.
LEMMA Listed ==
  ASSUME NEW S \in SUBSET CaseServices
  PROVE  /\ SetToSeq(S) \in Seq(CaseServices) /\ ToSet(SetToSeq(S)) \subseteq S
         /\ S # {} => SetToSeq(S) # <<>>
<1>1. IsFiniteSet(S)
  BY EvalConstants, FS_Subset
<1>2. Cardinality(S) \in Nat /\ ExistsBijection(1 .. Cardinality(S), S)
  BY <1>1, FS_CardinalityType
<1>3. \E f \in [1 .. Cardinality(S) -> S] : IsInjective(f)
  BY <1>2 DEF ExistsBijection, Bijection, Injection, IsInjective
<1>4. SetToSeq(S) \in [1 .. Cardinality(S) -> S]
  BY <1>3 DEF SetToSeq
<1>5. S # {} => Cardinality(S) # 0
  BY <1>1, FS_EmptySet
<1> HIDE DEF SetToSeq
<1>6. SetToSeq(S) \in Seq(S) /\ Len(SetToSeq(S)) = Cardinality(S)
  BY <1>2, <1>4
<1> QED
  BY <1>5, <1>6 DEF ToSet

\* What the scorers rely on: the ranking's pick is its head, a cards cluster has a
\* service, and what is presented was generated.
Scorable(r) ==
  /\ r.candidates \in Seq(CaseServices) /\ r.primary \in Seq(CaseServices) \cup {Nothing}
  /\ r.primary # <<>>
  /\ r.candidates = <<>> => r.predicted = Nothing
  /\ r.candidates # <<>> => r.predicted = Head(r.candidates)
  /\ ToSet(r.candidates) \subseteq r.generated
  /\ r.candidates = <<>> /\ r.primary # Nothing => ToSet(r.primary) \subseteq r.generated

\* The lines of a case that loads, what its scope held before them, and where those
\* that were not inserted are.
LEMMA CaseLines ==
  ASSUME load_cases, \A x \in store : \E f \in DOMAIN FileLines : x.line \in FileLines[f], NEW c \in Cases
  PROVE  /\ Inserted(c) \subseteq FileLines[corpus[c].logs] /\ corpus[c].logs \in DOMAIN FileLines
         /\ \A l \in SeenBefore(c) \cup Inserted(c) : l.svc \in CaseServices
         /\ FileLines[corpus[c].logs] \ Inserted(c) \subseteq SeenBefore(c)
<1>1. \A d \in Cases : corpus[d].logs \in DOMAIN FileLines
  BY DEF load_cases, load_case
<1>2. \A f \in DOMAIN FileLines : \A l \in FileLines[f] : l.svc \in CaseServices
  BY EvalConstants
<1>3. \A l \in SeenBefore(c) : l.svc \in CaseServices
  BY <1>1, <1>2 DEF SeenBefore
<1>4. Inserted(c) = FileLines[corpus[c].logs] \ SeenBefore(c)
  BY DEF Inserted
<1> QED
  BY <1>1, <1>2, <1>3, <1>4

\* A ranking is cut to a nonempty prefix.
LEMMA HitsKept ==
  ASSUME NEW ranked \in Seq(CaseServices), NEW candidates,
         candidates = SubSeq(ranked, 1, IF Len(ranked) < TopK THEN Len(ranked) ELSE TopK)
  PROVE  /\ candidates \in Seq(CaseServices) /\ ToSet(candidates) \subseteq ToSet(ranked)
         /\ ranked = <<>> <=> candidates = <<>>
         /\ ranked # <<>> => Head(candidates) = Head(ranked) /\ Head(ranked) \in CaseServices
<1>1. TopK \in Nat \ {0}
  BY EvalConstants
<1>2. PICK k \in Nat : /\ k <= Len(ranked) /\ (ranked # <<>> => k > 0) /\ candidates = SubSeq(ranked, 1, k)
  BY <1>1
<1>3. /\ candidates \in Seq(CaseServices) /\ Len(candidates) = k
      /\ \A i \in 1 .. k : candidates[i] = ranked[i]
  <2>1. \A i \in 1 .. k : ranked[i] \in CaseServices
    BY <1>2
  <2>2. 1 \in Int /\ k \in Int
    OBVIOUS
  <2>3. /\ SubSeq(ranked, 1, k) \in Seq(CaseServices)
        /\ Len(SubSeq(ranked, 1, k)) = IF 1 <= k THEN k - 1 + 1 ELSE 0
        /\ \A i \in 1 .. k - 1 + 1 : SubSeq(ranked, 1, k)[i] = ranked[1 + i - 1]
    BY <2>1, <2>2, SubSeqProperties
  <2>4. candidates = SubSeq(ranked, 1, k)
    BY <1>2
  <2>5. (IF 1 <= k THEN k - 1 + 1 ELSE 0) = k
    OBVIOUS
  <2>6. \A i \in 1 .. k : i \in 1 .. k - 1 + 1 /\ 1 + i - 1 = i
    OBVIOUS
  <2>7. candidates \in Seq(CaseServices) /\ Len(candidates) = k
    BY <2>3, <2>4, <2>5, Zenon
  <2>8. \A i \in 1 .. k : candidates[i] = ranked[i]
    BY <2>3, <2>4, <2>6, Zenon
  <2> QED
    BY <2>7, <2>8
<1> QED
  BY <1>2, <1>3 DEF ToSet

\* Of clusters that were kept some are significant, and the primary one is among them.
LEMMA PoolFacts ==
  ASSUME NEW kept, NEW read
  PROVE  /\ significant_of(kept, read) \subseteq kept
         /\ primary_pool(significant_of(kept, read), read) \subseteq significant_of(kept, read)
         /\ kept # {} => primary_pool(significant_of(kept, read), read) # {}
<1>1. /\ significant_of(kept, read) \subseteq kept
      /\ kept # {} => significant_of(kept, read) # {}
  BY DEF significant_of
<1> HIDE DEF significant_of
<1> QED
  BY <1>1 DEF primary_pool

LEMMA ExplainScorable ==
  ASSUME load_cases, NEW c \in Cases, NEW k \in Clusterings, NEW ranker \in Rankers,
         \A x \in store : \E f \in DOMAIN FileLines : x.line \in FileLines[f]
  PROVE  /\ Scorable(explain_window(c, k, ranker))
         /\ explain_window(c, k, ranker).primary = Nothing => CaseLinesIn(Inserted(c), corpus[c]) = {}
<1> DEFINE r == explain_window(c, k, ranker)
           read == CaseLinesIn(Inserted(c), corpus[c])
           F == {l.fp : l \in read}
           kept == k.keep[F]
           significant == significant_of(kept, read)
           pool == primary_pool(significant, read)
           first == k.pick[pool]
           of(f) == Services({l \in read : l.fp = f})
           all == Services(CaseLinesIn(SeenBefore(c) \cup Inserted(c), corpus[c]))
           ranked == ranker[all]
<1>1. /\ r.primary = IF kept = {} THEN Nothing ELSE SetToSeq(of(first))
      /\ r.candidates = SubSeq(ranked, 1, IF Len(ranked) < TopK THEN Len(ranked) ELSE TopK)
      /\ r.predicted = IF ranked = <<>> THEN Nothing ELSE Head(ranked)
      /\ r.generated = IF ranked = <<>> THEN UNION {of(f) : f \in significant} ELSE ToSet(ranked)
  BY Zenon DEF explain_window
<1>2. read \subseteq FileLines[corpus[c].logs] /\ corpus[c].logs \in DOMAIN FileLines
  BY CaseLines DEF CaseLinesIn
<1>3. \A l \in read : l.svc \in CaseServices
  BY CaseLines DEF CaseLinesIn
<1>4. all \subseteq CaseServices
  BY CaseLines DEF CaseLinesIn, Services
<1>5. /\ significant \subseteq kept /\ pool \subseteq significant
      /\ kept # {} => pool # {}
  <2> HIDE DEF kept, read
  <2> QED
    BY PoolFacts
<1> HIDE DEF read
<1>6. \A G \in SUBSET F : k.keep[G] \subseteq G /\ (G # {} => k.keep[G] # {} /\ k.pick[G] \in G)
  <2>1. F \in SUBSET UNION {{l.fp : l \in FileLines[f]} : f \in DOMAIN FileLines}
    BY <1>2
  <2> HIDE DEF F
  <2> QED
    BY <2>1, EvalConstants
<1>7. read # {} => F # {}
  OBVIOUS
<1>8. \A f \in F : of(f) \in SUBSET CaseServices /\ of(f) # {}
  BY <1>3 DEF Services
<1>9. ranked \in Seq(CaseServices)
  <2> HIDE DEF all
  <2> QED
    BY <1>4, EvalConstants
<1>10. Nothing \notin Seq(CaseServices) /\ Nothing \notin CaseServices
  BY EvalConstants
<1> HIDE DEF r, F, kept, significant, pool, of, all, ranked
<1>11. kept \subseteq F /\ (kept = {} => read = {})
  BY <1>6, <1>7 DEF kept
<1>12. kept # {} => first \in significant /\ first \in F
  BY <1>5, <1>6, <1>11
<1> HIDE DEF first
<1>13. kept # {} => /\ r.primary \in Seq(CaseServices) /\ r.primary # <<>>
                     /\ ToSet(r.primary) \subseteq of(first)
  BY <1>1, <1>8, <1>12, Listed
<1>14. <<>> \in Seq(CaseServices)
  OBVIOUS
<1>15. r.primary \in Seq(CaseServices) \cup {Nothing} /\ r.primary # <<>>
  BY <1>1, <1>10, <1>13, <1>14
<1>16. r.primary = Nothing => kept = {}
  BY <1>1, <1>10, <1>13
<1>17. /\ r.candidates \in Seq(CaseServices) /\ ToSet(r.candidates) \subseteq ToSet(ranked)
       /\ ranked = <<>> <=> r.candidates = <<>>
       /\ ranked # <<>> => Head(r.candidates) = Head(ranked) /\ Head(ranked) \in CaseServices
  BY <1>1, <1>9, HitsKept
<1>18. ToSet(r.candidates) \subseteq r.generated
  <2>1. CASE ranked = <<>>
    BY <2>1, <1>17 DEF ToSet
  <2>2. CASE ranked # <<>>
    BY <2>2, <1>1, <1>17
  <2> QED
    BY <2>1, <2>2
<1>19. r.candidates = <<>> /\ r.primary # Nothing => ToSet(r.primary) \subseteq r.generated
  BY <1>1, <1>12, <1>13, <1>17
<1> QED
  BY <1>1, <1>11, <1>15, <1>16, <1>17, <1>18, <1>19 DEF Scorable, r, read

\* How an explanation becomes a prediction, and what the second scorer reads.
LEMMA PredictionFacts ==
  ASSUME NEW r, Scorable(r)
  PROVE  LET p == prediction_from_result(r)
             f == frozen_case_result(r)
         IN /\ p.produced <=> r.candidates # <<>> \/ r.primary # Nothing
            /\ f.produced <=> p.produced
            /\ ~p.produced => r.primary = Nothing /\ p.predicted = {} /\ f.ranked = <<>>
            /\ p.produced => f.ranked # <<>> /\ p.root = Head(f.ranked) /\ p.root \in p.predicted
            /\ p.predicted \subseteq p.generated
<1> DEFINE p == prediction_from_result(r)
           f == frozen_case_result(r)
<1>1. Nothing \notin Seq(CaseServices) /\ Nothing \notin CaseServices
  BY EvalConstants
<1>2. CASE r.candidates # <<>>
  <2>1. p = [produced |-> TRUE, root |-> r.predicted, predicted |-> ToSet(r.candidates), generated |-> r.generated]
    BY <1>2 DEF prediction_from_result
  <2>2. /\ p.produced /\ p.root = r.predicted /\ p.predicted = ToSet(r.candidates)
        /\ p.generated = r.generated
    BY <2>1
  <2>3. f.ranked = r.candidates /\ (f.produced <=> r.predicted # Nothing \/ r.primary # Nothing)
    BY <1>2 DEF frozen_case_result
  <2>4. r.predicted = Head(r.candidates) /\ r.candidates \in Seq(CaseServices)
    BY <1>2 DEF Scorable
  <2>5. Head(r.candidates) \in ToSet(r.candidates) /\ Head(r.candidates) \in CaseServices
    BY <1>2, <2>4 DEF ToSet
  <2>6. ToSet(r.candidates) \subseteq r.generated
    BY DEF Scorable
  <2> HIDE DEF p, f
  <2>7. QED
    BY <1>1, <1>2, <2>2, <2>3, <2>4, <2>5, <2>6 DEF p, f
<1>3. CASE r.candidates = <<>> /\ r.primary = Nothing
  <2>1. p = [produced |-> r.primary # Nothing, root |-> FirstOf(r.primary), predicted |-> {}, generated |-> r.generated]
    BY <1>3 DEF prediction_from_result
  <2>2. ~p.produced /\ p.predicted = {}
    <3>1. p.produced = (r.primary # Nothing) /\ p.predicted = {}
      BY <2>1
    <3> HIDE DEF p
    <3> QED
      BY <1>3, <3>1, Zenon
  <2>3. f.ranked = <<>> /\ (f.produced <=> r.predicted # Nothing \/ r.primary # Nothing)
    BY <1>3 DEF frozen_case_result
  <2>4. r.predicted = Nothing
    BY <1>3 DEF Scorable
  <2> HIDE DEF p, f
  <2>5. QED
    BY <1>3, <2>2, <2>3, <2>4 DEF p, f
<1>4. CASE r.candidates = <<>> /\ r.primary # Nothing
  <2>1. p = [produced |-> r.primary # Nothing, root |-> Head(r.primary), predicted |-> ToSet(r.primary),
             generated |-> r.generated]
    BY <1>4 DEF prediction_from_result, FirstOf
  <2>2. p.produced /\ p.root = Head(r.primary) /\ p.predicted = ToSet(r.primary) /\ p.generated = r.generated
    <3>1. /\ p.produced = (r.primary # Nothing) /\ p.root = Head(r.primary)
          /\ p.predicted = ToSet(r.primary) /\ p.generated = r.generated
      BY <2>1
    <3> HIDE DEF p
    <3> QED
      BY <1>4, <3>1, Zenon
  <2>3. f.ranked = r.primary /\ (f.produced <=> r.predicted # Nothing \/ r.primary # Nothing)
    BY <1>4 DEF frozen_case_result
  <2>4. /\ r.primary \in Seq(CaseServices) /\ r.primary # <<>>
        /\ ToSet(r.primary) \subseteq r.generated
    BY <1>4 DEF Scorable
  <2>5. Head(r.primary) \in ToSet(r.primary)
    BY <2>4 DEF ToSet
  <2> HIDE DEF p, f
  <2>6. QED
    BY <1>4, <2>2, <2>3, <2>4, <2>5 DEF p, f
<1> QED
  BY <1>2, <1>3, <1>4

\* The failure bucket of a case says what the accuracy says.
LEMMA BucketFacts ==
  ASSUME NEW doc, NEW p
  PROVE  /\ classify_failure(doc, p) = "correct" <=> p.produced /\ p.root = doc.cause
         /\ classify_failure(doc, p) = "detection" <=> ~p.produced
         /\ classify_failure(doc, p) = "coverage" => p.produced /\ doc.cause \notin p.generated
<1>1. CASE ~p.produced
  BY <1>1 DEF classify_failure
<1>2. CASE p.produced /\ p.root = doc.cause
  BY <1>2 DEF classify_failure
<1>3. CASE p.produced /\ p.root # doc.cause /\ doc.cause \in p.generated
  BY <1>3 DEF classify_failure
<1>4. CASE p.produced /\ p.root # doc.cause /\ doc.cause \notin p.generated
  BY <1>4 DEF classify_failure
<1> QED
  BY <1>1, <1>2, <1>3, <1>4

\* The two scorers agree on explanations that can be scored.
Agreement(docs, result) ==
  LET pred == [c \in DOMAIN docs |-> prediction_from_result(result[c])]
      mine == build_report(docs, pred, pred)
      theirs == score_frozen(docs, [c \in DOMAIN docs |-> frozen_case_result(result[c])])
  IN /\ theirs.top1 = {c \in DOMAIN mine.bucket : mine.bucket[c] = "correct"}
     /\ theirs.abstained = mine.raglogs.abstained

LEMMA ReportFacts ==
  ASSUME NEW docs, NEW pred, NEW base
  PROVE  LET out == build_report(docs, pred, base)
         IN /\ DOMAIN out.bucket = Positive(docs) /\ Positive(docs) \subseteq DOMAIN docs
            /\ \A c \in Positive(docs) : out.bucket[c] = classify_failure(docs[c], pred[c]) /\ docs[c].cause # Nothing
            /\ out.raglogs.hit = {c \in DOMAIN docs : docs[c].cause # Nothing /\ docs[c].cause \in pred[c].predicted}
            /\ out.raglogs.abstained = {c \in Negative(docs) : ~pred[c].produced}
  BY DEF build_report, score_arm, Positive

LEMMA ScorersMatch ==
  ASSUME NEW docs, NEW result, \A c \in DOMAIN docs : Scorable(result[c])
  PROVE  Agreement(docs, result)
<1> DEFINE pred == [c \in DOMAIN docs |-> prediction_from_result(result[c])]
           res == [c \in DOMAIN docs |-> frozen_case_result(result[c])]
           mine == build_report(docs, pred, pred)
           theirs == score_frozen(docs, res)
<1>1. /\ DOMAIN mine.bucket = Positive(docs) /\ Positive(docs) \subseteq DOMAIN docs
      /\ \A c \in Positive(docs) : mine.bucket[c] = classify_failure(docs[c], pred[c])
      /\ mine.raglogs.abstained = {c \in Negative(docs) : ~pred[c].produced}
  <2> HIDE DEF pred
  <2> QED
    BY ReportFacts
<1>2. /\ theirs.top1 = {c \in Positive(docs) : res[c].ranked # <<>> /\ Head(res[c].ranked) = docs[c].cause}
      /\ theirs.abstained = {c \in Negative(docs) : ~res[c].produced}
  BY DEF score_frozen
<1>3. ASSUME NEW c \in DOMAIN docs
      PROVE  /\ res[c].produced <=> pred[c].produced
             /\ ~pred[c].produced => res[c].ranked = <<>>
             /\ pred[c].produced => res[c].ranked # <<>> /\ pred[c].root = Head(res[c].ranked)
  <2>1. pred[c] = prediction_from_result(result[c]) /\ res[c] = frozen_case_result(result[c])
    OBVIOUS
  <2> HIDE DEF pred, res
  <2> QED
    BY <2>1, PredictionFacts
<1>4. Negative(docs) \subseteq DOMAIN docs
  BY DEF Negative
<1> HIDE DEF pred, res, mine, theirs
<1>5. ASSUME NEW c \in Positive(docs)
      PROVE  mine.bucket[c] = "correct" <=> res[c].ranked # <<>> /\ Head(res[c].ranked) = docs[c].cause
  <2>1. mine.bucket[c] = "correct" <=> pred[c].produced /\ pred[c].root = docs[c].cause
    BY <1>1, BucketFacts
  <2> QED
    BY <1>1, <1>3, <2>1
<1>6. theirs.top1 = {c \in DOMAIN mine.bucket : mine.bucket[c] = "correct"}
  BY <1>1, <1>2, <1>5
<1>7. theirs.abstained = mine.raglogs.abstained
  BY <1>1, <1>2, <1>3, <1>4
<1> QED
  BY <1>6, <1>7 DEF Agreement, pred, res, mine, theirs
-----------------------------------------------------------------------------
(***************************************************************************)
(* The evaluation harness: the inductive invariant.                        *)
(***************************************************************************)
\* What split.yaml holds: the cases of the corpus at the seal, parted by what was
\* held out, and the TEST cases' content.
SealStands ==
  /\ split.test = {c \in CaseIds : split.of[c] # Nothing /\ held_out(split.of[c], split.hold)}
  /\ split.dev = {c \in CaseIds : split.of[c] # Nothing /\ ~held_out(split.of[c], split.hold)}
  /\ split.fingerprint = [c \in split.test |-> split.of[c]]

\* The scopes hold lines of log files, and only a sealed split is scored by halves.
EvalInv ==
  /\ \A x \in store : \E f \in DOMAIN FileLines : x.line \in FileLines[f]
  /\ split # Nothing => SealStands
  /\ handed # Nothing /\ handed.who \in {"dev", "test"} => split # Nothing
  /\ DevShowsNoHeldOut /\ TestIsAsSealed
  /\ AbstentionIsReal /\ BucketsExplainScore /\ ScorersAgree

\* A run stores lines of the files it read.
LEMMA StoredLines ==
  ASSUME load_cases, \A x \in store : \E f \in DOMAIN FileLines : x.line \in FileLines[f],
         NEW cmd, NEW result, NEW docs, NEW out, RunCases(cmd, result, docs, out)
  PROVE  \A x \in store' : \E f \in DOMAIN FileLines : x.line \in FileLines[f]
<1>1. \A c \in Cases : corpus[c].logs \in DOMAIN FileLines
  BY DEF load_cases, load_case
<1>2. store' = store \cup UNION {[scope : {scope_for(c)}, line : FileLines[corpus[c].logs]] : c \in Cases}
  BY DEF RunCases
<1> QED
  BY <1>1, <1>2

\* What both commands report of each case can be scored.
LEMMA RunScorable ==
  ASSUME EvalInv, load_cases, NEW k \in Clusterings, NEW ranker \in Rankers, NEW c \in Cases
  PROVE  /\ Scorable(explain_window(c, k, ranker))
         /\ explain_window(c, k, ranker).primary = Nothing => CaseLinesIn(Inserted(c), corpus[c]) = {}
  BY ExplainScorable DEF EvalInv

\* An eval report: who was found, missed and left alone.
LEMMA EvalReports ==
  ASSUME EvalInv, NEW k \in Clusterings, NEW ranker \in Rankers, EvalCmd(k, ranker)
  PROVE  (AbstentionIsReal /\ BucketsExplainScore /\ ScorersAgree)'
<1> DEFINE docs == [c \in Cases |-> corpus[c]]
           result == [c \in Cases |-> explain_window(c, k, ranker)]
           pred == [c \in Cases |-> prediction_from_result(result[c])]
           base == [c \in Cases |-> baseline_prediction(c)]
           out == build_report(docs, pred, base)
           before == [c \in Cases |-> SeenBefore(c)]
<1>1. load_cases /\ report' = [cmd |-> "eval", out |-> out, result |-> result, docs |-> docs, before |-> before]
  BY DEF EvalCmd, RunCases
<1>2. ASSUME NEW c \in Cases
      PROVE  /\ docs[c] = corpus[c] /\ Scorable(result[c]) /\ pred[c] = prediction_from_result(result[c])
             /\ before[c] = SeenBefore(c)
             /\ result[c].primary = Nothing => CaseLinesIn(Inserted(c), corpus[c]) = {}
  <2>1. result[c] = explain_window(c, k, ranker) /\ docs[c] = corpus[c] /\ before[c] = SeenBefore(c)
    OBVIOUS
  <2>2. pred[c] = prediction_from_result(result[c])
    OBVIOUS
  <2> HIDE DEF result, docs, pred, before
  <2> QED
    BY <1>1, <2>1, <2>2, RunScorable
<1>3. DOMAIN docs = Cases
  OBVIOUS
<1>4. /\ DOMAIN out.bucket = Positive(docs) /\ Positive(docs) \subseteq Cases
      /\ \A c \in Positive(docs) : out.bucket[c] = classify_failure(docs[c], pred[c]) /\ docs[c].cause # Nothing
      /\ out.raglogs.hit = {c \in Cases : docs[c].cause # Nothing /\ docs[c].cause \in pred[c].predicted}
      /\ out.raglogs.abstained = {c \in Negative(docs) : ~pred[c].produced}
  <2> HIDE DEF docs, pred, base
  <2>1. /\ DOMAIN out.bucket = Positive(docs) /\ Positive(docs) \subseteq DOMAIN docs
        /\ \A c \in Positive(docs) : out.bucket[c] = classify_failure(docs[c], pred[c]) /\ docs[c].cause # Nothing
        /\ out.raglogs.hit = {c \in DOMAIN docs : docs[c].cause # Nothing /\ docs[c].cause \in pred[c].predicted}
    BY ReportFacts
  <2>3. out.raglogs.abstained = {c \in Negative(docs) : ~pred[c].produced}
    BY ReportFacts
  <2> HIDE DEF out
  <2>2. out.raglogs.hit = {c \in Cases : docs[c].cause # Nothing /\ docs[c].cause \in pred[c].predicted}
    BY <1>3, <2>1, Zenon
  <2> QED
    BY <1>3, <2>1, <2>2, <2>3, Zenon
<1>5. Negative(docs) \subseteq Cases
  BY <1>3 DEF Negative
<1> HIDE DEF docs, result, pred, base, out, before
<1>6. AbstentionIsReal'
  <2>1. ASSUME NEW c \in Cases, ~pred[c].produced
        PROVE  CaseLinesIn(FileLines[docs[c].logs], docs[c]) \subseteq before[c]
    <3>1. CaseLinesIn(Inserted(c), corpus[c]) = {}
      BY <1>2, <2>1, PredictionFacts
    <3>2. FileLines[corpus[c].logs] \ Inserted(c) \subseteq SeenBefore(c)
      BY <1>1, CaseLines DEF EvalInv
    <3> QED
      BY <1>2, <3>1, <3>2 DEF CaseLinesIn
  <2>2. \A c \in out.raglogs.abstained : c \in Cases /\ ~pred[c].produced
    BY <1>4, <1>5
  <2>3. \A c \in Positive(docs) : out.bucket[c] = "detection" => c \in Cases /\ ~pred[c].produced
    BY <1>4, BucketFacts
  <2>4. report'.out = out /\ report'.docs = docs /\ report'.before = before
    BY <1>1
  <2> QED
    BY <1>4, <2>1, <2>2, <2>3, <2>4 DEF AbstentionIsReal
<1>7. BucketsExplainScore'
  <2>1. ASSUME NEW c \in Positive(docs)
        PROVE  /\ out.bucket[c] = "correct" => c \in out.raglogs.hit
               /\ out.bucket[c] \in {"detection", "coverage"} => c \notin out.raglogs.hit
    <3>1. /\ out.bucket[c] = "correct" => pred[c].produced /\ pred[c].root = docs[c].cause
          /\ out.bucket[c] = "detection" => ~pred[c].produced
          /\ out.bucket[c] = "coverage" => docs[c].cause \notin pred[c].generated
      BY <1>4, BucketFacts
    <3>2. /\ pred[c].produced => pred[c].root \in pred[c].predicted
          /\ ~pred[c].produced => pred[c].predicted = {}
          /\ pred[c].predicted \subseteq pred[c].generated
      BY <1>2, <1>4, PredictionFacts
    <3> QED
      BY <1>4, <3>1, <3>2
  <2>2. report'.out = out
    BY <1>1
  <2> QED
    BY <1>4, <2>1, <2>2 DEF BucketsExplainScore
<1>8. ScorersAgree'
  <2>1. Agreement(docs, result)
    BY <1>2, <1>3, ScorersMatch
  <2>2. report'.docs = docs /\ report'.result = result
    BY <1>1
  <2> QED
    BY <2>1, <2>2 DEF ScorersAgree, Agreement
<1> QED
  BY <1>6, <1>7, <1>8

\* A frozen-eval report is scored by the second scorer alone.
LEMMA FrozenReports ==
  ASSUME EvalInv, NEW k \in Clusterings, NEW ranker \in Rankers, FrozenEvalCmd(k, ranker)
  PROVE  (AbstentionIsReal /\ BucketsExplainScore /\ ScorersAgree)'
<1> DEFINE docs == [c \in Cases |-> corpus[c]]
           result == [c \in Cases |-> explain_window(c, k, ranker)]
<1>1. load_cases /\ report'.cmd = "frozen" /\ report'.result = result /\ report'.docs = docs
  BY DEF FrozenEvalCmd, RunCases
<1>2. DOMAIN docs = Cases /\ \A c \in Cases : result[c] = explain_window(c, k, ranker)
  OBVIOUS
<1> HIDE DEF docs, result
<1>3. Agreement(docs, result)
  BY <1>1, <1>2, RunScorable, ScorersMatch
<1> QED
  BY <1>1, <1>3 DEF AbstentionIsReal, BucketsExplainScore, ScorersAgree, Agreement

LEMMA EvalStart == EvalInit => EvalInv
  BY DEF EvalInit, EvalInv, DevShowsNoHeldOut, TestIsAsSealed, AbstentionIsReal, BucketsExplainScore, ScorersAgree

\* Reports stay as they are while only the corpus, the split or the look at it changes.
LEMMA ReportStays ==
  ASSUME EvalInv, UNCHANGED report
  PROVE  (AbstentionIsReal /\ BucketsExplainScore /\ ScorersAgree)'
  BY DEF EvalInv, AbstentionIsReal, BucketsExplainScore, ScorersAgree

LEMMA CaptureStep ==
  ASSUME EvalInv, NEW c \in CaseIds, NEW doc \in CaseDocs, CaptureCase(c, doc)
  PROVE  EvalInv'
<1>1. UNCHANGED <<split, handed, store, report>>
  BY DEF CaptureCase
<1> QED
  BY <1>1, ReportStays DEF EvalInv, SealStands, DevShowsNoHeldOut, TestIsAsSealed

\* The seal parts the corpus of that moment, and nobody has scored a half of it yet.
LEMMA SealStep ==
  ASSUME EvalInv, NEW hold \in HoldOuts, Seal(hold)
  PROVE  EvalInv'
<1>1. /\ split = Nothing /\ UNCHANGED <<corpus, handed, store, report>>
      /\ split' = [dev |-> make_split(hold).dev, test |-> make_split(hold).test, hold |-> hold,
                   fingerprint |-> content_fingerprint(make_split(hold).test), of |-> corpus]
  BY DEF Seal
<1>2. /\ split'.dev = make_split(hold).dev /\ split'.test = make_split(hold).test /\ split'.hold = hold
      /\ split'.fingerprint = content_fingerprint(make_split(hold).test) /\ split'.of = corpus
  BY <1>1
<1>3. /\ make_split(hold).test = {c \in CaseIds : corpus[c] # Nothing /\ held_out(corpus[c], hold)}
      /\ make_split(hold).dev = {c \in CaseIds : corpus[c] # Nothing /\ ~held_out(corpus[c], hold)}
  BY DEF make_split, Cases
<1>4. SealStands'
  <2>1. content_fingerprint(make_split(hold).test) = [c \in make_split(hold).test |-> corpus[c]]
    BY DEF content_fingerprint
  <2> QED
    BY <1>2, <1>3, <2>1 DEF SealStands
<1>5. handed' # Nothing => handed'.who \notin {"dev", "test"}
  BY <1>1 DEF EvalInv
<1> QED
  BY <1>1, <1>4, <1>5, ReportStays DEF EvalInv, DevShowsNoHeldOut, TestIsAsSealed

\* A DEV case that is held out now was not when the split was sealed.
LEMMA ScoreDevStep == ASSUME EvalInv, ScoreDev PROVE EvalInv'
<1>1. PICK who, ids : /\ Hand(who, ids)
                      /\ who = "all" \/ (who = "dev" /\ split # Nothing /\ ids = split.dev)
  BY DEF ScoreDev
<1> DEFINE given == {d \in Labelled : case_id(d) \in ids}
<1>2. /\ UNCHANGED <<corpus, split, store, report>>
      /\ handed' = [who |-> who, cases |-> [c \in given |-> corpus[c]]]
  BY <1>1 DEF Hand
<1>3. handed'.who = who /\ DOMAIN handed'.cases = given /\ \A c \in given : handed'.cases[c] = corpus[c]
  BY <1>2
<1>4. DevShowsNoHeldOut'
  <2>1. who = "dev" => \A c \in ids : ~held_out(split.of[c], split.hold)
    BY <1>1 DEF EvalInv, SealStands
  <2>2. \A c \in given : NamesAnother(c, corpus[c]) \/ c \in ids
    BY DEF NamesAnother, case_id
  <2> QED
    BY <1>1, <1>2, <1>3, <2>1, <2>2 DEF DevShowsNoHeldOut
<1>5. TestIsAsSealed'
  BY <1>1, <1>3 DEF TestIsAsSealed
<1>6. SealStands <=> SealStands'
  BY <1>2 DEF SealStands
<1> QED
  BY <1>1, <1>2, <1>3, <1>4, <1>5, <1>6, ReportStays DEF EvalInv

\* The fingerprint of the TEST cases matches, so each is as it was.
LEMMA ScoreTestStep == ASSUME EvalInv, ScoreTest PROVE EvalInv'
<1> DEFINE given == {d \in Labelled : case_id(d) \in split.test}
<1>1. /\ split # Nothing /\ load_manifest /\ UNCHANGED <<corpus, split, store, report>>
      /\ handed' = [who |-> "test", cases |-> [c \in given |-> corpus[c]]]
  BY DEF ScoreTest, Hand
<1>2. /\ handed'.who = "test" /\ DOMAIN handed'.cases = given
      /\ \A c \in given : handed'.cases[c] = corpus[c]
  BY <1>1
<1>3. SealStands
  BY <1>1 DEF EvalInv
<1>4. [c \in split.test |-> corpus[c]] = [c \in split.test |-> split.of[c]]
  BY <1>1, <1>3 DEF load_manifest, content_fingerprint, SealStands
<1>5. \A c \in split.test : corpus[c] = split.of[c]
  <2>1. \A c \in split.test : [d \in split.test |-> corpus[d]][c] = [d \in split.test |-> split.of[d]][c]
    BY <1>4
  <2> QED
    BY <2>1
<1>6. split.test \subseteq Cases
  BY <1>3, <1>5 DEF SealStands, Cases
<1>7. TestIsAsSealed'
  <2>1. \A c \in given : NamesAnother(c, corpus[c]) \/ c \in split.test
    BY DEF NamesAnother, case_id
  <2>2. ASSUME NEW c \in split.test, split.of[c].label # Nothing, ~NamesAnother(c, split.of[c])
        PROVE  c \in given
    <3>1. c \in Cases /\ corpus[c] = split.of[c]
      BY <1>5, <1>6
    <3>2. case_id(c) = c
      BY <2>2, <3>1 DEF NamesAnother, case_id
    <3> QED
      BY <2>2, <3>1, <3>2 DEF Labelled
  <2>3. \A c \in CaseIds : split.of[c] # Nothing /\ held_out(split.of[c], split.hold) => c \in split.test
    BY <1>3 DEF SealStands
  <2> HIDE DEF given
  <2> QED
    BY <1>1, <1>2, <1>5, <2>1, <2>2, <2>3 DEF TestIsAsSealed
<1>8. DevShowsNoHeldOut'
  BY <1>2 DEF DevShowsNoHeldOut
<1>9. SealStands <=> SealStands'
  BY <1>1 DEF SealStands
<1> QED
  BY <1>1, <1>7, <1>8, <1>9, ReportStays DEF EvalInv

LEMMA RunStep ==
  ASSUME EvalInv, NEW k \in Clusterings, NEW ranker \in Rankers, EvalCmd(k, ranker) \/ FrozenEvalCmd(k, ranker)
  PROVE  EvalInv'
<1>1. (AbstentionIsReal /\ BucketsExplainScore /\ ScorersAgree)'
  BY EvalReports, FrozenReports
<1>2. PICK cmd, result, docs, out : RunCases(cmd, result, docs, out)
  BY Zenon DEF EvalCmd, FrozenEvalCmd
<1>3. load_cases /\ UNCHANGED <<corpus, split, handed>>
  BY <1>2 DEF RunCases
<1>4. \A x \in store' : \E f \in DOMAIN FileLines : x.line \in FileLines[f]
  BY <1>2, <1>3, StoredLines DEF EvalInv
<1> QED
  BY <1>1, <1>3, <1>4 DEF EvalInv, SealStands, DevShowsNoHeldOut, TestIsAsSealed

LEMMA EvalStep == EvalInv /\ [EvalNext]_evalVars => EvalInv'
<1> SUFFICES ASSUME EvalInv, [EvalNext]_evalVars PROVE EvalInv'
  OBVIOUS
<1>1. CASE UNCHANGED evalVars
  BY <1>1, ReportStays DEF evalVars, EvalInv, SealStands, DevShowsNoHeldOut, TestIsAsSealed
<1>2. CASE EvalNext
  BY <1>2, CaptureStep, SealStep, ScoreDevStep, ScoreTestStep, RunStep DEF EvalNext
<1> QED
  BY <1>1, <1>2

\* The numbers the harness prints mean what they say, whatever the corpus, the
\* clusters that are kept and picked and the answers of the ranker (run_cases,
\* build_report, score_frozen, load_manifest).
THEOREM EvaluationRight == EvalSpec => []EvaluationIsHonest
<1>1. EvalInv => EvaluationIsHonest
  BY DEF EvalInv, EvaluationIsHonest
<1> QED
  BY <1>1, EvalStart, EvalStep, PTL DEF EvalSpec
(***************************************************************************)
(* Telemetry: silence proves nothing.                                      *)
(***************************************************************************)
LEMMA SilentBranches ==
  ASSUME NEW S, During(S) = {}
  PROVE  error_branch(S) = "unmeasured" /\ latency_branch(S) = "unmeasured"
<1>1. {x \in During(S) : x.status # "unset"} = {}
  OBVIOUS
<1>2. During({x \in S : x.dur >= 0}) = {}
  BY DEF During
<1> QED
  BY <1>1, <1>2 DEF error_branch, latency_branch

LEMMA SilentSeries ==
  ASSUME NEW X, During(X) = {}
  PROVE  /\ rate_series(X) = "unmeasured" /\ ratio_series(X) = "unmeasured"
         /\ \A type : _measure_series(X, type) = ""
BY DEF rate_series, ratio_series, _measure_series

LEMMA UnmeasuredSeries ==
  ASSUME NEW states, "normal" \notin states
  PROVE  over_series(states) # "normal"
BY DEF over_series

LEMMA AbsentSignal ==
  ASSUME NEW err, NEW lat, err # "normal"
  PROVE  sig_state(err, lat) # "absent"
BY DEF sig_state

LEMMA StrongestIs ==
  ASSUME NEW states
  PROVE  /\ strongest(states) = "absent" => "absent" \in states
         /\ strongest(states) = "present" <=> "present" \in states
         /\ strongest(states) = "" => "present" \notin states
BY DEF strongest

\* Rows of which none of a service's is of the incident prove nothing of it.
LEMMA SilenceProvesNothing ==
  ASSUME NEW T, NEW M, NEW s \in TeleServices,
         \A x \in T \cup M : x.svc = s => ~(x.at >= IncidentAt)
  PROVE  /\ structural_signals(T, M).signals[s] # "absent"
         /\ \A r \in Resources : structural_signals(T, M).util_signals[<<s, r>>] # "absent"
<1> DEFINE own == {x \in T : x.svc = s}
           rows(m) == {x \in M : x.svc = s /\ x.metric = m}
<1>1. During(own) = {}
  BY DEF During
<1>2. summarize_spans(T)[s] # "absent"
  <2>1. summarize_spans(T)[s] = sig_state(error_branch(own), latency_branch(own))
    BY DEF summarize_spans
  <2> QED
    BY <1>1, <2>1, SilentBranches, AbsentSignal
<1>3. \A m : \A S \in SUBSET rows(m) : During(S) = {}
  BY DEF During
<1>4. summarize_metrics(M)[s] # "absent"
  <2> DEFINE rates == {rate_series(S) : S \in SeriesOf(rows("error_rate"))}
             ratios == {ratio_series(S) : S \in SeriesOf(rows("latency_ms"))}
  <2>1. summarize_metrics(M)[s] = sig_state(over_series(rates), over_series(ratios))
    BY DEF summarize_metrics
  <2>2. \A S \in SeriesOf(rows("error_rate")) : S \in SUBSET rows("error_rate")
    BY DEF SeriesOf
  <2>3. \A S \in SeriesOf(rows("error_rate")) : rate_series(S) = "unmeasured"
    BY <1>3, <2>2, SilentSeries
  <2>4. "normal" \notin rates
    BY <2>3
  <2> HIDE DEF rates, ratios
  <2> QED
    BY <2>1, <2>4, UnmeasuredSeries, AbsentSignal
<1>5. structural_signals(T, M).signals[s] # "absent"
  <2>1. structural_signals(T, M).signals[s] = strongest({summarize_spans(T)[s], summarize_metrics(M)[s]})
    BY DEF structural_signals, combine_signals
  <2> QED
    BY <1>2, <1>4, <2>1, StrongestIs
<1>6. ASSUME NEW r \in Resources PROVE structural_signals(T, M).util_signals[<<s, r>>] # "absent"
  <2> DEFINE named == {n \in {x.metric : x \in {y \in UtilRows(M) : y.svc = s}} : util_metric_class[n].resource = r}
             state(m) == metric_state({x \in M : x.svc = s /\ x.metric = m}, util_metric_class[m].type)
  <2>1. structural_signals(T, M).util_signals[<<s, r>>] = strongest({state(m) : m \in named})
    BY DEF structural_signals, summarize_utilization
  <2>2. ASSUME NEW m PROVE state(m) # "absent"
    <3> DEFINE ty == util_metric_class[m].type
               states == instance_states(rows(m), ty)
    <3>1. state(m) = metric_state(rows(m), ty)
      OBVIOUS
    <3>2. ASSUME NEW x \in rows(m) PROVE _measure_series({y \in rows(m) : y.inst = x.inst}, ty) = ""
      <4>1. {y \in rows(m) : y.inst = x.inst} \in SUBSET rows(m)
        OBVIOUS
      <4>2. During({y \in rows(m) : y.inst = x.inst}) = {}
        BY <1>3, <4>1
      <4> QED
        BY <4>2, SilentSeries
    <3>3. "absent" \notin states
      <4> HIDE DEF ty, rows
      <4> QED
        BY <3>2 DEF instance_states
    <3> HIDE DEF states
    <3>4. metric_state(rows(m), ty) # "absent"
      BY <3>3 DEF metric_state, states
    <3> QED
      BY <3>1, <3>4
  <2> HIDE DEF state, named
  <2>3. "absent" \notin {state(m) : m \in named}
    BY <2>2
  <2> QED
    BY <2>1, <2>3, StrongestIs
<1> QED
  BY <1>5, <1>6
(***************************************************************************)
(* Telemetry: the callee of a failing operation.                           *)
(***************************************************************************)
LEMMA CallsFinite ==
  ASSUME NEW T, IsFiniteSet(T)
  PROVE  IsFiniteSet(CrossCalls(T))
<1>1. IsFiniteSet(T \X T) /\ CrossCalls(T) \subseteq T \X T
  BY FS_Product DEF CrossCalls
<1> QED
  BY <1>1, FS_Subset

\* One ERROR in at most twenty explicit statuses is anomalous.
LEMMA FewStatuses ==
  ASSUME NEW S, IsFiniteSet(During(S)), Cardinality(During(S)) <= 20,
         NEW x \in During(S), x.status = "error"
  PROVE  error_branch(S) = "hit"
<1> DEFINE explicit == {y \in During(S) : y.status # "unset"}
           failed == {y \in explicit : y.status = "error"}
<1>1. explicit \subseteq During(S) /\ failed \subseteq explicit /\ x \in failed
  OBVIOUS
<1>2. error_branch(S) = IF explicit = {} THEN "unmeasured"
                        ELSE IF 20 * Cardinality(failed) >= Cardinality(explicit) THEN "hit" ELSE "normal"
  BY DEF error_branch
<1> HIDE DEF explicit, failed
<1>3. IsFiniteSet(explicit) /\ Cardinality(explicit) <= Cardinality(During(S))
  BY <1>1, FS_Subset
<1>4. IsFiniteSet(failed)
  BY <1>1, <1>3, FS_Subset
<1>5. Cardinality(explicit) \in Nat /\ Cardinality(failed) \in Nat /\ Cardinality(During(S)) \in Nat
  BY <1>3, <1>4, FS_CardinalityType
<1>6. Cardinality(failed) # 0
  BY <1>1, <1>4, FS_EmptySet
<1>7. 20 * Cardinality(failed) >= Cardinality(explicit)
  BY <1>3, <1>5, <1>6
<1> QED
  BY <1>1, <1>2, <1>7

LEMMA HypothesisOf ==
  ASSUME NEW inp, NEW j
  PROVE  /\ j \in DOMAIN inp.edge_signals /\ inp.edge_signals[j] = "present" => j[2] \in build_hypotheses(inp)
         /\ j \in DOMAIN inp.util_signals /\ inp.util_signals[j] = "present" => j[1] \in build_hypotheses(inp)
<1> DEFINE edges == {x \in DOMAIN inp.edge_signals : inp.edge_signals[x] = "present"}
           utils == {x \in DOMAIN inp.util_signals : inp.util_signals[x] = "present"}
<1>1. {e[2] : e \in edges} \subseteq build_hypotheses(inp) /\ {k[1] : k \in utils} \subseteq build_hypotheses(inp)
  <2> DEFINE anomalous == {s \in TeleServices : inp.signals[s] = "present"}
             callees(s) == {e[2] : e \in {x \in inp.edges : x[1] = s}}
             blameless == UNION {callees(s) : s \in {t \in anomalous : callees(t) \cap anomalous = {}}}
             ends == {e[2] : e \in edges}
             hosts == {k[1] : k \in utils}
  <2>1. build_hypotheses(inp) = anomalous \cup blameless \cup ends \cup hosts
    BY DEF build_hypotheses
  <2> HIDE DEF anomalous, blameless, ends, hosts
  <2>2. ends \subseteq build_hypotheses(inp) /\ hosts \subseteq build_hypotheses(inp)
    BY <2>1
  <2> QED
    BY <2>2 DEF ends, hosts
<1>2. /\ j \in DOMAIN inp.edge_signals /\ inp.edge_signals[j] = "present" => j \in edges
      /\ j \in DOMAIN inp.util_signals /\ inp.util_signals[j] = "present" => j \in utils
  OBVIOUS
<1> HIDE DEF edges, utils
<1>3. /\ j \in edges => j[2] \in {e[2] : e \in edges}
      /\ j \in utils => j[1] \in {k[1] : k \in utils}
  OBVIOUS
<1> QED
  BY <1>1, <1>2, <1>3

LEMMA CalleeSuspected ==
  ASSUME NEW T, IsFiniteSet(T), \A y \in T : y.svc \in TeleServices, NEW M,
         NEW x \in During(T), NEW s \in TeleServices,
         x.status = "error", Cardinality(During(T)) <= 20,
         \E pc \in CrossCalls(T) : pc[1].svc = x.svc /\ pc[1].op = x.op /\ pc[2].svc = s,
         \A pc \in CrossCalls(T) : pc[1].svc = x.svc /\ pc[1].op = x.op => pc[2].svc = s
  PROVE  s \in build_hypotheses(structural_signals(T, M))
<1> DEFINE calls == {pc \in CrossCalls(learnable(T)) : pc[1].svc = x.svc /\ pc[1].op = x.op}
           to == {pc \in calls : pc[2].svc = s}
           e == <<x.svc, s>>
           spansOf == {y \in T : y.svc = e[1] /\ e[2] \in learn_call_targets(T, y.svc, y.op)}
<1>1. s \in learn_call_targets(T, x.svc, x.op)
  <2>1. to = calls /\ calls # {} /\ calls \subseteq CrossCalls(T)
    BY DEF learnable
  <2>2. s \in learn_call_targets(T, x.svc, x.op)
           <=> Cardinality(to) > 0 /\ 10 * Cardinality(to) >= 9 * Cardinality(calls)
    BY DEF learn_call_targets
  <2> HIDE DEF to, calls
  <2>3. IsFiniteSet(calls)
    BY <2>1, CallsFinite, FS_Subset
  <2>4. Cardinality(calls) \in Nat /\ Cardinality(calls) # 0
    BY <2>1, <2>3, FS_CardinalityType, FS_EmptySet
  <2> QED
    BY <2>1, <2>2, <2>4
<1>2. x \in T /\ During(spansOf) \subseteq During(T) /\ IsFiniteSet(During(T)) /\ x \in During(spansOf)
  <2>1. During(T) \subseteq T
    BY DEF During
  <2>2. x \in T /\ x \in spansOf /\ spansOf \subseteq T
    BY <2>1, <1>1
  <2> HIDE DEF spansOf
  <2>3. IsFiniteSet(During(T))
    BY <2>1, FS_Subset
  <2> QED
    BY <2>2, <2>3 DEF During
<1>3. error_branch(spansOf) = "hit"
  <2> HIDE DEF spansOf
  <2>1. IsFiniteSet(During(spansOf)) /\ Cardinality(During(spansOf)) <= Cardinality(During(T))
    BY <1>2, FS_Subset
  <2>2. Cardinality(During(spansOf)) \in Nat /\ Cardinality(During(T)) \in Nat
    BY <1>2, <2>1, FS_CardinalityType
  <2>3. Cardinality(During(spansOf)) <= 20
    BY <2>1, <2>2
  <2> QED
    BY <1>2, <2>1, <2>3, FewStatuses
<1>4. e \in DOMAIN summarize_edges(T) /\ summarize_edges(T)[e] = "present"
  <2> DEFINE of(d) == {y \in T : y.svc = d[1] /\ d[2] \in learn_call_targets(T, y.svc, y.op)}
  <2>1. summarize_edges(T)
          = [d \in {c \in TeleServices \X TeleServices : During(of(c)) # {}} |->
               sig_state(error_branch(of(d)), latency_branch(of(d)))]
    BY DEF summarize_edges
  <2>2. of(e) = spansOf /\ e \in TeleServices \X TeleServices
    BY <1>2
  <2> HIDE DEF of, spansOf, e
  <2>3. e \in {c \in TeleServices \X TeleServices : During(of(c)) # {}}
    BY <1>2, <2>2
  <2>4. summarize_edges(T)[e] = sig_state(error_branch(spansOf), latency_branch(spansOf))
    BY <2>1, <2>2, <2>3
  <2>5. \A lat : sig_state("hit", lat) = "present"
    BY DEF sig_state
  <2> QED
    BY <1>3, <2>1, <2>3, <2>4, <2>5
<1> DEFINE inp == structural_signals(T, M)
<1>5. inp.edge_signals = summarize_edges(T)
  BY DEF structural_signals
<1> HIDE DEF inp, e
<1>7. e[2] \in build_hypotheses(inp)
  BY <1>4, <1>5, HypothesisOf
<1> QED
  BY <1>7 DEF e, inp
(***************************************************************************)
(* Telemetry: what one instance proves.                                    *)
(***************************************************************************)
LEMMA HitSeries ==
  ASSUME NEW states
  PROVE  over_series(states) = "hit" <=> "hit" \in states
BY DEF over_series

LEMMA NoSpansNoSignal == \A s \in TeleServices : summarize_spans({})[s] = ""
<1> SUFFICES ASSUME NEW s \in TeleServices PROVE summarize_spans({})[s] = ""
  OBVIOUS
<1>1. {x \in {} : x.svc = s} = {} /\ During({}) = {}
  BY DEF During
<1>2. summarize_spans({})[s] = sig_state(error_branch({}), latency_branch({}))
  BY <1>1 DEF summarize_spans
<1> QED
  BY <1>1, <1>2, SilentBranches DEF sig_state

\* An anomalous error rate of one series makes a service a hypothesis.
LEMMA CalmSeries ==
  ASSUME NEW T, NEW M, NEW x \in M, x.svc \in TeleServices, x.metric = "error_rate",
         NEW alone, alone = {y \in M : y.svc = x.svc /\ y.metric = x.metric /\ series_key(y) = series_key(x)},
         structural_signals({}, alone).signals[x.svc] = "present"
  PROVE  x.svc \in build_hypotheses(structural_signals(T, M))
<1> DEFINE s == x.svc
           rows(N, m) == {y \in N : y.svc = s /\ y.metric = m}
           rates(N) == {rate_series(S) : S \in SeriesOf(rows(N, "error_rate"))}
           ratios(N) == {ratio_series(S) : S \in SeriesOf(rows(N, "latency_ms"))}
<1>1. \A N : summarize_metrics(N)[s] = sig_state(over_series(rates(N)), over_series(ratios(N)))
  BY DEF summarize_metrics
<1>2. rows(alone, "error_rate") = alone /\ rows(alone, "latency_ms") = {} /\ x \in alone
  OBVIOUS
<1>3. summarize_metrics(alone)[s] = "present"
  <2>1. structural_signals({}, alone).signals[s] = strongest({summarize_spans({})[s], summarize_metrics(alone)[s]})
    BY DEF structural_signals, combine_signals
  <2>2. "present" \in {summarize_spans({})[s], summarize_metrics(alone)[s]}
    BY <2>1, StrongestIs
  <2> QED
    BY <2>2, NoSpansNoSignal
<1>4. SeriesOf(alone) = {alone} /\ alone \in SeriesOf(rows(M, "error_rate"))
  <2>1. \A y \in alone : {z \in alone : series_key(z) = series_key(y)} = alone
    OBVIOUS
  <2>2. SeriesOf(alone) = {alone}
    BY <1>2, <2>1 DEF SeriesOf
  <2>3. x \in rows(M, "error_rate") /\ alone = {y \in rows(M, "error_rate") : series_key(y) = series_key(x)}
    OBVIOUS
  <2> HIDE DEF rows
  <2> QED
    BY <2>2, <2>3 DEF SeriesOf
<1>5. rate_series(alone) = "hit"
  <2>1. rates(alone) = {rate_series(alone)}
    <3>1. SeriesOf(rows(alone, "error_rate")) = {alone}
      BY <1>2, <1>4
    <3> HIDE DEF rows
    <3> QED
      BY <3>1
  <2>2. ratios(alone) = {}
    BY <1>2 DEF SeriesOf
  <2>3. over_series(ratios(alone)) = "unmeasured"
    BY <2>2 DEF over_series
  <2> HIDE DEF rates, ratios
  <2>4. over_series(rates(alone)) = "hit"
    BY <1>1, <1>3, <2>3 DEF sig_state
  <2> QED
    BY <2>1, <2>4, HitSeries
<1>6. summarize_metrics(M)[s] = "present"
  <2>1. "hit" \in rates(M)
    BY <1>4, <1>5
  <2> HIDE DEF rates, ratios
  <2>2. over_series(rates(M)) = "hit"
    BY <2>1, HitSeries
  <2> QED
    BY <1>1, <2>2 DEF sig_state
<1>7. structural_signals(T, M).signals[s] = "present"
  <2>1. structural_signals(T, M).signals[s] = strongest({summarize_spans(T)[s], summarize_metrics(M)[s]})
    BY DEF structural_signals, combine_signals
  <2> QED
    BY <1>6, <2>1, StrongestIs
<1> QED
  BY <1>7 DEF build_hypotheses

\* So does a saturated resource of one instance.
LEMMA CalmInstance ==
  ASSUME NEW T, NEW M, NEW x \in M, x.svc \in TeleServices, x.metric \in DOMAIN util_metric_class,
         NEW alone, alone = {y \in M : y.svc = x.svc /\ y.metric = x.metric /\ series_key(y) = series_key(x)},
         NEW whole, whole = {y \in M : y.svc = x.svc /\ y.metric = x.metric},
         NEW c, c = util_metric_class[x.metric],
         identified(whole, c.type),
         structural_signals({}, alone).util_signals[<<x.svc, c.resource>>] = "present"
  PROVE  x.svc \in build_hypotheses(structural_signals(T, M))
<1> DEFINE s == x.svc
           r == c.resource
           named(N) == {n \in {y.metric : y \in {z \in UtilRows(N) : z.svc = s}} : util_metric_class[n].resource = r}
           state(N, m) == metric_state({y \in N : y.svc = s /\ y.metric = m}, util_metric_class[m].type)
<1>1. r \in Resources
  BY DEF util_metric_class, Resources
<1>2. \A N, D : structural_signals(D, N).util_signals[<<s, r>>] = strongest({state(N, m) : m \in named(N)})
  <2>1. \A N : summarize_utilization(N)[<<s, r>>] = strongest({state(N, m) : m \in named(N)})
    BY <1>1 DEF summarize_utilization
  <2>2. \A N, D : structural_signals(D, N).util_signals = summarize_utilization(N)
    BY DEF structural_signals
  <2> HIDE DEF r, s, named, state
  <2> QED
    BY <2>1, <2>2
<1>3. named(alone) \subseteq {x.metric} /\ x.metric \in named(M)
  BY DEF UtilRows
<1>4. {y \in alone : y.svc = s /\ y.metric = x.metric} = alone /\ {y \in M : y.svc = s /\ y.metric = x.metric} = whole
  OBVIOUS
<1>5. metric_state(alone, c.type) = "present"
  <2>1. "present" \in {state(alone, m) : m \in named(alone)}
    <3> HIDE DEF state, named
    <3> QED
      BY <1>2, StrongestIs
  <2>2. state(alone, x.metric) = "present"
    BY <2>1, <1>3
  <2> QED
    BY <2>2, <1>4
<1>6. x \in alone /\ alone \subseteq whole
  OBVIOUS
<1>7. \A y \in whole : y.inst # "none" /\ y.inst # "" /\ y.mode = x.mode
  BY <1>6 DEF identified
<1>8. \A y \in whole : series_key(y) = series_key(x) <=> y.inst = x.inst
  BY <1>6, <1>7 DEF series_key
<1>9. alone = {y \in whole : y.inst = x.inst}
  BY <1>8
<1>10. _measure_series(alone, c.type) = "present"
  <2>1. "present" \in instance_states(alone, c.type)
    BY <1>5 DEF metric_state
  <2>2. PICK z \in alone : _measure_series({y \in alone : y.inst = z.inst}, c.type) = "present"
    BY <2>1 DEF instance_states
  <2>3. {y \in alone : y.inst = z.inst} = alone
    BY <1>9
  <2> QED
    BY <2>2, <2>3
<1>11. metric_state(whole, c.type) = "present"
  <2>1. "present" \in instance_states(whole, c.type)
    <3> DEFINE measured(z) == _measure_series({y \in whole : y.inst = z.inst}, c.type)
    <3>1. instance_states(whole, c.type) = {measured(z) : z \in whole}
      BY DEF instance_states
    <3>2. x \in whole /\ measured(x) = "present"
      BY <1>6, <1>9, <1>10
    <3> HIDE DEF measured
    <3> QED
      BY <3>1, <3>2
  <2> QED
    BY <2>1 DEF metric_state
<1> DEFINE inp == structural_signals(T, M)
           k == <<s, r>>
<1>12. inp.util_signals[k] = "present"
  <2>1. state(M, x.metric) = "present"
    BY <1>4, <1>11
  <2>2. "present" \in {state(M, m) : m \in named(M)}
    BY <1>3, <2>1
  <2> HIDE DEF state, named
  <2> QED
    BY <1>2, <2>2, StrongestIs
<1>13. k \in DOMAIN inp.util_signals /\ k[1] = s
  BY <1>1 DEF structural_signals, summarize_utilization
<1> HIDE DEF inp, k
<1>14. k[1] \in build_hypotheses(inp)
  BY <1>12, <1>13, HypothesisOf
<1> QED
  BY <1>13, <1>14 DEF inp
(***************************************************************************)
(* Telemetry: span ids are local to a trace.                               *)
(***************************************************************************)
\* r takes the members of A to those of B, one to one.
Matches(r, A, B) ==
  /\ \A x \in A : r[x] \in B
  /\ \A y \in B : \E x \in A : r[x] = y
  /\ \A x, y \in A : r[x] = r[y] => x = y

\* P and Q are the same part of A and of B.
SamePart(r, A, P, B, Q) == P \subseteq A /\ Q \subseteq B /\ \A x \in A : x \in P <=> r[x] \in Q

LEMMA MatchedParts ==
  ASSUME NEW A, NEW B, IsFiniteSet(A), NEW r, Matches(r, A, B), NEW P, NEW Q, SamePart(r, A, P, B, Q)
  PROVE  /\ Matches(r, P, Q) /\ IsFiniteSet(P)
         /\ Cardinality(P) = Cardinality(Q) /\ (P = {} <=> Q = {})
<1>1. Matches(r, P, Q)
  BY DEF Matches, SamePart
<1>2. IsFiniteSet(P)
  BY FS_Subset DEF SamePart
<1>3. [x \in P |-> r[x]] \in Bijection(P, Q)
  BY <1>1 DEF Matches, Bijection, Injection, Surjection, IsInjective
<1>4. Cardinality(P) = Cardinality(Q)
  BY <1>2, <1>3, FS_Bijection DEF ExistsBijection
<1> QED
  BY <1>1, <1>2, <1>4 DEF Matches

\* Spans of the same times, durations and statuses.
TimesKept(r, A) == \A x \in A : r[x].at = x.at /\ r[x].dur = x.dur /\ r[x].status = x.status

LEMMA MatchedMedian ==
  ASSUME NEW A, NEW B, IsFiniteSet(A), NEW r, Matches(r, A, B), \A x \in A : r[x].dur = x.dur
  PROVE  _median(B) = _median(A)
<1>1. Cardinality(A) = Cardinality(B)
  <2>1. SamePart(r, A, A, B, B)
    BY DEF Matches, SamePart
  <2> QED
    BY <2>1, MatchedParts
<1>2. {x.dur : x \in A} = {x.dur : x \in B}
  BY DEF Matches
<1>3. ASSUME NEW k PROVE nth_duration(B, k) = nth_duration(A, k)
  <2> DEFINE upTo(S, d) == {x \in S : x.dur <= d}
             far(S) == {d \in {x.dur : x \in S} : Cardinality(upTo(S, d)) >= k}
  <2>1. ASSUME NEW d PROVE Cardinality(upTo(A, d)) = Cardinality(upTo(B, d))
    <3>1. SamePart(r, A, upTo(A, d), B, upTo(B, d))
      BY DEF Matches, SamePart
    <3> HIDE DEF upTo
    <3> QED
      BY <3>1, MatchedParts
  <2>2. far(A) = far(B)
    <3> HIDE DEF upTo
    <3> QED
      BY <1>2, <2>1
  <2>3. nth_duration(A, k) = Min(far(A)) /\ nth_duration(B, k) = Min(far(B))
    BY DEF nth_duration
  <2> HIDE DEF far
  <2> QED
    BY <2>2, <2>3
<1> QED
  BY <1>1, <1>3 DEF _median

LEMMA MatchedBranches ==
  ASSUME NEW A, NEW B, IsFiniteSet(A), NEW r, Matches(r, A, B), TimesKept(r, A)
  PROVE  /\ error_branch(B) = error_branch(A) /\ latency_branch(B) = latency_branch(A)
         /\ During(B) = {} <=> During(A) = {}
<1> DEFINE explicit(S) == {x \in During(S) : x.status # "unset"}
           failed(S) == {x \in explicit(S) : x.status = "error"}
           lasting(S) == {x \in S : x.dur >= 0}
<1>1. During(A) = {} <=> During(B) = {}
  BY DEF Matches, TimesKept, During
<1>2. error_branch(B) = error_branch(A)
  <2>1. SamePart(r, A, explicit(A), B, explicit(B))
    BY DEF Matches, TimesKept, During, SamePart
  <2>2. SamePart(r, A, failed(A), B, failed(B))
    BY DEF Matches, TimesKept, During, SamePart
  <2>3. \A S : error_branch(S) = IF explicit(S) = {} THEN "unmeasured"
                                 ELSE IF 20 * Cardinality(failed(S)) >= Cardinality(explicit(S)) THEN "hit" ELSE "normal"
    BY DEF error_branch
  <2> HIDE DEF explicit, failed
  <2>4. Cardinality(explicit(A)) = Cardinality(explicit(B)) /\ (explicit(A) = {} <=> explicit(B) = {})
    BY <2>1, MatchedParts
  <2>5. Cardinality(failed(A)) = Cardinality(failed(B))
    BY <2>2, MatchedParts
  <2> QED
    BY <2>3, <2>4, <2>5
<1>3. latency_branch(B) = latency_branch(A)
  <2> DEFINE now(S) == During(lasting(S))
             then(S) == Before(lasting(S))
  <2>1. SamePart(r, A, now(A), B, now(B))
    BY DEF Matches, TimesKept, During, SamePart
  <2>2. SamePart(r, A, then(A), B, then(B))
    BY DEF Matches, TimesKept, Before, SamePart
  <2>3. \A S : latency_branch(S) = IF now(S) = {} \/ then(S) = {} THEN "unmeasured"
                                   ELSE IF _median(then(S)) = 0 THEN "unmeasured"
                                   ELSE IF _median(now(S)) >= 2 * _median(then(S)) THEN "hit" ELSE "normal"
    BY DEF latency_branch
  <2> HIDE DEF now, then
  <2>4. \A P \in SUBSET A : \A x \in P : r[x].dur = x.dur
    BY DEF TimesKept
  <2>5. _median(now(B)) = _median(now(A)) /\ (now(A) = {} <=> now(B) = {})
    <3>1. Matches(r, now(A), now(B)) /\ IsFiniteSet(now(A)) /\ (now(A) = {} <=> now(B) = {})
      BY <2>1, MatchedParts
    <3> QED
      BY <2>1, <2>4, <3>1, MatchedMedian DEF SamePart
  <2>6. _median(then(B)) = _median(then(A)) /\ (then(A) = {} <=> then(B) = {})
    <3>1. Matches(r, then(A), then(B)) /\ IsFiniteSet(then(A)) /\ (then(A) = {} <=> then(B) = {})
      BY <2>2, MatchedParts
    <3> QED
      BY <2>2, <2>4, <3>1, MatchedMedian DEF SamePart
  <2> QED
    BY <2>3, <2>5, <2>6
<1> QED
  BY <1>1, <1>2, <1>3

\* The same spans but for their ids: the same services, operations and parents.
Renamed(r, T, U) ==
  /\ Matches(r, T, U) /\ TimesKept(r, T)
  /\ \A x \in T : r[x].svc = x.svc /\ r[x].op = x.op
  /\ \A p, c \in T : is_parent(r[p], r[c]) <=> is_parent(p, c)

LEMMA RenamedSpans ==
  ASSUME NEW T, NEW U, IsFiniteSet(T), NEW r, Renamed(r, T, U)
  PROVE  summarize_spans(U) = summarize_spans(T)
<1> DEFINE of(S, s) == {x \in S : x.svc = s}
           sig(S, s) == sig_state(error_branch(of(S, s)), latency_branch(of(S, s)))
<1>1. ASSUME NEW s PROVE sig(U, s) = sig(T, s)
  <2>1. SamePart(r, T, of(T, s), U, of(U, s))
    BY DEF Renamed, Matches, SamePart
  <2> HIDE DEF of
  <2>2. Matches(r, of(T, s), of(U, s)) /\ IsFiniteSet(of(T, s))
    BY <2>1, MatchedParts DEF Renamed
  <2>3. TimesKept(r, of(T, s))
    BY <2>1 DEF Renamed, TimesKept, SamePart
  <2> QED
    BY <2>2, <2>3, MatchedBranches
<1>2. \A S : summarize_spans(S) = [s \in TeleServices |-> sig(S, s)]
  BY DEF summarize_spans
<1> HIDE DEF sig
<1> QED
  BY <1>1, <1>2

LEMMA RenamedCalls ==
  ASSUME NEW T, NEW U, IsFiniteSet(T), NEW r, Renamed(r, T, U),
         NEW q, q = [pc \in T \X T |-> <<r[pc[1]], r[pc[2]]>>]
  PROVE  /\ Matches(q, CrossCalls(T), CrossCalls(U)) /\ IsFiniteSet(CrossCalls(T))
         /\ call_edges(U) = call_edges(T)
<1>1. Matches(q, T \X T, U \X U)
  <2>1. \A pc \in T \X T : q[pc] \in U \X U
    BY DEF Renamed, Matches
  <2>2. ASSUME NEW d \in U \X U PROVE \E pc \in T \X T : q[pc] = d
    <3>1. PICK x \in T, y \in T : r[x] = d[1] /\ r[y] = d[2]
      BY DEF Renamed, Matches
    <3>2. <<x, y>> \in T \X T /\ q[<<x, y>>] = <<r[x], r[y]>>
      OBVIOUS
    <3> QED
      BY <3>1, <3>2
  <2>3. ASSUME NEW pc \in T \X T, NEW d \in T \X T, q[pc] = q[d] PROVE pc = d
    <3>1. r[pc[1]] = r[d[1]] /\ r[pc[2]] = r[d[2]]
      BY <2>3
    <3>2. pc[1] = d[1] /\ pc[2] = d[2]
      BY <3>1 DEF Renamed, Matches
    <3> QED
      BY <3>2
  <2> QED
    BY <2>1, <2>2, <2>3 DEF Matches
<1>2. \A pc \in T \X T : pc \in CrossCalls(T) <=> q[pc] \in CrossCalls(U)
  <2> SUFFICES ASSUME NEW pc \in T \X T PROVE pc \in CrossCalls(T) <=> q[pc] \in CrossCalls(U)
    OBVIOUS
  <2>1. q[pc][1] = r[pc[1]] /\ q[pc][2] = r[pc[2]] /\ q[pc] \in U \X U /\ pc[1] \in T /\ pc[2] \in T
    BY <1>1 DEF Matches
  <2>2. r[pc[1]].svc = pc[1].svc /\ r[pc[2]].svc = pc[2].svc
        /\ (is_parent(r[pc[1]], r[pc[2]]) <=> is_parent(pc[1], pc[2]))
    BY <2>1 DEF Renamed
  <2> QED
    BY <2>1, <2>2 DEF CrossCalls
<1>3. CrossCalls(T) \subseteq T \X T /\ CrossCalls(U) \subseteq U \X U /\ IsFiniteSet(T \X T)
  BY FS_Product DEF CrossCalls
<1>4. Matches(q, CrossCalls(T), CrossCalls(U)) /\ IsFiniteSet(CrossCalls(T))
  <2>1. SamePart(q, T \X T, CrossCalls(T), U \X U, CrossCalls(U))
    BY <1>2, <1>3 DEF SamePart
  <2> QED
    BY <1>1, <1>3, <2>1, MatchedParts
<1>5. \A pc \in CrossCalls(T) : q[pc][1].svc = pc[1].svc /\ q[pc][2].svc = pc[2].svc /\ q[pc][2].at = pc[2].at
  BY <1>3 DEF Renamed, TimesKept
<1>6. call_edges(U) = call_edges(T)
  <2>1. ASSUME NEW e \in call_edges(T) PROVE e \in call_edges(U)
    <3>1. PICK pc \in CrossCalls(T) : pc[2].at >= IncidentAt /\ e = <<pc[1].svc, pc[2].svc>>
      BY DEF call_edges
    <3>2. q[pc] \in CrossCalls(U) /\ q[pc][2].at >= IncidentAt /\ e = <<q[pc][1].svc, q[pc][2].svc>>
      BY <1>4, <1>5, <3>1 DEF Matches
    <3> QED
      BY <3>2 DEF call_edges
  <2>2. ASSUME NEW e \in call_edges(U) PROVE e \in call_edges(T)
    <3>1. PICK d \in CrossCalls(U) : d[2].at >= IncidentAt /\ e = <<d[1].svc, d[2].svc>>
      BY DEF call_edges
    <3>2. PICK pc \in CrossCalls(T) : q[pc] = d
      BY <1>4 DEF Matches
    <3>3. pc[2].at >= IncidentAt /\ e = <<pc[1].svc, pc[2].svc>>
      BY <1>5, <3>1, <3>2
    <3> QED
      BY <3>3 DEF call_edges
  <2> QED
    BY <2>1, <2>2
<1> QED
  BY <1>4, <1>6

LEMMA RenamedTargets ==
  ASSUME NEW T, NEW U, IsFiniteSet(T), NEW r, Renamed(r, T, U), NEW caller, NEW op
  PROVE  learn_call_targets(U, caller, op) = learn_call_targets(T, caller, op)
<1> DEFINE q == [pc \in T \X T |-> <<r[pc[1]], r[pc[2]]>>]
           calls(S) == {pc \in CrossCalls(learnable(S)) : pc[1].svc = caller /\ pc[1].op = op}
           into(S, s) == {pc \in calls(S) : pc[2].svc = s}
<1>1. Matches(q, CrossCalls(T), CrossCalls(U)) /\ IsFiniteSet(CrossCalls(T))
  BY RenamedCalls
<1>2. \A pc \in CrossCalls(T) : q[pc][1].svc = pc[1].svc /\ q[pc][1].op = pc[1].op /\ q[pc][2].svc = pc[2].svc
  BY DEF Renamed, CrossCalls
<1> HIDE DEF q
<1>3. Cardinality(calls(T)) = Cardinality(calls(U))
  <2>1. SamePart(q, CrossCalls(T), calls(T), CrossCalls(U), calls(U))
    BY <1>1, <1>2 DEF Matches, learnable, SamePart
  <2> HIDE DEF calls
  <2> QED
    BY <1>1, <2>1, MatchedParts
<1>4. ASSUME NEW s PROVE Cardinality(into(T, s)) = Cardinality(into(U, s))
  <2>1. SamePart(q, CrossCalls(T), into(T, s), CrossCalls(U), into(U, s))
    BY <1>1, <1>2 DEF Matches, learnable, SamePart
  <2> HIDE DEF into
  <2> QED
    BY <1>1, <2>1, MatchedParts
<1>5. \A S : learn_call_targets(S, caller, op)
               = {s \in TeleServices : Cardinality(into(S, s)) > 0 /\ 10 * Cardinality(into(S, s)) >= 9 * Cardinality(calls(S))}
  BY DEF learn_call_targets
<1> HIDE DEF into, calls
<1> QED
  BY <1>3, <1>4, <1>5

LEMMA RenamedEdges ==
  ASSUME NEW T, NEW U, IsFiniteSet(T), NEW r, Renamed(r, T, U)
  PROVE  summarize_edges(U) = summarize_edges(T)
<1> DEFINE of(S, e) == {x \in S : x.svc = e[1] /\ e[2] \in learn_call_targets(S, x.svc, x.op)}
           called(S) == {e \in TeleServices \X TeleServices : During(of(S, e)) # {}}
           sig(S, e) == sig_state(error_branch(of(S, e)), latency_branch(of(S, e)))
<1>1. ASSUME NEW e PROVE sig(U, e) = sig(T, e) /\ (During(of(U, e)) = {} <=> During(of(T, e)) = {})
  <2>1. SamePart(r, T, of(T, e), U, of(U, e))
    BY RenamedTargets DEF Renamed, Matches, SamePart
  <2> HIDE DEF of
  <2>2. Matches(r, of(T, e), of(U, e)) /\ IsFiniteSet(of(T, e))
    BY <2>1, MatchedParts DEF Renamed
  <2>3. TimesKept(r, of(T, e))
    BY <2>1 DEF Renamed, TimesKept, SamePart
  <2> QED
    BY <2>2, <2>3, MatchedBranches
<1>2. \A S : summarize_edges(S) = [e \in called(S) |-> sig(S, e)]
  BY DEF summarize_edges
<1> HIDE DEF sig
<1>3. called(U) = called(T)
  <2> HIDE DEF of
  <2> QED
    BY <1>1
<1> HIDE DEF called
<1> QED
  BY <1>1, <1>2, <1>3

LEMMA RenamedView ==
  ASSUME NEW T, NEW U, IsFiniteSet(T), NEW r, Renamed(r, T, U), NEW M
  PROVE  build_structural_view(U, M) = build_structural_view(T, M)
<1>1. structural_signals(U, M) = structural_signals(T, M)
  <2> DEFINE q == [pc \in T \X T |-> <<r[pc[1]], r[pc[2]]>>]
  <2>1. call_edges(U) = call_edges(T)
    BY RenamedCalls
  <2> QED
    BY <2>1, RenamedSpans, RenamedEdges DEF structural_signals
<1> QED
  BY <1>1 DEF build_structural_view

\* The id of span n of trace a, and that of its parent.
Apart(a, n) == 10 * a + n
ParentApart(a, n) == IF n = 0 THEN 0 ELSE Apart(a, n)

LEMMA IdsApart ==
  ASSUME NEW a \in Nat, NEW m \in Nat, NEW n \in Nat
  PROVE  /\ Apart(a, m) = Apart(a, n) <=> m = n
         /\ m # 0 => (Apart(a, m) = ParentApart(a, n) <=> m = n)
<1> DEFINE c == 10 * a
<1>1. c \in Nat
  OBVIOUS
<1>2. \A i : Apart(a, i) = c + i /\ ParentApart(a, i) = IF i = 0 THEN 0 ELSE c + i
  BY DEF Apart, ParentApart
<1> HIDE DEF c
<1> QED
  BY <1>1, <1>2

LEMMA ParentsApart ==
  ASSUME NEW a \in Nat, NEW m \in Nat, NEW n \in Nat
  PROVE  ParentApart(a, m) = ParentApart(a, n) <=> m = n
<1> DEFINE c == 10 * a
<1>1. c \in Nat
  OBVIOUS
<1>2. \A i : ParentApart(a, i) = IF i = 0 THEN 0 ELSE c + i
  BY DEF Apart, ParentApart
<1> HIDE DEF c
<1>3. m \in Nat \ {0} => c + m # 0
  BY <1>1
<1>4. n \in Nat \ {0} => c + n # 0
  BY <1>1
<1> QED
  BY <1>1, <1>2, <1>3, <1>4

\* Spans numbered so that no two traces share an id.
Renumbering(T) ==
  [x \in T |-> [x EXCEPT !.id = 10 * x.trace + x.id,
                         !.parent = IF x.parent = 0 THEN 0 ELSE 10 * x.trace + x.parent]]

\* Such ids keep the spans apart and their parents.
LEMMA Renumbered ==
  ASSUME NEW T, T \subseteq SpanPool
  PROVE  Renamed(Renumbering(T), T, {Renumbering(T)[x] : x \in T})
<1> DEFINE r == Renumbering(T)
<1>1. ASSUME NEW x \in T
      PROVE  /\ r[x].trace = x.trace /\ r[x].svc = x.svc /\ r[x].op = x.op /\ r[x].at = x.at
             /\ r[x].dur = x.dur /\ r[x].status = x.status /\ r[x].id = Apart(x.trace, x.id)
             /\ r[x].parent = ParentApart(x.trace, x.parent)
             /\ x.trace \in Nat /\ x.id \in Nat \ {0} /\ x.parent \in Nat
             /\ x = [trace |-> x.trace, id |-> x.id, parent |-> x.parent, svc |-> x.svc, op |-> x.op,
                     at |-> x.at, dur |-> x.dur, status |-> x.status]
  <2>1. x = [trace |-> x.trace, id |-> x.id, parent |-> x.parent, svc |-> x.svc, op |-> x.op,
             at |-> x.at, dur |-> x.dur, status |-> x.status]
        /\ x.trace \in Nat /\ x.id \in Nat \ {0} /\ x.parent \in Nat
    BY SignalConstants
  <2>2. r[x] = [x EXCEPT !.id = 10 * x.trace + x.id,
                         !.parent = IF x.parent = 0 THEN 0 ELSE 10 * x.trace + x.parent]
    BY DEF Renumbering
  <2> QED
    BY <2>1, <2>2 DEF Apart, ParentApart
<1> HIDE DEF r
<1>2. ASSUME NEW x \in T, NEW y \in T, r[x] = r[y] PROVE x = y
  <2>1. x.trace = y.trace /\ x.svc = y.svc /\ x.op = y.op /\ x.at = y.at /\ x.dur = y.dur /\ x.status = y.status
    BY <1>1, <1>2
  <2>2. /\ r[x].id = Apart(x.trace, x.id) /\ r[y].id = Apart(y.trace, y.id)
        /\ r[x].parent = ParentApart(x.trace, x.parent) /\ r[y].parent = ParentApart(y.trace, y.parent)
    BY <1>1
  <2>3. Apart(x.trace, x.id) = Apart(x.trace, y.id) /\ ParentApart(x.trace, x.parent) = ParentApart(x.trace, y.parent)
    BY <1>2, <2>1, <2>2, Zenon
  <2>4. x.trace \in Nat /\ x.id \in Nat /\ x.parent \in Nat /\ y.id \in Nat /\ y.parent \in Nat
    BY <1>1
  <2>5. x.id = y.id /\ x.parent = y.parent
    <3>1. Apart(x.trace, x.id) = Apart(x.trace, y.id) <=> x.id = y.id
      BY <2>4, IdsApart
    <3>2. ParentApart(x.trace, x.parent) = ParentApart(x.trace, y.parent) <=> x.parent = y.parent
      BY <2>4, ParentsApart
    <3> QED
      BY <2>3, <3>1, <3>2
  <2> QED
    BY <1>1, <2>1, <2>5, Zenon
<1>3. ASSUME NEW p \in T, NEW c \in T PROVE is_parent(r[p], r[c]) <=> is_parent(p, c)
  <2>1. p.trace \in Nat /\ p.id \in Nat \ {0} /\ c.trace \in Nat /\ c.parent \in Nat
    BY <1>1
  <2>2. Apart(c.trace, p.id) = ParentApart(c.trace, c.parent) <=> p.id = c.parent
    BY <2>1, IdsApart
  <2>3. /\ r[p].trace = p.trace /\ r[c].trace = c.trace /\ r[p].id = Apart(p.trace, p.id)
        /\ r[c].parent = ParentApart(c.trace, c.parent)
    BY <1>1
  <2>4. CASE p.trace = c.trace
    <3>1. r[p].id = r[c].parent <=> p.id = c.parent
      BY <2>2, <2>3, <2>4, Zenon
    <3> QED
      BY <2>3, <3>1, Zenon DEF is_parent
  <2>5. CASE p.trace # c.trace
    BY <2>3, <2>5, Zenon DEF is_parent
  <2> QED
    BY <2>4, <2>5
<1>4. Matches(r, T, {r[x] : x \in T})
  BY <1>2 DEF Matches
<1>5. Renamed(r, T, {r[x] : x \in T})
  BY <1>1, <1>3, <1>4 DEF Renamed, TimesKept
<1> QED
  BY <1>5 DEF r
(***************************************************************************)
(* Telemetry: rows are kept once, and the view is one of them.             *)
(***************************************************************************)
LEMMA KindsApart ==
  /\ \A x \in SpanPool : "trace" \in DOMAIN x /\ x \notin SamplePool
  /\ \A x \in SamplePool : "trace" \notin DOMAIN x /\ x \notin SpanPool
<1>1. ASSUME NEW x \in SpanPool PROVE "trace" \in DOMAIN x
  <2>1. x = [trace |-> x.trace, id |-> x.id, parent |-> x.parent, svc |-> x.svc, op |-> x.op,
             at |-> x.at, dur |-> x.dur, status |-> x.status]
    BY SignalConstants
  <2>2. DOMAIN x = {"trace", "id", "parent", "svc", "op", "at", "dur", "status"}
    BY <2>1
  <2> QED
    BY <2>2
<1>2. ASSUME NEW x \in SamplePool PROVE "trace" \notin DOMAIN x
  <2>1. x = [svc |-> x.svc, metric |-> x.metric, inst |-> x.inst, mode |-> x.mode,
             type |-> x.type, at |-> x.at, value |-> x.value]
    BY SignalConstants
  <2>2. DOMAIN x = {"svc", "metric", "inst", "mode", "type", "at", "value"}
    BY <2>1
  <2> QED
    BY <2>2
<1> QED
  BY <1>1, <1>2

LEMMA NothingSuspected == build_structural_view({}, {}) = NoView
<1> DEFINE inp == structural_signals({}, {})
           rows(m) == {y \in {} : y.metric = m}
<1>1. ASSUME NEW s \in TeleServices PROVE inp.signals[s] # "present"
  <2>1. SeriesOf({}) = {} /\ over_series({}) = "unmeasured"
    BY DEF SeriesOf, over_series
  <2>2. \A m : {x \in {} : x.svc = s /\ x.metric = m} = {}
    OBVIOUS
  <2>3. {rate_series(S) : S \in {}} = {} /\ {ratio_series(S) : S \in {}} = {}
    OBVIOUS
  <2>4. summarize_metrics({})[s] = sig_state("unmeasured", "unmeasured")
    BY <2>1, <2>2, <2>3 DEF summarize_metrics
  <2>5. inp.signals[s] = strongest({summarize_spans({})[s], summarize_metrics({})[s]})
    BY DEF structural_signals, combine_signals
  <2> HIDE DEF inp
  <2> QED
    BY <2>4, <2>5, NoSpansNoSignal, StrongestIs DEF sig_state
<1>2. DOMAIN inp.edge_signals = {}
  <2> DEFINE of(e) == {x \in {} : x.svc = e[1] /\ e[2] \in learn_call_targets({}, x.svc, x.op)}
  <2>1. \A e : During(of(e)) = {}
    BY DEF During
  <2>2. DOMAIN summarize_edges({}) = {e \in TeleServices \X TeleServices : During(of(e)) # {}}
    BY DEF summarize_edges
  <2> HIDE DEF of
  <2>3. DOMAIN summarize_edges({}) = {}
    BY <2>1, <2>2
  <2> QED
    BY <2>3 DEF structural_signals
<1>3. ASSUME NEW k \in DOMAIN inp.util_signals PROVE inp.util_signals[k] # "present"
  <2> DEFINE state(m) == metric_state({x \in {} : x.svc = k[1] /\ x.metric = m}, util_metric_class[m].type)
             named == {n \in {x.metric : x \in {y \in UtilRows({}) : y.svc = k[1]}} : util_metric_class[n].resource = k[2]}
  <2>1. inp.util_signals[k] = strongest({state(m) : m \in named})
    BY DEF structural_signals, summarize_utilization
  <2>2. named = {}
    BY DEF UtilRows
  <2> HIDE DEF named, state, inp
  <2>3. "present" \notin {state(m) : m \in named}
    BY <2>2
  <2> QED
    BY <2>1, <2>3, StrongestIs
<1>4. build_hypotheses(inp) = {}
  <2> DEFINE anomalous == {s \in TeleServices : inp.signals[s] = "present"}
             callees(s) == {e[2] : e \in {x \in inp.edges : x[1] = s}}
             blameless == UNION {callees(s) : s \in {t \in anomalous : callees(t) \cap anomalous = {}}}
             edges == {x \in DOMAIN inp.edge_signals : inp.edge_signals[x] = "present"}
             utils == {x \in DOMAIN inp.util_signals : inp.util_signals[x] = "present"}
             ends == {e[2] : e \in edges}
             hosts == {k[1] : k \in utils}
  <2>1. build_hypotheses(inp) = anomalous \cup blameless \cup ends \cup hosts
    BY DEF build_hypotheses
  <2> HIDE DEF inp
  <2>2. anomalous = {} /\ edges = {} /\ utils = {}
    BY <1>1, <1>2, <1>3
  <2> HIDE DEF anomalous, callees, edges, utils
  <2>3. blameless = {} /\ ends = {} /\ hosts = {}
    BY <2>2
  <2> HIDE DEF blameless, ends, hosts
  <2> QED
    BY <2>1, <2>2, <2>3
<1> QED
  BY <1>4 DEF build_structural_view

LEMMA ViewSuspects ==
  ASSUME NEW T, NEW M, NEW s, s \in build_hypotheses(structural_signals(T, M))
  PROVE  s \in build_structural_view(T, M).hypotheses
BY DEF build_structural_view

SentInv ==
  /\ IsFiniteSet(sent) /\ sent \subseteq SpanPool \cup SamplePool
  /\ spanRows \subseteq sent \cap SpanPool /\ sampleRows \subseteq sent \cap SamplePool
  /\ \A x \in sent \cap SpanPool : \E y \in spanRows : span_pk(y) = span_pk(x)
  /\ \A x, y \in spanRows : span_pk(x) = span_pk(y) => x = y
  /\ \A x \in sent \cap SamplePool : \E y \in sampleRows : metric_pk(y) = metric_pk(x)
  /\ \A x, y \in sampleRows : metric_pk(x) = metric_pk(y) => x = y

SignalInv ==
  /\ IsFiniteSet(structural.spans) /\ structural.spans \subseteq SpanPool
  /\ structural.samples \subseteq SamplePool
  /\ structural.view = build_structural_view(structural.spans, structural.samples)

LEMMA SignalsStart == SignalsInit => SentInv /\ SignalInv
<1> SUFFICES ASSUME SignalsInit PROVE SentInv /\ SignalInv
  OBVIOUS
<1>1. SentInv
  BY FS_EmptySet DEF SignalsInit, SentInv
<1>2. SignalInv
  BY FS_EmptySet, NothingSuspected DEF SignalsInit, SignalInv
<1> QED
  BY <1>1, <1>2

LEMMA SpanSent ==
  ASSUME SentInv, SignalInv, NEW x \in SpanPool, persist_spans(x)
  PROVE  SentInv' /\ SignalInv'
<1> DEFINE new == {y \in {x} : \A z \in spanRows : span_pk(z) # span_pk(y)}
<1>1. /\ sent' = sent \cup {x} /\ spanRows' = spanRows \cup new
      /\ sampleRows' = sampleRows /\ structural' = structural
  BY DEF persist_spans
<1>2. IsFiniteSet(sent') /\ x \notin SamplePool
  BY <1>1, FS_AddElement, KindsApart DEF SentInv
<1>3. \A y : y \in new <=> y = x /\ \A z \in spanRows : span_pk(z) # span_pk(x)
  OBVIOUS
<1> HIDE DEF new
<1>4. SentInv'
  BY <1>1, <1>2, <1>3 DEF SentInv, span_pk, metric_pk, series_key
<1>5. SignalInv'
  BY <1>1 DEF SignalInv
<1> QED
  BY <1>4, <1>5

LEMMA SampleSent ==
  ASSUME SentInv, SignalInv, NEW x \in SamplePool, persist_metric_samples(x)
  PROVE  SentInv' /\ SignalInv'
<1> DEFINE new == {y \in {x} : \A z \in sampleRows : metric_pk(z) # metric_pk(y)}
<1>1. /\ sent' = sent \cup {x} /\ sampleRows' = sampleRows \cup new
      /\ spanRows' = spanRows /\ structural' = structural
  BY DEF persist_metric_samples
<1>2. IsFiniteSet(sent') /\ x \notin SpanPool
  BY <1>1, FS_AddElement, KindsApart DEF SentInv
<1>3. \A y : y \in new <=> y = x /\ \A z \in sampleRows : metric_pk(z) # metric_pk(x)
  OBVIOUS
<1> HIDE DEF new
<1>4. SentInv'
  BY <1>1, <1>2, <1>3 DEF SentInv
<1>5. SignalInv'
  BY <1>1 DEF SignalInv
<1> QED
  BY <1>4, <1>5

LEMMA SignalsStep == SentInv /\ SignalInv /\ [SignalsNext]_signalVars => SentInv' /\ SignalInv'
<1> SUFFICES ASSUME SentInv, SignalInv, [SignalsNext]_signalVars PROVE SentInv' /\ SignalInv'
  OBVIOUS
<1>1. ASSUME UNCHANGED <<sent, spanRows, sampleRows>> PROVE SentInv'
  BY <1>1 DEF SentInv
<1>2. CASE ViewStructure
  <2>1. structural'.spans = spanRows /\ structural'.samples = sampleRows
        /\ structural'.view = build_structural_view(spanRows, sampleRows)
    BY <1>2 DEF ViewStructure
  <2>2. IsFiniteSet(spanRows)
    BY FS_Subset DEF SentInv
  <2>3. SignalInv'
    BY <2>1, <2>2 DEF SentInv, SignalInv
  <2> QED
    BY <1>1, <1>2, <2>3 DEF ViewStructure
<1>3. CASE UNCHANGED signalVars
  <2>1. SignalInv'
    BY <1>3 DEF SignalInv, signalVars
  <2> QED
    BY <1>1, <1>3, <2>1 DEF signalVars
<1> QED
  BY <1>2, <1>3, SpanSent, SampleSent DEF SignalsNext

LEMMA KeptOnce == SentInv => TelemetryKeptOnce
<1> SUFFICES ASSUME SentInv PROVE TelemetryKeptOnce
  OBVIOUS
<1> DEFINE samePoint(x, y) == x.svc = y.svc /\ x.metric = y.metric /\ x.at = y.at /\ x.inst = y.inst
                              /\ (x.inst = "none" \/ x.mode = y.mode)
           spans == {x \in sent : "trace" \in DOMAIN x}
           spansOf(x) == {y \in spanRows : y.trace = x.trace /\ y.id = x.id /\ y.at = x.at /\ y.svc = x.svc}
           pointsOf(x) == {y \in sampleRows : samePoint(x, y)}
<1>1. \A x \in spans : x \in sent \cap SpanPool
  BY KindsApart DEF SentInv
<1>2. \A x \in sent \ spans : x \in sent \cap SamplePool
  BY KindsApart DEF SentInv
<1>3. ASSUME NEW x \in spans PROVE Cardinality(spansOf(x)) = 1
  <2>1. PICK y \in spanRows : span_pk(y) = span_pk(x)
    BY <1>1 DEF SentInv
  <2>2. \A z : z \in spansOf(x) <=> z \in spanRows /\ span_pk(z) = span_pk(x)
    BY DEF span_pk
  <2>3. spansOf(x) = {y}
    BY <2>1, <2>2 DEF SentInv
  <2> QED
    BY <2>3, FS_Singleton
<1>4. ASSUME NEW x \in sent \ spans PROVE Cardinality(pointsOf(x)) = 1
  <2>1. PICK y \in sampleRows : metric_pk(y) = metric_pk(x)
    BY <1>2 DEF SentInv
  <2>2. \A z : samePoint(x, z) <=> metric_pk(z) = metric_pk(x)
    <3> TAKE z
    <3>1. metric_pk(z) = metric_pk(x)
            <=> z.svc = x.svc /\ z.metric = x.metric /\ z.at = x.at /\ series_key(z) = series_key(x)
      BY DEF metric_pk
    <3>2. series_key(z) = series_key(x) <=> x.inst = z.inst /\ (x.inst = "none" \/ x.mode = z.mode)
      BY DEF series_key
    <3> QED
      BY <3>1, <3>2
  <2>3. \A z : z \in pointsOf(x) <=> z \in sampleRows /\ metric_pk(z) = metric_pk(x)
    BY <2>2
  <2> HIDE DEF pointsOf
  <2>4. pointsOf(x) = {y}
    BY <2>1, <2>3 DEF SentInv
  <2> QED
    BY <2>4, FS_Singleton
<1> QED
  BY <1>3, <1>4 DEF TelemetryKeptOnce

LEMMA NoHealthInSilence == SignalInv => SilenceIsNotHealth
<1> SUFFICES ASSUME SignalInv, NEW s \in TeleServices
             PROVE  LET kept(S) == {x \in S : x.svc # s \/ x.at < IncidentAt}
                        inp == structural_signals(kept(structural.spans), kept(structural.samples))
                    IN /\ inp.signals[s] # "absent"
                       /\ \A r \in Resources : inp.util_signals[<<s, r>>] # "absent"
  BY DEF SilenceIsNotHealth
<1> DEFINE kept(S) == {x \in S : x.svc # s \/ x.at < IncidentAt}
           T == kept(structural.spans)
           M == kept(structural.samples)
<1>1. \A x \in T \cup M : x.svc = s => ~(x.at >= IncidentAt)
  BY SignalConstants DEF SignalInv
<1> HIDE DEF T, M
<1>2. /\ structural_signals(T, M).signals[s] # "absent"
      /\ \A r \in Resources : structural_signals(T, M).util_signals[<<s, r>>] # "absent"
  BY <1>1, SilenceProvesNothing
<1> QED
  BY <1>2 DEF T, M

LEMMA CalleeNamed == SignalInv => DarkCalleeSuspected
<1> SUFFICES ASSUME SignalInv PROVE DarkCalleeSuspected
  OBVIOUS
<1> DEFINE T == structural.spans
           M == structural.samples
<1>1. IsFiniteSet(T) /\ \A y \in T : y.svc \in TeleServices
  BY SignalConstants DEF SignalInv
<1>2. structural.view = build_structural_view(T, M)
  BY DEF SignalInv
<1> HIDE DEF T, M
<1>3. ASSUME NEW x \in During(T), NEW s \in TeleServices,
             x.status = "error", Cardinality(During(T)) <= 20,
             \E pc \in CrossCalls(T) : pc[1].svc = x.svc /\ pc[1].op = x.op /\ pc[2].svc = s,
             \A pc \in CrossCalls(T) : pc[1].svc = x.svc /\ pc[1].op = x.op => pc[2].svc = s
      PROVE  s \in structural.view.hypotheses
  <2>1. s \in build_hypotheses(structural_signals(T, M))
    BY <1>1, <1>3, CalleeSuspected
  <2> QED
    BY <1>2, <2>1, ViewSuspects
<1> QED
  BY <1>3 DEF DarkCalleeSuspected, T

LEMMA IdsAreLocal == SignalInv => TraceIdsAreLocal
<1> SUFFICES ASSUME SignalInv PROVE TraceIdsAreLocal
  OBVIOUS
<1> DEFINE T == structural.spans
           renumber(x) == [x EXCEPT !.id = 10 * x.trace + x.id,
                                    !.parent = IF x.parent = 0 THEN 0 ELSE 10 * x.trace + x.parent]
           r == Renumbering(T)
<1>1. Renamed(r, T, {r[x] : x \in T})
  BY Renumbered DEF SignalInv
<1>2. {r[x] : x \in T} = {renumber(x) : x \in T}
  BY DEF Renumbering
<1> HIDE DEF r
<1>3. build_structural_view({r[x] : x \in T}, structural.samples) = build_structural_view(T, structural.samples)
  BY <1>1, RenamedView DEF SignalInv
<1> QED
  BY <1>2, <1>3 DEF SignalInv, TraceIdsAreLocal

LEMMA CalmHidesNothing == SignalInv => CalmReplicaDoesNotHide
<1> SUFFICES ASSUME SignalInv PROVE CalmReplicaDoesNotHide
  OBVIOUS
<1> DEFINE T == structural.spans
           M == structural.samples
           alone(x) == {y \in M : y.svc = x.svc /\ y.metric = x.metric /\ series_key(y) = series_key(x)}
           whole(x) == {y \in M : y.svc = x.svc /\ y.metric = x.metric}
<1>1. \A x \in M : x.svc \in TeleServices
  BY SignalConstants DEF SignalInv
<1>2. structural.view = build_structural_view(T, M)
  BY DEF SignalInv
<1>3. ASSUME NEW x \in M, x.metric = "error_rate", structural_signals({}, alone(x)).signals[x.svc] = "present"
      PROVE  x.svc \in structural.view.hypotheses
  <2>1. x.svc \in build_hypotheses(structural_signals(T, M))
    BY <1>1, <1>3, CalmSeries
  <2> QED
    BY <1>2, <2>1, ViewSuspects
<1>4. ASSUME NEW x \in M, x.metric \in DOMAIN util_metric_class,
             NEW c, c = util_metric_class[x.metric], identified(whole(x), c.type),
             structural_signals({}, alone(x)).util_signals[<<x.svc, c.resource>>] = "present"
      PROVE  x.svc \in structural.view.hypotheses
  <2>1. x.svc \in build_hypotheses(structural_signals(T, M))
    BY <1>1, <1>4, CalmInstance
  <2> QED
    BY <1>2, <2>1, ViewSuspects
<1> QED
  BY <1>3, <1>4 DEF CalmReplicaDoesNotHide

\* Telemetry is read for what it proves, whatever rows are ingested, in any order
\* and any number of times (persist_spans, persist_metric_samples,
\* build_structural_view).
THEOREM SignalsRight == SignalsSpec => []SignalsProveWhatTheySay
<1>1. SentInv /\ SignalInv => SignalsProveWhatTheySay
  BY KeptOnce, NoHealthInSilence, CalleeNamed, IdsAreLocal, CalmHidesNothing DEF SignalsProveWhatTheySay
<1> QED
  BY <1>1, SignalsStart, SignalsStep, PTL DEF SignalsSpec
(***************************************************************************)
(* The structural view: that a finite set can be listed in order, so that  *)
(* rank_classes has a list to choose; then what a view says, by lemmas     *)
(* about the operators it is made of, for any models, measurements and     *)
(* ranker scores; and what one step changes in it.                         *)
(***************************************************************************)

\* A finite set in a strict order can be listed in that order.
LEMMA ListedInOrder ==
  ASSUME NEW D, IsFiniteSet(D), NEW R, StrictOrder(D, R)
  PROVE  \E s \in Bijection(1 .. Cardinality(D), D) :
           \A m, n \in 1 .. Cardinality(D) : m < n => <<s[m], s[n]>> \in R
<1> DEFINE place == [i \in D |-> Cardinality({j \in D : <<j, i>> \in R})]
           count == Cardinality(D)
           s == [n \in 1 .. count |-> CHOOSE i \in D : place[i] = n - 1]
<1>1. /\ place \in Bijection(D, 0 .. count - 1) /\ count \in Nat
      /\ \A i, j \in D : <<i, j>> \in R => place[i] < place[j]
  BY Numbering
<1> HIDE DEF place
<1>2. /\ \A i \in D : place[i] \in 0 .. count - 1
      /\ \A i, j \in D : place[i] = place[j] => i = j
      /\ \A x \in 0 .. count - 1 : \E i \in D : place[i] = x
  BY <1>1 DEF Bijection, Injection, Surjection, IsInjective
<1>3. ASSUME NEW n \in 1 .. count PROVE s[n] \in D /\ place[s[n]] = n - 1
  <2>1. n - 1 \in 0 .. count - 1
    BY <1>1
  <2> QED
    BY <1>2, <2>1
<1>4. s = [n \in 1 .. count |-> s[n]]
  OBVIOUS
<1> HIDE DEF s, count
<1>5. s \in [1 .. count -> D]
  BY <1>3, <1>4
<1>6. ASSUME NEW i \in D PROVE \E n \in 1 .. count : s[n] = i
  <2>1. place[i] + 1 \in 1 .. count /\ (place[i] + 1) - 1 = place[i]
    BY <1>1, <1>2
  <2>2. s[place[i] + 1] \in D /\ place[s[place[i] + 1]] = place[i]
    BY <1>3, <2>1
  <2> QED
    BY <1>2, <2>1, <2>2
<1>7. \A m, n \in 1 .. count : s[m] = s[n] => m = n
  <2> SUFFICES ASSUME NEW m \in 1 .. count, NEW n \in 1 .. count, s[m] = s[n] PROVE m = n
    OBVIOUS
  <2>1. m - 1 = n - 1
    BY <1>3
  <2> QED
    BY <1>1, <2>1
<1>8. s \in Bijection(1 .. count, D)
  BY <1>5, <1>6, <1>7 DEF Bijection, Injection, Surjection, IsInjective
<1>9. ASSUME NEW m \in 1 .. count, NEW n \in 1 .. count, m < n PROVE <<s[m], s[n]>> \in R
  <2>1. s[m] \in D /\ s[n] \in D /\ place[s[m]] = m - 1 /\ place[s[n]] = n - 1
    BY <1>3
  <2>2. ~(place[s[n]] < place[s[m]]) /\ s[m] # s[n]
    BY <1>1, <1>9, <2>1
  <2> QED
    BY <1>1, <2>1, <2>2 DEF StrictOrder
<1> QED
  BY <1>8, <1>9 DEF count

\* Ranked by one value, then by another, a finite set can be listed.
LEMMA Ranked ==
  ASSUME NEW D, IsFiniteSet(D), NEW f \in [D -> Int], NEW g \in [D -> Int]
  PROVE  \E s \in Bijection(1 .. Cardinality(D), D) :
           \A m, n \in 1 .. Cardinality(D) :
             m < n => f[s[m]] > f[s[n]] \/ (f[s[m]] = f[s[n]] /\ g[s[m]] >= g[s[n]])
<1>1. PICK p \in Bijection(1 .. Cardinality(D), D) : Cardinality(D) \in Nat
  BY FS_CardinalityType DEF ExistsBijection
<1> DEFINE pos == [i \in D |-> CHOOSE n \in 1 .. Cardinality(D) : p[n] = i]
           R == {q \in D \X D :
                   \/ f[q[1]] > f[q[2]]
                   \/ f[q[1]] = f[q[2]] /\ g[q[1]] > g[q[2]]
                   \/ f[q[1]] = f[q[2]] /\ g[q[1]] = g[q[2]] /\ pos[q[1]] < pos[q[2]]}
<1>2. \A i \in D : pos[i] \in 1 .. Cardinality(D) /\ p[pos[i]] = i
  BY <1>1 DEF Bijection, Surjection
<1> HIDE DEF pos
<1>3. \A i, j \in D :
        <<i, j>> \in R <=> \/ f[i] > f[j]
                           \/ f[i] = f[j] /\ g[i] > g[j]
                           \/ f[i] = f[j] /\ g[i] = g[j] /\ pos[i] < pos[j]
  OBVIOUS
<1> HIDE DEF R
<1>4. \A i \in D : f[i] \in Int /\ g[i] \in Int /\ pos[i] \in Int
  BY <1>1, <1>2
<1>5. \A i, j \in D : pos[i] = pos[j] => i = j
  BY <1>2
<1>6. StrictOrder(D, R)
  <2>1. \A i \in D : <<i, i>> \notin R
    BY <1>3, <1>4
  <2>2. ASSUME NEW i \in D, NEW j \in D, NEW k \in D, <<i, j>> \in R, <<j, k>> \in R PROVE <<i, k>> \in R
    <3>1. /\ f[i] \in Int /\ f[j] \in Int /\ f[k] \in Int /\ g[i] \in Int /\ g[j] \in Int /\ g[k] \in Int
          /\ pos[i] \in Int /\ pos[j] \in Int /\ pos[k] \in Int
      BY <1>4
    <3>2. /\ f[i] > f[j] \/ (f[i] = f[j] /\ (g[i] > g[j] \/ (g[i] = g[j] /\ pos[i] < pos[j])))
          /\ f[j] > f[k] \/ (f[j] = f[k] /\ (g[j] > g[k] \/ (g[j] = g[k] /\ pos[j] < pos[k])))
      BY <1>3, <2>2
    <3>3. f[i] > f[k] \/ (f[i] = f[k] /\ (g[i] > g[k] \/ (g[i] = g[k] /\ pos[i] < pos[k])))
      BY <3>1, <3>2
    <3> QED
      BY <1>3, <3>3
  <2>3. \A i, j \in D : i # j => <<i, j>> \in R \/ <<j, i>> \in R
    BY <1>3, <1>4, <1>5
  <2> QED
    BY <2>1, <2>2, <2>3 DEF StrictOrder
<1>7. PICK s \in Bijection(1 .. Cardinality(D), D) :
        \A m, n \in 1 .. Cardinality(D) : m < n => <<s[m], s[n]>> \in R
  BY <1>6, ListedInOrder
<1>8. \A m \in 1 .. Cardinality(D) : s[m] \in D
  BY DEF Bijection, Injection
<1>9. ASSUME NEW m \in 1 .. Cardinality(D), NEW n \in 1 .. Cardinality(D), m < n
      PROVE  f[s[m]] > f[s[n]] \/ (f[s[m]] = f[s[n]] /\ g[s[m]] >= g[s[n]])
  <2>1. s[m] \in D /\ s[n] \in D /\ <<s[m], s[n]>> \in R
    BY <1>7, <1>8, <1>9
  <2>2. f[s[m]] > f[s[n]] \/ (f[s[m]] = f[s[n]] /\ (g[s[m]] > g[s[n]] \/ g[s[m]] = g[s[n]]))
    BY <1>3, <2>1
  <2> QED
    BY <1>4, <2>1, <2>2
<1> QED
  BY <1>9

(* The classes of a view.                                                  *)

Measurements == [Observables -> [state : MeasuredStates \cup {""}, conf : Int]]

PartTypes == model \in Models /\ ranks \in Rankings /\ obs \in Measurements
PartInv == PartTypes /\ view = structural_view(model, obs, ranks)

\* Two hypotheses no usable fact tells apart.
Alike(m, g, h, o) == \A f \in usable_ids(o) : m[g].expects[f] = m[h].expects[f]

\* The class of a survivor.
ClassOf(m, g, o) == {h \in Survivors(m, o) : Alike(m, g, h, o)}

\* An observation model's parts have their types.
LEMMA ModelIs ==
  ASSUME NEW m \in Models, NEW h \in Hyps
  PROVE  /\ m[h].expects \in [Observables -> MeasuredStates \cup {""}]
         /\ m[h].strength \in [Observables -> Strengths]
         /\ m[h].contra \in [Observables -> SUBSET MeasuredStates]
<1>1. m \in [Hyps -> ObservationModels]
  BY PartitionConstants
<1> QED
  BY <1>1 DEF ObservationModels

\* partition drops exactly the contradicted hypotheses and divides the others
\* by what they predict for the usable facts.
LEMMA ClassesAre ==
  ASSUME NEW m, NEW o
  PROVE  /\ Survivors(m, o) = {h \in Hyps : eliminated_evidence(m, h, o) = {}}
         /\ \A C \in classes_of(m, o) :
              C # {} /\ C \subseteq Survivors(m, o) /\ \A g \in C : C = ClassOf(m, g, o)
         /\ \A g \in Survivors(m, o) : ClassOf(m, g, o) \in classes_of(m, o) /\ g \in ClassOf(m, g, o)
         /\ IsFiniteSet(classes_of(m, o)) /\ Cardinality(classes_of(m, o)) \in Nat
         /\ \A C \in classes_of(m, o) : IsFiniteSet(C)
<1>1. Survivors(m, o) = {h \in Hyps : eliminated_evidence(m, h, o) = {}} /\ Survivors(m, o) \subseteq Hyps
  BY DEF Survivors, hard_incompatibility, eliminating_ids, eliminated_evidence
<1>2. classes_of(m, o) = {ClassOf(m, g, o) : g \in Survivors(m, o)}
  BY DEF classes_of, same_signature, predictions, Alike, ClassOf
<1>3. /\ \A g : Alike(m, g, g, o)
      /\ \A g, h : Alike(m, g, h, o) => Alike(m, h, g, o)
      /\ \A g, h, k : Alike(m, g, h, o) /\ Alike(m, h, k, o) => Alike(m, g, k, o)
  BY DEF Alike
<1>4. ASSUME NEW C \in classes_of(m, o)
      PROVE  C # {} /\ C \subseteq Survivors(m, o) /\ \A g \in C : C = ClassOf(m, g, o)
  <2>1. PICK k \in Survivors(m, o) : C = ClassOf(m, k, o)
    BY <1>2
  <2> QED
    BY <1>3, <2>1 DEF ClassOf
<1>5. IsFiniteSet(Survivors(m, o))
  BY <1>1, PartitionConstants, FS_Subset
<1>6. classes_of(m, o) \subseteq SUBSET Survivors(m, o)
  BY <1>4
<1>7. IsFiniteSet(classes_of(m, o)) /\ Cardinality(classes_of(m, o)) \in Nat
  BY <1>5, <1>6, FS_SUBSET, FS_Subset, FS_CardinalityType
<1>8. \A C \in classes_of(m, o) : IsFiniteSet(C)
  BY <1>4, <1>5, FS_Subset
<1>9. \A g \in Survivors(m, o) : ClassOf(m, g, o) \in classes_of(m, o) /\ g \in ClassOf(m, g, o)
  BY <1>2, <1>3 DEF ClassOf
<1> QED
  BY <1>1, <1>4, <1>7, <1>8, <1>9

\* The outcome in terms of the survivors and of what tells them apart.
LEMMA OutcomeIs ==
  ASSUME NEW m, NEW o, NEW out, out = classify(m, classes_of(m, o), o), NEW S, S = Survivors(m, o)
  PROVE  /\ out = expected_outcome(m, classes_of(m, o), o)
         /\ S = {} <=> classes_of(m, o) = {}
         /\ out = "no_compatible_hypothesis" <=> S = {}
         /\ out = "uncertain" <=> \E g, h \in S : ~Alike(m, g, h, o)
         /\ (S # {} /\ \A g, h \in S : Alike(m, g, h, o)) =>
              /\ classes_of(m, o) = {S}
              /\ out = "identified" <=> \E h : S = {h}
              /\ out = "non_identifiable" <=> (~\E h : S = {h}) /\ d_missing(m, S, o) # {}
              /\ out = "irreducible" <=> (~\E h : S = {h}) /\ d_missing(m, S, o) = {}
<1> DEFINE K == classes_of(m, o)
<1>1. /\ \A C \in K : C # {} /\ C \subseteq S /\ \A g \in C : C = ClassOf(m, g, o)
      /\ \A g \in S : ClassOf(m, g, o) \in K /\ g \in ClassOf(m, g, o)
      /\ IsFiniteSet(K) /\ Cardinality(K) \in Nat /\ \A C \in K : IsFiniteSet(C)
  BY ClassesAre
<1> HIDE DEF K
<1>2. S = {} <=> K = {}
  BY <1>1
<1>3. ASSUME NEW T, IsFiniteSet(T) PROVE (Cardinality(T) = 1 <=> \E x : T = {x}) /\ (Cardinality(T) = 0 <=> T = {})
  BY <1>3, FS_Singleton, FS_EmptySet
<1>4. K # {} => (Cardinality(K) > 1 <=> \E g, h \in S : ~Alike(m, g, h, o))
  <2>1. ASSUME NEW g \in S, NEW h \in S, ~Alike(m, g, h, o) PROVE ~\E x : K = {x}
    <3>1. ClassOf(m, g, o) \in K /\ ClassOf(m, h, o) \in K /\ h \in ClassOf(m, h, o) /\ h \notin ClassOf(m, g, o)
      BY <1>1, <2>1 DEF ClassOf
    <3> QED
      BY <3>1
  <2>2. ASSUME \A g, h \in S : Alike(m, g, h, o), K # {} PROVE \E x : K = {x}
    <3>1. \A C \in K : C = S
      BY <1>1, <2>2 DEF ClassOf
    <3> QED
      BY <2>2, <3>1
  <2>3. K # {} => (Cardinality(K) > 1 <=> ~\E x : K = {x})
    BY <1>1, <1>3
  <2> QED
    BY <2>1, <2>2, <2>3
<1>5. ASSUME S # {}, \A g, h \in S : Alike(m, g, h, o) PROVE K = {S} /\ IsFiniteSet(S)
  <2>1. \A C \in K : C = S
    BY <1>1, <1>5 DEF ClassOf
  <2> QED
    BY <1>1, <1>2, <1>5, <2>1
<1>6. CASE S = {}
  BY <1>2, <1>6 DEF K, classify, expected_outcome
<1>7. CASE \E g, h \in S : ~Alike(m, g, h, o)
  <2>1. S # {} /\ K # {} /\ Cardinality(K) > 1
    BY <1>2, <1>4, <1>7
  <2> QED
    BY <1>2, <1>7, <2>1 DEF K, classify, expected_outcome
<1>8. CASE S # {} /\ \A g, h \in S : Alike(m, g, h, o)
  <2>1. K = {S} /\ IsFiniteSet(S) /\ K # {} /\ ~(Cardinality(K) > 1)
    BY <1>2, <1>4, <1>5, <1>8
  <2>2. (CHOOSE C \in K : TRUE) = S
    BY <2>1
  <2>3. Cardinality(S) = 1 <=> \E h : S = {h}
    BY <1>3, <2>1
  <2>4. /\ classify(m, K, o) = IF Cardinality(S) = 1 THEN "identified"
                               ELSE IF d_missing(m, S, o) # {} THEN "non_identifiable" ELSE "irreducible"
        /\ expected_outcome(m, K, o) = classify(m, K, o)
    BY <2>1, <2>2 DEF classify, expected_outcome
  <2> QED
    BY <1>2, <1>8, <2>1, <2>3, <2>4 DEF K
<1> QED
  BY <1>6, <1>7, <1>8

\* Scores are integers, of a hypothesis and of a class.
LEMMA ScoresAre ==
  ASSUME NEW m \in Models, NEW o \in Measurements, NEW r \in Rankings,
         NEW C \in SUBSET Hyps, C # {}
  PROVE  class_score(m, C, o) \in Int /\ ranker_signal(C, r) \in Int
<1>1. IsFiniteSet(C)
  BY PartitionConstants, FS_Subset
<1>2. ASSUME NEW h \in C PROVE score_hypothesis(m, h, o) \in Int /\ r[h] \in Int
  <2> DEFINE D == {g \in usable_ids(o) : m[h].expects[g] # ""}
             p == [f \in D |-> IF o[f].state = m[h].expects[f] THEN MatchScore[m[h].strength[f]]
                               ELSE MismatchScore[m[h].strength[f]]]
  <2>1. D \subseteq Observables /\ IsFiniteSet(D)
    BY PartitionConstants, FS_Subset DEF usable_ids
  <2>2. \A f \in D : MatchScore[m[h].strength[f]] \in Int /\ MismatchScore[m[h].strength[f]] \in Int
    <3>1. \A f \in D : m[h].strength[f] \in Strengths
      BY <2>1, ModelIs
    <3>2. \A x \in Strengths : MatchScore[x] \in Int /\ MismatchScore[x] \in Int
      <4>1. /\ MatchScore["usually"] = 3 /\ MatchScore["often"] = 2
            /\ MatchScore["maybe"] = 1 /\ MatchScore["not_required"] = 0
        BY DEF MatchScore
      <4>2. /\ MismatchScore["usually"] = -2 /\ MismatchScore["often"] = -1
            /\ MismatchScore["maybe"] = -1 /\ MismatchScore["not_required"] = 0
        BY DEF MismatchScore
      <4> QED
        BY <4>1, <4>2 DEF Strengths
    <3> HIDE DEF D
    <3> QED
      BY <3>1, <3>2
  <2>3. p \in [D -> Int]
    BY <2>2
  <2>4. SumFunction(p) \in Int
    <3> HIDE DEF D, p
    <3> QED
      BY <2>1, <2>3, SumType
  <2>5. r[h] \in Int
    BY PartitionConstants
  <2> QED
    BY <2>4, <2>5 DEF score_hypothesis
<1>3. ASSUME NEW T, T \subseteq Int, T # {}, IsFiniteSet(T) PROVE Max(T) \in Int
  BY <1>3, MaxFacts
<1>4. /\ {score_hypothesis(m, h, o) : h \in C} \subseteq Int /\ {score_hypothesis(m, h, o) : h \in C} # {}
      /\ {r[h] : h \in C} \subseteq Int /\ {r[h] : h \in C} # {}
  BY <1>2
<1>5. IsFiniteSet({score_hypothesis(m, h, o) : h \in C}) /\ IsFiniteSet({r[h] : h \in C})
  <2> DEFINE f == [h \in C |-> score_hypothesis(m, h, o)]
             g == [h \in C |-> r[h]]
  <2>1. /\ f \in Surjection(C, {score_hypothesis(m, h, o) : h \in C})
        /\ g \in Surjection(C, {r[h] : h \in C})
    BY DEF Surjection
  <2> QED
    BY <1>1, <2>1, FS_Surjection
<1> QED
  BY <1>3, <1>4, <1>5 DEF class_score, ranker_signal

\* rank_classes lists every class once, none after one it ranks before.
LEMMA RankingIs ==
  ASSUME NEW m \in Models, NEW o \in Measurements, NEW r \in Rankings,
         NEW s, s = rank_classes(m, classes_of(m, o), o, r)
  PROVE  /\ ToSet(s) = classes_of(m, o)
         /\ \A i \in DOMAIN s : s[i] \in classes_of(m, o)
         /\ \A i, j \in DOMAIN s : i < j => class_score(m, s[i], o) >= class_score(m, s[j], o)
<1> DEFINE K == classes_of(m, o)
           N == Cardinality(K)
           Ordered(q) == \A i, j \in DOMAIN q : i < j => ~ranks_before(m, q[j], q[i], o, r)
<1>1. /\ IsFiniteSet(K) /\ N \in Nat
      /\ \A C \in K : C # {} /\ C \subseteq Hyps
  BY ClassesAre DEF Survivors
<1>2. \A C \in K : class_score(m, C, o) \in Int /\ ranker_signal(C, r) \in Int
  BY <1>1, ScoresAre
<1> HIDE DEF K
<1>3. \E q \in SetToSeqs(K) : Ordered(q)
  <2> DEFINE f == [C \in K |-> class_score(m, C, o)]
             g == [C \in K |-> ranker_signal(C, r)]
  <2>1. f \in [K -> Int] /\ g \in [K -> Int]
    BY <1>2
  <2>2. PICK q \in Bijection(1 .. N, K) :
          \A i, j \in 1 .. N : i < j => f[q[i]] > f[q[j]] \/ (f[q[i]] = f[q[j]] /\ g[q[i]] >= g[q[j]])
    <3> HIDE DEF f, g
    <3> QED
      BY <1>1, <2>1, Ranked
  <2>3. q \in [1 .. N -> K] /\ \A i, j \in 1 .. N : i # j => q[i] # q[j]
    BY DEF Bijection, Injection, IsInjective
  <2>4. q \in SetToSeqs(K)
    BY <2>3 DEF SetToSeqs
  <2>5. ASSUME NEW i \in 1 .. N, NEW j \in 1 .. N, i < j PROVE ~ranks_before(m, q[j], q[i], o, r)
    <3>1. q[i] \in K /\ q[j] \in K
      BY <2>3
    <3>2. /\ f[q[i]] = class_score(m, q[i], o) /\ f[q[j]] = class_score(m, q[j], o)
          /\ g[q[i]] = ranker_signal(q[i], r) /\ g[q[j]] = ranker_signal(q[j], r)
      BY <3>1
    <3>3. /\ class_score(m, q[i], o) \in Int /\ class_score(m, q[j], o) \in Int
          /\ ranker_signal(q[i], r) \in Int /\ ranker_signal(q[j], r) \in Int
      BY <3>1, <1>2
    <3>4. f[q[i]] > f[q[j]] \/ (f[q[i]] = f[q[j]] /\ g[q[i]] >= g[q[j]])
      BY <2>2, <2>5
    <3> HIDE DEF f, g
    <3> QED
      BY <3>2, <3>3, <3>4 DEF ranks_before
  <2>6. DOMAIN q = 1 .. N
    BY <2>3
  <2> QED
    BY <2>4, <2>5, <2>6
<1>4. s = CHOOSE q \in SetToSeqs(K) : Ordered(q)
  BY DEF rank_classes, K
<1> HIDE DEF Ordered
<1>5. s \in SetToSeqs(K) /\ Ordered(s)
  BY <1>3, <1>4
<1>6. s \in Injection(1 .. N, K)
  BY <1>5 DEF SetToSeqs, Injection, IsInjective
<1>7. IsFiniteSet(1 .. N) /\ Cardinality(1 .. N) = N
  BY <1>1, FS_Interval
<1>8. s \in Surjection(1 .. N, K)
  BY <1>1, <1>6, <1>7, FS_Injection
<1>9. DOMAIN s = 1 .. N /\ ToSet(s) = K /\ \A i \in DOMAIN s : s[i] \in K
  BY <1>8 DEF Surjection, ToSet
<1>10. ASSUME NEW i \in DOMAIN s, NEW j \in DOMAIN s, i < j
       PROVE  class_score(m, s[i], o) >= class_score(m, s[j], o)
  <2>1. ~ranks_before(m, s[j], s[i], o, r)
    BY <1>5, <1>10 DEF Ordered
  <2>2. class_score(m, s[i], o) \in Int /\ class_score(m, s[j], o) \in Int
    BY <1>2, <1>9
  <2> QED
    BY <2>1, <2>2 DEF ranks_before
<1> QED
  BY <1>9, <1>10 DEF K

\* What the fields of a view are.
LEMMA ViewIs ==
  ASSUME NEW m, NEW o, NEW r, NEW v, v = structural_view(m, o, r)
  PROVE  /\ v.classes = classes_of(m, o)
         /\ v.eliminated = Hyps \ Survivors(m, o)
         /\ v.outcome = classify(m, v.classes, o)
         /\ v.ranking = rank_classes(m, v.classes, o, r)
         /\ v.next = separable_missing(m, v.classes, o)
         /\ v.checks = UNION {elimination_checks(m, C, o) : C \in v.classes}
         /\ v.text = render_lines(m, v.ranking, o, v.outcome, v.next)
         /\ v.advised = next_observations(v.next, v.checks)
BY DEF structural_view

\* The distinguishers of a class are measured by none, and tell members apart.
LEMMA MissingIs ==
  ASSUME NEW m, NEW o, NEW C
  PROVE  d_missing(m, C, o) =
           {f \in Observables \ usable_ids(o) : \E g, h \in C : m[g].expects[f] # m[h].expects[f]}
BY DEF d_missing, predictions

\* A listed supporting fact is usable, and every member of its class predicts it.
LEMMA SupportIs ==
  ASSUME NEW m \in Models, NEW o \in Measurements, NEW r \in Rankings,
         NEW s, s = rank_classes(m, classes_of(m, o), o, r),
         NEW f \in supporting_evidence(m, s, o)
  PROVE  /\ f \in usable_ids(o)
         /\ \E C \in classes_of(m, o) : \A h \in C : m[h].expects[f] = o[f].state
<1>1. PICK i \in DOMAIN s : \E x \in class_evidence(m, s[i], o) : x[2] = "supports" /\ f = x[1]
  BY DEF supporting_evidence
<1> DEFINE C == s[i]
           k == CHOOSE k \in C : TRUE
<1>2. C \in classes_of(m, o)
  BY RankingIs
<1>3. C # {} /\ \A g \in C : C = ClassOf(m, g, o)
  BY <1>2, ClassesAre
<1>4. k \in C
  BY <1>3
<1> HIDE DEF k
<1>5. PICK x \in class_evidence(m, C, o) : x[2] = "supports" /\ f = x[1]
  BY <1>1
<1>6. PICK g \in usable_ids(o) :
        x = <<g, IF o[g].state = m[k].expects[g] THEN "supports" ELSE "mismatch">>
  BY <1>5 DEF class_evidence, predictions, k
<1>7. f \in usable_ids(o) /\ o[f].state = m[k].expects[f]
  <2>1. x[1] = g /\ x[2] = IF o[g].state = m[k].expects[g] THEN "supports" ELSE "mismatch"
    BY <1>6
  <2> QED
    BY <1>5, <2>1
<1> HIDE DEF C
<1>8. \A h \in C : m[h].expects[f] = o[f].state
  BY <1>3, <1>4, <1>7 DEF ClassOf, Alike
<1> QED
  BY <1>2, <1>7, <1>8

LEMMA Grounded == PartInv => TextIsGrounded
<1> SUFFICES ASSUME PartInv PROVE TextIsGrounded
  OBVIOUS
<1> DEFINE S == Survivors(model, obs)
           K == classes_of(model, obs)
<1>1. /\ model \in Models /\ ranks \in Rankings /\ obs \in Measurements
      /\ view.classes = K /\ view.eliminated = Hyps \ S /\ view.outcome = classify(model, K, obs)
      /\ view.ranking = rank_classes(model, K, obs, ranks)
      /\ view.next = separable_missing(model, K, obs)
      /\ view.checks = UNION {elimination_checks(model, C, obs) : C \in K}
      /\ view.text = render_lines(model, view.ranking, obs, view.outcome, view.next)
      /\ view.advised = next_observations(view.next, view.checks)
  BY ViewIs DEF PartInv, PartTypes
<1>2. /\ S = {h \in Hyps : eliminated_evidence(model, h, obs) = {}} /\ S \subseteq Hyps
      /\ \A C \in K : C # {} /\ C \subseteq S
      /\ \A g \in S : \E C \in K : g \in C
  <2>1. S = {h \in Hyps : eliminated_evidence(model, h, obs) = {}}
    BY ClassesAre
  <2> QED
    BY <2>1, ClassesAre
<1>3. /\ view.outcome = expected_outcome(model, K, obs)
      /\ S = {} <=> K = {}
      /\ view.outcome = "no_compatible_hypothesis" <=> S = {}
  BY <1>1, OutcomeIs
<1>4. ToSet(view.ranking) = K
  BY <1>1, RankingIs
<1>5. UNION K = S
  BY <1>2
<1> HIDE DEF S, K
<1>6. Hyps # {}
  BY PartitionConstants
<1>7. packet_valid(model, view, obs)
  <2>1. {} \notin K /\ (K # {} \/ Hyps \ S # {})
    BY <1>2, <1>3, <1>6
  <2>2. \A h \in Hyps \ S : eliminated_evidence(model, h, obs) # {}
    BY <1>2
  <2>3. S = {} => Hyps \ S # {}
    BY <1>6
  <2> QED
    BY <2>1, <2>2, <2>3, <1>1, <1>3 DEF packet_valid, valid_partition
<1>8. ASSUME NEW f \in view.text.observed
      PROVE  /\ f \in usable_ids(obs) \ (view.text.why \cup view.advised)
             /\ \E C \in view.classes : \A h \in C : h \in view.text.listed /\ model[h].expects[f] = obs[f].state
  <2>1. S # {}
    BY <1>1, <1>3, <1>8 DEF render_lines
  <2>2. /\ view.text.observed = supporting_evidence(model, view.ranking, obs)
        /\ view.text.listed = UNION ToSet(view.ranking)
        /\ view.text.why \subseteq view.next
    <3>1. view.outcome # "no_compatible_hypothesis"
      BY <1>3, <2>1
    <3> QED
      BY <1>1, <3>1 DEF render_lines
  <2>3. /\ f \in usable_ids(obs)
        /\ \E C \in K : \A h \in C : model[h].expects[f] = obs[f].state
    BY <1>1, <1>8, <2>2, SupportIs DEF K
  <2>4. f \notin view.next
    <3>1. \A C \in K : f \notin d_missing(model, C, obs)
      BY <2>3, MissingIs
    <3> QED
      BY <1>1, <3>1 DEF separable_missing
  <2>5. f \notin {c[2] : c \in view.checks} /\ f \in Collectable
    <3>1. \A C \in K : \A c \in elimination_checks(model, C, obs) : c[2] \notin usable_ids(obs)
      BY DEF elimination_checks
    <3>2. \A c \in view.checks : c[2] # f
      BY <1>1, <2>3, <3>1
    <3>3. f \in Collectable
      BY <2>3 DEF usable_ids
    <3> QED
      BY <3>2, <3>3
  <2>6. f \notin view.advised
    BY <1>1, <2>4, <2>5 DEF next_observations
  <2> QED
    BY <1>1, <1>2, <1>4, <1>5, <2>2, <2>3, <2>4, <2>6
<1>9. ASSUME view.text.listed = {}
      PROVE  \A h \in Hyps : h \in view.text.ruled_out /\ eliminated_evidence(model, h, obs) # {}
  <2>1. S = {}
    <3>1. CASE view.outcome = "no_compatible_hypothesis"
      BY <1>3, <3>1
    <3>2. CASE view.outcome # "no_compatible_hypothesis"
      <4>1. view.text.listed = UNION ToSet(view.ranking)
        BY <1>1, <3>2 DEF render_lines
      <4> QED
        BY <4>1, <1>4, <1>5, <1>9
    <3> QED
      BY <3>1, <3>2
  <2>2. view.text.ruled_out = Hyps \ S
    BY <1>1, <1>3, <2>1 DEF render_lines, S
  <2> QED
    BY <1>2, <2>1, <2>2
<1> QED
  BY <1>7, <1>8, <1>9 DEF TextIsGrounded

LEMMA Proven == PartInv => EliminationIsProven
<1> SUFFICES ASSUME PartInv PROVE EliminationIsProven
  OBVIOUS
<1> DEFINE S == Survivors(model, obs)
           K == classes_of(model, obs)
<1>1. view.classes = K /\ view.eliminated = Hyps \ S /\ view.outcome = classify(model, K, obs)
  BY ViewIs DEF PartInv
<1>2. S = {h \in Hyps : eliminated_evidence(model, h, obs) = {}} /\ S \subseteq Hyps
  BY ClassesAre
<1>3. view.outcome = "identified" => K = {S} /\ \E h : S = {h}
  BY <1>1, OutcomeIs
<1> HIDE DEF S, K
<1> QED
  BY <1>1, <1>2, <1>3 DEF EliminationIsProven

LEMMA Useful == PartInv => AdviceIsUseful
<1> SUFFICES ASSUME PartInv PROVE AdviceIsUseful
  OBVIOUS
<1>1. /\ view.classes = classes_of(model, obs) /\ view.eliminated = Hyps \ Survivors(model, obs)
      /\ view.next = separable_missing(model, view.classes, obs)
      /\ view.checks = UNION {elimination_checks(model, C, obs) : C \in view.classes}
  BY ViewIs DEF PartInv
<1>2. \A C \in view.classes : C \subseteq Survivors(model, obs)
  BY <1>1, ClassesAre
<1>3. ASSUME NEW f \in view.next
      PROVE  /\ f \in Collectable \ usable_ids(obs)
             /\ \E C \in view.classes : \E g, h \in C : model[g].expects[f] # model[h].expects[f]
  BY <1>1, <1>3, MissingIs DEF separable_missing
<1>4. ASSUME NEW c \in view.checks PROVE c[1] \notin view.eliminated /\ c[2] \notin usable_ids(obs)
  BY <1>1, <1>2, <1>4 DEF elimination_checks
<1> QED
  BY <1>3, <1>4 DEF AdviceIsUseful

LEMMA Ordered == PartInv => RankerOnlyBreaksTies
<1>1. ASSUME PartInv
      PROVE  /\ model \in Models /\ ranks \in Rankings /\ obs \in Measurements
             /\ view.classes = classes_of(model, obs)
             /\ view.ranking = rank_classes(model, view.classes, obs, ranks)
  BY <1>1, ViewIs DEF PartInv, PartTypes
<1> QED
  BY <1>1, RankingIs DEF RankerOnlyBreaksTies

(* From one view to the next.                                              *)

LEMMA PartStart == PartitionInit => PartInv
<1> SUFFICES ASSUME PartitionInit PROVE PartInv
  OBVIOUS
<1>1. Unmeasured \in [state : MeasuredStates \cup {""}, conf : Int]
  BY DEF Unmeasured
<1>2. obs = [f \in Observables |-> Unmeasured]
  BY DEF PartitionInit, PartitionStarts
<1>3. obs \in Measurements
  BY <1>1, <1>2 DEF Measurements
<1> QED
  BY <1>3 DEF PartitionInit, PartitionStarts, PartInv, PartTypes

\* A step keeps the invariant and every usable fact.
LEMMA PartStep ==
  ASSUME PartInv, [PartitionNext]_partitionVars
  PROVE  /\ PartInv' /\ model' = model
         /\ usable_ids(obs) \subseteq usable_ids(obs')
         /\ \A f \in usable_ids(obs) : obs'[f].state = obs[f].state
<1>1. CASE UNCHANGED partitionVars
  BY <1>1 DEF PartInv, PartTypes, partitionVars
<1>2. ASSUME NEW f \in Observables, NEW s \in MeasuredStates, NEW conf \in Confidences, Measure(f, s, conf)
      PROVE  /\ PartInv' /\ model' = model
             /\ usable_ids(obs) \subseteq usable_ids(obs')
             /\ \A g \in usable_ids(obs) : obs'[g].state = obs[g].state
  <2>1. /\ f \in Collectable \ usable_ids(obs) /\ obs' = [obs EXCEPT ![f] = [state |-> s, conf |-> conf]]
        /\ view' = structural_view(model, obs', ranks) /\ model' = model /\ ranks' = ranks
    BY <1>2 DEF Measure
  <2>2. obs \in Measurements /\ conf \in Int
    BY PartitionConstants DEF PartInv, PartTypes
  <2>3. obs' \in Measurements
    BY <2>1, <2>2 DEF Measurements
  <2>4. \A g \in usable_ids(obs) : g \in Observables /\ g # f
    BY <2>1, PartitionConstants DEF usable_ids
  <2>5. \A g \in usable_ids(obs) : obs'[g] = obs[g]
    BY <2>1, <2>2, <2>4 DEF Measurements
  <2>6. usable_ids(obs) \subseteq usable_ids(obs')
    BY <2>5 DEF usable_ids
  <2> QED
    BY <2>1, <2>3, <2>5, <2>6 DEF PartInv, PartTypes
<1>3. ASSUME NEW r \in Rankings, Rescore(r)
      PROVE  PartInv' /\ model' = model /\ obs' = obs
  BY <1>3 DEF Rescore, PartInv, PartTypes
<1> QED
  BY <1>1, <1>2, <1>3 DEF PartitionNext, partitionVars

\* Usable facts only join others, so the contradicted stay contradicted and the
\* distinguished stay distinguished.
LEMMA Refines ==
  ASSUME PartInv, [PartitionNext]_partitionVars
  PROVE  /\ obs' = obs => view'.classes = view.classes /\ view'.outcome = view.outcome
         /\ view.eliminated \subseteq view'.eliminated
         /\ \A g, h \in Hyps : Together(view', g, h) => Together(view, g, h)
<1>1. /\ PartInv' /\ model' = model
      /\ usable_ids(obs) \subseteq usable_ids(obs')
      /\ \A f \in usable_ids(obs) : obs'[f].state = obs[f].state
  BY PartStep
<1> DEFINE S == Survivors(model, obs)
           T == Survivors(model, obs')
<1>2. /\ view.classes = classes_of(model, obs) /\ view.eliminated = Hyps \ S
      /\ view.outcome = classify(model, view.classes, obs)
  BY ViewIs DEF PartInv
<1>3. /\ view'.classes = classes_of(model, obs') /\ view'.eliminated = Hyps \ T
      /\ view'.outcome = classify(model, view'.classes, obs')
  <2>1. view' = structural_view(model, obs', ranks')
    BY <1>1 DEF PartInv
  <2> QED
    BY <2>1, ViewIs
<1>4. /\ S = {h \in Hyps : eliminated_evidence(model, h, obs) = {}}
      /\ T = {h \in Hyps : eliminated_evidence(model, h, obs') = {}}
  BY ClassesAre
<1>5. T \subseteq S
  <2>1. \A h : eliminated_evidence(model, h, obs) \subseteq eliminated_evidence(model, h, obs')
    BY <1>1 DEF eliminated_evidence
  <2> QED
    BY <1>4, <2>1
<1>6. ASSUME NEW g \in Hyps, NEW h \in Hyps, Together(view', g, h) PROVE Together(view, g, h)
  <2>1. PICK C \in classes_of(model, obs') : g \in C /\ h \in C
    BY <1>3, <1>6 DEF Together
  <2>2. g \in T /\ h \in T /\ h \in ClassOf(model, g, obs')
    BY <2>1, ClassesAre DEF T
  <2>3. h \in ClassOf(model, g, obs)
    BY <1>1, <1>5, <2>2 DEF ClassOf, Alike
  <2>4. ClassOf(model, g, obs) \in classes_of(model, obs) /\ g \in ClassOf(model, g, obs)
    BY <1>5, <2>2, ClassesAre DEF S
  <2> QED
    BY <1>2, <2>3, <2>4 DEF Together
<1>7. ASSUME obs' = obs PROVE view'.classes = view.classes /\ view'.outcome = view.outcome
  BY <1>2, <1>3, <1>7
<1> HIDE DEF S, T
<1> QED
  BY <1>2, <1>3, <1>5, <1>6, <1>7

\* While nobody is contradicted, an irreducible class stays, and a distinguisher
\* that becomes usable separates.
LEMMA Announced ==
  ASSUME PartInv, [PartitionNext]_partitionVars, view'.eliminated = view.eliminated
  PROVE  /\ view.outcome = "irreducible" => view'.outcome = "irreducible"
         /\ view.outcome = "non_identifiable" /\ (view.next \cap usable_ids(obs')) # {}
              => view'.outcome = "uncertain"
<1>1. PartInv' /\ model' = model
  BY PartStep
<1> DEFINE S == Survivors(model, obs)
           Out == classify(model, classes_of(model, obs), obs)
           OutN == classify(model, classes_of(model, obs'), obs')
           Same(o) == \A g, h \in S : Alike(model, g, h, o)
<1>2. /\ view.classes = classes_of(model, obs) /\ view.eliminated = Hyps \ S
      /\ view.outcome = Out /\ view.next = separable_missing(model, view.classes, obs)
  BY ViewIs DEF PartInv
<1>3. /\ view'.classes = classes_of(model, obs') /\ view'.eliminated = Hyps \ Survivors(model, obs')
      /\ view'.outcome = OutN
  <2>1. view' = structural_view(model, obs', ranks')
    BY <1>1 DEF PartInv
  <2> QED
    BY <2>1, ViewIs
<1>4. Survivors(model, obs') = S
  <2>1. S \subseteq Hyps /\ Survivors(model, obs') \subseteq Hyps
    BY DEF Survivors
  <2> QED
    BY <1>2, <1>3, <2>1
<1>5. /\ Out = "no_compatible_hypothesis" <=> S = {}
      /\ Out = "uncertain" <=> ~Same(obs)
      /\ (S # {} /\ Same(obs)) =>
           /\ classes_of(model, obs) = {S}
           /\ Out = "irreducible" <=> (~\E h : S = {h}) /\ d_missing(model, S, obs) = {}
           /\ Out = "non_identifiable" <=> (~\E h : S = {h}) /\ d_missing(model, S, obs) # {}
  BY OutcomeIs
<1>6. /\ OutN = "uncertain" <=> ~Same(obs')
      /\ (S # {} /\ Same(obs')) =>
           (OutN = "irreducible" <=> (~\E h : S = {h}) /\ d_missing(model, S, obs') = {})
  BY <1>4, OutcomeIs
<1>7. \A o : usable_ids(o) \subseteq Observables
  BY PartitionConstants DEF usable_ids
<1> HIDE DEF S, Out, OutN
<1>8. ASSUME Out = "irreducible" PROVE OutN = "irreducible"
  <2>1. S # {} /\ Same(obs) /\ (~\E h : S = {h}) /\ d_missing(model, S, obs) = {}
    BY <1>5, <1>8
  <2>2. \A f \in Observables : \A g, h \in S : model[g].expects[f] = model[h].expects[f]
    BY <2>1, MissingIs DEF Alike
  <2>3. Same(obs') /\ d_missing(model, S, obs') = {}
    BY <1>7, <2>2, MissingIs DEF Alike
  <2> QED
    BY <1>6, <2>1, <2>3
<1>9. ASSUME Out = "non_identifiable", NEW f \in view.next, f \in usable_ids(obs') PROVE OutN = "uncertain"
  <2>1. S # {} /\ Same(obs) /\ classes_of(model, obs) = {S}
    BY <1>5, <1>9
  <2>2. f \in d_missing(model, S, obs)
    BY <1>2, <1>9, <2>1 DEF separable_missing
  <2>3. ~Same(obs')
    BY <1>9, <2>2, MissingIs DEF Alike
  <2> QED
    BY <1>6, <2>3
<1> QED
  BY <1>2, <1>3, <1>8, <1>9

\* The structural view of an incident can be relied on while measurements arrive
\* (partition, outcome, scoring and presentation of src/core/rca): its text is
\* grounded, its eliminations are proven, its advice is useful, its order rests on
\* evidence, and later views refine earlier ones as their outcome announced.
THEOREM PartitionRight == PartitionSpec => ViewsRefineWithEvidence
<1> DEFINE Good == TextIsGrounded /\ EliminationIsProven /\ AdviceIsUseful /\ RankerOnlyBreaksTies
           Splits == /\ obs' = obs => view'.classes = view.classes /\ view'.outcome = view.outcome
                     /\ view.eliminated \subseteq view'.eliminated
                     /\ \A g, h \in Hyps : Together(view', g, h) => Together(view, g, h)
           Keeps == view'.eliminated = view.eliminated =>
                      /\ view.outcome = "irreducible" => view'.outcome = "irreducible"
                      /\ view.outcome = "non_identifiable" /\ (view.next \cap usable_ids(obs')) # {}
                           => view'.outcome = "uncertain"
<1>1. PartitionInit => PartInv
  BY PartStart
<1>2. PartInv /\ [PartitionNext]_partitionVars => PartInv'
  BY PartStep
<1>3. PartInv => Good
  BY Grounded, Proven, Useful, Ordered
<1>4. PartInv /\ [PartitionNext]_partitionVars => Splits
  BY Refines
<1>5. PartInv /\ [PartitionNext]_partitionVars => Keeps
  BY Announced
<1>6. PartitionSpec => []Good
  <2> HIDE DEF Good
  <2> QED
    BY <1>1, <1>2, <1>3, PTL DEF PartitionSpec
<1>7. PartitionSpec => [][Splits]_partitionVars
  <2> HIDE DEF Splits
  <2> QED
    BY <1>1, <1>2, <1>4, PTL DEF PartitionSpec
<1>8. PartitionSpec => [][Keeps]_partitionVars
  <2> HIDE DEF Keeps
  <2> QED
    BY <1>1, <1>2, <1>5, PTL DEF PartitionSpec
<1> QED
  BY <1>6, <1>7, <1>8 DEF ViewsRefineWithEvidence, EvidenceOnlySplits, OutcomeKeepsItsWord

(***************************************************************************)
(* The ranking: what a sorted list, a tree and a feature table are; how    *)
(* the blame of failed calls adds up; what the reordering weighs; and what *)
(* is known of a ranking at every stage of it.                             *)
(***************************************************************************)
\* ByScore lists every candidate once, the highest key first.
LEMMA SortIs ==
  ASSUME NEW S, IsFiniteSet(S), \A x \in S : x.svc \in TeleServices, NEW key \in [S -> Int],
         NEW s, s = ByScore(S, key)
  PROVE  /\ s \in Seq(S) /\ Len(s) = Cardinality(S) /\ DOMAIN s = 1 .. Len(s) /\ ToSet(s) = S
         /\ \A i, j \in DOMAIN s : s[i] = s[j] => i = j
         /\ \A i, j \in DOMAIN s : i < j => key[s[i]] >= key[s[j]]
<1> DEFINE N == Cardinality(S)
           g == [x \in S |-> -NameOrder[x.svc]]
           Sorted(q) == \A i, j \in DOMAIN q : i < j =>
                          \/ key[q[i]] > key[q[j]]
                          \/ key[q[i]] = key[q[j]] /\ NameOrder[q[i].svc] <= NameOrder[q[j].svc]
<1>1. \A x \in S : NameOrder[x.svc] \in Int
  BY RankConstants
<1>2. g \in [S -> Int]
  BY <1>1
<1>3. PICK q \in Bijection(1 .. N, S) :
        \A i, j \in 1 .. N : i < j => key[q[i]] > key[q[j]] \/ (key[q[i]] = key[q[j]] /\ g[q[i]] >= g[q[j]])
  <2> HIDE DEF g
  <2> QED
    BY <1>2, Ranked
<1>4. q \in [1 .. N -> S] /\ DOMAIN q = 1 .. N /\ \A i, j \in 1 .. N : i # j => q[i] # q[j]
  BY DEF Bijection, Injection, IsInjective
<1>5. q \in SetToSeqs(S)
  BY <1>4 DEF SetToSeqs
<1>6. Sorted(q)
  <2> SUFFICES ASSUME NEW i \in 1 .. N, NEW j \in 1 .. N, i < j
               PROVE  \/ key[q[i]] > key[q[j]]
                      \/ key[q[i]] = key[q[j]] /\ NameOrder[q[i].svc] <= NameOrder[q[j].svc]
    BY <1>4
  <2>1. q[i] \in S /\ q[j] \in S
    BY <1>4
  <2>2. g[q[i]] = -NameOrder[q[i].svc] /\ g[q[j]] = -NameOrder[q[j].svc]
    BY <2>1
  <2>3. key[q[i]] > key[q[j]] \/ (key[q[i]] = key[q[j]] /\ g[q[i]] >= g[q[j]])
    BY <1>3
  <2>4. NameOrder[q[i].svc] \in Int /\ NameOrder[q[j].svc] \in Int
    BY <1>1, <2>1
  <2> HIDE DEF g
  <2> QED
    BY <2>2, <2>3, <2>4
<1>7. s = CHOOSE q1 \in SetToSeqs(S) : Sorted(q1)
  BY DEF ByScore
<1> HIDE DEF Sorted
<1>8. s \in SetToSeqs(S) /\ Sorted(s)
  BY <1>5, <1>6, <1>7
<1>9. s \in [1 .. N -> S] /\ \A i, j \in 1 .. N : i # j => s[i] # s[j]
  BY <1>8 DEF SetToSeqs
<1>10. N \in Nat /\ s \in Seq(S) /\ Len(s) = N /\ DOMAIN s = 1 .. N
  BY <1>9, SeqOfLength, FS_CardinalityType
<1>11. s \in Injection(1 .. N, S)
  BY <1>9 DEF Injection, IsInjective
<1>12. IsFiniteSet(1 .. N) /\ Cardinality(1 .. N) = N
  BY <1>10, FS_Interval
<1>13. s \in Surjection(1 .. N, S)
  BY <1>11, <1>12, FS_Injection
<1>14. ToSet(s) = S
  BY <1>10, <1>13 DEF Surjection, ToSet
<1>15. \A i, j \in DOMAIN s : i < j => key[s[i]] >= key[s[j]]
  <2> SUFFICES ASSUME NEW i \in DOMAIN s, NEW j \in DOMAIN s, i < j PROVE key[s[i]] >= key[s[j]]
    OBVIOUS
  <2>1. key[s[i]] \in Int /\ key[s[j]] \in Int
    BY <1>9, <1>10
  <2>2. key[s[i]] > key[s[j]] \/ key[s[i]] = key[s[j]]
    BY <1>8 DEF Sorted
  <2> QED
    BY <2>1, <2>2
<1> QED
  BY <1>9, <1>10, <1>14, <1>15

\* A walk of a tree, from a node down.
Walks(t, x, w) ==
  w = [n \in DOMAIN t |->
         IF t[n].left = 0 THEN t[n].value
         ELSE IF x[t[n].feature] <= t[n].threshold THEN w[t[n].left] ELSE w[t[n].right]]

\* A tree whose children come after their parent gives every row a value.
LEMMA PredictIs ==
  ASSUME NEW t, well_grown(t), NEW x
  PROVE  predict(t, x) \in Int
<1> DEFINE L == Len(t)
           D == DOMAIN t
           leaf(n) == t[n].left = 0
           child(n) == IF x[t[n].feature] <= t[n].threshold THEN t[n].left ELSE t[n].right
           Right(f, k) == /\ f \in [D -> Int]
                          /\ \A n \in D : n > L - k => f[n] = IF leaf(n) THEN t[n].value ELSE f[child(n)]
           bad == {k \in 0 .. L : ~\E f : Right(f, k)}
<1>1. /\ L \in Nat \ {0} /\ D = 1 .. L
      /\ \A n \in D : t[n].value \in Int /\ (~leaf(n) => child(n) \in n + 1 .. L)
  BY DEF well_grown
<1> HIDE DEF leaf, child, D, L
<1>2. bad = {}
  <2> SUFFICES ASSUME bad # {} PROVE FALSE
    OBVIOUS
  <2>1. PICK k \in bad : \A j \in bad : k <= j
    <3>1. bad \subseteq Nat
      BY <1>1
    <3> HIDE DEF bad
    <3> QED
      BY <3>1, LeastOf
  <2>2. k \in 0 .. L /\ ~\E f : Right(f, k)
    OBVIOUS
  <2>3. k # 0
    <3>1. Right([n \in D |-> 0], 0)
      BY <1>1
    <3> QED
      BY <2>2, <3>1
  <2>4. k - 1 \in 0 .. L /\ k - 1 \notin bad
    <3>1. k \in Nat /\ k - 1 < k
      BY <2>2, <1>1
    <3>2. k - 1 \in 0 .. L
      BY <2>2, <2>3, <1>1
    <3> HIDE DEF bad
    <3> QED
      BY <2>1, <3>1, <3>2
  <2>5. PICK f : Right(f, k - 1)
    BY <2>4
  <2> DEFINE m == L - k + 1
             v == IF leaf(m) THEN t[m].value ELSE f[child(m)]
             g == [f EXCEPT ![m] = v]
  <2>6. m \in D /\ m \in Nat
    BY <1>1, <2>2, <2>3
  <2>7. f \in [D -> Int] /\ \A n \in D : n > m => f[n] = IF leaf(n) THEN t[n].value ELSE f[child(n)]
    <3>1. L - (k - 1) = m
      BY <1>1, <2>2
    <3> QED
      BY <2>5, <3>1
  <2>8. v \in Int
    BY <1>1, <2>6, <2>7
  <2> HIDE DEF v, m
  <2>9. g \in [D -> Int] /\ g[m] = v /\ \A n \in D : n # m => g[n] = f[n]
    BY <2>6, <2>7, <2>8
  <2> HIDE DEF g
  <2>10. ASSUME NEW n \in D, n > L - k PROVE g[n] = IF leaf(n) THEN t[n].value ELSE g[child(n)]
    <3>1. n \in Nat /\ n >= m
      BY <1>1, <2>2, <2>10 DEF m
    <3>2. ~leaf(n) => child(n) \in D /\ child(n) # m /\ g[child(n)] = f[child(n)]
      BY <1>1, <2>6, <2>9, <3>1
    <3>3. CASE n = m
      BY <3>2, <3>3, <2>9 DEF v
    <3>4. CASE n # m
      <4>1. n > m
        BY <2>6, <3>1, <3>4
      <4> QED
        BY <2>7, <2>9, <3>2, <3>4, <4>1
    <3> QED
      BY <3>3, <3>4
  <2>11. Right(g, k)
    BY <2>9, <2>10
  <2> QED
    BY <2>2, <2>11
<1>3. PICK f : Right(f, L)
  <2>1. L \in 0 .. L
    BY <1>1
  <2> QED
    BY <1>2, <2>1
<1>4. \A n \in D : f[n] = IF leaf(n) THEN t[n].value ELSE f[child(n)]
  BY <1>1, <1>3
<1>5. f = [n \in D |-> IF leaf(n) THEN t[n].value ELSE f[child(n)]]
  BY <1>3, <1>4
<1>6. f = [n \in DOMAIN t |->
             IF t[n].left = 0 THEN t[n].value
             ELSE IF x[t[n].feature] <= t[n].threshold THEN f[t[n].left] ELSE f[t[n].right]]
  <2>1. \A n \in D : f[n] = IF t[n].left = 0 THEN t[n].value
             ELSE IF x[t[n].feature] <= t[n].threshold THEN f[t[n].left] ELSE f[t[n].right]
    BY <1>4 DEF leaf, child
  <2> QED
    BY <1>3, <2>1 DEF D
<1>7. Walks(t, x, f)
  BY <1>6 DEF Walks
<1>8. predict(t, x) = (CHOOSE w : Walks(t, x, w))[1]
  BY Zenon DEF predict, Walks
<1> DEFINE w == CHOOSE w : Walks(t, x, w)
<1>9. Walks(t, x, w)
  BY <1>7
<1> HIDE DEF w
<1>10. \A n \in D : w[n] = IF leaf(n) THEN t[n].value ELSE w[child(n)]
  BY <1>9 DEF Walks, leaf, child, D
<1> DEFINE deep == {d \in 0 .. L : L - d \in D /\ w[L - d] \notin Int}
<1>11. deep = {}
  <2> SUFFICES ASSUME deep # {} PROVE FALSE
    OBVIOUS
  <2>1. PICK d \in deep : \A j \in deep : d <= j
    <3>1. deep \subseteq Nat
      BY <1>1
    <3> HIDE DEF deep
    <3> QED
      BY <3>1, LeastOf
  <2>2. d \in 0 .. L /\ L - d \in D /\ w[L - d] \notin Int
    OBVIOUS
  <2>3. ~leaf(L - d) /\ w[L - d] = w[child(L - d)]
    BY <2>2, <1>1, <1>10
  <2> DEFINE c == child(L - d)
  <2>4. c \in (L - d) + 1 .. L
    BY <2>2, <2>3, <1>1
  <2>5. w[c] \notin Int
    BY <2>2, <2>3
  <2> HIDE DEF c
  <2>6. L - c \in 0 .. L /\ L - (L - c) = c /\ c \in D /\ L - c < d
    BY <1>1, <2>2, <2>4
  <2>7. L - c \in deep
    BY <2>5, <2>6
  <2>8. d <= L - c
    <3> HIDE DEF deep
    <3> QED
      BY <2>1, <2>7
  <2> QED
    BY <1>1, <2>2, <2>6, <2>8
<1>12. w[1] \in Int
  <2>1. L - 1 \in 0 .. L /\ L - (L - 1) = 1 /\ 1 \in D
    BY <1>1
  <2> QED
    BY <1>11, <2>1
<1> QED
  BY <1>8, <1>12 DEF w

\* A score is a percentage.
LEMMA ScoreIs ==
  ASSUME NEW c \in RankConfigs, NEW x
  PROVE  score(c.trees, x) \in 0 .. 100
<1> DEFINE p == [i \in DOMAIN c.trees |-> predict(c.trees[i], x)]
<1>1. c.trees \in Seq(ToSet(c.trees)) /\ \A t \in ToSet(c.trees) : well_grown(t)
  BY RankConstants
<1>2. DOMAIN c.trees = 1 .. Len(c.trees) /\ Len(c.trees) \in Nat /\ \A i \in DOMAIN c.trees : c.trees[i] \in ToSet(c.trees)
  BY <1>1 DEF ToSet
<1>3. IsFiniteSet(DOMAIN c.trees)
  BY <1>2, FS_Interval
<1>4. p \in [DOMAIN c.trees -> Int]
  BY <1>1, <1>2, PredictIs
<1>5. SumFunction(p) \in Int
  <2> HIDE DEF p
  <2> QED
    BY <1>3, <1>4, SumType
<1> QED
  BY <1>5 DEF score

GoodCands(cs, E) ==
  /\ cs \in Seq(ToSet(cs)) /\ Len(cs) \in Nat /\ DOMAIN cs = 1 .. Len(cs) /\ IsFiniteSet(ToSet(cs))
  /\ \A i, j \in DOMAIN cs : cs[i].svc = cs[j].svc => i = j
  /\ \A c \in ToSet(cs) :
       /\ c.svc \in TeleServices /\ c.score \in 0 .. 100 /\ c.err \in Nat
       /\ c.err > 0 => \E e \in ErrorLines(E) : e.svc = c.svc

BestFirst(cs) == \A i, j \in DOMAIN cs : i < j => cs[i].score >= cs[j].score

\* A service with error lines has some.
LEMMA ErrorsAre ==
  ASSUME NEW E, IsFiniteSet(E), NEW s
  PROVE  log_err(E, s) \in Nat /\ (log_err(E, s) > 0 => \E e \in ErrorLines(E) : e.svc = s)
<1> DEFINE S == {e \in ErrorLines(E) : e.svc = s}
<1>1. S \subseteq E
  BY DEF ErrorLines, During
<1>2. IsFiniteSet(S) /\ Cardinality(S) \in Nat /\ (S = {} => Cardinality(S) = 0)
  BY <1>1, FS_Subset, FS_CardinalityType, FS_EmptySet
<1>3. log_err(E, s) = Cardinality(S)
  BY DEF log_err
<1>4. (\E e \in ErrorLines(E) : e.svc = s) <=> S # {}
  OBVIOUS
<1> HIDE DEF S
<1> QED
  BY <1>2, <1>3, <1>4

\* A candidate per service of the table, with its score and its error lines.
LEMMA CandsAre ==
  ASSUME NEW config \in RankConfigs, NEW E, IsFiniteSet(E), NEW T, NEW M,
         NEW cs, cs = build_candidates(config.trees, compute_features(E, T, M))
  PROVE  GoodCands(cs, E) /\ BestFirst(cs)
<1> DEFINE table == compute_features(E, T, M)
           D == DOMAIN table \ Excluded
           cand(s) == [svc |-> s, score |-> score(config.trees, table[s]), err |-> table[s].log_err,
                       modalities |-> modalities(table[s])]
           S == {cand(s) : s \in D}
           key == [c \in S |-> c.score]
<1>1. DOMAIN table \subseteq TeleServices /\ \A s \in DOMAIN table : table[s].log_err = log_err(E, s)
  BY DEF compute_features, feature_services
<1>2. cs = ByScore(S, key)
  BY DEF build_candidates
<1> HIDE DEF table
<1>3. IsFiniteSet(D)
  BY <1>1, RankConstants, FS_Subset
<1>4. ASSUME NEW s \in D
      PROVE  /\ cand(s).svc = s /\ s \in TeleServices /\ cand(s).score \in 0 .. 100
             /\ cand(s).err = log_err(E, s)
  <2>1. score(config.trees, table[s]) \in 0 .. 100
    BY ScoreIs
  <2> QED
    BY <1>1, <2>1
<1>5. IsFiniteSet(S)
  <2> DEFINE f == [s \in D |-> cand(s)]
  <2>1. f \in Surjection(D, S)
    BY DEF Surjection
  <2> QED
    BY <1>3, <2>1, FS_Surjection
<1>6. ASSUME NEW c \in S
      PROVE  /\ c.svc \in D /\ c = cand(c.svc) /\ c.svc \in TeleServices /\ c.score \in 0 .. 100
             /\ c.err = log_err(E, c.svc)
  <2>1. PICK s \in D : c = cand(s)
    OBVIOUS
  <2> QED
    BY <1>4, <2>1
<1>7. \A c \in S : c.err \in Nat /\ (c.err > 0 => \E e \in ErrorLines(E) : e.svc = c.svc)
  <2> HIDE DEF S
  <2> QED
    BY <1>6, ErrorsAre
<1>8. key \in [S -> Int]
  <2>1. \A c \in S : c.score \in Int
    BY <1>6
  <2> QED
    BY <2>1
<1> HIDE DEF S, cand, D
<1>9. /\ cs \in Seq(S) /\ Len(cs) = Cardinality(S) /\ DOMAIN cs = 1 .. Len(cs) /\ ToSet(cs) = S
      /\ \A i, j \in DOMAIN cs : cs[i] = cs[j] => i = j
      /\ \A i, j \in DOMAIN cs : i < j => key[cs[i]] >= key[cs[j]]
  <2> HIDE DEF key
  <2> QED
    BY <1>2, <1>5, <1>6, <1>8, SortIs
<1>10. \A i \in DOMAIN cs : cs[i] \in S
  BY <1>9
<1>11. \A i, j \in DOMAIN cs : cs[i].svc = cs[j].svc => i = j
  BY <1>6, <1>9, <1>10
<1>12. Len(cs) \in Nat
  BY <1>9
<1>13. BestFirst(cs)
  BY <1>9, <1>10 DEF BestFirst
<1>14. GoodCands(cs, E)
  BY <1>5, <1>6, <1>7, <1>9, <1>11, <1>12 DEF GoodCands
<1> QED
  BY <1>13, <1>14

\* What a service that reported nothing during the incident has left changes no
\* feature of any service.
Heard(E, T, M) == {x.svc : x \in During(T) \cup During(M) \cup During(E)}
Only(S, H) == {x \in S : x.svc \in H}

LEMMA SilenceIs ==
  ASSUME NEW E, NEW T, NEW M, NEW heard, heard = Heard(E, T, M)
  PROVE  compute_features(E, T, M) = compute_features(Only(E, heard), Only(T, heard), Only(M, heard))
<1> DEFINE F == Only(E, heard)
           U == Only(T, heard)
           N == Only(M, heard)
<1> USE DEF Heard, Only
<1>1. During(F) = During(E)
  BY DEF During
<1>2. ErrorLines(F) = ErrorLines(E)
  BY <1>1 DEF ErrorLines
<1>3. \A s : /\ log_err(F, s) = log_err(E, s) /\ log_grp(F, s) = log_grp(E, s)
             /\ log_stack(F, s) = log_stack(E, s)
  BY <1>1, <1>2 DEF log_err, log_grp, log_stack
<1>4. \A s : During(Timed(U, s)) = During(Timed(T, s))
  BY DEF During, Timed
<1>5. \A s : During(Timed(T, s)) # {} => Timed(U, s) = Timed(T, s)
  <2> SUFFICES ASSUME NEW s, During(Timed(T, s)) # {} PROVE Timed(U, s) = Timed(T, s)
    OBVIOUS
  <2>1. s \in heard
    BY DEF During, Timed
  <2> QED
    BY <2>1 DEF Timed
<1>6. \A s : During(Timed(T, s)) # {} => tr_rate(U, s) = tr_rate(T, s) /\ tr_dur(U, s) = tr_dur(T, s)
  BY <1>5 DEF tr_rate, tr_dur
<1>7. ASSUME NEW s PROVE PairedSeries(N, s) = PairedSeries(M, s)
  <2>1. CASE s \in heard
    <3>1. {z \in N : z.svc = s} = {z \in M : z.svc = s}
      BY <2>1
    <3>2. \A x : {y \in N : y.svc = s /\ y.metric = x.metric /\ series_key(y) = series_key(x)}
                 = {y \in M : y.svc = s /\ y.metric = x.metric /\ series_key(y) = series_key(x)}
      BY <2>1
    <3> HIDE DEF N
    <3> QED
      BY <3>1, <3>2 DEF PairedSeries
  <2>2. CASE s \notin heard
    <3>1. ASSUME NEW K, K \subseteq M, NEW S \in PairedSeries(K, s) PROVE FALSE
      <4>1. S \subseteq {y \in M : y.svc = s} /\ During(S) # {}
        BY <3>1 DEF PairedSeries
      <4> QED
        BY <2>2, <4>1 DEF During
    <3>2. PairedSeries(N, s) = {} /\ PairedSeries(M, s) = {}
      BY <3>1
    <3> QED
      BY <3>2
  <2> QED
    BY <2>1, <2>2
<1>8. \A s : met_anom(N, s) = met_anom(M, s)
  BY <1>7 DEF met_anom
<1> HIDE DEF F, U, N
<1>9. feature_services(F, U, N) = feature_services(E, T, M)
  BY <1>3, <1>4, <1>7 DEF feature_services
<1>10. compute_features(F, U, N) = compute_features(E, T, M)
  BY <1>3, <1>4, <1>6, <1>7, <1>8, <1>9 DEF compute_features
<1> QED
  BY <1>10 DEF F, U, N

-----------------------------------------------------------------------------
(* Blame.                                                                  *)

\* Equal summands.
LEMMA SumConstant ==
  ASSUME NEW S, IsFiniteSet(S), NEW k \in Int
  PROVE  SumFunction([x \in S |-> k]) = k * Cardinality(S)
<1> DEFINE F == {A \in SUBSET S : SumFunction([x \in A |-> k]) # k * Cardinality(A)}
<1>1. ASSUME F # {} PROVE FALSE
  <2>1. PICK A \in F : \A x \in A : A \ {x} \notin F
    <3>1. F \subseteq SUBSET S
      OBVIOUS
    <3> HIDE DEF F
    <3> QED
      BY <1>1, <3>1, LeastSubset
  <2>2. A \in SUBSET S /\ SumFunction([x \in A |-> k]) # k * Cardinality(A)
    OBVIOUS
  <2>3. CASE A = {}
    <3>1. DOMAIN [x \in A |-> k] = {}
      BY <2>3
    <3>2. SumFunction([x \in A |-> k]) = 0
      BY <3>1, SumEmpty
    <3>3. Cardinality(A) = 0
      BY <2>3, FS_EmptySet
    <3> QED
      BY <2>2, <3>2, <3>3
  <2>4. CASE A # {}
    <3>1. PICK a \in A : TRUE
      BY <2>4
    <3>2. IsFiniteSet(A) /\ IsFiniteSet(A \ {a}) /\ A \ {a} \in SUBSET S
      BY <2>2, FS_Subset
    <3>3. Cardinality(A \ {a}) = Cardinality(A) - 1 /\ Cardinality(A) \in Nat
      BY <3>1, <3>2, FS_RemoveElement, FS_CardinalityType
    <3> DEFINE f == [x \in A |-> k]
    <3>4. f \in [A -> Int] /\ f[a] = k /\ Part(f, A \ {a}) = [x \in A \ {a} |-> k]
      BY DEF Part
    <3>5. SumFunction(f) = f[a] + SumFunction(Part(f, A \ {a}))
      <4> HIDE DEF f
      <4> QED
        BY <3>2, <3>4, SumTake
    <3>6. SumFunction([x \in A \ {a} |-> k]) = k * Cardinality(A \ {a})
      BY <2>1, <3>1, <3>2
    <3>7. SumFunction(f) = k + k * (Cardinality(A) - 1)
      BY <3>3, <3>4, <3>5, <3>6
    <3>8. k + k * (Cardinality(A) - 1) = k * Cardinality(A)
      BY <3>3
    <3> QED
      BY <2>2, <3>7, <3>8
  <2> QED
    BY <2>3, <2>4
<1> QED
  BY <1>1

ByRow(A, B, R, w) == [a \in A |-> SumFunction([b \in {e \in B : <<a, e>> \in R} |-> w[b]])]
ByColumn(A, B, R, w) == [b \in B |-> w[b] * Cardinality({a \in A : <<a, b>> \in R})]

\* A weight counted by row or by column.
LEMMA SumTwice ==
  ASSUME NEW A, IsFiniteSet(A), NEW B, IsFiniteSet(B), NEW R, R \subseteq A \X B, NEW w \in [B -> Int]
  PROVE  SumFunction(ByRow(A, B, R, w)) = SumFunction(ByColumn(A, B, R, w))
<1> DEFINE f == [p \in R |-> w[p[2]]]
           col == [p \in R |-> p[1]]
           row == [p \in R |-> p[2]]
<1>1. IsFiniteSet(R)
  BY FS_Product, FS_Subset
<1>2. f \in [R -> Int] /\ col \in [R -> A] /\ row \in [R -> B]
  OBVIOUS
<1>3. SumFunction(f) = SumFunction(ByClass(f, R, col, A)) /\ SumFunction(f) = SumFunction(ByClass(f, R, row, B))
  <2> HIDE DEF f, col, row
  <2> QED
    BY <1>1, <1>2, SumByClass
<1>4. ASSUME NEW a \in A
      PROVE  SumFunction(Part(f, {p \in R : col[p] = a})) = SumFunction([b \in {e \in B : <<a, e>> \in R} |-> w[b]])
  <2> DEFINE P == {e \in B : <<a, e>> \in R}
             S == {p \in R : col[p] = a}
             k == [b \in P |-> <<a, b>>]
             h == Part(f, S)
  <2>1. \A p \in S : p = <<a, p[2]>> /\ p[2] \in P
    OBVIOUS
  <2>2. k \in Bijection(P, S)
    <3>1. k \in [P -> S]
      OBVIOUS
    <3>2. \A b, c \in P : k[b] = k[c] => b = c
      OBVIOUS
    <3>3. \A p \in S : k[p[2]] = p
      BY <2>1
    <3> HIDE DEF P, S, k
    <3> QED
      BY <2>1, <3>1, <3>2, <3>3 DEF Bijection, Injection, Surjection, IsInjective
  <2>3. IsFiniteSet(S) /\ h \in [S -> Int]
    BY <1>1, FS_Subset DEF Part
  <2>4. [b \in P |-> h[k[b]]] = [b \in P |-> w[b]]
    BY DEF Part
  <2>5. SumFunction([b \in P |-> h[k[b]]]) = SumFunction(h)
    <3> HIDE DEF P, S, k, h
    <3> QED
      BY <2>2, <2>3, SumRenamed
  <2> QED
    BY <2>4, <2>5
<1>5. ASSUME NEW b \in B
      PROVE  SumFunction(Part(f, {p \in R : row[p] = b})) = w[b] * Cardinality({a \in A : <<a, b>> \in R})
  <2> DEFINE S == {p \in R : row[p] = b}
             P == {a \in A : <<a, b>> \in R}
             h == Part(f, S)
             k == [a \in P |-> <<a, b>>]
  <2>1. h = [p \in S |-> w[b]]
    BY DEF Part
  <2>2. IsFiniteSet(S) /\ w[b] \in Int /\ IsFiniteSet(P)
    BY <1>1, FS_Subset
  <2>3. k \in Bijection(P, S)
    <3>1. k \in [P -> S]
      OBVIOUS
    <3>2. \A x, y \in P : k[x] = k[y] => x = y
      OBVIOUS
    <3>3. \A p \in S : p[1] \in P /\ k[p[1]] = p
      OBVIOUS
    <3> HIDE DEF P, S, k
    <3> QED
      BY <3>1, <3>2, <3>3 DEF Bijection, Injection, Surjection, IsInjective
  <2>4. Cardinality(S) = Cardinality(P)
    <3> HIDE DEF P, S, k
    <3>1. ExistsBijection(P, S)
      BY <2>3 DEF ExistsBijection
    <3> QED
      BY <2>2, <3>1, FS_Bijection
  <2>5. SumFunction([p \in S |-> w[b]]) = w[b] * Cardinality(S)
    <3> HIDE DEF S
    <3> QED
      BY <2>2, SumConstant
  <2> QED
    BY <2>1, <2>4, <2>5
<1>6. ByClass(f, R, col, A) = [a \in A |-> SumFunction([b \in {e \in B : <<a, e>> \in R} |-> w[b]])]
  <2> HIDE DEF f, col
  <2> QED
    BY <1>4 DEF ByClass
<1>7. ByClass(f, R, row, B) = [b \in B |-> w[b] * Cardinality({a \in A : <<a, b>> \in R})]
  <2> HIDE DEF f, row
  <2> QED
    BY <1>5 DEF ByClass
<1> HIDE DEF f, row, col
<1> QED
  BY <1>3, <1>6, <1>7 DEF ByRow, ByColumn

\* A share of the whole blame, given to n services, is the whole blame.
LEMMA ShareIs ==
  ASSUME NEW n \in 1 .. Cardinality(TeleServices)
  PROVE  share(n) \in Nat /\ share(n) * n = BlameUnit
<1>1. BlameUnit \in Nat /\ BlameUnit % n = 0 /\ n \in Nat \ {0}
  BY RankConstants
<1> DEFINE b == BlameUnit
<1>2. (b \div n) * n = b /\ b \div n \in Nat
  <2> HIDE DEF b
  <2>1. b \in Nat /\ b % n = 0
    BY <1>1 DEF b
  <2>2. b = n * (b \div n) + (b % n)
    BY <1>1, <2>1
  <2>3. b \div n \in Nat
    BY <1>1, <2>1
  <2> QED
    BY <1>1, <2>1, <2>2, <2>3
<1> QED
  BY <1>2 DEF share

\* The blame is numbers, for finitely many services, and adds up.
LEMMA BlameIs ==
  ASSUME NEW T, IsFiniteSet(T), T \subseteq SpanPool
  PROVE  LET dep == failed_edge_dependencies(T)
         IN /\ dep \in [DOMAIN dep -> Nat] /\ IsFiniteSet(DOMAIN dep)
            /\ SumFunction(dep) = BlameUnit * Cardinality({x \in During(T) : x.status = "error"})
<1> DEFINE W == During(T)
           errors == {x \in W : x.status = "error"}
           callees(x) == {y.svc : y \in {z \in W : z.parent = x.id /\ z.svc # x.svc}}
           blamed(x) == IF callees(x) = {} THEN {x.svc} ELSE callees(x)
           A == UNION {blamed(x) : x \in errors}
           w == [x \in errors |-> share(Cardinality(blamed(x)))]
           R == {p \in A \X errors : p[1] \in blamed(p[2])}
           dep == failed_edge_dependencies(T)
<1>1. dep = [s \in A |-> SumFunction([x \in {e \in errors : s \in blamed(e)} |-> w[x]])]
  <2>1. \A s : [x \in {e \in errors : s \in blamed(e)} |-> share(Cardinality(blamed(x)))]
               = [x \in {e \in errors : s \in blamed(e)} |-> w[x]]
    OBVIOUS
  <2> QED
    BY <2>1 DEF failed_edge_dependencies
<1>2. errors \subseteq T /\ W \subseteq T
  BY DEF During
<1>3. \A x \in T : x.svc \in TeleServices
  BY SignalConstants
<1>4. \A x \in errors : blamed(x) \subseteq TeleServices /\ blamed(x) # {}
  BY <1>2, <1>3
<1> HIDE DEF callees, W
<1>5. A \subseteq TeleServices
  BY <1>4
<1>6. IsFiniteSet(A) /\ IsFiniteSet(errors)
  BY <1>2, <1>5, RankConstants, FS_Subset
<1> HIDE DEF blamed, errors
<1>7. ASSUME NEW x \in errors
      PROVE  Cardinality(blamed(x)) \in 1 .. Cardinality(TeleServices)
  <2>1. IsFiniteSet(blamed(x)) /\ Cardinality(blamed(x)) <= Cardinality(TeleServices)
    BY <1>4, RankConstants, FS_Subset
  <2>2. Cardinality(blamed(x)) \in Nat /\ Cardinality(blamed(x)) # 0 /\ Cardinality(TeleServices) \in Nat
    BY <1>4, <2>1, RankConstants, FS_CardinalityType, FS_EmptySet
  <2> QED
    BY <2>1, <2>2
<1>8. \A x \in errors : w[x] \in Nat /\ w[x] * Cardinality(blamed(x)) = BlameUnit
  BY <1>7, ShareIs
<1>9. w \in [errors -> Nat]
  BY <1>8
<1>10. \A s \in A : {e \in errors : s \in blamed(e)} = {e \in errors : <<s, e>> \in R}
  OBVIOUS
<1>11. \A e \in errors : {s \in A : <<s, e>> \in R} = blamed(e)
  OBVIOUS
<1>12. R \subseteq A \X errors
  OBVIOUS
<1> HIDE DEF R, A, w
<1>13. dep = [s \in A |-> SumFunction([x \in {e \in errors : <<s, e>> \in R} |-> w[x]])]
  BY <1>1, <1>10
<1>14. SumFunction(dep) = SumFunction(ByColumn(A, errors, R, w))
  <2>1. w \in [errors -> Int]
    BY <1>9
  <2>2. dep = ByRow(A, errors, R, w)
    BY <1>13 DEF ByRow
  <2> QED
    BY <1>6, <1>12, <2>1, <2>2, SumTwice
<1>15. ByColumn(A, errors, R, w) = [e \in errors |-> BlameUnit]
  BY <1>8, <1>11 DEF ByColumn
<1>16. SumFunction([e \in errors |-> BlameUnit]) = BlameUnit * Cardinality(errors)
  <2>1. BlameUnit \in Int
    BY RankConstants
  <2> QED
    BY <1>6, <2>1, SumConstant
<1>17. ASSUME NEW s \in A PROVE dep[s] \in Nat
  <2> DEFINE P == {e \in errors : <<s, e>> \in R}
  <2>1. dep[s] = SumFunction([x \in P |-> w[x]])
    BY <1>13
  <2>2. IsFiniteSet(P) /\ [x \in P |-> w[x]] \in [P -> Nat]
    BY <1>6, <1>9, FS_Subset
  <2> HIDE DEF P
  <2> QED
    BY <2>1, <2>2, SumType
<1>18. DOMAIN dep = A /\ dep \in [A -> Nat]
  BY <1>13, <1>17
<1> QED
  BY <1>6, <1>14, <1>15, <1>16, <1>18 DEF errors, W

-----------------------------------------------------------------------------
(* Reordering.                                                             *)

\* Whoever is reached is so in some number of hops, and a neighbour in one.
LEMMA HopsAre ==
  ASSUME NEW edges, NEW s, NEW hops, hops = _undirected_hops(edges, s)
  PROVE  /\ s \notin DOMAIN hops /\ \A n \in DOMAIN hops : hops[n] \in 1 .. MaxHops
         /\ \A n : n # s /\ {<<s, n>>, <<n, s>>} \cap edges # {} => n \in DOMAIN hops /\ hops[n] = 1
<1> DEFINE next(N) == N \cup {e[1] : e \in {x \in edges : x[2] \in N}} \cup {e[2] : e \in {x \in edges : x[1] \in N}}
           Steps(w) == w = [d \in 0 .. MaxHops |-> IF d = 0 THEN {s} ELSE next(w[d - 1])]
           U == {s} \cup {e[1] : e \in edges} \cup {e[2] : e \in edges}
           Right(f, k) == /\ f \in [0 .. MaxHops -> SUBSET U] /\ f[0] = {s}
                          /\ \A d \in 1 .. k : f[d] = next(f[d - 1])
           bad == {k \in 0 .. MaxHops : ~\E f : Right(f, k)}
<1>1. MaxHops \in Nat \ {0}
  BY RankConstants
<1>2. \A N \in SUBSET U : next(N) \in SUBSET U /\ N \subseteq next(N)
  OBVIOUS
<1>3. \A n : {<<s, n>>, <<n, s>>} \cap edges # {} => n \in next({s})
  OBVIOUS
<1>4. {s} \in SUBSET U
  OBVIOUS
<1> HIDE DEF next, U
<1>5. bad = {}
  <2> SUFFICES ASSUME bad # {} PROVE FALSE
    OBVIOUS
  <2>1. PICK k \in bad : \A j \in bad : k <= j
    <3>1. bad \subseteq Nat
      BY <1>1
    <3> HIDE DEF bad
    <3> QED
      BY <3>1, LeastOf
  <2>2. k \in 0 .. MaxHops /\ ~\E f : Right(f, k)
    OBVIOUS
  <2>3. k # 0
    <3>1. Right([d \in 0 .. MaxHops |-> {s}], 0)
      BY <1>1, <1>4
    <3> QED
      BY <2>2, <3>1
  <2>4. k - 1 \in 0 .. MaxHops /\ k - 1 \notin bad
    <3>1. k - 1 \in 0 .. MaxHops /\ ~(k <= k - 1)
      BY <1>1, <2>2, <2>3
    <3> HIDE DEF bad
    <3> QED
      BY <2>1, <3>1
  <2>5. PICK f : Right(f, k - 1)
    BY <2>4
  <2> DEFINE g == [f EXCEPT ![k] = next(f[k - 1])]
  <2>6. f[k - 1] \in SUBSET U /\ next(f[k - 1]) \in SUBSET U
    BY <1>2, <2>4, <2>5
  <2>7. g \in [0 .. MaxHops -> SUBSET U] /\ g[k] = next(f[k - 1]) /\ \A d \in 0 .. MaxHops : d # k => g[d] = f[d]
    BY <2>2, <2>5, <2>6
  <2> HIDE DEF g
  <2>8. ASSUME NEW d \in 1 .. k PROVE g[d] = next(g[d - 1])
    <3>1. d - 1 \in 0 .. MaxHops /\ d - 1 # k /\ d \in 0 .. MaxHops /\ g[d - 1] = f[d - 1]
      BY <1>1, <2>2, <2>7
    <3>2. CASE d = k
      BY <2>7, <3>1, <3>2
    <3>3. CASE d # k
      <4>1. d \in 1 .. k - 1
        BY <2>2, <3>3
      <4> QED
        BY <2>5, <2>7, <3>1, <3>3, <4>1
    <3> QED
      BY <3>2, <3>3
  <2>9. g[0] = {s}
    BY <1>1, <2>3, <2>5, <2>7
  <2>10. Right(g, k)
    BY <2>7, <2>8, <2>9
  <2> QED
    BY <2>2, <2>10
<1>6. PICK f : Right(f, MaxHops)
  <2>1. MaxHops \in 0 .. MaxHops
    BY <1>1
  <2> QED
    BY <1>5, <2>1
<1>7. Steps(f)
  <2>1. \A d \in 0 .. MaxHops : f[d] = IF d = 0 THEN {s} ELSE next(f[d - 1])
    BY <1>1, <1>6
  <2> QED
    BY <1>6, <2>1
<1> DEFINE w == CHOOSE w : Steps(w)
<1>8. Steps(w)
  BY <1>7
<1>9. hops = [m \in w[MaxHops] \ {s} |-> CHOOSE d \in 1 .. MaxHops : m \in w[d] /\ m \notin w[d - 1]]
  BY Zenon DEF _undirected_hops, next
<1> HIDE DEF w
<1>10. w[0] = {s} /\ \A d \in 1 .. MaxHops : w[d] = next(w[d - 1])
  <2> DEFINE v == [d \in 0 .. MaxHops |-> IF d = 0 THEN {s} ELSE next(w[d - 1])]
  <2>1. v[0] = {s} /\ \A d \in 1 .. MaxHops : v[d] = next(w[d - 1])
    BY <1>1
  <2>2. w = v
    BY <1>8
  <2> HIDE DEF v
  <2> QED
    BY <2>1, <2>2
<1>11. ASSUME NEW n, n # s, n \in next({s}), NEW d \in 1 .. MaxHops PROVE n \in w[d] /\ w[d] \in SUBSET U
  <2> DEFINE out == {k \in 1 .. MaxHops : ~(n \in w[k] /\ w[k] \in SUBSET U)}
  <2> SUFFICES ASSUME out # {} PROVE FALSE
    OBVIOUS
  <2>1. PICK k \in out : \A j \in out : k <= j
    <3>1. out \subseteq Nat
      BY <1>1
    <3> HIDE DEF out
    <3> QED
      BY <3>1, LeastOf
  <2>2. k \in 1 .. MaxHops /\ ~(n \in w[k] /\ w[k] \in SUBSET U) /\ w[k] = next(w[k - 1])
    BY <1>10
  <2>3. k # 1
    <3>1. CASE k = 1
      <4>1. w[k] = next({s})
        BY <1>10, <2>2, <3>1
      <4> QED
        BY <1>2, <1>4, <1>11, <2>2, <4>1
    <3> QED
      BY <3>1
  <2>4. k - 1 \in 1 .. MaxHops /\ k - 1 \notin out
    <3>1. k - 1 \in 1 .. MaxHops /\ ~(k <= k - 1)
      BY <1>1, <2>2, <2>3
    <3> HIDE DEF out
    <3> QED
      BY <2>1, <3>1
  <2>5. n \in w[k - 1] /\ w[k - 1] \in SUBSET U
    BY <2>4
  <2> QED
    BY <1>2, <2>2, <2>5
<1>12. ASSUME NEW n, n # s, n \in next({s}) PROVE n \in DOMAIN hops /\ hops[n] = 1
  <2>1. n \in w[MaxHops] \ {s} /\ n \in w[1] /\ n \notin w[0] /\ 1 \in 1 .. MaxHops /\ 1 - 1 = 0
    BY <1>1, <1>10, <1>11, <1>12
  <2>2. ASSUME NEW d \in 1 .. MaxHops, n \in w[d], n \notin w[d - 1] PROVE d = 1
    <3>1. CASE d # 1
      <4>1. d - 1 \in 1 .. MaxHops
        BY <1>1, <3>1
      <4> QED
        BY <1>11, <1>12, <2>2, <4>1
    <3> QED
      BY <3>1
  <2>3. (CHOOSE d \in 1 .. MaxHops : n \in w[d] /\ n \notin w[d - 1]) = 1
    BY <2>1, <2>2
  <2> QED
    BY <1>9, <2>1, <2>3
<1>13. ASSUME NEW n \in DOMAIN hops PROVE hops[n] \in 1 .. MaxHops
  <2>1. n \in w[MaxHops] /\ n # s
    BY <1>9
  <2> DEFINE far == {d \in 0 .. MaxHops : n \in w[d]}
  <2>2. MaxHops \in far /\ far \subseteq Nat
    BY <1>1, <2>1
  <2>3. PICK d \in far : \A j \in far : d <= j
    <3> HIDE DEF far
    <3> QED
      BY <2>2, LeastOf
  <2>4. d \in 0 .. MaxHops /\ n \in w[d] /\ d # 0
    BY <1>10, <2>1
  <2>5. d \in 1 .. MaxHops /\ n \notin w[d - 1]
    <3>1. d \in 1 .. MaxHops /\ d - 1 \in 0 .. MaxHops /\ ~(d <= d - 1)
      BY <1>1, <2>4
    <3>2. d - 1 \notin far
      <4> HIDE DEF far
      <4> QED
        BY <2>3, <3>1
    <3> QED
      BY <3>1, <3>2
  <2>6. (CHOOSE k \in 1 .. MaxHops : n \in w[k] /\ n \notin w[k - 1]) \in 1 .. MaxHops
    BY <2>4, <2>5
  <2> QED
    BY <1>9, <2>6
<1>14. s \notin DOMAIN hops
  BY <1>9
<1>15. ASSUME NEW n, n # s, {<<s, n>>, <<n, s>>} \cap edges # {} PROVE n \in DOMAIN hops /\ hops[n] = 1
  BY <1>3, <1>12, <1>15
<1> QED
  BY <1>13, <1>14, <1>15

\* tanh is an integer, odd, half for one and positive for what is.
LEMMA SquashIs ==
  ASSUME NEW num \in Int, NEW den \in Nat \ {0}
  PROVE  /\ squash(num, den) \in Int
         /\ num >= 0 => squash(num, den) >= 0
         /\ num < 0 => squash(num, den) <= 0
         /\ num = den => squash(num, den) = 50
         /\ num = -den => squash(num, den) = -50
<1>1. CASE num >= 0
  <2>1. squash(num, den) = (100 * num) \div (num + den)
    BY <1>1 DEF squash
  <2>2. 100 * num \in Nat /\ num + den \in Nat \ {0}
    BY <1>1
  <2>3. (100 * num) \div (num + den) \in Nat
    BY <2>2
  <2>4. num = den => (100 * num) \div (num + den) = 50
    BY <1>1
  <2> QED
    BY <1>1, <2>1, <2>3, <2>4
<1>2. CASE num < 0
  <2> DEFINE m == -num
  <2>1. squash(num, den) = -((100 * m) \div (den + m)) /\ m \in Nat
    BY <1>2 DEF squash
  <2>2. num = -m
    OBVIOUS
  <2> HIDE DEF m
  <2>3. 100 * m \in Nat /\ den + m \in Nat \ {0}
    BY <2>1
  <2>4. (100 * m) \div (den + m) \in Nat
    BY <2>3
  <2>5. m = den => (100 * m) \div (den + m) = 50
    BY <2>1
  <2>6. num = -den => m = den
    BY <2>1, <2>2
  <2> QED
    BY <1>2, <2>1, <2>2, <2>4, <2>5, <2>6
<1> QED
  BY <1>1, <1>2

Peak(f) == Max({1} \cup {f[x] : x \in DOMAIN f})

\* The greatest of one and some counts.
LEMMA PeakIs ==
  ASSUME NEW S, IsFiniteSet(S), NEW f \in [S -> Nat],
         NEW k, k = Peak(f)
  PROVE  /\ k \in Nat \ {0} /\ \A x \in S : f[x] <= k
         /\ k = 1 \/ \E x \in S : k = f[x]
<1> DEFINE V == {f[x] : x \in S}
<1>1. IsFiniteSet(V)
  <2>1. f \in Surjection(S, V)
    BY DEF Surjection
  <2> QED
    BY <2>1, FS_Surjection
<1>2. V \subseteq Nat
  OBVIOUS
<1>3. IsFiniteSet({1} \cup V)
  <2>1. {1} \cup V = V \cup {1}
    OBVIOUS
  <2> HIDE DEF V
  <2> QED
    BY <1>1, <2>1, FS_AddElement
<1> DEFINE U == {1} \cup V
<1> HIDE DEF U
<1>4. Max(U) \in U /\ \A y \in U : Max(U) >= y
  <2>1. IsFiniteSet(U) /\ U \subseteq Int /\ U # {}
    BY <1>2, <1>3 DEF U
  <2> QED
    BY <2>1, MaxFacts
<1>5. k = Max(U)
  BY DEF U, Peak
<1> QED
  BY <1>2, <1>4, <1>5 DEF U

\* The parts of propagation_score, by name.
Anomalous(cs) == {d \in ToSet(cs) : d.err > 0}
Loudest(cs) == Peak([d \in Anomalous(cs) |-> d.err])
Gap(c, d, onset) == IF onset[d.svc] > onset[c.svc] THEN onset[d.svc] - onset[c.svc]
                    ELSE onset[c.svc] - onset[d.svc]
Weight(c, d, hops, onset) ==
  IF {c.svc, d.svc} \subseteq DOMAIN onset /\ Gap(c, d, onset) > OnsetGap
  THEN precedence(onset[c.svc], onset[d.svc]) * d.err * HopWeight[hops[d.svc]]
  ELSE 0
Near(c, cs, hops) == {d \in Anomalous(cs) : d.svc \in DOMAIN hops}
Adjusted(c, cs, hops, onset) ==
  squash(SumFunction([d \in Near(c, cs, hops) |-> Weight(c, d, hops, onset)]), Loudest(cs) * HopWeight[1])
Factor(c, cs, hops, onset) ==
  IF Cardinality(Anomalous(cs)) >= 2 /\ c.err > 0 THEN 400 + Adjusted(c, cs, hops, onset) ELSE 400
Blame(c, dep) == IF c.svc \in DOMAIN dep THEN dep[c.svc] ELSE 0
Boost(c, dep) == (40000 * Blame(c, dep)) \div Peak(dep)

LEMMA BoostIs ==
  ASSUME NEW c, NEW dep, dep \in [DOMAIN dep -> Nat], IsFiniteSet(DOMAIN dep)
  PROVE  /\ Boost(c, dep) \in Nat
         /\ Boost(c, dep) = IF c.svc \in DOMAIN dep
                            THEN (40000 * dep[c.svc]) \div Peak(dep) ELSE 0
<1> DEFINE most == Peak(dep)
<1>1. most \in Nat \ {0}
  BY PeakIs
<1>2. Blame(c, dep) \in Nat
  BY DEF Blame
<1>3. Boost(c, dep) = (40000 * Blame(c, dep)) \div most
  BY DEF Boost
<1> HIDE DEF most
<1>4. (40000 * Blame(c, dep)) \div most \in Nat
  <2>1. 40000 * Blame(c, dep) \in Nat
    BY <1>2
  <2> QED
    BY <1>1, <2>1
<1>5. CASE c.svc \notin DOMAIN dep
  <2>1. Blame(c, dep) = 0
    BY <1>5 DEF Blame
  <2>2. Boost(c, dep) = 0
    BY <1>1, <1>3, <2>1
  <2> QED
    BY <1>3, <1>4, <1>5, <2>2
<1>6. CASE c.svc \in DOMAIN dep
  <2>1. Blame(c, dep) = dep[c.svc]
    BY <1>6 DEF Blame
  <2> QED
    BY <1>3, <1>4, <1>6, <2>1 DEF most
<1> QED
  BY <1>5, <1>6

LEMMA ScoreParts ==
  ASSUME NEW c, NEW cs, NEW edges, NEW onset,
         NEW dep, dep \in [DOMAIN dep -> Nat], IsFiniteSet(DOMAIN dep),
         NEW hops, hops = _undirected_hops(edges, c.svc)
  PROVE  propagation_score(c, cs, edges, onset, dep)
           = c.score * Factor(c, cs, hops, onset) + Boost(c, dep)
<1>1. Boost(c, dep) = IF c.svc \in DOMAIN dep
                      THEN (40000 * dep[c.svc]) \div Max({1} \cup {dep[s] : s \in DOMAIN dep}) ELSE 0
  <2>1. Peak(dep) = Max({1} \cup {dep[s] : s \in DOMAIN dep})
    BY DEF Peak
  <2>2. Boost(c, dep) = IF c.svc \in DOMAIN dep THEN (40000 * dep[c.svc]) \div Peak(dep) ELSE 0
    BY BoostIs
  <2> QED
    BY <2>1, <2>2
<1>2. Loudest(cs) = Max({1} \cup {d.err : d \in Anomalous(cs)})
  <2> DEFINE f == [d \in Anomalous(cs) |-> d.err]
  <2>1. {f[d] : d \in DOMAIN f} = {d.err : d \in Anomalous(cs)}
    OBVIOUS
  <2> QED
    BY <2>1 DEF Loudest, Peak
<1> QED
  BY <1>1, <1>2 DEF propagation_score, Factor, Adjusted, Near, Weight, Gap, Anomalous

\* What is known of the candidates' errors.
LEMMA LoudestIs ==
  ASSUME NEW cs, NEW E, GoodCands(cs, E)
  PROVE  /\ IsFiniteSet(Anomalous(cs)) /\ Loudest(cs) \in Nat \ {0}
         /\ Loudest(cs) = 1 \/ \E d \in Anomalous(cs) : Loudest(cs) = d.err
         /\ \A d \in Anomalous(cs) : d.err <= Loudest(cs)
<1> DEFINE D == Anomalous(cs)
           f == [d \in D |-> d.err]
<1>1. IsFiniteSet(D) /\ \A d \in D : d.err \in Nat
  BY FS_Subset DEF Anomalous, GoodCands
<1>2. f \in [D -> Nat] /\ \A d \in D : f[d] = d.err
  BY <1>1
<1>3. Loudest(cs) = Peak(f)
  BY DEF Loudest
<1> HIDE DEF f, D
<1>4. /\ Loudest(cs) \in Nat \ {0} /\ \A x \in D : f[x] <= Loudest(cs)
      /\ Loudest(cs) = 1 \/ \E x \in D : Loudest(cs) = f[x]
  BY <1>1, <1>2, <1>3, PeakIs
<1> QED
  BY <1>1, <1>2, <1>4 DEF D

\* An onset is the time of an error line of the service.
LEMMA OnsetIs ==
  ASSUME NEW E, E \subseteq ErrorPool, NEW s \in DOMAIN _error_onsets(E)
  PROVE  _error_onsets(E)[s] \in Nat
<1> DEFINE S == {e.at : e \in {x \in ErrorLines(E) : x.svc = s}}
<1>1. _error_onsets(E)[s] = Min(S) /\ S # {}
  BY DEF _error_onsets
<1>2. S \subseteq Nat
  BY RankConstants DEF ErrorLines, During
<1> QED
  BY <1>1, <1>2, FirstFacts

\* The key is a number.
LEMMA KeyIs ==
  ASSUME NEW cs, NEW E, GoodCands(cs, E), NEW F, F \subseteq ErrorPool, NEW c \in ToSet(cs), NEW edges,
         NEW dep, dep \in [DOMAIN dep -> Nat], IsFiniteSet(DOMAIN dep)
  PROVE  propagation_score(c, cs, edges, _error_onsets(F), dep) \in Int
<1> DEFINE onset == _error_onsets(F)
           hops == _undirected_hops(edges, c.svc)
           N == Near(c, cs, hops)
           f == [d \in N |-> Weight(c, d, hops, onset)]
<1>1. propagation_score(c, cs, edges, onset, dep) = c.score * Factor(c, cs, hops, onset) + Boost(c, dep)
  BY ScoreParts
<1>2. \A s \in DOMAIN onset : onset[s] \in Nat
  BY OnsetIs
<1>3. \A n \in DOMAIN hops : hops[n] \in 1 .. MaxHops
  BY HopsAre
<1>4. IsFiniteSet(N) /\ \A d \in N : d.err \in Nat /\ d.svc \in DOMAIN hops
  BY LoudestIs, FS_Subset DEF Near, Anomalous, GoodCands
<1> HIDE DEF onset, hops, N
<1>5. ASSUME NEW d \in N PROVE Weight(c, d, hops, onset) \in Int
  <2>1. HopWeight[hops[d.svc]] \in Nat
    BY <1>3, <1>4, RankConstants
  <2>2. precedence(onset[c.svc], onset[d.svc]) \in Int
    BY DEF precedence
  <2>3. precedence(onset[c.svc], onset[d.svc]) * d.err * HopWeight[hops[d.svc]] \in Int
    BY <1>4, <2>1, <2>2
  <2> QED
    BY <2>3 DEF Weight
<1>6. f \in [N -> Int]
  BY <1>5
<1>7. SumFunction(f) \in Int
  <2> HIDE DEF f
  <2> QED
    BY <1>4, <1>6, SumType
<1>8. Loudest(cs) * HopWeight[1] \in Nat \ {0}
  <2>1. Loudest(cs) \in Nat \ {0} /\ HopWeight[1] \in Nat \ {0}
    BY LoudestIs, RankConstants
  <2> QED
    BY <2>1
<1>9. Adjusted(c, cs, hops, onset) \in Int
  <2>1. squash(SumFunction(f), Loudest(cs) * HopWeight[1]) \in Int
    BY <1>7, <1>8, SquashIs
  <2> QED
    BY <2>1 DEF Adjusted, N
<1>10. Factor(c, cs, hops, onset) \in Int
  BY <1>9 DEF Factor
<1>11. c.score \in Int /\ Boost(c, dep) \in Int
  <2>1. c.score \in 0 .. 100
    BY DEF GoodCands
  <2> QED
    BY <2>1, BoostIs
<1> QED
  BY <1>1, <1>10, <1>11 DEF onset

\* A list taken in another order is as good.
LEMMA SortedGood ==
  ASSUME NEW cs, NEW E, GoodCands(cs, E), NEW key \in [ToSet(cs) -> Int],
         NEW s, s = ByScore(ToSet(cs), key)
  PROVE  /\ GoodCands(s, E) /\ ToSet(s) = ToSet(cs)
         /\ \A i, j \in DOMAIN s : i < j => key[s[i]] >= key[s[j]]
<1> DEFINE S == ToSet(cs)
<1>1. IsFiniteSet(S) /\ \A c \in S : c.svc \in TeleServices
  BY DEF GoodCands
<1>2. /\ s \in Seq(S) /\ Len(s) = Cardinality(S) /\ DOMAIN s = 1 .. Len(s) /\ ToSet(s) = S
      /\ \A i, j \in DOMAIN s : s[i] = s[j] => i = j
      /\ \A i, j \in DOMAIN s : i < j => key[s[i]] >= key[s[j]]
  <2> HIDE DEF S
  <2>1. key \in [S -> Int] /\ s = ByScore(S, key)
    BY DEF S
  <2> QED
    BY <1>1, <2>1, SortIs
<1>3. \A c, d \in S : c.svc = d.svc => c = d
  BY DEF GoodCands, ToSet
<1>4. \A c \in S : /\ c.svc \in TeleServices /\ c.score \in 0 .. 100 /\ c.err \in Nat
                   /\ c.err > 0 => \E e \in ErrorLines(E) : e.svc = c.svc
  BY DEF GoodCands
<1> HIDE DEF S
<1>5. \A i \in DOMAIN s : s[i] \in S
  BY <1>2
<1>6. \A i, j \in DOMAIN s : s[i].svc = s[j].svc => i = j
  BY <1>2, <1>3, <1>5
<1>7. GoodCands(s, E)
  BY <1>1, <1>2, <1>4, <1>6 DEF GoodCands
<1> QED
  BY <1>2, <1>7 DEF S

Keys(cs, edges, F, dep) ==
  [c \in ToSet(cs) |-> propagation_score(c, cs, edges, _error_onsets(F), dep)]

LEMMA RerankIs ==
  ASSUME NEW cs, NEW E, GoodCands(cs, E), NEW F, F \subseteq ErrorPool, NEW services, NEW edges,
         NEW dep, dep \in [DOMAIN dep -> Nat], IsFiniteSet(DOMAIN dep),
         NEW s, s = rerank_candidates(cs, services, edges, _error_onsets(F), dep),
         NEW key, key = Keys(cs, edges, F, dep)
  PROVE  /\ GoodCands(s, E) /\ ToSet(s) = ToSet(cs) /\ key \in [ToSet(cs) -> Int]
         /\ services # {} /\ Len(cs) >= 2 => \A i, j \in DOMAIN s : i < j => key[s[i]] >= key[s[j]]
<1>1. key \in [ToSet(cs) -> Int]
  BY KeyIs DEF Keys
<1>2. CASE services = {} \/ Len(cs) < 2
  <2>1. s = cs
    BY <1>2 DEF rerank_candidates
  <2>2. Len(cs) \in Nat
    BY DEF GoodCands
  <2> QED
    BY <1>1, <1>2, <2>1, <2>2
<1>3. CASE ~(services = {} \/ Len(cs) < 2)
  <2>1. s = ByScore(ToSet(cs), key)
    BY <1>3 DEF rerank_candidates, Keys
  <2> QED
    BY <1>1, <2>1, SortedGood
<1> QED
  BY <1>2, <1>3

\* Of two neighbours alone in having errors, the one that failed first weighs its
\* own score more.
LEMMA FirstWeighsMore ==
  ASSUME NEW cs, NEW E, GoodCands(cs, E), NEW F, F \subseteq ErrorPool, ErrorLines(E) \subseteq ErrorLines(F),
         NEW a \in ToSet(cs), NEW b \in ToSet(cs), Anomalous(cs) = {a, b},
         _error_onsets(F)[b.svc] - _error_onsets(F)[a.svc] > OnsetGap,
         NEW edges, {<<a.svc, b.svc>>, <<b.svc, a.svc>>} \cap edges # {},
         NEW hopsA, hopsA = _undirected_hops(edges, a.svc),
         NEW hopsB, hopsB = _undirected_hops(edges, b.svc)
  PROVE  /\ Factor(a, cs, hopsA, _error_onsets(F)) \in Int /\ Factor(b, cs, hopsB, _error_onsets(F)) \in Int
         /\ Factor(a, cs, hopsA, _error_onsets(F)) > Factor(b, cs, hopsB, _error_onsets(F))
<1> DEFINE onset == _error_onsets(F)
           H == HopWeight[1]
           L == Loudest(cs)
<1>1. a.err \in Nat \ {0} /\ b.err \in Nat \ {0}
  BY DEF Anomalous, GoodCands
<1>2. a.svc \in DOMAIN onset /\ b.svc \in DOMAIN onset
  BY <1>1 DEF _error_onsets, GoodCands
<1>3. onset[a.svc] \in Nat /\ onset[b.svc] \in Nat /\ OnsetGap \in Nat
  BY <1>2, OnsetIs, RankConstants
<1>4. onset[a.svc] < onset[b.svc] /\ a.svc # b.svc /\ a # b
  BY <1>3
<1>5. /\ a.svc \notin DOMAIN hopsA /\ b.svc \in DOMAIN hopsA /\ hopsA[b.svc] = 1
      /\ b.svc \notin DOMAIN hopsB /\ a.svc \in DOMAIN hopsB /\ hopsB[a.svc] = 1
  BY <1>4, HopsAre
<1>6. H \in Nat \ {0} /\ L \in Nat \ {0} /\ a.err <= L /\ b.err <= L /\ (L = a.err \/ L = b.err)
  <2>1. L = 1 \/ \E d \in {a, b} : L = d.err
    BY LoudestIs
  <2>2. H \in Nat \ {0} /\ L \in Nat \ {0} /\ a.err <= L /\ b.err <= L
    BY LoudestIs, RankConstants
  <2> HIDE DEF H, L
  <2> QED
    BY <1>1, <2>1, <2>2
<1> HIDE DEF onset, H, L
<1>7. Near(a, cs, hopsA) = {b} /\ Near(b, cs, hopsB) = {a}
  BY <1>5 DEF Near
<1>8. Weight(a, b, hopsA, onset) = b.err * H /\ Weight(b, a, hopsB, onset) = -(a.err * H)
  <2>1. Gap(a, b, onset) > OnsetGap /\ Gap(b, a, onset) > OnsetGap
    BY <1>3, <1>4 DEF Gap, onset
  <2>2. precedence(onset[a.svc], onset[b.svc]) = 1 /\ precedence(onset[b.svc], onset[a.svc]) = -1
    BY <1>3, <1>4 DEF precedence
  <2>3. /\ Weight(a, b, hopsA, onset) = precedence(onset[a.svc], onset[b.svc]) * b.err * H
        /\ Weight(b, a, hopsB, onset) = precedence(onset[b.svc], onset[a.svc]) * a.err * H
    BY <1>2, <1>5, <2>1 DEF Weight, H
  <2>4. \A n \in Nat \ {0}, p \in Int : (p = 1 => p * n * H = n * H) /\ (p = -1 => p * n * H = -(n * H))
    BY <1>6
  <2> HIDE DEF H
  <2> QED
    BY <1>1, <2>2, <2>3, <2>4
<1> DEFINE fa == [d \in {b} |-> Weight(a, d, hopsA, onset)]
           fb == [d \in {a} |-> Weight(b, d, hopsB, onset)]
<1>9. /\ fa \in [{b} -> Int] /\ fa[b] = b.err * H
      /\ fb \in [{a} -> Int] /\ fb[a] = -(a.err * H)
  BY <1>1, <1>6, <1>8
<1>10. SumFunction(fa) = b.err * H /\ SumFunction(fb) = -(a.err * H)
  <2> HIDE DEF fa, fb
  <2> QED
    BY <1>9, SumOne
<1>11. Adjusted(a, cs, hopsA, onset) = squash(b.err * H, L * H) /\ Adjusted(b, cs, hopsB, onset) = squash(-(a.err * H), L * H)
  BY <1>7, <1>10 DEF Adjusted, H, L
<1>12. b.err * H \in Int /\ a.err * H \in Int /\ L * H \in Nat \ {0} /\ b.err * H >= 0 /\ a.err * H > 0
  BY <1>1, <1>6
<1>13. /\ Adjusted(a, cs, hopsA, onset) \in Int /\ Adjusted(b, cs, hopsB, onset) \in Int
       /\ Adjusted(a, cs, hopsA, onset) >= 0 /\ Adjusted(b, cs, hopsB, onset) <= 0
       /\ L = b.err => Adjusted(a, cs, hopsA, onset) = 50
       /\ L = a.err => Adjusted(b, cs, hopsB, onset) = -50
  <2> DEFINE x == b.err * H
             y == -(a.err * H)
             z == L * H
  <2>1. x \in Int /\ y \in Int /\ z \in Nat \ {0} /\ x >= 0 /\ y < 0 /\ (L = b.err => x = z) /\ (L = a.err => y = -z)
    BY <1>12
  <2> HIDE DEF x, y, z
  <2>2. squash(x, z) \in Int /\ squash(y, z) \in Int /\ squash(x, z) >= 0 /\ squash(y, z) <= 0
    BY <2>1, SquashIs
  <2>3. (x = z => squash(x, z) = 50) /\ (y = -z => squash(y, z) = -50)
    BY <2>1, SquashIs
  <2>4. Adjusted(a, cs, hopsA, onset) = squash(x, z) /\ Adjusted(b, cs, hopsB, onset) = squash(y, z)
    BY <1>11 DEF x, y, z
  <2> QED
    BY <2>1, <2>2, <2>3, <2>4
<1>14. Cardinality({a, b}) >= 2
  <2>1. IsFiniteSet({a}) /\ Cardinality({a}) = 1 /\ {a, b} = {a} \cup {b} /\ b \notin {a}
    BY <1>4, FS_Singleton
  <2>2. Cardinality({a} \cup {b}) = 1 + 1
    BY <2>1, FS_AddElement
  <2> QED
    BY <2>1, <2>2
<1>15. /\ Factor(a, cs, hopsA, onset) = 400 + Adjusted(a, cs, hopsA, onset)
       /\ Factor(b, cs, hopsB, onset) = 400 + Adjusted(b, cs, hopsB, onset)
  BY <1>1, <1>14 DEF Factor
<1> QED
  BY <1>6, <1>13, <1>15 DEF onset

\* What the rows of spans have to say when none was seen in the window.
LEMMA NoEdges ==
  ASSUME NEW T, During(T) = {}, NEW rows \in RowPerId(T)
  PROVE  service_graph_from_spans(rows) = {}
<1>1. DOMAIN rows = {}
  BY DEF RowPerId
<1> QED
  BY <1>1 DEF service_graph_from_spans

Place(s, c) == CHOOSE i \in DOMAIN s : s[i] = c

\* The reordering lists the first of the two to fail before the other.
LEMMA FirstIsListedFirst ==
  ASSUME NEW cs, NEW E, GoodCands(cs, E), NEW F, F \subseteq ErrorPool, ErrorLines(E) \subseteq ErrorLines(F),
         NEW T, NEW rows \in RowPerId(T),
         NEW dep, dep \in [DOMAIN dep -> Nat], IsFiniteSet(DOMAIN dep),
         NEW a \in ToSet(cs), NEW b \in ToSet(cs), a.score = b.score, a.score > 0, Blame(a, dep) = Blame(b, dep),
         Anomalous(cs) = {a, b}, _error_onsets(F)[b.svc] - _error_onsets(F)[a.svc] > OnsetGap,
         {<<a.svc, b.svc>>, <<b.svc, a.svc>>} \cap service_graph_from_spans(rows) # {},
         NEW s, s = rerank_candidates(cs, {x.svc : x \in During(T)}, service_graph_from_spans(rows),
                                      _error_onsets(F), dep)
  PROVE  Place(s, a) < Place(s, b)
<1> DEFINE edges == service_graph_from_spans(rows)
           onset == _error_onsets(F)
           hopsA == _undirected_hops(edges, a.svc)
           hopsB == _undirected_hops(edges, b.svc)
           key == Keys(cs, edges, F, dep)
           services == {x.svc : x \in During(T)}
<1>1. services # {}
  BY NoEdges
<1>2. a.err > 0 /\ a.svc \in DOMAIN onset /\ b.svc \in DOMAIN onset
  BY DEF Anomalous, GoodCands, _error_onsets
<1>3. onset[a.svc] # onset[b.svc]
  <2>1. onset[a.svc] \in Nat /\ onset[b.svc] \in Nat /\ OnsetGap \in Nat
    BY <1>2, OnsetIs, RankConstants
  <2> QED
    BY <2>1
<1>4. a # b
  BY <1>3
<1>5. Len(cs) >= 2
  <2>1. PICK i, j \in 1 .. Len(cs) : a = cs[i] /\ b = cs[j]
    BY DEF ToSet, GoodCands
  <2>2. Len(cs) \in Nat
    BY DEF GoodCands
  <2> QED
    BY <1>4, <2>1, <2>2
<1> HIDE DEF edges, onset, services
<1>6. /\ GoodCands(s, E) /\ ToSet(s) = ToSet(cs) /\ key \in [ToSet(cs) -> Int]
      /\ \A i, j \in DOMAIN s : i < j => key[s[i]] >= key[s[j]]
  <2>1. s = rerank_candidates(cs, services, edges, _error_onsets(F), dep)
    BY DEF services, edges, onset
  <2> HIDE DEF key
  <2>2. key = Keys(cs, edges, F, dep)
    BY DEF key
  <2>3. /\ GoodCands(s, E) /\ ToSet(s) = ToSet(cs) /\ key \in [ToSet(cs) -> Int]
        /\ services # {} /\ Len(cs) >= 2 => \A i, j \in DOMAIN s : i < j => key[s[i]] >= key[s[j]]
    <3>1. GoodCands(s, E)
      BY <2>1, RerankIs
    <3>2. ToSet(s) = ToSet(cs)
      BY <2>1, RerankIs
    <3>3. key \in [ToSet(cs) -> Int]
      BY <2>2, RerankIs
    <3>4. services # {} /\ Len(cs) >= 2 => \A i, j \in DOMAIN s : i < j => key[s[i]] >= key[s[j]]
      BY <2>1, <2>2, RerankIs
    <3> QED
      BY <3>1, <3>2, <3>3, <3>4
  <2> QED
    BY <1>1, <1>5, <2>3
<1>7. /\ Factor(a, cs, hopsA, onset) \in Int /\ Factor(b, cs, hopsB, onset) \in Int
      /\ Factor(a, cs, hopsA, onset) > Factor(b, cs, hopsB, onset)
  BY FirstWeighsMore DEF edges, onset
<1>8. /\ key[a] = a.score * Factor(a, cs, hopsA, onset) + Boost(a, dep)
      /\ key[b] = b.score * Factor(b, cs, hopsB, onset) + Boost(b, dep)
  BY ScoreParts DEF Keys, onset
<1>9. Boost(a, dep) = Boost(b, dep) /\ Boost(a, dep) \in Nat
  BY BoostIs DEF Boost
<1>10. key[a] > key[b]
  <2> DEFINE p == a.score
             fa == Factor(a, cs, hopsA, onset)
             fb == Factor(b, cs, hopsB, onset)
             k == Boost(a, dep)
  <2>1. p \in Nat \ {0}
    <3>1. a.score \in 0 .. 100
      BY DEF GoodCands
    <3> QED
      BY <3>1
  <2>2. fa \in Int /\ fb \in Int /\ fa > fb /\ k \in Nat
    BY <1>7, <1>9
  <2>3. key[a] = p * fa + k /\ key[b] = p * fb + k
    BY <1>8, <1>9
  <2> HIDE DEF p, fa, fb, k, key
  <2>4. p * (fa - fb) >= fa - fb
    BY <2>1, <2>2
  <2>5. p * (fa - fb) = p * fa - p * fb /\ p * fa \in Int /\ p * fb \in Int
    BY <2>1, <2>2
  <2> QED
    BY <2>2, <2>3, <2>4, <2>5
<1>11. \A c \in ToSet(cs) : Place(s, c) \in DOMAIN s /\ s[Place(s, c)] = c
  <2> SUFFICES ASSUME NEW c \in ToSet(cs) PROVE Place(s, c) \in DOMAIN s /\ s[Place(s, c)] = c
    OBVIOUS
  <2>1. \E i \in DOMAIN s : s[i] = c
    BY <1>6 DEF ToSet
  <2> QED
    BY <2>1 DEF Place
<1> DEFINE i == Place(s, a)
           j == Place(s, b)
<1>12. i \in DOMAIN s /\ j \in DOMAIN s /\ s[i] = a /\ s[j] = b /\ i \in Int /\ j \in Int
  <2>1. DOMAIN s = 1 .. Len(s)
    BY <1>6 DEF GoodCands
  <2> QED
    BY <1>11, <2>1
<1> HIDE DEF key, i, j
<1>13. ~(j < i) /\ i # j
  <2>1. key[a] \in Int /\ key[b] \in Int
    BY <1>6
  <2>2. j < i => key[b] >= key[a]
    BY <1>6, <1>12
  <2> QED
    BY <1>4, <1>10, <1>12, <2>1, <2>2
<1>14. i < j
  BY <1>12, <1>13
<1> QED
  BY <1>14 DEF i, j

-----------------------------------------------------------------------------
(* A ranking, stage by stage.                                              *)

RankStates ==
  [pc : {"idle", "scored", "silence", "done"}, config : RankConfigs, cands : {ranking.cands},
   top : {ranking.top}, confidence : {ranking.confidence}, silent : {ranking.silent}]

\* The list and the confidence go together at every stage; while the ranker's own
\* order is there, it is by score.
StageInv ==
  /\ IsFiniteSet(errorRows) /\ errorRows \subseteq ErrorPool
  /\ ranking \in RankStates
  /\ ranking.pc = "idle" => ranking.confidence = NoConfidence
  /\ ranking.pc = "scored" =>
       /\ GoodCands(ranking.cands, errorRows) /\ BestFirst(ranking.cands) /\ ranking.cands # <<>>
       /\ ranking.top = ranking.cands[1].svc /\ ranking.confidence = NoConfidence
  /\ ProbabilityIsTheRankers

LEMMA RankStart == RankingInit => SentInv /\ SignalInv /\ StageInv
<1> SUFFICES ASSUME RankingInit PROVE SentInv /\ SignalInv /\ StageInv
  OBVIOUS
<1>1. SentInv /\ SignalInv
  BY SignalsStart DEF RankingInit
<1>2. PICK c \in RankConfigs : ranking = NothingRanked(c)
  BY DEF RankingInit
<1>3. ranking \in RankStates /\ ranking.pc = "idle" /\ ranking.confidence = NoConfidence
  BY <1>2 DEF NothingRanked, RankStates
<1>4. IsFiniteSet(errorRows) /\ errorRows \subseteq ErrorPool
  BY FS_EmptySet DEF RankingInit
<1> QED
  BY <1>1, <1>3, <1>4 DEF StageInv, ProbabilityIsTheRankers

LEMMA RankSame ==
  ASSUME StageInv, UNCHANGED <<errorRows, ranking>> PROVE StageInv'
BY DEF StageInv, RankStates, ProbabilityIsTheRankers

LEMMA RecordStep ==
  ASSUME StageInv, NEW e \in ErrorPool, RecordError(e) PROVE StageInv'
<1>1. errorRows' = errorRows \cup {e} /\ ranking' = ranking
  BY DEF RecordError
<1>2. IsFiniteSet(errorRows') /\ errorRows' \subseteq ErrorPool
  BY <1>1, FS_AddElement DEF StageInv
<1>3. ErrorLines(errorRows) \subseteq ErrorLines(errorRows')
  BY <1>1 DEF ErrorLines, During
<1>4. \A cs : GoodCands(cs, errorRows) => GoodCands(cs, errorRows')
  <2> SUFFICES ASSUME NEW cs, GoodCands(cs, errorRows) PROVE GoodCands(cs, errorRows')
    OBVIOUS
  <2> DEFINE before == ErrorLines(errorRows)
             after == ErrorLines(errorRows')
  <2>1. before \subseteq after
    BY <1>3
  <2>2. \A c \in ToSet(cs) : c.err > 0 => \E x \in before : x.svc = c.svc
    BY DEF GoodCands
  <2> HIDE DEF before, after
  <2>3. \A c \in ToSet(cs) : c.err > 0 => \E x \in after : x.svc = c.svc
    BY <2>1, <2>2
  <2> QED
    BY <2>3 DEF GoodCands, after
<1>5. ranking \in RankStates' /\ ProbabilityIsTheRankers'
  BY <1>1 DEF StageInv, RankStates, ProbabilityIsTheRankers
<1> QED
  BY <1>1, <1>2, <1>4, <1>5 DEF StageInv

LEMMA ScoreStep == ASSUME StageInv, ScoreServices PROVE StageInv'
<1> DEFINE table == compute_features(errorRows, spanRows, sampleRows)
           cs == build_candidates(ranking.config.trees, table)
<1>1. /\ ranking.pc = "idle" /\ ranking.confidence = NoConfidence /\ ranking.config \in RankConfigs
      /\ ranking \in RankStates /\ errorRows' = errorRows
  BY DEF StageInv, RankStates, ScoreServices
<1>2. ranking' = IF ranking.config.trees = <<>> \/ cs = <<>>
                 THEN [ranking EXCEPT !.pc = "silence"]
                 ELSE [ranking EXCEPT !.pc = "scored", !.cands = cs, !.top = cs[1].svc]
  BY DEF ScoreServices
<1>3. GoodCands(cs, errorRows) /\ BestFirst(cs)
  BY <1>1, CandsAre DEF StageInv
<1> HIDE DEF cs
<1>4. ranking'.confidence = NoConfidence
  BY <1>1, <1>2 DEF RankStates
<1>5. ProbabilityIsTheRankers'
  BY <1>4 DEF ProbabilityIsTheRankers
<1>6. /\ ranking' \in RankStates' /\ ranking'.pc # "idle"
      /\ ranking'.pc = "scored" => cs # <<>> /\ ranking'.cands = cs /\ ranking'.top = cs[1].svc
  BY <1>1, <1>2 DEF RankStates
<1> QED
  BY <1>1, <1>3, <1>4, <1>5, <1>6 DEF StageInv

\* What RerankAndCalibrate does to the list.
LEMMA ReorderedIs ==
  ASSUME SentInv, StageInv, RerankAndCalibrate
  PROVE  /\ ranking.pc = "scored" /\ ranking \in RankStates /\ ranking'.pc = "silence" /\ errorRows' = errorRows
         /\ ranking' = [ranking EXCEPT !.pc = "silence", !.cands = ranking'.cands,
                          !.confidence = Calibrated(ranking'.cands, ranking.config, ranking.top)]
         /\ GoodCands(ranking'.cands, errorRows) /\ ToSet(ranking'.cands) = ToSet(ranking.cands)
         /\ IsFiniteSet(DOMAIN failed_edge_dependencies(spanRows))
         /\ failed_edge_dependencies(spanRows) \in [DOMAIN failed_edge_dependencies(spanRows) -> Nat]
         /\ ranking.config.rerank => \E rows \in RowPerId(spanRows) :
              ranking'.cands = rerank_candidates(ranking.cands, {x.svc : x \in During(spanRows)},
                service_graph_from_spans(rows), _error_onsets(errorRows), failed_edge_dependencies(spanRows))
<1> DEFINE dep == failed_edge_dependencies(spanRows)
           new(rows) == rerank_candidates(ranking.cands, {x.svc : x \in During(spanRows)},
                          service_graph_from_spans(rows), _error_onsets(errorRows), dep)
<1>1. ranking.pc = "scored" /\ ranking \in RankStates /\ errorRows' = errorRows
  BY DEF StageInv, RerankAndCalibrate
<1>2. GoodCands(ranking.cands, errorRows) /\ errorRows \subseteq ErrorPool
  BY <1>1 DEF StageInv
<1>3. dep \in [DOMAIN dep -> Nat] /\ IsFiniteSet(DOMAIN dep)
  <2>1. IsFiniteSet(spanRows) /\ spanRows \subseteq SpanPool
    BY FS_Subset DEF SentInv
  <2> QED
    BY <2>1, BlameIs
<1> HIDE DEF dep
<1>4. ASSUME NEW rows \in RowPerId(spanRows)
      PROVE  GoodCands(new(rows), errorRows) /\ ToSet(new(rows)) = ToSet(ranking.cands)
  <2>1. new(rows) = rerank_candidates(ranking.cands, {x.svc : x \in During(spanRows)},
                      service_graph_from_spans(rows), _error_onsets(errorRows), dep)
    OBVIOUS
  <2> DEFINE services == {x.svc : x \in During(spanRows)}
             edges == service_graph_from_spans(rows)
             s == new(rows)
  <2>2. s = rerank_candidates(ranking.cands, services, edges, _error_onsets(errorRows), dep)
    OBVIOUS
  <2> HIDE DEF s, services, edges, new
  <2>3. GoodCands(s, errorRows)
    BY <1>2, <1>3, <2>2, RerankIs
  <2>4. ToSet(s) = ToSet(ranking.cands)
    BY <1>2, <1>3, <2>2, RerankIs
  <2> QED
    BY <2>3, <2>4 DEF s
<1>5. PICK rows \in RowPerId(spanRows) :
        LET cs == IF ~ranking.config.rerank THEN ranking.cands ELSE new(rows)
        IN ranking' = [ranking EXCEPT !.pc = "silence", !.cands = cs,
                         !.confidence = Calibrated(cs, ranking.config, ranking.top)]
  BY DEF RerankAndCalibrate, dep
<1> DEFINE cs == IF ~ranking.config.rerank THEN ranking.cands ELSE new(rows)
<1>6. GoodCands(cs, errorRows) /\ ToSet(cs) = ToSet(ranking.cands) /\ (ranking.config.rerank => cs = new(rows))
  BY <1>2, <1>4
<1>7. ranking' = [ranking EXCEPT !.pc = "silence", !.cands = cs,
                    !.confidence = Calibrated(cs, ranking.config, ranking.top)]
  BY <1>5
<1> HIDE DEF cs, new
<1>8. ranking'.cands = cs /\ ranking'.pc = "silence"
  BY <1>1, <1>7 DEF RankStates
<1> QED
  BY <1>1, <1>3, <1>6, <1>7, <1>8 DEF dep, new

LEMMA RerankStep == ASSUME SentInv, StageInv, RerankAndCalibrate PROVE StageInv'
<1> DEFINE old == ranking.cands
           cs == ranking'.cands
           conf == Calibrated(cs, ranking.config, ranking.top)
           scores == {c.score : c \in ToSet(cs)}
<1>1. /\ ranking.pc = "scored" /\ ranking \in RankStates /\ errorRows' = errorRows
      /\ ranking' = [ranking EXCEPT !.pc = "silence", !.cands = cs, !.confidence = conf]
      /\ GoodCands(cs, errorRows) /\ ToSet(cs) = ToSet(old)
  BY ReorderedIs
<1>2. GoodCands(old, errorRows) /\ BestFirst(old) /\ old # <<>> /\ ranking.top = old[1].svc
  BY <1>1 DEF StageInv
<1> HIDE DEF cs, old
<1>3. 1 \in DOMAIN old /\ DOMAIN old = 1 .. Len(old) /\ Len(old) \in Nat
  BY <1>2 DEF GoodCands
<1>4. 1 \in DOMAIN cs /\ DOMAIN cs = 1 .. Len(cs)
  <2>1. ToSet(cs) # {}
    BY <1>1, <1>3 DEF ToSet
  <2>2. DOMAIN cs = 1 .. Len(cs) /\ Len(cs) \in Nat
    BY <1>1 DEF GoodCands
  <2>3. DOMAIN cs # {}
    BY <2>1 DEF ToSet
  <2> QED
    BY <2>2, <2>3
<1>5. \A c \in ToSet(old) : c.score <= old[1].score
  <2> SUFFICES ASSUME NEW i \in DOMAIN old PROVE old[i].score <= old[1].score
    BY DEF ToSet
  <2>1. old[i].score \in 0 .. 100 /\ old[1].score \in 0 .. 100
    BY <1>2, <1>3 DEF GoodCands, ToSet
  <2>2. CASE i = 1
    BY <2>1, <2>2
  <2>3. CASE i # 1
    <3>1. 1 < i
      BY <1>3, <2>3
    <3> QED
      BY <1>2, <1>3, <3>1 DEF BestFirst
  <2> QED
    BY <2>2, <2>3
<1>6. ASSUME conf # NoConfidence
      PROVE  /\ ranking.config.feature # "none" /\ cs[1] = old[1]
             /\ conf = calibration_feature(cs, ranking.config.feature)
  <2>1. ranking.config.feature # "none" /\ cs[1].svc = ranking.top /\ conf = calibration_feature(cs, ranking.config.feature)
    BY <1>6 DEF Calibrated, may_calibrate
  <2>2. cs[1] \in ToSet(old)
    BY <1>1, <1>4 DEF ToSet
  <2>3. PICK i \in DOMAIN old : old[i] = cs[1]
    BY <2>2 DEF ToSet
  <2>4. i = 1
    BY <1>2, <1>3, <2>1, <2>3 DEF GoodCands
  <2> QED
    BY <2>1, <2>3, <2>4
<1>7. ASSUME conf # NoConfidence, NEW i \in DOMAIN cs PROVE cs[i].score <= cs[1].score
  <2>1. cs[i] \in ToSet(old)
    BY <1>1 DEF ToSet
  <2> QED
    BY <1>5, <1>6, <1>7, <2>1
<1>8. ASSUME conf # NoConfidence, ranking.config.feature = "top_score" PROVE conf = Max(scores)
  <2>1. conf = cs[1].score
    BY <1>6, <1>8 DEF calibration_feature
  <2>2. scores \subseteq 0 .. 100
    BY <1>1 DEF GoodCands
  <2>3. IsFiniteSet(scores) /\ scores \subseteq Int
    <3> DEFINE percents == 0 .. 100
    <3>1. scores \subseteq percents /\ percents \subseteq Int
      BY <2>2
    <3>2. \A n \in Nat : IsFiniteSet(0 .. n)
      BY FS_Interval
    <3>3. IsFiniteSet(percents)
      BY <3>2
    <3> HIDE DEF scores, percents
    <3> QED
      BY <3>1, <3>3, FS_Subset
  <2>4. cs[1].score \in scores
    BY <1>4 DEF ToSet
  <2>5. \A y \in scores : y <= cs[1].score
    BY <1>7, <1>8 DEF ToSet
  <2> HIDE DEF scores
  <2>6. Max(scores) \in scores /\ Max(scores) >= cs[1].score
    BY <2>3, <2>4, MaxFacts
  <2>7. Max(scores) <= cs[1].score
    BY <2>5, <2>6
  <2> QED
    BY <2>1, <2>3, <2>4, <2>6, <2>7
<1> HIDE DEF conf, scores
<1>9. /\ ranking' \in RankStates' /\ ranking'.pc = "silence" /\ ranking'.confidence = conf
      /\ ranking'.cands = cs /\ ranking'.config = ranking.config
  BY <1>1 DEF RankStates
<1>10. ProbabilityIsTheRankers'
  BY <1>7, <1>8, <1>9 DEF ProbabilityIsTheRankers, scores
<1> QED
  BY <1>1, <1>9, <1>10 DEF StageInv

LEMMA SilentStep == ASSUME StageInv, FindSilent PROVE StageInv'
<1>1. /\ ranking \in RankStates /\ errorRows' = errorRows
      /\ ranking' = [ranking EXCEPT !.pc = "done", !.silent = collapsed_services(spanRows)]
  BY DEF StageInv, FindSilent
<1>2. /\ ranking' \in RankStates' /\ ranking'.pc = "done" /\ ranking'.cands = ranking.cands
      /\ ranking'.confidence = ranking.confidence /\ ranking'.config = ranking.config
  BY <1>1 DEF RankStates
<1>3. ProbabilityIsTheRankers'
  BY <1>2 DEF StageInv, ProbabilityIsTheRankers
<1> QED
  BY <1>1, <1>2, <1>3 DEF StageInv

LEMMA RankStep ==
  SentInv /\ SignalInv /\ StageInv /\ [RankingNext]_rankVars => SentInv' /\ SignalInv' /\ StageInv'
<1> SUFFICES ASSUME SentInv, SignalInv, StageInv, [RankingNext]_rankVars PROVE SentInv' /\ SignalInv' /\ StageInv'
  OBVIOUS
<1>1. [SignalsNext]_signalVars
  BY DEF RankingNext, RecordError, ScoreServices, RerankAndCalibrate, FindSilent, rankVars
<1>2. SentInv' /\ SignalInv'
  BY <1>1, SignalsStep
<1>3. StageInv'
  BY RankSame, RecordStep, ScoreStep, RerankStep, SilentStep DEF RankingNext, rankVars
<1> QED
  BY <1>2, <1>3

LEMMA ClueStep ==
  ASSUME StageInv, [RankingNext]_rankVars, ranking.pc = "idle", ranking'.pc = "scored",
         NEW heard, heard = Heard(errorRows, spanRows, sampleRows)
  PROVE  ranking'.cands = build_candidates(ranking.config.trees,
           compute_features(Only(errorRows, heard), Only(spanRows, heard), Only(sampleRows, heard)))
<1> DEFINE table == compute_features(errorRows, spanRows, sampleRows)
           cs == build_candidates(ranking.config.trees, table)
<1>1. ScoreServices
  <2>1. ranking' # ranking
    OBVIOUS
  <2> QED
    BY <2>1 DEF RankingNext, RecordError, RerankAndCalibrate, FindSilent, rankVars
<1>2. ranking' = IF ranking.config.trees = <<>> \/ cs = <<>>
                 THEN [ranking EXCEPT !.pc = "silence"]
                 ELSE [ranking EXCEPT !.pc = "scored", !.cands = cs, !.top = cs[1].svc]
  BY <1>1 DEF ScoreServices
<1>3. table = compute_features(Only(errorRows, heard), Only(spanRows, heard), Only(sampleRows, heard))
  BY SilenceIs
<1> HIDE DEF cs
<1>4. ranking'.cands = cs
  <2>1. ranking \in RankStates
    BY DEF StageInv
  <2> QED
    BY <1>2, <2>1 DEF RankStates
<1> QED
  BY <1>3, <1>4 DEF cs

LEMMA FirstStep ==
  ASSUME SentInv, StageInv, [RankingNext]_rankVars, ranking.pc = "scored", ranking'.pc = "silence",
         ranking.config.rerank,
         NEW a \in ToSet(ranking.cands), NEW b \in ToSet(ranking.cands), a.score = b.score, a.score > 0,
         Blame(a, failed_edge_dependencies(spanRows)) = Blame(b, failed_edge_dependencies(spanRows)),
         Anomalous(ranking.cands) = {a, b},
         _error_onsets(errorRows)[b.svc] - _error_onsets(errorRows)[a.svc] > OnsetGap,
         \A rows \in RowPerId(spanRows) :
           {<<a.svc, b.svc>>, <<b.svc, a.svc>>} \cap service_graph_from_spans(rows) # {}
  PROVE  Place(ranking'.cands, a) < Place(ranking'.cands, b)
<1> DEFINE dep == failed_edge_dependencies(spanRows)
           s == ranking'.cands
<1>1. RerankAndCalibrate
  <2>1. ranking' # ranking
    OBVIOUS
  <2> QED
    BY <2>1 DEF RankingNext, RecordError, ScoreServices, FindSilent, rankVars
<1>2. /\ dep \in [DOMAIN dep -> Nat] /\ IsFiniteSet(DOMAIN dep)
      /\ \E rows \in RowPerId(spanRows) :
           s = rerank_candidates(ranking.cands, {x.svc : x \in During(spanRows)},
                 service_graph_from_spans(rows), _error_onsets(errorRows), dep)
  BY <1>1, ReorderedIs
<1>3. PICK rows \in RowPerId(spanRows) :
        s = rerank_candidates(ranking.cands, {x.svc : x \in During(spanRows)},
              service_graph_from_spans(rows), _error_onsets(errorRows), dep)
  BY <1>2
<1>4. {<<a.svc, b.svc>>, <<b.svc, a.svc>>} \cap service_graph_from_spans(rows) # {}
  OBVIOUS
<1>5. GoodCands(ranking.cands, errorRows) /\ errorRows \subseteq ErrorPool
  BY DEF StageInv
<1>6. Blame(a, dep) = Blame(b, dep)
  OBVIOUS
<1> HIDE DEF dep, s
<1>7. Place(s, a) < Place(s, b)
  BY <1>2, <1>3, <1>4, <1>5, <1>6, FirstIsListedFirst
<1> QED
  BY <1>7 DEF s

LEMMA SharesAddUp == SentInv => BlameAddsUp
<1> SUFFICES ASSUME SentInv PROVE BlameAddsUp
  OBVIOUS
<1>1. IsFiniteSet(spanRows) /\ spanRows \subseteq SpanPool
  BY FS_Subset DEF SentInv
<1> QED
  BY <1>1, BlameIs DEF BlameAddsUp

\* The learned ranking of the candidates (features, ranker, propagation and
\* calibration of src/core/rca): failed calls share out one blame each, silence
\* moves nobody, of two equals the first to fail leads, and a probability is shown
\* only for the candidate it was computed for.
THEOREM RankingRight == RankingSpec => RankingRestsOnEvidence
<1> DEFINE Good == BlameAddsUp /\ ProbabilityIsTheRankers
           Inv == SentInv /\ SignalInv /\ StageInv
<1>1. RankingInit => Inv
  BY RankStart
<1>2. Inv /\ [RankingNext]_rankVars => Inv'
  BY RankStep
<1>3. Inv => Good
  BY SharesAddUp DEF StageInv
<1>4. Inv /\ [RankingNext]_rankVars => SilenceMovesNobody
  BY ClueStep DEF SilenceMovesNobody, Heard, Only
<1>5. Inv /\ [RankingNext]_rankVars => FirstIsAhead
  BY FirstStep DEF FirstIsAhead, Place, Blame, Anomalous
<1>6. RankingSpec => []Good
  <2> HIDE DEF Good, Inv
  <2> QED
    BY <1>1, <1>2, <1>3, PTL DEF RankingSpec
<1>7. RankingSpec => SilenceIsOnlyAClue
  <2> HIDE DEF Inv
  <2> QED
    BY <1>1, <1>2, <1>4, PTL DEF RankingSpec, SilenceIsOnlyAClue
<1>8. RankingSpec => FirstToFailLeads
  <2> HIDE DEF Inv
  <2> QED
    BY <1>1, <1>2, <1>5, PTL DEF RankingSpec, FirstToFailLeads
<1> QED
  BY <1>6, <1>7, <1>8 DEF RankingRestsOnEvidence
=============================================================================
