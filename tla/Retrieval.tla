------------------------------ MODULE Retrieval ------------------------------
(***************************************************************************)
(* The two retrieval queries (src/core/retrieval and their routes): a      *)
(* question answered from the log lines nearest to it (ask), and the       *)
(* clusters of other incidents nearest to the current ones (similar).      *)
(* Both try embeddings first and fall back to plain SQL.                   *)
(*                                                                         *)
(* A failed SELECT aborts the PostgreSQL transaction, so that the SELECTs  *)
(* of the fallback fail with it; a failed embeddings call does not.        *)
(* Ingest may commit lines between two SELECTs.                            *)
(***************************************************************************)
EXTENDS Naturals, Integers, Sequences, FiniteSets, FiniteSetsExt, Functions

CONSTANTS
  AskRows,      \* lines: records [id, scope, fp, svc, lvl, at, kw, sim]; sim 0 is no vector
  AskTables,    \* the tables to start from
  Questions,    \* records [kw, bias, scope, svc, llm]; "" is no bias or filter
  AskLimit,     \* the LIMIT of a search
  AskCap,       \* max_clusters
  AskFrom, AskTo, \* the window
  VectorRows,   \* cluster_embeddings: records [scope, fp]
  ClusterSim,   \* [query text -> [fp -> similarity]]
  MinSim,       \* similar_semantic_min_similarity, ask_semantic_min_similarity
  Callers,      \* records [auth, role, override, scope]
  Queried,      \* the lists of query clusters: sequences of [fp, text]
  SimilarTop    \* top

\* Limits are positive, tables finite, and times and similarities are numbers.
ASSUME RetrievalConstants ==
  /\ {AskLimit, AskCap, SimilarTop} \subseteq Nat \ {0}
  /\ IsFiniteSet(AskRows) /\ AskTables \subseteq SUBSET AskRows
  /\ \A r \in AskRows : r.at \in Int /\ r.sim \in Int
  /\ IsFiniteSet(VectorRows) /\ MinSim \in Int
  /\ \A query \in Queried : /\ DOMAIN query = 1 .. Len(query) /\ Len(query) \in Nat
                             /\ \A i \in DOMAIN query, r \in VectorRows : ClusterSim[query[i].text][r.fp] \in Int

VARIABLES
  lines,  \* log_entries
  ask,    \* the question under way
  sim     \* the similar query under way

retrievalVars == <<lines, ask, sim>>

Quiet == [pc |-> "idle"]

RetrievalInit == lines \in AskTables /\ ask = Quiet /\ sim = Quiet

\* The results ORDER BY key DESC LIMIT n may have.
TopOf(S, key(_), n) ==
  {T \in SUBSET S : /\ Cardinality(T) = Min({n, Cardinality(S)})
                    /\ \A x \in T, y \in S \ T : key(x) >= key(y)}

CommitAskLine(r) ==
  /\ ask.pc \notin {"idle", "done", "raised"} /\ r \notin lines
  /\ lines' = lines \cup {r}
  /\ UNCHANGED <<ask, sim>>
-----------------------------------------------------------------------------
(* answer_question.                                                        *)

InWindow(r) == r.at >= AskFrom /\ r.at <= AskTo

\* _filter_log_entries.
filtered(q, rows) ==
  {r \in rows : /\ r.scope = q.scope /\ InWindow(r)
                /\ q.svc \in {"", r.svc} /\ q.bias \in {"", r.lvl}}

search_logs(q, rows) == {r \in filtered(q, rows) : q.kw => r.kw}

search_logs_semantic(q, rows) == {r \in filtered(q, rows) : r.sim >= MinSim}

\* Mutant: the fallback keeps the level the question suggests.
FallbackKeepsBias(q, rows) == {r \in filtered(q, rows) : r.lvl \in {"error", "fatal", "warn", "critical"}}

\* fetch_fallback_clusters, which takes level_bias and does not use it.
fetch_fallback_clusters(q, rows) ==
  {r \in rows : /\ r.scope = q.scope /\ InWindow(r) /\ q.svc \in {"", r.svc}
                /\ r.lvl \in {"error", "fatal", "warn", "critical"}}

BeginAsk(q) ==
  /\ ask = Quiet /\ sim = Quiet
  /\ ask' = [pc |-> "semantic", q |-> q, before |-> lines]
  /\ UNCHANGED <<lines, sim>>

Retrieved(mode, entries) ==
  [pc |-> "answer", q |-> ask.q, before |-> ask.before, mode |-> mode, entries |-> entries]

\* The embeddings provider is off, down, or answers; the vector SELECT may fail.
AskSemantic(outcome) ==
  /\ ask.pc = "semantic"
  /\ \/ /\ outcome = "hits"
        /\ \E T \in TopOf(search_logs_semantic(ask.q, lines), LAMBDA r : r.sim, AskLimit) :
             T # {} /\ ask' = Retrieved("semantic", T)
     \/ /\ outcome = "none" /\ search_logs_semantic(ask.q, lines) = {}
        /\ ask' = [ask EXCEPT !.pc = "keyword"]
     \/ outcome = "unavailable" /\ ask' = [ask EXCEPT !.pc = "keyword"]
     \/ outcome = "sqlerror" /\ ask' = [ask EXCEPT !.pc = "aborted"]
  /\ UNCHANGED <<lines, sim>>

\* The keyword SELECT in an aborted transaction raises: HTTP 500.
AskRaises ==
  /\ ask.pc = "aborted" /\ ask' = [ask EXCEPT !.pc = "raised"]
  /\ UNCHANGED <<lines, sim>>

AskKeyword ==
  /\ ask.pc = "keyword"
  /\ LET hits == search_logs(ask.q, lines)
     IN \/ hits = {} /\ ask' = [ask EXCEPT !.pc = "fallback"]
        \/ /\ hits # {}
           /\ \E T \in TopOf(hits, LAMBDA r : r.at, AskLimit) : ask' = Retrieved("keyword", T)
  /\ UNCHANGED <<lines, sim>>

AskFallback ==
  /\ ask.pc = "fallback"
  /\ \E T \in TopOf(fetch_fallback_clusters(ask.q, lines), LAMBDA r : r.at, AskLimit) :
       ask' = Retrieved("fallback", T)
  /\ UNCHANGED <<lines, sim>>

Of(entries, fp) == Cardinality({r \in entries : r.fp = fp})

\* cluster_logs: the largest groups, up to the cap.
cluster_logs(entries) ==
  CHOOSE T \in TopOf({r.fp : r \in entries}, LAMBDA fp : Of(entries, fp), AskCap) : TRUE

\* The answer: nothing found, the model's text, or the rules' when the model
\* is off, fails or says nothing.
AnswerAsk(said) ==
  /\ ask.pc = "answer"
  /\ said => ask.q.llm /\ ask.entries # {}
  /\ ask' = [pc |-> "done", q |-> ask.q, before |-> ask.before, mode |-> ask.mode,
             entries |-> ask.entries, clusters |-> cluster_logs(ask.entries),
             total |-> Cardinality(ask.entries), by |-> IF said THEN "llm" ELSE "rules"]
  /\ UNCHANGED <<lines, sim>>
-----------------------------------------------------------------------------
(* find_similar_incidents.                                                 *)

\* resolve_similar_visibility: TRUE is every scope but one's own, FALSE the
\* caller's only.
cross_scope(caller, wants) ==
  IF ~caller.auth \/ caller.role = "admin" THEN wants # "no"
  ELSE caller.override /\ wants = "yes"

\* apply_visibility_filters.
visible(caller, cross, fps, r) ==
  IF cross THEN r.scope # caller.scope ELSE r.scope = caller.scope /\ r.fp \notin fps

QueryFps(query) == {query[i].fp : i \in DOMAIN query}

BeginSimilar(caller, wants, query) ==
  /\ ask = Quiet /\ sim = Quiet
  /\ sim' = [pc |-> IF query = <<>> THEN "done" ELSE "semantic", caller |-> caller, wants |-> wants,
             cross |-> cross_scope(caller, wants), query |-> query,
             mode |-> "fingerprint", matches |-> {}, failed |-> FALSE]
  /\ UNCHANGED <<lines, ask>>

Nearby(text) ==
  {r \in VectorRows : visible(sim.caller, sim.cross, QueryFps(sim.query), r) /\ ClusterSim[text][r.fp] >= MinSim}

\* _merge_matches over the hits of every query vector.
merge_matches(hits) ==
  {[row |-> r, similarity |-> Max({ClusterSim[sim.query[i].text][r.fp] : i \in {j \in DOMAIN hits : r \in hits[j]}})]
     : r \in UNION Range(hits)}

\* What the vector SELECTs of search_similar_semantic may return, one for each
\* queried cluster.
SearchResults ==
  {f \in [DOMAIN sim.query -> SUBSET VectorRows] :
     \A i \in DOMAIN sim.query :
       f[i] \in TopOf(Nearby(sim.query[i].text), LAMBDA r : ClusterSim[sim.query[i].text][r.fp], SimilarTop)}

\* search_similar_semantic, then _ranked.
SimilarSemantic(outcome) ==
  /\ sim.pc = "semantic"
  /\ \/ /\ outcome = "answered"
        /\ \E hits \in SearchResults :
             \E T \in TopOf(merge_matches(hits), LAMBDA m : m.similarity, SimilarTop) :
               sim' = IF T = {} THEN [sim EXCEPT !.pc = "fingerprint"]
                      ELSE [sim EXCEPT !.pc = "done", !.mode = "semantic", !.matches = T]
     \/ outcome = "unavailable" /\ sim' = [sim EXCEPT !.pc = "fingerprint"]
     \/ outcome = "sqlerror" /\ sim' = [sim EXCEPT !.pc = "done", !.failed = TRUE]
  /\ UNCHANGED <<lines, ask>>

ByFingerprint(rows) ==
  {r \in rows : r.fp \in QueryFps(sim.query) /\ visible(sim.caller, sim.cross, QueryFps(sim.query), r)}

\* log_entry_fingerprint_statement: the pairs of the stored lines.
log_entry_pairs == ByFingerprint({[scope |-> l.scope, fp |-> l.fp] : l \in lines})

\* search_similar_fingerprint: cluster_embeddings, then log_entries.
SimilarFingerprint ==
  /\ sim.pc = "fingerprint"
  /\ LET stored == ByFingerprint(VectorRows)
         found == IF stored # {} THEN stored ELSE log_entry_pairs
     IN \E T \in TopOf(found, LAMBDA r : 1, SimilarTop) :
          sim' = [sim EXCEPT !.pc = "done", !.matches = {[row |-> r, similarity |-> 1000] : r \in T}]
  /\ UNCHANGED <<lines, ask>>

RetrievalNext ==
  \/ \E r \in AskRows : CommitAskLine(r)
  \/ \E q \in Questions : BeginAsk(q)
  \/ \E o \in {"hits", "none", "unavailable", "sqlerror"} : AskSemantic(o)
  \/ AskRaises \/ AskKeyword \/ AskFallback
  \/ \E said \in BOOLEAN : AnswerAsk(said)
  \/ \E c \in Callers, wants \in {"yes", "no", "unset"}, query \in Queried : BeginSimilar(c, wants, query)
  \/ \E o \in {"answered", "unavailable", "sqlerror"} : SimilarSemantic(o)
  \/ SimilarFingerprint

RetrievalSpec == RetrievalInit /\ [][RetrievalNext]_retrievalVars
-----------------------------------------------------------------------------
\* An answer rests on what was asked for: every line behind it lies in the
\* caller's scope, window and service, and in the level the question suggests
\* unless it says fallback; the clusters listed hold every line counted unless
\* the cap cut some, and then the ones left out are no larger than a listed one.
AnswerRestsOnMatches ==
  ask.pc = "done" =>
    LET listed == ask.clusters
        left == {r.fp : r \in ask.entries} \ listed
    IN /\ \A r \in ask.entries :
            /\ r.scope = ask.q.scope /\ InWindow(r) /\ ask.q.svc \in {"", r.svc}
            /\ ask.mode # "fallback" => ask.q.bias \in {"", r.lvl}
       /\ left # {} => Cardinality(listed) = AskCap
       /\ \A fp \in left, g \in listed : Of(ask.entries, fp) <= Of(ask.entries, g)

\* "No log activity found" is not said of a window that, when the question
\* came, held an error or a warning of the service asked about; and a failing
\* embeddings provider alone never turns a question into an error.
SilenceMeansQuiet ==
  /\ ask.pc = "done" /\ ask.entries = {} =>
       ~\E r \in ask.before : /\ r.scope = ask.q.scope /\ InWindow(r) /\ ask.q.svc \in {"", r.svc}
                              /\ r.lvl \in {"error", "fatal", "warn", "critical"}
  /\ ask.pc = "done" /\ ask.mode = "fallback" => search_logs(ask.q, ask.before) = {}

Pinned(c) == c.auth /\ c.role # "admin" /\ ~c.override

\* Whatever path found them, the matches of a caller bound to a scope come from
\* that scope only, nobody is shown another scope without having asked for or
\* being entitled to it, and no match is one of the queried clusters itself.
MatchesStayInScope ==
  sim.pc = "done" =>
    \A m \in sim.matches :
      /\ Pinned(sim.caller) => m.row.scope = sim.caller.scope
      /\ sim.caller.auth /\ sim.caller.role # "admin" /\ sim.wants # "yes" => m.row.scope = sim.caller.scope
      /\ ~(m.row.scope = sim.caller.scope /\ m.row.fp \in QueryFps(sim.query))

BestSim(r) == Max({ClusterSim[sim.query[i].text][r.fp] : i \in DOMAIN sim.query})

\* Searching vector by vector with a LIMIT and merging loses nothing: a match
\* carries its similarity to the closest queried cluster, and no visible
\* cluster closer than a listed one is missing.
NearestAreListed ==
  sim.pc = "done" /\ sim.mode = "semantic" =>
    /\ \A m \in sim.matches : m.similarity = BestSim(m.row)
    /\ \A r \in VectorRows, m \in sim.matches :
         /\ visible(sim.caller, sim.cross, QueryFps(sim.query), r)
         /\ BestSim(r) > m.similarity
         => \E n \in sim.matches : n.row = r

\* The fallback does find exact matches: a cross-scope caller is told of a
\* queried fingerprint stored in another scope unless a SELECT failed.  (A
\* caller bound to its scope never is: the filters ask for the queried
\* fingerprints and exclude them.)
FallbackFinds ==
  sim.pc = "done" /\ ~sim.failed /\ sim.cross =>
    ((\E l \in lines : l.fp \in QueryFps(sim.query) /\ l.scope # sim.caller.scope) => sim.matches # {})

\* What retrieval shows was asked for and is the best there is, whichever step of
\* the fallback chain found it: the filters and scopes hold on every path, the
\* nearest are listed, and "nothing" is said only of a quiet window.
RetrievalKeepsToTheQuestion ==
  AnswerRestsOnMatches /\ SilenceMeansQuiet /\ MatchesStayInScope /\ NearestAreListed /\ FallbackFinds
=============================================================================
