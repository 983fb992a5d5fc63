---------------------------- MODULE ExplainCache ----------------------------
(***************************************************************************)
(* POST /query/explain (src/api/routes/explain.py): explanations of one    *)
(* window are computed from the log lines stored at that moment            *)
(* (src/core/explain/summarizer.py), rendered by the LLM or by a template, *)
(* and template results are kept in the explanations table and served      *)
(* again to requests with the same key, while ingestion and retention go   *)
(* on.                                                                     *)
(*                                                                         *)
(* created_at is the start of the computing transaction (Postgres now()),  *)
(* not the moment the row becomes visible.                                 *)
(***************************************************************************)
EXTENDS Naturals, FiniteSets

CONSTANTS
  LogScopes,     \* isolation scopes
  Askers,        \* concurrent requests
  MaxLines,      \* bound on the lines of a window, per scope
  MaxExplains    \* bound on computations

ASSUME ExplainConstants == LogScopes # {} /\ MaxLines \in Nat /\ MaxExplains \in Nat

VARIABLES
  calibrator,  \* rca_ranker_model_path and rca_calibrator_model_path are set
  lines,       \* lines of the window, per scope
  started,     \* computations begun so far: the clock of created_at
  asking,      \* per request: where it is and what it read
  rows,        \* the explanations table
  reply,       \* the response just sent
  refreshed    \* history: per key, the lines there were when the latest saved
               \* computation began

explainVars == <<calibrator, lines, started, asking, rows, reply, refreshed>>

\* What the cache key tells apart; the window and the filters are fixed here.
CacheKeys == [scope : LogScopes, llm : BOOLEAN]
Waiting == [pc |-> "idle", key |-> CHOOSE k \in CacheKeys : TRUE, structural |-> FALSE,
            created |-> 0, before |-> 0, total |-> 0]
NoReply == [cached |-> FALSE, asked |-> Waiting.key, scope |-> Waiting.key.scope, total |-> 0,
            mode |-> "none", text |-> "none", fell_back |-> FALSE, structural |-> FALSE,
            confidence |-> [label |-> "low", score |-> "rank", calibrated |-> FALSE], floor |-> 0]
-----------------------------------------------------------------------------
\* _cache_key: a hash that tells every combination apart.
cache_key(k) == k

\* Mutant: the first row ever saved for the key is served.
FirstSaved(k) ==
  {r \in rows : cache_key(r.key) = cache_key(k)
                /\ \A o \in rows : cache_key(o.key) = cache_key(k) => o.created >= r.created}

\* _load_from_cache: the row of the key with the latest created_at.
load_from_cache(k) ==
  {r \in rows : cache_key(r.key) = cache_key(k)
                /\ \A o \in rows : cache_key(o.key) = cache_key(k) => o.created <= r.created}

\* llm_from_mode: told apart from what was asked, not from what was saved.
fell_back(asked, mode) == asked.llm /\ mode # "llm"

\* confidence_from_value of a saved {"label", "score", "calibrated"} object: the
\* flag is not copied.
confidence_from_value(c) == [label |-> c.label, score |-> c.score, calibrated |-> FALSE]

\* explain_from_cached
explain_from_cached(r, k) ==
  [cached |-> TRUE, asked |-> k, scope |-> r.scope, total |-> r.total, mode |-> r.mode,
   text |-> r.text, fell_back |-> fell_back(k, r.mode), structural |-> FALSE,
   confidence |-> confidence_from_value(r.confidence), floor |-> refreshed[k]]

\* explain_from_result: calibrated only with a real explanation, else the label
\* "low" and its rank.
explain_from_result(a, mode) ==
  LET calibrated == calibrator /\ a.total > 0
  IN [cached |-> FALSE, asked |-> a.key, scope |-> a.key.scope, total |-> a.total, mode |-> mode,
      text |-> IF mode = "llm" THEN "llm" ELSE "template",
      fell_back |-> fell_back(a.key, mode), structural |-> a.structural,
      confidence |-> [label |-> IF a.total > 0 THEN "high" ELSE "low",
                      score |-> IF calibrated THEN "probability" ELSE "rank",
                      calibrated |-> calibrated],
      floor |-> 0]
-----------------------------------------------------------------------------
(* The request.                                                            *)

\* The cache is looked up unless the request forces a refresh or wants the
\* structural view.
ServeCached(q, k) ==
  /\ asking[q].pc = "idle"
  /\ \E r \in load_from_cache(k) : reply' = explain_from_cached(r, k)
  /\ UNCHANGED <<calibrator, lines, started, asking, rows, refreshed>>

BeginExplain(q, k, force, structural) ==
  /\ asking[q].pc = "idle" /\ started < MaxExplains
  /\ force \/ structural \/ load_from_cache(k) = {}
  /\ started' = started + 1
  /\ asking' = [asking EXCEPT ![q] = [pc |-> "reading", key |-> k, structural |-> structural,
                  created |-> started + 1, before |-> lines[k.scope], total |-> 0]]
  /\ reply' = NoReply
  /\ UNCHANGED <<calibrator, lines, rows, refreshed>>

\* run_clustering and assemble_evidence read the lines there are now.
ReadWindow(q) ==
  /\ asking[q].pc = "reading"
  /\ asking' = [asking EXCEPT ![q].pc = "rendering", ![q].total = lines[asking[q].key.scope]]
  /\ reply' = NoReply
  /\ UNCHANGED <<calibrator, lines, started, rows, refreshed>>

\* Only template results are saved, and none with a structural view.
saves(a, mode) == mode = "rules" /\ ~a.structural

\* The summary: the LLM's text when one is asked for, there is an incident and
\* the call succeeds, else the template; then the row, the commit and the reply.
FinishExplain(q) ==
  LET a == asking[q] IN
  /\ a.pc = "rendering"
  /\ \E llmWorks \in BOOLEAN :
       LET mode == IF a.key.llm /\ a.total > 0 /\ llmWorks THEN "llm" ELSE "rules"
           body == explain_from_result(a, mode)
       IN /\ reply' = body
          /\ rows' = IF saves(a, mode)
                     THEN rows \cup {[key |-> a.key, created |-> a.created, scope |-> body.scope,
                                      total |-> body.total, mode |-> mode, text |-> body.text,
                                      confidence |-> body.confidence]}
                     ELSE rows
          /\ refreshed' = IF saves(a, mode) /\ a.before > refreshed[a.key]
                          THEN [refreshed EXCEPT ![a.key] = a.before] ELSE refreshed
  /\ asking' = [asking EXCEPT ![q] = Waiting]
  /\ UNCHANGED <<calibrator, lines, started>>

\* An exception: 500 and a rollback.
FailExplain(q) ==
  /\ asking[q].pc # "idle"
  /\ asking' = [asking EXCEPT ![q] = Waiting]
  /\ reply' = NoReply
  /\ UNCHANGED <<calibrator, lines, started, rows, refreshed>>

\* Ingestion commits a line of the window.
AddLine(s) ==
  /\ lines[s] < MaxLines
  /\ lines' = [lines EXCEPT ![s] = @ + 1]
  /\ reply' = NoReply
  /\ UNCHANGED <<calibrator, started, asking, rows, refreshed>>

\* Retention takes the oldest explanations first; the summary TTL is longer than
\* any request runs.
ExpireRow ==
  /\ \E r \in rows : /\ \A o \in rows : r.created <= o.created
                     /\ \A q \in Askers : asking[q].pc # "idle" => r.created < asking[q].created
                     /\ rows' = rows \ {r}
  /\ reply' = NoReply
  /\ UNCHANGED <<calibrator, lines, started, asking, refreshed>>

ExplainInit ==
  /\ calibrator \in BOOLEAN
  /\ lines = [s \in LogScopes |-> 0]
  /\ started = 0
  /\ asking = [q \in Askers |-> Waiting]
  /\ rows = {} /\ reply = NoReply
  /\ refreshed = [k \in CacheKeys |-> 0]

ExplainNext ==
  \/ \E q \in Askers, k \in CacheKeys :
       ServeCached(q, k) \/ \E force, structural \in BOOLEAN : BeginExplain(q, k, force, structural)
  \/ \E q \in Askers : ReadWindow(q) \/ FinishExplain(q) \/ FailExplain(q)
  \/ \E s \in LogScopes : AddLine(s)
  \/ ExpireRow

ExplainSpec == ExplainInit /\ [][ExplainNext]_explainVars
-----------------------------------------------------------------------------
(* Properties.                                                             *)

\* A response answers its own request, also from the cache: the scope asked
\* for; LLM prose only to those who asked for it, never from the table; and a
\* template given to someone who asked for the LLM says that it fell back.
ReplyFitsRequest ==
  /\ reply.mode # "none" => reply.scope = reply.asked.scope
  /\ reply.text = "llm" => reply.asked.llm /\ ~reply.cached
  /\ reply.mode # "none" => reply.fell_back = (reply.asked.llm /\ reply.text = "template")

\* A refresh is not undone: a response from the cache has seen at least the
\* lines there were when the latest saved computation of its key began, even if
\* an older, slower one commits after it.
RefreshNotUndone == reply.cached => reply.total >= reply.floor

\* A score that is called calibrated is a probability, and a response that was
\* just computed calls every probability so.  One from the cache may deny it:
\* confidence_from_value does not copy the flag.
CalibratedIsProbability ==
  /\ reply.confidence.calibrated => reply.confidence.score = "probability"
  /\ ~reply.cached /\ reply.confidence.score = "probability" => reply.confidence.calibrated

\* A response is right for who gets it, from the cache as from a computation: it
\* fits the request, is not older than the latest refresh, and calls calibrated
\* only what is a probability.
RepliesAreRight == ReplyFitsRequest /\ RefreshNotUndone /\ CalibratedIsProbability
=============================================================================
