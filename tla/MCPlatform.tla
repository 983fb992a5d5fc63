----------------------------- MODULE MCPlatform -----------------------------
(***************************************************************************)
(* The instance of the service's platform parts that TLC checks: the LLM   *)
(* call path, idempotent enqueueing, retention, the API guard, per-request *)
(* overrides, the explanation cache, adapter paging and the embedding of   *)
(* lines.  The parts share no state; `part` picks the one a behaviour is   *)
(* about, and the others stay in one of their initial states.              *)
(***************************************************************************)
EXTENDS LLMBreaker, IdempotentEnqueue, RetentionPurge, ApiGuard, QueryOverrides,
        ExplainCache, AdapterPaging, LogEmbeddings

VARIABLE part

Parts == {"llm", "keys", "purge", "guard", "overrides", "cache", "paging", "embeddings"}

\* Everything but the variables of one part.
NotLlm == <<part, keyVars, purgeVars, guardVars, overrideVars, explainVars, pagingVars, embVars>>
NotKeys == <<part, vars, purgeVars, guardVars, overrideVars, explainVars, pagingVars, embVars>>
NotPurge == <<part, vars, keyVars, guardVars, overrideVars, explainVars, pagingVars, embVars>>
NotGuard == <<part, vars, keyVars, purgeVars, overrideVars, explainVars, pagingVars, embVars>>
NotOverrides == <<part, vars, keyVars, purgeVars, guardVars, explainVars, pagingVars, embVars>>
NotCache == <<part, vars, keyVars, purgeVars, guardVars, overrideVars, pagingVars, embVars>>
NotPaging == <<part, vars, keyVars, purgeVars, guardVars, overrideVars, explainVars, embVars>>
NotEmbeddings == <<part, vars, keyVars, purgeVars, guardVars, overrideVars, explainVars, pagingVars>>
-----------------------------------------------------------------------------
(* Values of the constants.                                                *)

ASSUME PlatformScopes == {"a", "b"} \subseteq Scopes

MCScopesOf(r) == IF r = "r3" THEN {"b"} ELSE {"a"}

MCRowScope == [id \in Rows |-> IF id = "d1" THEN "b" ELSE "a"]
MCRawTTL == [s \in RowScopes |-> IF s = "a" THEN 1 ELSE Off]
MCSumTTL == [s \in RowScopes |-> IF s = "a" THEN 1 ELSE Broken]

\* Rows are written early enough to expire within MaxTime, except r1.
LatestInsert(id) == IF id = "r1" THEN 1 ELSE 0

MCKeyRole == [k \in ApiKeys |-> IF k = "k1" THEN "query" ELSE "admin"]
MCKeyScope == [k \in ApiKeys |-> IF k = "k1" THEN "a" ELSE "default"]
MCKeyOverride == [k \in ApiKeys |-> k = "k2"]
MCConfigs ==
  [auth : {TRUE}, mode : {"api_key", "both"}, loopback : {FALSE}, refuse : {TRUE}]
  \cup [auth : {FALSE}, mode : {"api_key"}, loopback : BOOLEAN, refuse : {TRUE}]

\* Bearer tokens: every API key, and JWTs of one subject that name the key they
\* are signed with or none.
Tokens ==
  {t \in KeyTokens : t.genuine \/ t.id = "k1"}
  \cup {t \in Jwts :
          /\ t.claim = "ingest" /\ t.id = "u" /\ t.kid \in {t.signer, Nobody}
          /\ t.kid = Nobody => (t.fresh /\ t.signer = 0)}

Layer(p, n) == [NoDefaults EXCEPT !.llm_provider = p, !.llm_enabled = n]
MCServers ==
  {[auth |-> a, layer |-> [baseline_window |-> "24h", max_clusters |-> 10, max_evidence_items |-> 20,
                           llm_provider |-> "openai", llm_enabled |-> Omitted]] : a \in BOOLEAN}
MCBodies ==
  {[layer |-> Layer(p, n), no_llm |-> x] :
     p \in {Omitted, "claude", "disabled"}, n \in {Omitted, FALSE}, x \in {Omitted, TRUE, FALSE}}
  \cup {[layer |-> [NoDefaults EXCEPT !.max_clusters = 0], no_llm |-> Omitted],
        [layer |-> [NoDefaults EXCEPT !.baseline_window = BadDuration], no_llm |-> Omitted]}
MCUpdates ==
  {[NoDefaults EXCEPT !.max_clusters = 100], [NoDefaults EXCEPT !.max_evidence_items = 51],
   [NoDefaults EXCEPT !.baseline_window = BadDuration],
   [NoDefaults EXCEPT !.llm_provider = "disabled"], [NoDefaults EXCEPT !.llm_enabled = TRUE],
   [NoDefaults EXCEPT !.llm_enabled = FALSE]}

\* Nobody asks for the LLM in scope "b".
MCAsked == {k \in CacheKeys : k.scope = "a" \/ ~k.llm}

MCFeeds ==
  {s \in UNION {[1 .. n -> 0 .. 2] : n \in 0 .. 4} : \A i, j \in DOMAIN s : i < j => s[i] <= s[j]}

\* Two lines of one text, a blank one, and lines of their own.
EmbLine(n, t) == [n |-> n, text |-> t]
MCBatches ==
  {<<EmbLine(1, "a"), EmbLine(3, Blank), EmbLine(2, "b"), EmbLine(5, "c")>>,
   <<EmbLine(2, "b"), EmbLine(4, "a")>>, <<EmbLine(3, Blank)>>}
MCEmbConfigs ==
  {c \in [provider : {"openai", "local", "disabled"}, key : BOOLEAN, width : BOOLEAN, local : BOOLEAN, asked : BOOLEAN] :
     (c.asked /\ c.width) \/ (c.key /\ c.local)}
-----------------------------------------------------------------------------
PlatformInit ==
  /\ part \in Parts
  /\ Init /\ KeyInit /\ PurgeInit /\ GuardInit /\ OverrideInit /\ ExplainInit /\ PagingInit /\ EmbInit
  /\ part # "guard" => config = CHOOSE c \in Configs : TRUE
  /\ part # "overrides" => server = CHOOSE v \in Servers : TRUE
  /\ calibrator = (part = "cache")
  /\ part # "paging" => feed = [adapter |-> "loki", ts |-> <<>>, repeats |-> FALSE]

CallLlm ==
  /\ part = "llm" /\ UNCHANGED NotLlm
  /\ \/ \E c \in Callers : Ask(c) \/ Acquire(c) \/ OverBudget(c) \/ Admit(c) \/ Refuse(c)
                           \/ Retry(c) \/ Succeed(c) \/ Fail(c)
     \/ CooldownPasses

Enqueue ==
  /\ part = "keys" /\ UNCHANGED NotKeys
  /\ \/ \E r \in Requests :
          \/ \E s \in MCScopesOf(r) : Lookup(r, s)
          \/ QueueFull(r) \/ InsertJob(r) \/ Reread(r) \/ DeleteExpired(r) \/ DeleteResumes(r)
          \/ InsertKey(r) \/ RaceLost(r) \/ Commit(r) \/ Abort(r)
     \/ ClockTicks

Purge ==
  /\ part = "purge" /\ UNCHANGED NotPurge
  /\ \/ Advance
     \/ \E id \in Rows : time <= LatestInsert(id) /\ InsertRow(id)
     \/ \E id \in EmbRows : UpsertEmbedding(id)
     \/ \E p \in Purgers : BeginPurge(p) \/ SkipScope(p) \/ SelectChunk(p) \/ DeleteChunk(p)
                           \/ FinishPurge(p) \/ KillPurge(p)

Guard ==
  /\ part = "guard" /\ UNCHANGED NotGuard
  /\ \/ Start \/ TimePasses \/ Rotate \/ RateLimit \/ Unlimited \/ Handle
     \/ \E k \in ApiKeys : create_api_key(k) \/ revoke_api_key(k)
     \/ \E ep \in Endpoints, s \in ReqScopes :
          /\ ep \notin {"ingest", "query"} => s = NoScope
          /\ PassOpen(ep, s) \/ \E t \in Tokens : Authorize(ep, t, s)

Override ==
  /\ part = "overrides" /\ UNCHANGED NotOverrides
  /\ \/ \E u \in Updates : set_api_key_defaults(u)
     \/ clear_api_key_defaults
     \/ \E b \in Bodies : Arrive(b)
     \/ Resolve

Explain ==
  /\ part = "cache" /\ UNCHANGED NotCache
  /\ \/ \E q \in Askers, k \in MCAsked :
          ServeCached(q, k) \/ \E f, t \in BOOLEAN : ~(f /\ t) /\ BeginExplain(q, k, f, t)
     \/ \E q \in Askers : ReadWindow(q) \/ FinishExplain(q) \/ FailExplain(q)
     \/ \E s \in LogScopes : AddLine(s)
     \/ ExpireRow

Page ==
  /\ part = "paging" /\ UNCHANGED NotPaging
  /\ \/ ReadLokiPage \/ LokiWindowEnds \/ ReadDatadogPage \/ ReadCloudwatchPage
     \/ StartRead \/ FetchFails \/ Resume

Embed == part = "embeddings" /\ EmbNext /\ UNCHANGED NotEmbeddings

PlatformNext == CallLlm \/ Enqueue \/ Purge \/ Guard \/ Override \/ Explain \/ Page \/ Embed

\* The fairness of each part, while the behaviour is about it.
PlatformFairness ==
  /\ \A c \in Callers :
       /\ WF_vars(part = "llm" /\ Ask(c)) /\ SF_vars(part = "llm" /\ Acquire(c))
       /\ WF_vars(part = "llm" /\ Admission(c)) /\ SF_vars(part = "llm" /\ Admit(c))
       /\ WF_vars(part = "llm" /\ (Succeed(c) \/ Fail(c)))
  /\ WF_vars(part = "llm" /\ CooldownPasses)
  /\ \A r \in Requests : WF_keyVars(part = "keys" /\ Serve(r))
  /\ WF_pagingVars(part = "paging" /\ ReadPage)

platformVars == <<NotLlm, vars>>

PlatformSpec == PlatformInit /\ [][PlatformNext]_platformVars /\ PlatformFairness
-----------------------------------------------------------------------------
\* The types of the call path and of the key's row with its requests: attempts,
\* slots and expiry times stay within their bounds.
PlatformTypeOK == TypeOK /\ KeyTypeOK
=============================================================================
