------------------------------ MODULE ApiGuard ------------------------------
(***************************************************************************)
(* What a request passes before its handler runs (src/api): the bind guard *)
(* at start-up, authentication by API key or OIDC token (auth/), the role  *)
(* of the endpoint, the token bucket of the caller (ratelimit.py) and the  *)
(* isolation scope (auth/scope.py).                                        *)
(*                                                                         *)
(* authorize_request runs without an await, so it is one step; the limiter *)
(* and the handler are later steps and use the principal found then.  Keys *)
(* are created and revoked, the identity provider rotates its signing key  *)
(* and time passes in between.  Paths are endpoints: both prefixes (/v1    *)
(* and the deprecated alias) name the same one.                            *)
(***************************************************************************)
EXTENDS Naturals, Sequences

CONSTANTS
  ApiKeys, KeyRole, KeyScope, KeyOverride,  \* rows of api_keys and their columns
  ReqScopes,     \* values of the "scope" field, NoScope when it is left out or blank
  NoScope, Nobody,
  Subjects,      \* "sub" claims
  UnitsPerTick,  \* refill: rate, in fractions of a token
  UnitsPerToken, \* the fractions that make one token
  BurstUnits,    \* ratelimit_burst
  Configs,       \* the settings a process is started with
  MaxTicks, MaxRotations, MaxRequests  \* bounds

Default == "default"
Roles == {"ingest", "query", "admin"}
Kids == 0 .. MaxRotations

ASSUME GuardConstants ==
  /\ UnitsPerToken \in Nat \ {0} /\ UnitsPerTick \in Nat \ {0} /\ BurstUnits \in Nat
  /\ MaxTicks \in Nat /\ MaxRotations \in Nat /\ MaxRequests \in Nat
  /\ Configs \subseteq [auth : BOOLEAN, mode : {"api_key", "oidc", "both"},
                        loopback : BOOLEAN, refuse : BOOLEAN]
  /\ KeyRole \in [ApiKeys -> Roles] /\ KeyOverride \in [ApiKeys -> BOOLEAN]
  /\ KeyScope \in [ApiKeys -> ReqScopes \ {NoScope}]

VARIABLES
  config,    \* settings of the process: auth_enabled, auth_mode, the bind flags
  serving,   \* lifespan has let the process start
  keys,      \* per key: "absent", "active" or "revoked"
  idp,       \* the kid the identity provider signs with
  jwks,      \* _jwks_cache: the kid published when it was fetched, or Nobody
  tick,      \* time.monotonic()
  buckets,   \* _buckets: per (kind, identity) level, last refill and first use
  request,   \* the request in flight, or Nobody
  received,  \* how many requests came in
  answer,    \* how the last request ended
  admitted,  \* history: per bucket the requests let through
  verdict    \* history: how the last credentials were judged

guardVars == <<config, serving, keys, idp, jwks, tick, buckets, request, received, answer, admitted, verdict>>
-----------------------------------------------------------------------------
(* Start-up and the tables around the request path.                        *)

\* warn_if_insecure_bind raises; a warning lets the process start.
insecure_bind_refused == ~config.auth /\ ~config.loopback /\ config.refuse

Start ==
  /\ ~serving /\ ~insecure_bind_refused
  /\ serving' = TRUE
  /\ UNCHANGED <<config, keys, idp, jwks, tick, buckets, request, received, answer, admitted, verdict>>

create_api_key(k) ==
  /\ keys[k] = "absent"
  /\ keys' = [keys EXCEPT ![k] = "active"]
  /\ UNCHANGED <<config, serving, idp, jwks, tick, buckets, request, received, answer, admitted, verdict>>

revoke_api_key(k) ==
  /\ keys[k] = "active"
  /\ keys' = [keys EXCEPT ![k] = "revoked"]
  /\ UNCHANGED <<config, serving, idp, jwks, tick, buckets, request, received, answer, admitted, verdict>>

\* External: the identity provider replaces its signing key.
Rotate ==
  /\ idp < MaxRotations
  /\ idp' = idp + 1
  /\ UNCHANGED <<config, serving, keys, jwks, tick, buckets, request, received, answer, admitted, verdict>>

TimePasses ==
  /\ tick < MaxTicks
  /\ tick' = tick + 1
  /\ UNCHANGED <<config, serving, keys, idp, jwks, buckets, request, received, answer, admitted, verdict>>
-----------------------------------------------------------------------------
(* Authentication.                                                         *)

\* required_roles: {} for the exempt health and metrics paths.
required_roles(ep) ==
  CASE ep = "ingest" -> {"ingest", "admin"}
    [] ep \in {"status", "query", "ui"} -> {"query", "admin"}
    [] ep \in {"config", "other"} -> {"admin"}
    [] ep = "health" -> {}

Endpoints == {"ingest", "status", "query", "ui", "config", "other", "health"}

\* A bearer token: a key's plaintext or one that only shares its prefix, or a
\* JWT with its signer, the kid of its header and what it claims.
KeyTokens == [kind : {"key"}, id : ApiKeys, genuine : BOOLEAN]
Jwts == [kind : {"jwt"}, id : Subjects \cup {Nobody}, signer : Kids,
         kid : Kids \cup {Nobody}, fresh : BOOLEAN, claim : Roles \cup {Nobody}]

\* lookup_api_key and find_verified_key: the row with the token's prefix that is
\* not revoked and whose hash verifies.
find_verified_key(tok) == tok.genuine /\ keys[tok.id] = "active"

\* get_jwks: fetched once per process; nothing replaces the cached document.
get_jwks == IF jwks = Nobody THEN idp ELSE jwks

\* _key_from_jwks: by kid, or the only key for a token that names none.
key_from_jwks(kid) == kid \in {get_jwks, Nobody}

\* role_from_claims: a valid claimed role, else "query".
role_from_claims(claim) == IF claim \in Roles THEN claim ELSE "query"

\* validate_oidc_token: a key, a signature it verifies, an exp in the future.
validate_oidc_token(tok) == key_from_jwks(tok.kid) /\ tok.signer = get_jwks /\ tok.fresh

Anonymous == [method |-> "none", id |-> Nobody, role |-> Nobody, scope |-> NoScope,
              override |-> FALSE]
KeyPrincipal(k) == [method |-> "api_key", id |-> k, role |-> KeyRole[k],
                    scope |-> KeyScope[k], override |-> KeyOverride[k]]
OidcPrincipal(tok) == [method |-> "oidc", id |-> tok.id, role |-> role_from_claims(tok.claim),
                       scope |-> Default, override |-> FALSE]

\* _authenticate_token: the principals a token yields under config.mode; none
\* when it is refused.
authenticate(tok, idpUp) ==
  IF tok.kind = "jwt"
  THEN IF config.mode \in {"oidc", "both"} /\ (idpUp \/ jwks # Nobody) /\ validate_oidc_token(tok)
       THEN {OidcPrincipal(tok)} ELSE {}
  ELSE IF config.mode \in {"api_key", "both"} /\ find_verified_key(tok)
       THEN {KeyPrincipal(tok.id)} ELSE {}

\* What the issuer of a token would say of it now.
Vouched(tok) ==
  IF tok.kind = "key" THEN tok.genuine /\ keys[tok.id] = "active"
  ELSE tok.signer = idp /\ tok.kid \in {idp, Nobody} /\ tok.fresh

Ended(status, who, scope) == [status |-> status, who |-> who, scope |-> scope]
NoAnswer == Ended(0, Anonymous, NoScope)

\* A token that config.mode looks at; a JWT needs the JWKS document.
asks(tok) == tok.kind = "jwt" /\ config.mode \in {"oidc", "both"}
heeded(tok) == asks(tok) \/ (tok.kind = "key" /\ config.mode \in {"api_key", "both"})

\* How a token was judged, next to what its issuer says of it.
Judged(tok, letIn, idpUp) ==
  CASE ~heeded(tok) -> "not heeded"
    [] heeded(tok) /\ letIn = Vouched(tok) -> "right"
    [] heeded(tok) /\ letIn # Vouched(tok) ->
         IF asks(tok) /\ jwks \notin {idp, Nobody} THEN "stale"
         ELSE IF asks(tok) /\ ~idpUp THEN "unreachable" ELSE "wrong"

\* AuthMiddleware.dispatch of an endpoint that needs no credentials.
PassOpen(ep, scope) ==
  /\ serving /\ request = Nobody /\ received < MaxRequests
  /\ required_roles(ep) = {} \/ ~config.auth
  /\ request' = [pc |-> "limit", ep |-> ep, who |-> Anonymous, scope |-> scope]
  /\ answer' = NoAnswer
  /\ received' = received + 1
  /\ UNCHANGED <<config, serving, keys, idp, jwks, tick, buckets, admitted, verdict>>

\* authorize_request with a bearer token: 401, 403 or on to the limiter.  The
\* JWKS document is fetched for the first JWT that needs it.
Authorize(ep, tok, scope) ==
  /\ serving /\ request = Nobody /\ received < MaxRequests /\ config.auth /\ required_roles(ep) # {}
  /\ \E idpUp \in BOOLEAN :
       LET who == authenticate(tok, idpUp)
           may == {p \in who : p.role \in required_roles(ep)}
       IN /\ jwks' = IF asks(tok) /\ jwks = Nobody /\ idpUp THEN idp ELSE jwks
          /\ verdict' = Judged(tok, who # {}, idpUp)
          /\ IF may = {}
             THEN /\ answer' = Ended(IF who = {} THEN 401 ELSE 403, Anonymous, NoScope)
                  /\ UNCHANGED request
             ELSE /\ request' = [pc |-> "limit", ep |-> ep, scope |-> scope,
                                 who |-> CHOOSE p \in may : TRUE]
                  /\ answer' = NoAnswer
  /\ received' = received + 1
  /\ UNCHANGED <<config, serving, keys, idp, tick, buckets, admitted>>
-----------------------------------------------------------------------------
(* Rate limiting.                                                          *)

rate_limit_kind(ep) == IF ep \in {"ingest", "query"} THEN ep ELSE "none"

Buckets == [kind : {"ingest", "query"}, who : ApiKeys \cup Subjects \cup {Nobody}]

\* bucket_identity: key id, then subject, then the shared "anonymous".
bucket_of(r) == [kind |-> rate_limit_kind(r.ep), who |-> r.who.id]

Capacity == IF BurstUnits < UnitsPerToken THEN UnitsPerToken ELSE BurstUnits

\* A bucket's first use finds it full (its rate and burst are not yet set).
refilled(b) ==
  LET level == buckets[b].level + (tick - buckets[b].at) * UnitsPerTick
  IN IF buckets[b].fresh \/ level > Capacity THEN Capacity ELSE level

\* RateLimitMiddleware.dispatch and _TokenBucket.consume; a refused request
\* refills the bucket too.
RateLimit ==
  LET b == bucket_of(request)
      pays == refilled(b) >= UnitsPerToken
  IN /\ request # Nobody /\ request.pc = "limit" /\ b \in Buckets
     /\ buckets' = [buckets EXCEPT ![b] = [fresh |-> FALSE, at |-> tick,
                      born |-> IF buckets[b].fresh THEN tick ELSE buckets[b].born,
                      level |-> refilled(b) - IF pays THEN UnitsPerToken ELSE 0]]
     /\ admitted' = [admitted EXCEPT ![b] = @ + IF pays THEN 1 ELSE 0]
     /\ request' = IF pays THEN [request EXCEPT !.pc = "handle"] ELSE Nobody
     /\ answer' = IF pays THEN answer ELSE Ended(429, request.who, NoScope)
     /\ UNCHANGED <<config, serving, keys, idp, jwks, tick, received, verdict>>

Unlimited ==
  /\ request # Nobody /\ request.pc = "limit" /\ rate_limit_kind(request.ep) = "none"
  /\ request' = [request EXCEPT !.pc = "handle"]
  /\ UNCHANGED <<config, serving, keys, idp, jwks, tick, buckets, received, answer, admitted, verdict>>
-----------------------------------------------------------------------------
(* The scope the handler stamps and filters with.                          *)

\* Mutant: the scope of the request is taken before the pin is looked at.
RequestScopeFirst(requested, who) ==
  IF requested # NoScope THEN Ended(200, who, requested)
  ELSE Ended(200, who, IF config.auth THEN who.scope ELSE Default)

\* resolve_scope: 400 without a principal, 403 when a pinned caller asks for
\* another scope; every key has a non-empty scope.
resolve_scope(requested, who) ==
  LET pinned == who.method = "oidc" \/ ~who.override
  IN CASE ~config.auth -> Ended(200, who, IF requested = NoScope THEN Default ELSE requested)
       [] config.auth /\ who.method = "none" -> Ended(400, who, NoScope)
       [] config.auth /\ who.method # "none" /\ pinned ->
            IF requested \in {NoScope, who.scope} THEN Ended(200, who, who.scope)
            ELSE Ended(403, who, NoScope)
       [] config.auth /\ who.method # "none" /\ ~pinned ->
            Ended(200, who, IF requested = NoScope THEN who.scope ELSE requested)

\* The handler: the ingest and query routes call bind_request_scope first.
Handle ==
  /\ request # Nobody /\ request.pc = "handle"
  /\ answer' = IF request.ep \in {"ingest", "status", "query"}
               THEN resolve_scope(request.scope, request.who)
               ELSE Ended(200, request.who, NoScope)
  /\ request' = Nobody
  /\ UNCHANGED <<config, serving, keys, idp, jwks, tick, buckets, received, admitted, verdict>>
-----------------------------------------------------------------------------
GuardInit ==
  /\ config \in Configs
  /\ serving = FALSE
  /\ keys = [k \in ApiKeys |-> "absent"]
  /\ idp = 0 /\ jwks = Nobody /\ tick = 0
  /\ buckets = [b \in Buckets |-> [fresh |-> TRUE, at |-> 0, born |-> 0, level |-> 0]]
  /\ request = Nobody /\ received = 0 /\ answer = NoAnswer
  /\ admitted = [b \in Buckets |-> 0]
  /\ verdict = "right"

\* Any endpoint, scope and bearer token.
GuardNext ==
  \/ Start \/ TimePasses \/ Rotate \/ RateLimit \/ Unlimited \/ Handle
  \/ \E k \in ApiKeys : create_api_key(k) \/ revoke_api_key(k)
  \/ \E ep \in Endpoints, s \in ReqScopes :
       PassOpen(ep, s) \/ \E tok \in KeyTokens \cup Jwts : Authorize(ep, tok, s)

GuardSpec == GuardInit /\ [][GuardNext]_guardVars
-----------------------------------------------------------------------------
(* Properties.                                                             *)

\* A caller is answered from another scope than its own only if its key says so,
\* whatever the request names: OIDC callers and pinned keys never leave theirs.
ScopeConfined ==
  answer.status = 200 /\ answer.scope # NoScope /\ config.auth =>
    answer.scope = answer.who.scope \/ (answer.who.method = "api_key" /\ KeyOverride[answer.who.id])

\* Since its first request no window of time lets a caller through more often than the burst and the
\* refill pay for, and no token is lost: neither to a refusal nor to another
\* caller's requests.
BucketHonest ==
  \A b \in Buckets : ~buckets[b].fresh =>
    LET paid == admitted[b] * UnitsPerToken + buckets[b].level
    IN Capacity <= paid /\ paid <= Capacity + (buckets[b].at - buckets[b].born) * UnitsPerTick

\* Credentials are judged as their issuer would judge them at that moment: a
\* revoked key is out at once, and a JWT is misjudged only because this process
\* fetched the JWKS document before a rotation, or could not fetch it.
JudgedAsIssuerWould == verdict # "wrong"

\* Who is let in, to what and how often is justified: an answer goes to whom its
\* issuer vouches for at that moment, from a scope this caller may address, at the
\* rate its bucket pays for, whatever was revoked, rotated, cached or refused before.
AccessIsJustified == ScopeConfined /\ JudgedAsIssuerWould /\ BucketHonest
=============================================================================
