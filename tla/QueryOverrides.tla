--------------------------- MODULE QueryOverrides ---------------------------
(***************************************************************************)
(* Per-request tunables of the query routes (src/api/overrides.py): a field *)
(* of the request, else the default stored with the caller's API key, else  *)
(* the server's setting.  An administrator changes the stored defaults      *)
(* field by field (set_api_key_defaults) between requests.                  *)
(*                                                                         *)
(* A layer is a record of the five tunables; Omitted falls through.         *)
(***************************************************************************)
EXTENDS Naturals

CONSTANTS
  Omitted,
  BadDuration,   \* a baseline_window that parse_duration rejects
  Servers,       \* server settings: a layer with every field, and auth_enabled
  Bodies,        \* request bodies: a layer, and no_llm
  Updates        \* arguments of set_api_key_defaults

\* enabled and no_llm are booleans or not given (LlmOverride, and the requests).
Switch == BOOLEAN \cup {Omitted}

ASSUME OverrideConstants ==
  /\ Omitted \notin BOOLEAN
  /\ \A b \in Bodies : b.layer.llm_enabled \in Switch /\ b.no_llm \in Switch
  /\ \A u \in Updates : u.llm_enabled \in Switch

LLM_PROVIDERS == {"openai", "ollama", "claude", "disabled"}
Tunables == {"baseline_window", "max_clusters", "max_evidence_items", "llm_provider", "llm_enabled"}
NoDefaults == [f \in Tunables |-> Omitted]

VARIABLES
  server,     \* the settings of the process
  stored,     \* api_keys.config_json of the calling key
  principal,  \* config_json as the auth middleware read it for this request
  body,       \* the body of the request
  resolved    \* "idle" between requests, "open", "refused" (400) or ResolvedOverrides

overrideVars == <<server, stored, principal, body, resolved>>
-----------------------------------------------------------------------------
\* _parse_baseline_window, _parse_int_bound and _normalize_provider.
accepted(f, v) ==
  CASE f = "baseline_window" -> v # BadDuration
    [] f = "max_clusters" -> v \in 1 .. 100
    [] f = "max_evidence_items" -> v \in 1 .. 50
    [] f = "llm_provider" -> v \in LLM_PROVIDERS
    [] f = "llm_enabled" -> TRUE

\* _coalesce
coalesce(a, b, c) == IF a # Omitted THEN a ELSE IF b # Omitted THEN b ELSE c

\* Mutant: stored defaults are merged without build_key_config_json's checks.
MergeUnchecked(args, old) ==
  {[f \in Tunables |-> IF args[f] # Omitted THEN args[f] ELSE old[f]]}

\* merge_key_config: the given fields replace the stored ones; an argument that
\* is out of bounds raises and nothing is stored.
merge_key_config(args, old) ==
  {new \in {[f \in Tunables |-> IF args[f] # Omitted THEN args[f] ELSE old[f]]} :
     \A f \in Tunables : args[f] # Omitted => accepted(f, args[f])}

set_api_key_defaults(args) ==
  /\ stored' \in merge_key_config(args, stored)
  /\ UNCHANGED <<server, principal, body, resolved>>

clear_api_key_defaults ==
  /\ stored # NoDefaults
  /\ stored' = NoDefaults
  /\ UNCHANGED <<server, principal, body, resolved>>
-----------------------------------------------------------------------------
\* _enabled_from_layer
enabled_from_layer(layer, no_llm) ==
  CASE layer.llm_enabled # Omitted -> layer.llm_enabled
    [] layer.llm_enabled = Omitted /\ layer.llm_provider # Omitted ->
         layer.llm_provider # "disabled"
    [] layer.llm_enabled = Omitted /\ layer.llm_provider = Omitted /\ no_llm # Omitted -> ~no_llm
    [] OTHER -> Omitted

\* parse_key_config: skipped without authentication.
key_layer == IF server.auth THEN principal ELSE NoDefaults

Outcome(status, values) == [status |-> status, values |-> values]

\* resolve_query_overrides: the first value that is not Omitted, checked in
\* field order; the LLM is on when the flag says so and a provider is left.
resolve_query_overrides(req) ==
  LET raw == [f \in Tunables \ {"llm_enabled"} |->
                coalesce(req.layer[f], key_layer[f], server.layer[f])]
      bad == {f \in DOMAIN raw : ~accepted(f, raw[f])}
      flag == coalesce(enabled_from_layer(req.layer, req.no_llm),
                       enabled_from_layer(key_layer, Omitted),
                       server.layer.llm_provider # "disabled")
  IN IF bad # {} THEN Outcome("refused", NoDefaults)
     ELSE Outcome("resolved", [f \in Tunables |->
            IF f = "llm_enabled" THEN flag /\ raw["llm_provider"] # "disabled" ELSE raw[f]])

NoBody == [layer |-> NoDefaults, no_llm |-> Omitted]

\* AuthMiddleware puts the key's config_json of that moment into the principal.
Arrive(req) ==
  /\ resolved.status # "open"
  /\ body' = req /\ principal' = stored
  /\ resolved' = Outcome("open", NoDefaults)
  /\ UNCHANGED <<server, stored>>

\* resolve_overrides_from_http in the handler; the answer is sent.
Resolve ==
  /\ resolved.status = "open"
  /\ resolved' = resolve_query_overrides(body)
  /\ UNCHANGED <<server, stored, principal, body>>

OverrideInit ==
  /\ server \in Servers
  /\ stored = NoDefaults /\ principal = NoDefaults /\ body = NoBody
  /\ resolved = Outcome("idle", NoDefaults)

OverrideNext ==
  \/ \E u \in Updates : set_api_key_defaults(u)
  \/ clear_api_key_defaults
  \/ \E b \in Bodies : Arrive(b)
  \/ Resolve

OverrideSpec == OverrideInit /\ [][OverrideNext]_overrideVars
-----------------------------------------------------------------------------
\* No sequence of changes to a key's defaults leaves it with values that turn
\* its plain requests into 400s, as long as the server's own settings are in
\* bounds.
KeyStaysUsable ==
  (\A f \in Tunables \ {"llm_enabled"} : accepted(f, server.layer[f])) /\ body = NoBody =>
    resolved.status # "refused"

\* Who turns the LLM on: nobody when the provider in force is "disabled";
\* otherwise the request, by enabled, by naming a provider, or by no_llm, in
\* this order; else the key's defaults; else the server.
LlmSwitchedByNearestLayer ==
  resolved.status = "resolved" =>
    LET says(layer) == layer.llm_enabled # Omitted \/ layer.llm_provider # Omitted
        wants(layer) == IF layer.llm_enabled # Omitted THEN layer.llm_enabled
                        ELSE layer.llm_provider # "disabled"
    IN resolved.values.llm_enabled =
         /\ resolved.values.llm_provider # "disabled"
         /\ IF says(body.layer) THEN wants(body.layer)
            ELSE IF body.no_llm # Omitted THEN body.no_llm = FALSE
            ELSE IF server.auth /\ says(principal) THEN wants(principal)
            ELSE server.layer.llm_provider # "disabled"

\* The layers keep their promises: no sequence of updates makes a key unusable,
\* and of three layers that may switch the LLM the nearest one that speaks wins.
OverridesKeepTheirWord == KeyStaysUsable /\ LlmSwitchedByNearestLayer
=============================================================================
