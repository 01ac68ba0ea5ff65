------------------------------- MODULE Routing -------------------------------
(***************************************************************************)
(* Which provider a call of an agent goes to, and with whose key.  A user  *)
(* may enter a key of their own per provider; the agent looks for the one  *)
(* of its provider, LLMService chooses a provider by the model's name and  *)
(* the server's keys, and the facade rebuilds the request for the names of *)
(* its tools before the router takes a key for it.  A model is the         *)
(* provider that its name speaks of.                                       *)
(***************************************************************************)
EXTENDS Naturals, Sequences, FiniteSets

CONSTANTS
  Models,      \* models an agent may be given: providers, or "unnamed"
  MaxKeys,     \* bound on the keys entered
  MaxEdits     \* bound on the changes of the agent and its tools

VARIABLES
  server,  \* providers the settings have a key for
  legacy,  \* llm_use_legacy_http
  keys,    \* user_api_keys of the project's owner
  entered, \* keys entered so far
  agent,   \* the agent's row
  tools,   \* some tool of the agent is enabled
  running, \* model and provider of the session (_resolved_model, _resolved_provider)
  asked,   \* the session's messages have a tool call
  call,    \* the LLM call
  edits

vars == <<server, legacy, keys, entered, agent, tools, running, asked, call, edits>>

Order == <<"anthropic", "google", "kimi", "openai">>
Providers == {Order[i] : i \in DOMAIN Order}
ValidProviders == {"anthropic", "openai", "google", "moonshot"}  \* VALID_PROVIDERS, of keys
Known == Providers \cup {"moonshot"}
Strings == Known \cup {"other", ""}  \* what a row's provider may be

\* Key 0 is none; a key belongs to the provider it was entered for.
NoKey == [of |-> "server", version |-> 0]
Key == [of : ValidProviders, version : 1..MaxKeys]
Row == [version : 0..MaxKeys, valid : BOOLEAN]
NoCall == [at |-> "none", key |-> NoKey, to |-> "none", with |-> NoKey, bare |-> FALSE]

TypeOK ==
  /\ server \subseteq Providers /\ {legacy, tools, asked} \subseteq BOOLEAN
  /\ keys \in [ValidProviders -> Row] /\ entered \in 0..MaxKeys
  /\ agent \in [model : Models, provider : Strings]
  /\ running \in [model : Models, provider : Strings \ {""}]
  /\ call \in [at : {"none", "looked", "sent", "failed"}, key : Key \cup {NoKey},
               to : Providers \cup {"none"}, with : Key \cup {NoKey}, bare : BOOLEAN]
  /\ edits \in 0..MaxEdits

-----------------------------------------------------------------------------
(* The choice of a provider                                                *)

\* The first whose key is configured.
FirstConfigured ==
  IF server = {} THEN "none"
  ELSE LET i == CHOOSE i \in DOMAIN Order :
                  Order[i] \in server /\ \A j \in 1..(i - 1) : Order[j] \notin server
       IN  Order[i]

\* infer_provider, for rows without a provider.
InferProvider(model) == IF model = "unnamed" THEN "anthropic" ELSE model
ResolveProvider(row) == IF row.provider # "" THEN row.provider ELSE InferProvider(row.model)
Resolved(row) == [model |-> row.model, provider |-> ResolveProvider(row)]

\* The router's: a provider it knows, else the model's, else one that is configured.
ResolveProviderName(model, provider) ==
  IF provider \in Known THEN provider
  ELSE IF model # "unnamed" THEN model ELSE FirstConfigured

\* The service's: the model's if it is configured, else one that is.
SelectProvider(model) == IF model \in server THEN model ELSE FirstConfigured

KeyProvider(provider) == IF provider = "kimi" THEN "moonshot" ELSE provider

-----------------------------------------------------------------------------
(* Keys and agents                                                         *)

\* The session's first call is still to come.
Init ==
  /\ server \in SUBSET Providers /\ legacy \in BOOLEAN
  /\ keys = [p \in ValidProviders |-> [version |-> 0, valid |-> TRUE]] /\ entered = 0
  /\ agent \in [model : Models, provider : Strings]
  /\ tools \in BOOLEAN /\ asked = FALSE
  /\ running = Resolved(agent)
  /\ call = NoCall /\ edits = 0

UpsertKey(p) ==
  /\ entered < MaxKeys /\ entered' = entered + 1
  /\ keys' = [keys EXCEPT ![p] = [version |-> entered', valid |-> TRUE]]
  /\ UNCHANGED <<server, legacy, agent, tools, running, asked, call, edits>>

DeleteKey(p) ==
  /\ keys[p].version # 0
  /\ keys' = [keys EXCEPT ![p] = [version |-> 0, valid |-> TRUE]]
  /\ UNCHANGED <<server, legacy, entered, agent, tools, running, asked, call, edits>>

\* test_api_key makes a client and asks the provider nothing; a key is marked invalid if the
\* client cannot be made.
TestKey(p) ==
  /\ keys[p].version # 0 /\ keys[p].valid
  /\ keys' = [keys EXCEPT ![p].valid = FALSE]
  /\ UNCHANGED <<server, legacy, entered, agent, tools, running, asked, call, edits>>

\* update_agent: a new model without a provider brings the one its name speaks of.
UpdateAgent ==
  /\ edits < MaxEdits /\ edits' = edits + 1
  /\ \E model \in Models : \E provider \in Strings \cup {InferProvider(model)} :
       agent' = [model |-> model, provider |-> provider]
  /\ UNCHANGED <<server, legacy, keys, entered, tools, running, asked, call>>

SwitchTools ==
  /\ edits < MaxEdits /\ edits' = edits + 1
  /\ tools' = ~tools
  /\ UNCHANGED <<server, legacy, keys, entered, agent, running, asked, call>>

-----------------------------------------------------------------------------
(* The call                                                                *)

\* A session starts, or reads its configuration again between two calls.
Configure ==
  /\ call.at # "looked"
  /\ \/ asked' = FALSE
     \/ UNCHANGED asked
  /\ running' = Resolved(agent)
  /\ call' = NoCall
  /\ UNCHANGED <<server, legacy, keys, entered, agent, tools, edits>>

\* _resolve_user_api_key: a failing query is no key.
Found(provider) ==
  LET p == KeyProvider(provider) IN
  IF p \in ValidProviders /\ keys[p].version # 0 /\ keys[p].valid
  THEN [of |-> p, version |-> keys[p].version] ELSE NoKey

LookUp ==
  /\ call.at = "none"
  /\ \E key \in {Found(ResolveProviderName(running.model, running.provider)), NoKey} :
       call' = [NoCall EXCEPT !.at = "looked", !.key = key]
  /\ UNCHANGED <<server, legacy, keys, entered, agent, tools, running, asked, edits>>

\* normalize_request_tool_names builds a new request when there is a name in it: without key.
Normalized(key) == IF tools \/ asked THEN NoKey ELSE key

\* get_provider: the key of the request or else the server's; the provider chosen has one.
GetProvider(key) == key

\* chat_completion_with_tools; the HTTP calls of the legacy mode take the server's keys, and
\* there are two.
Send ==
  LET to == SelectProvider(running.model) IN
  /\ call.at = "looked"
  /\ IF to = "none" \/ (legacy /\ to \notin {"anthropic", "google"})
     THEN call' = [call EXCEPT !.at = "failed"] /\ UNCHANGED asked
     ELSE /\ call' = [call EXCEPT !.at = "sent", !.to = to, !.bare = ~tools /\ ~asked,
                        !.with = IF legacy THEN NoKey ELSE GetProvider(Normalized(call.key))]
          /\ asked' \in (IF tools THEN BOOLEAN ELSE {asked})
  /\ UNCHANGED <<server, legacy, keys, entered, agent, tools, running, edits>>

\* The next call of the session.
Again ==
  /\ call.at = "sent" /\ call' = NoCall
  /\ UNCHANGED <<server, legacy, keys, entered, agent, tools, running, asked, edits>>

Next ==
  \/ \E p \in ValidProviders : UpsertKey(p) \/ DeleteKey(p) \/ TestKey(p)
  \/ UpdateAgent \/ SwitchTools \/ Configure \/ LookUp \/ Send \/ Again

Spec == Init /\ [][Next]_vars

-----------------------------------------------------------------------------
(* Properties                                                              *)

\* "Add your own API keys so agents use your account directly. Server keys are used as
\* fallback." (APIKeyManager.tsx): a call for which the agent found a key of its user is made
\* with that key.
UserKeyUsed == call.at = "sent" /\ call.key # NoKey => call.with = call.key
=============================================================================
