------------------------------ MODULE Routing ------------------------------
(***************************************************************************)
(* From a client's model name to the backends a request may be sent to:    *)
(* the lookup and its fallbacks (HandleRequest in internal/proxy/          *)
(* handler.go) and the filters (internal/strategy/strategy.go).  All of it *)
(* is computed on one view, the records of a published snapshot, and on    *)
(* its index of models.                                                    *)
(*                                                                         *)
(* A slice of backends is a set here: the filters keep the order and pick  *)
(* by it only among equals, where the model allows any of them.            *)
(***************************************************************************)
EXTENDS Backend

CONSTANTS
  Provider,    \* endpoint -> "openai", "anthropic" or "custom"
  Prepaid,     \* endpoints of cost tier "prepaid", the others are pay-per-token
  Window,      \* endpoint -> MaxContextTokens, 0: unlimited or not filtered
  GptModels,   \* the model names that contain "gpt"
  ClaudeModels,\* the model names that contain "claude"
  AnyGpt, AnyClaude, AutoModel   \* the entries "gpt-*", "claude-*" and "auto"

ASSUME ProviderAssumption ==
  Provider \in [Endpoints -> {"openai", "anthropic", "custom"}]
ASSUME PrepaidAssumption == Prepaid \subseteq Endpoints
ASSUME WindowAssumption == Window \in [Endpoints -> Nat]
ASSUME ModelNamesAssumption ==
  GptModels \union ClaudeModels \union {AnyGpt, AnyClaude, AutoModel} \subseteq Models

Formats == {"openai", "anthropic"}

\* GetForModel: the registered, active backends an index entry leads to, also
\* those that do not list the model any more.
GetForModel(view, index, model) ==
  {id \in index[model] : view[id] # NoBackend /\ view[id].status = "active"}

\* The first model name that has candidates, in the order they are tried.
ResolveModel(view, index, model) ==
  LET leads(m) == GetForModel(view, index, m) # {}
  IN  IF leads(model) THEN model
      ELSE IF model \in GptModels /\ leads(AnyGpt) THEN AnyGpt
      ELSE IF model \in ClaudeModels /\ leads(AnyClaude) THEN AnyClaude
      ELSE AutoModel

Fits(b, tokens) == Window[b.endpoint] = 0 \/ Window[b.endpoint] >= tokens

\* Mutant: no window counts as a window of size zero.
ContextChoicesZero(view, ids, tokens) ==
  LET fit == {id \in ids : Window[view[id].endpoint] >= tokens}
  IN  IF tokens <= 0 \/ ids = {} THEN {ids}
      ELSE IF fit # {} THEN {fit}
      ELSE {{id} : id \in {i \in ids : \A j \in ids :
              Window[view[i].endpoint] >= Window[view[j].endpoint]}}

\* FilterByContextWindow: the backends with room for the request, or a single
\* one with the largest window when none has room.  The result is one of these.
ContextChoices(view, ids, tokens) ==
  LET fit == {id \in ids : Fits(view[id], tokens)}
  IN  IF tokens <= 0 \/ ids = {} THEN {ids}
      ELSE IF fit # {} THEN {fit}
      ELSE {{id} : id \in {i \in ids : \A j \in ids :
              Window[view[i].endpoint] >= Window[view[j].endpoint]}}

IsPrepaid(b) == b.endpoint \in Prepaid

\* Mutant: a backend with one token left is taken for exhausted.
ExhaustedEarly(b) ==
  \/ b.quotaTotal > 0 /\ b.quotaRemaining <= 1
  \/ b.balance > 0 /\ b.used >= b.balance

\* A discovered quota or a configured budget has run out.
Exhausted(b) ==
  \/ b.quotaTotal > 0 /\ b.quotaRemaining <= 0
  \/ b.balance > 0 /\ b.used >= b.balance

\* Mutant: the budget is looked at only when no quota was announced.
FilterActiveQuota(view, ids) ==
  {id \in ids : /\ view[id].status = "active"
                /\ ~ (view[id].quotaTotal > 0 /\ view[id].quotaRemaining <= 0)}

\* filterActive, with which every strategy's Select begins.
FilterActive(view, ids) ==
  {id \in ids : view[id].status = "active" /\ ~ Exhausted(view[id])}

\* Mutant: custom backends are taken for native ones of every client.
FormatsMatchLoose(format, provider) == format = provider \/ provider = "custom"

FormatsMatch(format, provider) ==
  \/ format = "anthropic" /\ provider = "anthropic"
  \/ format = "openai" /\ provider \in {"openai", "custom"}

\* The format a provider speaks: adapterFor and the fast path know two.
Speaks(provider) == IF provider = "anthropic" THEN "anthropic" ELSE "openai"
=============================================================================
