--------------------------- MODULE MCProxyHandler ---------------------------
(* Values of the constants for the runs of ProxyHandler.                   *)
EXTENDS ProxyHandler, TLC

CONSTANTS b1, b2, b3, r1, r2, eo, ea, ec, k1, gpt, gpts, claudes, auto, other

MCIds == {b1, b2, b3}
MCEndpoints == {eo, ea, ec}

\* An OpenAI, an Anthropic and a custom endpoint; the Anthropic one is prepaid,
\* and it and the custom one have a small context window.
MCProvider == (eo :> "openai") @@ (ea :> "anthropic") @@ (ec :> "custom")
MCPrepaid  == {ea}
MCWindow   == (eo :> 0) @@ (ea :> 1) @@ (ec :> 1)

Record(endpoint, models, balance) ==
  NewBackend([endpoint |-> endpoint, key |-> k1, models |-> models,
              balance |-> balance])

\* One backend per endpoint, two for "auto" and "gpt-*", one of them with a
\* budget, and two small ones for "claude-*".
MCLive == (b1 :> Record(ea, {auto, gpts, claudes}, 0)) @@ (b2 :> Record(eo, {auto, gpts}, 2))
          @@ (b3 :> Record(ec, {claudes}, 0))
\* A backend with a budget behind a prepaid one that only refuses, nobody
\* for "auto".
Budgeted == (b1 :> Record(ea, {gpts}, 0)) @@ (b2 :> Record(eo, {gpts}, 2))
            @@ (b3 :> NoBackend)

MCQuota == (ea :> 3) @@ (eo :> 9) @@ (ec :> 9)
\* The prepaid backend grants nothing, the other one two answers.
OneQuota == (ea :> 0) @@ (eo :> 4) @@ (ec :> 0)

\* The prepaid backend is moved to the endpoint of another one.
Move == {[endpoint |-> eo, key |-> NoKey, models |-> {auto}, balance |-> 0]}
\* A budget is raised.
Raise == {[endpoint |-> eo, key |-> NoKey, models |-> {gpts}, balance |-> 4]}

Msg(format, stream, model, tokens) ==
  [format |-> format, stream |-> stream, model |-> model, tokens |-> tokens]

\* Whole answers and streams, both client formats, a fuzzy, a fallback and a
\* wild-card model, a request too large for the small window.
MCShapes == {Msg("openai", FALSE, gpt, 0), Msg("anthropic", FALSE, other, 2),
             Msg("anthropic", TRUE, claudes, 0), Msg("anthropic", FALSE, claudes, 2)}
Plain  == {Msg("openai", FALSE, auto, 0), Msg("anthropic", FALSE, auto, 0)}
Fuzzy == {Msg("anthropic", FALSE, gpt, 0), Msg("openai", TRUE, other, 0)}
Nobody == {}
OpenAI == {Msg("openai", FALSE, auto, 2)}

SameRequests == Permutations(Requests)
=============================================================================
