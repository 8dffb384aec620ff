# TLA+ models of agent-proxy

The proxy accepts chat requests in the OpenAI or the Anthropic format, picks a
backend among several providers, translates the request if the backend speaks
the other format, and keeps track of tokens and quotas. Backends are managed
through an admin API and kept in a JSON file. It is one Go process without
dependencies; what is hard about it is that request handlers, admin handlers
and background loops share the same backend objects.

All paths below are relative to the repository root. Line numbers of every
definition are in `PROJECT.json` under `map`.

## 1. Inventory

| Component | State it keeps | Operations | Module |
|---|---|---|---|
| Backend record, `internal/backend/backend.go` | configuration, tokens used, announced quota, health | build and overwrite from an admin payload, capture rate-limit headers, mark success or failure | `Backend` |
| Registry, `internal/backend/registry.go` | live backends and model index behind a mutex; an immutable snapshot of both, swapped atomically | Add, Remove, RecordTokens, CaptureRateLimits, refresh loop (5 s), health loop | `Registry` |
| Store, `internal/store/store.go` | list of backend pointers, model-to-strategy table, `proxy_state.json` | load, save the whole state on every change | `AdminApi` |
| Admin API, `internal/api/router.go` | none of its own | create, update, delete a backend; set a strategy | `AdminApi` |
| Wiring, `cmd/proxy/main.go` | strategy cache | start from the file, refresh the cache (5 s) | `AdminApi` |
| Filters, `internal/strategy/strategy.go`, `internal/proxy/handler.go` | none | model resolution, context window, cost tier, active/quota | `Routing` |
| Strategies, `internal/strategy/strategy.go` | counters and current weights, one instance for all models | Select | `WeightedRoundRobin`, `Strategies` |
| Proxy handler, `internal/proxy/handler.go` | one goroutine per request | try the cost tiers in turn; send, stream, translate, count | `ProxyHandler`, abstractly `Delivery`; streams: `StreamFilter` |
| Runtime statistics, `backend.go` | EWMA latency, error rate | record, score | `Strategies` |
| Protocol, `internal/protocol` | none; the conversation is in the clients | JSON to IR and back, both formats | `Translation`, `Exchange` |
| Key encryption, configuration, web UI | keys, environment, none | | not modelled |
| `_reference/` | | a vendored copy of another product, not compiled in | not modelled |

How they interact:

- The **store, the registry and an admin handler hold the same `*Backend`**.
  The two mutexes protect the list and the map, not the object: `updateBackend`
  overwrites the object's fields under neither (`GetLive`, `registry.go:89`).
- Request handlers read only the **snapshot**, without a lock, and write back
  through `RecordTokens` and `CaptureRateLimits`, which change the live object
  and publish nothing; the refresh loop does that every five seconds.
- The health loop gets **clones** from `List()` and marks those.
- An admin request is a sequence of critical sections: store, then registry.
- `main` reads the strategy table into a cache; handlers read the cache.

The behaviours that are hard to test are listed at their lines under `hazards`
in `PROJECT.json`, each with the properties that watch it or the reason why
none does yet.

What makes each component correct:

- *Registry*: the snapshot never hides a published backend from its models,
  never shows a removed one, never leads the live counters, never goes back, and
  catches up.
- *Store and admin API*: store, registry, snapshot and file agree whenever
  nobody works on a backend; what was acknowledged survives a crash; edits do
  not give consumed tokens back; what is deleted stays deleted.
- *Strategies*: proportional or even, no backend in endless debt, refusals that
  end, away from what fails or has become slow.
- *Handler*: a request is offered what is usable and has room for it, and nothing
  else; it ends in exactly one reply; tiers in order; tokens
  counted once; quota exhaustion believed only when true; answers in the
  client's format; streams a client can follow.
- *Protocol*: what is said in a conversation, tool calls and their results above
  all, survives any change of provider, in the answers and on its way back.

## 2. Modules

`Backend` <- `Registry` <- `AdminApi`; `Backend` <- `Routing` <- `ProxyHandler`,
which has `Delivery` as its abstract specification; `WeightedRoundRobin` <-
`Strategies`; `StreamFilter` and `Translation` <- `Exchange`. A module `XProofs`
holds the theorems about `X` (those about `Delivery` are in `ProxyHandlerProofs`,
those about `StreamFilter` in `ExchangeProofs`); `BackendProofs`, `Sums` and
`TranslationProofs` have the lemmas that the others cite: on records, on sums over
finite sets, on conversions. `MC*` modules give the constants their values for TLC. Operators whose comment starts with
"Mutant:" are plausible mistakes in the operator after them; `PROJECT.json` says
which property detects which.

**Backend.** Everything about a backend that no property tells apart (name,
URL, provider, weight, tier, window, timeout) is one opaque `endpoint`;
`ProxyHandler` gives an endpoint its provider, tier and window. The key is apart
because an update with an empty key keeps the old one. `SetEndpoint` and
`SetRest` are the two halves of `updateBackend`'s field-by-field overwrite.

**Registry.** One action per critical section of `Registry.mu`. `obj` is the
heap: ids are fresh UUIDs, so an id names one object for ever, registered or
not. `snapshot` is the published copy. `list` and `pending` are the probe round
in progress, a loop over clones that other steps interleave with. Here an
update edits and re-adds in one step, which is what `GetLive`'s comment asks of
its callers.

**AdminApi.** Extends `Registry` with the store, the file, admin requests in
flight and the process. A request is a sequence of steps (`CreateSave`,
`CreateAdd`; `UpdateLookup`, `UpdateEndpoint`, `UpdateRest`, `UpdateSave`,
`UpdateAdd`; `DeleteStore`, `DeleteRemove`), each with its early returns.
`Image` is what `save` writes: the objects *as they are when it marshals them*,
half-edited ones included. `os.WriteFile` truncates first, so a save that fails
or is cut off may leave `Torn`, which no start can load (`FailedStart`).
`Serialized = TRUE` says that clients take turns on one backend. `acked` is a
history variable: what the client of a backend was last told, `Unknown` from the
start of a request to its success.
Health rounds are absent: `RegistryProofs` proves that all they do to the shared
state is publish it again.

**WeightedRoundRobin.** `Select` holds the strategy's mutex, so it is one step
on the current weights. The slice it is given, already filtered, is any of
`Pools`; it changes from call to call because one instance serves all models and
both tiers.

**Strategies.** Adds the other strategies that depend on the past: round robin
with its wrapping counter, and least latency and adaptive with the runtime
statistics (`RecordResult`, `Score`). A behaviour is about one of them. A latency
is a whole number of time units, as a `Duration` is; an error rate is a number of
parts of `Precision`, rounded down, which like the `float64` stays below one. A
backend that is `down` refuses connections, which is recorded as a fast failure;
least latency does not look at failures, so for it `down` only means fast.

**Routing.** The lookup with its fallbacks and the filters, as operators on a
view (the records of one snapshot) and its index of models. Slices are sets: order matters only among
equals, where the model allows each of them.

**ProxyHandler.** A request is a record with a phase. `Arrive` computes the
candidates of both tiers from the snapshot of that moment and the handler keeps
them, as the code keeps pointers to clones. `Select`/`PassOver`/`GiveUp` are the
loop over the tiers; the other actions are `executeBackend` in the order of the
code: build, send, retryable status, stream, read body, capture the quota, then
fast path or translation. A strategy is abstracted to "any member of
`FilterActive`", and to "or nothing" when `MayRefuse`, the behaviour
`WeightedRoundRobin` shows to be possible. The provider is external: it serves
(and consumes quota), refuses, or its answer is lost although it served.
Meanwhile an administrator edits or removes backends (`Edit`, `Remove`, each in
one step; `AdminApi` has them step by step): a request goes on with its clone,
and its tokens and quota are written to whatever then is registered under the id
(`Write`). `index` is the published model index; as in the code, an edit adds the
new models to it and leaves the old ones, and a removal takes out those the backend
had last, so entries may be stale and the lookup finds backends by them. Not in it: latency statistics, and failures to serialise an answer
that was parsed.

**Delivery.** The abstract promise: a request is offered to tiers in increasing
order, at most once to each, and ends exactly once; then its client may send
another. `ProxyHandler!Delivers` is the refinement, liveness included.

**StreamFilter.** `streamAnthropicFiltered`, one event per step. `sent` is the
set of positions of the input that reached the client; `thinking` is the map of
indices; `open` is what a well-behaved backend knows of its own blocks. A body
may end between events, in one (whose lines are flushed as they are), or in a
line over the limit.

**Translation.** The converters `executeBackend` calls, as operators on messages
that are sequences of texts, images, calls and results: the two request parsers,
the two request builders, the two response parsers and the serialisers.

**Exchange.** Conversations. A client of one format says something (texts and
images), a provider of any kind answers (texts, calls and, Anthropic's, thinking;
an empty text is no text in either format and left out), with tool calls or without, as a whole or as a stream that
passes through `StreamFilter`; the client keeps what it got, returns results,
and its next request carries the whole conversation to whichever provider is
next. That is where translation has a history: calls made by one provider come
back in the format of another.

## 3. Runs

Properties that hold:

| Run | What it asks | Properties |
|---|---|---|
| `registry` | all registry operations interleaved with a health round; do counts reach the snapshot | `TypeOK`, `IndexCovers`, `SnapshotLags`, `FailsNeverAccumulate`, `ViewGoesForward`, `TokensGetPublished` |
| `admin` | two requests at a time, strategies, traffic, refreshes, crashes | `Agree`, `TokensNeverRefunded`, `DeletedStaysDeleted` |
| `admin_faults` | save errors, torn files, crashes in a save | `AdminTypeOK`, `DurableAck` |
| `wrr` | slices that change from call to call; backends that break down, fail fast, become slow | `StrategiesTypeOK`, `NeverAheadWRR`, `NobodyStarvesWRR`, `SmoothWRR`, `RefusalsEnd`, `Even`, `FailuresAreNoticed`, `SlowIsLeft`, `OneTrialPerSlice` |
| `proxy` | two requests, three providers, two tiers, quotas, a backend edited or removed | `TypeOK`, `TiersInTurn`, `NeverOvercounted`, `ExcludedGrantsNothing`, `BodiesInClientFormat`, `FittingIsOffered` |
| `proxy_live` | clients that go on: does the handler implement `Delivery`, does a used-up budget end the use of its backend | `Delivers`, `SpentIsLeftAlone` |
| `exchange` | conversations with tools and changing providers: what survives | `StreamTypeOK`, `ThinkingStripped`, `ClientCanFollow`, `ExchangeTypeOK`, `CallsSurvive`, `NoOrphanResults`, `PlainTurnsSurvive`, `AnswersArrive` |

Statements of the documentation or the comments that the code does not keep,
each with a counterexample (details under `findings`):

| Run | What happens |
|---|---|
| `registry_dead` | A backend that answers no probe stays active: verdicts are written to clones and thrown away. |
| `admin_retry` | A delete that failed in the save and is repeated is answered 200 and undone by a restart. |
| `admin_resurrect` | An update overlapping a delete brings the backend back. |
| `proxy_aborts` | A client error of a native backend reaches a nil adapter: the handler panics. |
| `proxy_counts` | Tokens of OpenAI answers on the fast path are never counted. |

The models also contain, without a run of their own, what the hazards say at
their lines: after an update the index still leads from the old models to the
backend (`Reindex` is given the new models as the old ones, `Add`); the refresh
loop may publish a half-overwritten backend (between `UpdateEndpoint` and
`UpdateAdd`); a crash in a save makes the file unreadable (`CrashInSave`,
`FailedStart`); a restart forgets the tokens consumed since the last save
(`Restart`); streams are not translated (`StreamEnds`); a quota that was seen at
zero is never asked about again (`FilterActive`); weighted round robin may select
nobody from a slice of usable backends, for a while (`RefusalsEnd` bounds it).

Some properties say how far the code goes, and so what it does not do:

- `AnswersArrive`: a whole answer of an OpenAI provider reaches an Anthropic
  client as a message *without content*, because it is put into `Choices` and the
  serialiser reads `Content`. Every other combination arrives.
- `PlainTurnsSurvive`: a message of texts, of texts before calls, or of a single
  result arrives whole. Texts after calls or next to results may be lost on the way
  to an OpenAI provider, and of several results it gets the last; of several system
  messages an Anthropic provider gets the last, and OpenAI's role `tool` reaches it
  as it is.
- `ThinkingStripped`: signatures of dropped thinking blocks are passed on.
- `NeverAheadWRR`, `NobodyStarvesWRR`, `SmoothWRR`: weighted round robin never gives
  a backend a whole call more than its share, and what it owes to one does not grow
  with the number of calls. The bound for all weights, `(n - 1) * (W - 1)` for `n`
  backends of weight `W` together, is nearly `n - 1` calls. That a backend never is
  even one whole call behind (`SmoothWRR`) holds for the weights of the run and not
  for all: of five backends with the weights 17, 1, 5, 38 and 38 one waits longer.
- `FittingIsOffered`: when no backend has room, one is offered, and that one is
  chosen before anybody asks whether its quota is used up; then a usable one may be
  left out and the request refused. And what the lookup finds by a stale entry may
  be offered too, though never instead of a backend that lists the model and fits.
- `FailuresAreNoticed`: adaptive may take several failures in a row, because a
  backend that refuses connections looks fast: `Enough` of each but one.
- `OneTrialPerSlice`: least latency gives a slice one first call; members that
  were not measured then never are.
- `Even`: of round robin only while the slice stays the same; for models called in
  turns nothing holds.

### Bounds

- Two backends and two models are enough for the registry and the admin API:
  every operation concerns one id, and interference needs a second one (an index
  entry shared by two, a save that persists another backend's edit). Two requests
  at a time make every pair of handlers overlap; a third would only repeat a pair.
- `MaxUsed` bounds recorded tokens; one or two units tell "late" from "lost".
- `MaxFails` is 2, the least that tells one failure from enough of them (`main`
  uses 3; the proofs cover every value from 2 on). Two failures must accumulate
  for a degradation, and none do.
- `Faults` selects faults per run, because error paths multiply the states:
  `admin` has crashes, `admin_faults` everything.
- `MaxCalls` = 18 calls in a row with one slice are more than two rounds of the
  weights 5, 2 and 1 (the third weight is 0, which the code reads as 1); then the
  slice has to change. How often it changes is not bounded: the current weights
  are finite by themselves.
- `wrr`, the other strategies: `Counters` = 32 stands for 2^64, a multiple of the
  slices of length 1 and 2 and not of 3, as 2^64 is. `MaxResults` = 30 results and
  `MaxTurns` = 2 breakdowns or recoveries, with the slices `Scored` of two models;
  adaptive and least latency stop at `MaxResults`, which is why that run does not
  check for deadlock. `Enough` = 15, 12 and 8 are the fewest failures in a row that
  put a backend of weight 5, 2 and 1 behind any other that answers, for latencies of
  100 and 10 (`EnoughAssumption`, which TLC evaluates: one less of any is too few).
  `RefusalsEnd` and `SlowIsLeft` state theirs from the constants: the total weight
  (times the number of backends while the slice keeps changing), and two calls per
  slice.
- `exchange`: at most `MaxMessages` = 8 messages, `MaxStreamed` = 2 streamed
  answers, `MaxEvents` = 5 events in a stream with two indices: a thinking block
  and the beginning of another block, interleaved or not, with the same index or
  another. Three texts, one image and two calls.
- `Mapped` = one model that strategies are set for: models have no influence on
  each other's entry.
- `proxy`: two requests, four shapes of request (both formats, whole and
  streamed, a fuzzy, a fallback and a wild-card name, one too large for a
  window), three backends of the three providers in two tiers, two of them with a
  small window and one with none (of the two small ones neither has room for the
  large request, so one is chosen), answers that cost
  2 or 3 tokens against a budget of 2 and a quota of 3, and one renewal
  (`Renewals`), one backend that may be moved, or removed, once (`Editable`).
  Each request is sent once; in `proxy_live` clients repeat
  (`Repeats`), and the states stay finite because quotas are.

Symmetry is used only in runs of invariants and step properties, over requests
and, where the file starts empty, backends.

### Fairness

- `SnapshotRefresh`, `HealthTick`: tickers in goroutines that run
  until shutdown. A probe ends within ten seconds.
- `Advance(r)`: a handler runs until it returns, and every wait for a backend,
  body and stream included, ends with the backend's timeout (120 s by default).
  Nothing is assumed about *how* it ends.
- Admins, clients, providers and crashes owe nothing.

## 4. Proofs

`RegistryProofs` proves, for all ids, models, payloads, state files, header
values, thresholds (`MaxFails >= 2`) and bounds:

| Theorem | Says |
|---|---|
| `TypeCorrect` | `Spec => []TypeOK` |
| `PublishedIsRoutable` | `Spec => []IndexCovers` |
| `SnapshotNeverLeads` | `Spec => []SnapshotLags` |
| `ProbesAreLost` | `Spec => []FailsNeverAccumulate` |
| `SnapshotsGoForward` | `Spec => ViewGoesForward`, an action property |

None of the three after the first is inductive. The snapshot is made from the live
state, so `IInv` adds the same facts about the live state: the live index covers
the models of every registered object (`Live`), the snapshot is a faithful copy
of some earlier one, so its clones carry no failures and its index covers them
(`Seen`), and a clone of the round in progress that was not probed yet has no
failures, one that was has at most one (`Round`). The step that needs them all
is a probe's `Mark`: the clone's verdict goes nowhere because `Publish` copies
the heap. `SnapshotsGoForward` adds that whatever is registered is published at once
(`Shown`): a step leaves the snapshot alone or publishes the heap (`StepsPublish`),
and the heap neither loses tokens nor takes anybody back (`HeapGrows`). Each action has a lemma of its own, with one step per conjunct it can
disturb; the assumptions used are the named `ASSUME`s of `Backend` and
`Registry`.

`AdminApi` leans on `ProbesAreLost`: without it, leaving health rounds out would
be a guess.

`ExchangeProofs` and `TranslationProofs`, for all indices, kinds of blocks, texts,
calls, lengths of streams and lengths of conversations:

| Theorem | Says |
|---|---|
| `FilterCorrect` | `StreamSpec => [](StreamTypeOK /\ ThinkingStripped /\ ClientCanFollow)` |
| `ExchangeRunsTheFilter` | `ExchangeSpec => StreamSpec`: a conversation runs the filter, one stream after the other, with nothing left over |
| `ConversationsAreFiltered`, `FilterRemembers` | hence the three invariants hold in conversations |
| `ConversationTypes` | `ExchangeSpec => []ExchangeTypeOK` |
| `CallsReachProviders` | `ExchangeSpec => []CallsSurvive` |
| `NoResultIsOrphaned` | `ExchangeSpec => []NoOrphanResults` |
| `PlainTurnsArrive` | `ExchangeSpec => []PlainTurnsSurvive` |
| `AnswersReachClients` | `ExchangeSpec => []AnswersArrive` |

About the filter, what has to be added is that at rest nothing is left of the last
stream (`Resting`), and that the client got the start of every open block that is
not a thinking block (`Followed`).

About conversations, none of the properties says where a message comes from, so
none is inductive. `CInv` adds it: what the client keeps is a conversation of its
format in which every result follows its call (`Kept`), and what a provider was
asked is that conversation or its translation (`RequestMatches`). What the client
gathers from a stream is what was streamed, because `ThinkingStripped` of a
*complete* stream leaves out thinking blocks alone, and starts name blocks that
exist (`StartsBlocks`). The three properties of requests then follow from what a
translation keeps, which is `TranslationProofs`: message by message
(`ToAnthropicKeeps`, `ToOpenAIKeeps`), and from there, by lemmas on gathering, for
whole requests. The two directions keep different things. Towards Anthropic every
text, call and result outside the system's messages is kept. Towards OpenAI calls
are kept; of several results in a message the last is left; no result is invented,
so no result loses its call.

`ProxyHandlerProofs`, for all requests, backends, providers, payloads, and
interleavings:

| Theorem | Says |
|---|---|
| `HandlerTypes` | `Spec => []TypeOK` |
| `BodiesMatchClients` | `Spec => []BodiesInClientFormat` |
| `TiersAreTriedInTurn` | `~ MayRefuse` implies `Spec => []TiersInTurn` |
| `HandlerKeepsThePromise` | `Spec => DeliveryInit /\ [][DeliveryNext]_deliveryVars` under the refinement mapping |
| `ExclusionIsJustified` | `Spec => []ExcludedGrantsNothing` |
| `NothingIsCountedTwice` | `Spec => []NeverOvercounted`, for any finite number of requests |
| `RoutesWhatFits` | `Spec => FittingIsOffered`, an action property, for all windows, models and stale entries |

`CInv` says per request what its phase implies (`Course`): the tiers behind it
were empty or tried, the candidates ahead are those of the snapshot it arrived
with, an answer in hand is of the backend it is at. The refinement needs nothing
else. The quota is another matter (`QInv`): within a quota window what an endpoint
grants only shrinks (`QuotasShrink`); backends and clones that were not edited are
at the endpoint they started with (`Original`, `Addressed`); so every announcement,
on its way or captured, is never below what the endpoint still grants
(`Underway`, `Captured`). That needs `AnnouncedAssumption`: what the state file
says remains of a quota at the start is not less than what does. `NeverOvercounted`
compares two things that change steps apart: tokens are consumed when the provider
serves and counted when the answer has been read. `NInv` closes the gap with the
answers in between: counted so far, plus the tokens of every answer on its way
from this backend (a sum over requests), is at most what was consumed.
`RoutesWhatFits` is about the one step in which a request arrives
(`OnlyArrivalBegins`), and needs to know of the state before it that no index entry
is missing (`Indexed`), for the live records and the published ones: an edit or a
removal publishes the live ones, with an index that old edits have been at. The rest
are facts about the filters, for views of any size (`ContextLeaves`,
`UsableAreOffered`).

`AdminApiProofs`, for all backends, payloads, requests, faults and crashes, the first
always and the others when clients take turns on a backend (`Serialized`):

| Theorem | Says |
|---|---|
| `AdminTypesCorrect` | `AdminSpec => []AdminTypeOK`, taking turns or not |
| `AcknowledgedSurvives` | `AdminSpec => []DurableAck` |
| `UpdatesDoNotResurrect` | `AdminSpec => DeletedStaysDeleted` |
| `NoRefund` | `AdminSpec => TokensNeverRefunded` |
| `FourCopiesAgree` | `AdminSpec => []Agree`, when saves succeed (`Faults \subseteq {"crash"}`) |

A request acknowledges at its end what it did in earlier steps, while saves of
other requests rewrite the file from the shared objects. So `AInv` follows each
request (`Progress`: what is already in the object, in the list, in the file),
says that nobody else is at its backend (`Turns`), and that memory and every
readable file hold what was acknowledged (`Ack`). `UpdatesRegistered` is what the
second theorem adds. Without `Serialized` the second is false
(`admin_resurrect`). The last one adds `Copies`: a backend nobody works on is
`Settled`, and what left the list or the registry left every copy (`Gone`). A step
acts on the backend of one request and merely saves and publishes the others
(`Passes`); a request that ends has just published its backend, and its save, some
steps ago, was only followed by saves of the same object.

`StrategiesProofs`, for all weights, slices, latencies and numbers of calls:

| Theorem | Says |
|---|---|
| `StrategiesTypes` | `StrategiesSpec => []StrategiesTypeOK` |
| `NobodyIsAhead` | `StrategiesSpec => []NeverAheadWRR` |
| `NobodyStarves` | `StrategiesSpec => []NobodyStarvesWRR` |
| `RefusalsAreBounded` | `StrategiesSpec => []RefusalsEnd` |
| `RoundRobinIsEven` | `StrategiesSpec => []Even` |
| `OneTrialEach` | `StrategiesSpec => []OneTrialPerSlice` |
| `SlowOnesAreLeft` | `StrategiesSpec => []SlowIsLeft` |
| `FailuresTurnAway` | `StrategiesSpec => []FailuresAreNoticed` |

Weighted round robin: in an unchanged slice the current weights are what each
backend is due and cancel out (`Balanced`), so somebody has a weight of zero or
more, is chosen, and nobody is ahead by a whole call. As what is due adds up to
nothing, nobody is further behind than all others together are ahead (`DueIsBounded`).
When slices change they no
longer cancel out, and a slice may be refused. `Refusing` bounds how often: each
refused call pays back a part of the debts, so the calls refused plus all debts
never exceed the number of backends times the total weight, and no debt is deeper
than the total weight. Round robin: the numbers the counter gave since the
slice changed are an interval, perhaps wrapped around once, and how many of an
interval leave a remainder is known (`Counted`). Least latency: a slice that
measures a new backend had none, and has one from then on (`FirstTrials`); and
every measured backend has a patience, the slow answers it may still give before
its average passes half of what they took, of which `streak` uses one per call (`Leaving`).
`SlowAssumption` says that two slow answers are enough for that; it holds of every
latency from 105 units on, and the code counts nanoseconds. Adaptive: averages stay
between the two latencies (`Latencies`), so what fast failures can make of a score is
bounded, and `Enough` of them outweigh it (`EnoughFailures`). `Noticing` follows a
streak: there is a number of failures for each backend, together at least the
streak, none above `Enough`, each with the error rate that many cause (`Rate`) or
more, and zero for a backend that is proven. `EnoughAssumption` says what `Enough` is
in the score's own terms (weights, latencies and precision); whatever weights
and latencies are, a fine enough precision has numbers like that, because the error
rate of a backend that keeps failing tends to one.

These proofs, `NInv` and the conversations need induction over sets, sums, sequences
and the number of failures (`IterationExists`), which a theorem about an arbitrary predicate cannot give here. `Sums`
states it with a set in the place of the predicate (`NatInductive`,
`FiniteInductive`), and `TranslationProofs` likewise for sequences. From these
follow that the library's folds compute what their recursive equations say
(`SumRecursive`, `GatherAppend` and others).

Model-checked only:

- all liveness (`TokensGetPublished`, `Delivers`' fairness part,
  `SpentIsLeftAlone`), since the prover does not handle `ENABLED`;
- `SmoothWRR`, which is false for some weights;
- that `Serialized = FALSE` breaks `DeletedStaysDeleted`, and the other findings,
  which are counterexamples.

## 5. Not modelled, and why

- *`_reference/`*: 97.7% of the repository's lines are a vendored copy of another
  product, in a directory that the Go tool ignores and no package of the proxy
  imports. Nothing in it runs in this program, so nothing of it can be modelled
  faithfully as part of it; the map therefore covers a small share of all lines,
  and most of `cmd/` and `internal/`.
- *`weighted_random`, `priority`, `least_usage`*: keep nothing between calls; in
  `ProxyHandler` they are "some usable backend".
- *Sampling parameters, tool declarations, usage fields, token estimate*: values
  that pass through, or an input.
- *`ParseStreamEvent`, `WriteAnthropicStreamEvent`, `FilterByCostTier`,
  `config.Update`*: called by nobody.
- *A limit header without a remaining header*: the model's providers announce
  both or none; what one of them alone does is listed as a hazard.
- *Key encryption, authentication, configuration, CORS, UI*: no state that
  interacts with the rest.
- *Data races as such*: the unlocked map read of `GetLive` can end the process,
  which is one more `Crash`.

## 6. Plan

Everything planned at first is there. What could come next:

1. `AdminApi` and `ProxyHandler` over one registry, with updates step by step
   while requests hold clones. `ProxyHandler` has them as single steps.
2. Header styles as separate inputs of `CaptureRateLimitHeaders`, with their
   precedence and a missing half.
3. Weighted round robin's exact lag: `NobodyStarvesWRR` bounds it for all weights,
   `SmoothWRR` only for those of the run.
