---------------------------- MODULE ProxyHandler ----------------------------
(***************************************************************************)
(* HandleRequest and executeBackend (internal/proxy/handler.go): client    *)
(* requests in flight together, the backends that serve them, and the two  *)
(* things they write back to the registry, consumed tokens and announced   *)
(* quotas.  The registry is reduced to its live records and the published  *)
(* ones; an edit or a removal, in several steps in module AdminApi, is one *)
(* step here.                                                              *)
(*                                                                         *)
(* A request computes its candidates once, from the clones of the snapshot *)
(* published when it arrives, and keeps those clones, whatever becomes of  *)
(* the backends; a second tier is tried with what was published before the *)
(* first one.  A strategy's Select is any member of FilterActive, or       *)
(* nothing for the one that may refuse (module Strategies).                *)
(*                                                                         *)
(* A provider may serve a request and its answer be lost or late: then it  *)
(* has consumed tokens the proxy never hears of.                           *)
(***************************************************************************)
EXTENDS Routing, Sequences, FiniteSets

CONSTANTS
  Requests,   \* client requests
  Repeats,    \* whether a client sends another one after the end of the first
  Shapes,     \* what a client may send
  Live0,      \* the registered backends at the start
  Edits,      \* the payloads of edits
  Editable,   \* BOUND: the backends that are edited or removed, once each
  Quota0,     \* the tokens each endpoint grants in one quota window
  Announces,  \* the endpoints whose answers carry rate-limit headers
  Counts,     \* the tokens an answer may cost
  MayRefuse,  \* whether the strategy is one that may select nothing
              \* although a backend is usable (module WeightedRoundRobin)
  Renewals    \* BOUND: quota windows that begin anew per endpoint

Shape == [format : Formats, stream : BOOLEAN, model : Models, tokens : Nat]

ASSUME RequestsAssumption == IsFiniteSet(Requests)
ASSUME ShapesAssumption == Shapes \subseteq Shape /\ Shapes # {}
ASSUME LiveAssumption   == Live0 \in [Ids -> Backend \union {NoBackend}]
ASSUME EditsAssumption  == Edits \subseteq BackendInput /\ Editable \subseteq Ids
ASSUME QuotaAssumption  == Quota0 \in [Endpoints -> Nat] /\ Announces \subseteq Endpoints
ASSUME CountsAssumption == Counts \subseteq Nat \ {0}
ASSUME RefuseAssumption == MayRefuse \in BOOLEAN /\ Repeats \in BOOLEAN
ASSUME RenewAssumption  == Renewals \in Nat
\* What the state file knows of a quota is old, so it is not less than what is
\* left of it.
ASSUME AnnouncedAssumption ==
  \A id \in Ids : (Live0[id] # NoBackend /\ Live0[id].quotaTotal > 0)
    => Live0[id].quotaRemaining >= Quota0[Live0[id].endpoint]

VARIABLES
  live,       \* the registry's live records
  seen,       \* the published clones
  index,      \* Registry.byModel: model -> ids; a change of it is published at once
  req,        \* request -> what its handler goroutine is doing
  edited,     \* HISTORY: the backends that were edited or removed
  quota,      \* EXTERNAL: tokens an endpoint still grants
  renewed,    \* EXTERNAL: quota windows an endpoint began anew
  consumed    \* HISTORY: id -> tokens spent on the requests it served

vars == <<live, seen, index, req, edited, quota, renewed, consumed>>
registry == <<live, seen, index, edited>>
upstream == <<quota, renewed, consumed>>

NoAnswer == [status |-> "none", tokens |-> 0, left |-> 0]
Answer == [status : {"none", "ok", "retry", "refuse"}, tokens : Nat, left : Nat]

NewRequest ==
  [phase |-> "new", shape |-> CHOOSE s \in Shapes : TRUE, offered |-> <<>>,
   next |-> 1, tried |-> <<>>, answer |-> NoAnswer, why |-> "none", body |-> "none"]

\* What a request needs of a clone: whose it is, and where it sends to.
Target == [id : Ids, endpoint : Endpoints]
Targets(ids) == {[id |-> id, endpoint |-> seen[id].endpoint] : id \in ids}

At(r) == req[r].tried[Len(req[r].tried)]
Native(r) == FormatsMatch(req[r].shape.format, Provider[At(r).endpoint])
Streams(r) == req[r].shape.stream

Goto(r, phase) == req' = [req EXCEPT ![r].phase = phase]
\* The client gets a body in some format, or an error of the proxy's own.
Reply(r, format) ==
  req' = [req EXCEPT ![r].phase = "answered", ![r].body = format]
Fail(r, why) ==
  req' = [req EXCEPT ![r].phase = "failed", ![r].why = why]

-----------------------------------------------------------------------------
\* Mutant: pay-per-token first.
SplitSwapped(ids) ==
  << {id \in ids : ~ IsPrepaid(seen[id])}, {id \in ids : IsPrepaid(seen[id])} >>

\* Two cost tiers, in this order.
SplitByCostTier(ids) ==
  << {id \in ids : IsPrepaid(seen[id])}, {id \in ids : ~ IsPrepaid(seen[id])} >>

\* Parse, resolve, filter and split.  The clones do not change any more, so
\* filterActive, which runs when a tier's turn comes, may as well run here.
Arrive(r, shape) ==
  LET model == ResolveModel(seen, index, shape.model)
      found == GetForModel(seen, index, model)
  IN  /\ req[r].phase = "new"
      /\ IF found = {}
         THEN req' = [req EXCEPT ![r].phase = "failed", ![r].shape = shape,
                                 ![r].why = "no candidate"]
         ELSE \E ids \in ContextChoices(seen, found, shape.tokens) :
                LET tiers == SplitByCostTier(ids)
                IN  req' = [req EXCEPT
                      ![r].phase = "route", ![r].shape = shape,
                      ![r].offered = [i \in 1..2 |-> Targets(FilterActive(seen, tiers[i]))]]
      /\ UNCHANGED <<registry, upstream>>

\* The strategy selects one usable backend of the tier.
Select(r) ==
  /\ req[r].phase = "route" /\ req[r].next <= 2
  /\ \E target \in req[r].offered[req[r].next] :
       req' = [req EXCEPT ![r].phase = "sent", ![r].next = @ + 1,
                          ![r].tried = Append(@, target), ![r].answer = NoAnswer]
  /\ UNCHANGED <<registry, upstream>>

\* Mutant: the nil check is missing.
PassOverUnchecked(r) ==
  /\ req[r].phase = "route" /\ req[r].next <= 2
  /\ req[r].offered[req[r].next] = {} \/ MayRefuse
  /\ req' = [req EXCEPT ![r].phase = "sent", ![r].next = @ + 1]
  /\ UNCHANGED <<registry, upstream>>

\* It selects nothing: the tier has no usable backend, or it refuses.
PassOver(r) ==
  /\ req[r].phase = "route" /\ req[r].next <= 2
  /\ req[r].offered[req[r].next] = {} \/ MayRefuse
  /\ req' = [req EXCEPT ![r].next = @ + 1]
  /\ UNCHANGED <<registry, upstream>>

\* Mutant: the first failed attempt is the last.
GiveUpEarly(r) ==
  /\ req[r].phase = "route"
  /\ req[r].next > 2 \/ req[r].tried # <<>>
  /\ Fail(r, IF req[r].tried = <<>> THEN "none usable" ELSE "retryable")
  /\ UNCHANGED <<registry, upstream>>

GiveUp(r) ==
  /\ req[r].phase = "route" /\ req[r].next > 2
  /\ Fail(r, IF req[r].tried = <<>> THEN "none usable" ELSE "retryable")
  /\ UNCHANGED <<registry, upstream>>

-----------------------------------------------------------------------------
(* The backend                                                             *)

\* It serves the request, or what is left of its quota does not allow it.
Serve(r, n) ==
  LET e    == At(r).endpoint
      left == IF quota[e] > n THEN quota[e] - n ELSE 0
  IN  /\ req[r].phase = "sent"
      /\ quota[e] > 0
      /\ quota' = [quota EXCEPT ![e] = left]
      /\ consumed' = [consumed EXCEPT ![At(r).id] = @ + n]
      /\ req' = [req EXCEPT ![r].phase = "served",
                   ![r].answer = [status |-> "ok", tokens |-> n, left |-> left]]
      /\ UNCHANGED <<registry, renewed>>

\* A status the handler retries (408, 429, 502 and above), or another error.
Refuse(r, status) ==
  /\ req[r].phase = "sent"
  /\ req' = [req EXCEPT ![r].phase = "served",
       ![r].answer = [status |-> status, tokens |-> 0, left |-> quota[At(r).endpoint]]]
  /\ UNCHANGED <<registry, upstream>>

\* A new quota window, of an endpoint that announces them.
Renew(e) ==
  /\ e \in Announces /\ renewed[e] < Renewals
  /\ renewed' = [renewed EXCEPT ![e] = @ + 1]
  /\ quota' = [quota EXCEPT ![e] = Quota0[e]]
  /\ UNCHANGED <<registry, req, consumed>>

-----------------------------------------------------------------------------
(* executeBackend                                                          *)

\* The request for the backend cannot be built: not retried.
BuildFails(r) ==
  /\ req[r].phase = "sent"
  /\ Fail(r, "final")
  /\ UNCHANGED <<registry, upstream>>

\* No connection, or a timeout before the answer: the next tier is tried.
Lost(r) ==
  /\ req[r].phase \in {"sent", "served"}
  /\ Goto(r, "route")
  /\ UNCHANGED <<registry, upstream>>

\* A retryable status goes to the next tier, before anything is written to the
\* client; a stream is passed on whatever its status; a body is read.
Receive(r) ==
  /\ req[r].phase = "served"
  /\ Goto(r, IF req[r].answer.status = "retry" THEN "route"
             ELSE IF Streams(r) THEN "streaming" ELSE "body")
  /\ UNCHANGED <<registry, upstream>>

\* A stream ends the same way whether it was complete or cut off.  It is
\* filtered or copied, never translated, and its tokens are not counted.
StreamEnds(r) ==
  /\ req[r].phase = "streaming"
  /\ Reply(r, Speaks(Provider[At(r).endpoint]))
  /\ UNCHANGED <<registry, upstream>>

BodyFails(r) ==
  /\ req[r].phase = "body"
  /\ Fail(r, "final")
  /\ UNCHANGED <<registry, upstream>>

\* What is recorded for a backend that is not registered any more is lost.
Write(id, b) == live' = IF live[id] = NoBackend THEN live ELSE [live EXCEPT ![id] = b]

RecordTokens(id, n) == Write(id, [live[id] EXCEPT !.used = @ + n])

CaptureRateLimits(r) ==
  LET e       == At(r).endpoint
      headers == IF e \in Announces
                 THEN [total |-> Quota0[e], remaining |-> req[r].answer.left]
                 ELSE [total |-> Absent, remaining |-> Absent]
  IN  /\ req[r].phase = "body"
      /\ Write(At(r).id, CaptureRateLimitHeaders(live[At(r).id], headers))
      /\ Goto(r, "account")
      /\ UNCHANGED <<seen, index, edited, upstream>>

\* The fast path: the body goes to the client as it is.  Its usage is read from
\* input_tokens and output_tokens, which only the Anthropic format has.
AnswerNative(r) ==
  LET counts == Provider[At(r).endpoint] = "anthropic"
  IN  /\ req[r].phase = "account" /\ Native(r) /\ req[r].answer.status = "ok"
      /\ RecordTokens(At(r).id, IF counts THEN req[r].answer.tokens ELSE 0)
      /\ Reply(r, Speaks(Provider[At(r).endpoint]))
      /\ UNCHANGED <<seen, index, edited, upstream>>

\* A refused request whose formats match: adapter was never set, the call of
\* adapter.ParseResponse panics and net/http drops the connection.
Panic(r) ==
  /\ req[r].phase = "account" /\ Native(r) /\ req[r].answer.status = "refuse"
  /\ Goto(r, "aborted")
  /\ UNCHANGED <<registry, upstream>>

\* Translation: an error of the backend, or a body that does not parse.
ParseFails(r) ==
  /\ req[r].phase = "account" /\ ~ Native(r)
  /\ Fail(r, "final")
  /\ UNCHANGED <<registry, upstream>>

\* Mutant: the total and its parts are both recorded.
AnswerTranslatedTwice(r) ==
  /\ req[r].phase = "account" /\ ~ Native(r) /\ req[r].answer.status = "ok"
  /\ RecordTokens(At(r).id, 2 * req[r].answer.tokens)
  /\ Reply(r, req[r].shape.format)
  /\ UNCHANGED <<seen, index, edited, upstream>>

AnswerTranslated(r) ==
  /\ req[r].phase = "account" /\ ~ Native(r) /\ req[r].answer.status = "ok"
  /\ RecordTokens(At(r).id, req[r].answer.tokens)
  /\ Reply(r, req[r].shape.format)
  /\ UNCHANGED <<seen, index, edited, upstream>>

\* The client of a request that has ended sends another one.
Again(r) ==
  /\ Repeats /\ req[r].phase \in {"answered", "failed", "aborted"}
  /\ req' = [req EXCEPT ![r] = NewRequest]
  /\ UNCHANGED <<registry, upstream>>

-----------------------------------------------------------------------------
(* The registry                                                            *)

\* One tick of StartSnapshotRefresh.
SnapshotRefresh == seen' = live /\ UNCHANGED <<live, index, edited, req, upstream>>

\* An edit keeps the counters, the announced quota of another endpoint too,
\* and is published at once with all other records; so is a removal.  The index
\* still leads from the models before the edit to the backend: Add compares the
\* object with itself.
Edit(id, in) ==
  /\ id \in Editable \ edited /\ live[id] # NoBackend
  /\ live' = [live EXCEPT ![id] = SetRest(SetEndpoint(@, in), in)]
  /\ seen' = live'
  /\ index' = [m \in Models |-> IF m \in in.models THEN index[m] \union {id} ELSE index[m]]
  /\ edited' = edited \union {id}
  /\ UNCHANGED <<req, upstream>>

Remove(id) ==
  /\ id \in Editable \ edited /\ live[id] # NoBackend
  /\ live' = [live EXCEPT ![id] = NoBackend]
  /\ seen' = live'
  /\ index' = [m \in Models |-> IF m \in live[id].models THEN index[m] \ {id} ELSE index[m]]
  /\ edited' = edited \union {id}
  /\ UNCHANGED <<req, upstream>>

-----------------------------------------------------------------------------
Init ==
  /\ live = Live0
  /\ seen = Live0
  /\ index = [m \in Models |->
                {id \in Ids : Live0[id] # NoBackend /\ m \in Live0[id].models}]
  /\ req = [r \in Requests |-> NewRequest]
  /\ edited = {}
  /\ quota = Quota0
  /\ renewed = [e \in Endpoints |-> 0]
  /\ consumed = [id \in Ids |-> 0]

\* What happens to a request that was accepted.
Advance(r) ==
  \/ Select(r) \/ PassOver(r) \/ GiveUp(r)
  \/ \E n \in Counts : Serve(r, n)
  \/ \E status \in {"retry", "refuse"} : Refuse(r, status)
  \/ BuildFails(r) \/ Lost(r) \/ Receive(r) \/ StreamEnds(r)
  \/ BodyFails(r) \/ CaptureRateLimits(r)
  \/ AnswerNative(r) \/ Panic(r) \/ ParseFails(r) \/ AnswerTranslated(r)

Next ==
  \/ \E r \in Requests, shape \in Shapes : Arrive(r, shape)
  \/ \E r \in Requests : Advance(r) \/ Again(r)
  \/ \E e \in Endpoints : Renew(e)
  \/ \E id \in Ids : Remove(id) \/ \E in \in Edits : Edit(id, in)
  \/ SnapshotRefresh

Spec == Init /\ [][Next]_vars

\* A handler runs until it returns and waits for a backend no longer than the
\* backend's timeout, which covers the body and the stream too; the refresh
\* loop ticks.  Clients, providers and administrators owe nothing.
FairSpec ==
  /\ Spec
  /\ \A r \in Requests : WF_vars(Advance(r))
  /\ WF_vars(SnapshotRefresh)

-----------------------------------------------------------------------------
Phases == {"new", "route", "sent", "served", "streaming", "body", "account",
           "answered", "failed", "aborted"}
Reasons == {"none", "no candidate", "none usable", "retryable", "final"}

Request ==
  [ phase : Phases, shape : Shapes, offered : Seq(SUBSET Target), next : 1..3,
    tried : Seq(Target), answer : Answer, why : Reasons, body : Formats \union {"none"} ]

\* Types; and a request that was sent has a backend it is at.
TypeOK ==
  /\ live \in [Ids -> Backend \union {NoBackend}]
  /\ seen \in [Ids -> Backend \union {NoBackend}]
  /\ index \in [Models -> SUBSET Ids]
  /\ req \in [Requests -> Request]
  /\ edited \subseteq Editable
  /\ quota \in [Endpoints -> Nat] /\ renewed \in [Endpoints -> 0..Renewals]
  /\ consumed \in [Ids -> Nat]
  /\ \A r \in Requests :
       req[r].phase \in Phases \ {"new", "route", "failed"} => req[r].tried # <<>>

TierOf(target) == IF IsPrepaid(target) THEN 1 ELSE 2

TiersTried(r) == {TierOf(req[r].tried[i]) : i \in 1..Len(req[r].tried)}

(***************************************************************************)
(* "Cost-tier preference (prepaid -> pay_per_token)" (README.md:45): no    *)
(* tier is tried before an earlier one that had a usable backend, and a    *)
(* request that ends in a retryable error was offered to every tier that   *)
(* had one.                                                                *)
(***************************************************************************)
TiersInTurn ==
  \A r \in Requests :
    LET usable == {i \in 1..Len(req[r].offered) : req[r].offered[i] # {}}
    IN  /\ \A t \in TiersTried(r), i \in usable : i < t => i \in TiersTried(r)
        /\ req[r].why \in {"none usable", "retryable"} => usable = TiersTried(r)

(***************************************************************************)
(* The filters come one after the other, each on what the one before left: *)
(* lookup, "Context-length filter (skips backends with insufficient        *)
(* `MaxContextTokens`)" and "Active/quota filter (skips unhealthy or       *)
(* exhausted backends)" (README.md:44, 46).  Whatever was edited before,   *)
(* together they look at the model a request names as soon as one active   *)
(* backend lists it, at the fall-back otherwise, and offer                 *)
(*  - every usable backend that lists the model and has room for it, and   *)
(*  - nothing unusable, and nothing too small while one that lists the     *)
(*    model has room;                                                      *)
(*  - when nothing has room, at most one backend: it was chosen before the *)
(*    quotas were looked at, so a usable one may be left out.              *)
(***************************************************************************)
Usable(id) ==
  seen[id] # NoBackend /\ seen[id].status = "active" /\ ~ Exhausted(seen[id])

Lists(id, model) ==
  /\ seen[id] # NoBackend /\ seen[id].status = "active"
  /\ model \in seen[id].models

OfferedIn(offers) == UNION {{t.id : t \in offers[i]} : i \in DOMAIN offers}

OfferedWhatFits(r) ==
  (req[r].phase = "new" /\ req'[r].phase # "new") =>
    LET shape   == req'[r].shape
        offered == OfferedIn(req'[r].offered)
        has(id) == Fits(seen[id], shape.tokens)
        model   == ResolveModel(seen, index, shape.model)
        lists   == {id \in Ids : Lists(id, model)}
    IN  /\ (\E id \in Ids : Lists(id, shape.model)) => model = shape.model
        /\ \A id \in lists : (has(id) /\ Usable(id)) => id \in offered
        /\ \A id \in offered : Usable(id)
        /\ (\E id \in lists : has(id)) => \A id \in offered : has(id)
        /\ (\A id \in offered : ~ has(id)) => \A i, j \in offered : i = j

FittingIsOffered == [][\A r \in Requests : OfferedWhatFits(r)]_vars

(***************************************************************************)
(* No answer is counted twice: the proxy's count for a backend never       *)
(* exceeds what the backend consumed, however often requests are retried   *)
(* and whatever is edited meanwhile, so a budget is never used up early.   *)
(***************************************************************************)
NeverOvercounted ==
  \A id \in Ids : live[id] # NoBackend =>
    live[id].used - Live0[id].used <= consumed[id]

(***************************************************************************)
(* Answers may be captured out of order, but within one quota window that  *)
(* only ever overstates what is left: a backend whose quota the proxy      *)
(* takes for exhausted grants nothing any more, unless it was edited: the  *)
(* announcement of its old endpoint stays.                                 *)
(***************************************************************************)
ExcludedGrantsNothing ==
  \A id \in Ids \ edited :
    (/\ live[id] # NoBackend /\ renewed[live[id].endpoint] = 0
     /\ live[id].balance = 0 /\ Exhausted(live[id]))
       => quota[live[id].endpoint] = 0

(***************************************************************************)
(* An answer that is not streamed is in the format of its client.          *)
(***************************************************************************)
BodiesInClientFormat ==
  \A r \in Requests : (req[r].phase = "answered" /\ ~ Streams(r))
    => req[r].body = req[r].shape.format

(***************************************************************************)
(* Every request is handled as module Delivery says.                       *)
(***************************************************************************)
Outcome(phase) ==
  IF phase \in {"new", "answered", "failed", "aborted"} THEN phase ELSE "open"

Promise == INSTANCE Delivery WITH
  Tiers   <- {1, 2},
  outcome <- [r \in Requests |-> Outcome(req[r].phase)],
  offers  <- [r \in Requests |->
               [i \in 1..Len(req[r].tried) |-> TierOf(req[r].tried[i])]]

Delivers == Promise!DeliverySpec

(***************************************************************************)
(* A budget ends its own use, though it is compared on clones that lag and *)
(* by requests that chose their candidates before the others were counted: *)
(* if the counted tokens ever reach it (and they never go down), there     *)
(* comes a time from which no request is sent to the backend any more      *)
(* unless its budget is raised.                                            *)
(***************************************************************************)
SpentIsLeftAlone ==
  <>[] \A id \in Ids :
    (/\ live[id] # NoBackend /\ live[id].balance > 0
     /\ live[id].used >= live[id].balance)
      => \A r \in Requests : req[r].phase = "sent" => At(r).id # id

(***************************************************************************)
(* executeBackend "Returns (success, retryable, errorMessage)"             *)
(* (handler.go:141): it returns, so every request gets a reply.            *)
(***************************************************************************)
NeverAborts == \A r \in Requests : req[r].phase # "aborted"

(***************************************************************************)
(* "Minimal usage extraction for token tracking" (handler.go:269): when    *)
(* every request got its answer at the first attempt, the tokens of all of *)
(* them are counted.                                                       *)
(***************************************************************************)
AnswersAreCounted ==
  (\A r \in Requests : /\ req[r].phase \in {"new", "answered"}
                       /\ Len(req[r].tried) <= 1)
    => \A id \in Ids : live[id] # NoBackend =>
         live[id].used - Live0[id].used = consumed[id]
=============================================================================
