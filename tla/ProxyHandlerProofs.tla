------------------------- MODULE ProxyHandlerProofs -------------------------
(***************************************************************************)
(* Proofs about ProxyHandler, for any number of requests, any backends,    *)
(* edits, endpoints and quotas.                                            *)
(*                                                                         *)
(* Course says how far a request has come in its list of tiers, and what   *)
(* its phase promises: it is about the record of one request alone, which  *)
(* no other request touches.                                               *)
(*                                                                         *)
(* The handler implements the safety part of Delivery: every step of the   *)
(* handler, of a provider, of an administrator or of the refresh loop is   *)
(* an abstract step of one request, or none.  That a tier is offered at    *)
(* most once, and after the earlier ones, is what Course knows of it.      *)
(*                                                                         *)
(* What the proxy believes about a quota, for any number of requests,      *)
(* backends and endpoints: within one quota window an announcement, on its *)
(* way or captured, is never below what its endpoint still grants.  Three  *)
(* facts carry it: a quota only shrinks until it is renewed, so an old     *)
(* announcement that overwrites a newer one overstates; an answer comes    *)
(* from the endpoint its request was sent to; and for a backend that was   *)
(* never edited that is the endpoint its record still has.                 *)
(*                                                                         *)
(* What a request is offered rests on the index of models: Indexed says    *)
(* that it has an entry for every model of every record, live or           *)
(* published, though others may be old.                                    *)
(*                                                                         *)
(* And what it counts: that no answer is counted twice is not inductive,   *)
(* because tokens are consumed when a provider serves a request and are    *)
(* counted, or not, three steps later.  NInv puts the answers that are on  *)
(* their way on the side of what is counted: each request moves at most    *)
(* its own answer, once, from what may still be counted to what is.        *)
(***************************************************************************)
EXTENDS ProxyHandler, BackendProofs, SequenceTheorems, Sums

\* The tiers that were tried, in order, are usable and lie behind.
Tried(q) ==
  \A k \in 1..Len(q.tried) :
    /\ TierOf(q.tried[k]) < q.next
    /\ Len(q.offered) = 2
    /\ q.tried[k] \in q.offered[TierOf(q.tried[k])]

\* A usable tier that lies behind was tried, unless the strategy may refuse.
Skipped(q) ==
  (~ MayRefuse /\ Len(q.offered) = 2) =>
    \A i \in 1..2 : (i < q.next /\ q.offered[i] # {}) =>
      \E k \in 1..Len(q.tried) : TierOf(q.tried[k]) = i

Tiered(q) ==
  \/ q.offered = <<>>
  \/ /\ Len(q.offered) = 2
     /\ \A i \in 1..2 : \A t \in q.offered[i] : TierOf(t) = i

Course(q) ==
  /\ Tiered(q) /\ Tried(q) /\ Skipped(q)
  /\ q.phase = "new" => q = NewRequest
  /\ q.phase \in Phases \ {"new", "failed"} => Len(q.offered) = 2
  /\ q.phase \in Phases \ {"new", "route", "failed"} => q.tried # <<>>
  /\ q.phase = "streaming" => q.shape.stream
  /\ (q.phase = "answered" /\ ~ q.shape.stream) => q.body = q.shape.format
  /\ q.why \in {"none usable", "retryable"} => q.next = 3

Types ==
  /\ live \in [Ids -> Backend \union {NoBackend}]
  /\ seen \in [Ids -> Backend \union {NoBackend}]
  /\ index \in [Models -> SUBSET Ids]
  /\ req \in [Requests -> Request]
  /\ edited \subseteq Editable
  /\ quota \in [Endpoints -> Nat] /\ renewed \in [Endpoints -> 0..Renewals]
  /\ consumed \in [Ids -> Nat]

Courses == \A r \in Requests : Course(req[r])

CInv == Types /\ Courses

-----------------------------------------------------------------------------
LEMMA NewRequestFacts == NewRequest \in Request /\ Course(NewRequest)
<1>1. (CHOOSE s \in Shapes : TRUE) \in Shapes BY ShapesAssumption
<1>2. NewRequest \in Request
  BY <1>1 DEF NewRequest, Request, NoAnswer, Answer, Phases, Reasons
<1>3. NewRequest.phase = "new" /\ NewRequest.offered = <<>> /\ NewRequest.tried = <<>>
      /\ NewRequest.why = "none" /\ NewRequest.next = 1
  BY DEF NewRequest
<1> QED BY <1>2, <1>3 DEF Course, Tiered, Tried, Skipped

\* A step of one request is about its own record.
LEMMA OwnRecord ==
  ASSUME CInv, NEW r \in Requests, NEW q \in Request, Course(q),
         req' = [req EXCEPT ![r] = q]
  PROVE  req' \in [Requests -> Request] /\ Courses'
BY DEF CInv, Types, Courses

\* A step that changes no more of a record than phase, reason, body and answer
\* goes nowhere in the list of tiers.
LEMMA SamePlace ==
  ASSUME NEW p \in Request, NEW q \in Request, Course(p),
         q.offered = p.offered, q.tried = p.tried, q.next = p.next,
         q.phase \in Phases \ {"new"},
         q.phase # "failed" => p.phase \notin {"new", "failed"},
         q.phase \notin {"failed", "route"} => p.phase \notin {"new", "failed", "route"},
         q.phase = "streaming" => q.shape.stream,
         (q.phase = "answered" /\ ~ q.shape.stream) => q.body = q.shape.format,
         q.why \in {"none usable", "retryable"} => q.next = 3
  PROVE  Course(q)
<1>1. Tiered(q) /\ Tried(q) /\ Skipped(q)
  <2>1. Tiered(p) /\ Tried(p) /\ Skipped(p) BY Zenon DEF Course
  <2>2. Tiered(q) BY <2>1, Zenon DEF Tiered
  <2>3. Tried(q) BY <2>1, Zenon DEF Tried
  <2>4. Skipped(q) BY <2>1, Zenon DEF Skipped
  <2> QED BY <2>2, <2>3, <2>4
<1>2. p.phase \in Phases BY DEF Request
<1> QED BY <1>1, <1>2 DEF Course

-----------------------------------------------------------------------------
(* One lemma per step of a request.                                        *)

\* A function on 1..2 is a sequence of length two.
LEMMA PairsAreSequences ==
  ASSUME NEW S, NEW s \in [1..2 -> S]
  PROVE  s \in Seq(S) /\ Len(s) = 2
<1>1. s \in Seq(S) BY SeqDef
<1>2. Len(s) \in Nat /\ DOMAIN s = 1..Len(s) BY <1>1, LenProperties
<1>3. 1..Len(s) = 1..2 BY <1>2
<1>4. Len(s) \in 1..2 /\ 2 \in 1..Len(s)
  <2>1. 1 \in 1..Len(s) BY <1>3
  <2>2. Len(s) \in 1..Len(s) BY <1>2, <2>1
  <2> QED BY <1>3, <2>2
<1> QED BY <1>1, <1>2, <1>4

\* What a request is offered that has these candidates.
OfferedTo(ids) ==
  [i \in 1..2 |-> Targets(FilterActive(seen, SplitByCostTier(ids)[i]))]

\* The filters offer targets of published backends, each to its own tier.
LEMMA OfferedTargets ==
  ASSUME CInv, NEW ids, ids \subseteq {id \in Ids : seen[id] # NoBackend}
  PROVE  /\ OfferedTo(ids) \in Seq(SUBSET Target) /\ Len(OfferedTo(ids)) = 2
         /\ \A i \in 1..2 : \A t \in OfferedTo(ids)[i] :
              /\ TierOf(t) = i
              /\ seen[t.id] # NoBackend /\ t.endpoint = seen[t.id].endpoint
<1> DEFINE offered == OfferedTo(ids)
<1>2. \A id \in ids : id \in Ids /\ seen[id] # NoBackend OBVIOUS
<1>3. \A id \in ids : seen[id].endpoint \in Endpoints BY <1>2 DEF CInv, Types, Backend
<1>4. \A i \in 1..2 : FilterActive(seen, SplitByCostTier(ids)[i]) \subseteq
         {id \in ids : IsPrepaid(seen[id]) <=> i = 1}
  BY DEF FilterActive, SplitByCostTier
<1>5. ASSUME NEW i \in 1..2, NEW t \in offered[i]
      PROVE  /\ t \in Target /\ TierOf(t) = i
             /\ seen[t.id] # NoBackend /\ t.endpoint = seen[t.id].endpoint
  <2>1. PICK id \in ids : /\ t = [id |-> id, endpoint |-> seen[id].endpoint]
                          /\ IsPrepaid(seen[id]) <=> i = 1
    BY <1>4, <1>5 DEF Targets, OfferedTo
  <2> QED BY <1>2, <1>3, <1>5, <2>1 DEF Target, TierOf, IsPrepaid
<1>6. offered \in Seq(SUBSET Target) /\ Len(offered) = 2
  <2>1. offered \in [1..2 -> SUBSET Target] BY <1>5 DEF OfferedTo
  <2> QED BY <2>1, PairsAreSequences
<1> QED BY <1>5, <1>6

\* A request's model, and each of its fall-backs, is one the index knows; what
\* the index leads to and has a published record is a candidate.
LEMMA Resolved ==
  ASSUME CInv, NEW shape \in Shapes
  PROVE  /\ ResolveModel(seen, index, shape.model) \in Models
         /\ GetForModel(seen, index, ResolveModel(seen, index, shape.model))
              \subseteq {id \in Ids : seen[id] # NoBackend}
<1>1. shape.model \in Models BY ShapesAssumption DEF Shape
<1>2. ResolveModel(seen, index, shape.model) \in Models
  BY <1>1, ModelNamesAssumption DEF ResolveModel
<1>3. \A m \in Models : GetForModel(seen, index, m) \subseteq {id \in Ids : seen[id] # NoBackend}
  BY DEF GetForModel, CInv, Types
<1> QED BY <1>2, <1>3

LEMMA ArriveKeeps ==
  ASSUME CInv, NEW r \in Requests, NEW shape \in Shapes, Arrive(r, shape)
  PROVE  CInv'
<1> DEFINE model == ResolveModel(seen, index, shape.model)
           found == GetForModel(seen, index, model)
<1>1. req[r] = NewRequest /\ req[r] \in Request
  BY DEF CInv, Types, Courses, Course, Arrive
<1>2. UNCHANGED <<live, seen, index, edited, quota, renewed, consumed>>
  BY DEF Arrive, registry, upstream
<1>3. CASE found = {}
  <2> DEFINE q == [req[r] EXCEPT !.phase = "failed", !.shape = shape, !.why = "no candidate"]
  <2>1. req' = [req EXCEPT ![r] = q] BY <1>3 DEF Arrive
  <2>2. q \in Request BY <1>1 DEF Request, Phases, Reasons
  <2>3. q.offered = <<>> /\ q.tried = <<>> /\ q.phase = "failed" /\ q.why = "no candidate"
    BY <1>1 DEF NewRequest
  <2>4. Course(q) BY <2>3 DEF Course, Tiered, Tried, Skipped
  <2> HIDE DEF q
  <2> QED BY <1>2, <2>1, <2>2, <2>4, OwnRecord DEF CInv, Types
<1>4. CASE found # {}
  <2>1. PICK ids \in ContextChoices(seen, found, shape.tokens) :
          req' = [req EXCEPT
            ![r].phase = "route", ![r].shape = shape,
            ![r].offered = OfferedTo(ids)]
    BY <1>4 DEF Arrive, OfferedTo
  <2> DEFINE offered == OfferedTo(ids)
             q == [req[r] EXCEPT !.phase = "route", !.shape = shape, !.offered = offered]
  <2>2. /\ offered \in Seq(SUBSET Target) /\ Len(offered) = 2
        /\ \A i \in 1..2 : \A t \in offered[i] : TierOf(t) = i
    <3>1. ids \subseteq found BY DEF ContextChoices
    <3>2. ids \subseteq {id \in Ids : seen[id] # NoBackend} BY <3>1, Resolved
    <3> QED BY <3>2, OfferedTargets
  <2>3. req' = [req EXCEPT ![r] = q] BY <2>1
  <2> HIDE DEF offered
  <2>4. q \in Request BY <1>1, <2>2 DEF Request, Phases
  <2>5. q.offered = offered /\ q.tried = <<>> /\ q.phase = "route" /\ q.why = "none"
        /\ q.next = 1
    BY <1>1 DEF NewRequest
  <2> HIDE DEF q
  <2>6. Tiered(q) /\ Tried(q) /\ Skipped(q) BY <2>2, <2>5 DEF Tiered, Tried, Skipped
  <2>7. Course(q) BY <2>2, <2>5, <2>6, Zenon DEF Course
  <2> QED BY <1>2, <2>3, <2>4, <2>7, OwnRecord DEF CInv, Types
<1> QED BY <1>3, <1>4

LEMMA SelectKeeps ==
  ASSUME CInv, NEW r \in Requests, Select(r)
  PROVE  CInv'
<1> DEFINE p == req[r]
<1>a. /\ p \in Request /\ Course(p) /\ p.phase = "route" /\ p.next <= 2
      /\ UNCHANGED <<live, seen, index, edited, quota, renewed, consumed>>
  BY DEF CInv, Types, Courses, Select, registry, upstream
<1>b. p.next \in 1..3 /\ p.offered \in Seq(SUBSET Target) /\ p.tried \in Seq(Target)
  BY <1>a DEF Request
<1>c. Len(p.offered) = 2 BY <1>a, Zenon DEF Course, Phases
<1>1. /\ p \in Request /\ Course(p) /\ p.phase = "route" /\ p.next \in 1..2
      /\ Len(p.offered) = 2 /\ UNCHANGED <<live, seen, index, edited, quota, renewed, consumed>>
  BY <1>a, <1>b, <1>c
<1>2. PICK target \in p.offered[p.next] :
        req' = [req EXCEPT ![r].phase = "sent", ![r].next = @ + 1,
                           ![r].tried = Append(@, target), ![r].answer = NoAnswer]
  BY DEF Select
<1> DEFINE q == [p EXCEPT !.phase = "sent", !.next = @ + 1,
                          !.tried = Append(@, target), !.answer = NoAnswer]
<1>3. req' = [req EXCEPT ![r] = q] BY <1>2
<1>4. target \in Target /\ TierOf(target) = p.next
  <2>1. p.offered[p.next] \subseteq Target BY <1>1, <1>b
  <2>2. Tiered(p) BY <1>1 DEF Course
  <2> QED BY <1>1, <1>2, <1>b, <2>1, <2>2 DEF Tiered
<1>5. NoAnswer \in Answer BY DEF NoAnswer, Answer
<1>6. /\ q.phase = "sent" /\ q.next = p.next + 1 /\ q.offered = p.offered
      /\ q.tried = Append(p.tried, target) /\ q.why = p.why /\ p.tried \in Seq(Target)
  BY <1>1 DEF Request
<1>7. q \in Request
  <2>1. Append(p.tried, target) \in Seq(Target) /\ p.next + 1 \in 1..3
    BY <1>1, <1>b, <1>4
  <2> QED BY <1>1, <1>5, <2>1 DEF Request, Phases
<1> HIDE DEF p, q
<1>8. /\ Len(q.tried) = Len(p.tried) + 1 /\ Len(p.tried) \in Nat
      /\ q.tried[Len(p.tried) + 1] = target
      /\ \A k \in 1..Len(p.tried) : q.tried[k] = p.tried[k]
  BY <1>4, <1>6
<1>9. Tiered(q) BY <1>1, <1>6 DEF Course, Tiered
<1>10. Tried(q)
  <2> SUFFICES ASSUME NEW k \in 1..Len(q.tried)
               PROVE  TierOf(q.tried[k]) < q.next /\ q.tried[k] \in q.offered[TierOf(q.tried[k])]
    BY <1>1, <1>6 DEF Tried
  <2>1. CASE k = Len(p.tried) + 1 BY <1>1, <1>2, <1>4, <1>6, <1>8, <2>1
  <2>2. CASE k # Len(p.tried) + 1
    <3>1. k \in 1..Len(p.tried) BY <1>8, <2>2
    <3>2. TierOf(p.tried[k]) < p.next /\ p.tried[k] \in p.offered[TierOf(p.tried[k])]
          /\ TierOf(p.tried[k]) \in {1, 2}
      BY <1>1, <3>1 DEF Course, Tried, TierOf
    <3> QED BY <1>1, <1>6, <1>8, <3>1, <3>2
  <2> QED BY <2>1, <2>2
<1>11. Skipped(q)
  <2> SUFFICES ASSUME ~ MayRefuse, NEW i \in 1..2, i < q.next, q.offered[i] # {}
               PROVE  \E k \in 1..Len(q.tried) : TierOf(q.tried[k]) = i
    BY DEF Skipped
  <2>1. CASE i = p.next
    <3>1. Len(p.tried) + 1 \in 1..Len(q.tried) BY <1>8
    <3> QED BY <1>4, <1>8, <2>1, <3>1
  <2>2. CASE i # p.next
    <3>1. i < p.next BY <1>1, <1>6, <2>2
    <3>2. PICK k \in 1..Len(p.tried) : TierOf(p.tried[k]) = i
      BY <1>1, <1>6, <3>1 DEF Course, Skipped
    <3> QED BY <1>8, <3>2
  <2> QED BY <2>1, <2>2
<1>12. p.why \notin {"none usable", "retryable"}
  <2>1. p.next # 3 BY <1>1
  <2> QED BY <1>1, <2>1, Zenon DEF Course
<1>13. q.tried # <<>> BY <1>8
<1>14. Course(q) BY <1>1, <1>6, <1>9, <1>10, <1>11, <1>12, <1>13, Zenon DEF Course
<1> QED BY <1>1, <1>3, <1>7, <1>14, OwnRecord DEF CInv, Types
LEMMA PassOverKeeps ==
  ASSUME CInv, NEW r \in Requests, PassOver(r)
  PROVE  CInv'
<1> DEFINE p == req[r]
           q == [p EXCEPT !.next = @ + 1]
<1>1. /\ p \in Request /\ Course(p) /\ p.phase = "route" /\ p.next <= 2
      /\ p.offered[p.next] = {} \/ MayRefuse
      /\ req' = [req EXCEPT ![r] = q]
      /\ UNCHANGED <<live, seen, index, edited, quota, renewed, consumed>>
  BY DEF CInv, Types, Courses, PassOver, registry, upstream
<1>2. p.next \in 1..2 BY <1>1 DEF Request
<1>3. Len(p.offered) = 2 BY <1>1, Zenon DEF Course, Phases
<1>4. q \in Request BY <1>1, <1>2, SMTT(60) DEF Request
<1>5. /\ q.phase = "route" /\ q.next = p.next + 1 /\ q.offered = p.offered
      /\ q.tried = p.tried /\ q.why = p.why /\ p.tried \in Seq(Target)
  BY <1>1 DEF Request
<1> HIDE DEF p, q
<1>6. Tiered(q) BY <1>1, <1>5 DEF Course, Tiered
<1>7. Tried(q)
  <2>1. Tried(p) BY <1>1 DEF Course
  <2>2. \A k \in 1..Len(p.tried) : TierOf(p.tried[k]) \in {1, 2} BY DEF TierOf
  <2> QED BY <1>2, <1>5, <2>1, <2>2 DEF Tried
<1>8. Skipped(q)
  <2> SUFFICES ASSUME ~ MayRefuse, NEW i \in 1..2, i < q.next, q.offered[i] # {}
               PROVE  \E k \in 1..Len(q.tried) : TierOf(q.tried[k]) = i
    BY DEF Skipped
  <2>1. i < p.next BY <1>1, <1>2, <1>5
  <2> QED BY <1>1, <1>3, <1>5, <2>1 DEF Course, Skipped
<1>9. p.why \notin {"none usable", "retryable"}
  <2>1. p.next # 3 BY <1>2
  <2> QED BY <1>1, <2>1, Zenon DEF Course
<1>10. Course(q) BY <1>3, <1>5, <1>6, <1>7, <1>8, <1>9, Zenon DEF Course
<1> QED BY <1>1, <1>4, <1>10, OwnRecord DEF CInv, Types

\* Every other step of a request stays at its place in the list of tiers.
LEMMA InPlace ==
  ASSUME CInv, NEW r \in Requests, NEW q \in Request,
         req' = [req EXCEPT ![r] = q],
         q.offered = req[r].offered, q.tried = req[r].tried, q.next = req[r].next,
         q.phase \in Phases \ {"new"},
         req[r].phase \notin {"new", "answered", "failed", "aborted"},
         q.phase \notin {"failed", "route"} => req[r].phase # "route",
         q.phase = "streaming" => q.shape.stream,
         (q.phase = "answered" /\ ~ q.shape.stream) => q.body = q.shape.format,
         q.why \in {"none usable", "retryable"} =>
           q.why = req[r].why \/ q.next = 3
  PROVE  req' \in [Requests -> Request] /\ Courses'
<1>1. req[r] \in Request /\ Course(req[r]) BY DEF CInv, Types, Courses
<1>2. q.why \in {"none usable", "retryable"} => q.next = 3
  BY <1>1, Zenon DEF Course
<1>3. Course(q) BY <1>1, <1>2, SamePlace
<1> QED BY <1>3, OwnRecord

\* Where a request is that was sent.
LEMMA AtFacts ==
  ASSUME CInv, NEW r \in Requests,
         req[r].phase \in {"sent", "served", "streaming", "body", "account"}
  PROVE  /\ At(r) \in Target /\ At(r).id \in Ids /\ At(r).endpoint \in Endpoints
         /\ Len(req[r].tried) \in 1..Len(req[r].tried)
<1>1. req[r] \in Request /\ Course(req[r]) BY DEF CInv, Types, Courses
<1>2. req[r].tried \in Seq(Target) BY <1>1 DEF Request
<1>3. req[r].tried # <<>> BY <1>1, Zenon DEF Course, Phases
<1>4. Len(req[r].tried) \in 1..Len(req[r].tried) BY <1>2, <1>3
<1>5. At(r) \in Target BY <1>2, <1>4 DEF At
<1> QED BY <1>4, <1>5 DEF Target

LEMMA GiveUpKeeps ==
  ASSUME CInv, NEW r \in Requests, GiveUp(r)
  PROVE  CInv'
<1> DEFINE why == IF req[r].tried = <<>> THEN "none usable" ELSE "retryable"
           q == [req[r] EXCEPT !.phase = "failed", !.why = why]
<1>1. /\ req[r] \in Request /\ req[r].phase = "route" /\ req[r].next > 2
      /\ req' = [req EXCEPT ![r] = q]
      /\ UNCHANGED <<live, seen, index, edited, quota, renewed, consumed>>
  BY DEF CInv, Types, GiveUp, Fail, registry, upstream
<1>2. req[r].next = 3 BY <1>1 DEF Request
<1>3. q \in Request BY <1>1 DEF Request, Phases, Reasons
<1>4. /\ q.phase = "failed" /\ q.offered = req[r].offered /\ q.tried = req[r].tried
      /\ q.next = req[r].next
  BY <1>1 DEF Request
<1> HIDE DEF q
<1> QED BY <1>1, <1>2, <1>3, <1>4, InPlace DEF CInv, Types, Phases
LEMMA ServeKeeps ==
  ASSUME CInv, NEW r \in Requests, NEW n \in Counts, Serve(r, n)
  PROVE  CInv'
<1> DEFINE e == At(r).endpoint
           left == IF quota[e] > n THEN quota[e] - n ELSE 0
           q == [req[r] EXCEPT !.phase = "served",
                   !.answer = [status |-> "ok", tokens |-> n, left |-> left]]
<1>1. /\ req[r] \in Request /\ req[r].phase = "sent"
      /\ quota' = [quota EXCEPT ![e] = left]
      /\ consumed' = [consumed EXCEPT ![At(r).id] = @ + n]
      /\ req' = [req EXCEPT ![r] = q]
      /\ UNCHANGED <<live, seen, index, edited, renewed>>
  BY DEF CInv, Types, Serve, registry
<1>2. At(r).id \in Ids /\ e \in Endpoints BY <1>1, AtFacts
<1>3. quota[e] \in Nat /\ n \in Nat /\ left \in Nat
  BY <1>2, CountsAssumption DEF CInv, Types
<1> HIDE DEF e, left
<1>4. quota' \in [Endpoints -> Nat] /\ consumed' \in [Ids -> Nat]
  BY <1>1, <1>2, <1>3 DEF CInv, Types
<1>5. q \in Request BY <1>1, <1>3 DEF Request, Phases, Answer
<1>6. /\ q.phase = "served" /\ q.offered = req[r].offered /\ q.tried = req[r].tried
      /\ q.next = req[r].next /\ q.why = req[r].why
  BY <1>1 DEF Request
<1> HIDE DEF q
<1>7. req' \in [Requests -> Request] /\ Courses'
  BY <1>1, <1>5, <1>6, InPlace DEF Phases
<1> QED BY <1>1, <1>4, <1>7 DEF CInv, Types

LEMMA RefuseKeeps ==
  ASSUME CInv, NEW r \in Requests, NEW status \in {"retry", "refuse"}, Refuse(r, status)
  PROVE  CInv'
<1> DEFINE left == quota[At(r).endpoint]
           q == [req[r] EXCEPT !.phase = "served",
                   !.answer = [status |-> status, tokens |-> 0, left |-> left]]
<1>1. /\ req[r] \in Request /\ req[r].phase = "sent"
      /\ req' = [req EXCEPT ![r] = q]
      /\ UNCHANGED <<live, seen, index, edited, quota, renewed, consumed>>
  BY DEF CInv, Types, Refuse, registry, upstream
<1>2. left \in Nat BY <1>1, AtFacts DEF CInv, Types
<1> HIDE DEF left
<1>3. q \in Request BY <1>1, <1>2 DEF Request, Phases, Answer
<1>4. /\ q.phase = "served" /\ q.offered = req[r].offered /\ q.tried = req[r].tried
      /\ q.next = req[r].next /\ q.why = req[r].why
  BY <1>1 DEF Request
<1> HIDE DEF q
<1> QED BY <1>1, <1>3, <1>4, InPlace DEF CInv, Types, Phases

\* Steps that only go to another phase.
LEMMA GotoKeeps ==
  ASSUME CInv, NEW r \in Requests,
         NEW phase \in {"route", "streaming", "body", "account", "aborted"},
         req[r].phase \in {"sent", "served", "body", "account"},
         phase = "streaming" => Streams(r),
         Goto(r, phase)
  PROVE  req' \in [Requests -> Request] /\ Courses'
<1> DEFINE q == [req[r] EXCEPT !.phase = phase]
<1>1. req[r] \in Request /\ req' = [req EXCEPT ![r] = q] BY DEF CInv, Types, Goto
<1>2. q \in Request BY <1>1 DEF Request, Phases
<1>3. /\ q.phase = phase /\ q.offered = req[r].offered /\ q.tried = req[r].tried
      /\ q.next = req[r].next /\ q.why = req[r].why /\ q.shape = req[r].shape
  BY <1>1 DEF Request
<1> HIDE DEF q
<1> QED BY <1>1, <1>2, <1>3, InPlace DEF Phases, Streams

\* Steps that end with an error of the proxy's own.
LEMMA FailKeeps ==
  ASSUME CInv, NEW r \in Requests,
         req[r].phase \in {"sent", "body", "account"}, Fail(r, "final")
  PROVE  req' \in [Requests -> Request] /\ Courses'
<1> DEFINE q == [req[r] EXCEPT !.phase = "failed", !.why = "final"]
<1>1. req[r] \in Request /\ req' = [req EXCEPT ![r] = q] BY DEF CInv, Types, Fail
<1>2. q \in Request BY <1>1 DEF Request, Phases, Reasons
<1>3. /\ q.phase = "failed" /\ q.offered = req[r].offered /\ q.tried = req[r].tried
      /\ q.next = req[r].next /\ q.why = "final"
  BY <1>1 DEF Request
<1> HIDE DEF q
<1> QED BY <1>1, <1>2, <1>3, InPlace DEF Phases

\* Steps that end with a body, which is in the client's format or streamed.
LEMMA ReplyKeeps ==
  ASSUME CInv, NEW r \in Requests, NEW format \in Formats,
         req[r].phase \in {"streaming", "account"},
         format = req[r].shape.format \/ Streams(r), Reply(r, format)
  PROVE  req' \in [Requests -> Request] /\ Courses'
<1> DEFINE q == [req[r] EXCEPT !.phase = "answered", !.body = format]
<1>1. req[r] \in Request /\ req' = [req EXCEPT ![r] = q] BY DEF CInv, Types, Reply
<1>2. q \in Request BY <1>1 DEF Request, Phases
<1>3. /\ q.phase = "answered" /\ q.offered = req[r].offered /\ q.tried = req[r].tried
      /\ q.next = req[r].next /\ q.why = req[r].why /\ q.shape = req[r].shape
      /\ q.body = format
  BY <1>1 DEF Request
<1> HIDE DEF q
<1> QED BY <1>1, <1>2, <1>3, InPlace DEF Phases, Streams

\* Records that are written back stay records, of backends that are registered.
LEMMA WriteKeeps ==
  ASSUME CInv, NEW id \in Ids, NEW b, live[id] # NoBackend => b \in Backend, Write(id, b)
  PROVE  live' \in [Ids -> Backend \union {NoBackend}]
BY DEF CInv, Types, Write

LEMMA RecordTokensKeeps ==
  ASSUME CInv, NEW id \in Ids, NEW n \in Nat, RecordTokens(id, n)
  PROVE  live' \in [Ids -> Backend \union {NoBackend}]
<1>1. live[id] # NoBackend => [live[id] EXCEPT !.used = @ + n] \in Backend
  <2>1. live[id] # NoBackend => live[id] \in Backend BY DEF CInv, Types
  <2> QED BY <2>1 DEF Backend
<1> QED BY <1>1, WriteKeeps DEF RecordTokens
\* Steps that change nothing but the request.
LEMMA QuietStepsKeep ==
  ASSUME CInv, NEW r \in Requests,
         BuildFails(r) \/ Lost(r) \/ Receive(r) \/ StreamEnds(r) \/ BodyFails(r)
           \/ Panic(r) \/ ParseFails(r)
  PROVE  CInv'
<1>1. UNCHANGED <<live, seen, index, edited, quota, renewed, consumed>>
  BY DEF BuildFails, Lost, Receive, StreamEnds, BodyFails, Panic, ParseFails,
         registry, upstream
<1>2. CASE BuildFails(r) \/ BodyFails(r) \/ ParseFails(r)
  BY <1>1, <1>2, FailKeeps DEF BuildFails, BodyFails, ParseFails, CInv, Types
<1>3. CASE Lost(r)
  BY <1>1, <1>3, GotoKeeps DEF Lost, CInv, Types
<1>4. CASE Receive(r)
  BY <1>1, <1>4, GotoKeeps DEF Receive, CInv, Types
<1>5. CASE Panic(r)
  BY <1>1, <1>5, GotoKeeps DEF Panic, CInv, Types
<1>6. CASE StreamEnds(r)
  <2>1. req[r].phase = "streaming" /\ Streams(r)
    BY <1>6, Zenon DEF StreamEnds, CInv, Courses, Course, Streams
  <2>2. Speaks(Provider[At(r).endpoint]) \in Formats BY DEF Speaks, Formats
  <2> QED BY <1>1, <1>6, <2>1, <2>2, ReplyKeeps DEF StreamEnds, CInv, Types
<1> QED BY <1>2, <1>3, <1>4, <1>5, <1>6

LEMMA CaptureKeeps ==
  ASSUME CInv, NEW r \in Requests, CaptureRateLimits(r)
  PROVE  CInv'
<1> DEFINE e == At(r).endpoint
           headers == IF e \in Announces
                      THEN [total |-> Quota0[e], remaining |-> req[r].answer.left]
                      ELSE [total |-> Absent, remaining |-> Absent]
<1>1. /\ req[r].phase = "body" /\ Goto(r, "account")
      /\ Write(At(r).id, CaptureRateLimitHeaders(live[At(r).id], headers))
      /\ UNCHANGED <<seen, index, edited, quota, renewed, consumed>>
  BY DEF CaptureRateLimits, upstream
<1>2. At(r).id \in Ids /\ e \in Endpoints BY <1>1, AtFacts
<1>3. req[r].answer.left \in Nat BY DEF CInv, Types, Request, Answer
<1>4. headers \in RateHeaders BY <1>2, <1>3, QuotaAssumption DEF RateHeaders
<1> HIDE DEF headers
<1>5. live[At(r).id] # NoBackend =>
        CaptureRateLimitHeaders(live[At(r).id], headers) \in Backend
  <2>1. live[At(r).id] # NoBackend => live[At(r).id] \in Backend
    BY <1>2 DEF CInv, Types
  <2> QED BY <1>4, <2>1, CaptureFacts
<1>6. live' \in [Ids -> Backend \union {NoBackend}] BY <1>1, <1>2, <1>5, WriteKeeps
<1>7. req' \in [Requests -> Request] /\ Courses' BY <1>1, GotoKeeps
<1> QED BY <1>1, <1>6, <1>7 DEF CInv, Types

LEMMA AnswerKeeps ==
  ASSUME CInv, NEW r \in Requests, AnswerNative(r) \/ AnswerTranslated(r)
  PROVE  CInv'
<1>1. req[r].phase = "account" /\ UNCHANGED <<seen, index, edited, quota, renewed, consumed>>
  BY DEF AnswerNative, AnswerTranslated, upstream
<1>2. At(r).id \in Ids /\ At(r).endpoint \in Endpoints BY <1>1, AtFacts
<1>3. req[r] \in Request BY DEF CInv, Types
<1>4. req[r].answer.tokens \in Nat /\ req[r].shape.format \in Formats
  BY <1>3, ShapesAssumption DEF Request, Answer, Shape
<1>5. PICK n \in Nat, format \in Formats :
        /\ RecordTokens(At(r).id, n) /\ Reply(r, format)
        /\ format = req[r].shape.format
  <2>1. CASE AnswerTranslated(r) BY <1>4, <2>1 DEF AnswerTranslated
  <2>2. CASE AnswerNative(r)
    <3>1. Speaks(Provider[At(r).endpoint]) = req[r].shape.format
      BY <1>2, <1>4, <2>2, ProviderAssumption
         DEF AnswerNative, Native, FormatsMatch, Speaks, Formats
    <3> QED BY <1>4, <2>2, <3>1 DEF AnswerNative
  <2> QED BY <2>1, <2>2
<1>6. live' \in [Ids -> Backend \union {NoBackend}] BY <1>2, <1>5, RecordTokensKeeps
<1>7. req' \in [Requests -> Request] /\ Courses' BY <1>1, <1>5, ReplyKeeps
<1> QED BY <1>1, <1>6, <1>7 DEF CInv, Types

LEMMA AgainKeeps ==
  ASSUME CInv, NEW r \in Requests, Again(r)
  PROVE  CInv'
<1>1. req' = [req EXCEPT ![r] = NewRequest]
      /\ UNCHANGED <<live, seen, index, edited, quota, renewed, consumed>>
  BY DEF Again, registry, upstream
<1> QED BY <1>1, NewRequestFacts, OwnRecord DEF CInv, Types

-----------------------------------------------------------------------------
(* Steps of providers, administrators and the refresh loop.                *)

LEMMA RenewKeeps ==
  ASSUME CInv, NEW e \in Endpoints, Renew(e)
  PROVE  CInv'
<1>1. /\ renewed[e] < Renewals
      /\ renewed' = [renewed EXCEPT ![e] = @ + 1]
      /\ quota' = [quota EXCEPT ![e] = Quota0[e]]
      /\ UNCHANGED <<live, seen, index, edited, req, consumed>>
  BY DEF Renew, registry
<1>2. renewed[e] \in 0..Renewals BY DEF CInv, Types
<1>3. renewed[e] + 1 \in 0..Renewals BY <1>1, <1>2, RenewAssumption
<1>4. renewed' \in [Endpoints -> 0..Renewals] BY <1>1, <1>3 DEF CInv, Types
<1>5. quota' \in [Endpoints -> Nat] BY <1>1, QuotaAssumption DEF CInv, Types
<1> QED BY <1>1, <1>4, <1>5 DEF CInv, Types, Courses

LEMMA RegistryStepsKeep ==
  ASSUME CInv,
         \/ SnapshotRefresh
         \/ \E id \in Ids : Remove(id) \/ \E in \in Edits : Edit(id, in)
  PROVE  CInv'
<1>1. UNCHANGED <<req, quota, renewed, consumed>>
  BY DEF SnapshotRefresh, Remove, Edit, upstream
<1>2. live' \in [Ids -> Backend \union {NoBackend}]
  <2>1. CASE SnapshotRefresh BY <2>1 DEF SnapshotRefresh, CInv, Types
  <2>2. ASSUME NEW id \in Ids, Remove(id)
        PROVE  live' \in [Ids -> Backend \union {NoBackend}]
    BY <2>2 DEF Remove, CInv, Types
  <2>3. ASSUME NEW id \in Ids, NEW in \in Edits, Edit(id, in)
        PROVE  live' \in [Ids -> Backend \union {NoBackend}]
    <3>1. live[id] \in Backend /\ in \in BackendInput
      BY <2>3, EditsAssumption DEF Edit, CInv, Types
    <3>2. SetRest(SetEndpoint(live[id], in), in) \in Backend BY <3>1, EditFacts
    <3> QED BY <2>3, <3>2 DEF Edit, CInv, Types
  <2> QED BY <2>1, <2>2, <2>3
<1>3. seen' \in [Ids -> Backend \union {NoBackend}]
  BY <1>2 DEF SnapshotRefresh, Remove, Edit, CInv, Types
<1>4. edited' \subseteq Editable
  BY DEF SnapshotRefresh, Remove, Edit, CInv, Types
<1>5. index' \in [Models -> SUBSET Ids]
  BY DEF SnapshotRefresh, Remove, Edit, CInv, Types
<1> QED BY <1>1, <1>2, <1>3, <1>4, <1>5 DEF CInv, Types, Courses

-----------------------------------------------------------------------------
LEMMA CInitially == Init => CInv
<1> SUFFICES ASSUME Init PROVE CInv OBVIOUS
<1>1. Types
  BY NewRequestFacts, LiveAssumption, QuotaAssumption, RenewAssumption DEF Init, Types
<1>2. Courses BY NewRequestFacts DEF Init, Courses
<1> QED BY <1>1, <1>2 DEF CInv

LEMMA CKept == CInv /\ [Next]_vars => CInv'
<1> SUFFICES ASSUME CInv, [Next]_vars PROVE CInv' OBVIOUS
<1>1. ASSUME NEW r \in Requests, NEW shape \in Shapes, Arrive(r, shape) PROVE CInv'
  BY <1>1, ArriveKeeps
<1>2. ASSUME NEW r \in Requests, Advance(r) PROVE CInv'
  <2>1. CASE Select(r) BY <2>1, SelectKeeps
  <2>2. CASE PassOver(r) BY <2>2, PassOverKeeps
  <2>3. CASE GiveUp(r) BY <2>3, GiveUpKeeps
  <2>4. ASSUME NEW n \in Counts, Serve(r, n) PROVE CInv' BY <2>4, ServeKeeps
  <2>5. ASSUME NEW status \in {"retry", "refuse"}, Refuse(r, status) PROVE CInv'
    BY <2>5, RefuseKeeps
  <2>6. CASE CaptureRateLimits(r) BY <2>6, CaptureKeeps
  <2>7. CASE AnswerNative(r) \/ AnswerTranslated(r) BY <2>7, AnswerKeeps
  <2>8. CASE \/ BuildFails(r) \/ Lost(r) \/ Receive(r) \/ StreamEnds(r)
             \/ BodyFails(r) \/ Panic(r) \/ ParseFails(r)
    BY <2>8, QuietStepsKeep
  <2> QED BY <1>2, <2>1, <2>2, <2>3, <2>4, <2>5, <2>6, <2>7, <2>8, Zenon DEF Advance
<1>3. ASSUME NEW r \in Requests, Again(r) PROVE CInv' BY <1>3, AgainKeeps
<1>4. ASSUME NEW e \in Endpoints, Renew(e) PROVE CInv' BY <1>4, RenewKeeps
<1>5. CASE \/ SnapshotRefresh
           \/ \E id \in Ids : Remove(id) \/ \E in \in Edits : Edit(id, in)
  BY <1>5, RegistryStepsKeep
<1>6. CASE UNCHANGED vars BY <1>6 DEF vars, CInv, Types, Courses
<1> QED BY <1>1, <1>2, <1>3, <1>4, <1>5, <1>6, Zenon DEF Next

(***************************************************************************)
(* Every variable of the handler keeps its type, and a request that was    *)
(* sent has a backend it is at.                                            *)
(***************************************************************************)
THEOREM HandlerTypes == Spec => []TypeOK
<1>1. CInv => TypeOK
  BY Zenon DEF CInv, Types, Courses, Course, TypeOK
<1> QED BY CInitially, CKept, <1>1, PTL DEF Spec

(***************************************************************************)
(* Every answer that is not streamed is in the format of its client, for   *)
(* any providers (handler.go:266, 300).                                    *)
(***************************************************************************)
THEOREM BodiesMatchClients == Spec => []BodiesInClientFormat
<1>1. CInv => BodiesInClientFormat
  BY Zenon DEF CInv, Courses, Course, BodiesInClientFormat, Streams
<1> QED BY CInitially, CKept, <1>1, PTL DEF Spec

(***************************************************************************)
(* A strategy that never refuses a usable backend is asked for the tiers   *)
(* in turn and, before a retryable error, for all of them (handler.go:112).*)
(***************************************************************************)
THEOREM TiersAreTriedInTurn ==
  ASSUME ~ MayRefuse
  PROVE  Spec => []TiersInTurn
<1>1. CInv => TiersInTurn
  <2> SUFFICES ASSUME CInv, NEW r \in Requests
               PROVE  LET usable == {i \in 1..Len(req[r].offered) : req[r].offered[i] # {}}
                      IN  /\ \A t \in TiersTried(r), i \in usable :
                               i < t => i \in TiersTried(r)
                          /\ req[r].why \in {"none usable", "retryable"} =>
                               usable = TiersTried(r)
    BY DEF TiersInTurn
  <2> DEFINE p == req[r]
             usable == {i \in 1..Len(p.offered) : p.offered[i] # {}}
  <2>1. /\ p \in Request /\ Tiered(p) /\ Tried(p) /\ Skipped(p)
        /\ p.why \in {"none usable", "retryable"} => p.next = 3
    BY Zenon DEF CInv, Types, Courses, Course
  <2>2. p.next \in 1..3 /\ p.tried \in Seq(Target) BY <2>1 DEF Request
  <2>3. CASE p.offered = <<>>
    <3>1. Len(p.offered) = 0 BY <2>3
    <3>2. usable = {} BY <3>1
    <3>3. ASSUME NEW k \in 1..Len(p.tried) PROVE FALSE
      <4>1. Len(p.offered) = 2 BY <2>1, Zenon DEF Tried
      <4> QED BY <4>1, <3>1, SMTT(30)
    <3>4. TiersTried(r) = {} BY <3>3 DEF TiersTried
    <3> QED BY <3>2, <3>4
  <2>4. CASE Len(p.offered) = 2
    <3>1. \A k \in 1..Len(p.tried) : TierOf(p.tried[k]) \in 1..2 BY DEF TierOf
    <3>2. \A t \in TiersTried(r) : t \in usable /\ t < p.next
      BY <2>1, <2>4, <3>1 DEF Tried, TiersTried
    <3>3. \A i \in usable : i < p.next => i \in TiersTried(r)
      BY <2>1, <2>4 DEF Skipped, TiersTried
    <3>4. \A t \in TiersTried(r), i \in usable : i < t => i \in TiersTried(r)
      BY <2>2, <2>4, <3>2, <3>3
    <3>5. p.next = 3 => usable = TiersTried(r)
      BY <2>4, <3>2, <3>3
    <3> QED BY <2>1, <3>4, <3>5
  <2> QED BY <2>1, <2>3, <2>4 DEF Tiered
<1> QED BY CInitially, CKept, <1>1, PTL DEF Spec

-----------------------------------------------------------------------------
(* The handler implements Delivery                                         *)

\* The abstract view of the tiers that were tried.
OffersOf(s) == [i \in 1..Len(s) |-> TierOf(s[i])]

Outcomes == [r \in Requests |-> Outcome(req[r].phase)]
Offers   == [r \in Requests |-> OffersOf(req[r].tried)]

AbstractStep == [Promise!DeliveryNext]_(Promise!deliveryVars)

-----------------------------------------------------------------------------
LEMMA OffersAreSequences ==
  ASSUME NEW s \in Seq(Target)
  PROVE  /\ OffersOf(s) \in Seq({1, 2}) /\ Len(OffersOf(s)) = Len(s)
         /\ \A i \in 1..Len(s) : OffersOf(s)[i] = TierOf(s[i])
<1>1. Len(s) \in Nat OBVIOUS
<1>2. OffersOf(s) \in [1..Len(s) -> {1, 2}] BY DEF OffersOf, TierOf
<1>3. OffersOf(s) \in Seq({1, 2}) BY <1>1, <1>2, SeqDef
<1>4. Len(OffersOf(s)) \in Nat /\ DOMAIN OffersOf(s) = 1..Len(OffersOf(s))
  BY <1>3, LenProperties
<1>5. 1..Len(OffersOf(s)) = 1..Len(s) BY <1>2, <1>4
<1>6. Len(OffersOf(s)) = Len(s)
  <2> DEFINE m == Len(OffersOf(s))
             n == Len(s)
  <2>1. m \in Nat /\ n \in Nat /\ \A k \in Int : k \in 1..m <=> k \in 1..n
    BY <1>1, <1>4, <1>5
  <2> HIDE DEF m, n
  <2>2. m <= n
    <3>1. CASE m = 0 BY <2>1, <3>1
    <3>2. CASE m # 0
      <4>1. m \in 1..m BY <2>1, <3>2
      <4> QED BY <2>1, <4>1
    <3> QED BY <3>1, <3>2
  <2>3. n <= m
    <3>1. CASE n = 0 BY <2>1, <3>1
    <3>2. CASE n # 0
      <4>1. n \in 1..n BY <2>1, <3>2
      <4> QED BY <2>1, <4>1
    <3> QED BY <3>1, <3>2
  <2>4. m = n BY <2>1, <2>2, <2>3
  <2> QED BY <2>4 DEF m, n
<1>7. \A i \in 1..Len(s) : OffersOf(s)[i] = TierOf(s[i]) BY DEF OffersOf
<1> QED BY <1>3, <1>6, <1>7

LEMMA OffersOfNobody == OffersOf(<<>>) = <<>>
<1>1. OffersOf(<<>>) \in Seq({1, 2}) /\ Len(OffersOf(<<>>)) = 0
  BY OffersAreSequences, EmptySeq
<1> QED BY <1>1, EmptySeq

LEMMA OffersOfOneMore ==
  ASSUME NEW s \in Seq(Target), NEW t \in Target
  PROVE  OffersOf(Append(s, t)) = Append(OffersOf(s), TierOf(t))
<1> DEFINE x == OffersOf(Append(s, t))
           y == Append(OffersOf(s), TierOf(t))
<1>1. /\ Append(s, t) \in Seq(Target) /\ Len(Append(s, t)) = Len(s) + 1
      /\ \A i \in 1..Len(s) : Append(s, t)[i] = s[i]
      /\ Append(s, t)[Len(s) + 1] = t /\ Len(s) \in Nat
  OBVIOUS
<1>2. /\ x \in Seq({1, 2}) /\ Len(x) = Len(s) + 1
      /\ \A i \in 1..Len(s) + 1 : x[i] = TierOf(Append(s, t)[i])
  BY <1>1, OffersAreSequences
<1>3. /\ OffersOf(s) \in Seq({1, 2}) /\ Len(OffersOf(s)) = Len(s)
      /\ \A i \in 1..Len(s) : OffersOf(s)[i] = TierOf(s[i])
  BY OffersAreSequences
<1>4. TierOf(t) \in {1, 2} BY DEF TierOf
<1>5. /\ y \in Seq({1, 2}) /\ Len(y) = Len(s) + 1
      /\ \A i \in 1..Len(s) : y[i] = TierOf(s[i])
      /\ y[Len(s) + 1] = TierOf(t)
  BY <1>1, <1>3, <1>4
<1>6. \A i \in 1..Len(x) : x[i] = y[i]
  BY <1>1, <1>2, <1>5
<1> HIDE DEF x, y
<1>7. x = y BY <1>2, <1>5, <1>6, SeqEqual
<1> QED BY <1>7 DEF x, y

-----------------------------------------------------------------------------
\* A step that puts a record with the same offers in a request's place ends the
\* request, accepts it, or is none for its client.
LEMMA RecordSteps ==
  ASSUME CInv, NEW r \in Requests, NEW q \in Request,
         req' = [req EXCEPT ![r] = q], q.tried = req[r].tried,
         \/ Outcome(q.phase) = Outcome(req[r].phase)
         \/ req[r].phase = "new" /\ Outcome(q.phase) \in {"open", "failed"}
         \/ /\ Outcome(req[r].phase) = "open"
            /\ Outcome(q.phase) \in {"answered", "failed", "aborted"}
            /\ q.phase # "failed" => req[r].tried # <<>>
  PROVE  AbstractStep
<1>1. req \in [Requests -> Request] /\ req[r].tried \in Seq(Target)
  BY DEF CInv, Types, Request
<1>2. Outcomes' = [Outcomes EXCEPT ![r] = Outcome(q.phase)]
  BY <1>1 DEF Outcomes
<1>3. Offers' = Offers BY <1>1 DEF Offers
<1>4. CASE Outcome(q.phase) = Outcome(req[r].phase)
  <2>1. Outcomes' = Outcomes BY <1>2, <1>4 DEF Outcomes
  <2> QED BY <1>3, <2>1 DEF AbstractStep, Promise!deliveryVars, Outcomes, Offers, OffersOf
<1>5. CASE req[r].phase = "new" /\ Outcome(q.phase) \in {"open", "failed"}
  <2>1. Outcomes[r] = "new" BY <1>5 DEF Outcomes, Outcome
  <2>2. Promise!Accept(r)
    BY <1>2, <1>3, <1>5, <2>1 DEF Promise!Accept, Outcomes, Offers, OffersOf
  <2> QED BY <2>2 DEF AbstractStep, Promise!DeliveryNext
<1>6. CASE /\ Outcome(req[r].phase) = "open"
           /\ Outcome(q.phase) \in {"answered", "failed", "aborted"}
           /\ q.phase # "failed" => req[r].tried # <<>>
  <2>1. Outcomes[r] = "open" BY <1>6 DEF Outcomes
  <2>2. Outcome(q.phase) # "failed" => Offers[r] # <<>>
    <3>1. Offers[r] = OffersOf(req[r].tried) BY DEF Offers
    <3>2. Len(Offers[r]) = Len(req[r].tried) BY <1>1, <3>1, OffersAreSequences
    <3> QED BY <1>1, <1>6, <3>2, EmptySeq DEF Outcome
  <2>3. Promise!End(r)
    BY <1>2, <1>3, <1>6, <2>1, <2>2
       DEF Promise!End, Promise!Ended, Outcomes, Offers, OffersOf
  <2> QED BY <2>3 DEF AbstractStep, Promise!DeliveryNext
<1> QED BY <1>4, <1>5, <1>6

LEMMA ArriveMaps ==
  ASSUME CInv, NEW r \in Requests, NEW shape \in Shapes, Arrive(r, shape)
  PROVE  AbstractStep
<1>1. req[r] \in Request /\ req[r].phase = "new" BY DEF CInv, Types, Arrive
<1>2. CInv' BY ArriveKeeps
<1>3. req'[r] \in Request BY <1>2 DEF CInv, Types
<1>4. req \in [Requests -> Request] BY DEF CInv, Types
<1> DEFINE found == GetForModel(seen, index, ResolveModel(seen, index, shape.model))
<1>5. CASE found = {}
  <2>1. req' = [req EXCEPT ![r].phase = "failed", ![r].shape = shape,
                           ![r].why = "no candidate"]
    BY <1>5 DEF Arrive
  <2>2. /\ req' = [req EXCEPT ![r] = req'[r]] /\ req'[r].tried = req[r].tried
        /\ req'[r].phase = "failed"
    BY <1>4, <2>1 DEF Request
  <2> QED BY <1>1, <1>3, <2>2, RecordSteps DEF Outcome
<1>6. CASE found # {}
  <2>1. PICK ids \in ContextChoices(seen, found, shape.tokens) :
          req' = [req EXCEPT ![r].phase = "route", ![r].shape = shape,
                             ![r].offered = OfferedTo(ids)]
    BY <1>6 DEF Arrive, OfferedTo
  <2>2. /\ req' = [req EXCEPT ![r] = req'[r]] /\ req'[r].tried = req[r].tried
        /\ req'[r].phase = "route"
    BY <1>4, <2>1 DEF Request
  <2> QED BY <1>1, <1>3, <2>2, RecordSteps DEF Outcome
<1> QED BY <1>5, <1>6

\* The tier a request is offered to next is later than those it was offered to.
LEMMA SelectMaps ==
  ASSUME CInv, NEW r \in Requests, Select(r)
  PROVE  AbstractStep
<1> DEFINE p == req[r]
<1>1. /\ p \in Request /\ Course(p) /\ p.phase = "route" /\ p.next <= 2
      /\ req \in [Requests -> Request]
  BY DEF CInv, Types, Courses, Select
<1>2. p.next \in 1..2 /\ p.offered \in Seq(SUBSET Target) /\ p.tried \in Seq(Target)
  BY <1>1 DEF Request
<1>3. Len(p.offered) = 2 BY <1>1, Zenon DEF Course, Phases
<1>4. PICK target \in p.offered[p.next] :
        req' = [req EXCEPT ![r].phase = "sent", ![r].next = @ + 1,
                           ![r].tried = Append(@, target), ![r].answer = NoAnswer]
  BY DEF Select
<1>5. target \in Target /\ TierOf(target) = p.next
  <2>1. p.offered[p.next] \subseteq Target BY <1>2, <1>3
  <2>2. Tiered(p) BY <1>1 DEF Course
  <2> QED BY <1>2, <1>3, <1>4, <2>1, <2>2 DEF Tiered
<1>6. req'[r].phase = "sent" /\ req'[r].tried = Append(p.tried, target)
  BY <1>1, <1>4 DEF Request
<1>7. \A q \in Requests \ {r} : req'[q] = req[q] BY <1>1, <1>4
<1>8. req' \in [Requests -> Request]
  <2>1. CInv' BY SelectKeeps
  <2> QED BY <2>1 DEF CInv, Types
<1>9. Outcomes' = Outcomes /\ Outcomes[r] = "open"
  BY <1>1, <1>6, <1>7, <1>8 DEF Outcomes, Outcome
<1>10. OffersOf(Append(p.tried, target)) = Append(OffersOf(p.tried), p.next)
  BY <1>2, <1>5, OffersOfOneMore
<1>11. Offers' = [Offers EXCEPT ![r] = Append(@, p.next)]
  <2>1. Offers'[r] = Append(Offers[r], p.next) BY <1>6, <1>10 DEF Offers
  <2>2. \A q \in Requests \ {r} : Offers'[q] = Offers[q] BY <1>7 DEF Offers
  <2> QED BY <2>1, <2>2 DEF Offers
<1>12. \A i \in 1..Len(Offers[r]) : Offers[r][i] < p.next
  <2>1. /\ Offers[r] = OffersOf(p.tried) /\ Len(OffersOf(p.tried)) = Len(p.tried)
        /\ \A i \in 1..Len(p.tried) : OffersOf(p.tried)[i] = TierOf(p.tried[i])
    BY <1>2, OffersAreSequences DEF Offers
  <2>2. \A i \in 1..Len(p.tried) : TierOf(p.tried[i]) < p.next
    BY <1>1, Zenon DEF Course, Tried
  <2> QED BY <2>1, <2>2
<1>13. p.next \in {1, 2} BY <1>2
<1> HIDE DEF p
<1>14. Promise!Offer(r)
  BY <1>9, <1>11, <1>12, <1>13 DEF Promise!Offer, Outcomes, Offers, OffersOf
<1> QED BY <1>14 DEF AbstractStep, Promise!DeliveryNext

LEMMA AgainMaps ==
  ASSUME CInv, NEW r \in Requests, Again(r)
  PROVE  AbstractStep
<1>1. /\ req \in [Requests -> Request] /\ req[r].phase \in {"answered", "failed", "aborted"}
      /\ req' = [req EXCEPT ![r] = NewRequest]
  BY DEF CInv, Types, Again
<1>2. Outcomes[r] \in {"answered", "failed", "aborted"} BY <1>1 DEF Outcomes, Outcome
<1>3. Outcomes' = [Outcomes EXCEPT ![r] = "new"]
  BY <1>1 DEF Outcomes, Outcome, NewRequest
<1>4. Offers' = [Offers EXCEPT ![r] = <<>>]
  BY <1>1, OffersOfNobody DEF Offers, NewRequest
<1>5. Promise!Again(r)
  BY <1>2, <1>3, <1>4 DEF Promise!Again, Promise!Ended, Outcomes, Offers, OffersOf
<1> QED BY <1>5 DEF AbstractStep, Promise!DeliveryNext

\* The other steps of a request leave the tiers that were tried alone.
LEMMA OtherStepsMap ==
  ASSUME CInv, NEW r \in Requests, Advance(r), ~ Select(r)
  PROVE  AbstractStep
<1> DEFINE p == req[r]
<1>1. /\ p \in Request /\ Course(p) /\ req \in [Requests -> Request]
  BY DEF CInv, Types, Courses
<1>2. req' \in [Requests -> Request]
  <2>1. Next BY Zenon DEF Next
  <2>2. CInv' BY <2>1, CKept
  <2> QED BY <2>2 DEF CInv, Types
<1>3. req'[r] \in Request BY <1>2
<1>4. p.phase \in {"sent", "served", "streaming", "body", "account"} => p.tried # <<>>
  BY <1>1, Zenon DEF Course, Phases
<1>5. CASE PassOver(r) \/ GiveUp(r)
  <2>1. /\ p.phase = "route" /\ req' = [req EXCEPT ![r] = req'[r]]
        /\ req'[r].tried = p.tried /\ req'[r].phase \in {"route", "failed"}
    <3>1. CASE PassOver(r) BY <1>1, <1>2, <3>1 DEF PassOver, Request
    <3>2. CASE GiveUp(r)
      <4>1. p.phase = "route"
            /\ \E why : req' = [req EXCEPT ![r].phase = "failed", ![r].why = why]
        BY <3>2 DEF GiveUp, Fail
      <4> QED BY <1>1, <1>2, <4>1, ZenonT(60) DEF Request
    <3> QED BY <1>5, <3>1, <3>2
  <2> QED BY <1>3, <2>1, RecordSteps DEF Outcome
<1>6. ASSUME \/ \E n \in Counts : Serve(r, n)
             \/ \E status \in {"retry", "refuse"} : Refuse(r, status)
      PROVE  AbstractStep
  <2>1. /\ p.phase = "sent" /\ req' = [req EXCEPT ![r] = req'[r]]
        /\ req'[r].tried = p.tried /\ req'[r].phase = "served"
    BY <1>1, <1>2, <1>6 DEF Serve, Refuse, Request
  <2> QED BY <1>3, <2>1, RecordSteps DEF Outcome
<1>7. CASE BuildFails(r) \/ Lost(r) \/ Receive(r) \/ BodyFails(r) \/ CaptureRateLimits(r)
           \/ Panic(r) \/ ParseFails(r)
  <2>1. /\ p.phase \in {"sent", "served", "body", "account"}
        /\ req' = [req EXCEPT ![r] = req'[r]] /\ req'[r].tried = p.tried
        /\ req'[r].phase \in {"failed", "route", "streaming", "body", "account", "aborted"}
    BY <1>1, <1>2, <1>7
       DEF BuildFails, Lost, Receive, BodyFails, CaptureRateLimits, Panic, ParseFails,
           Fail, Goto, Request
  <2> QED BY <1>3, <1>4, <2>1, RecordSteps DEF Outcome
<1>8. CASE StreamEnds(r) \/ AnswerNative(r) \/ AnswerTranslated(r)
  <2>1. /\ p.phase \in {"streaming", "account"}
        /\ req' = [req EXCEPT ![r] = req'[r]] /\ req'[r].tried = p.tried
        /\ req'[r].phase = "answered"
    BY <1>1, <1>2, <1>8 DEF StreamEnds, AnswerNative, AnswerTranslated, Reply, Request
  <2> QED BY <1>3, <1>4, <2>1, RecordSteps DEF Outcome
<1> QED BY <1>5, <1>6, <1>7, <1>8, Zenon DEF Advance

LEMMA StepsMap == CInv /\ [Next]_vars => AbstractStep
<1> SUFFICES ASSUME CInv, [Next]_vars PROVE AbstractStep OBVIOUS
<1>1. ASSUME NEW r \in Requests, NEW shape \in Shapes, Arrive(r, shape)
      PROVE  AbstractStep
  BY <1>1, ArriveMaps
<1>2. ASSUME NEW r \in Requests, Advance(r) PROVE AbstractStep
  BY <1>2, SelectMaps, OtherStepsMap
<1>3. ASSUME NEW r \in Requests, Again(r) PROVE AbstractStep BY <1>3, AgainMaps
<1>4. CASE UNCHANGED req
  BY <1>4 DEF AbstractStep, Promise!deliveryVars
<1>5. CASE \/ \E e \in Endpoints : Renew(e)
           \/ \E id \in Ids : Remove(id) \/ \E in \in Edits : Edit(id, in)
           \/ SnapshotRefresh \/ UNCHANGED vars
  <2>1. UNCHANGED req BY <1>5 DEF Renew, Remove, Edit, SnapshotRefresh, vars
  <2> QED BY <1>4, <2>1
<1> QED BY <1>1, <1>2, <1>3, <1>5, Zenon DEF Next

(***************************************************************************)
(* Whatever the backends, the administrators and the clock do, a request   *)
(* is offered to the cost tiers in order, at most once to each, it ends at *)
(* most once, an answer comes from a tier it was offered to, and nothing   *)
(* is offered after the end (handler.go:110).                              *)
(***************************************************************************)
THEOREM HandlerKeepsThePromise ==
  Spec => Promise!DeliveryInit /\ [][Promise!DeliveryNext]_(Promise!deliveryVars)
<1>1. Init => Promise!DeliveryInit
  BY OffersOfNobody
     DEF Init, NewRequest, Promise!DeliveryInit, Outcome, OffersOf
<1>2. CInv /\ [Next]_vars => [Promise!DeliveryNext]_(Promise!deliveryVars)
  BY StepsMap DEF AbstractStep
<1> QED BY CInitially, CKept, <1>1, <1>2, PTL DEF Spec

-----------------------------------------------------------------------------
(* Quotas, and what is counted                                              *)

\* A backend that was not edited has the endpoint it had at the start.
Original(view) ==
  \A id \in Ids \ edited : view[id] # NoBackend =>
    Live0[id] # NoBackend /\ view[id].endpoint = Live0[id].endpoint

\* So have the clones that requests hold.
Kept(t) == t.id \notin edited => t.endpoint = Live0[t.id].endpoint

Addressed(q) ==
  /\ \A i \in 1..Len(q.offered) : \A t \in q.offered[i] : Kept(t)
  /\ \A k \in 1..Len(q.tried) : Kept(q.tried[k])

\* An announcement that is not captured yet.
Underway(r) ==
  (req[r].phase \in {"served", "body"} /\ renewed[At(r).endpoint] = 0) =>
    req[r].answer.left >= quota[At(r).endpoint]

\* One that is.
Captured(id) ==
  (/\ live[id] # NoBackend /\ live[id].quotaTotal > 0
   /\ renewed[live[id].endpoint] = 0) =>
     live[id].quotaRemaining >= quota[live[id].endpoint]

QInv ==
  /\ Original(live) /\ Original(seen)
  /\ \A r \in Requests : Addressed(req[r])
  /\ \A r \in Requests : Underway(r)
  /\ \A id \in Ids \ edited : Captured(id)

-----------------------------------------------------------------------------
\* Until it is renewed, a quota only shrinks; and nobody forgets an edit.
LEMMA QuotasShrink ==
  ASSUME CInv, [Next]_vars
  PROVE  /\ edited \subseteq edited'
         /\ \A e \in Endpoints : renewed'[e] = 0 =>
              renewed[e] = 0 /\ quota'[e] <= quota[e]
<1>1. /\ quota \in [Endpoints -> Nat] /\ renewed \in [Endpoints -> 0..Renewals]
      /\ Renewals \in Nat
  BY RenewAssumption DEF CInv, Types
<1>2. CASE UNCHANGED <<edited, quota, renewed>> BY <1>1, <1>2
<1>3. ASSUME NEW r \in Requests, NEW n \in Counts, Serve(r, n)
      PROVE  /\ edited' = edited /\ renewed' = renewed
             /\ \A e \in Endpoints : quota'[e] <= quota[e]
  <2>1. At(r).endpoint \in Endpoints BY <1>3, AtFacts DEF Serve
  <2>2. n \in Nat BY CountsAssumption
  <2> DEFINE e == At(r).endpoint
             left == IF quota[e] > n THEN quota[e] - n ELSE 0
  <2>3. /\ quota' = [quota EXCEPT ![e] = left] /\ edited' = edited /\ renewed' = renewed
    BY <1>3 DEF Serve, registry
  <2>4. left <= quota[e] BY <1>1, <2>1, <2>2
  <2> HIDE DEF e, left
  <2> QED BY <1>1, <2>3, <2>4
<1>4. ASSUME NEW d \in Endpoints, Renew(d)
      PROVE  /\ edited' = edited
             /\ \A e \in Endpoints : renewed'[e] = 0 =>
                  renewed[e] = 0 /\ quota'[e] <= quota[e]
  <2>1. /\ edited' = edited /\ renewed' = [renewed EXCEPT ![d] = @ + 1]
        /\ quota' = [quota EXCEPT ![d] = Quota0[d]]
    BY <1>4 DEF Renew, registry
  <2>2. renewed'[d] # 0 BY <1>1, <2>1
  <2> QED BY <1>1, <2>1, <2>2
<1>5. ASSUME NEW id \in Ids, Remove(id) \/ \E in \in Edits : Edit(id, in)
      PROVE  edited \subseteq edited' /\ UNCHANGED <<quota, renewed>>
  BY <1>5 DEF Remove, Edit, upstream
<1>6. ASSUME NEW r \in Requests, Advance(r), ~ \E n \in Counts : Serve(r, n)
      PROVE  UNCHANGED <<edited, quota, renewed>>
  BY <1>6 DEF Advance, Select, PassOver, GiveUp, Refuse, BuildFails, Lost, Receive,
              StreamEnds, BodyFails, CaptureRateLimits, AnswerNative, Panic,
              ParseFails, AnswerTranslated, registry, upstream
<1>7. CASE \/ \E r \in Requests, shape \in Shapes : Arrive(r, shape)
           \/ \E r \in Requests : Again(r)
           \/ SnapshotRefresh \/ UNCHANGED vars
  <2>1. UNCHANGED <<edited, quota, renewed>>
    BY <1>7 DEF Arrive, Again, SnapshotRefresh, vars, registry, upstream
  <2> QED BY <1>2, <2>1
<1>8. ASSUME NEW r \in Requests, Advance(r)
      PROVE  /\ edited' = edited
             /\ \A e \in Endpoints : renewed'[e] = 0 =>
                  renewed[e] = 0 /\ quota'[e] <= quota[e]
  <2>1. CASE \E n \in Counts : Serve(r, n) BY <1>3, <2>1
  <2>2. CASE ~ \E n \in Counts : Serve(r, n) BY <1>1, <1>6, <1>8, <2>2
  <2> QED BY <2>1, <2>2
<1>9. CASE \E id \in Ids : Remove(id) \/ \E in \in Edits : Edit(id, in)
  BY <1>1, <1>5, <1>9
<1>10. CASE \E e \in Endpoints : Renew(e) BY <1>4, <1>10
<1>11. CASE \E r \in Requests : Advance(r) BY <1>8, <1>11
<1> QED BY <1>7, <1>9, <1>10, <1>11, Zenon DEF Next

\* The record of a backend that was not edited keeps its endpoint, and only the
\* answer of a request that is at it touches the quota it has announced.
LEMMA LiveSteps ==
  ASSUME CInv, [Next]_vars, NEW id \in Ids, id \notin edited', live'[id] # NoBackend
  PROVE  /\ live[id] # NoBackend /\ live'[id].endpoint = live[id].endpoint
         /\ \/ /\ live'[id].quotaTotal = live[id].quotaTotal
               /\ live'[id].quotaRemaining = live[id].quotaRemaining
            \/ \E r \in Requests : CaptureRateLimits(r) /\ At(r).id = id
<1>1. live \in [Ids -> Backend \union {NoBackend}] BY DEF CInv, Types
<1>2. CASE live'[id] = live[id] BY <1>2
<1>3. ASSUME NEW r \in Requests, CaptureRateLimits(r), At(r).id = id
      PROVE  live[id] # NoBackend /\ live'[id].endpoint = live[id].endpoint
  <2>1. \E h : Write(id, CaptureRateLimitHeaders(live[id], h))
    BY <1>3 DEF CaptureRateLimits
  <2>2. live[id] # NoBackend
    BY <2>1 DEF Write
  <2>3. live[id] \in Backend BY <1>1, <2>2
  <2> QED BY <1>1, <2>1, <2>2, <2>3 DEF Write, CaptureRateLimitHeaders, Backend
<1>4. ASSUME NEW r \in Requests, CaptureRateLimits(r), At(r).id # id
      PROVE  live'[id] = live[id]
  <2>1. \E b : Write(At(r).id, b) BY <1>4 DEF CaptureRateLimits
  <2> QED BY <1>1, <1>4, <2>1 DEF Write
<1>5. ASSUME NEW r \in Requests, AnswerNative(r) \/ AnswerTranslated(r)
      PROVE  /\ live[id] # NoBackend /\ live'[id].endpoint = live[id].endpoint
             /\ live'[id].quotaTotal = live[id].quotaTotal
             /\ live'[id].quotaRemaining = live[id].quotaRemaining
  <2>1. PICK n : RecordTokens(At(r).id, n) BY <1>5 DEF AnswerNative, AnswerTranslated
  <2>2. CASE At(r).id # id BY <1>1, <2>1, <2>2 DEF RecordTokens, Write
  <2>3. CASE At(r).id = id
    <3>1. live[id] # NoBackend BY <2>1, <2>3 DEF RecordTokens, Write
    <3>2. live[id] \in Backend BY <1>1, <3>1
    <3>3. live'[id] = [live[id] EXCEPT !.used = @ + n]
      BY <1>1, <2>1, <2>3, <3>1 DEF RecordTokens, Write
    <3> QED BY <3>1, <3>2, <3>3 DEF Backend
  <2> QED BY <2>2, <2>3
<1>6. ASSUME NEW i \in Ids, Remove(i) \/ \E in \in Edits : Edit(i, in)
      PROVE  live'[id] = live[id]
  <2>1. i \in edited' BY <1>6 DEF Remove, Edit
  <2>2. i # id BY <2>1
  <2>3. \E b : live' = [live EXCEPT ![i] = b] BY <1>6 DEF Remove, Edit
  <2> QED BY <1>1, <2>2, <2>3
<1>7. ASSUME NEW r \in Requests, Advance(r), ~ CaptureRateLimits(r),
             ~ (AnswerNative(r) \/ AnswerTranslated(r))
      PROVE  live' = live
  BY <1>7 DEF Advance, Select, PassOver, GiveUp, Serve, Refuse, BuildFails, Lost,
              Receive, StreamEnds, BodyFails, Panic, ParseFails, registry
<1>8. CASE \/ \E r \in Requests, shape \in Shapes : Arrive(r, shape)
           \/ \E r \in Requests : Again(r)
           \/ \E e \in Endpoints : Renew(e)
           \/ SnapshotRefresh \/ UNCHANGED vars
  <2>1. live' = live BY <1>8 DEF Arrive, Again, Renew, SnapshotRefresh, vars, registry
  <2> QED BY <1>2, <2>1
<1>9. ASSUME NEW r \in Requests, Advance(r)
      PROVE  /\ live[id] # NoBackend /\ live'[id].endpoint = live[id].endpoint
             /\ \/ /\ live'[id].quotaTotal = live[id].quotaTotal
                   /\ live'[id].quotaRemaining = live[id].quotaRemaining
                \/ \E s \in Requests : CaptureRateLimits(s) /\ At(s).id = id
  BY <1>2, <1>3, <1>4, <1>5, <1>7, <1>9
<1>10. CASE \E i \in Ids : Remove(i) \/ \E in \in Edits : Edit(i, in)
  BY <1>2, <1>6, <1>10
<1> QED BY <1>8, <1>9, <1>10, Zenon DEF Next

-----------------------------------------------------------------------------
\* A step of a request that has arrived and selects nothing keeps its targets,
\* and its answer is what its endpoint just announced or what it had before.
LEMMA SameTargets ==
  ASSUME CInv, NEW r \in Requests, Advance(r), ~ Select(r)
  PROVE  /\ req' = [req EXCEPT ![r] = req'[r]]
         /\ req'[r].offered = req[r].offered /\ req'[r].tried = req[r].tried
         /\ req'[r].phase \in {"served", "body"} =>
              \/ req'[r].answer.left = quota'[At(r).endpoint]
              \/ req[r].phase = "served" /\ req'[r].answer = req[r].answer
<1> DEFINE p == req[r]
<1>1. p \in Request /\ req \in [Requests -> Request] BY DEF CInv, Types
<1>2. CASE PassOver(r) BY <1>1, <1>2 DEF PassOver, Request
<1>3. CASE GiveUp(r)
  <2>1. PICK why : req' = [req EXCEPT ![r].phase = "failed", ![r].why = why]
    BY <1>3 DEF GiveUp, Fail
  <2>2. /\ req' = [req EXCEPT ![r] = req'[r]]
        /\ req'[r].offered = p.offered /\ req'[r].tried = p.tried
        /\ req'[r].phase = "failed"
    BY <1>1, <2>1 DEF Request
  <2> QED BY <2>2
<1>4. ASSUME NEW n \in Counts, Serve(r, n)
      PROVE  /\ req' = [req EXCEPT ![r] = req'[r]]
             /\ req'[r].offered = p.offered /\ req'[r].tried = p.tried
             /\ req'[r].answer.left = quota'[At(r).endpoint]
  <2> DEFINE e    == At(r).endpoint
             left == IF quota[e] > n THEN quota[e] - n ELSE 0
  <2>1. /\ req' = [req EXCEPT ![r].phase = "served",
                     ![r].answer = [status |-> "ok", tokens |-> n, left |-> left]]
        /\ quota' = [quota EXCEPT ![e] = left]
    BY <1>4 DEF Serve
  <2>2. e \in Endpoints BY <1>4, AtFacts DEF Serve
  <2> HIDE DEF left, e
  <2>3. quota'[e] = left BY <2>1, <2>2 DEF CInv, Types
  <2>4. /\ req' = [req EXCEPT ![r] = req'[r]]
        /\ req'[r].offered = p.offered /\ req'[r].tried = p.tried
        /\ req'[r].answer.left = left
    BY <1>1, <2>1 DEF Request
  <2> QED BY <2>3, <2>4 DEF e
<1>5. ASSUME NEW status \in {"retry", "refuse"}, Refuse(r, status)
      PROVE  /\ req' = [req EXCEPT ![r] = req'[r]]
             /\ req'[r].offered = p.offered /\ req'[r].tried = p.tried
             /\ req'[r].answer.left = quota'[At(r).endpoint]
  <2>1. /\ req' = [req EXCEPT ![r].phase = "served",
             ![r].answer = [status |-> status, tokens |-> 0,
                            left |-> quota[At(r).endpoint]]]
        /\ quota' = quota
    BY <1>5 DEF Refuse, upstream
  <2> QED BY <1>1, <2>1 DEF Request
<1>6. CASE Receive(r)
  <2>1. p.phase = "served" /\ \E phase : req' = [req EXCEPT ![r].phase = phase]
    BY <1>6 DEF Receive, Goto
  <2> QED BY <1>1, <2>1 DEF Request
<1>7. CASE Lost(r) \/ CaptureRateLimits(r) \/ Panic(r)
  <2>1. \E phase \in {"route", "account", "aborted"} :
          req' = [req EXCEPT ![r].phase = phase]
    BY <1>7 DEF Lost, CaptureRateLimits, Panic, Goto
  <2> QED BY <1>1, <2>1 DEF Request
<1>8. CASE BuildFails(r) \/ BodyFails(r) \/ ParseFails(r)
  <2>1. req' = [req EXCEPT ![r].phase = "failed", ![r].why = "final"]
    BY <1>8 DEF BuildFails, BodyFails, ParseFails, Fail
  <2> QED BY <1>1, <2>1 DEF Request
<1>9. CASE StreamEnds(r) \/ AnswerNative(r) \/ AnswerTranslated(r)
  <2>1. PICK format : req' = [req EXCEPT ![r].phase = "answered", ![r].body = format]
    BY <1>9 DEF StreamEnds, AnswerNative, AnswerTranslated, Reply
  <2>2. /\ req' = [req EXCEPT ![r] = req'[r]]
        /\ req'[r].offered = p.offered /\ req'[r].tried = p.tried
        /\ req'[r].phase = "answered"
    BY <1>1, <2>1 DEF Request
  <2> QED BY <2>2
<1> QED BY <1>2, <1>3, <1>4, <1>5, <1>6, <1>7, <1>8, <1>9, Zenon DEF Advance

\* What a request is offered comes from the clones of the moment it arrives.
LEMMA ArriveAddresses ==
  ASSUME CInv, QInv, NEW r \in Requests, NEW shape \in Shapes, Arrive(r, shape)
  PROVE  /\ req' = [req EXCEPT ![r] = req'[r]] /\ edited' = edited
         /\ Addressed(req'[r]) /\ req'[r].phase \notin {"served", "body"}
<1> DEFINE found == GetForModel(seen, index, ResolveModel(seen, index, shape.model))
<1>1. /\ req[r] = NewRequest /\ req[r] \in Request /\ req \in [Requests -> Request]
      /\ edited' = edited
  BY DEF CInv, Types, Courses, Course, Arrive, registry
<1>2. req[r].offered = <<>> /\ req[r].tried = <<>> BY <1>1 DEF NewRequest
<1>3. CASE found = {}
  <2>1. req' = [req EXCEPT ![r].phase = "failed", ![r].shape = shape,
                           ![r].why = "no candidate"]
    BY <1>3 DEF Arrive
  <2>2. /\ req' = [req EXCEPT ![r] = req'[r]] /\ req'[r].offered = <<>>
        /\ req'[r].tried = <<>> /\ req'[r].phase = "failed"
    BY <1>1, <1>2, <2>1 DEF Request
  <2>3. Addressed(req'[r]) BY <2>2 DEF Addressed
  <2> QED BY <1>1, <2>2, <2>3
<1>4. CASE found # {}
  <2>1. PICK ids \in ContextChoices(seen, found, shape.tokens) :
          req' = [req EXCEPT ![r].phase = "route", ![r].shape = shape,
                             ![r].offered = OfferedTo(ids)]
    BY <1>4 DEF Arrive, OfferedTo
  <2>2. /\ req' = [req EXCEPT ![r] = req'[r]] /\ req'[r].offered = OfferedTo(ids)
        /\ req'[r].tried = <<>> /\ req'[r].phase = "route"
    BY <1>1, <1>2, <2>1 DEF Request
  <2>3. ids \subseteq {id \in Ids : seen[id] # NoBackend}
    <3>1. ids \subseteq found BY DEF ContextChoices
    <3> QED BY <3>1, Resolved
  <2>4. /\ Len(OfferedTo(ids)) = 2 /\ OfferedTo(ids) \in Seq(SUBSET Target)
        /\ \A i \in 1..2 : \A t \in OfferedTo(ids)[i] :
             seen[t.id] # NoBackend /\ t.endpoint = seen[t.id].endpoint
    BY <2>3, OfferedTargets
  <2>5. \A i \in 1..2 : \A t \in OfferedTo(ids)[i] : Kept(t)
    <3> SUFFICES ASSUME NEW i \in 1..2, NEW t \in OfferedTo(ids)[i], t.id \notin edited
                 PROVE  t.endpoint = Live0[t.id].endpoint
      BY DEF Kept
    <3>1. t.id \in Ids BY <2>4 DEF Target
    <3> QED BY <2>4, <3>1 DEF QInv, Original
  <2>6. Addressed(req'[r]) BY <2>2, <2>4, <2>5 DEF Addressed
  <2> QED BY <1>1, <2>2, <2>6
<1> QED BY <1>3, <1>4

LEMMA SelectAddresses ==
  ASSUME CInv, QInv, NEW r \in Requests, Select(r)
  PROVE  /\ req' = [req EXCEPT ![r] = req'[r]] /\ edited' = edited
         /\ Addressed(req'[r]) /\ req'[r].phase \notin {"served", "body"}
<1> DEFINE p == req[r]
<1>1. /\ p \in Request /\ req \in [Requests -> Request] /\ edited' = edited
      /\ Course(p) /\ p.phase = "route" /\ p.next <= 2
  BY DEF CInv, Types, Courses, Select, registry
<1>2. p.next \in 1..2 /\ p.offered \in Seq(SUBSET Target) /\ p.tried \in Seq(Target)
  BY <1>1 DEF Request
<1>3. Len(p.offered) = 2 BY <1>1, Zenon DEF Course, Phases
<1>4. PICK target \in p.offered[p.next] :
        req' = [req EXCEPT ![r].phase = "sent", ![r].next = @ + 1,
                           ![r].tried = Append(@, target), ![r].answer = NoAnswer]
  BY DEF Select
<1>5. Addressed(p) BY DEF QInv
<1>6. target \in Target /\ Kept(target)
  <2>1. p.offered[p.next] \subseteq Target BY <1>2, <1>3
  <2> QED BY <1>2, <1>3, <1>4, <1>5, <2>1 DEF Addressed
<1>7. /\ req' = [req EXCEPT ![r] = req'[r]] /\ req'[r].offered = p.offered
      /\ req'[r].tried = Append(p.tried, target) /\ req'[r].phase = "sent"
  BY <1>1, <1>4 DEF Request
<1>8. \A k \in 1..Len(Append(p.tried, target)) : Kept(Append(p.tried, target)[k])
  <2> SUFFICES ASSUME NEW k \in 1..Len(Append(p.tried, target))
               PROVE  Kept(Append(p.tried, target)[k])
    OBVIOUS
  <2>1. CASE k = Len(p.tried) + 1
    <3>1. Append(p.tried, target)[k] = target BY <1>2, <1>6, <2>1
    <3> QED BY <1>6, <3>1
  <2>2. CASE k # Len(p.tried) + 1
    <3>1. k \in 1..Len(p.tried) /\ Append(p.tried, target)[k] = p.tried[k]
      BY <1>2, <1>6, <2>2
    <3> QED BY <1>5, <3>1 DEF Addressed
  <2> QED BY <2>1, <2>2
<1>9. Addressed(req'[r]) BY <1>5, <1>7, <1>8 DEF Addressed
<1> QED BY <1>1, <1>7, <1>9

\* Every step of the request itself keeps what is known of its targets.
LEMMA OwnTargets ==
  ASSUME CInv, QInv, [Next]_vars, NEW r \in Requests
  PROVE  /\ Addressed(req[r])' /\ Underway(r)'
<1>1. /\ edited \subseteq edited'
      /\ \A e \in Endpoints : renewed'[e] = 0 => renewed[e] = 0 /\ quota'[e] <= quota[e]
  BY QuotasShrink
<1>2. /\ Addressed(req[r]) /\ Underway(r) /\ req \in [Requests -> Request]
      /\ quota \in [Endpoints -> Nat]
  BY DEF QInv, CInv, Types
<1>3. CInv' BY CKept
<1>4. ASSUME /\ req'[r].offered = req[r].offered /\ req'[r].tried = req[r].tried
             /\ req'[r].phase \in {"served", "body"} =>
                  \/ req'[r].answer.left = quota'[At(r).endpoint]
                  \/ /\ req[r].phase \in {"served", "body"}
                     /\ req'[r].answer = req[r].answer
      PROVE  Addressed(req[r])' /\ Underway(r)'
  <2>1. At(r)' = At(r) BY <1>4 DEF At
  <2>2. Addressed(req[r])' BY <1>1, <1>2, <1>4 DEF Addressed, Kept
  <2>3. Underway(r)'
    <3> SUFFICES ASSUME req'[r].phase \in {"served", "body"},
                        renewed'[At(r).endpoint] = 0
                 PROVE  req'[r].answer.left >= quota'[At(r).endpoint]
      BY <2>1 DEF Underway
    <3>1. At(r).endpoint \in Endpoints
      <4>1. At(r)'.endpoint \in Endpoints
        <5>1. req'[r].phase \in {"sent", "served", "streaming", "body", "account"} OBVIOUS
        <5>2. req'[r] \in Request /\ Course(req'[r])
          BY <1>3 DEF CInv, Types, Courses
        <5>3. req'[r].tried \in Seq(Target) BY <5>2 DEF Request
        <5>4. req'[r].tried # <<>> BY <5>1, <5>2, Zenon DEF Course, Phases
        <5>5. Len(req'[r].tried) \in 1..Len(req'[r].tried) BY <5>3, <5>4
        <5>6. req'[r].tried[Len(req'[r].tried)] \in Target BY <5>3, <5>5
        <5> QED BY <5>6 DEF At, Target
      <4> QED BY <2>1, <4>1
    <3>2. quota[At(r).endpoint] \in Nat /\ quota'[At(r).endpoint] \in Nat
          /\ req'[r].answer.left \in Nat
      BY <1>2, <1>3, <3>1 DEF CInv, Types, Request, Answer
    <3>3. CASE req'[r].answer.left = quota'[At(r).endpoint] BY <3>2, <3>3
    <3>4. CASE req[r].phase \in {"served", "body"} /\ req'[r].answer = req[r].answer
      <4>1. renewed[At(r).endpoint] = 0 /\ quota'[At(r).endpoint] <= quota[At(r).endpoint]
        BY <1>1, <3>1
      <4>2. req[r].answer.left >= quota[At(r).endpoint] BY <1>2, <3>4, <4>1 DEF Underway
      <4>3. req[r].answer.left \in Nat BY <1>2 DEF Request, Answer
      <4> QED BY <3>2, <3>4, <4>1, <4>2, <4>3
    <3> QED BY <1>4, <3>3, <3>4
  <2> QED BY <2>2, <2>3
<1>5. CASE req'[r] = req[r]
  <2>1. /\ req'[r].offered = req[r].offered /\ req'[r].tried = req[r].tried
        /\ req'[r].phase = req[r].phase /\ req'[r].answer = req[r].answer
    BY <1>5
  <2> QED BY <1>4, <2>1
<1>6. ASSUME req' = [req EXCEPT ![r] = req'[r]] /\ edited' = edited,
             Addressed(req'[r]), req'[r].phase \notin {"served", "body"}
      PROVE  Addressed(req[r])' /\ Underway(r)'
  BY <1>6 DEF Addressed, Kept, Underway
<1>7. ASSUME NEW shape \in Shapes, Arrive(r, shape)
      PROVE  Addressed(req[r])' /\ Underway(r)'
  BY <1>6, <1>7, ArriveAddresses
<1>8. CASE Select(r) BY <1>6, <1>8, SelectAddresses
<1>9. CASE Advance(r) /\ ~ Select(r) BY <1>4, <1>9, SameTargets
<1>10. CASE Again(r)
  <2>1. req' = [req EXCEPT ![r] = NewRequest] /\ edited' = edited
    BY <1>10 DEF Again, registry
  <2>2. req'[r] = NewRequest BY <1>2, <2>1
  <2>3. req'[r].offered = <<>> /\ req'[r].tried = <<>> /\ req'[r].phase = "new"
    BY <2>2 DEF NewRequest
  <2>4. Addressed(req'[r]) BY <2>3 DEF Addressed
  <2>5. req' = [req EXCEPT ![r] = req'[r]] BY <1>2, <2>1, <2>2
  <2> QED BY <1>6, <2>1, <2>3, <2>4, <2>5
<1>11. ASSUME NEW s \in Requests, s # r,
              Advance(s) \/ Again(s) \/ \E shape \in Shapes : Arrive(s, shape)
       PROVE  req'[r] = req[r]
  <2>1. CASE Advance(s) /\ ~ Select(s) 
    <3>1. req' = [req EXCEPT ![s] = req'[s]] BY <2>1, SameTargets
    <3> QED BY <1>2, <1>11, <3>1
  <2>2. CASE Select(s)
    <3>1. req' = [req EXCEPT ![s] = req'[s]] BY <2>2, SelectAddresses
    <3> QED BY <1>2, <1>11, <3>1
  <2>3. CASE Again(s) BY <1>2, <1>11, <2>3 DEF Again
  <2>4. CASE \E shape \in Shapes : Arrive(s, shape)
    <3>1. req' = [req EXCEPT ![s] = req'[s]] BY <2>4, ArriveAddresses
    <3> QED BY <1>2, <1>11, <3>1
  <2> QED BY <1>11, <2>1, <2>2, <2>3, <2>4
<1>12. CASE \/ \E e \in Endpoints : Renew(e)
            \/ \E id \in Ids : Remove(id) \/ \E in \in Edits : Edit(id, in)
            \/ SnapshotRefresh \/ UNCHANGED vars
  <2>1. req' = req BY <1>12 DEF Renew, Remove, Edit, SnapshotRefresh, vars
  <2> QED BY <1>5, <2>1
<1>13. ASSUME NEW s \in Requests,
              Advance(s) \/ Again(s) \/ \E shape \in Shapes : Arrive(s, shape)
       PROVE  Addressed(req[r])' /\ Underway(r)'
  <2>1. CASE s = r BY <1>7, <1>8, <1>9, <1>10, <1>13, <2>1
  <2>2. CASE s # r BY <1>5, <1>11, <1>13, <2>2
  <2> QED BY <2>1, <2>2
<1> QED BY <1>12, <1>13, Zenon DEF Next

-----------------------------------------------------------------------------
LEMMA QInitially == Init => QInv
<1> SUFFICES ASSUME Init PROVE QInv OBVIOUS
<1>1. live = Live0 /\ seen = Live0 /\ quota = Quota0 BY DEF Init
<1>2. Original(live) /\ Original(seen) BY <1>1 DEF Original
<1>3. ASSUME NEW r \in Requests PROVE Addressed(req[r]) /\ Underway(r)
  <2>1. req[r].offered = <<>> /\ req[r].tried = <<>> /\ req[r].phase = "new"
    BY DEF Init, NewRequest
  <2> QED BY <2>1 DEF Addressed, Underway
<1>4. \A id \in Ids : Captured(id) BY <1>1, AnnouncedAssumption DEF Captured
<1> QED BY <1>2, <1>3, <1>4 DEF QInv

LEMMA QKept == CInv /\ QInv /\ [Next]_vars => QInv'
<1> SUFFICES ASSUME CInv, QInv, [Next]_vars PROVE QInv' OBVIOUS
<1>1. /\ edited \subseteq edited'
      /\ \A e \in Endpoints : renewed'[e] = 0 => renewed[e] = 0 /\ quota'[e] <= quota[e]
  BY QuotasShrink
<1>2. CInv' BY CKept
<1>3. Original(live)'
  <2> SUFFICES ASSUME NEW id \in Ids, id \notin edited', live'[id] # NoBackend
               PROVE  Live0[id] # NoBackend /\ live'[id].endpoint = Live0[id].endpoint
    BY DEF Original
  <2>1. live[id] # NoBackend /\ live'[id].endpoint = live[id].endpoint BY LiveSteps
  <2> QED BY <1>1, <2>1 DEF QInv, Original
<1>4. Original(seen)'
  <2>1. seen' \in {seen, live, live'}
    BY ZenonT(60) DEF Next, Arrive, Advance, Again, Renew, Remove, Edit, SnapshotRefresh, vars,
           Select, PassOver, GiveUp, Serve, Refuse, BuildFails, Lost, Receive,
           StreamEnds, BodyFails, CaptureRateLimits, AnswerNative, Panic,
           ParseFails, AnswerTranslated, registry
  <2>2. CASE seen' = seen BY <1>1, <2>2 DEF QInv, Original
  <2>3. CASE seen' = live BY <1>1, <2>3 DEF QInv, Original
  <2>4. CASE seen' = live' BY <1>3, <2>4 DEF Original
  <2> QED BY <2>1, <2>2, <2>3, <2>4
<1>5. \A r \in Requests : Addressed(req[r])' /\ Underway(r)' BY OwnTargets
<1>6. ASSUME NEW id \in Ids, id \notin edited' PROVE Captured(id)'
  <2> DEFINE e == live'[id].endpoint
  <2> SUFFICES ASSUME live'[id] # NoBackend, live'[id].quotaTotal > 0, renewed'[e] = 0
               PROVE  live'[id].quotaRemaining >= quota'[e]
    BY DEF Captured
  <2>1. live[id] # NoBackend /\ live[id].endpoint = e /\ id \notin edited
    BY <1>1, <1>6, LiveSteps
  <2>2. live[id] \in Backend /\ live'[id] \in Backend /\ e \in Endpoints
    BY <1>2, <2>1 DEF CInv, Types, Backend
  <2>3. quota'[e] <= quota[e] /\ renewed[e] = 0 BY <1>1, <2>2
  <2>4. quota[e] \in Nat /\ quota'[e] \in Nat BY <1>2, <2>2 DEF CInv, Types
  <2>5. live[id].quotaRemaining \in Int /\ live'[id].quotaRemaining \in Int
    BY <2>2 DEF Backend
  <2>6. Captured(id) BY <2>1 DEF QInv
  <2>7. CASE /\ live'[id].quotaTotal = live[id].quotaTotal
             /\ live'[id].quotaRemaining = live[id].quotaRemaining
    <3>1. live[id].quotaRemaining >= quota[e] BY <2>1, <2>3, <2>6, <2>7 DEF Captured
    <3> QED BY <2>3, <2>4, <2>5, <2>7, <3>1
  <2>8. ASSUME NEW r \in Requests, CaptureRateLimits(r), At(r).id = id
        PROVE  live'[id].quotaRemaining >= quota'[e]
    <3>1. req[r].phase = "body" BY <2>8 DEF CaptureRateLimits
    <3>2. At(r).endpoint = e
      <4>1. Len(req[r].tried) \in 1..Len(req[r].tried) BY <3>1, AtFacts
      <4>2. Kept(At(r)) BY <4>1 DEF QInv, Addressed, At
      <4>3. At(r).endpoint = Live0[id].endpoint BY <2>1, <2>8, <4>2 DEF Kept
      <4> QED BY <2>1, <4>3 DEF QInv, Original
    <3>3. req[r].answer.left >= quota[e] BY <2>3, <3>1, <3>2 DEF QInv, Underway
    <3>4. req[r].answer.left \in Nat BY DEF CInv, Types, Request, Answer
    <3>5. CASE e \in Announces
      <4>1. live' = [live EXCEPT ![id] = CaptureRateLimitHeaders(live[id],
                       [total |-> Quota0[e], remaining |-> req[r].answer.left])]
        BY <2>1, <2>8, <3>2, <3>5 DEF CaptureRateLimits, Write
      <4>2. req[r].answer.left # Absent BY <3>4, AbsentAssumption
      <4>3. live'[id].quotaRemaining = req[r].answer.left
        BY <2>2, <4>1, <4>2, ZenonT(60) DEF CaptureRateLimitHeaders, CInv, Types, Backend
      <4> QED BY <2>3, <2>4, <3>3, <3>4, <4>3
    <3>6. CASE e \notin Announces
      <4>1. live' = [live EXCEPT ![id] = CaptureRateLimitHeaders(live[id],
                       [total |-> Absent, remaining |-> Absent])]
        BY <2>1, <2>8, <3>2, <3>6 DEF CaptureRateLimits, Write
      <4>2. /\ live'[id].quotaTotal = live[id].quotaTotal
            /\ live'[id].quotaRemaining = live[id].quotaRemaining
        BY <2>2, <4>1 DEF CaptureRateLimitHeaders, CInv, Types, Backend
      <4> QED BY <2>7, <4>2
    <3> QED BY <3>5, <3>6
  <2> QED BY <1>6, <2>7, <2>8, LiveSteps
<1> QED BY <1>3, <1>4, <1>5, <1>6 DEF QInv

(***************************************************************************)
(* A backend that is left out because its quota looks exhausted really     *)
(* grants nothing, within one quota window and unless it was edited        *)
(* (strategy.go:401, registry.go:143).                                     *)
(***************************************************************************)
THEOREM ExclusionIsJustified == Spec => []ExcludedGrantsNothing
<1>1. CInv /\ QInv => ExcludedGrantsNothing
  <2> SUFFICES ASSUME CInv, QInv, NEW id \in Ids \ edited,
                      live[id] # NoBackend, renewed[live[id].endpoint] = 0,
                      live[id].balance = 0, Exhausted(live[id])
               PROVE  quota[live[id].endpoint] = 0
    BY DEF ExcludedGrantsNothing
  <2>1. live[id] \in Backend BY DEF CInv, Types
  <2>2. quota[live[id].endpoint] \in Nat BY <2>1 DEF CInv, Types, Backend
  <2>3. live[id].quotaTotal > 0 /\ live[id].quotaRemaining <= 0 BY <2>1 DEF Exhausted, Backend
  <2>4. live[id].quotaRemaining >= quota[live[id].endpoint] BY <2>3 DEF QInv, Captured
  <2> QED BY <2>1, <2>2, <2>3, <2>4 DEF Backend
<1>2. Init => CInv /\ QInv BY CInitially, QInitially
<1>3. (CInv /\ QInv) /\ [Next]_vars => (CInv /\ QInv)' BY CKept, QKept
<1> QED BY <1>1, <1>2, <1>3, PTL DEF Spec

-----------------------------------------------------------------------------
(* What a request is offered.                                              *)

\* The index leads to every record of a view from each model it lists.
Leads(view) ==
  \A id \in Ids : view[id] # NoBackend => \A m \in view[id].models : id \in index[m]

\* Old entries stay, but none is missing.
Indexed == Leads(live) /\ Leads(seen)

\* What a request writes back touches no list of models, nor the index.
LEMMA WritesKeepModels ==
  ASSUME CInv, NEW r \in Requests,
         CaptureRateLimits(r) \/ AnswerNative(r) \/ AnswerTranslated(r),
         NEW id \in Ids, live'[id] # NoBackend
  PROVE  live[id] # NoBackend /\ live'[id].models = live[id].models
<1>1. live \in [Ids -> Backend \union {NoBackend}] BY DEF CInv, Types
<1>2. CASE live'[id] = live[id] BY <1>2
<1>3. ASSUME NEW b, Write(At(r).id, b), live'[id] # live[id]
      PROVE  live[id] # NoBackend /\ live[id] \in Backend /\ At(r).id = id /\ live'[id] = b
  BY <1>1, <1>3 DEF Write
<1>4. ASSUME NEW h, Write(At(r).id, CaptureRateLimitHeaders(live[At(r).id], h)),
             live'[id] # live[id]
      PROVE  live[id] # NoBackend /\ live'[id].models = live[id].models
  <2>1. /\ live[id] # NoBackend /\ live[id] \in Backend /\ At(r).id = id
        /\ live'[id] = CaptureRateLimitHeaders(live[At(r).id], h)
    BY <1>3, <1>4
  <2> QED BY <2>1 DEF CaptureRateLimitHeaders, Backend
<1>5. ASSUME NEW n, RecordTokens(At(r).id, n), live'[id] # live[id]
      PROVE  live[id] # NoBackend /\ live'[id].models = live[id].models
  <2>1. /\ live[id] # NoBackend /\ live[id] \in Backend /\ At(r).id = id
        /\ live'[id] = [live[At(r).id] EXCEPT !.used = @ + n]
    BY <1>3, <1>5 DEF RecordTokens
  <2> QED BY <2>1 DEF Backend
<1>6. CASE CaptureRateLimits(r) BY <1>2, <1>4, <1>6 DEF CaptureRateLimits
<1>7. CASE AnswerNative(r) \/ AnswerTranslated(r)
  BY <1>2, <1>5, <1>7 DEF AnswerNative, AnswerTranslated
<1> QED BY <1>6, <1>7

LEMMA IndexedInitially == Init => Indexed
<1> SUFFICES ASSUME Init, NEW id \in Ids, Live0[id] # NoBackend, NEW m \in Live0[id].models
             PROVE  id \in index[m]
  BY DEF Init, Indexed, Leads
<1>1. Live0[id] \in Backend BY LiveAssumption
<1>2. m \in Models BY <1>1, BackendFields
<1> QED BY <1>2 DEF Init

LEMMA IndexedKept == CInv /\ Indexed /\ [Next]_vars => Indexed'
<1> SUFFICES ASSUME CInv, Indexed, [Next]_vars PROVE Indexed' OBVIOUS
<1>1. /\ live \in [Ids -> Backend \union {NoBackend}]
      /\ index \in [Models -> SUBSET Ids]
  BY DEF CInv, Types
<1>2. CASE UNCHANGED <<live, seen, index>>
  BY <1>2, Zenon DEF Indexed, Leads
<1>3. ASSUME NEW r \in Requests,
             CaptureRateLimits(r) \/ AnswerNative(r) \/ AnswerTranslated(r)
      PROVE  Indexed'
  <2>1. seen' = seen /\ index' = index
    BY <1>3 DEF CaptureRateLimits, AnswerNative, AnswerTranslated
  <2>2. Leads(live)' BY <1>3, <2>1, WritesKeepModels DEF Indexed, Leads
  <2>3. Leads(seen)' BY <2>1 DEF Indexed, Leads
  <2> QED BY <2>2, <2>3 DEF Indexed
<1>4. CASE SnapshotRefresh BY <1>4, Zenon DEF SnapshotRefresh, Indexed, Leads
<1>5. ASSUME NEW i \in Ids, NEW in \in Edits, Edit(i, in) PROVE Indexed'
  <2>1. /\ live[i] \in Backend /\ seen' = live'
        /\ live' = [live EXCEPT ![i] = SetRest(SetEndpoint(@, in), in)]
        /\ index' = [m \in Models |-> IF m \in in.models THEN index[m] \union {i} ELSE index[m]]
    BY <1>1, <1>5 DEF Edit
  <2>2. in.models \subseteq Models BY EditsAssumption DEF BackendInput
  <2>3. live'[i].models = in.models BY <1>1, <2>1 DEF SetRest, SetEndpoint, Backend
  <2>4. Leads(live)'
    <3> SUFFICES ASSUME NEW id \in Ids, live'[id] # NoBackend, NEW m \in live'[id].models
                 PROVE  id \in index'[m]
      BY DEF Leads
    <3>1. CASE id = i BY <2>1, <2>2, <2>3, <3>1
    <3>2. CASE id # i
      <4>1. live'[id] = live[id] BY <1>1, <2>1, <3>2
      <4>2. id \in index[m] BY <4>1 DEF Indexed, Leads
      <4>3. m \in Models BY <1>1, <4>1, BackendFields
      <4> QED BY <2>1, <4>2, <4>3
    <3> QED BY <3>1, <3>2
  <2> QED BY <2>1, <2>4 DEF Indexed, Leads
<1>6. ASSUME NEW i \in Ids, Remove(i) PROVE Indexed'
  <2>1. /\ seen' = live' /\ live' = [live EXCEPT ![i] = NoBackend]
        /\ index' = [m \in Models |-> IF m \in live[i].models THEN index[m] \ {i} ELSE index[m]]
    BY <1>6 DEF Remove
  <2>2. Leads(live)'
    <3> SUFFICES ASSUME NEW id \in Ids, live'[id] # NoBackend, NEW m \in live'[id].models
                 PROVE  id \in index'[m]
      BY DEF Leads
    <3>1. id # i /\ live'[id] = live[id] BY <1>1, <2>1
    <3>2. id \in index[m] BY <3>1 DEF Indexed, Leads
    <3>3. m \in Models BY <1>1, <3>1, BackendFields
    <3> QED BY <2>1, <3>1, <3>2, <3>3
  <2> QED BY <2>1, <2>2 DEF Indexed, Leads
<1>7. ASSUME NEW r \in Requests, Advance(r), ~ CaptureRateLimits(r),
             ~ (AnswerNative(r) \/ AnswerTranslated(r))
      PROVE  UNCHANGED <<live, seen, index>>
  BY <1>7 DEF Advance, Select, PassOver, GiveUp, Serve, Refuse, BuildFails, Lost,
              Receive, StreamEnds, BodyFails, Panic, ParseFails, registry
<1>8. ASSUME \/ \E r \in Requests, shape \in Shapes : Arrive(r, shape)
             \/ \E r \in Requests : Again(r)
             \/ \E e \in Endpoints : Renew(e)
             \/ UNCHANGED vars
      PROVE  UNCHANGED <<live, seen, index>>
  BY <1>8 DEF Arrive, Again, Renew, vars, registry
<1>9. CASE \E r \in Requests : Advance(r) BY <1>2, <1>3, <1>7, <1>9
<1>10. CASE \E id \in Ids : Remove(id) \/ \E in \in Edits : Edit(id, in)
  BY <1>5, <1>6, <1>10
<1> QED BY <1>2, <1>4, <1>8, <1>9, <1>10, Zenon DEF Next

\* Only its arrival takes a request out of phase "new".
LEMMA OnlyArrivalBegins ==
  ASSUME CInv, QInv, [Next]_vars, NEW r \in Requests,
         req[r].phase = "new", req'[r].phase # "new"
  PROVE  \E shape \in Shapes : Arrive(r, shape)
<1>1. req \in [Requests -> Request] BY DEF CInv, Types
<1>2. ASSUME NEW s \in Requests, NEW shape \in Shapes, Arrive(s, shape)
      PROVE  r = s
  <2>1. req' = [req EXCEPT ![s] = req'[s]] BY <1>2, ArriveAddresses
  <2> QED BY <1>1, <2>1
<1>3. ~ Advance(r)
  BY DEF Advance, Select, PassOver, GiveUp, Serve, Refuse, BuildFails, Lost,
         Receive, StreamEnds, BodyFails, CaptureRateLimits, AnswerNative, Panic,
         ParseFails, AnswerTranslated
<1>4. ~ \E s \in Requests : Advance(s)
  <2> SUFFICES ASSUME NEW s \in Requests, Advance(s) PROVE FALSE OBVIOUS
  <2>1. req' = [req EXCEPT ![s] = req'[s]]
    <3>1. CASE Select(s) BY <3>1, SelectAddresses
    <3>2. CASE ~ Select(s) BY <3>2, SameTargets
    <3> QED BY <3>1, <3>2
  <2>2. s = r BY <1>1, <2>1
  <2> QED BY <1>3, <2>2
<1>5. ~ \E s \in Requests : Again(s)
  BY <1>1 DEF Again
<1>6. ~ (\/ \E e \in Endpoints : Renew(e)
         \/ \E id \in Ids : Remove(id) \/ \E in \in Edits : Edit(id, in)
         \/ SnapshotRefresh \/ UNCHANGED vars)
  BY DEF Renew, Remove, Edit, SnapshotRefresh, vars
<1> QED BY <1>2, <1>4, <1>5, <1>6, Zenon DEF Next

\* The tiers together offer the usable ones of the candidates that are left.
LEMMA UsableAreOffered ==
  ASSUME CInv, NEW ids, ids \subseteq {id \in Ids : seen[id] # NoBackend}, NEW id
  PROVE  id \in OfferedIn(OfferedTo(ids)) <=> id \in ids /\ Usable(id)
<1> DEFINE offers == OfferedTo(ids)
           target(i) == [id |-> i, endpoint |-> seen[i].endpoint]
<1>1. DOMAIN offers = 1..2 BY DEF OfferedTo
<1>2. \A t : \A i \in 1..2 :
        t \in offers[i] <=> \E j \in FilterActive(seen, SplitByCostTier(ids)[i]) : t = target(j)
  BY DEF OfferedTo, Targets
<1>3. \A j : target(j).id = j OBVIOUS
<1>4. \A i \in 1..2 : \A j :
        j \in FilterActive(seen, SplitByCostTier(ids)[i]) <=>
          j \in ids /\ Usable(j) /\ (IsPrepaid(seen[j]) <=> i = 1)
  BY DEF FilterActive, SplitByCostTier, Usable
<1> HIDE DEF offers, target
<1>5. ASSUME id \in OfferedIn(offers) PROVE id \in ids /\ Usable(id)
  <2>1. PICK i \in 1..2 : id \in {t.id : t \in offers[i]}
    <3>1. PICK S \in {{t.id : t \in offers[i]} : i \in DOMAIN offers} : id \in S
      BY <1>5 DEF OfferedIn
    <3>2. PICK i \in DOMAIN offers : S = {t.id : t \in offers[i]} BY <3>1, Zenon
    <3> QED BY <1>1, <3>1, <3>2, Zenon
  <2>2. PICK t \in offers[i] : id = t.id BY <2>1, Zenon
  <2> QED BY <1>2, <1>3, <1>4, <2>2
<1>6. ASSUME id \in ids, Usable(id) PROVE id \in OfferedIn(offers)
  <2>1. PICK i \in 1..2 : IsPrepaid(seen[id]) <=> i = 1
    <3>1. 1 \in 1..2 /\ 2 \in 1..2 /\ 2 # 1 OBVIOUS
    <3> QED BY <3>1
  <2>2. target(id) \in offers[i] /\ target(id).id = id BY <1>2, <1>3, <1>4, <1>6, <2>1
  <2> QED BY <1>1, <2>2 DEF OfferedIn
<1> QED BY <1>5, <1>6 DEF offers

\* What the context filter leaves of the candidates.
LEMMA ContextLeaves ==
  ASSUME CInv, NEW found, found \subseteq {id \in Ids : seen[id] # NoBackend}, found # {},
         NEW tokens \in Nat, NEW ids \in ContextChoices(seen, found, tokens)
  PROVE  /\ ids \subseteq found
         /\ \/ \A id \in found : id \in ids <=> Fits(seen[id], tokens)
            \/ /\ \A id \in found : ~ Fits(seen[id], tokens)
               /\ \A i, j \in ids : i = j
<1> DEFINE fit == {id \in found : Fits(seen[id], tokens)}
<1>1. CASE tokens <= 0
  <2>1. ids = found BY <1>1 DEF ContextChoices
  <2>2. \A id \in found : Window[seen[id].endpoint] \in Nat
    BY WindowAssumption DEF CInv, Types, Backend
  <2>3. fit = found BY <1>1, <2>2 DEF Fits
  <2> QED BY <2>1, <2>3
<1>2. CASE tokens > 0 /\ fit # {} BY <1>2 DEF ContextChoices
<1>3. CASE tokens > 0 /\ fit = {}
  <2>1. PICK id \in found : ids = {id} BY <1>3 DEF ContextChoices
  <2> QED BY <1>3, <2>1
<1> QED BY <1>1, <1>2, <1>3

\* What fits, and no more, of the candidates, is what a request is offered.
LEMMA ArrivalIsOfferedWhatFits ==
  ASSUME CInv, Indexed, NEW r \in Requests, NEW shape \in Shapes, Arrive(r, shape)
  PROVE  OfferedWhatFits(r)
<1> DEFINE model == ResolveModel(seen, index, shape.model)
           found == GetForModel(seen, index, model)
           lists == {id \in Ids : Lists(id, model)}
<1>1. req[r] = NewRequest /\ req[r] \in Request /\ req \in [Requests -> Request]
  BY DEF CInv, Types, Courses, Course, Arrive
<1>2. lists \subseteq found
  <2> SUFFICES ASSUME NEW id \in lists PROVE id \in found OBVIOUS
  <2> HIDE DEF model
  <2> QED BY DEF GetForModel, Lists, Indexed, Leads
<1>3. (\E id \in Ids : Lists(id, shape.model)) => model = shape.model
  <2> SUFFICES ASSUME NEW id \in Ids, Lists(id, shape.model) PROVE model = shape.model
    OBVIOUS
  <2>1. id \in GetForModel(seen, index, shape.model) BY DEF GetForModel, Lists, Indexed, Leads
  <2> QED BY <2>1 DEF ResolveModel
<1>4. found \subseteq {id \in Ids : seen[id] # NoBackend} BY Resolved
<1>5. CASE found = {}
  <2>1. req' = [req EXCEPT ![r].phase = "failed", ![r].shape = shape,
                           ![r].why = "no candidate"]
    BY <1>5 DEF Arrive
  <2>2. req[r].offered = <<>> BY <1>1 DEF NewRequest
  <2>3. req'[r].offered = <<>> /\ req'[r].shape = shape BY <1>1, <2>1, <2>2 DEF Request
  <2>4. OfferedIn(req'[r].offered) = {} BY <2>3 DEF OfferedIn
  <2> HIDE DEF model, found
  <2> QED BY <1>2, <1>3, <1>5, <2>3, <2>4 DEF OfferedWhatFits, model
<1>6. CASE found # {}
  <2>1. PICK ids \in ContextChoices(seen, found, shape.tokens) :
          req' = [req EXCEPT ![r].phase = "route", ![r].shape = shape,
                             ![r].offered = OfferedTo(ids)]
    BY <1>6 DEF Arrive, OfferedTo
  <2>2. req'[r].offered = OfferedTo(ids) /\ req'[r].shape = shape
    BY <1>1, <2>1 DEF Request
  <2>3. shape.tokens \in Nat BY ShapesAssumption DEF Shape
  <2> HIDE DEF found
  <2>4. /\ ids \subseteq found
        /\ \/ \A id \in found : id \in ids <=> Fits(seen[id], shape.tokens)
           \/ /\ \A id \in found : ~ Fits(seen[id], shape.tokens)
              /\ \A i, j \in ids : i = j
    <3>1. found \subseteq {id \in Ids : seen[id] # NoBackend} BY <1>4
    <3>2. found # {} BY <1>6
    <3>3. ids \in ContextChoices(seen, found, shape.tokens) OBVIOUS
    <3> QED BY <2>3, <3>1, <3>2, <3>3, ContextLeaves
  <2>5. \A id : id \in OfferedIn(req'[r].offered) <=> id \in ids /\ Usable(id)
    <3>1. ids \subseteq {id \in Ids : seen[id] # NoBackend} BY <1>4, <2>4
    <3> QED BY <2>2, <3>1, UsableAreOffered
  <2> HIDE DEF lists
  <2> QED BY <1>2, <1>3, <2>2, <2>4, <2>5 DEF OfferedWhatFits, lists
<1> QED BY <1>5, <1>6

(***************************************************************************)
(* Whatever was edited, renewed or counted before, a request that arrives  *)
(* is offered every usable backend that lists its model and has room for   *)
(* it, nothing unusable, and nothing too small in place of one that fits   *)
(* (handler.go:66, strategy.go:425).  It rests on the index: an entry may  *)
(* be old, but none is missing for a published record.                     *)
(***************************************************************************)
THEOREM RoutesWhatFits == Spec => FittingIsOffered
<1>1. (CInv /\ QInv /\ Indexed) /\ [Next]_vars
        => [\A r \in Requests : OfferedWhatFits(r)]_vars
  <2> SUFFICES ASSUME CInv, QInv, Indexed, [Next]_vars, NEW r \in Requests
               PROVE  OfferedWhatFits(r)
    BY Zenon
  <2>1. CASE req[r].phase = "new" /\ req'[r].phase # "new"
    BY <2>1, OnlyArrivalBegins, ArrivalIsOfferedWhatFits
  <2>2. CASE ~ (req[r].phase = "new" /\ req'[r].phase # "new")
    BY <2>2 DEF OfferedWhatFits
  <2> QED BY <2>1, <2>2
<1>2. Init => CInv /\ QInv /\ Indexed BY CInitially, QInitially, IndexedInitially
<1>3. (CInv /\ QInv /\ Indexed) /\ [Next]_vars => (CInv /\ QInv /\ Indexed)'
  BY CKept, QKept, IndexedKept
<1> QED BY <1>1, <1>2, <1>3, PTL DEF Spec, FittingIsOffered

-----------------------------------------------------------------------------
(* What is counted                                                         *)

\* What an answer that is on its way to its client may still add to the count
\* of the backend that gave it.
Pending(r, id) ==
  IF req[r].phase \in {"served", "body", "account"} /\ At(r).id = id
  THEN req[r].answer.tokens ELSE 0

Owed(id) == SumFunctionOnSet([r \in Requests |-> Pending(r, id)], Requests)

\* What is counted and what may still be was consumed.
NInv ==
  \A id \in Ids : live[id] # NoBackend =>
    /\ Live0[id] # NoBackend
    /\ live[id].used + Owed(id) <= Live0[id].used + consumed[id]

-----------------------------------------------------------------------------
LEMMA PendingTypes ==
  ASSUME CInv, NEW id, NEW r \in Requests
  PROVE  Pending(r, id) \in Nat
BY DEF CInv, Types, Request, Answer, Pending

\* A step of one request does not touch what others may add.
LEMMA OthersKeepPending ==
  ASSUME CInv, NEW id, NEW r \in Requests, NEW q, req' = [req EXCEPT ![r] = q],
         NEW s \in Requests \ {r}
  PROVE  Pending(s, id)' = Pending(s, id)
<1>1. req'[s] = req[s] BY DEF CInv, Types
<1> QED BY <1>1 DEF Pending, At

\* Nothing is owed at the start.
LEMMA NobodyOwes ==
  ASSUME NEW id, \A r \in Requests : Pending(r, id) = 0
  PROVE  Owed(id) = 0
<1> DEFINE f == [r \in Requests |-> Pending(r, id)]
<1>1. f \in [Requests -> Int] /\ \A r \in Requests : f[r] = 0 OBVIOUS
<1> HIDE DEF f
<1>2. Requests \in SUBSET Requests /\ IsFiniteSet(Requests) BY RequestsAssumption
<1>3. SumFunctionOnSet(f, Requests) = 0 BY <1>1, <1>2, SumOfZeros
<1> QED BY <1>3 DEF Owed, f

\* What is owed changes by what one request owes more or less.
LEMMA OwedChanges ==
  ASSUME CInv, CInv', NEW id, NEW r \in Requests,
         \A s \in Requests \ {r} : Pending(s, id)' = Pending(s, id)
  PROVE  /\ Owed(id) \in Int /\ Owed(id)' \in Int
         /\ Owed(id)' = Owed(id) + (Pending(r, id)' - Pending(r, id))
<1> DEFINE f == [s \in Requests |-> Pending(s, id)]
           g == [s \in Requests |-> Pending(s, id)']
<1>1. \A s \in Requests : Pending(s, id) \in Nat BY PendingTypes
<1>2. \A s \in Requests : Pending(s, id)' \in Nat
  BY DEF CInv, Types, Request, Answer, Pending
<1>3. f \in [Requests -> Int] /\ g \in [Requests -> Int] BY <1>1, <1>2
<1>4. f[r] = Pending(r, id) /\ g[r] = Pending(r, id)' /\ \A s \in Requests \ {r} : g[s] = f[s]
  OBVIOUS
<1>5. Owed(id) = SumFunctionOnSet(f, Requests) /\ Owed(id)' = SumFunctionOnSet(g, Requests)
  BY DEF Owed
<1>6. Requests \in SUBSET Requests /\ IsFiniteSet(Requests) BY RequestsAssumption
<1> HIDE DEF f, g
<1>7. SumFunctionOnSet(f, Requests) \in Int /\ SumFunctionOnSet(g, Requests) \in Int
  <2>1. SumFunctionOnSet(f, Requests) \in Int BY <1>3, <1>6, SumType
  <2>2. SumFunctionOnSet(g, Requests) \in Int BY <1>3, <1>6, SumType
  <2> QED BY <2>1, <2>2
<1>8. SumFunctionOnSet(g, Requests) = SumFunctionOnSet(f, Requests) + (g[r] - f[r])
  BY <1>3, <1>4, <1>6, SumChanges
<1> QED BY <1>4, <1>5, <1>7, <1>8


\* A step of one request leaves the books in order if what the request adds to
\* the count, or may still add, is consumed, or was to be added before.
Settles(r, id) ==
  /\ live[id] # NoBackend
  /\ live'[id].used + Pending(r, id)' + consumed[id]
       <= live[id].used + Pending(r, id) + consumed'[id]

LEMMA SettledStepsKeep ==
  ASSUME CInv, CInv', NInv, NEW r \in Requests, NEW id \in Ids, live'[id] # NoBackend,
         \A s \in Requests \ {r} : Pending(s, id)' = Pending(s, id),
         Settles(r, id)
  PROVE  Live0[id] # NoBackend /\ live'[id].used + Owed(id)' <= Live0[id].used + consumed'[id]
<1>1. live[id] # NoBackend /\ Live0[id] # NoBackend BY DEF Settles, NInv
<1>2. live[id] \in Backend /\ live'[id] \in Backend /\ Live0[id] \in Backend
  BY <1>1, LiveAssumption DEF CInv, Types
<1>3. live[id].used \in Nat /\ live'[id].used \in Nat /\ Live0[id].used \in Nat
  BY <1>2 DEF Backend
<1>4. consumed[id] \in Nat /\ consumed'[id] \in Nat BY DEF CInv, Types
<1>5. Pending(r, id) \in Nat BY PendingTypes
<1>6. Pending(r, id)' \in Nat BY DEF CInv, Types, Request, Answer, Pending
<1>7. /\ Owed(id) \in Int /\ Owed(id)' \in Int
      /\ Owed(id)' = Owed(id) + (Pending(r, id)' - Pending(r, id))
  BY OwedChanges
<1>8. live[id].used + Owed(id) <= Live0[id].used + consumed[id] BY <1>1 DEF NInv
<1>9. live'[id].used + Pending(r, id)' + consumed[id]
       <= live[id].used + Pending(r, id) + consumed'[id]
  BY DEF Settles
<1> QED BY ONLY <1>1, <1>3, <1>4, <1>5, <1>6, <1>7, <1>8, <1>9

-----------------------------------------------------------------------------
\* A request that counts nothing and is served nothing may forget its answer.
LEMMA QuietSteps ==
  ASSUME CInv, CInv', NEW r \in Requests, NEW id \in Ids, live'[id] # NoBackend,
         UNCHANGED <<live, consumed>>,
         \/ req'[r].phase \notin {"served", "body", "account"}
         \/ req'[r].answer.tokens = 0
         \/ /\ req[r].phase \in {"served", "body", "account"}
            /\ req'[r].tried = req[r].tried /\ req'[r].answer = req[r].answer
  PROVE  Settles(r, id)
<1>1. live[id] # NoBackend /\ live[id] \in Backend BY DEF CInv, Types
<1>2. live[id].used \in Nat /\ consumed[id] \in Nat BY <1>1 DEF Backend, CInv, Types
<1>3. Pending(r, id) \in Nat BY PendingTypes
<1>4. Pending(r, id)' \in Nat BY DEF CInv, Types, Request, Answer, Pending
<1>5. Pending(r, id)' <= Pending(r, id)
  <2>1. CASE \/ req'[r].phase \notin {"served", "body", "account"}
             \/ req'[r].answer.tokens = 0
    <3>1. Pending(r, id)' = 0 BY <2>1 DEF Pending
    <3> QED BY <1>3, <3>1
  <2>2. CASE /\ req[r].phase \in {"served", "body", "account"}
             /\ req'[r].tried = req[r].tried /\ req'[r].answer = req[r].answer
    <3>1. At(r)' = At(r) BY <2>2 DEF At
    <3>2. Pending(r, id)' \in {0, Pending(r, id)} BY <2>2, <3>1 DEF Pending
    <3> QED BY <1>3, <3>2
  <2> QED BY <2>1, <2>2
<1> QED BY <1>1, <1>2, <1>3, <1>4, <1>5 DEF Settles

LEMMA ServeSettles ==
  ASSUME CInv, CInv', NEW r \in Requests, NEW id \in Ids, live'[id] # NoBackend,
         NEW n \in Counts, Serve(r, n)
  PROVE  Settles(r, id)
<1>1. /\ live' = live /\ consumed' = [consumed EXCEPT ![At(r).id] = @ + n]
      /\ req[r].phase = "sent" /\ n \in Nat
  BY CountsAssumption DEF Serve, registry
<1>2. live[id] # NoBackend /\ live[id] \in Backend BY <1>1 DEF CInv, Types
<1>3. live[id].used \in Nat /\ consumed[id] \in Nat BY <1>2 DEF Backend, CInv, Types
<1>4. At(r).id \in Ids BY <1>1, AtFacts
<1>5. Pending(r, id) = 0 BY <1>1 DEF Pending
<1>6. At(r)' = At(r) /\ req'[r].answer.tokens = n
  <2> DEFINE e == At(r).endpoint
             left == IF quota[e] > n THEN quota[e] - n ELSE 0
  <2>1. req' = [req EXCEPT ![r].phase = "served",
                     ![r].answer = [status |-> "ok", tokens |-> n, left |-> left]]
    BY DEF Serve
  <2> HIDE DEF left
  <2>2. req \in [Requests -> Request] /\ req[r] \in Request BY DEF CInv, Types
  <2>3. req'[r].tried = req[r].tried /\ req'[r].answer.tokens = n
    BY <2>1, <2>2 DEF Request
  <2> QED BY <2>3 DEF At
<1>7. CASE At(r).id = id
  <2>1. Pending(r, id)' \in {0, n} BY <1>6 DEF Pending
  <2>2. consumed'[id] = consumed[id] + n BY <1>1, <1>4, <1>7 DEF CInv, Types
  <2> QED BY <1>1, <1>2, <1>3, <1>5, <2>1, <2>2 DEF Settles
<1>8. CASE At(r).id # id
  <2>1. Pending(r, id)' = 0 BY <1>6, <1>8 DEF Pending
  <2>2. consumed'[id] = consumed[id] BY <1>1, <1>4, <1>8 DEF CInv, Types
  <2> QED BY <1>1, <1>2, <1>3, <1>5, <2>1, <2>2 DEF Settles
<1> QED BY <1>7, <1>8

\* The announced quota is written into the record, its count is not.
LEMMA CaptureSettles ==
  ASSUME CInv, CInv', NEW r \in Requests, NEW id \in Ids, live'[id] # NoBackend,
         CaptureRateLimits(r)
  PROVE  Settles(r, id)
<1>1. /\ consumed' = consumed /\ req[r].phase = "body"
      /\ \E h : Write(At(r).id, CaptureRateLimitHeaders(live[At(r).id], h))
      /\ req' = [req EXCEPT ![r].phase = "account"]
  BY DEF CaptureRateLimits, upstream, Goto
<1>2. live \in [Ids -> Backend \union {NoBackend}] /\ req \in [Requests -> Request]
  BY DEF CInv, Types
<1>3. live[id] # NoBackend /\ live'[id].used = live[id].used
  <2>1. CASE At(r).id = id
    <3>1. live[id] # NoBackend BY <1>1, <2>1 DEF Write
    <3>2. live[id] \in Backend BY <1>2, <3>1
    <3> QED BY <1>1, <1>2, <2>1, <3>1, <3>2 DEF Write, CaptureRateLimitHeaders, Backend
  <2>2. CASE At(r).id # id BY <1>1, <1>2, <2>2 DEF Write
  <2> QED BY <2>1, <2>2
<1>4. live[id] \in Backend BY <1>2, <1>3
<1>5. live[id].used \in Nat /\ consumed[id] \in Nat BY <1>4 DEF Backend, CInv, Types
<1>6. Pending(r, id) \in Nat BY PendingTypes
<1>7. Pending(r, id)' = Pending(r, id)
  <2>1. req[r] \in Request BY <1>2
  <2>2. /\ req'[r].tried = req[r].tried /\ req'[r].answer = req[r].answer
        /\ req'[r].phase = "account"
    BY <1>1, <1>2, <2>1 DEF Request
  <2>3. At(r)' = At(r) BY <2>2 DEF At
  <2> QED BY <1>1, <2>2, <2>3 DEF Pending
<1> QED BY <1>1, <1>3, <1>5, <1>6, <1>7 DEF Settles

\* The answer is counted, if its backend is still there.
LEMMA AnswerSettles ==
  ASSUME CInv, CInv', NEW r \in Requests, NEW id \in Ids, live'[id] # NoBackend,
         AnswerNative(r) \/ AnswerTranslated(r)
  PROVE  Settles(r, id)
<1>1. /\ consumed' = consumed /\ req[r].phase = "account"
      /\ \E format : req' = [req EXCEPT ![r].phase = "answered", ![r].body = format]
  BY DEF AnswerNative, AnswerTranslated, upstream, Reply
<1>2. PICK n \in {0, req[r].answer.tokens} : RecordTokens(At(r).id, n)
  BY DEF AnswerNative, AnswerTranslated
<1>3. live \in [Ids -> Backend \union {NoBackend}] /\ req \in [Requests -> Request]
  BY DEF CInv, Types
<1>4. req[r] \in Request BY <1>3
<1>5. req[r].answer.tokens \in Nat BY <1>4 DEF Request, Answer
<1>6. Pending(r, id)' = 0
  <2>1. req'[r].phase = "answered" BY <1>1, <1>3, <1>4 DEF Request
  <2> QED BY <2>1 DEF Pending
<1>7. CASE At(r).id = id
  <2>1. live[id] # NoBackend BY <1>2, <1>7 DEF RecordTokens, Write
  <2>2. live[id] \in Backend BY <1>3, <2>1
  <2>3. live'[id] = [live[id] EXCEPT !.used = @ + n]
    BY <1>2, <1>3, <1>7, <2>1 DEF RecordTokens, Write
  <2>4. live'[id].used = live[id].used + n BY <2>2, <2>3 DEF Backend
  <2>5. live[id].used \in Nat /\ consumed[id] \in Nat BY <2>2 DEF Backend, CInv, Types
  <2>6. Pending(r, id) = req[r].answer.tokens BY <1>1, <1>7 DEF Pending
  <2> QED BY <1>1, <1>2, <1>5, <1>6, <2>1, <2>4, <2>5, <2>6 DEF Settles
<1>8. CASE At(r).id # id
  <2>1. live'[id] = live[id] BY <1>2, <1>3, <1>8 DEF RecordTokens, Write
  <2>2. live[id] \in Backend /\ live[id] # NoBackend BY <1>3, <2>1
  <2>3. live[id].used \in Nat /\ consumed[id] \in Nat BY <2>2 DEF Backend, CInv, Types
  <2>4. Pending(r, id) = 0 BY <1>8 DEF Pending
  <2> QED BY <1>1, <1>6, <2>1, <2>2, <2>3, <2>4 DEF Settles
<1> QED BY <1>7, <1>8

\* All steps of a request that was sent or is routed.
LEMMA AdvanceSettles ==
  ASSUME CInv, CInv', NEW r \in Requests, NEW id \in Ids, live'[id] # NoBackend,
         Advance(r), ~ Select(r)
  PROVE  Settles(r, id)
<1>1. req[r] \in Request /\ req \in [Requests -> Request] BY DEF CInv, Types
<1>2. ASSUME NEW n \in Counts, Serve(r, n) PROVE Settles(r, id) BY <1>2, ServeSettles
<1>3. CASE CaptureRateLimits(r) BY <1>3, CaptureSettles
<1>4. CASE AnswerNative(r) \/ AnswerTranslated(r) BY <1>4, AnswerSettles
<1>5. ASSUME NEW status \in {"retry", "refuse"}, Refuse(r, status) PROVE Settles(r, id)
  <2>1. UNCHANGED <<live, consumed>> BY <1>5 DEF Refuse, registry, upstream
  <2>2. req'[r].answer.tokens = 0 BY <1>1, <1>5 DEF Refuse, Request
  <2> QED BY <2>1, <2>2, QuietSteps
<1>6. CASE Receive(r)
  <2>1. UNCHANGED <<live, consumed>> /\ req[r].phase = "served"
    BY <1>6 DEF Receive, registry, upstream
  <2>2. \E phase : req' = [req EXCEPT ![r].phase = phase] BY <1>6 DEF Receive, Goto
  <2>3. req'[r].tried = req[r].tried /\ req'[r].answer = req[r].answer
    BY <1>1, <2>2 DEF Request
  <2> QED BY <2>1, <2>3, QuietSteps
<1>7. CASE PassOver(r) \/ GiveUp(r) \/ BuildFails(r) \/ Lost(r) \/ StreamEnds(r)
           \/ BodyFails(r) \/ Panic(r) \/ ParseFails(r)
  <2>1. UNCHANGED <<live, consumed>>
    BY <1>7 DEF PassOver, GiveUp, BuildFails, Lost, StreamEnds, BodyFails, Panic,
                ParseFails, registry, upstream
  <2>2. req'[r].phase \in {"route", "failed", "answered", "aborted"}
    <3>1. CASE PassOver(r) BY <1>1, <3>1 DEF PassOver, Request
    <3>2. CASE GiveUp(r) \/ BuildFails(r) \/ BodyFails(r) \/ ParseFails(r)
      <4>1. \E why : req' = [req EXCEPT ![r].phase = "failed", ![r].why = why]
        BY <3>2 DEF GiveUp, BuildFails, BodyFails, ParseFails, Fail
      <4> QED BY <1>1, <4>1 DEF Request
    <3>3. CASE StreamEnds(r)
      <4>1. \E format : req' = [req EXCEPT ![r].phase = "answered", ![r].body = format]
        BY <3>3 DEF StreamEnds, Reply
      <4> QED BY <1>1, <4>1 DEF Request
    <3>4. CASE Lost(r) \/ Panic(r)
      <4>1. \E phase \in {"route", "aborted"} : req' = [req EXCEPT ![r].phase = phase]
        BY <3>4 DEF Lost, Panic, Goto
      <4> QED BY <1>1, <4>1 DEF Request
    <3> QED BY <1>7, <3>1, <3>2, <3>3, <3>4
  <2> QED BY <2>1, <2>2, QuietSteps
<1> QED BY <1>2, <1>3, <1>4, <1>5, <1>6, <1>7, Zenon DEF Advance

-----------------------------------------------------------------------------
LEMMA NInitially == Init => NInv
<1> SUFFICES ASSUME Init, NEW id \in Ids, live[id] # NoBackend
             PROVE  /\ Live0[id] # NoBackend
                    /\ live[id].used + Owed(id) <= Live0[id].used + consumed[id]
  BY DEF NInv
<1>1. live = Live0 /\ consumed[id] = 0 /\ Live0[id] \in Backend BY LiveAssumption DEF Init
<1>2. \A r \in Requests : Pending(r, id) = 0 BY DEF Init, NewRequest, Pending
<1>3. Owed(id) = 0 BY <1>2, NobodyOwes
<1>4. Live0[id].used \in Nat BY <1>1 DEF Backend
<1> QED BY <1>1, <1>3, <1>4

LEMMA NKept == CInv /\ QInv /\ NInv /\ [Next]_vars => NInv'
<1> SUFFICES ASSUME CInv, QInv, NInv, [Next]_vars, NEW id \in Ids, live'[id] # NoBackend
             PROVE  /\ Live0[id] # NoBackend
                    /\ live'[id].used + Owed(id)' <= Live0[id].used + consumed'[id]
  BY DEF NInv
<1>1. CInv' BY CKept
<1>2. req \in [Requests -> Request] BY DEF CInv, Types
<1>3. ASSUME NEW r \in Requests, req' = [req EXCEPT ![r] = req'[r]], Settles(r, id)
      PROVE  /\ Live0[id] # NoBackend
             /\ live'[id].used + Owed(id)' <= Live0[id].used + consumed'[id]
  <2>1. \A s \in Requests \ {r} : Pending(s, id)' = Pending(s, id)
    BY <1>3, OthersKeepPending
  <2> QED BY <1>1, <1>3, <2>1, SettledStepsKeep
<1>4. ASSUME NEW r \in Requests, Advance(r), ~ Select(r)
      PROVE  /\ Live0[id] # NoBackend
             /\ live'[id].used + Owed(id)' <= Live0[id].used + consumed'[id]
  <2>1. req' = [req EXCEPT ![r] = req'[r]] BY <1>4, SameTargets
  <2>2. Settles(r, id) BY <1>1, <1>4, AdvanceSettles
  <2> QED BY <1>3, <2>1, <2>2
<1>5. ASSUME NEW r \in Requests,
             Select(r) \/ Again(r) \/ \E shape \in Shapes : Arrive(r, shape)
      PROVE  /\ Live0[id] # NoBackend
             /\ live'[id].used + Owed(id)' <= Live0[id].used + consumed'[id]
  <2>1. UNCHANGED <<live, consumed>> BY <1>5 DEF Select, Again, Arrive, registry, upstream
  <2>2. /\ req' = [req EXCEPT ![r] = req'[r]]
        /\ req'[r].phase \notin {"served", "body"} /\ req'[r].phase # "account"
    <3>1. CASE Select(r)
      <4>1. req' = [req EXCEPT ![r] = req'[r]] BY <3>1, SelectAddresses
      <4>2. req'[r].phase = "sent" BY <1>2, <3>1 DEF Select, Request
      <4> QED BY <4>1, <4>2
    <3>2. CASE Again(r)
      <4>1. req' = [req EXCEPT ![r] = NewRequest] BY <3>2 DEF Again
      <4>2. req'[r] = NewRequest BY <1>2, <4>1
      <4>3. NewRequest.phase = "new" BY DEF NewRequest
      <4> QED BY <4>1, <4>2, <4>3
    <3>3. ASSUME NEW shape \in Shapes, Arrive(r, shape)
          PROVE  req' = [req EXCEPT ![r] = req'[r]] /\ req'[r].phase \in {"failed", "route"}
      <4>1. req' = [req EXCEPT ![r] = req'[r]] BY <3>3, ArriveAddresses
      <4>2. req[r] \in Request BY <1>2
      <4>3. \/ req' = [req EXCEPT ![r].phase = "failed", ![r].shape = shape,
                                  ![r].why = "no candidate"]
            \/ \E o : req' = [req EXCEPT ![r].phase = "route", ![r].shape = shape,
                                        ![r].offered = o]
        BY <3>3 DEF Arrive
      <4>4. CASE req' = [req EXCEPT ![r].phase = "failed", ![r].shape = shape,
                                    ![r].why = "no candidate"]
        BY ONLY <1>2, <4>1, <4>2, <4>4, r \in Requests DEF Request
      <4>5. CASE \E o : req' = [req EXCEPT ![r].phase = "route", ![r].shape = shape,
                                           ![r].offered = o]
        BY ONLY <1>2, <4>1, <4>2, <4>5, r \in Requests DEF Request
      <4> QED BY <4>3, <4>4, <4>5
    <3> QED BY <1>5, <3>1, <3>2, <3>3
  <2>3. Settles(r, id) BY <1>1, <2>1, <2>2, QuietSteps
  <2> QED BY <1>3, <2>2, <2>3
<1>6. ASSUME /\ req' = req /\ consumed' = consumed
             /\ live[id] # NoBackend /\ live'[id].used = live[id].used
      PROVE  /\ Live0[id] # NoBackend
             /\ live'[id].used + Owed(id)' <= Live0[id].used + consumed'[id]
  <2>1. Owed(id)' = Owed(id) BY <1>6 DEF Owed, Pending, At
  <2> QED BY <1>6, <2>1 DEF NInv
<1>7. ASSUME NEW i \in Ids, Remove(i) \/ \E in \in Edits : Edit(i, in)
      PROVE  /\ req' = req /\ consumed' = consumed
             /\ live[id] # NoBackend /\ live'[id].used = live[id].used
  <2>1. live \in [Ids -> Backend \union {NoBackend}] /\ live[i] # NoBackend
    BY <1>7 DEF CInv, Types, Remove, Edit
  <2>2. req' = req /\ consumed' = consumed BY <1>7 DEF Remove, Edit, upstream
  <2>3. CASE i # id
    <3>1. \E b : live' = [live EXCEPT ![i] = b] BY <1>7 DEF Remove, Edit
    <3>2. live'[id] = live[id] BY <2>1, <2>3, <3>1
    <3> QED BY <2>2, <3>2
  <2>4. CASE i = id
    <3>1. PICK in \in Edits : Edit(id, in) BY <1>7, <2>1, <2>4 DEF Remove
    <3>2. live[id] \in Backend BY <2>1, <2>4
    <3>3. live'[id] = SetRest(SetEndpoint(live[id], in), in) BY <2>1, <3>1 DEF Edit
    <3>4. live'[id].used = live[id].used
      BY <3>2, <3>3 DEF SetRest, SetEndpoint, Backend
    <3> QED BY <2>1, <2>2, <2>4, <3>4
  <2> QED BY <2>3, <2>4
<1>8. CASE SnapshotRefresh \/ UNCHANGED vars \/ \E e \in Endpoints : Renew(e)
  <2>1. req' = req /\ consumed' = consumed /\ live' = live
    BY <1>8 DEF SnapshotRefresh, Renew, vars, registry, upstream
  <2> QED BY <1>6, <2>1
<1>9. CASE \E i \in Ids : Remove(i) \/ \E in \in Edits : Edit(i, in)
  BY <1>6, <1>7, <1>9
<1>10. ASSUME NEW r \in Requests,
              Advance(r) \/ Again(r) \/ \E shape \in Shapes : Arrive(r, shape)
       PROVE  /\ Live0[id] # NoBackend
              /\ live'[id].used + Owed(id)' <= Live0[id].used + consumed'[id]
  BY <1>4, <1>5, <1>10
<1> QED BY <1>8, <1>9, <1>10, Zenon DEF Next

(***************************************************************************)
(* Whatever is retried, lost, edited or captured out of order, no answer   *)
(* is counted for a backend twice (handler.go:274, 310).                   *)
(***************************************************************************)
THEOREM NothingIsCountedTwice == Spec => []NeverOvercounted
<1>1. CInv /\ NInv => NeverOvercounted
  <2> SUFFICES ASSUME CInv, NInv, NEW id \in Ids, live[id] # NoBackend
               PROVE  live[id].used - Live0[id].used <= consumed[id]
    BY DEF NeverOvercounted
  <2>1. Live0[id] # NoBackend /\ live[id].used + Owed(id) <= Live0[id].used + consumed[id]
    BY DEF NInv
  <2>2. live[id] \in Backend /\ Live0[id] \in Backend
    BY <2>1, LiveAssumption DEF CInv, Types
  <2>3. live[id].used \in Nat /\ Live0[id].used \in Nat /\ consumed[id] \in Nat
    BY <2>2 DEF Backend, CInv, Types
  <2>4. Owed(id) \in Nat
    <3> DEFINE f == [r \in Requests |-> Pending(r, id)]
    <3>1. \A r \in Requests : Pending(r, id) \in Nat BY PendingTypes
    <3>2. f \in [Requests -> Int] /\ \A r \in Requests : f[r] >= 0 BY <3>1
    <3>3. Requests \in SUBSET Requests /\ IsFiniteSet(Requests) BY RequestsAssumption
    <3> HIDE DEF f
    <3>4. SumFunctionOnSet(f, Requests) \in Nat BY <3>2, <3>3, SumOfNaturals
    <3> QED BY <3>4 DEF Owed, f
  <2> QED BY <2>1, <2>3, <2>4
<1>2. Init => CInv /\ QInv /\ NInv BY CInitially, QInitially, NInitially
<1>3. (CInv /\ QInv /\ NInv) /\ [Next]_vars => (CInv /\ QInv /\ NInv)' BY CKept, QKept, NKept
<1> QED BY <1>1, <1>2, <1>3, PTL DEF Spec
=============================================================================
