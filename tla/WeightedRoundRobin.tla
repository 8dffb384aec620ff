------------------------- MODULE WeightedRoundRobin -------------------------
(***************************************************************************)
(* The smooth weighted round robin strategy (internal/strategy/            *)
(* strategy.go).  One instance serves every model and both cost tiers, so  *)
(* the slice of active backends it is called with changes from call to     *)
(* call; the current weights of the backends that are not in the slice     *)
(* stay as they are.  Select holds the mutex, so a call is one step.       *)
(***************************************************************************)
EXTENDS Integers, FiniteSets, Functions

CONSTANTS
  Ids,      \* backend identifiers
  Order,    \* their positions in the slices (an index keeps insertion order)
  Weight,   \* their configured weights
  Pools,    \* the sets of active backends Select is called with
  Nil,      \* no backend
  MaxCalls  \* BOUND: calls counted since the slice last changed

ASSUME IdsAssumption    == IsFiniteSet(Ids)
ASSUME OrderAssumption  == /\ Order \in [Ids -> Nat]
                           /\ \A i, j \in Ids : Order[i] = Order[j] => i = j
ASSUME WeightAssumption == Weight \in [Ids -> Int]
ASSUME PoolsAssumption  == Pools \subseteq (SUBSET Ids) \ {{}}
ASSUME NilAssumption    == Nil \notin Ids
ASSUME BoundAssumption  == MaxCalls \in Nat \ {0}

VARIABLES
  current,  \* id -> wrrState.currentWeight, 0 before the first call
  selected, \* what the last call returned
  pool,     \* HISTORY: the pool of the last call
  calls,    \* HISTORY: calls since the pool last changed, the last one included
  picks,    \* HISTORY: id -> how often one of these returned it
  constant, \* HISTORY: whether the pool never changed
  refused   \* HISTORY: calls in a row that returned nothing

vars == <<current, selected, pool, calls, picks, constant, refused>>

Nobody == [id \in Ids |-> 0]

\* A weight that is not positive counts as one.
W(id) == IF Weight[id] <= 0 THEN 1 ELSE Weight[id]

Weights == [id \in Ids |-> W(id)]

Total(ids) == SumFunctionOnSet(Weights, ids)

Init ==
  /\ current = [id \in Ids |-> 0]
  /\ selected = Nil
  /\ pool = {}
  /\ calls = 0
  /\ picks = Nobody
  /\ constant = TRUE
  /\ refused = 0

-----------------------------------------------------------------------------
\* Every member of the pool gains its weight.  The pool is never empty here.
Raised(p) == [id \in Ids |-> IF id \in p THEN current[id] + W(id) ELSE current[id]]

\* Mutant: the scan ranges over every backend ever seen, not over the slice.
WinnersAny(p, raised) ==
  {id \in Ids :
     /\ raised[id] > -1
     /\ \A j \in Ids :
          raised[j] < raised[id] \/ (raised[j] = raised[id] /\ Order[id] <= Order[j])}

\* The scan starts from maxWeight = -1 and moves only to a greater weight: the
\* first of the greatest wins, and nobody does if all are negative.
Winners(p, raised) ==
  {id \in p :
     /\ raised[id] > -1
     /\ \A j \in p :
          raised[j] < raised[id] \/ (raised[j] = raised[id] /\ Order[id] <= Order[j])}

Record(p, winner) ==
  LET before == IF p = pool THEN picks ELSE Nobody
  IN  /\ selected' = winner
      /\ pool' = p
      /\ calls' = IF p = pool THEN calls + 1 ELSE 1
      /\ picks' = IF winner = Nil THEN before ELSE [before EXCEPT ![winner] = @ + 1]
      /\ constant' = (constant /\ pool \in {{}, p})
      /\ refused' = IF winner = Nil THEN refused + 1 ELSE 0

\* Mutant: plain round robin weights, the winner pays only its own.
SelectOwn(p) ==
  LET raised == Raised(p)
  IN  IF Winners(p, raised) = {}
      THEN current' = raised /\ Record(p, Nil)
      ELSE \E id \in Winners(p, raised) :
             /\ current' = [raised EXCEPT ![id] = @ - W(id)]
             /\ Record(p, id)

\* Mutant: a call that returns nothing leaves the weights alone.
SelectStuck(p) ==
  LET raised == Raised(p)
  IN  IF Winners(p, raised) = {}
      THEN current' = current /\ Record(p, Nil)
      ELSE \E id \in Winners(p, raised) :
             /\ current' = [raised EXCEPT ![id] = @ - Total(p)]
             /\ Record(p, id)

\* The winner pays the total weight of the pool.
Select(p) ==
  LET raised == Raised(p)
  IN  IF Winners(p, raised) = {}
      THEN current' = raised /\ Record(p, Nil)
      ELSE \E id \in Winners(p, raised) :
             /\ current' = [raised EXCEPT ![id] = @ - Total(p)]
             /\ Record(p, id)

Next == \E p \in Pools : (p = pool => calls < MaxCalls) /\ Select(p)

Spec == Init /\ [][Next]_vars

-----------------------------------------------------------------------------
\* Types; and what was returned is a member of the slice.
TypeOK ==
  /\ current \in [Ids -> Int]
  /\ selected \in pool \union {Nil}
  /\ pool \subseteq Ids
  /\ calls \in 0..MaxCalls
  /\ picks \in [Ids -> 0..MaxCalls]
  /\ constant \in BOOLEAN
  /\ refused \in Nat

\* What a backend's weight entitles it to, less what it got.
Due(id) == calls * W(id) - picks[id] * Total(pool)

(***************************************************************************)
(* "Smooth WRR (avoids burst)" (README.md:28): a backend of the slice is   *)
(* never returned a whole call more often than its weight entitles it to,  *)
(* if the slice was always the same.                                       *)
(***************************************************************************)
NotAhead == constant => \A id \in pool : Due(id) > - Total(pool)

(***************************************************************************)
(* Nor does it wait for ever: what it is due stays below a bound, so that  *)
(* its part of the calls approaches its part of the weight, whatever the   *)
(* weights are.                                                            *)
(***************************************************************************)
NotStarved ==
  constant => \A id \in pool : Due(id) <= (Cardinality(pool) - 1) * (Total(pool) - 1)

(***************************************************************************)
(* And, for the weights of the run, never as much as one call less often,  *)
(* nor more than the debts add that other slices may leave.  (This is not  *)
(* so for all weights: of five backends with the weights 17, 1, 5, 38 and  *)
(* 38 one waits longer.)                                                   *)
(***************************************************************************)
Smooth ==
  \A id \in pool :
    LET slack == IF constant THEN Total(pool) ELSE Total(pool) + Total(Ids)
    IN  - slack < Due(id) /\ Due(id) < slack

(***************************************************************************)
(* However the slice changes, a backend's debt is never deeper than the    *)
(* weight of all backends; so one slice is refused no more often in a row  *)
(* than that, although a backend is active, and slices called in turns no  *)
(* more often than all debts together allow.  ("Returns nil if none are    *)
(* available", strategy.go:18, does not say that there are such calls.)    *)
(***************************************************************************)
RefusalsEnd ==
  /\ \A id \in Ids : current[id] >= - Total(Ids)
  /\ refused <= Total(Ids) \/ calls <= Total(Ids)
  /\ refused <= Cardinality(Ids) * Total(Ids)
=============================================================================
