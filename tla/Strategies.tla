----------------------------- MODULE Strategies -----------------------------
(***************************************************************************)
(* The strategies that remember something between calls (internal/         *)
(* strategy/strategy.go): smooth weighted round robin (module              *)
(* WeightedRoundRobin), round robin with its counter, and the two that     *)
(* read the runtime statistics of the backends (internal/backend/          *)
(* backend.go): least latency and adaptive.  A behaviour is about one of   *)
(* them, chosen at the start; its one instance is called with one slice    *)
(* after the other.                                                        *)
(*                                                                         *)
(* A latency is a whole number of time units, as a Duration is; an error   *)
(* rate is a whole number of parts of Precision, rounded down.  Like the   *)
(* floating-point rate of the code, it never quite reaches one.            *)
(***************************************************************************)
EXTENDS WeightedRoundRobin, FiniteSetsExt

CONSTANTS
  Names,      \* the strategies that behaviours are about
  Counters,   \* the values of round robin's counter, 2^64 in the code
  Slow, Fast, \* the latency of an answer, and of a refused connection
  Precision,  \* BOUND: parts of an error rate
  MaxResults, \* BOUND: results recorded
  Scored,     \* BOUND: the slices these two are called with
  MaxTurns,   \* BOUND: how often a backend breaks down or comes back
  Enough      \* id -> failures of it in a row that adaptive does not overlook

ASSUME CountersAssumption == Counters \in Nat \ {0}
ASSUME LatencyAssumption == Slow \in Nat \ {0} /\ Fast \in Nat \ {0}
\* Fine enough for one failure to show.
ASSUME PrecisionAssumption == Precision \in Nat /\ Precision >= 4 /\ MaxResults \in Nat
ASSUME ScoredAssumption == Scored \subseteq Pools /\ Scored # {} /\ MaxTurns \in Nat

\* The average after a slow answer.  Two bring it past half of what they took,
\* as they do for every latency of 105 units or more, and for some below.
Slower(l) == (7 * l + 3 * Slow) \div 10

ASSUME SlowAssumption == \A l \in 1..Slow : 2 * Slower(Slower(l)) > Slow

\* The error rate after a failure, and after so many in a row, from none on.
Worse == [e \in Nat |-> (7 * e + 3 * Precision) \div 10]

Rate[n \in Nat] == IF n = 0 THEN 0 ELSE Worse[Rate[n - 1]]

\* No average latency is longer than this, and no measured one shorter.
Longest  == IF Slow < Fast THEN Fast ELSE Slow
Shortest == (3 * (IF Slow < Fast THEN Slow ELSE Fast)) \div 10

\* After that many failures a backend's score is below that of any other that
\* answers and does not fail, whatever their latencies are.
ASSUME EnoughAssumption ==
  /\ Enough \in [Ids -> Nat]
  /\ \A i, j \in Ids : i # j =>
       W(i) * (Precision - Rate[Enough[i]]) * Longest < W(j) * Precision * Shortest

VARIABLES
  name,       \* the strategy
  counter,    \* RoundRobin.counter
  runtime,    \* id -> EWMALatency and ErrorRate
  down,       \* EXTERNAL: the backends that refuse connections
  turns,      \* HISTORY: how often that changed
  results,    \* HISTORY: results recorded
  streak      \* HISTORY: results in a row that spoke for another member of the
              \* slice: failures while it had answered and never failed, or,
              \* for least latency, slow answers while it was at most half as slow

wrrVars == vars
memory == <<counter, runtime, results, streak>>
world == <<down, turns>>
strategyVars == <<wrrVars, name, memory, world>>

Fresh == [latency |-> 0, errors |-> 0]

StrategiesInit ==
  /\ Init
  /\ name \in Names
  /\ counter = 0
  /\ runtime = [id \in Ids |-> Fresh]
  /\ down = {} /\ turns = 0
  /\ results = 0
  /\ streak = 0

-----------------------------------------------------------------------------
\* The member of the slice that stands at a position, from zero.
Member(p, k) ==
  CHOOSE id \in p : Cardinality({j \in p : Order[j] < Order[id]}) = k

\* Mutant: the counter is taken modulo the number of all backends.
NthOfAll(p, n) ==
  LET i == n % Cardinality(Ids) IN  Member(p, IF i < Cardinality(p) THEN i ELSE 0)

\* The member of the slice a counter points to.
Nth(p, n) == Member(p, n % Cardinality(p))

\* counter.Add returns the new value, and wraps around.
SelectRoundRobin(p) ==
  /\ counter' = (counter + 1) % Counters
  /\ current' = current
  /\ Record(p, Nth(p, counter'))
  /\ UNCHANGED <<name, runtime, results, streak, world>>

-----------------------------------------------------------------------------
(* Least latency and adaptive                                              *)

Measured(p) == {id \in p : runtime[id].latency > 0}

\* Mutant: a backend without a measured latency is not set aside.
QuickestOfAll(p) ==
  {i \in p : \A j \in p : \/ runtime[i].latency < runtime[j].latency
                          \/ runtime[i].latency = runtime[j].latency /\ Order[i] <= Order[j]}

\* Mutant: the comparison of the two latencies is the other way round.
QuickestSwapped(p) ==
  IF Measured(p) = {} THEN p
  ELSE {i \in Measured(p) : \A j \in Measured(p) :
          \/ runtime[i].latency > runtime[j].latency
          \/ runtime[i].latency = runtime[j].latency /\ Order[i] <= Order[j]}

\* The first of the measured ones with the lowest average, or, when nothing is
\* measured, any.
Quickest(p) ==
  IF Measured(p) = {} THEN p
  ELSE {i \in Measured(p) : \A j \in Measured(p) :
          \/ runtime[i].latency < runtime[j].latency
          \/ runtime[i].latency = runtime[j].latency /\ Order[i] <= Order[j]}

\* The least measured latency of the slice, or a fallback.
MinLatency(p) ==
  IF Measured(p) = {} THEN 1 ELSE Min({runtime[id].latency : id \in Measured(p)})

\* What is not measured counts as the fastest.
LatencyOf(p, id) ==
  IF runtime[id].latency = 0 THEN MinLatency(p) ELSE runtime[id].latency

\* Mutant: the error rate is left out.
BeatsByLatency(p, i, j) == W(i) * LatencyOf(p, j) > W(j) * LatencyOf(p, i)

\* Score(i) > Score(j), without the division.
Beats(p, i, j) ==
  W(i) * (Precision - runtime[i].errors) * LatencyOf(p, j)
    > W(j) * (Precision - runtime[j].errors) * LatencyOf(p, i)

\* The first of those with the best score.
Best(p) ==
  {i \in p : \A j \in p : ~ Beats(p, j, i) /\ (Order[j] < Order[i] => Beats(p, i, j))}

\* Runtime.RecordResult, with a smoothing factor of three tenths.
RecordResult(rt, latency, isError) ==
  [ latency |-> (7 * rt.latency + 3 * latency) \div 10,
    errors  |-> IF isError THEN Worse[rt.errors] ELSE (7 * rt.errors) \div 10 ]

\* The request is sent to the winner and its result recorded before the next one.
\* What speaks for another member of the slice continues the streak.
CallBackend(p, id, another) ==
  /\ results < MaxResults
  /\ runtime' = [runtime EXCEPT ![id] =
       RecordResult(@, IF id \in down THEN Fast ELSE Slow, id \in down)]
  /\ streak' = IF another THEN streak + 1 ELSE 0
  /\ selected' = id
  /\ pool' = p
  /\ results' = results + 1
  /\ UNCHANGED <<current, calls, picks, constant, refused, name, counter, world>>

\* Another member of the slice has answered, and it has never failed.
Proven(p, id) == \E j \in Measured(p) \ {id} : runtime[j].errors = 0

SelectAdaptive(p) ==
  \E id \in Best(p) : CallBackend(p, id, id \in down /\ Proven(p, id))

\* Another member of the slice takes at most half the time.
Twice(p, id) == \E j \in Measured(p) \ {id} : 2 * runtime[j].latency <= Slow

SelectLeastLatency(p) ==
  \E id \in Quickest(p) : CallBackend(p, id, id \notin down /\ Twice(p, id))

\* A backend breaks down or comes back.
Turn(id) ==
  /\ name \in {"adaptive", "least_latency"} /\ turns < MaxTurns
  /\ down' = IF id \in down THEN down \ {id} ELSE down \union {id}
  /\ turns' = turns + 1
  /\ UNCHANGED <<wrrVars, name, memory>>

-----------------------------------------------------------------------------
Call(p) ==
  \/ name = "weighted_round_robin" /\ Select(p) /\ UNCHANGED <<name, memory, world>>
  \/ name = "round_robin" /\ SelectRoundRobin(p)
  \/ name = "adaptive" /\ p \in Scored /\ SelectAdaptive(p)
  \/ name = "least_latency" /\ p \in Scored /\ SelectLeastLatency(p)

StrategiesNext ==
  \/ \E p \in Pools : (p = pool => calls < MaxCalls) /\ Call(p)
  \/ \E id \in Ids : Turn(id)

StrategiesSpec == StrategiesInit /\ [][StrategiesNext]_strategyVars

-----------------------------------------------------------------------------
\* Types; and no error rate reaches one.
StrategiesTypeOK ==
  /\ TypeOK
  /\ name \in Names
  /\ counter \in 0..(Counters - 1)
  /\ runtime \in [Ids -> [latency : Nat, errors : 0..(Precision - 1)]]
  /\ down \subseteq Ids /\ turns \in 0..MaxTurns
  /\ results \in 0..MaxResults
  /\ streak \in 0..results

(***************************************************************************)
(* Weighted round robin avoids bursts (README.md:28): as long as the slice *)
(* stays the same nobody is a whole call ahead of its share.               *)
(***************************************************************************)
NeverAheadWRR == name = "weighted_round_robin" => NotAhead

(***************************************************************************)
(* Nor starved: how far a backend falls behind its share does not grow     *)
(* with the number of calls.                                               *)
(***************************************************************************)
NobodyStarvesWRR == name = "weighted_round_robin" => NotStarved

(***************************************************************************)
(* Nor, for the weights of the run, as much behind it: "Smooth WRR"        *)
(* (README.md:28).                                                         *)
(***************************************************************************)
SmoothWRR == name = "weighted_round_robin" => Smooth

(***************************************************************************)
(* "Atomic counter mod N" (README.md:26): as long as the slice stays the   *)
(* same, no member of it is ahead of another by more than one call, or by  *)
(* more than two once the counter has wrapped around, which a slice whose  *)
(* length does not divide the counter's range makes uneven.  Calls for     *)
(* another model or tier in between take their numbers from the same       *)
(* counter: nothing of the kind holds for them.                            *)
(***************************************************************************)
Even ==
  (name = "round_robin" /\ calls <= Counters) =>
    \A i, j \in pool :
      picks[i] - picks[j] <= IF counter < calls /\ Counters % Cardinality(pool) # 0
                             THEN 2 ELSE 1

(***************************************************************************)
(* "Score = weight x (minLatency/latency) x (1-errorRate)" (README.md:31): *)
(* a backend that fails fast looks fast, and has the best score for it;    *)
(* its error rate still turns the requests away from it.  As long as       *)
(* another member of the slice has answered and never failed, failures in  *)
(* a row, of whichever backends and for whichever slices, are no more than *)
(* is Enough for each backend but one.                                     *)
(***************************************************************************)
FailuresAreNoticed ==
  name = "adaptive" => \E id \in Ids : streak <= SumFunctionOnSet(Enough, Ids \ {id})

(***************************************************************************)
(* "Lowest EWMA latency" (README.md:30), seen from its two ends.  A        *)
(* backend that has become slow is left, although its average rises only   *)
(* by three tenths of the difference with each answer: each slice adds one *)
(* measured backend, and none of these takes more than two slow answers    *)
(* while another member of the slice has half the latency, the last none.  *)
(***************************************************************************)
SlowIsLeft == name = "least_latency" => streak < 2 * Cardinality(Scored)

(***************************************************************************)
(* And a backend that was never called is called only by a slice none of   *)
(* whose members was: each slice gives one backend its first call, however *)
(* slow that one turns out, and the others wait for ever (strategy.go:221).*)
(***************************************************************************)
OneTrialPerSlice ==
  name = "least_latency" => Cardinality(Measured(Ids)) <= Cardinality(Scored)
=============================================================================
