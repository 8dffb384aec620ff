--------------------------- MODULE StrategiesProofs ---------------------------
(***************************************************************************)
(* What the strategies promise for all weights, slices and numbers of      *)
(* calls.                                                                  *)
(***************************************************************************)
EXTENDS Strategies, Sums

wrr == name = "weighted_round_robin"

\* What a backend with a current weight owes, and what all of them do.
Debt(c) == [id \in Ids |-> IF c[id] < 0 THEN - c[id] ELSE 0]
Debts(c) == SumFunctionOnSet(Debt(c), Ids)

\* The other strategies neither weigh nor refuse.
Idle == ~ wrr => current = Nobody /\ refused = 0

\* How far refusals can go: each refused call pays back something of the debts,
\* and a slice refused k times in a row owes k less than it may.
Refusing ==
  /\ \A id \in Ids : current[id] >= - Total(Ids)
  /\ refused + Debts(current) <= Cardinality(Ids) * Total(Ids)
  /\ (refused > 0 /\ calls > 0) =>
       \A id \in pool :
         /\ current[id] < 0
         /\ current[id] >= refused - Total(Ids) \/ current[id] >= calls - Total(Ids)

\* As long as the slice stays the same, a current weight is what the backend is
\* due, and the weights cancel out, so that nobody is refused.
Balanced ==
  (wrr /\ constant) =>
    /\ SumFunctionOnSet(current, pool) = 0
    /\ \A id \in pool : current[id] = Due(id) /\ current[id] > - Total(pool)
    /\ \A id \in Ids \ pool : current[id] = 0 /\ picks[id] = 0

Rank(p, id) == Cardinality({j \in p : Order[j] < Order[id]})

\* How many of the numbers 0..x leave the remainder r modulo n.
Hits(x, r, n) == (x + n - r) \div n

\* The values of a counter's last calls, whether it wrapped around or not.
Window(cnt, cl, r, n) ==
  IF cnt >= cl THEN Hits(cnt, r, n) - Hits(cnt - cl, r, n)
  ELSE Hits(cnt, r, n) + Hits(Counters - 1, r, n) - Hits(cnt - cl + Counters, r, n)

\* Round robin's calls for the slice used the last values of its counter.
Counted ==
  (name = "round_robin" /\ calls <= Counters) =>
    \A id \in pool :
      picks[id] = Window(counter, calls, Rank(pool, id), Cardinality(pool))

\* The slices that a measured backend is in.
Tried == {p \in Scored : p \cap Measured(Ids) # {}}

FirstTrials ==
  name = "least_latency" => Cardinality(Measured(Ids)) <= Cardinality(Tried)

\* Calls are counted for a slice, and no pick without a call.
CallsHavePools ==
  /\ calls > 0 => pool # {}
  /\ calls = 0 => picks = Nobody
  /\ (calls = 0 /\ name \in {"weighted_round_robin", "round_robin"}) => pool = {}
  /\ \A id \in Ids : picks[id] <= calls

STypes == StrategiesTypeOK /\ CallsHavePools

-----------------------------------------------------------------------------
-----------------------------------------------------------------------------
(* Weights and ranks                                                       *)

LEMMA WeightFacts ==
  /\ Weights \in [Ids -> Int]
  /\ \A id \in Ids : W(id) \in Nat /\ W(id) >= 1 /\ Weights[id] = W(id)
BY WeightAssumption DEF W, Weights

LEMMA TotalFacts ==
  ASSUME NEW p \in SUBSET Ids
  PROVE  /\ IsFiniteSet(p) /\ Total(p) \in Nat /\ Total(p) <= Total(Ids)
         /\ \A id \in p : W(id) <= Total(p)
         /\ p # {} => Total(p) >= 1
<1>1. IsFiniteSet(p) BY IdsAssumption, FS_Subset
<1>2. \A s \in SUBSET Ids : Total(s) \in Nat
  <2>1. ASSUME NEW s \in SUBSET Ids PROVE Total(s) \in Nat
    <3>1. IsFiniteSet(s) BY IdsAssumption, FS_Subset
    <3>2. \A x \in s : Weights[x] >= 0 BY WeightFacts
    <3> QED BY <3>1, <3>2, WeightFacts, SumOfNaturals DEF Total
  <2> QED BY <2>1
<1>3. Total(p) <= Total(Ids)
  <2>1. \A x \in Ids : Weights[x] >= 0 BY WeightFacts
  <2> QED BY <2>1, WeightFacts, IdsAssumption, SumOfPart DEF Total
<1>4. ASSUME NEW id \in p PROVE W(id) <= Total(p)
  <2>1. Total(p) = Weights[id] + Total(p \ {id})
    BY <1>1, WeightFacts, SumWithout DEF Total
  <2>2. Total(p \ {id}) \in Nat /\ Total(p) \in Nat BY <1>2
  <2> QED BY <2>1, <2>2, WeightFacts
<1>5. p # {} => Total(p) >= 1
  <2>1. ASSUME NEW id \in p PROVE Total(p) >= 1 BY <1>2, <1>4, WeightFacts
  <2> QED BY <2>1
<1> QED BY <1>1, <1>2, <1>3, <1>4, <1>5

\* One of the greatest values of a function comes first in the order.
LEMMA FirstOfTheGreatest ==
  ASSUME NEW f \in [Ids -> Int], NEW p \in SUBSET Ids, p # {}
  PROVE  \E id \in p : \A j \in p :
           f[j] < f[id] \/ (f[j] = f[id] /\ Order[id] <= Order[j])
<1> DEFINE First(s) == \E id \in s : \A j \in s :
             f[j] < f[id] \/ (f[j] = f[id] /\ Order[id] <= Order[j])
           F == {s \in SUBSET p : s = {} \/ First(s)}
<1>1. {} \in F OBVIOUS
<1>2. ASSUME NEW s \in SUBSET p, s # {}, \A x \in s : s \ {x} \in F PROVE First(s)
  <2>1. PICK x : x \in s BY <1>2
  <2>2. CASE s \ {x} = {}
    <3>1. \A j \in s : j = x BY <2>2
    <3>2. f[x] \in Int /\ Order[x] \in Nat BY <2>1, OrderAssumption
    <3> QED BY <2>1, <3>1, <3>2
  <2>3. CASE s \ {x} # {}
    <3>1. First(s \ {x}) BY <1>2, <2>1, <2>3
    <3>2. PICK y \in s \ {x} : \A j \in s \ {x} :
            f[j] < f[y] \/ (f[j] = f[y] /\ Order[y] <= Order[j])
      BY <3>1
    <3>3. \A j \in s : f[j] \in Int /\ Order[j] \in Nat BY OrderAssumption
    <3>4. CASE f[x] < f[y] \/ (f[x] = f[y] /\ Order[y] <= Order[x])
      BY <3>2, <3>4
    <3>5. CASE ~ (f[x] < f[y] \/ (f[x] = f[y] /\ Order[y] <= Order[x]))
      <4>1. f[y] < f[x] \/ (f[y] = f[x] /\ Order[x] <= Order[y])
        BY <2>1, <3>2, <3>3, <3>5
      <4>2. ASSUME NEW j \in s
            PROVE  f[j] < f[x] \/ (f[j] = f[x] /\ Order[x] <= Order[j])
        <5>1. CASE j = x BY <3>3, <5>1
        <5>2. CASE j # x BY <2>1, <3>2, <3>3, <4>1, <5>2
        <5> QED BY <5>1, <5>2
      <4> QED BY <2>1, <4>2
    <3> QED BY <3>4, <3>5
  <2> QED BY <2>2, <2>3
<1>3. p \in F
  <2>1. \A s \in SUBSET p : (s # {} /\ \A x \in s : s \ {x} \in F) => s \in F BY <1>2
  <2>2. IsFiniteSet(p) BY IdsAssumption, FS_Subset
  <2> HIDE DEF F
  <2> QED BY <1>1, <2>1, <2>2, FiniteInductive
<1> QED BY <1>3

\* Nobody wins a call only if all weights are negative.
LEMMA NobodyWins ==
  ASSUME NEW raised \in [Ids -> Int], NEW p \in SUBSET Ids, p # {},
         Winners(p, raised) = {}
  PROVE  \A id \in p : raised[id] < 0
<1>1. PICK id \in p : \A j \in p :
        raised[j] < raised[id] \/ (raised[j] = raised[id] /\ Order[id] <= Order[j])
  BY FirstOfTheGreatest
<1>2. ~ (raised[id] > -1) BY <1>1 DEF Winners
<1> QED BY <1>1, <1>2

\* The positions in a slice are numbered from zero.
LEMMA RankFacts ==
  ASSUME NEW p \in SUBSET Ids
  PROVE  /\ Cardinality(p) \in Nat
         /\ \A id \in p : Rank(p, id) \in 0..(Cardinality(p) - 1)
         /\ \A i, j \in p : Rank(p, i) = Rank(p, j) => i = j
<1> DEFINE Before(id) == {j \in p : Order[j] < Order[id]}
<1>1. IsFiniteSet(p) /\ Cardinality(p) \in Nat
  BY IdsAssumption, FS_Subset, FS_CardinalityType
<1>2. \A id \in p : Order[id] \in Nat BY OrderAssumption
<1>3. ASSUME NEW s \in SUBSET p, NEW x \in p \ s
      PROVE  /\ Cardinality(s) \in Nat /\ Cardinality(p) > Cardinality(s)
  <2>1. IsFiniteSet(s) /\ Cardinality(s) <= Cardinality(p)
        /\ (Cardinality(s) = Cardinality(p) => s = p)
    BY <1>1, FS_Subset
  <2> QED BY <1>1, <2>1, FS_CardinalityType
<1>4. ASSUME NEW id \in p PROVE Rank(p, id) \in 0..(Cardinality(p) - 1)
  <2>1. Before(id) \in SUBSET p /\ id \in p \ Before(id) BY <1>2
  <2>2. Cardinality(Before(id)) \in Nat /\ Cardinality(p) > Cardinality(Before(id))
    BY <1>3, <2>1
  <2> QED BY <1>1, <2>2 DEF Rank
<1>5. ASSUME NEW i \in p, NEW j \in p, Order[i] < Order[j]
      PROVE  Rank(p, i) < Rank(p, j)
  <2>1. Before(i) \in SUBSET Before(j) /\ i \in Before(j) \ Before(i)
    BY <1>2, <1>5
  <2>2. IsFiniteSet(Before(j)) /\ Cardinality(Before(j)) \in Nat
    BY <1>1, FS_Subset, FS_CardinalityType
  <2>3. /\ IsFiniteSet(Before(i)) /\ Cardinality(Before(i)) <= Cardinality(Before(j))
        /\ (Cardinality(Before(i)) = Cardinality(Before(j)) => Before(i) = Before(j))
    <3> HIDE DEF Before
    <3> QED BY <2>1, <2>2, FS_Subset
  <2>4. Cardinality(Before(i)) \in Nat BY <2>3, FS_CardinalityType
  <2>5. Cardinality(Before(i)) < Cardinality(Before(j))
    <3> HIDE DEF Before
    <3> QED BY <2>1, <2>2, <2>3, <2>4
  <2> QED BY <2>5 DEF Rank
<1>6. ASSUME NEW i \in p, NEW j \in p, Rank(p, i) = Rank(p, j) PROVE i = j
  <2>1. Rank(p, i) \in Int BY <1>4
  <2>2. ~ (Order[i] < Order[j]) /\ ~ (Order[j] < Order[i]) BY <1>5, <1>6, <2>1
  <2> QED BY <1>2, <2>2, OrderAssumption
<1> QED BY <1>1, <1>4, <1>6

\* So there is a member at each position of a slice.
LEMMA MemberFacts ==
  ASSUME NEW p \in SUBSET Ids, NEW k \in 0..(Cardinality(p) - 1)
  PROVE  Member(p, k) \in p /\ Rank(p, Member(p, k)) = k
<1> DEFINE n == Cardinality(p)
           rank == [id \in p |-> Rank(p, id)]
<1>1. IsFiniteSet(p) /\ n \in Nat BY IdsAssumption, FS_Subset, RankFacts
<1>2. rank \in Injection(p, 0..(n - 1))
  BY RankFacts DEF Injection, IsInjective
<1>3. IsFiniteSet(0..(n - 1)) /\ Cardinality(0..(n - 1)) = n
  <2> HIDE DEF n
  <2>1. 0 \in Int /\ n - 1 \in Int BY <1>1
  <2> QED BY <1>1, <2>1, FS_Interval
<1>4. rank \in Surjection(p, 0..(n - 1))
  <2> HIDE DEF rank
  <2> QED BY <1>1, <1>2, <1>3, FS_Injection
<1>5. \E id \in p : rank[id] = k BY <1>4 DEF Surjection
<1>6. \E id \in p : Cardinality({j \in p : Order[j] < Order[id]}) = k
  BY <1>5 DEF Rank
<1> QED BY <1>6 DEF Member, Rank

-----------------------------------------------------------------------------
\* Recording a call of the first two strategies.
LEMMA RecordTypes ==
  ASSUME STypes, NEW p \in Pools, p = pool => calls < MaxCalls,
         NEW winner \in p \union {Nil}, Record(p, winner)
  PROVE  /\ selected' \in pool' \union {Nil} /\ pool' \subseteq Ids /\ pool' # {}
         /\ calls' \in 0..MaxCalls /\ calls' > 0
         /\ picks' \in [Ids -> 0..MaxCalls] /\ \A id \in Ids : picks'[id] <= calls'
         /\ constant' \in BOOLEAN /\ refused' \in Nat
<1> USE DEF STypes, StrategiesTypeOK, TypeOK, CallsHavePools
<1>1. p \subseteq Ids /\ p # {} BY PoolsAssumption
<1>2. calls' \in 0..MaxCalls /\ calls' > 0 BY BoundAssumption DEF Record
<1> DEFINE before == IF p = pool THEN picks ELSE Nobody
<1>3. before \in [Ids -> 0..MaxCalls] /\ \A id \in Ids : before[id] < calls'
  BY BoundAssumption DEF Record, Nobody
<1>4. picks' = IF winner = Nil THEN before ELSE [before EXCEPT ![winner] = @ + 1]
  BY DEF Record
<1> HIDE DEF before
<1>5. picks' \in [Ids -> 0..MaxCalls] /\ \A id \in Ids : picks'[id] <= calls'
  <2>1. CASE winner = Nil BY <1>2, <1>3, <1>4, <2>1, BoundAssumption
  <2>2. CASE winner # Nil
    <3>1. winner \in Ids BY <1>1, <2>2
    <3>2. picks' = [before EXCEPT ![winner] = before[winner] + 1] BY <1>4, <2>2
    <3>3. \A id \in Ids : picks'[id] \in 0..MaxCalls /\ picks'[id] <= calls'
      BY <1>2, <1>3, <3>1, <3>2, BoundAssumption
    <3> QED BY <1>3, <3>2, <3>3
  <2> QED BY <2>1, <2>2
<1>6. constant' \in BOOLEAN /\ refused' \in Nat BY DEF Record
<1>7. selected' \in pool' \union {Nil} /\ pool' = p BY DEF Record
<1> QED BY <1>1, <1>2, <1>5, <1>6, <1>7

LEMMA SelectTypes ==
  ASSUME STypes, NEW p \in Pools, p = pool => calls < MaxCalls,
         Select(p), UNCHANGED <<name, memory, world>>, wrr
  PROVE  STypes'
<1> USE DEF STypes, StrategiesTypeOK, TypeOK
<1>1. p \in SUBSET Ids BY PoolsAssumption
<1>2. Raised(p) \in [Ids -> Int] BY WeightFacts DEF Raised
<1>3. current' \in [Ids -> Int] /\ \E w \in p \union {Nil} : Record(p, w)
  <2>1. CASE Winners(p, Raised(p)) = {} BY <1>2, <2>1 DEF Select
  <2>2. CASE Winners(p, Raised(p)) # {}
    <3>1. PICK id \in Winners(p, Raised(p)) :
            /\ current' = [Raised(p) EXCEPT ![id] = @ - Total(p)]
            /\ Record(p, id)
      BY <2>2 DEF Select
    <3>2. id \in p BY DEF Winners
    <3>3. Total(p) \in Int BY <1>1, TotalFacts
    <3> QED BY <1>1, <1>2, <3>1, <3>2, <3>3
  <2> QED BY <2>1, <2>2
<1>4. TypeOK' /\ CallsHavePools' BY <1>3, RecordTypes DEF CallsHavePools
<1> QED BY <1>4 DEF memory, world

LEMMA RoundRobinPicks ==
  ASSUME STypes, NEW p \in Pools
  PROVE  /\ (counter + 1) % Counters \in 0..(Counters - 1)
         /\ \A n \in Nat : Nth(p, n) \in p /\ Nth(p, n) # Nil
<1>1. p \in SUBSET Ids /\ p # {} BY PoolsAssumption
<1>2. Cardinality(p) \in Nat /\ Cardinality(p) > 0
  BY <1>1, RankFacts, TotalFacts, FS_EmptySet
<1>3. ASSUME NEW n \in Nat PROVE Nth(p, n) \in p /\ Nth(p, n) # Nil
  <2>1. n % Cardinality(p) \in 0..(Cardinality(p) - 1) BY <1>2
  <2>2. Nth(p, n) \in p BY <1>1, <2>1, MemberFacts DEF Nth
  <2> QED BY <1>1, <2>2, NilAssumption
<1>4. (counter + 1) % Counters \in 0..(Counters - 1)
  BY CountersAssumption DEF STypes, StrategiesTypeOK
<1> QED BY <1>3, <1>4

LEMMA RoundRobinTypes ==
  ASSUME STypes, NEW p \in Pools, p = pool => calls < MaxCalls,
         SelectRoundRobin(p), name = "round_robin"
  PROVE  STypes'
<1> USE DEF STypes, StrategiesTypeOK, TypeOK
<1>1. counter' \in 0..(Counters - 1) /\ counter' \in Nat
  BY RoundRobinPicks, CountersAssumption DEF SelectRoundRobin
<1>2. Nth(p, counter') \in p BY <1>1, RoundRobinPicks
<1>3. TypeOK' /\ CallsHavePools'
  <2>1. Record(p, Nth(p, counter')) BY DEF SelectRoundRobin
  <2>2. current' \in [Ids -> Int] BY DEF SelectRoundRobin
  <2> QED BY <1>2, <2>1, <2>2, RecordTypes DEF CallsHavePools
<1> QED BY <1>1, <1>3 DEF SelectRoundRobin, world

\* An error rate below one stays below one.
LEMMA RecordedTypes ==
  ASSUME NEW rt \in [latency : Nat, errors : 0..(Precision - 1)],
         NEW l \in Nat, NEW e \in BOOLEAN
  PROVE  RecordResult(rt, l, e) \in [latency : Nat, errors : 0..(Precision - 1)]
<1>1. (7 * rt.latency + 3 * l) \div 10 \in Nat OBVIOUS
<1>2. rt.errors \in Nat /\ rt.errors <= Precision - 1 BY PrecisionAssumption
<1>3. /\ (7 * rt.errors) \div 10 \in 0..(Precision - 1)
      /\ (7 * rt.errors + 3 * Precision) \div 10 \in 0..(Precision - 1)
  BY <1>2, PrecisionAssumption
<1>4. Worse[rt.errors] = (7 * rt.errors + 3 * Precision) \div 10 BY <1>2 DEF Worse
<1> QED BY <1>1, <1>3, <1>4 DEF RecordResult

LEMMA CallTypes ==
  ASSUME STypes, NEW p \in Pools, NEW id \in p, NEW another \in BOOLEAN,
         CallBackend(p, id, another), ~ wrr, name # "round_robin"
  PROVE  STypes'
<1> USE DEF STypes, StrategiesTypeOK, TypeOK
<1>1. p \in SUBSET Ids /\ id \in Ids BY PoolsAssumption
<1>2. runtime' \in [Ids -> [latency : Nat, errors : 0..(Precision - 1)]]
  <2> DEFINE l == IF id \in down THEN Fast ELSE Slow
             e == id \in down
             new == RecordResult(runtime[id], l, e)
  <2>1. new \in [latency : Nat, errors : 0..(Precision - 1)]
    <3>1. l \in Nat /\ e \in BOOLEAN BY LatencyAssumption
    <3>2. runtime[id] \in [latency : Nat, errors : 0..(Precision - 1)] BY <1>1
    <3> HIDE DEF l, e
    <3> QED BY <3>1, <3>2, RecordedTypes
  <2>2. runtime' = [runtime EXCEPT ![id] = new] BY <1>1 DEF CallBackend
  <2> HIDE DEF new
  <2> QED BY <2>1, <2>2
<1>3. results' \in 0..MaxResults /\ streak' \in 0..results'
  BY PrecisionAssumption DEF CallBackend
<1>4. TypeOK' BY <1>1 DEF CallBackend
<1>5. CallsHavePools' BY DEF CallsHavePools, CallBackend, wrr
<1> QED BY <1>2, <1>3, <1>4, <1>5 DEF CallBackend, world

LEMMA TurnTypes ==
  ASSUME STypes, NEW id \in Ids, Turn(id)
  PROVE  STypes'
BY ScoredAssumption DEF STypes, StrategiesTypeOK, TypeOK, CallsHavePools, Turn,
   wrrVars, vars, memory

LEMMA StrategiesStutter ==
  ASSUME STypes, UNCHANGED strategyVars
  PROVE  STypes'
BY DEF STypes, StrategiesTypeOK, TypeOK, CallsHavePools, strategyVars,
   wrrVars, vars, memory, world

LEMMA StrategiesStart ==
  ASSUME StrategiesInit
  PROVE  STypes
BY BoundAssumption, CountersAssumption, PrecisionAssumption, ScoredAssumption
   DEF StrategiesInit, Init, STypes, StrategiesTypeOK, TypeOK, CallsHavePools,
       Fresh, Nobody

\* The kinds of steps there are.
WeightedCall ==
  \E p \in Pools : /\ p = pool => calls < MaxCalls
                   /\ wrr /\ Select(p) /\ UNCHANGED <<name, memory, world>>

RoundRobinCall ==
  \E p \in Pools : /\ p = pool => calls < MaxCalls
                   /\ name = "round_robin" /\ SelectRoundRobin(p)

MeasuredCall ==
  \E p \in Pools, another \in BOOLEAN : \E id \in p :
    /\ name \in {"adaptive", "least_latency"}
    /\ CallBackend(p, id, another)
    /\ name = "least_latency" =>
         p \in Scored /\ id \in Quickest(p) /\ (another => id \notin down /\ Twice(p, id))
    /\ name = "adaptive" =>
         p \in Scored /\ id \in Best(p) /\ (another => id \in down /\ Proven(p, id))

LEMMA StrategiesSteps ==
  ASSUME [StrategiesNext]_strategyVars
  PROVE  \/ WeightedCall \/ RoundRobinCall \/ MeasuredCall
         \/ \E id \in Ids : Turn(id)
         \/ UNCHANGED strategyVars
<1>1. ASSUME NEW p \in Pools, p = pool => calls < MaxCalls, Call(p)
      PROVE  WeightedCall \/ RoundRobinCall \/ MeasuredCall
  <2>1. CASE name = "weighted_round_robin" /\ Select(p) /\ UNCHANGED <<name, memory, world>>
    BY <1>1, <2>1 DEF WeightedCall, wrr
  <2>2. CASE name = "round_robin" /\ SelectRoundRobin(p)
    BY <1>1, <2>2 DEF RoundRobinCall
  <2>3. CASE name = "adaptive" /\ p \in Scored /\ SelectAdaptive(p)
    <3>1. PICK id \in Best(p) : CallBackend(p, id, id \in down /\ Proven(p, id))
      BY <2>3 DEF SelectAdaptive
    <3>2. id \in p BY DEF Best
    <3>3. (id \in down /\ Proven(p, id)) \in BOOLEAN BY DEF Proven
    <3> QED BY <2>3, <3>1, <3>2, <3>3 DEF MeasuredCall
  <2>4. CASE name = "least_latency" /\ p \in Scored /\ SelectLeastLatency(p)
    <3>1. PICK id \in Quickest(p) : CallBackend(p, id, id \notin down /\ Twice(p, id))
      BY <2>4 DEF SelectLeastLatency
    <3>2. id \in p BY DEF Quickest, Measured
    <3>3. (id \notin down /\ Twice(p, id)) \in BOOLEAN BY DEF Twice
    <3> QED BY <2>4, <3>1, <3>2, <3>3 DEF MeasuredCall
  <2> QED BY <1>1, <2>1, <2>2, <2>3, <2>4 DEF Call
<1> QED BY <1>1 DEF StrategiesNext

LEMMA StrategiesKeepTypes ==
  ASSUME STypes, [StrategiesNext]_strategyVars
  PROVE  STypes'
<1>1. CASE WeightedCall BY <1>1, SelectTypes DEF WeightedCall
<1>2. CASE RoundRobinCall BY <1>2, RoundRobinTypes DEF RoundRobinCall
<1>3. CASE MeasuredCall
  <2>1. PICK p \in Pools, another \in BOOLEAN : \E id \in p :
          CallBackend(p, id, another) /\ name \in {"adaptive", "least_latency"}
    BY <1>3 DEF MeasuredCall
  <2>2. PICK id \in p :
          CallBackend(p, id, another) /\ name \in {"adaptive", "least_latency"}
    BY <2>1
  <2>3. ~ wrr /\ name # "round_robin" BY <2>2 DEF wrr
  <2> QED BY <2>2, <2>3, CallTypes
<1>4. CASE \E id \in Ids : Turn(id) BY <1>4, TurnTypes
<1>5. CASE UNCHANGED strategyVars BY <1>5, StrategiesStutter
<1> QED BY <1>1, <1>2, <1>3, <1>4, <1>5, StrategiesSteps

(***************************************************************************)
(* Types hold, and no error rate reaches one.                              *)
(***************************************************************************)
THEOREM StrategiesTypes == StrategiesSpec => []StrategiesTypeOK
<1>1. StrategiesInit => STypes BY StrategiesStart
<1>2. STypes /\ [StrategiesNext]_strategyVars => STypes' BY StrategiesKeepTypes
<1>3. STypes => StrategiesTypeOK BY DEF STypes
<1> QED BY <1>1, <1>2, <1>3, PTL DEF StrategiesSpec

-----------------------------------------------------------------------------
(* Refusals *)

LEMMA DebtFacts ==
  ASSUME NEW c \in [Ids -> Int]
  PROVE  /\ Debt(c) \in [Ids -> Int] /\ Debts(c) \in Nat
         /\ (\A id \in Ids : c[id] >= - Total(Ids)) =>
              Debts(c) <= Cardinality(Ids) * Total(Ids)
<1>1. Debt(c) \in [Ids -> Int] /\ \A id \in Ids : Debt(c)[id] >= 0 BY DEF Debt
<1>2. Debts(c) \in Nat BY <1>1, IdsAssumption, SumOfNaturals DEF Debts
<1>3. ASSUME \A id \in Ids : c[id] >= - Total(Ids)
      PROVE  Debts(c) <= Cardinality(Ids) * Total(Ids)
  <2>1. Total(Ids) \in Nat BY TotalFacts
  <2>2. \A id \in Ids : Debt(c)[id] <= Total(Ids) BY <1>3, <2>1 DEF Debt
  <2> QED BY <1>1, <2>1, <2>2, IdsAssumption, SumAtMost DEF Debts
<1> QED BY <1>1, <1>2, <1>3

\* Who is refused pays back at least one unit.
LEMMA RefusalPays ==
  ASSUME NEW c \in [Ids -> Int], NEW d \in [Ids -> Int], NEW x \in Ids,
         \A id \in Ids : d[id] >= c[id],
         c[x] < d[x], d[x] < 0
  PROVE  Debts(d) <= Debts(c) - 1
<1> DEFINE g == [Debt(c) EXCEPT ![x] = @ - 1]
<1>1. Debt(c) \in [Ids -> Int] /\ Debt(d) \in [Ids -> Int] /\ Debts(c) \in Nat
  BY DebtFacts
<1>2. g \in [Ids -> Int] /\ g[x] = Debt(c)[x] - 1 /\ \A y \in Ids \ {x} : g[y] = Debt(c)[y]
  BY <1>1
<1>3. \A id \in Ids : Debt(d)[id] <= g[id]
  <2>1. ASSUME NEW id \in Ids PROVE Debt(d)[id] <= g[id]
    <3>1. CASE id = x BY <1>2, <3>1 DEF Debt
    <3>2. CASE id # x BY <1>2, <3>2 DEF Debt
    <3> QED BY <3>1, <3>2
  <2> QED BY <2>1
<1> HIDE DEF g
<1>4. SumFunctionOnSet(g, Ids) = SumFunctionOnSet(Debt(c), Ids) + (g[x] - Debt(c)[x])
  BY <1>1, <1>2, IdsAssumption, SumChanges
<1>5. SumFunctionOnSet(Debt(d), Ids) <= SumFunctionOnSet(g, Ids)
  BY <1>1, <1>2, <1>3, IdsAssumption, SumMonotone
<1>6. Debt(c)[x] \in Int /\ SumFunctionOnSet(Debt(d), Ids) \in Int
      /\ SumFunctionOnSet(Debt(c), Ids) \in Int
  BY <1>1, DebtFacts DEF Debts
<1> QED BY <1>2, <1>4, <1>5, <1>6 DEF Debts

Refusals == Idle /\ Refusing

LEMMA RefusedCall ==
  ASSUME STypes, Refusals, wrr, NEW p \in Pools, p = pool => calls < MaxCalls,
         Winners(p, Raised(p)) = {}, current' = Raised(p), Record(p, Nil),
         name' = name
  PROVE  Refusals'
<1>1. p \in SUBSET Ids /\ p # {} BY PoolsAssumption
<1>2. /\ current \in [Ids -> Int] /\ refused \in Nat /\ calls \in Nat /\ pool \subseteq Ids
      /\ calls > 0 => pool # {}
  BY DEF STypes, StrategiesTypeOK, TypeOK, CallsHavePools
<1>3. /\ current' \in [Ids -> Int]
      /\ \A id \in Ids : current'[id] >= current[id]
      /\ \A id \in p : current'[id] >= current[id] + 1
  <2>1. \A id \in Ids : W(id) \in Nat /\ W(id) >= 1 BY WeightFacts
  <2>2. Raised(p) \in [Ids -> Int] BY <1>2, <2>1 DEF Raised
  <2>3. \A id \in Ids : Raised(p)[id] >= current[id] BY <1>2, <2>1 DEF Raised
  <2>4. \A id \in p : Raised(p)[id] >= current[id] + 1 BY <1>1, <1>2, <2>1 DEF Raised
  <2> QED BY <2>2, <2>3, <2>4
<1>4. \A id \in p : current'[id] < 0 BY <1>1, <1>3, NobodyWins
<1>5. Total(Ids) \in Nat /\ Cardinality(Ids) \in Nat BY TotalFacts, RankFacts
<1>6. refused' = refused + 1 /\ pool' = p /\ calls' = IF p = pool THEN calls + 1 ELSE 1
  BY DEF Record
<1>7. \A id \in Ids : current'[id] >= - Total(Ids)
  BY <1>2, <1>3, <1>5 DEF Refusals, Refusing
<1>8. refused' + Debts(current') <= Cardinality(Ids) * Total(Ids)
  <2>1. PICK x \in p : TRUE BY <1>1
  <2>2. x \in Ids /\ current[x] < current'[x] /\ current'[x] < 0
    BY <1>1, <1>2, <1>3, <1>4, <2>1
  <2>3. Debts(current') <= Debts(current) - 1 BY <1>2, <1>3, <2>2, RefusalPays
  <2>4. Debts(current) \in Nat /\ Debts(current') \in Nat BY <1>2, <1>3, DebtFacts
  <2>5. Cardinality(Ids) * Total(Ids) \in Nat BY <1>5
  <2>6. refused + Debts(current) <= Cardinality(Ids) * Total(Ids)
    BY DEF Refusals, Refusing
  <2> QED BY <1>2, <1>6, <2>3, <2>4, <2>5, <2>6
<1>9. ASSUME NEW id \in p
      PROVE  \/ current'[id] >= refused' - Total(Ids)
             \/ current'[id] >= calls' - Total(Ids)
  <2>1. current[id] \in Int /\ current'[id] \in Int /\ current'[id] >= current[id] + 1
        /\ current[id] >= - Total(Ids)
    BY <1>1, <1>2, <1>3 DEF Refusals, Refusing
  <2>2. CASE p # pool BY <1>5, <1>6, <2>1, <2>2
  <2>3. CASE p = pool /\ (calls = 0 \/ refused = 0) BY <1>5, <1>6, <2>1, <2>3
  <2>4. CASE p = pool /\ calls > 0 /\ refused > 0
    <3>1. current[id] >= refused - Total(Ids) \/ current[id] >= calls - Total(Ids)
      BY <2>4 DEF Refusals, Refusing
    <3> QED BY <1>2, <1>5, <1>6, <2>1, <2>4, <3>1
  <2> QED BY <1>2, <2>2, <2>3, <2>4
<1> QED BY <1>4, <1>6, <1>7, <1>8, <1>9 DEF Refusals, Refusing, Idle, wrr

LEMMA WonCall ==
  ASSUME STypes, Refusals, wrr, NEW p \in Pools, NEW x \in Winners(p, Raised(p)),
         current' = [Raised(p) EXCEPT ![x] = @ - Total(p)], Record(p, x),
         name' = name
  PROVE  Refusals'
<1>1. p \in SUBSET Ids /\ p # {} /\ x \in p /\ Raised(p)[x] > -1
  BY PoolsAssumption DEF Winners
<1>2. current \in [Ids -> Int] BY DEF STypes, StrategiesTypeOK, TypeOK
<1>3. Raised(p) \in [Ids -> Int] /\ \A id \in Ids : Raised(p)[id] >= current[id]
  BY <1>2, WeightFacts DEF Raised
<1>4. Total(p) \in Nat /\ Total(Ids) \in Nat /\ Total(p) <= Total(Ids)
  BY <1>1, TotalFacts
<1>5. current' \in [Ids -> Int]
  <2>1. x \in Ids /\ Raised(p)[x] - Total(p) \in Int BY <1>1, <1>3, <1>4
  <2> QED BY <1>3, <2>1
<1>6. \A id \in Ids : current'[id] >= - Total(Ids)
  <2>1. ASSUME NEW id \in Ids PROVE current'[id] >= - Total(Ids)
    <3>1. CASE id = x BY <1>1, <1>3, <1>4, <3>1
    <3>2. CASE id # x
      <4>1. current'[id] = Raised(p)[id] BY <1>3, <3>2
      <4>2. current[id] >= - Total(Ids) BY DEF Refusals, Refusing
      <4> QED BY <1>2, <1>3, <1>4, <4>1, <4>2
    <3> QED BY <3>1, <3>2
  <2> QED BY <2>1
<1>7. Debts(current') \in Nat /\ Debts(current') <= Cardinality(Ids) * Total(Ids)
  BY <1>5, <1>6, DebtFacts
<1>8. refused' = 0 BY <1>1, NilAssumption DEF Record
<1> QED BY <1>6, <1>7, <1>8 DEF Refusals, Refusing, Idle, wrr

\* The other strategies leave the weights at zero.
LEMMA NoDebts ==
  ASSUME current' = Nobody, refused' = 0, ~ wrr'
  PROVE  Refusals'
<1>1. Nobody \in [Ids -> Int] /\ \A id \in Ids : Nobody[id] = 0 BY DEF Nobody
<1>2. Total(Ids) \in Nat BY TotalFacts
<1>3. \A id \in Ids : current'[id] >= - Total(Ids) BY <1>1, <1>2
<1>4. Debts(current') \in Nat /\ Debts(current') <= Cardinality(Ids) * Total(Ids)
  BY <1>1, <1>3, DebtFacts
<1> QED BY <1>3, <1>4 DEF Refusals, Refusing, Idle

LEMMA RefusalsStart ==
  ASSUME StrategiesInit
  PROVE  Refusals
<1>1. current = Nobody /\ refused = 0 BY DEF StrategiesInit, Init, Nobody
<1>2. Nobody \in [Ids -> Int] /\ \A id \in Ids : Nobody[id] = 0 BY DEF Nobody
<1>3. Total(Ids) \in Nat BY TotalFacts
<1>4. \A id \in Ids : current[id] >= - Total(Ids) BY <1>1, <1>2, <1>3
<1>5. Debts(current) \in Nat /\ Debts(current) <= Cardinality(Ids) * Total(Ids)
  BY <1>1, <1>2, <1>4, DebtFacts
<1> QED BY <1>1, <1>4, <1>5 DEF Refusals, Refusing, Idle

\* A slice refused often in a row would have more debts than there can be.
LEMMA RefusingMeans ==
  ASSUME STypes, Refusals
  PROVE  RefusalsEnd
<1>1. /\ current \in [Ids -> Int] /\ refused \in Nat /\ calls \in Nat /\ pool \subseteq Ids
      /\ calls > 0 => pool # {}
  BY DEF STypes, StrategiesTypeOK, TypeOK, CallsHavePools
<1>2. Total(Ids) \in Nat /\ Cardinality(Ids) * Total(Ids) \in Nat
  BY TotalFacts, RankFacts
<1>3. refused <= Total(Ids) \/ calls <= Total(Ids)
  <2>1. CASE refused = 0 \/ calls = 0 BY <1>2, <2>1
  <2>2. CASE refused > 0 /\ calls > 0
    <3>1. PICK id \in pool : TRUE BY <1>1, <2>2
    <3>2. /\ current[id] < 0
          /\ current[id] >= refused - Total(Ids) \/ current[id] >= calls - Total(Ids)
      BY <2>2, <3>1 DEF Refusals, Refusing
    <3>3. current[id] \in Int BY <1>1, <3>1
    <3> QED BY <1>1, <1>2, <3>2, <3>3
  <2> QED BY <1>1, <2>1, <2>2
<1>4. refused <= Cardinality(Ids) * Total(Ids)
  <2>1. Debts(current) \in Nat BY <1>1, DebtFacts
  <2>2. refused + Debts(current) <= Cardinality(Ids) * Total(Ids)
    BY DEF Refusals, Refusing
  <2> QED BY <1>1, <1>2, <2>1, <2>2
<1> QED BY <1>3, <1>4 DEF RefusalsEnd, Refusals, Refusing

(***************************************************************************)
(* A debt is never deeper than the weight of all backends, one slice is    *)
(* refused no more often in a row than that, and slices called in turns no *)
(* more often than all debts together allow.                               *)
(***************************************************************************)
THEOREM RefusalsAreBounded == StrategiesSpec => []RefusalsEnd
<1>1. StrategiesInit => STypes /\ Refusals BY StrategiesStart, RefusalsStart
<1>2. STypes /\ Refusals /\ [StrategiesNext]_strategyVars => Refusals'
  <2> SUFFICES ASSUME STypes, Refusals, [StrategiesNext]_strategyVars PROVE Refusals'
    OBVIOUS
  <2>1. CASE WeightedCall
    <3>1. PICK p \in Pools : /\ p = pool => calls < MaxCalls
                             /\ wrr /\ Select(p) /\ name' = name
      BY <2>1 DEF WeightedCall
    <3>2. CASE Winners(p, Raised(p)) = {}
      BY <3>1, <3>2, RefusedCall DEF Select
    <3>3. CASE Winners(p, Raised(p)) # {}
      BY <3>1, <3>3, WonCall DEF Select
    <3> QED BY <3>2, <3>3
  <2>2. CASE RoundRobinCall
    <3>1. PICK p \in Pools : name = "round_robin" /\ SelectRoundRobin(p)
      BY <2>2 DEF RoundRobinCall
    <3>2. counter' \in Nat
      BY <3>1, RoundRobinPicks, CountersAssumption DEF SelectRoundRobin
    <3>3. Nth(p, counter') # Nil BY <3>2, RoundRobinPicks
    <3>4. refused' = 0 /\ current' = current /\ name' = name
      BY <3>1, <3>3 DEF SelectRoundRobin, Record
    <3> QED BY <3>1, <3>4, NoDebts DEF Refusals, Idle, wrr
  <2>3. CASE MeasuredCall
    <3>1. /\ ~ wrr /\ current' = current /\ refused' = refused /\ name' = name
      BY <2>3 DEF MeasuredCall, CallBackend, wrr
    <3> QED BY <3>1, NoDebts DEF Refusals, Idle, wrr
  <2>4. CASE \E id \in Ids : Turn(id)
    <3>1. /\ ~ wrr /\ current' = current /\ refused' = refused /\ name' = name
      BY <2>4 DEF Turn, wrrVars, vars, wrr
    <3> QED BY <3>1, NoDebts DEF Refusals, Idle, wrr
  <2>5. CASE UNCHANGED strategyVars
    BY <2>5 DEF strategyVars, wrrVars, vars, Refusals, Idle, Refusing, wrr
  <2> QED BY <2>1, <2>2, <2>3, <2>4, <2>5, StrategiesSteps
<1>3. STypes /\ [StrategiesNext]_strategyVars => STypes' BY StrategiesKeepTypes
<1>4. STypes /\ Refusals => RefusalsEnd BY RefusingMeans
<1> QED BY <1>1, <1>2, <1>3, <1>4, PTL DEF StrategiesSpec

-----------------------------------------------------------------------------
(* Nobody is ahead *)

\* When the weights of a slice cancel out, somebody's is positive once all were
\* raised, and the winner's is.
LEMMA SomebodyWins ==
  ASSUME NEW p \in SUBSET Ids, p # {}, current \in [Ids -> Int],
         SumFunctionOnSet(current, p) = 0
  PROVE  /\ SumFunctionOnSet(Raised(p), p) = Total(p)
         /\ Winners(p, Raised(p)) # {}
         /\ \A x \in Winners(p, Raised(p)) : Raised(p)[x] >= 1
<1> DEFINE raised == Raised(p)
<1>1. \A id \in Ids : W(id) \in Nat /\ W(id) >= 1 /\ Weights[id] = W(id) BY WeightFacts
<1>2. raised \in [Ids -> Int] /\ \A id \in p : raised[id] = current[id] + Weights[id]
  BY <1>1 DEF Raised
<1>3. IsFiniteSet(p) /\ Total(p) \in Nat /\ Total(p) >= 1 BY TotalFacts
<1> HIDE DEF raised
<1>4. SumFunctionOnSet(raised, p) = SumFunctionOnSet(current, p) + Total(p)
  BY <1>2, <1>3, WeightFacts, SumOfSums DEF Total
<1>5. SumFunctionOnSet(raised, p) = Total(p) BY <1>3, <1>4
<1>6. PICK j \in p : raised[j] >= 1
  <2> SUFFICES ASSUME \A j \in p : raised[j] <= 0 PROVE FALSE BY <1>2
  <2>1. SumFunctionOnSet(raised, p) <= Cardinality(p) * 0
    BY <1>2, <1>3, SumAtMost
  <2>2. Cardinality(p) \in Nat BY RankFacts
  <2> QED BY <1>3, <1>5, <2>1, <2>2
<1>7. Winners(p, raised) # {}
  <2>1. raised[j] \in Int BY <1>2
  <2> QED BY <1>2, <1>6, <2>1, NobodyWins
<1>8. ASSUME NEW x \in Winners(p, raised) PROVE raised[x] >= 1
  <2>1. x \in p /\ (raised[j] < raised[x] \/ raised[j] = raised[x]) BY DEF Winners
  <2>2. raised[j] \in Int /\ raised[x] \in Int BY <1>2, <2>1
  <2> QED BY <1>6, <2>1, <2>2
<1> QED BY <1>5, <1>7, <1>8 DEF raised

\* What a call adds to what a backend is due.
LEMMA DueGrows ==
  ASSUME NEW c \in Nat, NEW k \in Nat, NEW w \in Nat, NEW t \in Nat
  PROVE  /\ (c + 1) * w - k * t = (c * w - k * t) + w
         /\ (c + 1) * w - (k + 1) * t = (c * w - k * t) + w - t
<1>1. (c + 1) * w = c * w + w /\ (k + 1) * t = k * t + t
  OBVIOUS
<1>2. c * w \in Nat /\ k * t \in Nat OBVIOUS
<1> QED BY <1>1, <1>2

LEMMA BalancedCall ==
  ASSUME STypes, Balanced, NEW p \in Pools, Select(p), name' = name
  PROVE  Balanced'
<1> SUFFICES ASSUME wrr, constant'
             PROVE  /\ SumFunctionOnSet(current', p) = 0
                    /\ \A id \in p :
                         /\ current'[id] = calls' * W(id) - picks'[id] * Total(p)
                         /\ current'[id] > - Total(p)
                    /\ \A id \in Ids \ p : current'[id] = 0 /\ picks'[id] = 0
                    /\ pool' = p
  BY DEF Balanced, wrr, Due
<1> DEFINE before == IF p = pool THEN picks ELSE Nobody
           c == IF p = pool THEN calls ELSE 0
<1>0. /\ current \in [Ids -> Int] /\ calls \in Nat /\ picks \in [Ids -> Nat]
      /\ pool \subseteq Ids /\ calls > 0 => pool # {}
  BY DEF STypes, StrategiesTypeOK, TypeOK, CallsHavePools
<1>1. p \in SUBSET Ids /\ p # {} BY PoolsAssumption
<1>2. PICK w \in Ids \union {Nil} : Record(p, w)
  BY <1>1 DEF Select, Winners
<1>3. constant /\ pool \in {{}, p} BY <1>2 DEF Record
<1>4. c \in Nat /\ before \in [Ids -> Nat] /\ calls' = c + 1 /\ pool' = p
  BY <1>0, <1>2 DEF Record, Nobody
<1>5. /\ SumFunctionOnSet(current, p) = 0
      /\ \A id \in p : /\ current[id] = c * W(id) - before[id] * Total(p)
                       /\ current[id] > - Total(p)
      /\ \A id \in Ids \ p : current[id] = 0 /\ before[id] = 0
  <2>1. CASE p = pool BY <1>3, <2>1 DEF Balanced, Due
  <2>2. CASE p # pool
    <3>1. pool = {} BY <1>3, <2>2
    <3>2. \A id \in Ids : current[id] = 0 /\ before[id] = 0
      BY <1>3, <2>2, <3>1 DEF Balanced, Nobody
    <3>3. SumFunctionOnSet(current, p) = 0
      <4>1. IsFiniteSet(p) BY <1>1, TotalFacts
      <4>2. \A id \in p : current[id] = 0 BY <1>1, <3>2
      <4> QED BY <1>0, <1>1, <4>1, <4>2, SumOfZeros
    <3>4. Total(p) \in Nat /\ Total(p) >= 1 BY <1>1, TotalFacts
    <3>5. \A id \in p : c * W(id) = 0 /\ before[id] * Total(p) = 0
      BY <1>1, <2>2, <3>2, <3>4, WeightFacts
    <3> QED BY <1>1, <3>2, <3>3, <3>4, <3>5
  <2> QED BY <2>1, <2>2
<1> DEFINE raised == Raised(p)
<1>6. /\ raised \in [Ids -> Int] /\ SumFunctionOnSet(raised, p) = Total(p)
      /\ \A id \in p : raised[id] = current[id] + W(id)
      /\ \A id \in Ids \ p : raised[id] = current[id]
  <2>1. SumFunctionOnSet(raised, p) = Total(p) BY <1>0, <1>1, <1>5, SomebodyWins
  <2> QED BY <1>0, <1>1, <2>1, WeightFacts DEF Raised
<1>7. PICK x \in p : /\ raised[x] >= 1
                     /\ current' = [raised EXCEPT ![x] = @ - Total(p)]
                     /\ Record(p, x)
  BY <1>0, <1>1, <1>5, SomebodyWins DEF Select, Winners
<1>8. picks' = [before EXCEPT ![x] = @ + 1]
  BY <1>1, <1>7, NilAssumption DEF Record
<1> HIDE DEF before, c, raised
<1>9. Total(p) \in Nat /\ IsFiniteSet(p) BY <1>1, TotalFacts
<1>10. SumFunctionOnSet(current', p) = 0
  <2>1. current' \in [Ids -> Int] /\ current'[x] = raised[x] - Total(p)
        /\ \A y \in p \ {x} : current'[y] = raised[y]
    BY <1>1, <1>6, <1>7, <1>9
  <2>2. SumFunctionOnSet(current', p)
          = SumFunctionOnSet(raised, p) + (current'[x] - raised[x])
    BY <1>1, <1>6, <1>9, <2>1, SumChanges
  <2>3. raised[x] \in Int BY <1>1, <1>6
  <2> QED BY <1>6, <1>9, <2>1, <2>2, <2>3
<1>11. ASSUME NEW id \in p
       PROVE  /\ current'[id] = calls' * W(id) - picks'[id] * Total(p)
              /\ current'[id] > - Total(p)
  <2>1. W(id) \in Nat /\ W(id) >= 1 /\ id \in Ids BY <1>1, WeightFacts
  <2>2. before[id] \in Nat /\ current[id] \in Int /\ raised[id] = current[id] + W(id)
    BY <1>0, <1>4, <1>6, <2>1
  <2>3. /\ (c + 1) * W(id) - before[id] * Total(p) = current[id] + W(id)
        /\ (c + 1) * W(id) - (before[id] + 1) * Total(p) = current[id] + W(id) - Total(p)
    BY <1>4, <1>5, <1>9, <2>1, <2>2, DueGrows
  <2>4. CASE id = x
    <3>1. current'[id] = raised[id] - Total(p) /\ picks'[id] = before[id] + 1
      BY <1>4, <1>6, <1>7, <1>8, <2>1, <2>4
    <3>2. raised[id] >= 1 BY <1>7, <2>4
    <3> QED BY <1>4, <1>9, <2>2, <2>3, <3>1, <3>2, <2>1
  <2>5. CASE id # x
    <3>1. current'[id] = raised[id] /\ picks'[id] = before[id]
      BY <1>4, <1>6, <1>7, <1>8, <2>1, <2>5
    <3>2. current[id] > - Total(p) BY <1>5
    <3> QED BY <1>4, <1>9, <2>2, <2>3, <3>1, <3>2, <2>1
  <2> QED BY <2>4, <2>5
<1>12. \A id \in Ids \ p : current'[id] = 0 /\ picks'[id] = 0
  BY <1>4, <1>5, <1>6, <1>7, <1>8
<1> QED BY <1>4, <1>10, <1>11, <1>12

LEMMA BalancedStart == StrategiesInit => Balanced
<1> SUFFICES ASSUME StrategiesInit PROVE Balanced OBVIOUS
<1>1. pool = {} /\ \A id \in Ids : current[id] = 0 /\ picks[id] = 0
  BY DEF StrategiesInit, Init, Nobody
<1>2. SumFunctionOnSet(current, pool) = 0 BY <1>1, SumEmpty
<1> QED BY <1>1, <1>2 DEF Balanced

LEMMA BalancedKept ==
  ASSUME STypes, Balanced, [StrategiesNext]_strategyVars
  PROVE  Balanced'
<1>1. CASE WeightedCall BY <1>1, BalancedCall DEF WeightedCall
<1>2. CASE RoundRobinCall BY <1>2 DEF RoundRobinCall, SelectRoundRobin, Balanced, wrr
<1>3. CASE MeasuredCall BY <1>3 DEF MeasuredCall, CallBackend, Balanced, wrr
<1>4. CASE \E id \in Ids : Turn(id) BY <1>4 DEF Turn, Balanced, wrr
<1>5. CASE UNCHANGED strategyVars
  BY <1>5 DEF strategyVars, wrrVars, vars, Balanced, Due, wrr
<1> QED BY <1>1, <1>2, <1>3, <1>4, <1>5, StrategiesSteps

(***************************************************************************)
(* As long as its slice stays the same, a backend is never returned a      *)
(* whole call more often than its weight entitles it to.                   *)
(***************************************************************************)
THEOREM NobodyIsAhead == StrategiesSpec => []NeverAheadWRR
<1>1. StrategiesInit => STypes /\ Balanced BY StrategiesStart, BalancedStart
<1>2. STypes /\ Balanced /\ [StrategiesNext]_strategyVars => (STypes /\ Balanced)'
  BY StrategiesKeepTypes, BalancedKept
<1>3. STypes /\ Balanced => NeverAheadWRR
  BY DEF NeverAheadWRR, NotAhead, Balanced, wrr
<1> QED BY <1>1, <1>2, <1>3, PTL DEF StrategiesSpec

\* What one backend is due is what the others are ahead.
LEMMA DueIsBounded ==
  ASSUME STypes, Balanced, wrr, constant, NEW id \in pool
  PROVE  Due(id) <= (Cardinality(pool) - 1) * (Total(pool) - 1)
<1> DEFINE rest == pool \ {id}
           ahead == [x \in Ids |-> - current[x]]
           zero == [x \in Ids |-> 0]
<1>1. /\ pool \in SUBSET Ids /\ rest \in SUBSET Ids
      /\ current \in [Ids -> Int]
      /\ Total(pool) \in Int
  BY TotalFacts DEF STypes, StrategiesTypeOK, TypeOK
<1>2. /\ IsFiniteSet(pool) /\ IsFiniteSet(rest)
      /\ Cardinality(pool) \in Nat /\ Cardinality(rest) = Cardinality(pool) - 1
  BY <1>1, IdsAssumption, FS_Subset, FS_CardinalityType, FS_RemoveElement
<1>3. SumFunctionOnSet(current, pool) = current[id] + SumFunctionOnSet(current, rest)
  BY <1>1, <1>2, SumWithout
<1>4. /\ ahead \in [Ids -> Int] /\ zero \in [Ids -> Int]
      /\ \A x \in rest : zero[x] = current[x] + ahead[x]
      /\ \A x \in rest : zero[x] = 0
      /\ \A x \in rest : ahead[x] <= Total(pool) - 1
  BY <1>1 DEF Balanced
<1> HIDE DEF ahead, zero, rest
<1>5. SumFunctionOnSet(zero, rest)
        = SumFunctionOnSet(current, rest) + SumFunctionOnSet(ahead, rest)
  BY <1>1, <1>2, <1>4, SumOfSums
<1>6. SumFunctionOnSet(zero, rest) = 0 BY <1>1, <1>2, <1>4, SumOfZeros
<1>7. SumFunctionOnSet(ahead, rest) <= Cardinality(rest) * (Total(pool) - 1)
  <2>1. Total(pool) - 1 \in Int BY <1>1
  <2> QED BY <1>1, <1>2, <1>4, <2>1, SumAtMost
<1>8. SumFunctionOnSet(current, rest) \in Int /\ SumFunctionOnSet(ahead, rest) \in Int
  BY <1>1, <1>2, <1>4, SumType
<1>9. SumFunctionOnSet(current, pool) = 0 /\ current[id] = Due(id) /\ current[id] \in Int
  BY <1>1 DEF Balanced
<1>10. Due(id) = SumFunctionOnSet(ahead, rest) BY <1>3, <1>5, <1>6, <1>8, <1>9
<1> QED BY <1>2, <1>7, <1>10

(***************************************************************************)
(* And never further behind its share than the others together can be      *)
(* ahead of theirs, for how long it is called and whatever the weights.    *)
(***************************************************************************)
THEOREM NobodyStarves == StrategiesSpec => []NobodyStarvesWRR
<1>1. StrategiesInit => STypes /\ Balanced BY StrategiesStart, BalancedStart
<1>2. STypes /\ Balanced /\ [StrategiesNext]_strategyVars => (STypes /\ Balanced)'
  BY StrategiesKeepTypes, BalancedKept
<1>3. STypes /\ Balanced => NobodyStarvesWRR
  BY DueIsBounded DEF NobodyStarvesWRR, NotStarved, wrr
<1> QED BY <1>1, <1>2, <1>3, PTL DEF StrategiesSpec

-----------------------------------------------------------------------------
(* Round robin is even *)

LEMMA Division ==
  ASSUME NEW a \in Nat, NEW n \in Nat \ {0}
  PROVE  /\ a \div n \in Nat /\ a % n \in 0..(n - 1)
         /\ a = n * (a \div n) + (a % n)
OBVIOUS

LEMMA QuotientIs ==
  ASSUME NEW a \in Nat, NEW n \in Nat \ {0}, NEW q \in Int, NEW s \in 0..(n - 1),
         a = n * q + s
  PROVE  a \div n = q /\ a % n = s
<1>1. a \div n = q OBVIOUS
<1>2. a % n = s OBVIOUS
<1> QED BY <1>1, <1>2

LEMMA HitsType ==
  ASSUME NEW x \in Int, x >= -1, NEW n \in Nat \ {0}, NEW r \in 0..(n - 1)
  PROVE  /\ Hits(x, r, n) \in Nat
         /\ \E s \in 0..(n - 1) : x + n - r = n * Hits(x, r, n) + s
<1>1. x + n - r \in Nat OBVIOUS
<1> QED BY <1>1, Division DEF Hits

\* One more number is one more hit if it leaves the remainder.
LEMMA HitsGrow ==
  ASSUME NEW x \in Int, x >= -1, NEW n \in Nat \ {0}, NEW r \in 0..(n - 1)
  PROVE  Hits(x + 1, r, n) = Hits(x, r, n) + IF (x + 1) % n = r THEN 1 ELSE 0
<1> DEFINE q == (x + 1) \div n
           s == (x + 1) % n
<1>1. x + 1 \in Nat /\ q \in Nat /\ s \in 0..(n - 1) /\ x + 1 = n * q + s
  <2>1. x + 1 \in Nat OBVIOUS
  <2> HIDE DEF q, s
  <2>2. q = (x + 1) \div n /\ s = (x + 1) % n BY DEF q, s
  <2> QED BY <2>1, <2>2, Division
<1> HIDE DEF q, s
<1>2. n * (q + 1) = n * q + n /\ n * q \in Int BY <1>1
<1>3. x + n - r \in Nat /\ (x + 1) + n - r \in Nat OBVIOUS
<1>4. CASE s = r
  <2>1. (x + 1) + n - r = n * (q + 1) + 0 /\ x + n - r = n * q + (n - 1)
    BY <1>1, <1>2, <1>4
  <2>2. ((x + 1) + n - r) \div n = q + 1 BY <1>1, <1>3, <2>1, QuotientIs
  <2>3. (x + n - r) \div n = q BY <1>1, <1>3, <2>1, QuotientIs
  <2> QED BY <1>1, <1>4, <2>2, <2>3 DEF Hits, s
<1>5. CASE s > r
  <2>1. (x + 1) + n - r = n * (q + 1) + (s - r) /\ x + n - r = n * (q + 1) + (s - r - 1)
    BY <1>1, <1>2, <1>5
  <2>2. s - r \in 0..(n - 1) /\ s - r - 1 \in 0..(n - 1) /\ q + 1 \in Int BY <1>1, <1>5
  <2>3. ((x + 1) + n - r) \div n = q + 1 BY <1>3, <2>1, <2>2, QuotientIs
  <2>4. (x + n - r) \div n = q + 1 BY <1>3, <2>1, <2>2, QuotientIs
  <2>5. s # r BY <1>1, <1>5
  <2> QED BY <1>1, <2>3, <2>4, <2>5 DEF Hits, s
<1>6. CASE s < r
  <2>1. (x + 1) + n - r = n * q + (n + s - r) /\ x + n - r = n * q + (n + s - r - 1)
    BY <1>1, <1>2, <1>6
  <2>2. n + s - r \in 0..(n - 1) /\ n + s - r - 1 \in 0..(n - 1) /\ q \in Int BY <1>1, <1>6
  <2>3. ((x + 1) + n - r) \div n = q BY <1>3, <2>1, <2>2, QuotientIs
  <2>4. (x + n - r) \div n = q BY <1>3, <2>1, <2>2, QuotientIs
  <2>5. s # r BY <1>1, <1>6
  <2> QED BY <1>1, <2>3, <2>4, <2>5 DEF Hits, s
<1> QED BY <1>1, <1>4, <1>5, <1>6

LEMMA NoHits ==
  ASSUME NEW n \in Nat \ {0}, NEW r \in 0..(n - 1)
  PROVE  Hits(-1, r, n) = 0
<1>1. -1 + n - r \in Nat /\ -1 + n - r \in 0..(n - 1) /\ -1 + n - r = n * 0 + (-1 + n - r)
  OBVIOUS
<1> QED BY <1>1, QuotientIs DEF Hits

\* Between two numbers, no remainder is hit more than once more than another.
LEMMA HitsSpread ==
  ASSUME NEW a \in Int, a >= -1, NEW b \in Int, b >= -1,
         NEW n \in Nat \ {0}, NEW r \in 0..(n - 1), NEW t \in 0..(n - 1)
  PROVE  (Hits(b, r, n) - Hits(a, r, n)) - (Hits(b, t, n) - Hits(a, t, n)) <= 1
<1> DEFINE br == Hits(b, r, n)
           ar == Hits(a, r, n)
           bt == Hits(b, t, n)
           at == Hits(a, t, n)
           d == (br - ar) - (bt - at)
<1>1. PICK s1 \in 0..(n - 1) : br \in Nat /\ b + n - r = n * br + s1 BY HitsType
<1>2. PICK s2 \in 0..(n - 1) : ar \in Nat /\ a + n - r = n * ar + s2 BY HitsType
<1>3. PICK s3 \in 0..(n - 1) : bt \in Nat /\ b + n - t = n * bt + s3 BY HitsType
<1>4. PICK s4 \in 0..(n - 1) : at \in Nat /\ a + n - t = n * at + s4 BY HitsType
<1> HIDE DEF br, ar, bt, at
<1>5. n * d = ((n * br) - (n * ar)) - ((n * bt) - (n * at))
  BY <1>1, <1>2, <1>3, <1>4
<1>6. n * d = (s2 - s1) - (s4 - s3)
  <2>1. n * br \in Int /\ n * ar \in Int /\ n * bt \in Int /\ n * at \in Int
    BY <1>1, <1>2, <1>3, <1>4
  <2> QED BY <1>1, <1>2, <1>3, <1>4, <1>5, <2>1
<1>7. n * d < 2 * n BY <1>6
<1>8. d \in Int BY <1>1, <1>2, <1>3, <1>4
<1> HIDE DEF d
<1>9. ~ (d >= 2)
  <2> SUFFICES ASSUME d >= 2 PROVE FALSE OBVIOUS
  <2>1. n * d >= n * 2 /\ n * d \in Int BY <1>8
  <2> QED BY <1>7, <2>1
<1> QED BY <1>8, <1>9 DEF d, br, ar, bt, at

LEMMA WindowGrows ==
  ASSUME NEW cnt \in 0..(Counters - 1), NEW cl \in Nat, cl < Counters,
         NEW n \in Nat \ {0}, NEW r \in 0..(n - 1)
  PROVE  LET next == (cnt + 1) % Counters
         IN  Window(next, cl + 1, r, n)
               = Window(cnt, cl, r, n) + IF next % n = r THEN 1 ELSE 0
<1>0. Counters \in Nat \ {0} BY CountersAssumption
<1> DEFINE next == (cnt + 1) % Counters
<1>1. CASE cnt + 1 < Counters
  <2>1. next = cnt + 1
    <3>1. cnt + 1 \in Nat /\ cnt + 1 \in 0..(Counters - 1) /\ cnt + 1 = Counters * 0 + (cnt + 1)
      BY <1>0, <1>1
    <3> QED BY <1>0, <3>1, QuotientIs
  <2> HIDE DEF next
  <2>2. Hits(cnt + 1, r, n) = Hits(cnt, r, n) + IF (cnt + 1) % n = r THEN 1 ELSE 0
    BY HitsGrow
  <2>3. Hits(cnt, r, n) \in Nat BY HitsType
  <2>4. (cnt + 1) - (cl + 1) = cnt - cl /\ (cnt + 1) - (cl + 1) + Counters = cnt - cl + Counters
    BY <1>0
  <2>5. CASE cnt >= cl
    <3>1. Hits(cnt - cl, r, n) \in Nat BY <2>5, HitsType
    <3> QED BY <2>1, <2>2, <2>3, <2>4, <2>5, <3>1 DEF Window, next
  <2>6. CASE ~ (cnt >= cl)
    <3>1. cnt - cl + Counters \in Int /\ cnt - cl + Counters >= -1 /\ Counters - 1 \in Int
          /\ Counters - 1 >= -1
      BY <1>0
    <3>2. Hits(cnt - cl + Counters, r, n) \in Nat /\ Hits(Counters - 1, r, n) \in Nat
      BY <3>1, HitsType
    <3>3. ~ (cnt + 1 >= cl + 1) BY <2>6
    <3>4. Window(cnt, cl, r, n)
            = Hits(cnt, r, n) + Hits(Counters - 1, r, n) - Hits(cnt - cl + Counters, r, n)
      BY <2>6 DEF Window
    <3>5. Window(cnt + 1, cl + 1, r, n)
            = Hits(cnt + 1, r, n) + Hits(Counters - 1, r, n)
                - Hits((cnt + 1) - (cl + 1) + Counters, r, n)
      BY <3>3 DEF Window
    <3>6. Window(cnt + 1, cl + 1, r, n)
            = Hits(cnt + 1, r, n) + Hits(Counters - 1, r, n) - Hits(cnt - cl + Counters, r, n)
      BY <2>4, <3>5
    <3>7. Window(cnt + 1, cl + 1, r, n)
            = Window(cnt, cl, r, n) + IF (cnt + 1) % n = r THEN 1 ELSE 0
      BY <2>2, <2>3, <3>2, <3>4, <3>6
    <3> QED BY <2>1, <3>7 DEF next
  <2> QED BY <2>5, <2>6
<1>2. CASE cnt + 1 = Counters
  <2>1. next = 0
    <3>1. cnt + 1 \in Nat /\ 0 \in 0..(Counters - 1) /\ cnt + 1 = Counters * 1 + 0
      BY <1>0, <1>2
    <3> QED BY <1>0, <3>1, QuotientIs
  <2> HIDE DEF next
  <2>2. Hits(0, r, n) = IF 0 % n = r THEN 1 ELSE 0
    <3>1. Hits(-1 + 1, r, n) = Hits(-1, r, n) + IF (-1 + 1) % n = r THEN 1 ELSE 0
      BY HitsGrow
    <3> QED BY <3>1, NoHits
  <2>3. 0 - (cl + 1) + Counters = cnt - cl /\ cnt >= cl /\ ~ (0 >= cl + 1)
    BY <1>0, <1>2
  <2>4. Hits(cnt, r, n) \in Nat /\ Hits(cnt - cl, r, n) \in Nat BY <2>3, HitsType
  <2>5. Counters - 1 = cnt BY <1>0, <1>2
  <2> QED BY <2>1, <2>2, <2>3, <2>4, <2>5 DEF Window, next
<1> QED BY <1>0, <1>1, <1>2

LEMMA WindowSpread ==
  ASSUME NEW cnt \in 0..(Counters - 1), NEW cl \in Nat, cl <= Counters,
         NEW n \in Nat \ {0}, NEW r \in 0..(n - 1), NEW t \in 0..(n - 1)
  PROVE  Window(cnt, cl, r, n) - Window(cnt, cl, t, n)
           <= IF cnt < cl /\ Counters % n # 0 THEN 2 ELSE 1
<1>0. Counters \in Nat \ {0} BY CountersAssumption
<1> DEFINE H(x, y) == Hits(x, y, n)
           base == cnt - cl + Counters
<1>h. ASSUME NEW x \in Int, x >= -1, NEW y \in 0..(n - 1) PROVE H(x, y) \in Nat
  BY <1>h, HitsType
<1>c. cnt \in Int /\ cnt >= -1 BY <1>0
<1>1. H(cnt, r) \in Nat /\ H(cnt, t) \in Nat
  <2> HIDE DEF H
  <2> QED BY <1>h, <1>c
<1>2. CASE cnt >= cl
  <2>1. cnt - cl \in Nat BY <1>2
  <2>2. H(cnt - cl, r) \in Nat /\ H(cnt - cl, t) \in Nat
    <3> HIDE DEF H
    <3>1. cnt - cl \in Int /\ cnt - cl >= -1 BY <2>1
    <3> QED BY <1>h, <3>1
  <2>3. (H(cnt, r) - H(cnt - cl, r)) - (H(cnt, t) - H(cnt - cl, t)) <= 1
    BY <2>1, HitsSpread
  <2> HIDE DEF H
  <2>4. Window(cnt, cl, r, n) = H(cnt, r) - H(cnt - cl, r)
        /\ Window(cnt, cl, t, n) = H(cnt, t) - H(cnt - cl, t)
    BY <1>2 DEF Window, H
  <2>5. ~ (cnt < cl) BY <1>2
  <2> QED BY <1>1, <2>2, <2>3, <2>4, <2>5
<1>3. CASE cnt < cl
  <2>1. base \in Nat /\ Counters - 1 \in Nat BY <1>0
  <2>2. /\ H(base, r) \in Nat /\ H(base, t) \in Nat
        /\ H(Counters - 1, r) \in Nat /\ H(Counters - 1, t) \in Nat
    <3>1. base \in Int /\ base >= -1 /\ Counters - 1 \in Int /\ Counters - 1 >= -1
      BY <2>1
    <3> HIDE DEF H, base
    <3> QED BY <1>h, <3>1
  <2>3. /\ Window(cnt, cl, r, n) = H(cnt, r) + H(Counters - 1, r) - H(base, r)
        /\ Window(cnt, cl, t, n) = H(cnt, t) + H(Counters - 1, t) - H(base, t)
    BY <1>3 DEF Window
  <2>4. (H(Counters - 1, r) - H(base, r)) - (H(Counters - 1, t) - H(base, t)) <= 1
    BY <2>1, HitsSpread
  <2>5. H(cnt, r) - H(cnt, t) <= 1
    <3>1. (H(cnt, r) - H(-1, r)) - (H(cnt, t) - H(-1, t)) <= 1 BY HitsSpread
    <3>2. H(-1, r) = 0 /\ H(-1, t) = 0 BY NoHits
    <3> HIDE DEF H
    <3> QED BY <1>1, <3>1, <3>2
  <2>6. (H(cnt, r) - H(base, r)) - (H(cnt, t) - H(base, t)) <= 1 BY <2>1, HitsSpread
  <2>7. ASSUME Counters % n = 0 PROVE H(Counters - 1, r) = H(Counters - 1, t)
    <3> DEFINE q == Counters \div n
    <3>1. q \in Int /\ Counters = n * q + 0 BY <1>0, <2>7, Division
    <3> HIDE DEF q
    <3>2. ASSUME NEW y \in 0..(n - 1) PROVE H(Counters - 1, y) = q
      <4>1. /\ (Counters - 1) + n - y \in Nat
            /\ n - 1 - y \in 0..(n - 1)
            /\ (Counters - 1) + n - y = n * q + (n - 1 - y)
        BY <1>0, <3>1
      <4> QED BY <3>1, <4>1, QuotientIs DEF Hits
    <3> QED BY <3>2
  <2> HIDE DEF H, base
  <2>8. CASE Counters % n = 0
    <3>1. H(Counters - 1, r) = H(Counters - 1, t) BY <2>7, <2>8
    <3> QED BY <1>1, <1>3, <2>2, <2>3, <2>6, <2>8, <3>1
  <2>9. CASE Counters % n # 0
    BY <1>1, <1>3, <2>2, <2>3, <2>4, <2>5, <2>9
  <2> QED BY <2>8, <2>9
<1> QED BY <1>2, <1>3

LEMMA FirstWindow ==
  ASSUME NEW cnt \in 0..(Counters - 1), NEW n \in Nat \ {0}, NEW r \in 0..(n - 1)
  PROVE  Window(cnt, 0, r, n) = 0
<1>1. Hits(cnt, r, n) \in Nat
  <2>1. cnt \in Int /\ cnt >= -1 BY CountersAssumption
  <2> QED BY <2>1, HitsType
<1>2. cnt - 0 = cnt /\ cnt >= 0 BY CountersAssumption
<1> QED BY <1>1, <1>2 DEF Window

\* The calls of a slice so far are those of its window.
LEMMA CountedCall ==
  ASSUME STypes, Counted, RoundRobinCall
  PROVE  Counted'
<1> USE DEF STypes, StrategiesTypeOK, TypeOK
<1>1. PICK p \in Pools : (p = pool => calls < MaxCalls) /\ SelectRoundRobin(p)
  BY DEF RoundRobinCall
<1> DEFINE n == Cardinality(p)
           old == IF p = pool THEN calls ELSE 0
           before == IF p = pool THEN picks ELSE Nobody
           next == (counter + 1) % Counters
           hit == Nth(p, next)
<1>2. name' = name /\ counter' = next /\ pool' = p /\ calls' = old + 1
  BY <1>1 DEF SelectRoundRobin, Record
<1>3. p \in SUBSET Ids /\ p # {} BY PoolsAssumption
<1>4. n \in Nat /\ n > 0 BY <1>3, RankFacts, TotalFacts, FS_EmptySet
<1>5. next \in 0..(Counters - 1) /\ next \in Nat BY RoundRobinPicks, CountersAssumption
<1>6. hit \in p /\ Rank(p, hit) = next % n
  <2>1. next % n \in 0..(n - 1)
    <3> HIDE DEF next, n
    <3> QED BY <1>4, <1>5, Division
  <2> QED BY <1>3, <2>1, MemberFacts DEF Nth
<1>7. picks' = [before EXCEPT ![hit] = @ + 1] /\ before \in [Ids -> Int]
  <2>1. hit # Nil BY <1>3, <1>6, NilAssumption
  <2>2. before \in [Ids -> Int] BY BoundAssumption DEF Nobody
  <2>3. Record(p, hit) BY <1>1, <1>2 DEF SelectRoundRobin
  <2> QED BY <2>1, <2>2, <2>3 DEF Record
<1>8. old \in Nat BY BoundAssumption
<1>9. CASE name # "round_robin" \/ ~ (calls' <= Counters) BY <1>2, <1>9 DEF Counted
<1>10. CASE name = "round_robin" /\ calls' <= Counters
  <2>1. old < Counters BY <1>2, <1>8, <1>10, CountersAssumption
  <2>2. ASSUME NEW id \in p
        PROVE  picks'[id] = Window(next, old + 1, Rank(p, id), n)
    <3> DEFINE r == Rank(p, id)
    <3>1. r \in 0..(n - 1) BY <1>3, RankFacts
    <3>2. before[id] = Window(counter, old, r, n)
      <4>1. CASE p = pool
        <5>1. calls <= Counters BY <1>8, <2>1, <4>1, CountersAssumption
        <5> QED BY <1>10, <4>1, <5>1 DEF Counted, Window
      <4>2. CASE p # pool
        <5>1. n \in Nat \ {0} BY <1>4
        <5>2. Window(counter, 0, r, n) = 0
          <6> HIDE DEF n, r
          <6> QED BY <3>1, <5>1, FirstWindow
        <5>3. old = 0 /\ before[id] = 0 BY <1>3, <4>2 DEF Nobody
        <5> QED BY <5>2, <5>3
      <4> QED BY <4>1, <4>2
    <3>3. Window(next, old + 1, r, n) = Window(counter, old, r, n)
                                          + IF next % n = r THEN 1 ELSE 0
      <4>1. n \in Nat \ {0} /\ counter \in 0..(Counters - 1) BY <1>4
      <4> HIDE DEF n, r, old
      <4> QED BY <1>8, <2>1, <3>1, <4>1, WindowGrows
    <3>4. (next % n = r) <=> (id = hit) BY <1>3, <1>6, RankFacts
    <3> HIDE DEF hit, before
    <3>5. picks'[id] = before[id] + (IF id = hit THEN 1 ELSE 0)
      <4>1. id \in Ids /\ hit \in Ids BY <1>3, <1>6
      <4>2. before[id] \in Int BY <1>7, <4>1
      <4> QED BY <1>7, <4>1, <4>2
    <3> HIDE DEF r, old, n, next
    <3>6. picks'[id] = Window(next, old + 1, r, n) BY <3>2, <3>3, <3>4, <3>5
    <3> QED BY <3>6 DEF r
  <2> HIDE DEF n, next, old
  <2>3. \A id \in pool' :
          picks'[id] = Window(counter', calls', Rank(pool', id), Cardinality(pool'))
    BY <1>2, <2>2 DEF n
  <2> QED BY <2>3 DEF Counted, Rank
<1> QED BY <1>9, <1>10

LEMMA CountedKept ==
  ASSUME STypes, Counted, [StrategiesNext]_strategyVars
  PROVE  Counted'
<1>1. CASE RoundRobinCall BY <1>1, CountedCall
<1>2. CASE WeightedCall
  BY <1>2 DEF WeightedCall, wrr, Counted
<1>3. CASE MeasuredCall
  BY <1>3 DEF MeasuredCall, CallBackend, Counted
<1>4. CASE \E id \in Ids : Turn(id)
  BY <1>4 DEF Turn, Counted
<1>5. CASE UNCHANGED strategyVars
  BY <1>5 DEF strategyVars, wrrVars, vars, memory, Counted, Rank
<1> QED BY <1>1, <1>2, <1>3, <1>4, <1>5, StrategiesSteps

LEMMA CountedStart ==
  ASSUME StrategiesInit
  PROVE  Counted
BY DEF StrategiesInit, Init, Counted

LEMMA CountedIsEven ==
  ASSUME STypes, Counted
  PROVE  Even
<1> USE DEF STypes, StrategiesTypeOK, TypeOK
<1> SUFFICES ASSUME name = "round_robin", calls <= Counters, NEW i \in pool, NEW j \in pool
             PROVE  picks[i] - picks[j]
                      <= IF counter < calls /\ Counters % Cardinality(pool) # 0
                         THEN 2 ELSE 1
  BY DEF Even
<1> DEFINE n == Cardinality(pool)
           r == Rank(pool, i)
           t == Rank(pool, j)
<1>1. pool \in SUBSET Ids /\ pool # {} OBVIOUS
<1>2. n \in Nat \ {0} /\ r \in 0..(n - 1) /\ t \in 0..(n - 1)
  BY <1>1, RankFacts, TotalFacts, FS_EmptySet
<1>3. picks[i] = Window(counter, calls, r, n) BY DEF Counted, Window
<1>4. picks[j] = Window(counter, calls, t, n) BY DEF Counted, Window
<1>5. calls \in Nat BY BoundAssumption
<1>6. counter \in 0..(Counters - 1) OBVIOUS
<1>7. Window(counter, calls, r, n) - Window(counter, calls, t, n)
        <= IF counter < calls /\ Counters % n # 0 THEN 2 ELSE 1
  <2> HIDE DEF n, r, t
  <2> QED BY <1>2, <1>5, <1>6, WindowSpread
<1> QED BY <1>3, <1>4, <1>7

(* Round robin serves the members of a slice evenly. *)
THEOREM RoundRobinIsEven == StrategiesSpec => []Even
<1>1. StrategiesInit => STypes /\ Counted BY StrategiesStart, CountedStart
<1>2. STypes /\ Counted /\ [StrategiesNext]_strategyVars => (STypes /\ Counted)'
  BY StrategiesKeepTypes, CountedKept
<1>3. STypes /\ Counted => Even BY CountedIsEven
<1> QED BY <1>1, <1>2, <1>3, PTL DEF StrategiesSpec

-----------------------------------------------------------------------------
(* Least latency tries one backend of each slice *)

\* An average that is measured stays measured.
LEMMA StaysMeasured ==
  ASSUME NEW rt \in [latency : Nat, errors : 0..(Precision - 1)], rt.latency > 0,
         NEW l \in Nat \ {0}, NEW e \in BOOLEAN
  PROVE  RecordResult(rt, l, e).latency > 0
<1>1. (7 * rt.latency + 3 * l) \div 10 > 0 OBVIOUS
<1> QED BY <1>1 DEF RecordResult

LEMMA TriedFacts ==
  ASSUME STypes
  PROVE  /\ IsFiniteSet(Scored) /\ IsFiniteSet(Tried) /\ IsFiniteSet(Measured(Ids))
         /\ Cardinality(Tried) \in Nat /\ Cardinality(Scored) \in Nat
         /\ Cardinality(Measured(Ids)) \in Nat
         /\ Cardinality(Tried) <= Cardinality(Scored)
<1>1. IsFiniteSet(SUBSET Ids) BY IdsAssumption, FS_SUBSET
<1>2. Scored \subseteq SUBSET Ids BY PoolsAssumption, ScoredAssumption
<1>3. IsFiniteSet(Scored) BY <1>1, <1>2, FS_Subset
<1>4. Tried \subseteq Scored BY DEF Tried
<1>5. IsFiniteSet(Tried) /\ Cardinality(Tried) <= Cardinality(Scored)
  BY <1>3, <1>4, FS_Subset
<1>6. Measured(Ids) \subseteq Ids BY DEF Measured
<1>7. IsFiniteSet(Measured(Ids)) BY <1>6, IdsAssumption, FS_Subset
<1> QED BY <1>3, <1>5, <1>7, FS_CardinalityType

\* A first call goes to a slice that nobody was measured in.
LEMMA TrialCall ==
  ASSUME STypes, FirstTrials, NEW p \in Scored, NEW id \in Quickest(p),
         NEW another \in BOOLEAN, CallBackend(p, id, another), name = "least_latency"
  PROVE  Cardinality(Measured(Ids)') <= Cardinality(Tried')
<1> USE DEF STypes, StrategiesTypeOK, TypeOK
<1> DEFINE l == IF id \in down THEN Fast ELSE Slow
           e == id \in down
           new == RecordResult(runtime[id], l, e)
<1>1. p \in SUBSET Ids /\ id \in p BY PoolsAssumption, ScoredAssumption DEF Quickest, Measured
<1>2. runtime' = [runtime EXCEPT ![id] = new] BY <1>1 DEF CallBackend
<1>3. l \in Nat \ {0} /\ e \in BOOLEAN BY LatencyAssumption
<1>4. runtime[id] \in [latency : Nat, errors : 0..(Precision - 1)] BY <1>1
<1>5. runtime[id].latency > 0 => new.latency > 0
  <2> HIDE DEF l, e
  <2> QED BY <1>3, <1>4, StaysMeasured
<1> HIDE DEF new
<1>6. Measured(Ids)' = Measured(Ids) \/ Measured(Ids)' = Measured(Ids) \union {id}
  BY <1>1, <1>2, <1>5 DEF Measured
<1>7. CASE Measured(Ids)' = Measured(Ids)
  <2>1. Tried' = Tried BY <1>7 DEF Tried
  <2> QED BY <1>7, <2>1 DEF FirstTrials
<1>8. CASE Measured(Ids)' = Measured(Ids) \union {id} /\ id \notin Measured(Ids)
  <2>1. Measured(p) = {} BY <1>1, <1>8 DEF Quickest, Measured
  <2>2. p \notin Tried BY <1>1, <2>1 DEF Tried, Measured
  <2>3. Tried \union {p} \subseteq Tried' BY <1>1, <1>8 DEF Tried
  <2>4. Cardinality(Tried \union {p}) = Cardinality(Tried) + 1
    BY <2>2, TriedFacts, FS_AddElement
  <2>5. Cardinality(Measured(Ids)') = Cardinality(Measured(Ids)) + 1
    BY <1>8, TriedFacts, FS_AddElement
  <2>6. IsFiniteSet(Tried')
    <3>1. Tried' \subseteq Scored BY DEF Tried
    <3> QED BY <3>1, TriedFacts, FS_Subset
  <2>7. Cardinality(Tried \union {p}) <= Cardinality(Tried') BY <2>3, <2>6, FS_Subset
  <2>8. Cardinality(Tried') \in Nat BY <2>6, FS_CardinalityType
  <2>9. Cardinality(Measured(Ids)) <= Cardinality(Tried) BY DEF FirstTrials
  <2> QED BY <2>4, <2>5, <2>7, <2>8, <2>9, TriedFacts
<1> QED BY <1>6, <1>7, <1>8

LEMMA TrialsKept ==
  ASSUME STypes, FirstTrials, [StrategiesNext]_strategyVars
  PROVE  FirstTrials'
<1>1. CASE MeasuredCall
  <2>1. PICK p \in Pools, another \in BOOLEAN : \E id \in p :
          /\ CallBackend(p, id, another)
          /\ name = "least_latency" => p \in Scored /\ id \in Quickest(p)
    BY <1>1 DEF MeasuredCall
  <2>2. PICK id \in p :
          /\ CallBackend(p, id, another)
          /\ name = "least_latency" => p \in Scored /\ id \in Quickest(p)
    BY <2>1
  <2>3. name' = name BY <2>2 DEF CallBackend
  <2> QED BY <2>2, <2>3, TrialCall DEF FirstTrials
<1>2. CASE RoundRobinCall
  BY <1>2 DEF RoundRobinCall, SelectRoundRobin, FirstTrials
<1>3. CASE WeightedCall BY <1>3 DEF WeightedCall, wrr, FirstTrials
<1>4. CASE \E id \in Ids : Turn(id)
  BY <1>4 DEF Turn, memory, FirstTrials, Tried, Measured
<1>5. CASE UNCHANGED strategyVars
  BY <1>5 DEF strategyVars, memory, FirstTrials, Tried, Measured
<1> QED BY <1>1, <1>2, <1>3, <1>4, <1>5, StrategiesSteps

LEMMA TrialsStart ==
  ASSUME StrategiesInit
  PROVE  FirstTrials
<1>1. Measured(Ids) = {} BY DEF StrategiesInit, Measured, Fresh
<1>2. Cardinality(Measured(Ids)) = 0 BY <1>1, FS_EmptySet
<1>3. Cardinality(Tried) \in Nat BY StrategiesStart, TriedFacts
<1> QED BY <1>2, <1>3 DEF FirstTrials

(***************************************************************************)
(* Least latency gives each slice's backends one first call among them.    *)
(***************************************************************************)
THEOREM OneTrialEach == StrategiesSpec => []OneTrialPerSlice
<1>1. StrategiesInit => STypes /\ FirstTrials BY StrategiesStart, TrialsStart
<1>2. STypes /\ FirstTrials /\ [StrategiesNext]_strategyVars => (STypes /\ FirstTrials)'
  BY StrategiesKeepTypes, TrialsKept
<1>3. STypes /\ FirstTrials => OneTrialPerSlice
  <2> SUFFICES ASSUME STypes, FirstTrials, name = "least_latency"
               PROVE  Cardinality(Measured(Ids)) <= Cardinality(Scored)
    BY DEF OneTrialPerSlice
  <2>1. Cardinality(Measured(Ids)) <= Cardinality(Tried) BY DEF FirstTrials
  <2> QED BY <2>1, TriedFacts
<1> QED BY <1>1, <1>2, <1>3, PTL DEF StrategiesSpec

-----------------------------------------------------------------------------
(* Least latency leaves a backend that has become slow *)

LEMMA SlowerFacts ==
  ASSUME NEW l \in Nat
  PROVE  Slower(l) \in Nat /\ (l > 0 => Slower(l) > 0)
BY LatencyAssumption DEF Slower

\* The assumption is no restriction but for the shortest latencies.
LEMMA LongLatenciesWillDo ==
  ASSUME Slow >= 105
  PROVE  \A l \in 1..Slow : 2 * Slower(Slower(l)) > Slow
<1> SUFFICES ASSUME NEW l \in 1..Slow PROVE 2 * Slower(Slower(l)) > Slow
  OBVIOUS
<1>1. Slow \in Nat /\ l \in Nat /\ l >= 1 BY LatencyAssumption
<1>2. PICK m \in Nat : m = Slower(l) BY <1>1, SlowerFacts
<1>3. 10 * m >= 7 * l + 3 * Slow - 9 BY <1>1, <1>2 DEF Slower
<1>4. PICK k \in Nat : k = Slower(m) BY SlowerFacts
<1>5. 10 * k >= 7 * m + 3 * Slow - 9 BY <1>1, <1>4 DEF Slower
<1> QED BY <1>1, <1>2, <1>3, <1>4, <1>5

\* How many slow answers a backend takes until its average is past half.
Patience ==
  [id \in Ids |-> IF 2 * runtime[id].latency > Slow THEN 0
                  ELSE IF 2 * Slower(runtime[id].latency) > Slow THEN 1 ELSE 2]

Patiences == SumFunctionOnSet(Patience, Measured(Ids))

Leaving ==
  (name = "least_latency" /\ streak > 0) =>
    /\ streak + Patiences <= 2 * Cardinality(Measured(Ids))
    /\ Patiences > 0

LEMMA PatienceFacts ==
  ASSUME STypes
  PROVE  /\ Patience \in [Ids -> Int] /\ \A id \in Ids : Patience[id] \in 0..2
         /\ Measured(Ids) \in SUBSET Ids
         /\ Patiences \in Nat /\ Patiences <= 2 * Cardinality(Measured(Ids))
<1>1. Patience \in [Ids -> Int] /\ \A id \in Ids : Patience[id] \in 0..2
  BY DEF Patience
<1>2. Measured(Ids) \in SUBSET Ids /\ IsFiniteSet(Measured(Ids))
  BY TriedFacts DEF Measured
<1>3. /\ \A x \in Measured(Ids) : Patience[x] <= 2
      /\ \A x \in Measured(Ids) : Patience[x] >= 0
  BY <1>1, <1>2
<1>4. Patiences \in Nat BY <1>1, <1>2, <1>3, SumOfNaturals DEF Patiences
<1>5. Patiences <= Cardinality(Measured(Ids)) * 2
  BY <1>1, <1>2, <1>3, SumAtMost DEF Patiences
<1>6. Cardinality(Measured(Ids)) \in Nat BY TriedFacts
<1> QED BY <1>1, <1>2, <1>4, <1>5, <1>6

LEMMA SlowAnswer ==
  ASSUME STypes, STypes', Leaving, NEW p \in Scored, NEW id \in Quickest(p),
         CallBackend(p, id, TRUE), id \notin down, Twice(p, id), name = "least_latency"
  PROVE  /\ streak' + Patiences' <= 2 * Cardinality(Measured(Ids)')
         /\ Patiences' > 0
<1> USE DEF STypes, StrategiesTypeOK, TypeOK
<1> DEFINE l == runtime[id].latency
           M == Measured(Ids)
<1>1. p \in SUBSET Ids BY PoolsAssumption, ScoredAssumption
<1>2. PICK j \in Measured(p) \ {id} : 2 * runtime[j].latency <= Slow BY DEF Twice
<1>3. id \in Measured(p) /\ id \in Ids /\ j \in Ids BY <1>1, <1>2 DEF Quickest, Measured
<1>4. l \in Nat /\ runtime[j].latency \in Nat /\ l > 0 BY <1>3 DEF Measured
<1>5. l <= runtime[j].latency BY <1>2, <1>3, <1>4 DEF Quickest
<1>6. l \in 1..Slow /\ 2 * l <= Slow BY <1>2, <1>4, <1>5, LatencyAssumption
<1>7. runtime' = [runtime EXCEPT ![id] = RecordResult(runtime[id], Slow, id \in down)]
  BY <1>3 DEF CallBackend
<1>8. /\ runtime'[id].latency = Slower(l)
      /\ \A i \in Ids \ {id} : runtime'[i] = runtime[i]
  BY <1>3, <1>7 DEF RecordResult, Slower
<1>9. M' = M /\ id \in M /\ j \in M
  <2>1. Slower(l) > 0 /\ Slower(l) \in Nat BY <1>4, SlowerFacts
  <2>2. \A i \in Ids : runtime'[i].latency > 0 <=> runtime[i].latency > 0
    BY <1>4, <1>8, <2>1
  <2>3. M' = M BY <2>2 DEF Measured
  <2>4. id \in M /\ j \in M BY <1>2, <1>3 DEF Measured
  <2> QED BY <2>3, <2>4
<1>10. Patience'[id] <= Patience[id] - 1
  <2>1. 2 * Slower(Slower(l)) > Slow BY <1>6, SlowAssumption
  <2>2. Patience'[id] = IF 2 * Slower(l) > Slow THEN 0
                        ELSE IF 2 * Slower(Slower(l)) > Slow THEN 1 ELSE 2
    BY <1>3, <1>8 DEF Patience
  <2>3. Patience[id] = IF 2 * Slower(l) > Slow THEN 1 ELSE 2
    <3>1. ~ (2 * l > Slow) BY <1>6, LatencyAssumption
    <3> QED BY <1>3, <3>1 DEF Patience
  <2> QED BY <2>1, <2>2, <2>3
<1>11. \A i \in M \ {id} : Patience'[i] = Patience[i]
  BY <1>8 DEF Patience, Measured
<1>12. Patience'[j] > 0
  <2>1. ~ (2 * runtime[j].latency > Slow) BY <1>2, <1>4, LatencyAssumption
  <2>2. Patience[j] > 0 BY <1>3, <2>1 DEF Patience
  <2> QED BY <1>2, <1>9, <1>11, <2>2
<1>13. /\ Patience \in [Ids -> Int] /\ Patience' \in [Ids -> Int]
       /\ M \in SUBSET Ids /\ IsFiniteSet(M)
  BY PatienceFacts, TriedFacts DEF Patience
<1>14. SumFunctionOnSet(Patience', M) = Patiences + (Patience'[id] - Patience[id])
  <2> DEFINE f == Patience
             g == Patience'
  <2> HIDE DEF M, f, g
  <2>1. f \in [Ids -> Int] /\ g \in [Ids -> Int] /\ \A i \in M \ {id} : g[i] = f[i]
    BY <1>11, <1>13 DEF f, g
  <2>2. SumFunctionOnSet(g, M) = SumFunctionOnSet(f, M) + (g[id] - f[id])
    <3>1. M \in SUBSET Ids /\ IsFiniteSet(M) /\ id \in M BY <1>9, <1>13
    <3> QED BY ONLY <2>1, <3>1, SumChanges
  <2> QED BY <2>2 DEF Patiences, M, f, g
<1>15. Patiences' = SumFunctionOnSet(Patience', M) BY <1>9 DEF Patiences
<1>16. Patience[id] \in Int /\ Patience'[id] \in Int BY <1>3, <1>13
<1>17. Patiences' <= Patiences - 1
  BY <1>10, <1>14, <1>15, <1>16, PatienceFacts
<1>18. Patiences' > 0
  <2> DEFINE f == Patience'
  <2>1. \A x \in M : f[x] >= 0 BY <1>9, <1>13, PatienceFacts DEF Patience
  <2>2. {j} \in SUBSET M BY <1>9
  <2>3. f \in [Ids -> Int] /\ f[j] \in Int BY <1>3, <1>13
  <2> HIDE DEF f, M
  <2>4. SumFunctionOnSet(f, {j}) <= SumFunctionOnSet(f, M)
    BY <1>13, <2>1, <2>2, <2>3, SumOfPart
  <2>6. SumFunctionOnSet(f, {j}) = f[j] BY <1>3, <2>3, SumOfOne
  <2>7. SumFunctionOnSet(f, M) \in Int BY <1>13, <2>3, SumType
  <2> QED BY <1>12, <1>15, <2>3, <2>4, <2>6, <2>7 DEF f
<1>19. streak' = streak + 1 BY DEF CallBackend
<1>20. streak \in Nat /\ Cardinality(M) \in Nat BY PrecisionAssumption, TriedFacts
<1>21. streak + Patiences <= 2 * Cardinality(M)
  BY <1>20, PatienceFacts DEF Leaving
<1>22. Patiences \in Nat /\ Patiences' \in Nat BY PatienceFacts, <1>13, <1>14, <1>15, <1>16, <1>18
<1> QED BY <1>9, <1>17, <1>18, <1>19, <1>20, <1>21, <1>22

LEMMA LeavingKept ==
  ASSUME STypes, Leaving, [StrategiesNext]_strategyVars
  PROVE  Leaving'
<1>0. STypes' BY StrategiesKeepTypes
<1>1. CASE MeasuredCall
  <2>1. PICK p \in Pools, another \in BOOLEAN : \E id \in p :
          /\ CallBackend(p, id, another)
          /\ name = "least_latency" =>
               p \in Scored /\ id \in Quickest(p)
               /\ (another => id \notin down /\ Twice(p, id))
    BY <1>1 DEF MeasuredCall
  <2>2. PICK id \in p :
          /\ CallBackend(p, id, another)
          /\ name = "least_latency" =>
               p \in Scored /\ id \in Quickest(p)
               /\ (another => id \notin down /\ Twice(p, id))
    BY <2>1
  <2>3. name' = name /\ streak' = IF another THEN streak + 1 ELSE 0
    BY <2>2 DEF CallBackend
  <2>4. CASE another BY <1>0, <2>2, <2>3, <2>4, SlowAnswer DEF Leaving
  <2>5. CASE ~ another BY <2>3, <2>5 DEF Leaving
  <2> QED BY <2>4, <2>5
<1>2. CASE RoundRobinCall
  BY <1>2 DEF RoundRobinCall, SelectRoundRobin, Leaving
<1>3. CASE WeightedCall BY <1>3 DEF WeightedCall, wrr, Leaving
<1>4. CASE \E id \in Ids : Turn(id)
  BY <1>4 DEF Turn, memory, Leaving, Patiences, Patience, Measured
<1>5. CASE UNCHANGED strategyVars
  BY <1>5 DEF strategyVars, memory, Leaving, Patiences, Patience, Measured
<1> QED BY <1>1, <1>2, <1>3, <1>4, <1>5, StrategiesSteps

LEMMA LeavingMeans ==
  ASSUME STypes, FirstTrials, Leaving
  PROVE  SlowIsLeft
<1> SUFFICES ASSUME name = "least_latency" PROVE streak < 2 * Cardinality(Scored)
  BY DEF SlowIsLeft
<1>1. streak \in Nat BY PrecisionAssumption DEF STypes, StrategiesTypeOK
<1>2. /\ Cardinality(Scored) \in Nat /\ Cardinality(Measured(Ids)) \in Nat
      /\ Cardinality(Measured(Ids)) <= Cardinality(Scored)
  BY TriedFacts DEF FirstTrials
<1>3. Cardinality(Scored) > 0
  <2>1. Cardinality(Scored) # 0 BY TriedFacts, ScoredAssumption, FS_EmptySet
  <2> QED BY <1>2, <2>1
<1>4. CASE streak = 0 BY <1>2, <1>3, <1>4
<1>5. CASE streak > 0
  <2>1. streak + Patiences <= 2 * Cardinality(Measured(Ids)) /\ Patiences > 0
    BY <1>5 DEF Leaving
  <2>2. Patiences \in Nat BY PatienceFacts
  <2> QED BY <1>1, <1>2, <2>1, <2>2
<1> QED BY <1>1, <1>4, <1>5

(***************************************************************************)
(* A backend that has become slow is left for one with half its latency.   *)
(***************************************************************************)
THEOREM SlowOnesAreLeft == StrategiesSpec => []SlowIsLeft
<1>1. StrategiesInit => STypes /\ FirstTrials /\ Leaving
  BY StrategiesStart, TrialsStart DEF StrategiesInit, Leaving
<1>2. STypes /\ FirstTrials /\ Leaving /\ [StrategiesNext]_strategyVars
        => (STypes /\ FirstTrials /\ Leaving)'
  BY StrategiesKeepTypes, TrialsKept, LeavingKept
<1>3. STypes /\ FirstTrials /\ Leaving => SlowIsLeft BY LeavingMeans
<1> QED BY <1>1, <1>2, <1>3, PTL DEF StrategiesSpec

-----------------------------------------------------------------------------
(* Adaptive leaves a backend that fails                                    *)

\* A function can be applied over and over again.
LEMMA IterationExists ==
  ASSUME NEW step \in [Nat -> Nat], NEW a \in Nat
  PROVE  \E f \in [Nat -> Nat] : f[0] = a /\ \A n \in Nat : f[n + 1] = step[f[n]]
<1> DEFINE P(n) == {g \in [0..n -> Nat] :
                      g[0] = a /\ \A k \in Nat : k < n => g[k + 1] = step[g[k]]}
           E == {n \in Nat : P(n) # {}}
           A == {k \in Nat : \A n, m \in Nat : \A g \in P(n), h \in P(m) :
                   (k <= n /\ k <= m) => g[k] = h[k]}
<1>1. \A n \in Nat : n \in E
  <2>1. 0 \in E
    <3> DEFINE g == [k \in 0..0 |-> a]
    <3>1. g \in P(0) OBVIOUS
    <3> QED BY <3>1
  <2>2. ASSUME NEW n \in Nat, n \in E PROVE n + 1 \in E
    <3>1. PICK g : g \in P(n) BY <2>2
    <3> DEFINE h == [k \in 0..(n + 1) |-> IF k <= n THEN g[k] ELSE step[g[n]]]
    <3>2. h \in [0..(n + 1) -> Nat]
      <4>1. g \in [0..n -> Nat] BY <3>1
      <4> HIDE DEF P
      <4>2. n \in 0..n OBVIOUS
      <4>3. step[g[n]] \in Nat BY <4>1, <4>2
      <4>4. ASSUME NEW k \in 0..(n + 1)
            PROVE  (IF k <= n THEN g[k] ELSE step[g[n]]) \in Nat
        <5>1. CASE k <= n
          <6>1. k \in 0..n BY <5>1
          <6> QED BY <4>1, <5>1, <6>1
        <5>2. CASE ~ (k <= n) BY <4>3, <5>2
        <5> QED BY <5>1, <5>2
      <4> QED BY <4>4
    <3>3. h[0] = a BY <3>1
    <3>4. ASSUME NEW k \in Nat, k < n + 1 PROVE h[k + 1] = step[h[k]]
      <4>1. k \in 0..(n + 1) /\ k + 1 \in 0..(n + 1) /\ h[k] = g[k] BY <3>4
      <4>2. CASE k < n
        <5>1. k + 1 <= n BY <4>2
        <5>2. h[k + 1] = g[k + 1] BY <4>1, <5>1
        <5>3. g[k + 1] = step[g[k]] BY <3>1, <4>2
        <5> QED BY <4>1, <5>2, <5>3
      <4>3. CASE k = n BY <4>1, <4>3
      <4> QED BY <3>4, <4>2, <4>3
    <3> HIDE DEF h
    <3>5. h \in P(n + 1) BY <3>2, <3>3, <3>4
    <3>6. n + 1 \in Nat OBVIOUS
    <3> HIDE DEF P
    <3> QED BY <3>5, <3>6
  <2> HIDE DEF E
  <2> QED BY <2>1, <2>2, NatInductive
<1>2. \A n \in Nat : \A g \in P(n) : \A k \in Nat : k < n => g[k + 1] = step[g[k]]
  OBVIOUS
<1>3. \A n \in Nat : \A g \in P(n) : g[0] = a /\ g \in [0..n -> Nat] OBVIOUS
<1>4. \A k \in Nat : k \in A
  <2> HIDE DEF P
  <2>1. 0 \in A BY <1>3
  <2>2. ASSUME NEW k \in Nat, k \in A PROVE k + 1 \in A
    <3>1. ASSUME NEW n \in Nat, NEW m \in Nat, NEW g \in P(n), NEW h \in P(m),
                 k + 1 <= n, k + 1 <= m
          PROVE  g[k + 1] = h[k + 1]
      <4>1. k <= n /\ k <= m /\ k < n /\ k < m BY <3>1
      <4>2. g[k] = h[k] BY <2>2, <4>1
      <4>3. g[k + 1] = step[g[k]] /\ h[k + 1] = step[h[k]] BY <1>2, <4>1
      <4> QED BY <4>2, <4>3
    <3>2. k + 1 \in Nat OBVIOUS
    <3> QED BY <3>1, <3>2
  <2> HIDE DEF A
  <2> QED BY <2>1, <2>2, NatInductive
<1> DEFINE G(n) == CHOOSE g : g \in P(n)
           f == [n \in Nat |-> G(n)[n]]
<1>5. \A n \in Nat : G(n) \in P(n) BY <1>1
<1> HIDE DEF G, P
<1>6. ASSUME NEW n \in Nat PROVE f[n] \in Nat
  <2>1. G(n) \in [0..n -> Nat] BY <1>3, <1>5
  <2> QED BY <2>1
<1>7. f[0] = a BY <1>3, <1>5
<1>8. ASSUME NEW n \in Nat PROVE f[n + 1] = step[f[n]]
  <2>1. n + 1 \in Nat /\ n < n + 1 /\ n <= n + 1 /\ n <= n OBVIOUS
  <2>2. G(n) \in P(n) /\ G(n + 1) \in P(n + 1) BY <1>5, <2>1
  <2>3. G(n + 1)[n + 1] = step[G(n + 1)[n]] BY <1>2, <2>1, <2>2
  <2>4. n \in A BY <1>4
  <2>5. G(n + 1)[n] = G(n)[n] BY <2>1, <2>2, <2>4
  <2> QED BY <2>1, <2>3, <2>5
<1>9. f \in [Nat -> Nat] BY <1>6
<1> HIDE DEF f
<1> QED BY <1>7, <1>8, <1>9

\* A failure raises the error rate, and raises a higher one higher.
LEMMA WorseFacts ==
  /\ Worse \in [Nat -> Nat]
  /\ \A e \in Nat : Worse[e] >= 1
  /\ \A d, e \in Nat : d <= e => Worse[d] <= Worse[e]
<1>1. \A e \in Nat : (7 * e + 3 * Precision) \div 10 \in Nat BY PrecisionAssumption
<1>2. \A e \in Nat : (7 * e + 3 * Precision) \div 10 >= 1 BY PrecisionAssumption
<1>3. \A d, e \in Nat : d <= e =>
        (7 * d + 3 * Precision) \div 10 <= (7 * e + 3 * Precision) \div 10
  BY PrecisionAssumption
<1> QED BY <1>1, <1>2, <1>3 DEF Worse

LEMMA RateFacts ==
  /\ Rate \in [Nat -> Nat] /\ Rate[0] = 0
  /\ \A n \in Nat : Rate[n + 1] = Worse[Rate[n]]
<1> DEFINE R(f) == [n \in Nat |-> IF n = 0 THEN 0 ELSE Worse[f[n - 1]]]
<1>1. PICK f \in [Nat -> Nat] : f[0] = 0 /\ \A n \in Nat : f[n + 1] = Worse[f[n]]
  <2>1. Worse \in [Nat -> Nat] /\ 0 \in Nat BY WorseFacts
  <2> HIDE DEF R
  <2> QED BY <2>1, IterationExists
<1>2. f = R(f)
  <2>1. ASSUME NEW n \in Nat PROVE f[n] = R(f)[n]
    <3>1. CASE n = 0 BY <1>1, <3>1
    <3>2. CASE n # 0
      <4>1. n - 1 \in Nat /\ (n - 1) + 1 = n BY <3>2
      <4>2. f[(n - 1) + 1] = Worse[f[n - 1]] BY <1>1, <4>1
      <4> QED BY <3>2, <4>1, <4>2
    <3> QED BY <3>1, <3>2
  <2> QED BY <2>1
<1>3. Rate = R(Rate)
  <2>1. Rate = CHOOSE g : g = R(g) BY DEF Rate
  <2> HIDE DEF R
  <2> QED BY <1>2, <2>1
<1>4. Rate[0] = 0 BY <1>3
<1>5. ASSUME NEW n \in Nat PROVE Rate[n + 1] = Worse[Rate[n]]
  <2>1. n + 1 \in Nat /\ n + 1 # 0 /\ (n + 1) - 1 = n OBVIOUS
  <2> HIDE DEF R
  <2>2. R(Rate)[n + 1] = Worse[Rate[n]] BY <2>1 DEF R
  <2> QED BY <1>3, <2>2
<1>6. Rate \in [Nat -> Nat]
  <2> DEFINE N == {n \in Nat : Rate[n] \in Nat}
  <2>1. 0 \in N BY <1>4
  <2>2. ASSUME NEW n \in Nat, n \in N PROVE n + 1 \in N
    <3>1. Rate[n] \in Nat BY <2>2
    <3>2. Worse[Rate[n]] \in Nat BY <3>1, WorseFacts
    <3>3. Rate[n + 1] = Worse[Rate[n]] BY <1>5
    <3> QED BY <3>2, <3>3
  <2> HIDE DEF N
  <2>3. \A n \in Nat : n \in N BY <2>1, <2>2, NatInductive
  <2>4. \A n \in Nat : Rate[n] \in Nat BY <2>3 DEF N
  <2>5. Rate = [n \in Nat |-> Rate[n]] BY <1>3
  <2> QED BY <2>4, <2>5
<1> QED BY <1>4, <1>5, <1>6

\* Averages stay between the two latencies, or what one of them adds.
Latencies ==
  \A id \in Ids :
    /\ runtime[id].latency <= Longest
    /\ runtime[id].latency = 0 \/ runtime[id].latency >= Shortest

LEMMA LatencyFacts ==
  /\ Longest \in Nat /\ Shortest \in Nat
  /\ Slow <= Longest /\ Fast <= Longest
  /\ \A l \in Nat, x \in {Slow, Fast} :
       l <= Longest =>
         /\ (7 * l + 3 * x) \div 10 <= Longest
         /\ (7 * l + 3 * x) \div 10 >= Shortest
BY LatencyAssumption DEF Longest, Shortest

LEMMA LatenciesKept ==
  ASSUME STypes, Latencies, [StrategiesNext]_strategyVars
  PROVE  Latencies'
<1>1. CASE MeasuredCall
  <2>1. PICK p \in Pools, another \in BOOLEAN : \E id \in p : CallBackend(p, id, another)
    BY <1>1 DEF MeasuredCall
  <2>2. PICK id \in p : CallBackend(p, id, another) BY <2>1
  <2> DEFINE x == IF id \in down THEN Fast ELSE Slow
  <2>3. id \in Ids BY PoolsAssumption
  <2>4. /\ runtime[id].latency \in Nat
        /\ runtime' = [runtime EXCEPT ![id] = RecordResult(@, x, id \in down)]
        /\ runtime \in [Ids -> [latency : Nat, errors : 0..(Precision - 1)]]
    BY <2>2, <2>3 DEF CallBackend, STypes, StrategiesTypeOK
  <2>5. runtime'[id].latency = (7 * runtime[id].latency + 3 * x) \div 10
    BY <2>3, <2>4 DEF RecordResult
  <2>6. \A i \in Ids \ {id} : runtime'[i] = runtime[i] BY <2>4
  <2>7. x \in {Slow, Fast} /\ runtime[id].latency <= Longest BY <2>3 DEF Latencies
  <2>8. runtime'[id].latency <= Longest /\ runtime'[id].latency >= Shortest
    <3> HIDE DEF x
    <3> QED BY <2>4, <2>5, <2>7, LatencyFacts
  <2> QED BY <2>6, <2>8 DEF Latencies
<1>2. CASE RoundRobinCall BY <1>2 DEF RoundRobinCall, SelectRoundRobin, Latencies
<1>3. CASE WeightedCall BY <1>3 DEF WeightedCall, memory, Latencies
<1>4. CASE \E id \in Ids : Turn(id) BY <1>4 DEF Turn, memory, Latencies
<1>5. CASE UNCHANGED strategyVars BY <1>5 DEF strategyVars, memory, Latencies
<1> QED BY <1>1, <1>2, <1>3, <1>4, <1>5, StrategiesSteps

\* A finite set of naturals has a least element, which Min returns.
LEMMA LeastLatency ==
  ASSUME STypes, NEW p \in SUBSET Ids, Measured(p) # {}
  PROVE  \E id \in Measured(p) : MinLatency(p) = runtime[id].latency
<1> DEFINE f == [id \in Ids |-> - runtime[id].latency]
           L == {runtime[id].latency : id \in Measured(p)}
<1>1. \A id \in Ids : runtime[id].latency \in Nat BY DEF STypes, StrategiesTypeOK
<1>2. f \in [Ids -> Int] /\ Measured(p) \in SUBSET Ids BY <1>1 DEF Measured
<1>3. PICK id \in Measured(p) : \A j \in Measured(p) : f[j] < f[id] \/ f[j] = f[id]
  <2> HIDE DEF f
  <2> QED BY <1>2, FirstOfTheGreatest
<1>4. \A j \in Measured(p) : runtime[id].latency <= runtime[j].latency
  <2>1. ASSUME NEW j \in Measured(p) PROVE runtime[id].latency <= runtime[j].latency
    <3>1. j \in Ids /\ id \in Ids BY <1>2
    <3>2. f[j] = - runtime[j].latency /\ f[id] = - runtime[id].latency BY <3>1
    <3>3. f[j] < f[id] \/ f[j] = f[id] BY <1>3
    <3> HIDE DEF f
    <3> QED BY <1>1, <3>1, <3>2, <3>3
  <2> QED BY <2>1
<1>5. runtime[id].latency \in L /\ \A y \in L : runtime[id].latency <= y BY <1>4
<1>6. MinLatency(p) = Min(L) BY DEF MinLatency
<1> HIDE DEF L
<1>7. Min(L) \in L BY <1>5 DEF Min
<1> QED BY <1>6, <1>7 DEF L

\* A product grows with either factor.
LEMMA ProductsGrow ==
  ASSUME NEW m \in Nat, NEW n \in Nat, NEW k \in Nat
  PROVE  /\ m * k \in Nat
         /\ m <= n => m * k <= n * k
         /\ m <= n => k * m <= k * n
<1>1. m * k \in Nat OBVIOUS
<1>2. ASSUME m <= n PROVE m * k <= n * k /\ k * m <= k * n
  <2>1. PICK d \in Nat : n = m + d
    <3>1. n - m \in Nat /\ n = m + (n - m) BY <1>2
    <3> QED BY <3>1
  <2>2. d * k \in Nat /\ n * k = m * k + d * k /\ k * n = k * m + k * d /\ k * d = d * k
    BY <2>1
  <2> QED BY <2>2
<1> QED BY <1>1, <1>2

\* Enough failures, and any other member that answers has the better score.
LEMMA EnoughFailures ==
  ASSUME STypes, Latencies, NEW p \in SUBSET Ids, NEW id \in p,
         NEW j \in Measured(p) \ {id}, runtime[j].errors = 0,
         runtime[id].errors >= Rate[Enough[id]]
  PROVE  Beats(p, j, id)
<1> DEFINE a == W(id)
           b == W(j)
           e == runtime[id].errors
           k == Rate[Enough[id]]
           l == LatencyOf(p, id)
           m == LatencyOf(p, j)
<1>1. id \in Ids /\ j \in Ids /\ id # j /\ j \in p BY DEF Measured
<1>2. /\ a \in Nat /\ b \in Nat /\ a >= 1 /\ b >= 1
      /\ e \in 0..(Precision - 1) /\ k \in Nat
      /\ Precision \in Nat /\ Longest \in Nat /\ Shortest \in Nat
  BY <1>1, WeightFacts, RateFacts, EnoughAssumption, PrecisionAssumption, LatencyFacts
     DEF STypes, StrategiesTypeOK
<1>3. \A i \in Ids : runtime[i].latency \in Nat BY DEF STypes, StrategiesTypeOK
<1>4. m \in Nat /\ m <= Longest /\ m = runtime[j].latency
  BY <1>1, <1>3 DEF LatencyOf, Measured, Latencies
<1>5. l \in Nat /\ l >= Shortest
  <2>1. CASE runtime[id].latency # 0 BY <1>1, <1>3, <2>1 DEF LatencyOf, Latencies
  <2>2. CASE runtime[id].latency = 0
    <3>1. PICK i \in Measured(p) : MinLatency(p) = runtime[i].latency BY <1>1, LeastLatency
    <3>2. i \in Ids /\ runtime[i].latency > 0 BY DEF Measured
    <3> QED BY <1>3, <2>2, <3>1, <3>2 DEF LatencyOf, Latencies
  <2> QED BY <2>1, <2>2
<1>6. a * (Precision - k) * Longest < b * Precision * Shortest
  BY <1>1, EnoughAssumption
<1>7. e >= k BY <1>1
<1> HIDE DEF a, b, e, k, l, m
<1>8. a * (Precision - e) * m <= a * (Precision - k) * Longest
  <2>1. PICK s \in Nat : s = Precision - e BY <1>2
  <2>2. PICK t \in Nat : t = Precision - k BY <1>2, <1>7
  <2>3. s <= t BY <1>2, <1>7, <2>1, <2>2
  <2>4. a * s <= a * t /\ a * s \in Nat /\ a * t \in Nat BY <1>2, <2>3, ProductsGrow
  <2>5. a * s * m <= a * s * Longest BY <1>2, <1>4, <2>4, ProductsGrow
  <2>6. a * s * Longest <= a * t * Longest BY <1>2, <2>4, ProductsGrow
  <2>7. a * s * m \in Nat /\ a * s * Longest \in Nat /\ a * t * Longest \in Nat
    BY <1>2, <1>4, <2>4, ProductsGrow
  <2> QED BY <2>1, <2>2, <2>5, <2>6, <2>7
<1>9. b * Precision * Shortest <= b * Precision * l
  <2>1. b * Precision \in Nat BY <1>2, ProductsGrow
  <2> QED BY <1>2, <1>5, <2>1, ProductsGrow
<1>10. b * (Precision - 0) * l > a * (Precision - e) * m
  <2>1. /\ a * (Precision - e) * m \in Int /\ a * (Precision - k) * Longest \in Int
        /\ b * Precision * Shortest \in Int /\ b * Precision * l \in Int
    BY <1>2, <1>4, <1>5
  <2>2. Precision - 0 = Precision BY <1>2
  <2> QED BY <1>6, <1>8, <1>9, <2>1, <2>2
<1> QED BY <1>10 DEF Beats, a, b, e, l, m

\* The failures of a streak, backend by backend: no more of each than is enough,
\* and none of the one that is proven.
Noticing ==
  name = "adaptive" =>
    \E f \in [Ids -> Int] :
      /\ \A id \in Ids : f[id] \in 0..Enough[id] /\ Rate[f[id]] <= runtime[id].errors
      /\ streak <= SumFunctionOnSet(f, Ids)
      /\ \E j \in Ids : f[j] = 0

LEMMA SomeBackend == \E id \in Ids : TRUE
<1>1. PICK p : p \in Scored BY ScoredAssumption
<1>2. p \in SUBSET Ids /\ p # {} BY <1>1, ScoredAssumption, PoolsAssumption
<1> QED BY <1>2

\* Without a streak nobody has failed yet.
LEMMA NoFailures ==
  \E f \in [Ids -> Int] :
    /\ \A id \in Ids : f[id] \in 0..Enough[id] /\ Rate[f[id]] = 0
    /\ SumFunctionOnSet(f, Ids) = 0
    /\ \E j \in Ids : f[j] = 0
<1> DEFINE z == [id \in Ids |-> 0]
<1>1. z \in [Ids -> Int] /\ \A id \in Ids : z[id] = 0 OBVIOUS
<1>2. \A id \in Ids : z[id] \in 0..Enough[id] /\ Rate[z[id]] = 0
  BY <1>1, RateFacts, EnoughAssumption
<1> HIDE DEF z
<1>3. SumFunctionOnSet(z, Ids) = 0 BY <1>1, IdsAssumption, SumOfZeros
<1>4. \E j \in Ids : z[j] = 0 BY <1>1, SomeBackend
<1> QED BY <1>1, <1>2, <1>3, <1>4

LEMMA OneMoreFailure ==
  ASSUME STypes, Latencies, Noticing, name = "adaptive", name' = name,
         NEW p \in SUBSET Ids, NEW id \in Best(p),
         CallBackend(p, id, TRUE), id \in down, Proven(p, id)
  PROVE  Noticing'
<1>1. PICK f \in [Ids -> Int] :
        /\ \A i \in Ids : f[i] \in 0..Enough[i] /\ Rate[f[i]] <= runtime[i].errors
        /\ streak <= SumFunctionOnSet(f, Ids)
  BY DEF Noticing
<1>2. PICK j \in Measured(p) \ {id} : runtime[j].errors = 0 BY DEF Proven
<1>3. id \in p /\ id \in Ids /\ j \in p /\ j \in Ids /\ j # id BY <1>2 DEF Best, Measured
<1>4. Enough[id] \in Nat /\ f[id] \in 0..Enough[id] /\ f[j] \in 0..Enough[j] /\ Enough[j] \in Nat
  BY <1>1, <1>3, EnoughAssumption
<1>5. \A i \in Ids : runtime[i].errors \in Nat BY DEF STypes, StrategiesTypeOK
<1>6. f[id] < Enough[id]
  <2> SUFFICES ASSUME f[id] = Enough[id] PROVE FALSE BY <1>4
  <2>1. runtime[id].errors >= Rate[Enough[id]]
    <3>1. Rate[Enough[id]] \in Nat BY <1>4, RateFacts
    <3> QED BY <1>1, <1>3, <1>5, <3>1
  <2>2. Beats(p, j, id) BY <1>2, <1>3, <2>1, EnoughFailures
  <2> QED BY <1>3, <2>2 DEF Best
<1>7. f[j] = 0
  <2> SUFFICES ASSUME f[j] # 0 PROVE FALSE OBVIOUS
  <2>1. f[j] - 1 \in Nat /\ (f[j] - 1) + 1 = f[j] BY <1>4
  <2>2. Rate[f[j]] = Worse[Rate[f[j] - 1]] /\ Rate[f[j] - 1] \in Nat BY <2>1, RateFacts
  <2>3. Rate[f[j]] >= 1 BY <2>2, WorseFacts
  <2>4. Rate[f[j]] \in Nat BY <1>4, RateFacts
  <2> QED BY <1>1, <1>2, <1>3, <2>3, <2>4
<1> DEFINE g == [f EXCEPT ![id] = @ + 1]
<1>8. g \in [Ids -> Int] /\ g[id] = f[id] + 1 /\ \A i \in Ids \ {id} : g[i] = f[i]
  BY <1>3, <1>4
<1> HIDE DEF g
<1>9. /\ runtime'[id].errors = Worse[runtime[id].errors]
      /\ \A i \in Ids \ {id} : runtime'[i] = runtime[i]
  BY <1>3 DEF CallBackend, RecordResult, STypes, StrategiesTypeOK
<1>10. ASSUME NEW i \in Ids
       PROVE  g[i] \in 0..Enough[i] /\ Rate[g[i]] <= runtime'[i].errors
  <2>1. CASE i = id
    <3>1. Rate[g[id]] = Worse[Rate[f[id]]] /\ Rate[f[id]] \in Nat BY <1>4, <1>8, RateFacts
    <3>2. Rate[f[id]] <= runtime[id].errors BY <1>1, <1>3
    <3>3. Worse[Rate[f[id]]] <= Worse[runtime[id].errors]
      BY <1>3, <1>5, <3>1, <3>2, WorseFacts
    <3>4. g[id] \in 0..Enough[id] BY <1>4, <1>6, <1>8
    <3> QED BY <1>9, <2>1, <3>1, <3>3, <3>4
  <2>2. CASE i # id BY <1>1, <1>8, <1>9, <2>2
  <2> QED BY <2>1, <2>2
<1>11. streak' <= SumFunctionOnSet(g, Ids)
  <2>1. SumFunctionOnSet(g, Ids) = SumFunctionOnSet(f, Ids) + (g[id] - f[id])
    BY <1>3, <1>8, IdsAssumption, SumChanges
  <2>2. SumFunctionOnSet(f, Ids) \in Int BY IdsAssumption, SumType
  <2>3. streak' = streak + 1 /\ streak \in Nat
    BY PrecisionAssumption DEF CallBackend, STypes, StrategiesTypeOK
  <2> QED BY <1>1, <1>4, <1>8, <2>1, <2>2, <2>3
<1>12. \E i \in Ids : g[i] = 0 BY <1>3, <1>7, <1>8
<1> QED BY <1>8, <1>10, <1>11, <1>12 DEF Noticing

LEMMA NoticingKept ==
  ASSUME STypes, Latencies, Noticing, [StrategiesNext]_strategyVars
  PROVE  Noticing'
<1>0. STypes' BY StrategiesKeepTypes
<1>1. CASE MeasuredCall
  <2>1. PICK p \in Pools, another \in BOOLEAN : \E id \in p :
          /\ CallBackend(p, id, another)
          /\ name = "adaptive" =>
               id \in Best(p) /\ (another => id \in down /\ Proven(p, id))
    BY <1>1 DEF MeasuredCall
  <2>2. PICK id \in p :
          /\ CallBackend(p, id, another)
          /\ name = "adaptive" =>
               id \in Best(p) /\ (another => id \in down /\ Proven(p, id))
    BY <2>1
  <2>3. name' = name /\ streak' = IF another THEN streak + 1 ELSE 0
    BY <2>2 DEF CallBackend
  <2>4. p \in SUBSET Ids BY PoolsAssumption
  <2>5. CASE another /\ name = "adaptive" BY <2>2, <2>3, <2>4, <2>5, OneMoreFailure
  <2>6. CASE ~ another
    <3>1. streak' = 0 BY <2>3, <2>6
    <3>2. \A i \in Ids : runtime'[i].errors \in Nat BY <1>0 DEF STypes, StrategiesTypeOK
    <3>3. PICK f \in [Ids -> Int] :
            /\ \A i \in Ids : f[i] \in 0..Enough[i] /\ Rate[f[i]] = 0
            /\ SumFunctionOnSet(f, Ids) = 0
            /\ \E j \in Ids : f[j] = 0
      BY NoFailures
    <3>4. streak' <= SumFunctionOnSet(f, Ids) BY <3>1, <3>3
    <3>5. \A i \in Ids : Rate[f[i]] <= runtime'[i].errors BY <3>2, <3>3
    <3> QED BY <3>3, <3>4, <3>5 DEF Noticing
  <2>7. CASE name # "adaptive" BY <2>3, <2>7 DEF Noticing
  <2> QED BY <2>5, <2>6, <2>7
<1>2. CASE RoundRobinCall BY <1>2 DEF RoundRobinCall, SelectRoundRobin, Noticing
<1>3. CASE WeightedCall BY <1>3 DEF WeightedCall, wrr, Noticing
<1>4. CASE \E id \in Ids : Turn(id) BY <1>4 DEF Turn, memory, Noticing
<1>5. CASE UNCHANGED strategyVars BY <1>5 DEF strategyVars, memory, Noticing
<1> QED BY <1>1, <1>2, <1>3, <1>4, <1>5, StrategiesSteps

LEMMA NoticingMeans ==
  ASSUME STypes, Noticing
  PROVE  FailuresAreNoticed
<1> SUFFICES ASSUME name = "adaptive"
             PROVE  \E id \in Ids : streak <= SumFunctionOnSet(Enough, Ids \ {id})
  BY DEF FailuresAreNoticed
<1>1. PICK f \in [Ids -> Int] :
        /\ \A i \in Ids : f[i] \in 0..Enough[i]
        /\ streak <= SumFunctionOnSet(f, Ids)
        /\ \E j \in Ids : f[j] = 0
  BY DEF Noticing
<1>2. PICK j \in Ids : f[j] = 0 BY <1>1
<1> DEFINE rest == Ids \ {j}
<1>3. rest \in SUBSET Ids /\ IsFiniteSet(rest) BY IdsAssumption, FS_Subset
<1>4. Enough \in [Ids -> Int] /\ \A i \in rest : f[i] <= Enough[i]
  BY <1>1, EnoughAssumption
<1> HIDE DEF rest
<1>5. SumFunctionOnSet(f, rest) <= SumFunctionOnSet(Enough, rest)
  BY <1>3, <1>4, SumMonotone
<1>6. SumFunctionOnSet(f, Ids) = f[j] + SumFunctionOnSet(f, rest)
  BY <1>2, IdsAssumption, SumWithout DEF rest
<1>7. /\ SumFunctionOnSet(f, rest) \in Int /\ SumFunctionOnSet(Enough, rest) \in Int
      /\ streak \in Int
  BY <1>3, <1>4, SumType, PrecisionAssumption DEF STypes, StrategiesTypeOK
<1>8. streak <= SumFunctionOnSet(Enough, rest) BY <1>1, <1>2, <1>5, <1>6, <1>7
<1> QED BY <1>8 DEF rest

(***************************************************************************)
(* However fast a backend fails and for whichever slices: failures in a    *)
(* row next to a member that answers and never failed are no more than is  *)
(* enough for each backend but one (backend.go:182, strategy.go:276).      *)
(***************************************************************************)
THEOREM FailuresTurnAway == StrategiesSpec => []FailuresAreNoticed
<1>1. StrategiesInit => STypes /\ Latencies /\ Noticing
  <2> SUFFICES ASSUME StrategiesInit PROVE STypes /\ Latencies /\ Noticing OBVIOUS
  <2>1. STypes /\ streak = 0 BY StrategiesStart DEF StrategiesInit
  <2>2. Latencies BY LatencyFacts DEF StrategiesInit, Fresh, Latencies
  <2>3. \A i \in Ids : runtime[i].errors \in Nat BY <2>1 DEF STypes, StrategiesTypeOK
  <2>4. PICK f \in [Ids -> Int] :
          /\ \A i \in Ids : f[i] \in 0..Enough[i] /\ Rate[f[i]] = 0
          /\ SumFunctionOnSet(f, Ids) = 0
          /\ \E j \in Ids : f[j] = 0
    BY NoFailures
  <2>5. streak <= SumFunctionOnSet(f, Ids) BY <2>1, <2>4
  <2>6. \A i \in Ids : Rate[f[i]] <= runtime[i].errors BY <2>3, <2>4
  <2>7. Noticing BY <2>4, <2>5, <2>6 DEF Noticing
  <2> QED BY <2>1, <2>2, <2>7
<1>2. STypes /\ Latencies /\ Noticing /\ [StrategiesNext]_strategyVars
        => (STypes /\ Latencies /\ Noticing)'
  BY StrategiesKeepTypes, LatenciesKept, NoticingKept
<1>3. STypes /\ Latencies /\ Noticing => FailuresAreNoticed BY NoticingMeans
<1> QED BY <1>1, <1>2, <1>3, PTL DEF StrategiesSpec
=============================================================================
