\* One strategy, called with slices that change from call to call.
SPECIFICATION StrategiesSpec
CONSTANTS
  a = a
  b = b
  c = c
  Ids = {a, b, c}
  Nil = Nil
  Order <- MCOrder
  Weight <- MCWeight
  Pools <- Changing
  MaxCalls = 18
  Names = {"weighted_round_robin", "round_robin", "adaptive", "least_latency"}
  Counters = 32
  Slow = 100
  Fast = 10
  Precision = 10000
  MaxResults = 30
  MaxTurns = 2
  Enough <- MCEnough
  Scored <- Two
INVARIANTS
  StrategiesTypeOK
  NeverAheadWRR
  NobodyStarvesWRR
  SmoothWRR
  RefusalsEnd
  Even
  
  
  
\* Adaptive and least latency end when MaxResults results have been recorded.
CHECK_DEADLOCK FALSE
