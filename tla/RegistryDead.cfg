\* A backend that answers no probe, under fairness of the health loop.
SPECIFICATION FairSpec
CONSTANTS
  b1 = b1
  b2 = b2
  m1 = m1
  m2 = m2
  e1 = e1
  k1 = k1
  Ids = {b1, b2}
  Models = {m1, m2}
  Endpoints = {e1}
  Keys = {k1}
  NoKey = NoKey
  NoBackend = NoBackend
  Absent = Absent
  Inputs <- OneInput
  Loads <- EmptyLoad
  Headers <- NoHeaders
  Counts = {1}
  MaxFails = 2
  Dead = {b2}
  MaxUsed = 0
PROPERTIES
  DeadIsDegraded
