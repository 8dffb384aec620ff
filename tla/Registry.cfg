\* Two backends, two models, health rounds, traffic and admin edits.
SPECIFICATION FairSpec
CONSTANTS
  b1 = b1
  b2 = b2
  m1 = m1
  m2 = m2
  e1 = e1
  k1 = k1
  Ids = {b1, b2}
  Models = {m1, m2}
  Endpoints = {e1}
  Keys = {k1}
  NoKey = NoKey
  NoBackend = NoBackend
  Absent = Absent
  Inputs <- MCInputs
  Loads <- MCLoads
  Headers <- MCHeaders
  Counts = {1}
  MaxFails = 2
  Dead = {b2}
  MaxUsed = 2
INVARIANTS
  TypeOK
  
  SnapshotLags
  FailsNeverAccumulate
PROPERTIES
  
  TokensGetPublished
