\* The same with saves that fail and crashes in the middle of one.
SPECIFICATION AdminSpec
CONSTANTS
  b1 = b1
  b2 = b2
  a1 = a1
  a2 = a2
  m1 = m1
  m2 = m2
  e1 = e1
  e2 = e2
  k1 = k1
  k2 = k2
  NoKey = NoKey
  NoBackend = NoBackend
  Absent = Absent
  NoStrategy = NoStrategy
  Torn = Torn
  NoInput = NoInput
  Unknown = Unknown
  Ids = {b1, b2}
  Admins = {a1, a2}
  Models = {m1, m2}
  Endpoints = {e1, e2}
  Keys = {k1, k2}
  Inputs <- TwoInputs
  Loads <- Fresh
  Headers <- Nobody
  Counts = {1}
  MaxFails = 3
  Dead <- Nobody
  MaxUsed = 0
  Mapped <- Nobody
  Strategies <- Nobody
  Faults = {"error", "torn", "crash", "crash in save"}
  Serialized = TRUE
SYMMETRY Alike
INVARIANTS
  AdminTypeOK
  DurableAck
