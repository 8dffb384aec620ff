\* Clients that go on: every request ends, and a used-up budget ends its use.
SPECIFICATION FairSpec
CONSTANTS
  b1 = b1
  b2 = b2
  b3 = b3
  r1 = r1
  r2 = r2
  eo = eo
  ea = ea
  ec = ec
  k1 = k1
  gpt = gpt
  gpts = gpts
  claudes = claudes
  auto = auto
  other = other
  NoKey = NoKey
  NoBackend = NoBackend
  Absent = Absent
  Ids <- MCIds
  Models = {gpt, gpts, claudes, auto, other}
  Endpoints <- MCEndpoints
  Keys = {k1}
  Provider <- MCProvider
  Prepaid <- MCPrepaid
  Window <- MCWindow
  GptModels = {gpt, gpts}
  ClaudeModels = {claudes}
  AnyGpt = gpts
  AnyClaude = claudes
  AutoModel = auto
  Requests = {r1, r2}
  Shapes <- Fuzzy
  Edits <- Raise
  Editable = {b2}
  Live0 <- Budgeted
  Quota0 <- OneQuota
  Announces <- Nobody
  Counts = {2}
  Repeats = TRUE
  MayRefuse = TRUE
  Renewals = 0
PROPERTIES
  Delivers
  SpentIsLeftAlone
