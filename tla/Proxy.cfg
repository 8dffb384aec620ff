\* Two requests, two tiers, three providers; answers lost, refused, late.
SPECIFICATION Spec
CONSTANTS
  b1 = b1
  b2 = b2
  b3 = b3
  r1 = r1
  r2 = r2
  eo = eo
  ea = ea
  ec = ec
  k1 = k1
  gpt = gpt
  gpts = gpts
  claudes = claudes
  auto = auto
  other = other
  NoKey = NoKey
  NoBackend = NoBackend
  Absent = Absent
  Ids <- MCIds
  Models = {gpt, gpts, claudes, auto, other}
  Endpoints <- MCEndpoints
  Keys = {k1}
  Provider <- MCProvider
  Prepaid <- MCPrepaid
  Window <- MCWindow
  GptModels = {gpt, gpts}
  ClaudeModels = {claudes}
  AnyGpt = gpts
  AnyClaude = claudes
  AutoModel = auto
  Requests = {r1, r2}
  Shapes <- MCShapes
  Edits <- Move
  Editable = {b1}
  Live0 <- MCLive
  Quota0 <- MCQuota
  Announces = {ea}
  Counts = {2, 3}
  Repeats = FALSE
  MayRefuse = FALSE
  Renewals = 1
SYMMETRY SameRequests
INVARIANTS
  TypeOK
  TiersInTurn
  NeverOvercounted
  ExcludedGrantsNothing
  BodiesInClientFormat

  
