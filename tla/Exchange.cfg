\* Conversations with tools, in both formats, with changing providers.
SPECIFICATION ExchangeSpec
CONSTANTS
  u = u
  t = t
  s = s
  i1 = i1
  c1 = c1
  c2 = c2
  Texts = {u, t, s}
  Images = {i1}
  Calls = {c1, c2}
  Empty = Empty
  NoCall = NoCall
  Says <- MCSays
  Systems = {Empty, s}
  Replies <- MCReplies
  MaxMessages = 8
  MaxStreamed = 2
  Indices = {0, 1}
  Blocks = {t, c1}
  MaxEvents = 5
INVARIANTS
  StreamTypeOK
  
  ClientCanFollow
  ExchangeTypeOK
  CallsSurvive
  NoOrphanResults
  
  
