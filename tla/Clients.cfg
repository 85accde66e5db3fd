\* The sets the symmetry permutes share their model values: x is a key, a request,
\* a code or a post, y a peer, a claim, a row or a connect.
CONSTANTS
  Keys = {x1, x2, x3}
  Codes = {x1, x2, x3}
  Peers = {y1, y2}
  Claims = {y1, y2}
  Rows = {y1, y2}
  Devices = {d1}
  Accounts = {a1}
  Creates = {g1, g2}
  Workers = {h1, h2, h3, h4}
  Nesting = {h1, h2}
  Limit = 2
  Window = 2
  MaxEntries = 2
  MaxTime = 4
  MaxCount = 2
  PerPeerLimit = 2
  GlobalLimit = 2
  MaxPeers = 1
  PoolMax = 2
  Ids = {1, 2}
  PageSize = 1
  LastInstant = 2
  None = None
SPECIFICATION PartsSpec
INVARIANTS PartsTypeOK BudgetIsExact SlotsAreExact AnswersAreTimely OneLiveCode StuckOnlyByNesting
INVARIANTS SinkIsOwned ViewIsFaithful
PROPERTIES RetryIsUseful ImplementsOneTimeCode SinkIsAtomic
SYMMETRY Symmetric
CHECK_DEADLOCK FALSE
