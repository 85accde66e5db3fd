\* The sets the symmetry permutes serve several parts: r is a request of each, t a login,
\* a transfer, a task or a connection.
CONSTANTS
  Asks = {r1, r2}
  Things = {t1, t2}
  Places = {c1, c2}
  Single = {s1}
  Joins = {r1, r2}
  Transfers = {t1, t2}
  Invites = {s1}
  People = {p1, p2, p3}
  Couple = {p1, p2}
  Founder = p1
  MaxSecrets = 3
  MaxTarget = 2
  MaxRequests = 4
  MaxStock = 2
  Required = 2
  MaxQuantity = 1
  None = None
SPECIFICATION PartsSpec
INVARIANTS PartsTypeOK KeyWorksOnce OldSessionsEnd OneOwner ProgressIsExact StrayAssignments
INVARIANTS StockIsCovered IdleIsClean OrderIsConsistent InventoryIsKept
PROPERTY JoinsAreAtomic
SYMMETRY Symmetric
CHECK_DEADLOCK FALSE
