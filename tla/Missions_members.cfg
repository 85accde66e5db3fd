CONSTANTS
  Requests = {r1}
  Users = {m, u}
  Manager = m
  Tasks = {t1, t2}
  MaxTarget = 1
  MaxRequests = 3
  None = None
SPECIFICATION Spec
INVARIANT ActiveAssigneesAreMembers
CHECK_DEADLOCK FALSE
