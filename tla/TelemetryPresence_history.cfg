SPECIFICATION Spec
CONSTANTS
  d2 = d2
  d1 = d1
  a1 = a1
  h1 = h1
  h2 = h2
  p1 = p1
  p2 = p2
  r1 = r1
  n1 = n1
  n2 = n2
  None = None
  Devices = {d1}
  Accounts = {a1}
  Owner <- OneOwner
  Handlers = {h1}
  Places = {p1, p2}
  Rests = {r1}
  Noises = {n1, n2}
  MaxRevision = 4
SYMMETRY Symmetry
INVARIANTS
  HistoryFollowsPresence
PROPERTIES
  HistoryOnlyFromAccepted
