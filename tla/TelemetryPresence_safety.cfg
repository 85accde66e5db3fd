SPECIFICATION Spec
CONSTANTS
  n2 = n2
  d2 = d2
  d1 = d1
  a1 = a1
  h1 = h1
  h2 = h2
  p1 = p1
  p2 = p2
  r1 = r1
  n1 = n1
  None = None
  Devices = {d1}
  Accounts = {a1}
  Owner <- OneOwner
  Handlers = {h1, h2}
  Places = {p1, p2}
  Rests = {r1}
  Noises = {n1}
  MaxRevision = 2
SYMMETRY Symmetry
INVARIANTS
  TypeOK
  PresenceIsCurrent
  VerdictNamesTheMark
PROPERTIES
  MarkAdvances
  ImplementsRegister
