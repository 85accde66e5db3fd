SPECIFICATION Spec
CONSTANTS
  n2 = n2
  d1 = d1
  d2 = d2
  a1 = a1
  h1 = h1
  h2 = h2
  p1 = p1
  p2 = p2
  r1 = r1
  n1 = n1
  None = None
  Devices = {d1, d2}
  Accounts = {a1}
  Owner <- TwoDevices
  Handlers = {h1, h2}
  Places = {p1}
  Rests = {r1}
  Noises = {n1}
  MaxRevision = 1
SYMMETRY FleetSymmetry
INVARIANTS
  OneDeciderPerRow
