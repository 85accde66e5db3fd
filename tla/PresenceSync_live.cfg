SPECIFICATION FairSpec
CONSTANTS
  Device = d1
  Handlers = {h1, h2}
  Places = {p1, p2}
  Rests = {r1}
  Noises = {n1}
  None = None
  MaxRevision = 4
  Faults = {"crash", "lose", "restart"}
PROPERTIES
  Delivery
