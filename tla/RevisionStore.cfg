SPECIFICATION Spec
CONSTANTS
  Procs = {p1, p2, p3}
  MaxValue = 4
  None = None
SYMMETRY Symmetry
INVARIANTS
  OneHolder
  IssuedIsDurable
PROPERTIES
  ImplementsCounter
