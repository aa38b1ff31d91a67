SPECIFICATION Spec
CONSTANTS
  NetworkIds = {n1, n2, n3, n4}
  Capacity = 3
  Fabrics = {f1, f2}
  Pase = Pase
  None = None
SYMMETRY Symmetry
INVARIANTS RollbackRestores ListIsHeld
