CONSTANTS
  Objs = {o1, o2, o3}
  Null = Null
  Closed = Closed
  StackMax = 2
  TempRootsMax = 1
  Escapes = TRUE
SPECIFICATION Spec
SYMMETRY Addresses
CHECK_DEADLOCK FALSE
INVARIANTS NoDangling
