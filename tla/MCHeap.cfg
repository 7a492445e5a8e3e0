CONSTANTS
  Objs = {o1, o2, o3}
  Null = Null
  Closed = Closed
  StackMax = 2
  TempRootsMax = 1
  Escapes = FALSE
SPECIFICATION Spec
SYMMETRY Addresses
CHECK_DEADLOCK FALSE
INVARIANTS TypeOK NoDangling StringsAlive UpvaluesAreVariables
PROPERTIES GarbageGoes
