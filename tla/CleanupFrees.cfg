SPECIFICATION Spec
CONSTANTS
  StackSize = 7
  HeapSize = 0
  TrailSize = 0
  ArgWords = 0
  MaxSlots = 1
  QueryReserved = 0
  MaxLocals = 3
  Atoms = {a}
  Programs = {{"cleanup", "call/1"}}
INVARIANT ClausesInUse
CHECK_DEADLOCK FALSE
