SPECIFICATION ThrowSpec
CONSTANTS
  StackSize = 7
  HeapSize = 1
  TrailSize = 1
  ArgWords = 0
  MaxSlots = 1
  QueryReserved = 0
  MaxLocals = 3
  Atoms = {a}
  Programs = {{"catch/3"}}
INVARIANT TrailRestores
CHECK_DEADLOCK FALSE
