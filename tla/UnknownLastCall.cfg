SPECIFICATION ThrowSpec
CONSTANTS
  StackSize = 9
  HeapSize = 0
  TrailSize = 0
  ArgWords = 0
  MaxSlots = 1
  QueryReserved = 0
  MaxLocals = 3
  Atoms = {a}
  Programs = {{"catch/3", "call/1", "unknown"}}
INVARIANT FreedOnce
CHECK_DEADLOCK FALSE
