SPECIFICATION QueriesSpec
CONSTANTS
  StackSize = 8
  HeapSize = 1
  TrailSize = 1
  ArgWords = 0
  MaxSlots = 1
  QueryReserved = 0
  MaxLocals = 2
  Atoms = {a}
  MaxStates = 1
  Programs = {{"foreign"}}
PROPERTY RestoreUndoes
CHECK_DEADLOCK FALSE
