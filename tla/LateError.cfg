SPECIFICATION QueriesSpec
CONSTANTS
  StackSize = 10
  HeapSize = 0
  TrailSize = 0
  ArgWords = 1
  MaxSlots = 1
  QueryReserved = 0
  MaxLocals = 2
  Atoms = {a}
  MaxStates = 1
  Programs = {{"foreign", "late error"}}
INVARIANT QueriesAreSafe
CHECK_DEADLOCK FALSE
