SPECIFICATION QueriesSpec
CONSTANTS
  StackSize = 10
  HeapSize = 0
  TrailSize = 0
  ArgWords = 1
  MaxSlots = 1
  QueryReserved = 0
  MaxLocals = 3
  Atoms = {a}
  MaxStates = 2
  Programs = {{"foreign", "catch/3"}, {"foreign", "cleanup"}, {"foreign", "call/1"}, {"foreign", "late error"}}
INVARIANTS QueriesTypeOK  OuterNotFreed CutTargets
PROPERTY OuterStay
CHECK_DEADLOCK FALSE
