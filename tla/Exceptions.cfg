SPECIFICATION ThrowSpec
CONSTANTS
  StackSize = 11
  HeapSize = 1
  TrailSize = 1
  ArgWords = 1
  MaxSlots = 1
  QueryReserved = 0
  MaxLocals = 3
  Atoms = {a}
  Programs = {{"catch/3", "unknown"}, {"catch/3", "foreign", "late error"}}
INVARIANTS ThrowTypeOK NoOverlap CatchTargets NoUseAfterFree NoLeak
CHECK_DEADLOCK FALSE
