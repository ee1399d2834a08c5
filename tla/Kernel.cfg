SPECIFICATION Spec
CONSTANTS
  StackSize = 6
  HeapSize = 2
  TrailSize = 2
  ArgWords = 0
  MaxSlots = 1
  QueryReserved = 0
  MaxLocals = 2
  Atoms = {a}
  Programs = {{"predicate", "catch/3", "call/1"}, {"call/1", "condition", "C_LCUT"}, {"predicate", "foreign"}, {"cleanup", "condition"}}
INVARIANTS TypeOK TrailRestores NoOverlap CutTargets NoUseAfterFree NoLeak
PROPERTY Backtracking
CHECK_DEADLOCK FALSE
