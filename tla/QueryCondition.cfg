SPECIFICATION Spec
CONSTANTS
  StackSize = 8
  HeapSize = 0
  TrailSize = 0
  ArgWords = 0
  MaxSlots = 1
  QueryReserved = 1
  MaxLocals = 2
  Atoms = {a}
  Programs = {{"condition", "predicate"}}
INVARIANT NotesKept
CHECK_DEADLOCK FALSE
