CONSTANTS
  Data = {a, b}
  MaxCells = 4
  Keys <- MCKeys
  Values = {1, 2}
  Hash <- MCHash
  InitialSize = 4
  ChainLength = 2
  MaxSize = 16
  MaxDoublings = 2
  TableSize = 4
  Names = {"p", "q"}
  FunctorNames = {"p"}
  MaxHeap = 2
  MaxKept = 2
  MaxCount = 4
  Atomic = {"a", "b"}
  Programs <- MCPrograms
  MaxBlocks = 3
  MaxChoices = 2
SPECIFICATION DatabaseSpec
INVARIANTS
  LinksMatch
  LooksUpWhatWasPut
  SizeCounts
  OnlyGarbageIsDeleted
  CountsCover
  FreeListIsDead
  CodeIsClauses
  ClausesRecover
  RetractsItsClause
  NoFreedUse
PROPERTY ListsAreSequences
CHECK_DEADLOCK FALSE
