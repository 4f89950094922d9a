CONSTANTS
  R = 4
  PageSize = 4
  Managed <- MCManaged
  Programs <- MCPrograms
  StackPage = 30
  HeapPage = 22
  Increments <- MCIncrements
  MaxTasks = 4
  MaxBusy = 12
SPECIFICATION Spec
CHECK_DEADLOCK FALSE
INVARIANTS KernelIdentity ProgramIntact FramesApart
PROPERTY FailedSbrkKeeps
