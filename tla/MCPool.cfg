\* Two tasks, two foreign threads; polls may panic.
CONSTANTS
  t1 = t1
  t2 = t2
  f1 = f1
  f2 = f2
  Tasks <- MCTasks
  Foreign <- MCForeign
  MaxPolls = 2
  Panics = TRUE
  Stub = Stub
  Null = Null
SPECIFICATION FairSpec
INVARIANTS
  TypeOK
  NoLostWake
  QueueWellFormed
  ReadyListsConsistent
PROPERTIES
  WokenTaskPolled
  RunReturns
