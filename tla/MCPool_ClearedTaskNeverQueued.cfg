CONSTANTS
  t1 = t1
  t2 = t2
  f1 = f1
  f2 = f2
  Tasks <- MCTasks
  Foreign <- MCForeign
  MaxPolls = 2
  Panics = FALSE
  Stub = Stub
  Null = Null
SPECIFICATION Spec
PROPERTY
  ClearedTaskNeverQueued
