\* Two tasks, two foreign threads, no panics: the pool is dropped while a
\* foreign wake has left a task on the global queue.
CONSTANTS
  t1 = t1
  t2 = t2
  f1 = f1
  f2 = f2
  Tasks <- MCTasks
  Foreign <- MCForeign
  MaxPolls = 2
  Panics = FALSE
  Stub = Stub
  Null = Null
SPECIFICATION Spec
INVARIANT
  FreedAfterDrop
