\* Reference accounting of TaskState::lock, mio never fails.
CONSTANTS
  r1 = r1
  r2 = r2
  r3 = r3
  s1 = s1
  s2 = s2
  s3 = s3
  s4 = s4
  s5 = s5
  s6 = s6
  Threads <- MCThreads
  Slots <- MCSlots
  None = None
  MioFails = FALSE
  MaxCalls = 6
SYMMETRY Symmetry
SPECIFICATION Spec
INVARIANTS
  RefCountExact
