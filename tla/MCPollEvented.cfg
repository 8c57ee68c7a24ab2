\* Three times a side becomes ready; registration may fail.  A call that
\* waits for readiness that never comes waits for good, and a panicked task
\* stops: neither is a deadlock of the program.
CONSTANTS
  MaxReady = 3
  RegFails = TRUE
SPECIFICATION FairSpec
INVARIANTS
  TypeOK
  NoLostReadiness
PROPERTIES
  WaitingCallCompletes
  ReactorGoneSurfaces
CHECK_DEADLOCK FALSE
