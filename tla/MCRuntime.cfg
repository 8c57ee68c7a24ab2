\* Three messages from the peer, two foreign threads waking the run loop;
\* the caller may enter a runtime handle first and catch run_until's panic.
CONSTANTS
  f1 = f1
  f2 = f2
  Foreign <- MCForeign
  Msgs = 3
SPECIFICATION FairSpec
INVARIANTS
  TypeOK
  NoSleepWithWork
  SlotMatchesGuards
PROPERTIES
  RunUntilReturns
