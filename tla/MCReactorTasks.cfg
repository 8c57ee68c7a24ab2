\* Three slots and two registering threads (so one may register again);
\* the first client's mio register and deregister may fail.
CONSTANTS
  k1 = k1
  k2 = k2
  k3 = k3
  c1 = c1
  c2 = c2
  Tasks <- MCTasks
  Clients <- MCClients
  MioFails <- MCMioFails
  Stub = Stub
  Null = Null
SPECIFICATION FairSpec
INVARIANTS
  TypeOK
  RefCountExact
  TokenValid
  ChangeQueueQueued
PROPERTIES
  DeregisteredSlotReleased
  ReactorDropReleasesSlots
