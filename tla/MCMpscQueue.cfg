\* Two producers pushing two elements, each up to twice (four pushes).
CONSTANTS
  e1 = e1
  e2 = e2
  p1 = p1
  p2 = p2
  Elems <- MCElems
  Producers <- MCProducers
  MaxPushes = 4
  Stub = Stub
  Null = Null
SPECIFICATION FairSpec
INVARIANTS
  TypeOK
  DropLeavesStub
PROPERTIES
  ImplementsQueueSpec
  PushedIsPopped
