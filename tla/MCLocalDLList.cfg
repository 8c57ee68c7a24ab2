\* Two heads (a pending list and a PollList) and four elements.
CONSTANTS
  h1 = h1
  h2 = h2
  e1 = e1
  e2 = e2
  e3 = e3
  e4 = e4
  Heads <- MCHeads
  Elems <- MCElems
  Null = Null
SPECIFICATION Spec
INVARIANTS
  PointersConsistent
PROPERTIES
  ImplementsListSpec
