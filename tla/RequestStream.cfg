SPECIFICATION FairSpec
CONSTANTS
  Clients = {c1, c2}
  Outputs = {1, 2}
INVARIANTS
  TypeOK
  StreamInOrder
  NoRequestDropped
PROPERTY
  HandlersEnd
CHECK_DEADLOCK FALSE
