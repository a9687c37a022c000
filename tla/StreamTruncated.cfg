SPECIFICATION Spec
CONSTANTS
  Clients = {c1}
  Outputs = {3}
INVARIANT
  StreamComplete
CHECK_DEADLOCK FALSE
