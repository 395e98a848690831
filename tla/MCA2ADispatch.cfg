SPECIFICATION Spec
CONSTANTS
  Call = {c1, c2}
  Keyed = {c1}
  MAX_ATTEMPTS = 2
CHECK_DEADLOCK FALSE
INVARIANTS TypeOK DoneWhenReturned KeptWhenFailed
PROPERTIES DispatchEnds ImplementsCall
