SPECIFICATION Spec
CONSTANTS
  Email = {m1, m2}
  Ein = {e1, e2}
  ByHand = TRUE
  MaxTasks = 2
  MaxLost = 1
  Faults = {"lost", "repeat", "upsert"}
SYMMETRY Symmetric
CHECK_DEADLOCK FALSE
INVARIANTS TypeOK VerifiedWasFound WindowRespected UrgentNotDropped StuckIsKept
