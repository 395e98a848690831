SPECIFICATION Spec
CONSTANTS
  Pipeline = {p1, p2}
  Worker = {w1}
  Slot = {s1, s2}
  Score = {1}
  NoSlot = NoSlot
  NoPipeline = NoPipeline
  Task <- BookingTasks
  Serial = TRUE
  Faults = {"expiry"}
  MaxQueue = 2
  MaxAppts = 2
INVARIANTS TimersMatch BookedOnce BookedSlotWasShown NobodyStranded
