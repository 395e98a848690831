SPECIFICATION Spec
CONSTANTS
  Pipeline = {p1, p2}
  Worker = {w1}
  Slot = {s1}
  Score = {1}
  NoSlot = NoSlot
  NoPipeline = NoPipeline
  Task <- BookingTasks
  Serial = TRUE
  Faults = {}
  MaxQueue = 2
  MaxAppts = 1
INVARIANT InvitedWasInvited
