SPECIFICATION FairSpec
CONSTANTS
  Pipeline = {p1}
  Worker = {w1}
  Slot = {s1}
  Score = {1}
  NoSlot = NoSlot
  NoPipeline = NoPipeline
  Task <- GateTasks
  Serial = TRUE
  Faults = {"unreachable"}
  MaxQueue = 1
  MaxAppts = 1
INVARIANT NobodyStranded
PROPERTIES AutomaticGatesDecide LegalSteps
