SPECIFICATION Spec
CONSTANTS
  Pipeline = {p1}
  Worker = {w1, w2}
  Slot = {s1}
  Score = {1}
  NoSlot = NoSlot
  NoPipeline = NoPipeline
  Task <- ScoreTasks
  Serial = FALSE
  Faults = {"io", "unreachable", "crash"}
  MaxQueue = 2
  MaxAppts = 1
PROPERTY TwiceOnlyByRace
