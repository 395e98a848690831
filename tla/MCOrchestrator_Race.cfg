SPECIFICATION Spec
CONSTANTS
  Pipeline = {p1}
  Worker = {w1, w2}
  Slot = {s1}
  Score = {1}
  NoSlot = NoSlot
  NoPipeline = NoPipeline
  Task <- AnswerTasks
  Serial = FALSE
  Faults = {}
  MaxQueue = 1
  MaxAppts = 1
PROPERTY LegalSteps
