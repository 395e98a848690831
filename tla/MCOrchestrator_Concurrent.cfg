SPECIFICATION Spec
CONSTANTS
  Pipeline = {p1}
  Worker = {w1, w2}
  Slot = {s1}
  Score = {1}
  NoSlot = NoSlot
  NoPipeline = NoPipeline
  Task <- VisitTasks
  Serial = FALSE
  Faults = {}
  MaxQueue = 2
  MaxAppts = 1
SYMMETRY WorkerSymmetry
INVARIANTS TypeOK GatesPassed RequestsJustified AppointmentsWereBooked
