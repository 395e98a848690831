SPECIFICATION Spec
CONSTANTS
  Messages = 2
  Poller = {loop, manual}
  Loop = loop
  MaxTrouble = 3
CHECK_DEADLOCK FALSE
INVARIANTS TypeOK ReadForAReason SecondReportHasACause
PROPERTY UnreadIsHandled
