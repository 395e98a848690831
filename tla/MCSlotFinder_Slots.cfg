SPECIFICATION Spec
CONSTANTS
  Pipeline = {p1, p2}
  Hour = 2
  Day = 8
  Week = 3
  Weekend = {2}
  GCAL_SLOT_MIN_DAYS = 1
  GCAL_SLOT_MAX_DAYS = 2
  GCAL_APPT_DURATION = 2
  GCAL_SLOT_START_HOUR = 1
  GCAL_SLOT_END_HOUR = 3
  Change = 34
  Delta = 2
  MaxNow = 12
  MaxEvents = 2
  MaxLength = 2
SYMMETRY Symmetric
CHECK_DEADLOCK FALSE
INVARIANT TypeOK
PROPERTIES EarliestSlot InHours FreeInWindow
