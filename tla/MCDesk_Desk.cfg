SPECIFICATION Spec
CONSTANTS
  MaxDm = 2
  MaxTasks = 2
  MaxLost = 1
  ByHand = TRUE
  Faults = {"lost", "repeat", "slack", "gmail"}
CHECK_DEADLOCK FALSE
INVARIANTS
  TypeOK PendingIsAsked ConfirmationIsOnItsWay ApprovedIsDecided
  MailMatchesDecision SecondMailWasRepeated
