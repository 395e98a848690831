SPECIFICATION Spec
CONSTANTS
  Pipeline = {p1}
  Poller = {loop}
  MaxRound = 2
  Faults = {"google", "calendar", "io", "crash", "repeat"}
CHECK_DEADLOCK FALSE
INVARIANTS TypeOK PendingIsWatched EventFollowsWhenUncut

PROPERTIES InvitationEnds
