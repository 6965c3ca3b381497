SPECIFICATION FairSpec
CONSTANTS
  x = x
  y = y
  Callers = {x, y}
  Calls <- TwoCalls
  Faults = {"start", "db", "agent"}
  MaxFaults = 1
INVARIANTS
  MTypeOK
  ReadyMemberIsServed
  RemovedMemberIsGone
  OneAttachAtATime
  RebuildSparesTheBatch
PROPERTIES
  KeepsReservations
  WaitersAnswered
  NoWorkIsStranded
CHECK_DEADLOCK FALSE
