SPECIFICATION FairSpec
CONSTANTS
  a = a
  MaxMessages = 2
  Targets = {a}
  To <- OneTarget
  Midturn = {a}
  PerTargetLimit = 2
  GlobalLimit = 2
  Faults = {"db", "cancel", "agent"}
  Other = Other
  NoTurn = NoTurn
  NoMessage = NoMessage
  MaxEvents = 2
INVARIANTS
  SQTypeOK
  NoMessageVanishes
  WrittenOnce
  DrainedInOrder
  StopClearsTheBacklog
PROPERTIES
  QueueDrains
