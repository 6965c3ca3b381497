SPECIFICATION FairSpec
CONSTANTS
  user = user
  system = system
  Callers = {user, system}
  Calls <- EveryCall
  Faults = {"db", "options", "build", "cancel", "agent"}
  MaxTurns = 2
  MaxEvents = 4
  MaxContinuations = 1
  MaxCells = 4
  Agents = {"Acp", "Session", "Antigravity", "Aionrs"}
INVARIANTS
  TypeOK
  OnlyATeardownUnseatsATurn
  NoAgentEscapesItsKill
  EarlyStopHonoured
PROPERTIES
  CancelEndsTheTurn
  RestartGateOpens
