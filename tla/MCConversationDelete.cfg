SPECIFICATION Spec
CONSTANTS
  user = user
  system = system
  Callers = {user, system}
  Calls <- DeleteCalls
  Faults = {}
  MaxTurns = 1
  MaxEvents = 3
  MaxContinuations = 1
  MaxCells = 4
  Agents = {"Acp"}
INVARIANT
  DeletedConversationHasNoAgent
