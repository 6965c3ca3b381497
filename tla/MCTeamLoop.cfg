SPECIFICATION LoopSpec
CONSTANTS
  Slots = {s1}
  Msgs = {c1, c2}
  Runs = {r1}
  Callers = {c1, c2}
  Calls <- ControlCalls
  Faults = {}
  Sources = {"UserMessage", "LeadIntervention"}
  NoMsg = NoMsg
  NoRun = NoRun
  MaxIntents = 4
  MaxOps = 3
SYMMETRY Symmetry
INVARIANTS LTypeOK WaitingLoopOwnsNothing NoStrandedWork
PROPERTIES AckedNeverRedelivered UnreadNeverStale
CHECK_DEADLOCK FALSE
