SPECIFICATION LoopSpec
CONSTANTS
  Slots = {s1}
  Msgs = {c1, c2}
  Runs = {r1}
  Callers = {c1, c2}
  Calls <- ControlCalls
  Faults = {}
  Sources = {"UserMessage", "LeadIntervention"}
  NoMsg = NoMsg
  NoRun = NoRun
  MaxIntents = 5
  MaxOps = 4
SYMMETRY Symmetry
INVARIANTS InterruptMetadataDrained
CHECK_DEADLOCK FALSE
