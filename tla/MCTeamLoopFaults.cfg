SPECIFICATION LoopSpec
CONSTANTS
  Slots = {s1}
  Msgs = {c1, c2}
  Runs = {r1}
  Callers = {c1, c2}
  Calls <- FaultyCalls
  Faults = {"db", "busy", "cancel", "transport", "sender"}
  Sources = {"UserMessage", "McpSendMessage", "IdleNotification", "InterruptedNotification", "LeadIntervention"}
  NoMsg = NoMsg
  NoRun = NoRun
  MaxIntents = 4
  MaxOps = 3
SYMMETRY Symmetry
INVARIANTS OneOwner WaitingLoopOwnsNothing LeasesReturned
PROPERTIES UnreadNeverStale
CHECK_DEADLOCK FALSE
