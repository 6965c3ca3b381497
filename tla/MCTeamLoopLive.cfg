SPECIFICATION FairSpec
CONSTANTS
  Slots = {s1}
  Msgs = {c1, c2}
  Runs = {r1}
  Callers = {c1, c2}
  Calls <- DeliveryCalls
  Faults = {}
  Sources = {"UserMessage"}
  NoMsg = NoMsg
  NoRun = NoRun
  MaxIntents = 8
  MaxOps = 8
INVARIANTS RetryBudget
PROPERTIES EventuallySettled
CHECK_DEADLOCK FALSE
