SPECIFICATION OrderSpec
CONSTANTS
  Slots = {s1}
  Msgs = {m1}
  Runs = {r1}
  Callers = {c1}
  Sources = {"UserMessage", "UserCommand", "LeadIntervention"}
  NoMsg = NoMsg
  NoRun = NoRun
  MaxIntents = 3
  MaxOps = 2
INVARIANTS LanesKeepCommitOrder IsolatedRunsAlone
CHECK_DEADLOCK FALSE
