SPECIFICATION Spec
CONSTANTS
  Slots = {s1}
  Msgs = {m1, m2}
  Runs = {r1}
  Callers = {c1}
  Sources = {"UserMessage", "IdleNotification"}
  NoMsg = NoMsg
  NoRun = NoRun
  MaxIntents = 2
  MaxOps = 1
SYMMETRY Symmetry
INVARIANTS TypeOK OneOwner
PROPERTIES TerminalIsFinal RemovedTakesNoSend KeepsPool
CHECK_DEADLOCK FALSE
