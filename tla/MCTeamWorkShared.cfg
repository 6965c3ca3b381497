SPECIFICATION SharedSpec
CONSTANTS
  Slots = {s1, s2}
  Msgs = {m1, m2}
  Runs = {r1}
  Callers = {c1}
  Sources = {"UserMessage"}
  NoMsg = NoMsg
  NoRun = NoRun
  MaxIntents = 2
  MaxOps = 2
SYMMETRY SharedSymmetry
INVARIANTS OneOwner
PROPERTIES KeepsPool
CHECK_DEADLOCK FALSE
