CONSTANTS
  Session = {s1}
  Interactive = {s1}
  Op = {o1, o2}
  Observe = {}
  MaxApprovals = 0
  Manager = {m1}
  None = None
  Linger = FALSE
  Rails = {"wire"}
  MaxFence = 3
  MaxSplices = 2
  MaxEpoch = 1
  Budget <- OneEdit
SPECIFICATION Spec
PROPERTY EditSurvives
CHECK_DEADLOCK FALSE
