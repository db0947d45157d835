CONSTANTS
  Session = {b1}
  Interactive = {}
  Op = {o1}
  Observe = {}
  MaxApprovals = 0
  Manager = {m1}
  None = None
  Linger = FALSE
  Rails = {"wire"}
  MaxFence = 3
  MaxSplices = 1
  MaxEpoch = 0
  Budget <- NoEvents
SPECIFICATION Spec
INVARIANT NoStrandedCompleted
CHECK_DEADLOCK FALSE
