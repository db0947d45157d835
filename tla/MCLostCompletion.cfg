CONSTANTS
  Session = {s1}
  Interactive = {s1}
  Op = {o1}
  Observe = {}
  MaxApprovals = 1
  Manager = {m1}
  None = None
  Linger = FALSE
  Rails = {"wire"}
  MaxFence = 3
  MaxSplices = 1
  MaxEpoch = 1
  Budget <- OneInterrupt
SPECIFICATION Spec
INVARIANT AwaitedApprovalAccounted
CHECK_DEADLOCK FALSE
