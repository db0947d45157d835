CONSTANTS
  Session = {s1}
  Interactive = {s1}
  Op = {o1, o2}
  Observe = {}
  MaxApprovals = 0
  Manager = {m1, m2}
  None = None
  Linger = FALSE
  Rails = {"host"}
  MaxFence = 3
  MaxSplices = 2
  MaxEpoch = 0
  Budget <- Rivals
SPECIFICATION Spec
CONSTRAINT CutOrInterrupt
INVARIANTS LeaseUnique CommitsFresh ExactlyOnce
SYMMETRY Symmetry
CHECK_DEADLOCK FALSE
