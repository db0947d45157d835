\* Progress of an interactive and of a background session, one at a time.
CONSTANTS
  Session = {s1, b1}
  Interactive = {s1}
  Op = {o1}
  Observe = {}
  MaxApprovals = 1
  Manager = {m1}
  None = None
  Linger = TRUE
  Rails = {"wire"}
  MaxFence = 12
  MaxSplices = 1
  MaxEpoch = 1
  Budget <- CrashAndFail
SPECIFICATION SoloFairSpec
PROPERTIES InputEventuallyFolded CompletionApplied RunnableSettles
CHECK_DEADLOCK FALSE
