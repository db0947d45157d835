\* One process under faults, and under several callers.
CONSTANTS
  Session = {s1}
  Interactive = {s1}
  Op = {o1, o2}
  Observe = {o2}
  MaxApprovals = 1
  Manager = {m1}
  None = None
  Linger = TRUE
  Rails = {"host", "wire"}
  MaxFence = 3
  MaxSplices = 2
  MaxEpoch = 1
  Budget <- OneProcess
SPECIFICATION Spec
CONSTRAINT FaultsOrCallers
INVARIANTS TypeOK ExactlyOnce NoStrandedIdle AwaitedApprovalAccounted
  NoSelfFencing
PROPERTIES ImplementsInbox EditSurvives
CHECK_DEADLOCK FALSE
