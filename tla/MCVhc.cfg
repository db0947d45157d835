CONSTANTS
    a = a  b = b  c = c  x = x
    Peer = {a, b, c}
    Payload = {x}
    MinPeers = 1  MaxPeers = 2
    WarmupS = 2  TrainS = 1  WitnessS = 1  CooldownS = 1
    EpochRounds = 2  StallRounds = 0  KAbsences = 1  WitnessTarget = 0
    BatchStart = 2  BatchEnd = 3  BatchRamp = 2
    StopRounds = 3  NumStored = 2
    Timely = {a, b}
    MaxStep = 1
    VhcBudgets <- Inputs
SPECIFICATION VhcFairSpec
INVARIANTS VhcTypeOK SeatsBounded RosterFrozen WindowsTile ReplayGapFree
PROPERTIES WarmupHonest RunFinishes ImplementsRoundLog
CHECK_DEADLOCK FALSE
