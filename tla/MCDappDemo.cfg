CONSTANTS self = self  other = other  p1 = p1  p2 = p2
CONSTANTS
    Self <- self
    Other <- other
    ProcessId <- p1
    ProcessIds = {p1, p2}
    Events <- MCEvents
    MaxAmount = 3
    RequestNonces = {0}
    MaxLog = 4
SPECIFICATION FairSpec
INVARIANT TypeOK DappLogInOrder
PROPERTY NonceAdvances
CHECK_DEADLOCK FALSE
