CONSTANTS
    MinBlock = 2
    MaxBlock = 4
    SectorSize = 2
    SectorBits = 1
    LengthBits = 3
    ChunkSize = 2
    Positions <- MCPositions
    Amounts <- MCAmounts
    MaxCalls = 2
    MaxFaults = 1

SPECIFICATION FairSpec

INVARIANT TypeOK
INVARIANT NoOverrun
INVARIANT FramesMatchRequests
INVARIANT SubscriptionScoped

PROPERTY CallReturns

CHECK_DEADLOCK FALSE
