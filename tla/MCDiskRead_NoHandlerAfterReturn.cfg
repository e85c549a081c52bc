CONSTANTS
    MinBlock = 2
    MaxBlock = 4
    SectorSize = 2
    SectorBits = 1
    LengthBits = 3
    ChunkSize = 2
    Positions <- MCPositions
    Amounts <- MCAmounts
    MaxCalls = 2
    MaxFaults = 0

SPECIFICATION Spec

INVARIANT NoHandlerAfterReturn
\* The caller stops after MaxCalls calls.
CHECK_DEADLOCK FALSE
