\* readLogicalDiskAligned refines the spec 4.4 transaction, against a
\* device that may drop, repeat or corrupt one reply.
CONSTANTS
    MinBlock = 2
    MaxBlock = 4
    SectorSize = 2
    SectorBits = 1
    LengthBits = 3
    ChunkSize = 2
    Positions <- MCPositions
    Amounts <- MCAmounts
    MaxCalls = 2
    MaxFaults = 1

SPECIFICATION Spec

PROPERTY TxnRefinement

\* The caller stops after MaxCalls calls.
CHECK_DEADLOCK FALSE
