\* Two concurrent callers: a read that succeeds holds only the answer to its own frame.
CONSTANTS
    c1 = c1
    c2 = c2
    Callers <- MCCallers
    MinBlock = 1
    MaxBlock = 2
    ChunkSize = 1
    Amounts = {1, 2, 3}
    MaxCalls = 2
SYMMETRY MCSymmetry
SPECIFICATION Spec

INVARIANT OwnDataOnly
\* Each caller makes at most MaxCalls calls, after which the system stops.
CHECK_DEADLOCK FALSE
