\* Two concurrent callers: each one's callback is registered exactly while its call is in progress.
CONSTANTS
    c1 = c1
    c2 = c2
    Callers <- MCCallers
    MinBlock = 1
    MaxBlock = 2
    ChunkSize = 1
    Amounts = {1, 2, 3}
    MaxCalls = 2
SYMMETRY MCSymmetry
SPECIFICATION Spec
INVARIANT TypeOK
INVARIANT SubscriptionsScoped
INVARIANT IInv
\* Each caller makes at most MaxCalls calls, after which the system stops.
CHECK_DEADLOCK FALSE
