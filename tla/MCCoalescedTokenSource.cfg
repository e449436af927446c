\* The coalescing token source, two calls.
SPECIFICATION FairSpec
CONSTANTS
    Callers = {c1, c2}
    None = None
    Lifetimes = {1, 4}
    Replies <- MCReplies
    Fallback = 4
    Leeway = 2
    Patience = 1
    MaxStep = 1
    Horizon = 5
INVARIANTS
    TypeOK
    NobodyAbandoned
    ExchangeJustified
PROPERTIES
    ServedValid
    ImplementsService
    AwaitEnds
