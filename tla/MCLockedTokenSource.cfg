\* Safety of the locked token source, four dialects, two threads.
SPECIFICATION Spec
CONSTANTS
    Callers = {c1, c2}
    None = None
    Dialects = {"go", "python", "java", "php"}
    Lifetimes = {1, 4}
    Replies <- MCReplies
    Fallback = 4
    Leeway = 2
    Timeout = 1
    MaxStep <- MCMaxStep
    Horizon = 6
INVARIANTS
    TypeOK
    MutualExclusion
    ExchangeJustified
    NoTransient401
    NoBlankToken
PROPERTY
    ImplementsService
