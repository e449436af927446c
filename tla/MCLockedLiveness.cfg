\* Progress of the locked token source, three threads that never stop asking.
SPECIFICATION FairSpec
CONSTANTS
    Callers = {c1, c2, c3}
    None = None
    Dialects = {"go", "java"}
    Lifetimes = {3}
    Replies <- MCRepliesOne
    Fallback = 3
    Leeway = 2
    Timeout = 1
    MaxStep <- MCMaxStep
    Horizon = 2
PROPERTIES
    LockIsReleased
    GoCallsEnd
