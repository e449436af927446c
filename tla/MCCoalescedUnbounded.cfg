\* The comment on token() against an exchange of any length.
SPECIFICATION Spec
CONSTANTS
    Callers = {c1, c2}
    None = None
    Lifetimes = {1, 4}
    Replies <- MCReplies
    Fallback = 4
    Leeway = 2
    Patience = 1
    MaxStep = 0
    Horizon = 6
PROPERTIES
    CachedAlwaysValid
