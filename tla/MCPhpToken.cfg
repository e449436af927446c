\* The doc comment on the token method of the PHP client.
SPECIFICATION Spec
CONSTANTS
    Callers = {c1, c2}
    None = None
    Dialects = {"php"}
    Lifetimes = {1, 4}
    Replies <- MCReplies
    Fallback = 4
    Leeway = 2
    Timeout = 1
    MaxStep <- MCMaxStep
    Horizon = 6
INVARIANT
    PhpTokenIsValid
