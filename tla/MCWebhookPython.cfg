\* The docstring of verify_webhook.
SPECIFICATION Spec
CONSTANTS
    Window = 1
    Rate = 2
    Bodies = {"a", "b"}
    Skews <- MCSkews
    Rewrites = 2
    Horizon = 7
INVARIANT
    PythonFailsTyped
