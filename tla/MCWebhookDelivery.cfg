\* Deliveries rewritten up to twice; a window of one second of two ticks.
SPECIFICATION Spec
CONSTANTS
    Window = 1
    Rate = 2
    Bodies = {"a", "b"}
    Skews <- MCSkews
    Rewrites = 2
    Horizon = 7
INVARIANTS
    TypeOK
    AcceptedWasSigned
    SignedIsAccepted
    SdksAgree
    ControllerSeesSigned
