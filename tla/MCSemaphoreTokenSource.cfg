\* The semaphore token source, three tasks, with cancellation and disposal.
SPECIFICATION FairSpec
CONSTANTS
    Callers = {c1, c2, c3}
INVARIANTS
    TypeOK
    PermitConserved
    NoLostWakeup
PROPERTIES
    WaitEnds
    ImplementsService
