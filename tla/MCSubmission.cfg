\* Two invoices, each submitted up to twice, in every SDK.
SPECIFICATION Spec
CONSTANTS
    Invoices = {"i1", "i2"}
    None = None
    Attempts = 2
INVARIANTS
    TypeOK
    FiledOnce
    ResultIsOwn
    KeylessNeverConflicts
PROPERTY
    ImplementsFiling
CHECK_DEADLOCK FALSE
