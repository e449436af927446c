\* A documented claim about replies.
SPECIFICATION LookupsSpec
CONSTANTS
    Statuses <- MCStatuses
    Identifiers <- MCIdentifiers
    Versions = 3
INVARIANT
    TaxCodesAreRead
