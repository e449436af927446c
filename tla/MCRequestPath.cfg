\* A client of every SDK, from every combination of options; every reply to
\* every operation.
SPECIFICATION LookupsSpec
CONSTANTS
    Statuses <- MCStatuses
    Identifiers <- MCIdentifiers
    Versions = 3
INVARIANTS
    TypeOK
    CompleteOptionsAgree
    ProviderNormalises
    BearerIsConfigured
    RequestReachesOperation
    RefusalsAreApiErrors
    CanonicalCodeArrives
    ResultMeansSuccess
    FacadeAgreesWithParser
    EmptyIsNoResult
    ValidatorMatchesList
