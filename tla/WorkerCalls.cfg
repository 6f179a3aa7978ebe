\* A run of one query with up to two results: two attempts of every call, of which
\* two requests may outlive the worker's patience.
CONSTANTS
    MaxRetries = 2
    Queries = 1
    MaxResults = 2
    PageCalls = 1
    MaxRuns = 1
    MaxLate = 2
    Faulty = TRUE
SPECIFICATION Spec
INVARIANTS
    TypeOK
    TelemetryStored
    ReportedAreStored
PROPERTIES
    ClosedOnce
    Delivers
CHECK_DEADLOCK FALSE
