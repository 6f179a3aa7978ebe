\* One query, which may fail.
CONSTANTS
    Url = {u1}
    Text = {t1}
    Name = {n1}
    NoName = "none"
    Queries = 1
    MaxUrls = 1
    MaxPages = 1
    MaxFound = 1
    MaxAttempts = 2
    MaxRuns = 1
    HasKey = TRUE
    Faulty = TRUE
SPECIFICATION Spec
INVARIANT FailedQueryIsPartial
