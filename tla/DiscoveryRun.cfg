\* Two runs over two URLs and two texts: failures, lost replies, crashes and manual
\* ingests.
CONSTANTS
    Url = {u1, u2}
    Text = {t1, t2}
    Name = {n1}
    NoName = "none"
    Queries = 2
    MaxUrls = 2
    MaxPages = 2
    MaxFound = 1
    MaxAttempts = 2
    MaxRuns = 2
    HasKey = TRUE
    Faulty = TRUE
SPECIFICATION FairSpec
INVARIANTS
    TypeOK
    CountsAddUp
    CompletedIsClean
    ExtractedOnce
    NamedOnce
PROPERTY RunEnds
