\* Two administrators merge at the same time. No score reaches the threshold, so that saves
\* flag nothing and the two merges are all that points events at each other.
CONSTANTS
    MaxEvents = 2
    Doc = {d1}
    Attr <- MCAttr
    Name <- MCName
    NoName = "none"
    NameOf <- MCNameOf
    Blank = {}
    Located <- MCLocated
    Score <- MCScore
    Threshold = 101
    CandidateLimit = 50
    PatchStatuses = {}
    Admin = {a1, a2}
    Worker = {w1}
SPECIFICATION SessionsSpec
INVARIANT EvidenceKept
