\* Links and claims while one administrator acts and the worker saves candidates.
CONSTANTS
    MaxEvents = 3
    Doc = {d1, d2}
    Attr <- MCAttr
    Name <- MCName
    NoName = "none"
    NameOf <- MCNameOf
    Blank = {}
    Located <- MCLocated
    Score <- MCScore
    Threshold = 75
    CandidateLimit = 50
    PatchStatuses = {"candidate"}
    Admin = {a1}
    Worker = {w1}
SYMMETRY Symmetry
SPECIFICATION SessionsSpec
INVARIANTS
    ClaimsBacked
    EvidenceKept
