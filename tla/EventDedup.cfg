\* Three events from one document: flags, merges, status changes and scans.
CONSTANTS
    MaxEvents = 3
    Doc = {d1}
    Attr <- MCAttr
    Name <- MCName
    NoName = "none"
    NameOf <- MCNameOf
    Blank <- MCBlank
    Located <- MCLocated
    Score <- MCScore
    Threshold = 75
    CandidateLimit = 1
    PatchStatuses = {"candidate", "merged"}
SPECIFICATION Spec
INVARIANTS
    TypeOK
    NoDuplicateCycle
    ScanLoopAgrees
PROPERTY ForestSpec
