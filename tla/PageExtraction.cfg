\* Two pages with up to two events each, calls delivered up to twice.
CONSTANTS
    Doc = {d1, d2}
    Name = {n1}
    NoName = "none"
    MaxFound = 2
    MaxAttempts = 2
    Faulty = TRUE
SPECIFICATION Spec
INVARIANTS
    TypeOK
    DecisionsCiteTheirCall
    OutageLeavesNothing
    CompletedStoredNames
PROPERTY AsDiscoveryRun
CHECK_DEADLOCK FALSE
