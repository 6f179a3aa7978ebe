\* Two events, two sessions: saves, bulk runs, merges and scans overlap.
CONSTANTS
    Session = {s1, s2}
    MaxEvents = 2
    MaxRequests = 4
    BatchLimit = 2
    Place = {"main", "elm", "state", "blank"}
    Selectable = {"main", "elm", "blank"}
    Askable = {"main", "elm", "state"}
    Known = {"main", "elm"}
    Faulty = TRUE
SPECIFICATION FairSpec
INVARIANTS
    TypeOK
    OwnCoordinates
    DeadlockNeedsMerge
PROPERTY RequestsEnd
CHECK_DEADLOCK FALSE
