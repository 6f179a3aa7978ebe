\* Two users, three sessions, five requests.
CONSTANTS
    User = {u1, u2}
    Email = {e1, e2, e3}
    Username = {n1, n2}
    Password = {p1}
    Value = {Null, v1}
    Null = Null
    Place = {greenville, elsewhere}
    Seeded = greenville
    Session = {s1, s2, s3}
    MaxRequests = 5
SYMMETRY Symmetry
SPECIFICATION Spec
INVARIANTS
    TypeOK
    HistoryTraces
    FollowedIsSearched
    AloneIsNotRejected
    DeadlockOnlyOnOwnRow
PROPERTIES
    OnlyReadersOverwrite
    AloneProfileAsSent
CHECK_DEADLOCK FALSE
