\* One user, two sessions: registering, reading and writing the profile.
CONSTANTS
    User = {u1}
    Email = {e1}
    Username = {n1}
    Password = {p1}
    Value = {Null, v1}
    Null = Null
    Place = {greenville}
    Seeded = greenville
    Session = {s1, s2}
    MaxRequests = 3
SYMMETRY Symmetry
SPECIFICATION Spec
PROPERTY ReadingKeepsProfiles
CHECK_DEADLOCK FALSE
