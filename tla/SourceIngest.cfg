\* Two manual and two worker requests over two texts.
CONSTANTS
    Manual = {m1, m2}
    Worker = {w1, w2}
    Text = {t1, t2}
    Nobody = Nobody
    Faulty = TRUE
SPECIFICATION FairSpec
INVARIANTS
    TypeOK
    OneManualEvent
PROPERTIES
    PromiseKept
    Answered
CHECK_DEADLOCK FALSE
