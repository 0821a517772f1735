SPECIFICATION ServiceSpec
CONSTANTS
    Requests = {r1, r2, r3}
    Workers = {w1, w2}
    MaxQueue = 1
    Threads = {t1, t2}
    Mobiles = {m1, m2}
    Codes = {k1, k2}
    NoCode = NoCode
    MaxRequests = 4
    QueryFails = TRUE
INVARIANTS
    CloseIsClean
    ToldCodeIsCurrent
    OneRowUnlessRaced
PROPERTIES
    RegistrationNeedsCode
    EventsAreSettled
