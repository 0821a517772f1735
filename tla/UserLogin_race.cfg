SPECIFICATION LoginSpec
CONSTANTS
    Threads = {t1, t2}
    Mobiles = {m1, m2}
    Codes = {k1, k2}
    NoCode = NoCode
    MaxRequests = 4
    QueryFails = FALSE
INVARIANT OneRowPerMobile
