SPECIFICATION Spec
CONSTANTS
    Clients = {c1, c2}
    MaxRequests = 1
    Addrs = {a1, a2}
    None = None
    Workers = {w1, w2}
    MaxQueue = 1
INVARIANT ResponseFindsItsSession
