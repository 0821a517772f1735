SPECIFICATION Spec
CONSTANTS
    Requests = {r1, r2}
    Workers = {w1, w2}
    MaxQueue = 1
INVARIANT NumbersTellApart
