SPECIFICATION FairSpec
CONSTANTS
    Conns = {c1, c2}
    Fds = {1, 2}
    Listener = Listener
    Stats = {s1, s2}
    None = None
    Short = 1
    Long = 2
    MaxMsgs = 2
INVARIANTS
    NothingIsStale
    InterestFits
    RepliesNotLost
    EarlyOnlyAtStart
PROPERTY SilentIsClosed
