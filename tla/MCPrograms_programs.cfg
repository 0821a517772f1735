SPECIFICATION Spec
CONSTANTS
    EchoClients = {e1, e2}
    None = None
    WebClients = {b1, b2}
    FirstClient = b1
    Listener = Listener
    MaxLines = 4
    TestClients = {d1, d2}
    Codes = {1, 2}
    MaxCommands = 3
INVARIANTS
    WrongOnlyIfMixed
    OnePlace
    DiesOnlyByReset
    PagesFit
    EndsOnlyBy
    RefusedForAReason
PROPERTIES
    AllServed
    BrowsersServed
    ThreadsEnd
CHECK_DEADLOCK FALSE
