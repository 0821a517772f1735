SPECIFICATION Spec
CONSTANTS
    EchoClients = {e1}
    None = None
    WebClients = {b1}
    FirstClient = b1
    Listener = Listener
    MaxLines = 2
    TestClients = {d1}
    Codes = {1}
    MaxCommands = 1
PROPERTY JoinReturns
CHECK_DEADLOCK FALSE
