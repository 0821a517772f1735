SPECIFICATION FairSpec
CONSTANTS
    HeaderLen = 2
    MaxMessageLen = 2
    MaxPackets = 3
    Scripts <- AllScripts
INVARIANT InSync
PROPERTIES
    ImplementsSession
    LockstepAnswered
