SPECIFICATION FairSpec
CONSTANTS
    HeaderLen = 2
    MaxMessageLen = 2
    MaxPackets = 2
    Scripts <- GoodScripts
PROPERTY AllAnswered
