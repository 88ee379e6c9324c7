SPECIFICATION FairSpec
CONSTANTS
    Buckets <- EchoAndWindow
    Limit = 2
    Window = 2
    Suppression = 2
INVARIANTS
    SettledState
    AwaitsOnlyAnAcceptance
PROPERTIES
    PeerIsHeardAgain
