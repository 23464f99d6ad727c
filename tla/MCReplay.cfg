SPECIFICATION Spec
CONSTANTS
    Node <- ReplayNodes
    Cert = {"c1", "c2"}
    Peer <- ReplayPeers
    Request <- ReplayRequests
    LeaseTTL = 2
    MaxGeneration = 3
    MinUpdates = 1
    MaxUpdatesPerMinute = 2
    ReplayWindow = 1
    Minute = 2
    InitialLength = 0
    MaxTime = 4
    MaxId = 2
INVARIANTS AggregatedAtMostOnce
