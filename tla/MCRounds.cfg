SPECIFICATION Spec
CONSTANTS
    Node <- RoundNodes
    Cert = {"c1", "c2"}
    Peer <- RoundPeers
    Request <- RoundRequests
    LeaseTTL = 3
    MaxGeneration = 2
    MinUpdates = 2
    MaxUpdatesPerMinute = 1
    ReplayWindow = 1
    Minute = 1
    InitialLength = 0
    MaxTime = 2
    MaxId = 2
INVARIANTS
    TypeOK
    Recoverable
    AcceptedIsDurable
    ServedHistoryIsStable
    AtRestMemoryIsStored
    RoundsAreQuorums
