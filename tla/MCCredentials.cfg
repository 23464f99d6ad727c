SPECIFICATION Spec
CONSTANTS
    Node <- CredentialNodes
    Cert = {"c1", "c2"}
    Peer <- CredentialPeers
    Request <- CredentialRequests
    LeaseTTL = 2
    MaxGeneration = 2
    MinUpdates = 3
    MaxUpdatesPerMinute = 1
    ReplayWindow = 0
    Minute = 1
    InitialLength = 0
    MaxTime = 3
    MaxId = 3
INVARIANTS
    AcceptedIsDurable
    RetiredStaysRetired
    RevocationHolds
    RevokedNotPending
