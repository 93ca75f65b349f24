SPECIFICATION Spec
CONSTANTS
    MaxId = 4
    MaxConnections = 2
    MaxInFlight = 2
INVARIANTS CalledOnce Handshake
PROPERTIES InOrder EventuallyCalled KeepsContract
