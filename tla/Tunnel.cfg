SPECIFICATION Spec
CONSTANTS
    BufferSize = 2
    RecvBuf = 2
    SendBuf = 1
    MaxUnits = 2
    Modes <- MCModes
    Clients <- MCClients
INVARIANTS Conservation LossHasCause NoConnectionUnverified
PROPERTIES Delivered RelayEnds HandshakeCompletes
