SPECIFICATION FairSpec
CONSTANTS
    a = a
    c = c
    p0 = p0
    p1 = p1
    o1 = o1
    o2 = o2
    None = None
    Org = {a, c}
    Peer = {p0, p1}
    Orderer <- TwoOrderers
    OrdererOrg = {a}
    Declaration <- Declarations
    initial <- DeclareA
    Edit <- AddC
    EditWhenReady = TRUE
    Envelope <- WellSigned
    CleanupTTL = 0
    BackoffLimit = 2
    MaxFaults = 1
    MaxDeletes = 0
    MaxOther = 0
PROPERTY BootstrapCompletes
INVARIANT AdmissionGate
PROPERTY NoRework
