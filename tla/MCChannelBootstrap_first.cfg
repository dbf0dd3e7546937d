SPECIFICATION FairSpec
CONSTANTS
    a = a
    c = c
    p0 = p0
    p1 = p1
    o1 = o1
    o2 = o2
    None = None
    Org = {a, c}
    Peer = {p0, p1}
    Orderer <- OneOrderer
    OrdererOrg = {a}
    Declaration <- Declarations
    initial <- DeclareA
    Edit <- AddC
    EditWhenReady = FALSE
    Envelope <- WellSigned
    CleanupTTL = None
    BackoffLimit = 0
    MaxFaults = 0
    MaxDeletes = 0
    MaxOther = 0
PROPERTY AdmissionIsStaged
