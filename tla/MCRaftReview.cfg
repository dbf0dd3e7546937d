SPECIFICATION Spec
CONSTANTS
    RaftConsenter <- MCRaftConsenter
    endpoint <- MCEndpoint
    client <- MCCertificate
    server <- MCCertificate
    ValidEndpoint = {"a:7050", "b:7050", "c:7050"}
    LeafCertificate = {"certA", "certB", "certC"}
    Lists <- MCLists
    Rests <- MCRests
    Sequences64 <- MCSequences64
    Snapshots <- MCSnapshots
    Handed <- MCHanded
INVARIANTS
    TypeOK
    PlanReachesDesired
    AcceptedPlanIsOneDelta
    AcceptedQuorumsOverlap
    SequenceOrderIsNumeric
CHECK_DEADLOCK FALSE
