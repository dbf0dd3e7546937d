SPECIFICATION FairSpec
CONSTANTS
    None = None
    orgA = orgA
    orgB = orgB
    orgC = orgC
    p0 = p0
    p1 = p1
    l1 = l1
    l2 = l2
    v1 = v1
    v2 = v2
    code = code
    policy = policy
    collA = collA
    collB = collB
    Network = Network
    Org = {orgA, orgB, orgC}
    Guest = {orgC}
    Peer = {p0, p1}
    GuestPeers <- Peers
    Declared <- UpgradeDeclared
    Initial <- UpgradeInitial
    Edit <- Upgrades
    GuestEdit <- GuestUpgrades
    MaxSequence = 2
    BackoffLimit = 0
INVARIANTS
    DefinitionIsDeclared
    SuccessIsEvidence
PROPERTIES
    
    CommitFollowsApprovals
    LifecycleCompletes
