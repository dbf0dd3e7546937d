SPECIFICATION FairSpec
CONSTANTS
    None = None
    Admin = Admin
    orderer0 = orderer0
    peer0 = peer0
    r1 = r1
    r2 = r2
    Orderer = {orderer0}
    Peer = {peer0}
    Request = {r1, r2}
    Initial <- Scenarios
    BackoffLimit = 0
INVARIANTS
    TypeOK
    CredentialsAreAccepted
PROPERTIES
    PromotionKeepsPrevious
    RotationHoldsWork
    ReadyRunsCurrent
    OrgCompletes
