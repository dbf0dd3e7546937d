SPECIFICATION StoriesSpec
CONSTANTS
    RaftConsenter <- MCOrderer
    endpoint <- Itself
    client <- Itself
    server <- Itself
    ValidEndpoint <- MCOrderer
    LeafCertificate <- MCOrderer
    Orderer <- MCOrderer
    Request = {"add", "remove", "removeO1", "confirm", "stale", "relabelled", "misplaced"}
    plan <- MCPlan
    source <- MCSource
    Envelope = {"addSigned", "addTooFew", "addUnsigned", "removeSigned", "removeO1Signed"}
    update <- MCUpdate
    signatures <- MCSignatures
    Operation <- AddOrRemove
    NoRequest = NoRequest
    NoEnvelope = NoEnvelope
    Withdrawable = TRUE
    History <- MCHistory
    Replicated <- MCReplicated
    OtherLists <- SomeLists
    OtherModes = {"maintenance"}
    OtherRests = {"reviewed"}
    Renewable = {"o3"}
    MaxHeight = 4
    MaxPending = 2
    MaxEdits = 4
    MaxFailures = 1
INVARIANTS
    TypeOK
    ReceiptIsEarned
    ReadyIsEarned
PROPERTIES
    SubmitsOnlyCaughtUp
    OrdersOnlyReviewedChange
