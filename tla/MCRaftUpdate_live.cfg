SPECIFICATION AttentiveSpec
CONSTANTS
    RaftConsenter <- Pair
    endpoint <- PairItself
    client <- PairItself
    server <- PairItself
    ValidEndpoint <- Pair
    LeafCertificate <- Pair
    Orderer <- Pair
    Request = {"add"}
    plan <- AddO2
    source <- FromO1
    Envelope = {"addSigned"}
    update <- AddO2Update
    signatures <- Enough
    Operation <- AddOnly
    NoRequest = NoRequest
    NoEnvelope = NoEnvelope
    Withdrawable = TRUE
    History <- Young
    Replicated <- NotJoined
    OtherLists <- OriginalList
    OtherModes = {}
    OtherRests = {}
    Renewable = {"o2"}
    MaxHeight = 2
    MaxPending = 1
    MaxEdits = 2
    MaxFailures = 1
PROPERTIES
    AnnouncesOnlyEarned
    SubmissionEnds
    ReceiptIsReported
    CommittedIsReported
