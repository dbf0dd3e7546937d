SPECIFICATION FairSpec
CONSTANTS
    None = None
    x = x
    y = y
    a1 = a1
    a2 = a2
    Externals <- Order2
    App = {a1, a2}
    Initial <- Scenarios
    MaxOp = 2
    BackoffLimit = 1
INVARIANTS
    TypeOK
    ReadyIsEarned
    ReadyIsCurrent
PROPERTIES
    MembershipCompletes
