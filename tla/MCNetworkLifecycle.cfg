SPECIFICATION FairSpec
CONSTANTS
    None = None
    dotted = dotted
    dashed = dashed
    prefixed = prefixed
    a = a
    b = b
    Network = {dotted, dashed, prefixed}
    Org = {a, b}
    sanitizeName <- MCSanitizeName
    Namespace <- MCNamespace
    namespaceName <- MCNamespaceName
    Declaration <- Declarations
    Initial <- Scenarios
INVARIANTS
    TypeOK
    WakeupIsKept
PROPERTIES
    OwnershipIsRespected
    FinalizerGuardsCleanup
    NetworksSettle
CHECK_DEADLOCK FALSE
