\* One request, every choice of headers, options and event order.
CONSTANTS
    Paths <- MCPaths
    ForwardPrefixes <- MCForwardPrefixes
SPECIFICATION FairSpec
INVARIANTS
    LedgerTruthful
    NoSocketLeftBehind
    ForwardedFaithfully
PROPERTIES
    ForwardPromiseKept
    OutboundReleased
CHECK_DEADLOCK FALSE
