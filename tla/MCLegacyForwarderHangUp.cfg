\* Clients that leave before any answer.
CONSTANTS
    Paths <- MCPaths
    ForwardPrefixes <- MCForwardPrefixes
SPECIFICATION Spec
INVARIANTS
    FailedIsThisHop
CHECK_DEADLOCK FALSE
