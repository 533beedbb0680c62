\* Two threads of a child use the client for the first time.
CONSTANTS
    Processes <- MCPair
    Numbers <- MCNumbers
    QuietFork = TRUE
    QuietChild = FALSE
SPECIFICATION ClientSpec
INVARIANT OwnEngine
CHECK_DEADLOCK FALSE
