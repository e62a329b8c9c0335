SPECIFICATION Spec
CONSTANTS
    MaxCalls = 3
    MaxConns = 2
INVARIANTS
    TypeOK
    RepliesInOrder
    OwnReplyUnlessTimeout
    FramingLostOnlyByTimeout
    HandlerRunsOnce
    ClosedStaysClosed
PROPERTIES
    HandlerRunsInOrder
    ImplementsRpcSpec
