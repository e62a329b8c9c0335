SPECIFICATION Spec
CONSTANTS
    MaxCalls = 2
    MaxConns = 1
INVARIANT
    OwnReply
