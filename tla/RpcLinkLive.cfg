SPECIFICATION FairSpec
CONSTANTS
    MaxCalls = 2
    MaxConns = 2
PROPERTIES
    CallsReturn
    RequestsAnswered
