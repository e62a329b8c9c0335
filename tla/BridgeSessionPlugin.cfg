SPECIFICATION Spec
CONSTANTS
    Funcs <- MCFuncs
    Names <- MCNames
    Base <- MCBase
    Shift = 10
    Script = FALSE
    MaxLate = 0
    MaxNotes = 1
INVARIANT ErrorsAreFailures
