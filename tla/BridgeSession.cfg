SPECIFICATION Spec
CONSTANTS
    Funcs <- MCFuncs
    Names <- MCNames
    Base <- MCBase
    Shift = 10
    Script = TRUE
    MaxLate = 0
    MaxNotes = 1
INVARIANTS TypeOK OffsetIsShift WindowShowsItsFunction CodeIsCurrent HeaderShowsName ErrorsAreFailures
