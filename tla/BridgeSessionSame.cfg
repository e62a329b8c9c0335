SPECIFICATION Spec
CONSTANTS
    Funcs <- MCFuncs
    Names <- TwoNames
    Base <- MCBase
    Shift = 0
    Script = TRUE
    MaxLate = 1
    MaxNotes = 1
INVARIANTS RenamesReachBoth CommentsReachBoth
