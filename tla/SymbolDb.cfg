SPECIFICATION Spec
CONSTANTS
    Addresses = {a1, a2}
    Names <- MCNames
    ArgNames <- MCArgNames
    Types <- MCTypes
    Infos <- MCInfos
    Edits <- MCEdits
    Known = {"int", "double", "size_t"}
    Labels <- MCLabels
    MaxSymbols = 3
    MaxParams = 1
    MaxTries = 2
    MaxWrites = 1
INVARIANTS TypeOK OneSymbolPerFunction CountedIsThere NothingElseChanged RepeatChangesNothing NoneUndoesAnother LastStands
VIEW View
SYMMETRY MCSymmetry
CHECK_DEADLOCK FALSE
