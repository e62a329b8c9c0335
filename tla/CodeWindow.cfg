SPECIFICATION Spec
CONSTANTS
    Codes <- MCCodes
    Errors <- MCErrors
    Queries <- MCQueries
    Wide = {"w"}
    Chars = {"a", "b", "w"}
    MaxPresses = 4
INVARIANTS TypeOK SearchIsComplete NextGoesRound
PROPERTIES FoundIsSelected
