SPECIFICATION Spec
CONSTANTS
    eax = eax
    eflags_eq = eflags_eq
    eflags_lt = eflags_lt
    tmp = tmp
    NoName = NoName
    Registers = {eax}
    Flags = {eflags_eq, eflags_lt}
    Strangers = {tmp}
    Args = {0}
    Literals = {0}
    Operators = {"SUB"}
    Widths = {1, 4}
    Word <- MCWord
    Arith <- MCArith
    Alu <- MCAlu
    Result <- MCResult
    RegOffset <- MCRegOffset
    Hash <- MCHash
    ARG_BASE = 4096
    Starts <- MCStarts
    MaxOps = 3
    MaxDepth = 2
INVARIANTS TypeOK AssignedOnce DefinedBeforeUse
VIEW View
 
