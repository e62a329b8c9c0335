------------------------------ MODULE SymbolDb ------------------------------
(***************************************************************************)
(* Symbols on their way from Vivisect to Ghidra: SymbolExtractor collects   *)
(* them for a function, SymbolInfo.to_dict writes them down, and the server *)
(* (the script StartBridgeServer or the plugin's SymbolApplier) applies     *)
(* them to its program one by one, while other clients change the program   *)
(* too.  Whatever Ghidra is asked to write it may refuse.  One request is  *)
(* followed; those before it and beside it are writes of others.  A type is *)
(* a base and the number of stars after it.                                *)
(***************************************************************************)
EXTENDS Integers, Sequences

CONSTANTS
    Addresses,   \* of functions in Vivisect, as Ghidra has them
    Names,       \* names in Vivisect: a stem after prefixes, or NoName
    ArgNames,    \* names of arguments
    Types,       \* C types in Vivisect
    Infos,       \* what Vivisect may know of a function
    Edits,       \* signatures that other clients set
    Known,       \* bases that Ghidra has a data type for
    Labels,      \* what labels an address may have before
    MaxSymbols,  \* bound on the symbols of a request
    MaxParams,   \* bound on the parameter types of a function
    MaxTries,    \* bound on the times the symbols are applied
    MaxWrites    \* bound on the writes of other clients

Star(b, n) == [base |-> b, stars |-> n]
NoType == Star("", 0)
NoName == <<>>
NoFunction == <<"no function">>

\* Types of the parameters of a function, in order.
Lists == UNION {[1..n -> Types] : n \in 0..MaxParams}

Knowledge ==
    [raises : BOOLEAN, name : Names, api : BOOLEAN, api_name : Names, ret : Types, params : Lists]

ASSUME ConstantsAssumption ==
    /\ MaxSymbols \in Nat /\ MaxParams \in Nat /\ MaxTries \in Nat /\ MaxWrites \in Nat
    /\ NoName \in Names /\ NoFunction \notin Names
    /\ \A t \in Types : t.stars \in Nat /\ t = Star(t.base, t.stars)
    /\ Infos \subseteq Knowledge
    /\ Edits \subseteq [name : Names, return_type : Types, param_types : Lists]
    /\ Known \cap {"", "void"} = {}
    /\ \A l \in Labels : l = <<>> \/ l = <<l[1]>>

VARIABLES
    viv,       \* what Vivisect knows of each function
    script,    \* the server is StartBridgeServer
    phase,     \* of the request: "idle", "args", "xrefs", "apply", "done"
    fva,       \* the function it is for
    symbols,   \* its symbols
    at,        \* the next one to be applied
    applied,   \* those counted as applied
    name, type, labels,  \* Ghidra's program: functions, and labels in order
    before,    \* history: the program when the symbols began to be applied
    touched,   \* history: functions that others have written to since then
    refused,   \* history: Ghidra has refused a write since then
    repeated,  \* history: the request repeats one after which all was as asked
    tries, writes  \* history: what is bounded

program == <<name, type, labels>>
request == <<phase, fva, symbols, at, applied>>
history == <<before, touched, refused, repeated, tries, writes>>
vars == <<viv, script, request, program, history>>
-----------------------------------------------------------------------------
(* SymbolInfo *)

Strip(n, prefix) == IF n # NoName /\ Head(n) = prefix THEN Tail(n) ELSE n

\* "*." goes, and then "plt_".
Plain(n) == Strip(Strip(n, "*."), "plt_")

to_dict(s) == [s EXCEPT !.name = Plain(@)]

\* What stands for no function is no name, with prefixes or without.
ASSUME NamesAssumption == \A n \in Names \cup ArgNames : Plain(n) # NoFunction

Symbol(n, a, f, r, p) ==
    [name |-> n, address |-> a, is_function |-> f, return_type |-> r, param_types |-> p]

\* A function without an API has no types.
FunctionSymbol(a) ==
    LET n == IF viv[a].name = NoName THEN <<"sub_", a>> ELSE viv[a].name
    IN  IF viv[a].api
        THEN Symbol(viv[a].api_name, a, TRUE, viv[a].ret, viv[a].params)
        ELSE Symbol(n, a, TRUE, NoType, <<>>)

\* None when Vivisect raises.
extract_function_symbol(a) == IF viv[a].raises THEN <<>> ELSE <<FunctionSymbol(a)>>

RangeOf(s) == {s[i] : i \in DOMAIN s}

\* Symbols are gathered.  Either loop may end early: Vivisect raises, and what
\* there is is kept.
extract_for_function ==
    \E a \in Addresses :
        /\ phase = "idle" /\ phase' = "args"
        /\ fva' = a /\ symbols' = extract_function_symbol(a)
        /\ at' = 1 /\ applied' = {}
        /\ UNCHANGED <<viv, script, program, history>>

Gather(p, s) ==
    /\ phase = p /\ Len(symbols) < MaxSymbols
    /\ symbols' = Append(symbols, s)
    /\ UNCHANGED <<viv, script, phase, fva, at, applied, program, history>>

Number == Len(symbols) - Len(extract_function_symbol(fva))

\* An argument has no address of its own; without a name it is called by number.
Argument ==
    \E n \in ArgNames \cup {NoName} :
        Gather("args", Symbol(IF n = NoName THEN <<"arg", Number>> ELSE n,
                              fva, FALSE, NoType, <<>>))

ArgumentsDone ==
    /\ phase = "args" /\ phase' = "xrefs"
    /\ UNCHANGED <<viv, script, fva, symbols, at, applied, program, history>>

Bug_CalledFunction ==
    \E a \in Addresses :
        /\ ~viv[a].raises
        /\ Gather("xrefs", FunctionSymbol(a))

\* A function called from here, unless its symbol is there already.
CalledFunction ==
    \E a \in Addresses :
        /\ ~viv[a].raises /\ FunctionSymbol(a) \notin RangeOf(symbols)
        /\ Gather("xrefs", FunctionSymbol(a))
-----------------------------------------------------------------------------
(* The server *)

Bug_Starts ==
    /\ at' = 1 /\ applied' = applied
    /\ before' = program /\ touched' = {} /\ refused' = FALSE
    /\ tries < MaxTries /\ tries' = tries + 1

Starts ==
    /\ at' = 1 /\ applied' = {}
    /\ before' = program /\ touched' = {} /\ refused' = FALSE
    /\ tries < MaxTries /\ tries' = tries + 1

apply_symbols ==
    /\ phase = "xrefs" /\ phase' = "apply"
    /\ symbols' = [i \in DOMAIN symbols |-> to_dict(symbols[i])]
    /\ Starts /\ repeated' = FALSE
    /\ UNCHANGED <<viv, script, fva, program, writes>>

\* The client has given up on the reply, or wants to be sure.
Repeat ==
    /\ phase = "done" /\ phase' = "apply"
    /\ Starts /\ repeated' = (~refused /\ touched = {})
    /\ UNCHANGED <<viv, script, fva, symbols, program, writes>>

\* In the plugin "double" falls through to size_t.
BaseType(b) == IF b = "double" /\ ~script THEN "size_t" ELSE b

\* A pointer to a type that is not known is a pointer all the same.
parseDataType(t) ==
    IF BaseType(t.base) \in Known THEN Star(BaseType(t.base), t.stars)
    ELSE IF t.stars > 0 THEN Star("undefined", t.stars)
    ELSE NoType

\* A parameter whose type is not known is left out.
IsType(t) == t # NoType
Parameters(p) == SelectSeq([i \in DOMAIN p |-> parseDataType(p[i])], IsType)

Bug_Typed(f, r, p) ==
    [return_type |-> IF parseDataType(r) = NoType THEN f.return_type ELSE parseDataType(r),
     params |-> f.params \o Parameters(p)]

\* The type of a function of type f when r and p have been written to it.
Typed(f, r, p) ==
    [return_type |-> IF parseDataType(r) = NoType THEN f.return_type ELSE parseDataType(r),
     params |-> IF Parameters(p) = <<>> THEN f.params ELSE Parameters(p)]

\* Either may be refused without a word.
Written(f, r, p) ==
    [return_type : {f.return_type, Typed(f, r, p).return_type},
     params : {f.params, Typed(f, r, p).params}]

Undeclared == [return_type |-> Star("undefined", 0), params |-> <<>>]

Suffixed(n) == Append(n, "_viv")

\* The plugin tries another name for a function that is there already.
NamesFor(s) ==
    IF script \/ name[s.address] = NoFunction THEN {s.name} ELSE {s.name, Suffixed(s.name)}

Next_symbol(s) ==
    /\ phase = "apply" /\ at <= Len(symbols) /\ s = symbols[at]
    /\ at' = at + 1
    /\ UNCHANGED <<viv, script, phase, fva, symbols, before, touched, repeated, tries, writes>>

Bug_ApplyFunctionSymbol ==
    \E s \in RangeOf(symbols) :
        /\ Next_symbol(s) /\ s.name # NoName /\ s.is_function
        /\ applied' = applied \cup {at} /\ UNCHANGED labels
        /\ \E n \in NamesFor(s) \cup {name[s.address]} :
           \E w \in Written(type[s.address], s.return_type, s.param_types) :
            /\ name' = [name EXCEPT ![s.address] = n]
            /\ type' = [type EXCEPT ![s.address] = w]
            /\ refused' = (refused \/ n # s.name
                            \/ w # Typed(type[s.address], s.return_type, s.param_types))

\* The function is renamed, or created, and its types are written.
ApplyFunctionSymbol ==
    \E s \in RangeOf(symbols) :
        /\ Next_symbol(s) /\ s.name # NoName /\ s.is_function
        /\ applied' = applied \cup {at} /\ UNCHANGED labels
        /\ \E n \in NamesFor(s), w \in Written(type[s.address], s.return_type, s.param_types) :
            /\ name' = [name EXCEPT ![s.address] = n]
            /\ type' = [type EXCEPT ![s.address] = w]
            /\ refused' = (refused \/ n # s.name
                            \/ w # Typed(type[s.address], s.return_type, s.param_types))

\* The script counts a symbol for which Ghidra has made no function.
NoFunctionMade ==
    \E s \in RangeOf(symbols) :
        /\ Next_symbol(s) /\ s.name # NoName /\ s.is_function
        /\ script /\ name[s.address] = NoFunction
        /\ applied' = applied \cup {at} /\ refused' = TRUE /\ UNCHANGED program

PutLabel(a, n) ==
    labels' = [labels EXCEPT ![a] = IF n \in RangeOf(@) THEN @ ELSE Append(@, n)]

\* What stands first at an address gets a name: its function if it has one, or
\* else a label, and that is created where there is none.
RenameFirst(a, n) ==
    \/ /\ name[a] # NoFunction
       /\ name' = [name EXCEPT ![a] = n] /\ UNCHANGED labels
    \/ /\ name[a] = NoFunction /\ labels[a] # <<>>
       /\ labels' = [labels EXCEPT ![a][1] = n] /\ UNCHANGED name
    \/ /\ name[a] = NoFunction /\ labels[a] = <<>>
       /\ PutLabel(a, n) /\ UNCHANGED name

Bug_ApplyDataSymbol ==
    \E s \in RangeOf(symbols) :
        /\ Next_symbol(s) /\ s.name # NoName /\ ~s.is_function
        /\ applied' = applied \cup {at} /\ UNCHANGED <<type, refused>>
        /\ RenameFirst(s.address, s.name)

\* A label is created wherever there is no function.
Bug_ApplyDataSymbolAdds ==
    \E s \in RangeOf(symbols) :
        /\ Next_symbol(s) /\ s.name # NoName /\ ~s.is_function
        /\ applied' = applied \cup {at} /\ UNCHANGED <<type, refused>>
        /\ IF script \/ name[s.address] = NoFunction
           THEN PutLabel(s.address, s.name) /\ UNCHANGED name
           ELSE name' = [name EXCEPT ![s.address] = s.name] /\ UNCHANGED labels

\* The script creates a label, beside a function too.
ApplyDataSymbol ==
    \E s \in RangeOf(symbols) :
        /\ Next_symbol(s) /\ s.name # NoName /\ ~s.is_function
        /\ applied' = applied \cup {at} /\ UNCHANGED <<type, refused>>
        /\ IF script
           THEN PutLabel(s.address, s.name) /\ UNCHANGED name
           ELSE RenameFirst(s.address, s.name)

Bug_SymbolFails ==
    \E s \in RangeOf(symbols) :
        /\ Next_symbol(s) /\ s.name # NoName
        /\ refused' = TRUE /\ UNCHANGED <<applied, name, labels>>
        /\ \E w \in Written(type[s.address], s.return_type, s.param_types) :
            type' = [type EXCEPT ![s.address] = w]

\* Ghidra refuses the name or, to the plugin, the function, and the symbol is not
\* counted.
SymbolFails ==
    \E s \in RangeOf(symbols) :
        /\ Next_symbol(s) /\ s.name # NoName
        /\ refused' = TRUE /\ UNCHANGED <<applied, program>>

NoNameFails ==
    \E s \in RangeOf(symbols) :
        /\ Next_symbol(s) /\ s.name = NoName
        /\ UNCHANGED <<applied, program, refused>>

SymbolsApplied ==
    /\ phase = "apply" /\ at > Len(symbols) /\ phase' = "done"
    /\ UNCHANGED <<viv, script, fva, symbols, at, applied, program, history>>

-----------------------------------------------------------------------------
(* Other clients of the script, or the user of Ghidra *)

Touch(a) ==
    /\ touched' = touched \cup {a}
    /\ writes < MaxWrites /\ writes' = writes + 1
    /\ UNCHANGED <<viv, script, request, before, refused, repeated, tries>>

rename_symbol ==
    \E a \in Addresses, n \in Names \ {NoName} :
        /\ name[a] # NoFunction /\ Touch(a)
        /\ name' = [name EXCEPT ![a] = n]
        /\ UNCHANGED <<type, labels>>

\* rename_symbol of what is said to be no function.
rename_data ==
    \E a \in Addresses, n \in Names \ {NoName} :
        /\ Touch(a) /\ UNCHANGED type
        /\ RenameFirst(a, n)

\* The name is best effort here, and the types are.
set_signature ==
    \E a \in Addresses, e \in Edits :
        /\ name[a] # NoFunction /\ Touch(a) /\ UNCHANGED labels
        /\ \E n \in {name[a]} \cup ({e.name} \ {NoName}),
              w \in Written(type[a], e.return_type, e.param_types) :
            /\ name' = [name EXCEPT ![a] = n]
            /\ type' = [type EXCEPT ![a] = w]
-----------------------------------------------------------------------------
Init ==
    /\ viv \in [Addresses -> Infos] /\ script \in BOOLEAN
    /\ phase = "idle" /\ fva \in Addresses /\ symbols = <<>> /\ at = 1 /\ applied = {}
    /\ \E F \in SUBSET Addresses :
         name = [a \in Addresses |-> IF a \in F THEN <<"FUN_", a>> ELSE NoFunction]
    /\ type = [a \in Addresses |-> Undeclared] /\ labels \in [Addresses -> Labels]
    /\ before = program /\ touched = {} /\ refused = FALSE /\ repeated = FALSE
    /\ tries = 0 /\ writes = 0

Next ==
    \/ extract_for_function \/ Argument \/ ArgumentsDone \/ CalledFunction
    \/ apply_symbols \/ ApplyFunctionSymbol \/ NoFunctionMade \/ ApplyDataSymbol
    \/ SymbolFails \/ NoNameFails \/ SymbolsApplied \/ Repeat
    \/ rename_symbol \/ rename_data \/ set_signature

Spec == Init /\ [][Next]_vars
=============================================================================
