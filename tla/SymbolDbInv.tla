----------------------------- MODULE SymbolDbInv -----------------------------
(* What SymbolDb must satisfy, and the inductive invariant it follows from. *)
EXTENDS SymbolDb

TypeOK ==
    /\ viv \in [Addresses -> Infos] /\ script \in BOOLEAN
    /\ phase \in {"idle", "args", "xrefs", "apply", "done"}
    /\ fva \in Addresses /\ at \in 1..Len(symbols) + 1 /\ applied \subseteq 1..at - 1
    /\ symbols \in Seq(RangeOf(symbols))
    /\ \A i \in DOMAIN symbols :
        /\ symbols[i].address \in Addresses /\ symbols[i].is_function \in BOOLEAN
        /\ symbols[i].return_type \in Types \cup {NoType} /\ symbols[i].param_types \in Lists
    /\ name = [a \in Addresses |-> name[a]] /\ type = [a \in Addresses |-> type[a]]
    /\ labels = [a \in Addresses |-> labels[a]]
    /\ \A a \in Addresses : labels[a] \in Seq(RangeOf(labels[a]))
    /\ touched \subseteq Addresses /\ refused \in BOOLEAN /\ repeated \in BOOLEAN

\* A request has one symbol for each function, however often that is called and
\* even if it calls itself: symbols for one function could contradict each other.
OneSymbolPerFunction ==
    \A i, j \in DOMAIN symbols :
        /\ symbols[i].is_function /\ symbols[j].is_function
        /\ symbols[i].address = symbols[j].address
        => i = j

Applying == phase \in {"apply", "done"}

\* Symbol j is written over what symbol i has written.
Covers(j, i) ==
    /\ i < j /\ symbols[i].address = symbols[j].address
    /\ ~script \/ symbols[i].is_function = symbols[j].is_function

\* A symbol that is counted as applied is there: the function bears its name,
\* or the name with a suffix, and a label has it, until another symbol of the
\* request or another client writes there.  What the script counts besides is the
\* symbol of a function that Ghidra would not make, and there is none.
CountedIsThere ==
    Applying => \A i \in applied :
        LET s == symbols[i]
        IN  s.address \notin touched /\ (\A j \in applied : ~Covers(j, i)) =>
            IF s.is_function
            THEN \/ name[s.address] \in {s.name, Suffixed(s.name)}
                 \/ script /\ refused /\ name[s.address] = NoFunction
            ELSE s.name \in RangeOf(labels[s.address]) \cup
                           IF script THEN {} ELSE {name[s.address]}

\* Where no symbol is counted and no other client writes, the program is as it
\* was: a symbol that fails half-way leaves nothing behind.
NothingElseChanged ==
    Applying => \A a \in Addresses \ touched :
        (\A i \in applied : symbols[i].address # a) =>
            <<name[a], type[a], labels[a]>> = <<before[1][a], before[2][a], before[3][a]>>

\* To apply the same symbols again, after a timeout say, changes nothing, if all
\* of them were applied and nobody else has written since.
RepeatChangesNothing ==
    phase = "done" /\ repeated /\ ~refused /\ touched = {} => program = before

\* The program is as symbol i asks for, in the script.
AsAsked(i) ==
    LET s == symbols[i]
    IN  s.name # NoName =>
        IF s.is_function
        THEN /\ name[s.address] = s.name
             /\ type[s.address] = Typed(type[s.address], s.return_type, s.param_types)
        ELSE s.name \in RangeOf(labels[s.address])

\* If Ghidra refuses nothing and nobody else writes, the script leaves the
\* program as every symbol of the request asks for, those before the last
\* included: none undoes another, although arguments have the function's address.
NoneUndoesAnother ==
    script /\ phase = "done" /\ ~refused /\ touched = {} =>
        \A i \in DOMAIN symbols : AsAsked(i)
-----------------------------------------------------------------------------
(* What makes them inductive *)

\* While symbols are gathered they are as Vivisect has them.
Gathered ==
    /\ phase = "idle" => symbols = <<>>
    /\ phase \in {"args", "xrefs"} =>
        \A i \in DOMAIN symbols :
            symbols[i].is_function => symbols[i] = FunctionSymbol(symbols[i].address)
    /\ phase = "done" => at = Len(symbols) + 1

\* The part of a request that has been applied is as asked for, and all of it is
\* when it is repeated.
AppliedAsAsked ==
    Applying /\ script /\ ~refused /\ touched = {} =>
        /\ \A i \in 1..at - 1 : AsAsked(i)
        /\ repeated => program = before /\ \A i \in DOMAIN symbols : AsAsked(i)

IInv ==
    /\ TypeOK /\ Gathered /\ OneSymbolPerFunction
    /\ CountedIsThere /\ NothingElseChanged /\ AppliedAsAsked
-----------------------------------------------------------------------------
(* The plugin, where the last symbol of an address wins *)

Named(i) == symbols[i].name # NoName

\* Symbol i is the last of the first n that is applied at address a.
LastAt(a, i, n) ==
    /\ i \in 1..n /\ symbols[i].address = a /\ Named(i)
    /\ \A k \in 1..n : i < k /\ symbols[k].address = a => ~Named(k)

\* Names and labels show a symbol: the function bears its name, or where there is
\* none the one label does.
Shows(names, labs, s) ==
    IF names[s.address] = NoFunction THEN labs[s.address] = <<s.name>>
    ELSE names[s.address] = s.name

\* If Ghidra refuses nothing and nobody else writes, the plugin leaves at each
\* address the last symbol that has a name: arguments undo the function's.
LastStands ==
    ~script /\ phase = "done" /\ ~refused /\ touched = {} =>
        \A i \in DOMAIN symbols :
            LastAt(symbols[i].address, i, Len(symbols)) => Shows(name, labels, symbols[i])

\* Of the first n symbols, the last one of each address is shown.
Stand(names, labs, n) ==
    \A a \in Addresses : (\E i \in 1..n : symbols[i].address = a /\ Named(i)) =>
        \E i \in 1..n : LastAt(a, i, n) /\ Shows(names, labs, symbols[i])

\* The types of symbol i are those of its function, which is there.
TypedAsAsked(i) ==
    LET s == symbols[i]
    IN  Named(i) /\ s.is_function =>
            /\ name[s.address] # NoFunction
            /\ type[s.address] = Typed(type[s.address], s.return_type, s.param_types)

\* The name of a symbol is a field of it, and not what stands for no function;
\* only a symbol with a name is counted, and the plugin makes no second label.
PluginLabels ==
    /\ \A i \in DOMAIN symbols :
        /\ "name" \in DOMAIN symbols[i]
        /\ (IF Applying THEN symbols[i].name ELSE Plain(symbols[i].name)) # NoFunction
    /\ Applying => \A i \in applied : Named(i)
    /\ ~script => \A a \in Addresses : Len(labels[a]) <= 1

BeforeOK ==
    /\ before = <<before[1], before[2], before[3]>>
    /\ \A k \in 1..3 : before[k] = [a \in Addresses |-> before[k][a]]

\* In a repetition functions, types and the labels beside functions stay as they
\* were; names and other labels change and come back.
Repeating ==
    /\ Stand(before[1], before[3], Len(symbols))
    /\ \A i \in DOMAIN symbols : TypedAsAsked(i)
    /\ type = before[2]
    /\ \A a \in Addresses :
        /\ name[a] = NoFunction <=> before[1][a] = NoFunction
        /\ name[a] # NoFunction => labels[a] = before[3][a]

LastApplied ==
    Applying /\ ~script /\ ~refused /\ touched = {} =>
        /\ Stand(name, labels, at - 1)
        /\ \A i \in 1..at - 1 : TypedAsAsked(i)
        /\ repeated => Repeating

PluginInv == IInv /\ PluginLabels /\ BeforeOK /\ LastApplied
=============================================================================
