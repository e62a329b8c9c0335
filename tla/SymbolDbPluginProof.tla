------------------------ MODULE SymbolDbPluginProof ------------------------
(***************************************************************************)
(* What the plugin makes of a request.  In the script each symbol stays as *)
(* it was asked for; in the plugin an address shows the last symbol that   *)
(* was applied there.  SymbolDbInv!PluginInv says which that is at every   *)
(* point of a request and of its repetition, and that a repetition comes   *)
(* back to where it began.                                                 *)
(***************************************************************************)
EXTENDS SymbolDbProof

----------------------------------------------------------------------------
(* The last symbol of an address *)

\* An address has one last symbol.
LEMMA OneLast ==
    ASSUME NEW a, NEW n \in Nat, NEW i, NEW j, LastAt(a, i, n), LastAt(a, j, n)
    PROVE  i = j
<1>1. i \in 1..n /\ j \in 1..n /\ ~(i < j) /\ ~(j < i)
  BY DEF LastAt
<1> QED
  BY <1>1

\* The next symbol has no name: those before it stand.
LEMMA StandSkip ==
    ASSUME NEW nm, NEW lb, NEW n \in Nat, Stand(nm, lb, n), ~Named(n + 1)
    PROVE  Stand(nm, lb, n + 1)
<1> SUFFICES ASSUME NEW a \in Addresses,
                    NEW k \in 1..n + 1, symbols[k].address = a, Named(k)
             PROVE  \E i \in 1..n + 1 : LastAt(a, i, n + 1) /\ Shows(nm, lb, symbols[i])
  BY DEF Stand
<1>1. k \in 1..n /\ \A m \in 1..n + 1 : m \in 1..n \/ m = n + 1
  <2>1. k # n + 1
    OBVIOUS
  <2> QED
    BY <2>1
<1>2. PICK i \in 1..n : LastAt(a, i, n) /\ Shows(nm, lb, symbols[i])
  BY <1>1 DEF Stand
<1>3. LastAt(a, i, n + 1)
  <2>1. i \in 1..n + 1 /\ symbols[i].address = a /\ Named(i)
    BY <1>2 DEF LastAt
  <2>2. ASSUME NEW m \in 1..n + 1, symbols[m].address = a, Named(m)
        PROVE  ~(i < m)
    <3>1. m \in 1..n
      BY <1>1, <2>2
    <3> QED
      BY <1>2, <2>2, <3>1 DEF LastAt
  <2> QED
    BY <2>1, <2>2 DEF LastAt
<1> QED
  BY <1>2, <1>3

\* The next symbol is applied: it is the last one at its address, and what is
\* elsewhere stands.
LEMMA StandNext ==
    ASSUME NEW nm, NEW lb, NEW nm2, NEW lb2, NEW n \in Nat, Stand(nm, lb, n), Named(n + 1),
           \A a \in Addresses : a # symbols[n + 1].address => nm2[a] = nm[a] /\ lb2[a] = lb[a],
           Shows(nm2, lb2, symbols[n + 1])
    PROVE  Stand(nm2, lb2, n + 1)
<1> SUFFICES ASSUME NEW a \in Addresses,
                    NEW k \in 1..n + 1, symbols[k].address = a, Named(k)
             PROVE  \E i \in 1..n + 1 : LastAt(a, i, n + 1) /\ Shows(nm2, lb2, symbols[i])
  BY DEF Stand
<1>1. n + 1 \in 1..n + 1 /\ \A m \in 1..n + 1 : (m \in 1..n /\ m < n + 1) \/ m = n + 1
  OBVIOUS
<1>2. CASE a = symbols[n + 1].address
  <2>1. \A m \in 1..n + 1 : ~(n + 1 < m)
    BY <1>1
  <2>2. LastAt(a, n + 1, n + 1)
    BY <1>1, <1>2, <2>1 DEF LastAt
  <2> QED
    BY <1>1, <2>2
<1>3. CASE a # symbols[n + 1].address
  <2>1. k \in 1..n
    BY <1>1, <1>3
  <2>2. PICK i \in 1..n : LastAt(a, i, n) /\ Shows(nm, lb, symbols[i])
    BY <2>1 DEF Stand
  <2>3. LastAt(a, i, n + 1)
    BY <1>1, <1>3, <2>2 DEF LastAt
  <2>4. Shows(nm2, lb2, symbols[i])
    BY <1>3, <2>2 DEF LastAt, Shows
  <2> QED
    BY <2>2, <2>3, <2>4
<1> QED
  BY <1>2, <1>3

\* What stands, and what is asked of types, changes with the program alone.
LEMMA SameStand ==
    ASSUME symbols' = symbols, Stand(name', labels', at' - 1)
    PROVE  Stand(name, labels, at - 1)'
<1>1. \A a, i, n : LastAt(a, i, n)' = LastAt(a, i, n)
  BY DEF LastAt, Named
<1>2. \A i : Named(i)' = Named(i)
  BY DEF Named
<1> QED
  BY <1>1, <1>2, Zenon DEF Stand, Shows

LEMMA SameStandBefore ==
    ASSUME symbols' = symbols, Stand(before'[1], before'[3], Len(symbols))
    PROVE  Stand(before[1], before[3], Len(symbols))'
<1>1. \A a, i, n : LastAt(a, i, n)' = LastAt(a, i, n)
  BY DEF LastAt, Named
<1>2. \A i : Named(i)' = Named(i)
  BY DEF Named
<1> QED
  BY <1>1, <1>2, Zenon DEF Stand, Shows

LEMMA KeepTyped ==
    ASSUME NEW i, TypedAsAsked(i), symbols' = symbols, script' = script,
           symbols[i].is_function =>
             /\ type'[symbols[i].address] = type[symbols[i].address]
             /\ name[symbols[i].address] # NoFunction => name'[symbols[i].address] # NoFunction
    PROVE  TypedAsAsked(i)'
<1>1. \A f, r, p : Typed(f, r, p)' = Typed(f, r, p)
  BY SameTyped
<1> QED
  BY <1>1, SameType, SameParameters DEF TypedAsAsked, Named, Typed

\* What the program must be like for symbol i's types to be as asked after a step.
LEMMA ThenTyped ==
    ASSUME NEW i, symbols' = symbols, script' = script,
           name'[symbols[i].address] # NoFunction,
           type'[symbols[i].address]
             = Typed(type'[symbols[i].address], symbols[i].return_type, symbols[i].param_types)
    PROVE  TypedAsAsked(i)'
<1>1. Typed(type[symbols[i].address], symbols[i].return_type, symbols[i].param_types)'
        = Typed(type'[symbols[i].address], symbols[i].return_type, symbols[i].param_types)
  BY SameType, SameParameters DEF Typed
<1> QED
  BY <1>1 DEF TypedAsAsked

----------------------------------------------------------------------------
(* Symbols are gathered *)

\* A name that the bridge makes up has no prefix.
LEMMA MadeUpName ==
    ASSUME NEW x, NEW h \in {"sub_", "arg"}
    PROVE  Plain(<<h, x>>) # NoFunction
<1>1. Head(<<h, x>>) = h /\ h # "*." /\ h # "plt_"
  OBVIOUS
<1>2. Strip(<<h, x>>, "*.") = <<h, x>> /\ Strip(<<h, x>>, "plt_") = <<h, x>>
  BY <1>1 DEF Strip
<1>3. <<h, x>> # NoFunction
  <2>1. Len(<<h, x>>) = 2 /\ Len(<<"no function">>) = 1
    OBVIOUS
  <2> QED
    BY <2>1 DEF NoFunction
<1> QED
  BY <1>2, <1>3 DEF Plain

\* A function's symbol never has the name that stands for no function.
LEMMA SymbolName ==
    ASSUME TypeOK, NEW a \in Addresses
    PROVE  Plain(FunctionSymbol(a).name) # NoFunction
<1>1. viv[a].name \in Names /\ viv[a].api_name \in Names
  <2>1. viv[a] \in Knowledge
    BY ConstantsAssumption DEF TypeOK
  <2> QED
    BY <2>1 DEF Knowledge
<1>2. CASE viv[a].api
  <2>1. FunctionSymbol(a).name = viv[a].api_name
    BY <1>2 DEF FunctionSymbol, Symbol
  <2> QED
    BY <1>1, <2>1, NamesAssumption
<1>3. CASE ~viv[a].api /\ viv[a].name # NoName
  <2>1. FunctionSymbol(a).name = viv[a].name
    BY <1>3 DEF FunctionSymbol, Symbol
  <2> QED
    BY <1>1, <2>1, NamesAssumption
<1>4. CASE ~viv[a].api /\ viv[a].name = NoName
  <2>1. FunctionSymbol(a).name = <<"sub_", a>>
    BY <1>4 DEF FunctionSymbol, Symbol
  <2> QED
    BY <2>1, MadeUpName
<1> QED
  BY <1>2, <1>3, <1>4

\* Before anything is applied the plugin has nothing to show.
LEMMA NotApplyingPlugin ==
    ASSUME ~Applying', BeforeOK, PluginLabels, UNCHANGED <<script, program, before>>,
           \A i \in DOMAIN symbols' :
               "name" \in DOMAIN symbols'[i] /\ Plain(symbols'[i].name) # NoFunction
    PROVE  PluginLabels' /\ BeforeOK' /\ LastApplied'
<1>1. ~(phase' \in {"apply", "done"})
  BY DEF Applying
<1>2. LastApplied'
  BY <1>1 DEF LastApplied, Applying
<1>3. PluginLabels'
  BY <1>1 DEF PluginLabels, Applying, program, Plain, Strip
<1>4. BeforeOK'
  BY DEF BeforeOK
<1> QED
  BY <1>2, <1>3, <1>4

LEMMA PluginGather ==
    ASSUME PluginInv,
           extract_for_function \/ Argument \/ ArgumentsDone \/ CalledFunction
    PROVE  PluginLabels' /\ BeforeOK' /\ LastApplied'
<1>t. TypeOK /\ PluginLabels /\ BeforeOK /\ symbols \in Seq(RangeOf(symbols))
  BY DEF PluginInv, IInv, TypeOK
<1>1. ~Applying /\ ~Applying' /\ UNCHANGED <<script, program, before>>
  BY DEF extract_for_function, Argument, ArgumentsDone, CalledFunction, Gather, Applying, history
<1>2. \A i \in DOMAIN symbols : "name" \in DOMAIN symbols[i] /\ Plain(symbols[i].name) # NoFunction
  BY <1>t, <1>1 DEF PluginLabels
<1>3. ASSUME NEW p, NEW s, Gather(p, s), "name" \in DOMAIN s, Plain(s.name) # NoFunction
      PROVE  \A i \in DOMAIN symbols' :
                 "name" \in DOMAIN symbols'[i] /\ Plain(symbols'[i].name) # NoFunction
  <2>1. symbols' = Append(symbols, s)
    BY <1>3 DEF Gather
  <2>2. /\ DOMAIN symbols' = 1..Len(symbols) + 1 /\ DOMAIN symbols = 1..Len(symbols)
        /\ Len(symbols) \in Nat /\ symbols'[Len(symbols) + 1] = s
        /\ \A i \in 1..Len(symbols) : symbols'[i] = symbols[i]
    BY <1>t, <2>1, AppendRange
  <2>3. \A i \in DOMAIN symbols' : i \in DOMAIN symbols \/ i = Len(symbols) + 1
    BY <2>2
  <2> QED
    BY <1>2, <1>3, <2>2, <2>3
<1>n. \A n, a, f, r, p : "name" \in DOMAIN Symbol(n, a, f, r, p)
  BY DEF Symbol
<1>f. \A a : "name" \in DOMAIN FunctionSymbol(a)
  BY <1>n DEF FunctionSymbol
<1>4. \A i \in DOMAIN symbols' :
        "name" \in DOMAIN symbols'[i] /\ Plain(symbols'[i].name) # NoFunction
  <2>1. CASE extract_for_function
    <3>1. PICK a \in Addresses : symbols' = extract_function_symbol(a)
      BY <2>1 DEF extract_for_function
    <3>2. symbols' = <<>> \/ symbols' = <<FunctionSymbol(a)>>
      BY <3>1 DEF extract_function_symbol
    <3>3. \A i \in DOMAIN symbols' : symbols'[i] = FunctionSymbol(a)
      BY <3>2
    <3> QED
      BY <1>t, <1>f, <3>3, SymbolName
  <2>2. CASE Argument
    <3>1. PICK n \in ArgNames \cup {NoName} :
            Gather("args", Symbol(IF n = NoName THEN <<"arg", Number>> ELSE n, fva, FALSE, NoType, <<>>))
      BY <2>2 DEF Argument
    <3> DEFINE m == IF n = NoName THEN <<"arg", Number>> ELSE n
    <3>2. Plain(m) # NoFunction
      <4>1. CASE n = NoName
        BY <4>1, MadeUpName
      <4>2. CASE n # NoName
        BY <4>2, NamesAssumption
      <4> QED
        BY <4>1, <4>2
    <3> HIDE DEF m
    <3>3. Symbol(m, fva, FALSE, NoType, <<>>).name = m
      BY DEF Symbol
    <3> QED
      BY <1>3, <1>n, <3>1, <3>2, <3>3 DEF m
  <2>3. CASE ArgumentsDone
    <3>1. symbols' = symbols
      BY <2>3 DEF ArgumentsDone
    <3> QED
      BY <1>2, <3>1
  <2>4. CASE CalledFunction
    <3>1. PICK a \in Addresses : Gather("xrefs", FunctionSymbol(a))
      BY <2>4 DEF CalledFunction
    <3> QED
      BY <1>t, <1>3, <1>f, <3>1, SymbolName
  <2> QED
    BY <2>1, <2>2, <2>3, <2>4
<1> QED
  BY <1>t, <1>1, <1>4, NotApplyingPlugin

----------------------------------------------------------------------------
(* The server begins, and ends *)

\* A program is names, types and labels of the same functions.
LEMMA ProgramIs ==
    ASSUME TypeOK
    PROVE  /\ program = <<program[1], program[2], program[3]>>
           /\ \A k \in 1..3 : program[k] = [a \in Addresses |-> program[k][a]]
<1>1. program[1] = name /\ program[2] = type /\ program[3] = labels
  BY DEF program
<1>2. /\ name = [a \in Addresses |-> name[a]] /\ type = [a \in Addresses |-> type[a]]
      /\ labels = [a \in Addresses |-> labels[a]]
  BY DEF TypeOK
<1>3. \A k \in 1..3 : k = 1 \/ k = 2 \/ k = 3
  OBVIOUS
<1>4. \A k \in 1..3 : program[k] = [a \in Addresses |-> program[k][a]]
  BY <1>1, <1>2, <1>3
<1> QED
  BY <1>1, <1>4 DEF program

LEMMA ProgramKept ==
    ASSUME TypeOK, before' = program
    PROVE  BeforeOK'
<1> HIDE DEF program
<1> QED
  BY ProgramIs DEF BeforeOK

LEMMA PluginBegins ==
    ASSUME PluginInv, apply_symbols
    PROVE  PluginLabels' /\ BeforeOK' /\ LastApplied'
<1> USE DEF apply_symbols, Starts
<1>t. TypeOK /\ PluginLabels /\ symbols \in Seq(RangeOf(symbols))
  BY DEF PluginInv, IInv, TypeOK
<1>1. BeforeOK'
  BY <1>t, ProgramKept
<1>2. PluginLabels'
  <2>1. \A i \in DOMAIN symbols :
          "name" \in DOMAIN symbols[i] /\ Plain(symbols[i].name) # NoFunction
    BY <1>t DEF PluginLabels, Applying
  <2>2. DOMAIN symbols' = DOMAIN symbols
        /\ \A i \in DOMAIN symbols : symbols'[i] = to_dict(symbols[i])
    OBVIOUS
  <2>3. ASSUME NEW i \in DOMAIN symbols
        PROVE  symbols'[i].name = Plain(symbols[i].name) /\ "name" \in DOMAIN symbols'[i]
    BY <2>1, <2>2 DEF to_dict
  <2>4. \A i \in DOMAIN symbols' : "name" \in DOMAIN symbols'[i] /\ symbols'[i].name # NoFunction
    BY <2>1, <2>2, <2>3
  <2>5. Applying' /\ applied' = {} /\ script' = script /\ labels' = labels
    BY DEF Applying, program
  <2> QED
    BY <1>t, <2>4, <2>5 DEF PluginLabels
<1>3. LastApplied'
  <2>1. at' = 1 /\ ~repeated'
    OBVIOUS
  <2>2. \A i : i \notin 1..at' - 1
    BY <2>1
  <2>3. Stand(name', labels', at' - 1)
    BY <2>2 DEF Stand
  <2> QED
    BY <2>1, <2>2, <2>3 DEF LastApplied, Stand
<1> QED
  BY <1>1, <1>2, <1>3

\* All that was applied stands when it is applied again.
LEMMA PluginRepeats ==
    ASSUME PluginInv, Repeat
    PROVE  PluginLabels' /\ BeforeOK' /\ LastApplied'
<1> USE DEF Repeat, Starts
<1>t. TypeOK /\ PluginLabels /\ LastApplied /\ symbols \in Seq(RangeOf(symbols))
  BY DEF PluginInv, IInv, TypeOK
<1>1. BeforeOK'
  BY <1>t, ProgramKept
<1>2. PluginLabels'
  BY <1>t DEF PluginLabels, Applying, program
<1>3. LastApplied'
  <2>1. at' = 1 /\ symbols' = symbols /\ script' = script /\ UNCHANGED program /\ touched' = {}
    OBVIOUS
  <2>2. \A i : i \notin 1..at' - 1
    BY <2>1
  <2>3. Stand(name, labels, at - 1)'
    BY <2>2 DEF Stand
  <2>4. ASSUME ~script, repeated'
        PROVE  Repeating'
    <3>1. ~refused /\ touched = {}
      BY <2>4
    <3>2. Stand(name, labels, at - 1) /\ \A i \in 1..at - 1 : TypedAsAsked(i)
      BY <1>t, <2>4, <3>1 DEF LastApplied, Applying
    <3>3. at - 1 = Len(symbols) /\ DOMAIN symbols = 1..Len(symbols)
      BY <1>t DEF PluginInv, IInv, Gathered
    <3>4. before'[1] = name /\ before'[2] = type /\ before'[3] = labels
      BY DEF program
    <3>5. Stand(before[1], before[3], Len(symbols))'
      BY <2>1, <3>2, <3>3, <3>4, SameStandBefore
    <3>6. \A i \in DOMAIN symbols : TypedAsAsked(i)'
      BY <2>1, <3>2, <3>3, KeepTyped DEF program
    <3> QED
      BY <2>1, <3>4, <3>5, <3>6 DEF Repeating, program
  <2> QED
    BY <2>1, <2>2, <2>3, <2>4 DEF LastApplied
<1> QED
  BY <1>1, <1>2, <1>3

\* The program is left alone.
LEMMA PluginEnds ==
    ASSUME PluginInv, SymbolsApplied \/ UNCHANGED vars
    PROVE  PluginLabels' /\ BeforeOK' /\ LastApplied'
<1> USE DEF program, history
<1>1. /\ UNCHANGED <<script, symbols, at, applied, program, before, touched, refused, repeated>>
      /\ Applying' = Applying
  BY DEF SymbolsApplied, vars, request, Applying
<1>2. PluginLabels' /\ BeforeOK'
  BY <1>1 DEF PluginInv, PluginLabels, BeforeOK, Named
<1>3. LastApplied'
  <2> SUFFICES ASSUME Applying, ~script, ~refused, touched = {}
               PROVE  /\ Stand(name, labels, at - 1)'
                      /\ \A i \in 1..at - 1 : TypedAsAsked(i)'
                      /\ repeated => Repeating'
    BY <1>1 DEF LastApplied
  <2>1. Stand(name, labels, at - 1) /\ (\A i \in 1..at - 1 : TypedAsAsked(i)) /\ (repeated => Repeating)
    BY DEF PluginInv, LastApplied
  <2>2. Stand(name, labels, at - 1)'
    BY <1>1, <2>1, SameStand
  <2>3. \A i : TypedAsAsked(i) => TypedAsAsked(i)'
    BY <1>1, KeepTyped
  <2>4. repeated => Repeating'
    <3>1. repeated => Stand(before[1], before[3], Len(symbols))'
      BY <1>1, <2>1, SameStandBefore DEF Repeating
    <3> QED
      BY <1>1, <2>1, <2>3, <3>1 DEF Repeating
  <2> QED
    BY <2>1, <2>2, <2>3, <2>4
<1> QED
  BY <1>2, <1>3

\* A sequence of one element is that element.
LEMMA OnlyOne ==
    ASSUME NEW S, NEW q \in Seq(S), Len(q) <= 1, q # <<>>, NEW e
    PROVE  [q EXCEPT ![1] = e] = <<e>>
<1>1. Len(q) \in Nat \ {0}
  BY EmptySeq
<1>2. DOMAIN q = 1..1
  BY <1>1
<1> DEFINE new == [q EXCEPT ![1] = e]
<1>3. DOMAIN new = 1..1
  BY <1>2
<1>4. \A i \in 1..1 : i = 1
  OBVIOUS
<1>5. \A i \in 1..1 : new[i] = e
  BY <1>2, <1>4
<1>6. new = [i \in 1..1 |-> new[i]]
  BY <1>3
<1>7. [i \in 1..1 |-> e] = <<e>>
  OBVIOUS
<1> QED
  BY <1>5, <1>6, <1>7

\* What stands first at an address is renamed: its function, or else its one label.
LEMMA FirstRenamed ==
    ASSUME PluginInv, ~script, NEW A \in Addresses, NEW n, RenameFirst(A, n)
    PROVE  /\ \A a \in Addresses : a # A => name'[a] = name[a] /\ labels'[a] = labels[a]
           /\ IF name[A] = NoFunction
              THEN name' = name /\ labels'[A] = <<n>>
              ELSE labels' = labels /\ name'[A] = n
<1>t. /\ DOMAIN name = Addresses /\ DOMAIN labels = Addresses
      /\ labels[A] \in Seq(RangeOf(labels[A])) /\ Len(labels[A]) <= 1
  BY DEF PluginInv, IInv, TypeOK, PluginLabels
<1>1. CASE name[A] # NoFunction
  <2>1. name' = [name EXCEPT ![A] = n] /\ labels' = labels
    BY <1>1 DEF RenameFirst
  <2> QED
    BY <1>1, <1>t, <2>1
<1>2. CASE name[A] = NoFunction /\ labels[A] = <<>>
  <2>1. labels' = [labels EXCEPT ![A] = IF n \in RangeOf(@) THEN @ ELSE Append(@, n)]
        /\ name' = name
    BY <1>2 DEF RenameFirst, PutLabel
  <2>2. labels'[A] = IF n \in RangeOf(<<>>) THEN <<>> ELSE Append(<<>>, n)
    BY <1>2, <1>t, <2>1
  <2>3. RangeOf(<<>>) = {}
    BY EmptyRange DEF RangeOf
  <2>4. labels'[A] = <<n>>
    BY <2>2, <2>3
  <2>5. \A a \in Addresses : a # A => labels'[a] = labels[a]
    BY <1>t, <2>1
  <2> QED
    BY <1>2, <2>1, <2>4, <2>5
<1>3. CASE name[A] = NoFunction /\ labels[A] # <<>>
  <2>1. labels' = [labels EXCEPT ![A][1] = n] /\ name' = name
    BY <1>3 DEF RenameFirst
  <2>2. labels'[A] = [labels[A] EXCEPT ![1] = n]
    BY <1>t, <2>1
  <2>3. [labels[A] EXCEPT ![1] = n] = <<n>>
    BY <1>3, <1>t, OnlyOne
  <2>4. labels'[A] = <<n>>
    BY <2>2, <2>3
  <2>5. \A a \in Addresses : a # A => labels'[a] = labels[a]
    BY <1>t, <2>1
  <2> QED
    BY <1>3, <2>1, <2>4, <2>5
<1> QED
  BY <1>1, <1>2, <1>3

\* There is no second label then.
LEMMA OneLabel ==
    ASSUME PluginInv, ~script, NEW A \in Addresses, NEW n, RenameFirst(A, n)
    PROVE  \A a \in Addresses : Len(labels'[a]) <= 1
<1>1. \A a \in Addresses : Len(labels[a]) <= 1
  BY DEF PluginInv, PluginLabels
<1>2. Len(<<n>>) = 1
  OBVIOUS
<1> SUFFICES ASSUME NEW a \in Addresses PROVE Len(labels'[a]) <= 1
  OBVIOUS
<1>3. labels'[a] = labels[a] \/ labels'[a] = <<n>>
  BY FirstRenamed
<1>4. CASE labels'[a] = labels[a]
  BY <1>1, <1>4
<1>5. CASE labels'[a] = <<n>>
  <2>1. Len(labels'[a]) = 1
    BY <1>2, <1>5
  <2> QED
    BY <2>1
<1> QED
  BY <1>3, <1>4, <1>5

\* What others have written to is spoken of no more.
LEMMA PluginOthers ==
    ASSUME PluginInv, rename_symbol \/ rename_data \/ set_signature
    PROVE  PluginLabels' /\ BeforeOK' /\ LastApplied'
<1>1. /\ UNCHANGED <<script, phase, symbols, applied, before>> /\ touched' # {}
  BY DEF rename_symbol, rename_data, set_signature, Touch, request
<1>4. ASSUME ~script
      PROVE  \A a \in Addresses : Len(labels'[a]) <= 1
  <2>1. \A a \in Addresses : Len(labels[a]) <= 1
    BY <1>4 DEF PluginInv, PluginLabels
  <2>2. CASE rename_symbol \/ set_signature
    <3>1. labels' = labels
      BY <2>2 DEF rename_symbol, set_signature
    <3> QED
      BY <2>1, <3>1
  <2>3. CASE rename_data
    <3>1. PICK a \in Addresses, n \in Names \ {NoName} : RenameFirst(a, n)
      BY <2>3 DEF rename_data
    <3> QED
      BY <1>4, <2>1, <3>1, OneLabel
  <2> QED
    BY <2>2, <2>3
<1>2. PluginLabels' /\ BeforeOK'
  BY <1>1, <1>4 DEF PluginInv, PluginLabels, BeforeOK, Named, Applying
<1>3. LastApplied'
  BY <1>1 DEF LastApplied
<1> QED
  BY <1>2, <1>3

----------------------------------------------------------------------------
(* The server applies a symbol *)

LEMMA AtSymbol ==
    ASSUME PluginInv, NEW s, Next_symbol(s)
    PROVE  /\ at \in DOMAIN symbols /\ s = symbols[at]
           /\ s.address \in Addresses /\ s.is_function \in BOOLEAN /\ s.name # NoFunction
           /\ at - 1 \in Nat /\ (at - 1) + 1 = at /\ at' - 1 = at
           /\ \A i \in 1..at : i \in 1..at - 1 \/ i = at
           /\ \A i \in 1..at - 1 : i \in DOMAIN symbols /\ i # at
           /\ Applying /\ Applying'
           /\ UNCHANGED <<script, symbols, before, touched, repeated>>
<1>1. TypeOK /\ PluginLabels
  BY DEF PluginInv, IInv
<1>2. DOMAIN symbols = 1..Len(symbols) /\ Len(symbols) \in Nat /\ at \in 1..Len(symbols) + 1
  BY <1>1 DEF TypeOK
<1>3. at \in DOMAIN symbols /\ s = symbols[at] /\ at' = at + 1
  BY <1>2 DEF Next_symbol
<1>4. /\ Applying /\ Applying'
      /\ UNCHANGED <<script, symbols, before, touched, repeated>>
  BY DEF Next_symbol, Applying
<1>5. s.address \in Addresses /\ s.is_function \in BOOLEAN
  BY <1>1, <1>3 DEF TypeOK
<1>6. s.name # NoFunction
  BY <1>1, <1>3, <1>4 DEF PluginLabels
<1>7. /\ at - 1 \in Nat /\ (at - 1) + 1 = at /\ at' - 1 = at
      /\ \A i \in 1..at : i \in 1..at - 1 \/ i = at
      /\ \A i \in 1..at - 1 : i \in DOMAIN symbols /\ i # at
  BY <1>2, <1>3
<1> QED
  BY <1>3, <1>4, <1>5, <1>6, <1>7

\* A symbol without a name changes nothing, and one that is refused is the end
\* of what can be said.
LEMMA PluginSkips ==
    ASSUME PluginInv, SymbolFails \/ NoNameFails
    PROVE  PluginLabels' /\ BeforeOK' /\ LastApplied'
<1>1. PICK s : /\ Next_symbol(s) /\ UNCHANGED <<applied, name, type, labels>>
               /\ refused' = TRUE \/ (refused' = refused /\ s.name = NoName)
  <2>1. CASE SymbolFails
    BY <2>1 DEF SymbolFails, program
  <2>2. CASE NoNameFails
    BY <2>2 DEF NoNameFails, program
  <2> QED
    BY <2>1, <2>2
<1>2. /\ at \in DOMAIN symbols /\ s = symbols[at]
      /\ at - 1 \in Nat /\ (at - 1) + 1 = at /\ at' - 1 = at
      /\ \A i \in 1..at : i \in 1..at - 1 \/ i = at
      /\ Applying /\ Applying'
      /\ UNCHANGED <<script, symbols, before, touched, repeated>>
  BY <1>1, AtSymbol
<1>3. PluginLabels' /\ BeforeOK'
  BY <1>1, <1>2 DEF PluginInv, PluginLabels, BeforeOK, Named
<1>4. LastApplied'
  <2> SUFFICES ASSUME ~script, ~refused', touched = {}
               PROVE  /\ Stand(name, labels, at - 1)'
                      /\ \A i \in 1..at : TypedAsAsked(i)'
                      /\ repeated => Repeating'
    BY <1>2 DEF LastApplied
  <2>1. refused' = refused /\ ~Named(at)
    BY <1>1, <1>2 DEF Named
  <2>2. Stand(name, labels, at - 1) /\ (\A i \in 1..at - 1 : TypedAsAsked(i)) /\ (repeated => Repeating)
    BY <1>2, <2>1 DEF PluginInv, LastApplied
  <2>3. Stand(name, labels, at)
    <3>1. ~Named((at - 1) + 1)
      BY <1>2, <2>1
    <3>2. Stand(name, labels, (at - 1) + 1)
      BY <1>2, <2>2, <3>1, StandSkip
    <3> QED
      BY <1>2, <3>2
  <2>4. Stand(name, labels, at - 1)'
    BY <1>1, <1>2, <2>3, SameStand
  <2>5. TypedAsAsked(at)
    BY <2>1 DEF TypedAsAsked
  <2>6. \A i : TypedAsAsked(i) => TypedAsAsked(i)'
    BY <1>1, <1>2, KeepTyped
  <2>7. \A i \in 1..at : TypedAsAsked(i)'
    BY <1>2, <2>2, <2>5, <2>6
  <2>8. repeated => Repeating'
    <3>1. repeated => Stand(before[1], before[3], Len(symbols))'
      BY <1>2, <2>2, SameStandBefore DEF Repeating
    <3> QED
      BY <1>1, <1>2, <2>2, <2>6, <3>1 DEF Repeating
  <2> QED
    BY <2>4, <2>7, <2>8
<1> QED
  BY <1>3, <1>4

\* The script alone counts a function that is not there.
LEMMA PluginNone ==
    ASSUME PluginInv, NoFunctionMade
    PROVE  PluginLabels' /\ BeforeOK' /\ LastApplied'
<1>1. PICK s : /\ Next_symbol(s) /\ s.name # NoName /\ script
               /\ applied' = applied \cup {at} /\ UNCHANGED <<name, type, labels>>
  BY DEF NoFunctionMade, program
<1>2. /\ s = symbols[at] /\ Applying /\ Applying'
      /\ UNCHANGED <<script, symbols, before>>
  BY <1>1, AtSymbol
<1>3. Named(at)
  BY <1>1, <1>2 DEF Named
<1> QED
  BY <1>1, <1>2, <1>3 DEF PluginInv, PluginLabels, BeforeOK, Named, LastApplied

\* What stands when a symbol has been applied.
LEMMA PluginStands ==
    ASSUME PluginInv, NEW s, Next_symbol(s), s.name # NoName, Stand(name, labels, at - 1),
           \A a \in Addresses : a # s.address => name'[a] = name[a] /\ labels'[a] = labels[a],
           Shows(name', labels', s)
    PROVE  Stand(name, labels, at - 1)'
<1>1. /\ s = symbols[at] /\ symbols' = symbols
      /\ at - 1 \in Nat /\ (at - 1) + 1 = at /\ at' - 1 = at
  BY AtSymbol
<1>2. Named((at - 1) + 1) /\ s = symbols[(at - 1) + 1]
  BY <1>1 DEF Named
<1>3. Stand(name', labels', (at - 1) + 1)
  BY <1>1, <1>2, StandNext
<1> QED
  BY <1>1, <1>3, SameStand

\* Names and types of a function are those of the symbol applied.
LEMMA PluginFunction ==
    ASSUME PluginInv, ApplyFunctionSymbol
    PROVE  PluginLabels' /\ BeforeOK' /\ LastApplied'
<1>1. PICK s, n, w :
        /\ Next_symbol(s) /\ s.name # NoName /\ s.is_function
        /\ applied' = applied \cup {at} /\ labels' = labels
        /\ name' = [name EXCEPT ![s.address] = n]
        /\ type' = [type EXCEPT ![s.address] = w]
        /\ refused' = (refused \/ n # s.name
                        \/ w # Typed(type[s.address], s.return_type, s.param_types))
  BY DEF ApplyFunctionSymbol
<1> DEFINE T == Typed(type[s.address], s.return_type, s.param_types)
<1>2. /\ at \in DOMAIN symbols /\ s = symbols[at]
      /\ s.address \in Addresses /\ s.name # NoFunction
      /\ at' - 1 = at
      /\ \A i \in 1..at : i \in 1..at - 1 \/ i = at
      /\ \A i \in 1..at - 1 : i \in DOMAIN symbols /\ i # at
      /\ Applying /\ Applying'
      /\ UNCHANGED <<script, symbols, before, touched, repeated>>
  BY <1>1, AtSymbol
<1>t. /\ DOMAIN name = Addresses /\ DOMAIN type = Addresses
      /\ type = [a \in Addresses |-> type[a]] /\ refused \in BOOLEAN
  BY DEF PluginInv, IInv, TypeOK
<1>3. /\ name'[s.address] = n /\ type'[s.address] = w
      /\ \A a \in Addresses : a # s.address => name'[a] = name[a] /\ type'[a] = type[a]
  BY <1>1, <1>2, <1>t
<1>4. PluginLabels' /\ BeforeOK'
  <2>1. Named(at)
    BY <1>1, <1>2 DEF Named
  <2> QED
    BY <1>1, <1>2, <2>1 DEF PluginInv, PluginLabels, BeforeOK, Named
<1> HIDE DEF T
<1>5. LastApplied'
  <2> SUFFICES ASSUME ~script, ~refused', touched = {}
               PROVE  /\ Stand(name, labels, at - 1)'
                      /\ \A i \in 1..at : TypedAsAsked(i)'
                      /\ repeated => Repeating'
    BY <1>2 DEF LastApplied
  <2>1. ~refused /\ n = s.name /\ w = T
    BY <1>1, <1>t DEF T
  <2>2. Stand(name, labels, at - 1) /\ (\A i \in 1..at - 1 : TypedAsAsked(i)) /\ (repeated => Repeating)
    BY <1>2, <2>1 DEF PluginInv, LastApplied
  <2>3. Shows(name', labels', s)
    BY <1>2, <1>3, <2>1 DEF Shows
  <2>4. Stand(name, labels, at - 1)'
    BY <1>1, <1>3, <2>2, <2>3, PluginStands
  <2>5. ASSUME NEW i, i = at
        PROVE  TypedAsAsked(i)'
    <3>1. Typed(T, s.return_type, s.param_types) = T
      BY TypedAgain DEF T
    <3>2. type'[s.address] = Typed(type'[s.address], s.return_type, s.param_types)
      BY <1>3, <2>1, <3>1
    <3>3. name'[s.address] # NoFunction
      BY <1>2, <1>3, <2>1
    <3> QED
      BY <1>2, <2>5, <3>2, <3>3, ThenTyped
  <2>6. ASSUME NEW i \in DOMAIN symbols, i # at, TypedAsAsked(i)
        PROVE  TypedAsAsked(i)'
    <3>1. symbols[i].is_function => symbols[i].address # s.address
      BY <1>1, <1>2, <2>6 DEF PluginInv, IInv, OneSymbolPerFunction
    <3>2. symbols[i].address \in Addresses
      BY <2>6 DEF PluginInv, IInv, TypeOK
    <3> QED
      BY <1>2, <1>3, <2>6, <3>1, <3>2, KeepTyped
  <2>7. \A i \in 1..at : TypedAsAsked(i)'
    BY <1>2, <2>2, <2>5, <2>6
  <2>8. ASSUME repeated
        PROVE  Repeating'
    <3>1. Repeating
      BY <2>2, <2>8
    <3>2. Stand(before[1], before[3], Len(symbols))'
      BY <1>2, <3>1, SameStandBefore DEF Repeating
    <3>3. \A i \in DOMAIN symbols : TypedAsAsked(i)'
      BY <2>5, <2>6, <3>1 DEF Repeating
    <3>4. name[s.address] # NoFunction /\ type[s.address] = T
      BY <1>1, <1>2, <3>1 DEF Repeating, TypedAsAsked, Named, T
    <3>5. type' = type
      BY <1>1, <1>t, <2>1, <3>4
    <3>6. name'[s.address] # NoFunction
      BY <1>2, <1>3, <2>1
    <3>7. \A a \in Addresses : /\ name'[a] = NoFunction <=> before[1][a] = NoFunction
                               /\ name'[a] # NoFunction => labels[a] = before[3][a]
      BY <1>3, <3>1, <3>4, <3>6 DEF Repeating
    <3> QED
      BY <1>1, <1>2, <3>1, <3>2, <3>3, <3>5, <3>7 DEF Repeating
  <2> QED
    BY <2>4, <2>7, <2>8
<1> QED
  BY <1>4, <1>5

\* The symbol applied is what its address shows, and no type changes.
LEMMA PluginData ==
    ASSUME PluginInv, ApplyDataSymbol
    PROVE  PluginLabels' /\ BeforeOK' /\ LastApplied'
<1>1. PICK s :
        /\ Next_symbol(s) /\ s.name # NoName /\ ~s.is_function
        /\ applied' = applied \cup {at} /\ type' = type /\ refused' = refused
        /\ ~script => RenameFirst(s.address, s.name)
  BY DEF ApplyDataSymbol
<1> DEFINE A == s.address
<1>2. /\ at \in DOMAIN symbols /\ s = symbols[at]
      /\ A \in Addresses /\ s.name # NoFunction
      /\ at' - 1 = at
      /\ \A i \in 1..at : i \in 1..at - 1 \/ i = at
      /\ \A i \in 1..at - 1 : i \in DOMAIN symbols /\ i # at
      /\ Applying /\ Applying'
      /\ UNCHANGED <<script, symbols, before, touched, repeated>>
  BY <1>1, AtSymbol
<1>3. ASSUME ~script
      PROVE  /\ \A a \in Addresses : a # A => name'[a] = name[a] /\ labels'[a] = labels[a]
             /\ IF name[A] = NoFunction
                THEN name' = name /\ labels'[A] = <<s.name>>
                ELSE labels' = labels /\ name'[A] = s.name
  BY <1>1, <1>2, <1>3, FirstRenamed
<1> HIDE DEF A
<1>4. PluginLabels' /\ BeforeOK'
  <2>1. Named(at)
    BY <1>1, <1>2 DEF Named
  <2>2. ASSUME ~script
        PROVE  \A a \in Addresses : Len(labels'[a]) <= 1
    BY <1>1, <1>2, <2>2, OneLabel DEF A
  <2>3. \A i \in applied' : Named(i)'
    BY <1>1, <1>2, <2>1 DEF PluginInv, PluginLabels, Named
  <2> QED
    BY <1>2, <2>2, <2>3 DEF PluginInv, PluginLabels, BeforeOK
<1>5. LastApplied'
  <2> SUFFICES ASSUME ~script, ~refused, touched = {}
               PROVE  /\ Stand(name, labels, at - 1)'
                      /\ \A i \in 1..at : TypedAsAsked(i)'
                      /\ repeated => Repeating'
    BY <1>1, <1>2 DEF LastApplied
  <2>1. Stand(name, labels, at - 1) /\ (\A i \in 1..at - 1 : TypedAsAsked(i)) /\ (repeated => Repeating)
    BY <1>2 DEF PluginInv, LastApplied
  <2>2. Shows(name', labels', s)
    BY <1>2, <1>3 DEF Shows, A
  <2>3. Stand(name, labels, at - 1)'
    BY <1>1, <1>3, <2>1, <2>2, PluginStands DEF A
  <2>4. \A a \in Addresses : name'[a] = NoFunction <=> name[a] = NoFunction
    BY <1>2, <1>3
  <2>5. ASSUME NEW i \in DOMAIN symbols, TypedAsAsked(i)
        PROVE  TypedAsAsked(i)'
    <3>1. symbols[i].address \in Addresses
      BY DEF PluginInv, IInv, TypeOK
    <3> QED
      BY <1>1, <1>2, <2>4, <2>5, <3>1, KeepTyped
  <2>6. \A i \in 1..at : TypedAsAsked(i)'
    <3>1. TypedAsAsked(at)
      BY <1>1, <1>2 DEF TypedAsAsked
    <3> QED
      BY <1>2, <2>1, <2>5, <3>1
  <2>7. ASSUME repeated
        PROVE  Repeating'
    <3>1. Repeating
      BY <2>1, <2>7
    <3>2. Stand(before[1], before[3], Len(symbols))'
      BY <1>2, <3>1, SameStandBefore DEF Repeating
    <3>3. \A i \in DOMAIN symbols : TypedAsAsked(i)'
      BY <2>5, <3>1 DEF Repeating
    <3>4. \A a \in Addresses : name[a] # NoFunction => labels'[a] = labels[a]
      BY <1>3
    <3>5. \A a \in Addresses : /\ name'[a] = NoFunction <=> before[1][a] = NoFunction
                               /\ name'[a] # NoFunction => labels'[a] = before[3][a]
      BY <2>4, <3>1, <3>4 DEF Repeating
    <3> QED
      BY <1>1, <1>2, <3>1, <3>2, <3>3, <3>5 DEF Repeating
  <2> QED
    BY <2>3, <2>6, <2>7
<1> QED
  BY <1>4, <1>5

----------------------------------------------------------------------------
(* Theorems *)

LEMMA PluginNext ==
    ASSUME PluginInv, [Next]_vars
    PROVE  PluginInv'
<1>1. IInv'
  BY NextInv DEF PluginInv
<1>2. PluginLabels' /\ BeforeOK' /\ LastApplied'
  <2>1. CASE extract_for_function \/ Argument \/ ArgumentsDone \/ CalledFunction
    BY <2>1, PluginGather
  <2>2. CASE apply_symbols
    BY <2>2, PluginBegins
  <2>3. CASE ApplyFunctionSymbol
    BY <2>3, PluginFunction
  <2>4. CASE ApplyDataSymbol
    BY <2>4, PluginData
  <2>5. CASE SymbolFails \/ NoNameFails
    BY <2>5, PluginSkips
  <2>6. CASE SymbolsApplied \/ UNCHANGED vars
    BY <2>6, PluginEnds
  <2>7. CASE Repeat
    BY <2>7, PluginRepeats
  <2>8. CASE rename_symbol \/ rename_data \/ set_signature
    BY <2>8, PluginOthers
  <2>9. CASE NoFunctionMade
    BY <2>9, PluginNone
  <2> QED
    BY <2>1, <2>2, <2>3, <2>4, <2>5, <2>6, <2>7, <2>8, <2>9 DEF Next
<1> QED
  BY <1>1, <1>2 DEF PluginInv

LEMMA PluginInitially == Init => PluginInv
<1> SUFFICES ASSUME Init PROVE PluginInv
  OBVIOUS
<1>1. IInv
  BY Initially
<1>2. symbols = <<>> /\ DOMAIN symbols = {} /\ applied = {} /\ ~Applying
  BY EmptyRange DEF Init, Applying
<1>3. PluginLabels
  <2>1. \A a \in Addresses : Len(labels[a]) <= 1
    BY AtMostOne DEF Init
  <2> QED
    BY <1>2, <2>1 DEF PluginLabels
<1>4. TypeOK /\ before = program
  BY <1>1 DEF IInv, Init
<1>5. BeforeOK
  BY <1>4, ProgramIs DEF BeforeOK
<1>6. LastApplied
  BY <1>2 DEF LastApplied
<1> QED
  BY <1>1, <1>3, <1>5, <1>6 DEF PluginInv

\* The plugin's part of the invariant holds in every reachable state.
THEOREM PluginInductive == Spec => []PluginInv
<1>1. Init => PluginInv
  BY PluginInitially
<1>2. PluginInv /\ [Next]_vars => PluginInv'
  BY PluginNext
<1> QED
  BY <1>1, <1>2, PTL DEF Spec

\* SymbolApplier leaves at each address the last symbol with a name, however many
\* there are.
THEOREM LastIsShown == Spec => []LastStands
<1>1. PluginInv => LastStands
  <2> SUFFICES ASSUME PluginInv, ~script, phase = "done", ~refused, touched = {},
                      NEW i \in DOMAIN symbols,
                      LastAt(symbols[i].address, i, Len(symbols))
               PROVE  Shows(name, labels, symbols[i])
    BY DEF LastStands
  <2> DEFINE a == symbols[i].address
  <2>1. at - 1 = Len(symbols) /\ Len(symbols) \in Nat /\ a \in Addresses
    BY DEF PluginInv, IInv, Gathered, TypeOK
  <2>2. Stand(name, labels, Len(symbols))
    BY <2>1 DEF PluginInv, LastApplied, Applying
  <2>3. PICK j \in 1..Len(symbols) :
          LastAt(a, j, Len(symbols)) /\ Shows(name, labels, symbols[j])
    BY <2>1, <2>2 DEF Stand, LastAt
  <2> HIDE DEF a
  <2>4. i = j
    BY <2>1, <2>3, OneLast DEF a
  <2> QED
    BY <2>3, <2>4
<1> QED
  BY <1>1, PluginInductive, PTL

\* To repeat apply_symbols changes nothing: in the plugin too, where names go
\* back and forth while it is repeated.
THEOREM RepeatIsHarmless == Spec => []RepeatChangesNothing
<1>1. PluginInv => RepeatChangesNothing
  <2> SUFFICES ASSUME PluginInv, phase = "done", repeated, ~refused, touched = {}, ~script
               PROVE  program = before
    BY ScriptRepeat DEF PluginInv, RepeatChangesNothing
  <2>1. at - 1 = Len(symbols) /\ Len(symbols) \in Nat /\ DOMAIN symbols = 1..Len(symbols)
    BY DEF PluginInv, IInv, Gathered, TypeOK
  <2>2. Stand(name, labels, Len(symbols)) /\ Repeating
    BY <2>1 DEF PluginInv, LastApplied, Applying
  <2>3. ASSUME NEW a \in Addresses
        PROVE  name[a] = before[1][a] /\ labels[a] = before[3][a]
    <3>1. CASE \E i \in 1..Len(symbols) : symbols[i].address = a /\ Named(i)
      <4>1. PICK i \in 1..Len(symbols) :
              LastAt(a, i, Len(symbols)) /\ Shows(name, labels, symbols[i])
        BY <2>2, <3>1 DEF Stand
      <4>2. PICK j \in 1..Len(symbols) :
              LastAt(a, j, Len(symbols)) /\ Shows(before[1], before[3], symbols[j])
        BY <2>2, <3>1 DEF Stand, Repeating
      <4>3. i = j /\ symbols[i].address = a
        BY <2>1, <4>1, <4>2, OneLast DEF LastAt
      <4>4. name[a] = NoFunction <=> before[1][a] = NoFunction
        BY <2>2 DEF Repeating
      <4>5. name[a] # NoFunction => labels[a] = before[3][a]
        BY <2>2 DEF Repeating
      <4> QED
        BY <4>1, <4>2, <4>3, <4>4, <4>5 DEF Shows
    <3>2. CASE ~\E i \in 1..Len(symbols) : symbols[i].address = a /\ Named(i)
      <4>1. \A i \in applied : i \in 1..Len(symbols) /\ Named(i)
        BY <2>1 DEF PluginInv, IInv, TypeOK, PluginLabels, Applying
      <4>2. \A i \in applied : symbols[i].address # a
        BY <3>2, <4>1
      <4>3. <<name[a], type[a], labels[a]>> = <<before[1][a], before[2][a], before[3][a]>>
        BY <4>2 DEF PluginInv, IInv, NothingElseChanged, Applying
      <4> QED
        BY <4>3
    <3> QED
      BY <3>1, <3>2
  <2>4. name = [a \in Addresses |-> name[a]] /\ labels = [a \in Addresses |-> labels[a]]
    BY DEF PluginInv, IInv, TypeOK
  <2>5. /\ before = <<before[1], before[2], before[3]>>
        /\ before[1] = [a \in Addresses |-> before[1][a]]
        /\ before[3] = [a \in Addresses |-> before[3][a]]
    BY DEF PluginInv, BeforeOK
  <2>6. name = before[1] /\ labels = before[3] /\ type = before[2]
    <3>1. [a \in Addresses |-> name[a]] = [a \in Addresses |-> before[1][a]]
          /\ [a \in Addresses |-> labels[a]] = [a \in Addresses |-> before[3][a]]
      BY <2>3
    <3> QED
      BY <2>2, <2>4, <2>5, <3>1 DEF Repeating
  <2> QED
    BY <2>5, <2>6 DEF program
<1> QED
  BY <1>1, PluginInductive, PTL
=============================================================================
