--------------------------- MODULE SymbolDbProof ---------------------------
(***************************************************************************)
(* SymbolDbInv!IInv is an invariant of SymbolDb for every set of functions,*)
(* names and types, and the properties it is enough for follow.  What      *)
(* SymbolDbPluginProof adds is about SymbolApplier alone.                  *)
(***************************************************************************)
EXTENDS SymbolDbInv, SequenceTheorems, TLAPS

----------------------------------------------------------------------------
(* Sequences and types *)

LEMMA OwnRange ==
    ASSUME NEW S, NEW q \in Seq(S)
    PROVE  q \in Seq(RangeOf(q)) /\ RangeOf(q) \subseteq S
<1>1. DOMAIN q = 1..Len(q) /\ Len(q) \in Nat /\ \A i \in 1..Len(q) : q[i] \in RangeOf(q)
  BY DEF RangeOf
<1>2. q = [i \in 1..Len(q) |-> q[i]]
  OBVIOUS
<1> DEFINE f == [i \in 1..Len(q) |-> q[i]]
<1>3. f \in Seq(RangeOf(q))
  BY <1>1
<1>4. q \in Seq(RangeOf(q))
  BY <1>2, <1>3
<1>5. \A i \in DOMAIN q : q[i] \in S
  BY <1>1
<1> QED
  BY <1>4, <1>5 DEF RangeOf

LEMMA AppendRange ==
    ASSUME NEW q, NEW e, q \in Seq(RangeOf(q))
    PROVE  /\ Append(q, e) \in Seq(RangeOf(Append(q, e)))
           /\ RangeOf(Append(q, e)) = RangeOf(q) \cup {e}
           /\ Len(Append(q, e)) = Len(q) + 1
           /\ DOMAIN Append(q, e) = 1..Len(q) + 1 /\ DOMAIN q = 1..Len(q) /\ Len(q) \in Nat
           /\ \A i \in 1..Len(q) : Append(q, e)[i] = q[i]
           /\ Append(q, e)[Len(q) + 1] = e
<1> DEFINE S == RangeOf(q) \cup {e}
<1>1. q \in Seq(S) /\ e \in S
  <2>1. \A i \in 1..Len(q) : q[i] \in S
    OBVIOUS
  <2>2. q = [i \in 1..Len(q) |-> q[i]] /\ Len(q) \in Nat
    OBVIOUS
  <2>3. [i \in 1..Len(q) |-> q[i]] \in Seq(S)
    BY <2>1, <2>2
  <2> QED
    BY <2>2, <2>3
<1> DEFINE p == Append(q, e)
<1>2. /\ p \in Seq(S) /\ Len(p) = Len(q) + 1
      /\ \A i \in 1..Len(q) : p[i] = q[i]
      /\ p[Len(q) + 1] = e
  BY <1>1, AppendProperties
<1>3. p \in Seq(RangeOf(p)) /\ RangeOf(p) \subseteq S
  BY <1>2, OwnRange
<1>4. Len(q) \in Nat /\ DOMAIN q = 1..Len(q) /\ DOMAIN p = 1..Len(q) + 1
  <2>1. Len(q) \in Nat /\ DOMAIN q = 1..Len(q)
    OBVIOUS
  <2>2. DOMAIN p = 1..Len(p)
    BY <1>2
  <2> QED
    BY <2>1, <2>2, <1>2
<1> HIDE DEF p
<1>5. S \subseteq RangeOf(p)
  <2>1. \A i \in DOMAIN q : q[i] \in RangeOf(p)
    BY <1>2, <1>4 DEF RangeOf
  <2>2. e \in RangeOf(p)
    BY <1>2, <1>4 DEF RangeOf
  <2> QED
    BY <2>1, <2>2 DEF RangeOf
<1> QED
  BY <1>2, <1>3, <1>4, <1>5 DEF p

LEMMA EmptyRange ==
    <<>> \in Seq(RangeOf(<<>>)) /\ Len(<<>>) = 0 /\ DOMAIN <<>> = {}
  OBVIOUS

\* What an address has before is at most one label.
LEMMA AtMostOne ==
    ASSUME NEW l \in Labels
    PROVE  l \in Seq(RangeOf(l)) /\ Len(l) <= 1
<1>1. l = <<>> \/ l = <<l[1]>>
  BY ConstantsAssumption
<1>2. CASE l = <<>>
  BY <1>2, EmptyRange
<1>3. CASE l = <<l[1]>>
  <2> DEFINE e == l[1]
  <2>1. <<e>> \in Seq({e}) /\ Len(<<e>>) = 1
    OBVIOUS
  <2>2. <<e>> \in Seq(RangeOf(<<e>>))
    BY <2>1, OwnRange
  <2>3. l = <<e>>
    BY <1>3
  <2> HIDE DEF e
  <2> QED
    BY <2>1, <2>2, <2>3
<1> QED
  BY <1>1, <1>2, <1>3

LEMMA NoParameters == <<>> \in Lists
<1>1. <<>> \in Seq(Types) /\ Len(<<>>) = 0
  BY EmptyRange
<1>2. <<>> \in [1..0 -> Types]
  BY <1>1
<1>3. MaxParams \in Nat
  BY Zenon, ConstantsAssumption
<1>4. 0 \in 0..MaxParams
  BY <1>3
<1> QED
  BY <1>2, <1>4 DEF Lists

\* A function has as many parameter types as it may.
LEMMA SymbolTypes ==
    ASSUME TypeOK, NEW a \in Addresses
    PROVE  /\ FunctionSymbol(a).address = a /\ FunctionSymbol(a).is_function = TRUE
           /\ FunctionSymbol(a).return_type \in Types \cup {NoType}
           /\ FunctionSymbol(a).param_types \in Lists
<1>1. viv[a] \in Knowledge
  BY ConstantsAssumption DEF TypeOK
<1>2. viv[a].ret \in Types /\ viv[a].params \in Lists
  BY <1>1 DEF Knowledge
<1>3. CASE viv[a].api
  <2>1. FunctionSymbol(a) = Symbol(viv[a].api_name, a, TRUE, viv[a].ret, viv[a].params)
    BY <1>3 DEF FunctionSymbol
  <2> QED
    BY <2>1, <1>2 DEF Symbol
<1>4. CASE ~viv[a].api
  <2>1. PICK n : FunctionSymbol(a) = Symbol(n, a, TRUE, NoType, <<>>)
    BY <1>4 DEF FunctionSymbol
  <2> QED
    BY <2>1, NoParameters DEF Symbol
<1> QED
  BY <1>3, <1>4

----------------------------------------------------------------------------
(* Symbols are gathered *)

LEMMA Initially == Init => IInv
<1> SUFFICES ASSUME Init PROVE IInv
  OBVIOUS
<1> USE DEF Init
<1>1. symbols \in Seq(RangeOf(symbols)) /\ Len(symbols) = 0 /\ DOMAIN symbols = {}
  BY EmptyRange
<1>2. name = [a \in Addresses |-> name[a]]
  OBVIOUS
<1>3. type = [a \in Addresses |-> type[a]] /\ labels = [a \in Addresses |-> labels[a]]
  OBVIOUS
<1>4. \A a \in Addresses : labels[a] \in Seq(RangeOf(labels[a]))
  BY AtMostOne
<1>5. at \in 1..Len(symbols) + 1 /\ applied \subseteq 1..at - 1
  BY <1>1
<1>6. TypeOK
  BY <1>1, <1>2, <1>3, <1>4, <1>5 DEF TypeOK
<1>7. Gathered
  BY DEF Gathered
<1> QED
  BY <1>1, <1>6, <1>7 DEF IInv, OneSymbolPerFunction, CountedIsThere, NothingElseChanged, AppliedAsAsked, Applying

\* Nothing has been applied of what is being gathered.
LEMMA NotApplying ==
    ASSUME ~Applying'
    PROVE  CountedIsThere' /\ NothingElseChanged' /\ AppliedAsAsked'
  BY DEF CountedIsThere, NothingElseChanged, AppliedAsAsked

LEMMA ExtractInv ==
    ASSUME IInv, extract_for_function
    PROVE  IInv'
<1> PICK a \in Addresses :
        /\ phase = "idle" /\ phase' = "args"
        /\ fva' = a /\ symbols' = extract_function_symbol(a)
        /\ at' = 1 /\ applied' = {}
        /\ UNCHANGED <<viv, script, program, history>>
  BY DEF extract_for_function
<1> USE DEF program, history
<1>t. TypeOK
  BY DEF IInv
<1> DEFINE f == FunctionSymbol(a)
<1>1. /\ f.address = a /\ f.is_function = TRUE
      /\ f.return_type \in Types \cup {NoType} /\ f.param_types \in Lists
  BY <1>t, SymbolTypes
<1>2. FunctionSymbol(a)' = f
  BY DEF FunctionSymbol, Symbol
<1> HIDE DEF f
<1>3. symbols' = <<>> \/ symbols' = <<f>>
  BY DEF extract_function_symbol, f
<1>4. symbols' \in Seq(RangeOf(symbols')) /\ DOMAIN symbols' \subseteq {1} /\ Len(symbols') \in Nat
      /\ \A i \in DOMAIN symbols' : symbols'[i] = f
  <2>1. CASE symbols' = <<>>
    BY <2>1, EmptyRange
  <2>2. CASE symbols' = <<f>>
    <3>1. <<f>> \in Seq({f}) /\ Len(<<f>>) = 1 /\ DOMAIN <<f>> = {1} /\ <<f>>[1] = f
      OBVIOUS
    <3> QED
      BY <2>2, <3>1, OwnRange
  <2> QED
    BY <1>3, <2>1, <2>2
<1>9. at' \in 1..Len(symbols') + 1 /\ applied' \subseteq 1..at' - 1
  BY <1>4
<1>5. TypeOK'
  BY <1>t, <1>1, <1>4, <1>9 DEF TypeOK
<1>6. Gathered'
  BY <1>1, <1>2, <1>4 DEF Gathered, f
<1>7. OneSymbolPerFunction'
  BY <1>4 DEF OneSymbolPerFunction
<1>8. ~Applying'
  BY DEF Applying
<1> QED
  BY <1>5, <1>6, <1>7, <1>8, NotApplying DEF IInv

\* A symbol is added that is well formed, and one for a function is new.
LEMMA GatherInv ==
    ASSUME IInv, NEW s, NEW p \in {"args", "xrefs"}, Gather(p, s),
           s.address \in Addresses, s.is_function \in BOOLEAN,
           s.return_type \in Types \cup {NoType}, s.param_types \in Lists,
           s.is_function => s = FunctionSymbol(s.address) /\ s \notin RangeOf(symbols)
    PROVE  IInv'
<1> USE DEF program, history
<1>t. TypeOK /\ symbols \in Seq(RangeOf(symbols))
  BY DEF IInv, TypeOK
<1>2. /\ symbols' \in Seq(RangeOf(symbols'))
      /\ Len(symbols') = Len(symbols) + 1 /\ Len(symbols) \in Nat
      /\ DOMAIN symbols' = 1..Len(symbols) + 1 /\ DOMAIN symbols = 1..Len(symbols)
      /\ \A i \in 1..Len(symbols) : symbols'[i] = symbols[i]
      /\ symbols'[Len(symbols) + 1] = s
  BY <1>t, AppendRange DEF Gather
<1>3. phase = p /\ phase' = p /\ viv' = viv
  BY DEF Gather
<1>4. TypeOK'
  <2>1. \A i \in DOMAIN symbols' : symbols'[i] = s \/ (i \in DOMAIN symbols /\ symbols'[i] = symbols[i])
    BY <1>2
  <2>2. at' \in 1..Len(symbols') + 1
    BY <1>t, <1>2 DEF TypeOK, Gather
  <2>3. \A i \in DOMAIN symbols' :
          /\ symbols'[i].address \in Addresses /\ symbols'[i].is_function \in BOOLEAN
          /\ symbols'[i].return_type \in Types \cup {NoType} /\ symbols'[i].param_types \in Lists
    BY <2>1, <1>t DEF TypeOK
  <2> QED
    BY <1>t, <1>2, <2>2, <2>3 DEF TypeOK, Gather
<1>5. \A a : FunctionSymbol(a)' = FunctionSymbol(a)
  BY <1>3 DEF FunctionSymbol, Symbol
<1>6. \A i \in DOMAIN symbols : symbols[i].is_function => symbols[i] = FunctionSymbol(symbols[i].address)
  BY <1>3 DEF IInv, Gathered
<1>7. \A i \in DOMAIN symbols' : symbols'[i].is_function => symbols'[i] = FunctionSymbol(symbols'[i].address)
  BY <1>2, <1>6
<1>8. Gathered'
  BY <1>3, <1>5, <1>7 DEF Gathered
<1>9. OneSymbolPerFunction'
  <2> SUFFICES ASSUME NEW i \in DOMAIN symbols', NEW j \in DOMAIN symbols',
                      symbols'[i].is_function, symbols'[j].is_function,
                      symbols'[i].address = symbols'[j].address, i < j
               PROVE  FALSE
    BY <1>2 DEF OneSymbolPerFunction
  <2>1. symbols'[i] = symbols'[j]
    BY <1>7
  <2>2. i \in DOMAIN symbols /\ symbols'[i] = symbols[i]
    BY <1>2
  <2>3. CASE j \in DOMAIN symbols
    BY <2>2, <2>3, <1>2 DEF IInv, OneSymbolPerFunction
  <2>4. CASE j = Len(symbols) + 1
    BY <2>1, <2>2, <2>4, <1>2 DEF RangeOf
  <2> QED
    BY <2>3, <2>4, <1>2
<1>10. ~Applying'
  BY <1>3 DEF Applying
<1> QED
  BY <1>4, <1>8, <1>9, <1>10, NotApplying DEF IInv

LEMMA ArgumentInv ==
    ASSUME IInv, Argument
    PROVE  IInv'
<1>1. PICK n : Gather("args", Symbol(n, fva, FALSE, NoType, <<>>))
  BY DEF Argument
<1> DEFINE s == Symbol(n, fva, FALSE, NoType, <<>>)
<1>2. s.address = fva /\ s.is_function = FALSE /\ s.return_type = NoType /\ s.param_types = <<>>
  BY DEF Symbol
<1>3. fva \in Addresses
  BY DEF IInv, TypeOK
<1> HIDE DEF s
<1> QED
  BY <1>1, <1>2, <1>3, GatherInv, NoParameters DEF s

LEMMA CalledFunctionInv ==
    ASSUME IInv, CalledFunction
    PROVE  IInv'
<1>1. PICK a \in Addresses : FunctionSymbol(a) \notin RangeOf(symbols) /\ Gather("xrefs", FunctionSymbol(a))
  BY DEF CalledFunction
<1>2. TypeOK
  BY DEF IInv
<1> QED
  BY <1>1, <1>2, SymbolTypes, GatherInv

LEMMA ArgumentsDoneInv ==
    ASSUME IInv, ArgumentsDone
    PROVE  IInv'
<1> USE DEF program, history, ArgumentsDone, IInv
<1>1. TypeOK'
  BY DEF TypeOK
<1>2. \A a : FunctionSymbol(a)' = FunctionSymbol(a)
  BY DEF FunctionSymbol, Symbol
<1>3. Gathered' /\ OneSymbolPerFunction'
  BY <1>2 DEF Gathered, OneSymbolPerFunction
<1>4. ~Applying'
  BY DEF Applying
<1> QED
  BY <1>1, <1>3, <1>4, NotApplying
----------------------------------------------------------------------------
(* What a type is written as depends on the server alone *)

LEMMA SameType ==
    ASSUME script' = script, NEW t
    PROVE  parseDataType(t)' = parseDataType(t)
  BY DEF parseDataType, BaseType

LEMMA SameParameters ==
    ASSUME script' = script, NEW p
    PROVE  Parameters(p)' = Parameters(p)
<1>1. [i \in DOMAIN p |-> parseDataType(p[i])]' = [i \in DOMAIN p |-> parseDataType(p[i])]
  BY SameType
<1> QED
  BY <1>1, Zenon DEF Parameters

LEMMA SameTyped ==
    ASSUME script' = script, NEW f, NEW r, NEW p
    PROVE  Typed(f, r, p)' = Typed(f, r, p)
  BY SameType, SameParameters DEF Typed

\* To write the same types again changes nothing.
LEMMA TypedAgain ==
    ASSUME NEW f, NEW r, NEW p
    PROVE  Typed(Typed(f, r, p), r, p) = Typed(f, r, p)
  BY DEF Typed

LEMMA KeepAsAsked ==
    ASSUME NEW i, AsAsked(i), script' = script, symbols' = symbols,
           name' = name, type' = type, labels' = labels
    PROVE  AsAsked(i)'
  BY SameType, SameParameters DEF AsAsked, Typed

\* What the program must be like for symbol i to be as asked after a step.
LEMMA ThenAsAsked ==
    ASSUME NEW i, script' = script, symbols' = symbols,
           symbols[i].name # NoName /\ symbols[i].is_function =>
             /\ name'[symbols[i].address] = symbols[i].name
             /\ type'[symbols[i].address]
                  = Typed(type'[symbols[i].address], symbols[i].return_type, symbols[i].param_types),
           symbols[i].name # NoName /\ ~symbols[i].is_function =>
             symbols[i].name \in RangeOf(labels'[symbols[i].address])
    PROVE  AsAsked(i)'
  BY SameType, SameParameters DEF AsAsked, Typed

----------------------------------------------------------------------------
(* The server begins, and ends *)

LEMMA apply_symbolsInv ==
    ASSUME IInv, apply_symbols
    PROVE  IInv'
<1> USE DEF program, apply_symbols, Starts
<1>t. TypeOK /\ symbols \in Seq(RangeOf(symbols)) /\ OneSymbolPerFunction
  BY DEF IInv, TypeOK
<1>1. \A i : /\ to_dict(symbols[i]).address = symbols[i].address
             /\ to_dict(symbols[i]).is_function = symbols[i].is_function
             /\ to_dict(symbols[i]).return_type = symbols[i].return_type
             /\ to_dict(symbols[i]).param_types = symbols[i].param_types
  BY DEF to_dict
<1>2. DOMAIN symbols = 1..Len(symbols) /\ Len(symbols) \in Nat
  BY <1>t
<1> DEFINE q == [i \in 1..Len(symbols) |-> to_dict(symbols[i])]
           S == {to_dict(symbols[i]) : i \in DOMAIN symbols}
<1>3. symbols' = q
  BY <1>2
<1>4. q \in Seq(S) /\ Len(q) = Len(symbols) /\ DOMAIN q = DOMAIN symbols
  BY <1>2
<1>5. q \in Seq(RangeOf(q))
  BY <1>4, OwnRange
<1>6. \A i \in DOMAIN symbols :
        /\ symbols'[i].address = symbols[i].address
        /\ symbols'[i].is_function = symbols[i].is_function
        /\ symbols'[i].return_type = symbols[i].return_type
        /\ symbols'[i].param_types = symbols[i].param_types
  BY <1>1, <1>2, <1>3
<1>7. at' \in 1..Len(symbols') + 1 /\ applied' \subseteq 1..at' - 1
  BY <1>2, <1>3, <1>4
<1>8. symbols' \in Seq(RangeOf(symbols')) /\ DOMAIN symbols' = DOMAIN symbols
  BY <1>3, <1>4, <1>5
<1> HIDE DEF q, S
<1>9. TypeOK'
  BY <1>t, <1>6, <1>7, <1>8 DEF TypeOK
<1>10. Gathered' /\ OneSymbolPerFunction'
  BY <1>t, <1>6, <1>8 DEF Gathered, OneSymbolPerFunction
<1>11. CountedIsThere' /\ NothingElseChanged'
  BY DEF CountedIsThere, NothingElseChanged
<1>12. AppliedAsAsked'
  BY DEF AppliedAsAsked
<1> QED
  BY <1>9, <1>10, <1>11, <1>12 DEF IInv

\* All is as asked when the symbols are applied again.
LEMMA RepeatInv ==
    ASSUME IInv, Repeat
    PROVE  IInv'
<1> USE DEF program, Repeat, Starts
<1>t. TypeOK /\ Gathered /\ OneSymbolPerFunction /\ AppliedAsAsked
  BY DEF IInv
<1>1. DOMAIN symbols = 1..Len(symbols) /\ Len(symbols) \in Nat /\ at = Len(symbols) + 1
  BY <1>t DEF TypeOK, Gathered
<1>2. at' \in 1..Len(symbols') + 1 /\ applied' \subseteq 1..at' - 1
  BY <1>1
<1>3. repeated' \in BOOLEAN
  OBVIOUS
<1>4. TypeOK'
  BY <1>t, <1>2, <1>3 DEF TypeOK
<1>5. Gathered' /\ OneSymbolPerFunction'
  BY <1>t DEF Gathered, OneSymbolPerFunction
<1>6. CountedIsThere' /\ NothingElseChanged'
  BY DEF CountedIsThere, NothingElseChanged
<1>7. AppliedAsAsked'
  <2> SUFFICES ASSUME script', repeated' PROVE \A i \in DOMAIN symbols : AsAsked(i)'
    BY DEF AppliedAsAsked
  <2>1. \A i \in 1..at - 1 : AsAsked(i)
    BY <1>t DEF AppliedAsAsked, Applying
  <2>2. \A i \in DOMAIN symbols : AsAsked(i)
    BY <1>1, <2>1
  <2> QED
    BY <2>2, KeepAsAsked
<1> QED
  BY <1>4, <1>5, <1>6, <1>7 DEF IInv

\* What the properties speak of is left alone.
LEMMA SymbolsAppliedInv ==
    ASSUME IInv, SymbolsApplied
    PROVE  IInv'
<1> USE DEF program, history, SymbolsApplied
<1>1. TypeOK' /\ OneSymbolPerFunction'
  BY DEF IInv, TypeOK, OneSymbolPerFunction
<1>2. at \in 1..Len(symbols) + 1 /\ Len(symbols) \in Nat
  BY DEF IInv, TypeOK
<1>3. Gathered'
  BY <1>2 DEF Gathered
<1>4. CountedIsThere' /\ NothingElseChanged'
  BY DEF IInv, Applying, CountedIsThere, NothingElseChanged, Covers
<1>5. AppliedAsAsked'
  <2>1. \A i : AsAsked(i) => AsAsked(i)'
    BY KeepAsAsked
  <2> QED
    BY <2>1 DEF IInv, Applying, AppliedAsAsked
<1> QED
  BY <1>1, <1>3, <1>4, <1>5 DEF IInv

----------------------------------------------------------------------------
(* The server applies a symbol *)

\* What every way to apply a symbol has in common: how the program is left is
\* up to the way.
LEMMA Step ==
    ASSUME IInv, NEW s, Next_symbol(s),
           applied' \in {applied, applied \cup {at}}, refused' \in BOOLEAN,
           name' = [a \in Addresses |-> name'[a]], type' = [a \in Addresses |-> type'[a]],
           labels' = [a \in Addresses |-> labels'[a]],
           \A a \in Addresses : labels'[a] \in Seq(RangeOf(labels'[a]))
    PROVE  /\ TypeOK' /\ Gathered' /\ OneSymbolPerFunction'
           /\ at \in DOMAIN symbols /\ at \in Nat /\ at' = at + 1 /\ s = symbols[at]
           /\ s.address \in Addresses /\ s.is_function \in BOOLEAN
           /\ \A i \in applied : i \in DOMAIN symbols /\ i \in Nat /\ i < at /\ i # at
           /\ \A i \in 1..at - 1 : i \in DOMAIN symbols /\ i # at
<1> USE DEF Next_symbol
<1>t. TypeOK
  BY DEF IInv
<1>1. DOMAIN symbols = 1..Len(symbols) /\ Len(symbols) \in Nat /\ at \in Nat
      /\ at \in 1..Len(symbols) + 1 /\ applied \subseteq 1..at - 1
  BY <1>t DEF TypeOK
<1>2. at \in DOMAIN symbols
  BY <1>1
<1>3. at' \in 1..Len(symbols') + 1 /\ applied' \subseteq 1..at' - 1
  BY <1>1
<1>4. TypeOK'
  BY <1>t, <1>3 DEF TypeOK
<1>5. Gathered' /\ OneSymbolPerFunction'
  BY DEF IInv, Gathered, OneSymbolPerFunction
<1>6. s.address \in Addresses /\ s.is_function \in BOOLEAN
  BY <1>t, <1>2 DEF TypeOK
<1>7. \A i \in applied : i \in DOMAIN symbols /\ i \in Nat /\ i < at /\ i # at
  BY <1>1
<1>8. \A i \in 1..at - 1 : i \in DOMAIN symbols /\ i # at
  BY <1>1
<1> QED
  BY <1>1, <1>2, <1>4, <1>5, <1>6, <1>7, <1>8

\* A symbol that is not applied changes nothing.
LEMMA FailsInv ==
    ASSUME IInv, SymbolFails \/ NoNameFails
    PROVE  IInv'
<1> USE DEF program
<1>1. PICK s : /\ Next_symbol(s) /\ UNCHANGED <<applied, name, type, labels>>
               /\ refused' = TRUE \/ (refused' = refused /\ s.name = NoName)
  <2>1. CASE SymbolFails
    BY <2>1 DEF SymbolFails
  <2>2. CASE NoNameFails
    BY <2>2 DEF NoNameFails
  <2> QED
    BY <2>1, <2>2
<1>2. refused' \in BOOLEAN
  BY <1>1 DEF IInv, TypeOK
<1>3. /\ TypeOK' /\ Gathered' /\ OneSymbolPerFunction'
      /\ at \in DOMAIN symbols /\ at \in Nat /\ at' = at + 1 /\ s = symbols[at]
      /\ \A i \in 1..at - 1 : i \in DOMAIN symbols /\ i # at
  <2>1. /\ name' = [a \in Addresses |-> name'[a]] /\ type' = [a \in Addresses |-> type'[a]]
        /\ labels' = [a \in Addresses |-> labels'[a]]
        /\ \A a \in Addresses : labels'[a] \in Seq(RangeOf(labels'[a]))
    BY <1>1 DEF IInv, TypeOK
  <2>2. applied' \in {applied, applied \cup {at}}
    BY <1>1
  <2> QED
    BY <1>1, <1>2, <2>1, <2>2, Step
<1>4. CountedIsThere' /\ NothingElseChanged'
  BY <1>1 DEF IInv, Next_symbol, Applying, CountedIsThere, NothingElseChanged, Covers
<1>5. AppliedAsAsked'
  <2> SUFFICES ASSUME script, ~refused', touched = {}
               PROVE  /\ \A i \in 1..at' - 1 : AsAsked(i)'
                      /\ repeated' => program' = before' /\ \A i \in DOMAIN symbols' : AsAsked(i)'
    BY <1>1 DEF AppliedAsAsked, Next_symbol
  <2>1. refused' = refused /\ s.name = NoName
    BY <1>1
  <2>2. /\ \A i \in 1..at - 1 : AsAsked(i)
        /\ repeated => program = before /\ \A i \in DOMAIN symbols : AsAsked(i)
    BY <1>1, <2>1 DEF IInv, AppliedAsAsked, Applying, Next_symbol
  <2>3. AsAsked(at)
    BY <1>3, <2>1 DEF AsAsked
  <2>4. \A i : AsAsked(i) => AsAsked(i)'
    BY <1>1, KeepAsAsked DEF Next_symbol
  <2>5. \A i \in 1..at' - 1 : i \in 1..at - 1 \/ i = at
    BY <1>3
  <2> QED
    BY <1>1, <2>2, <2>3, <2>4, <2>5 DEF Next_symbol
<1> QED
  BY <1>3, <1>4, <1>5 DEF IInv
\* A function's name and types are written by this symbol alone, if none is
\* refused.
LEMMA ApplyFunctionSymbolInv ==
    ASSUME IInv, ApplyFunctionSymbol
    PROVE  IInv'
<1> USE DEF program
<1>1. PICK s, n, w :
        /\ s \in RangeOf(symbols) /\ Next_symbol(s) /\ s.name # NoName /\ s.is_function
        /\ n \in NamesFor(s)
        /\ applied' = applied \cup {at} /\ labels' = labels
        /\ name' = [name EXCEPT ![s.address] = n]
        /\ type' = [type EXCEPT ![s.address] = w]
        /\ refused' = (refused \/ n # s.name
                        \/ w # Typed(type[s.address], s.return_type, s.param_types))
  BY DEF ApplyFunctionSymbol
<1> DEFINE T == Typed(type[s.address], s.return_type, s.param_types)
<1>t. /\ TypeOK /\ DOMAIN name = Addresses /\ DOMAIN type = Addresses
      /\ name = [a \in Addresses |-> name[a]] /\ type = [a \in Addresses |-> type[a]]
      /\ labels = [a \in Addresses |-> labels[a]] /\ refused \in BOOLEAN
      /\ \A a \in Addresses : labels[a] \in Seq(RangeOf(labels[a]))
  BY DEF IInv, TypeOK
<1>2. refused' \in BOOLEAN /\ (~refused' => ~refused /\ n = s.name /\ w = T)
  BY <1>1, <1>t
<1>3. name' = [a \in Addresses |-> name'[a]] /\ type' = [a \in Addresses |-> type'[a]]
  BY <1>1, <1>t
<1>4. /\ TypeOK' /\ Gathered' /\ OneSymbolPerFunction'
      /\ at \in DOMAIN symbols /\ at \in Nat /\ at' = at + 1 /\ s = symbols[at]
      /\ s.address \in Addresses
      /\ \A i \in applied : i \in DOMAIN symbols /\ i \in Nat /\ i < at /\ i # at
      /\ \A i \in 1..at - 1 : i \in DOMAIN symbols /\ i # at
  BY <1>1, <1>2, <1>3, <1>t, Step
<1>5. name'[s.address] = n /\ type'[s.address] = w
      /\ \A a : a # s.address => name'[a] = name[a] /\ type'[a] = type[a]
  BY <1>1, <1>4, <1>t
<1>6. n = s.name \/ n = Suffixed(s.name)
  BY <1>1 DEF NamesFor
<1>7. Applying /\ symbols' = symbols /\ script' = script /\ touched' = touched
      /\ before' = before /\ repeated' = repeated /\ phase' = phase
  BY <1>1 DEF Next_symbol, Applying
<1> HIDE DEF T
<1>8. CountedIsThere'
  <2> SUFFICES ASSUME NEW i \in applied', symbols[i].address \notin touched,
                      \A j \in applied' : ~Covers(j, i)
               PROVE  IF symbols[i].is_function
                      THEN \/ name'[symbols[i].address] \in {symbols[i].name, Suffixed(symbols[i].name)}
                           \/ script /\ refused' /\ name'[symbols[i].address] = NoFunction
                      ELSE symbols[i].name \in RangeOf(labels[symbols[i].address]) \cup
                             IF script THEN {} ELSE {name'[symbols[i].address]}
    BY <1>1, <1>7 DEF CountedIsThere, Covers, Suffixed
  <2>1. CASE i = at
    BY <2>1, <1>1, <1>4, <1>5, <1>6
  <2>2. CASE i \in applied
    <3>1. ~Covers(at, i) /\ i < at
      BY <1>1, <1>4, <2>2
    <3>2. symbols[i].address # s.address \/ (script /\ ~symbols[i].is_function)
      BY <1>1, <1>4, <3>1 DEF Covers
    <3>3. IF symbols[i].is_function
          THEN \/ name[symbols[i].address] \in {symbols[i].name, Suffixed(symbols[i].name)}
               \/ script /\ refused /\ name[symbols[i].address] = NoFunction
          ELSE symbols[i].name \in RangeOf(labels[symbols[i].address]) \cup
                 IF script THEN {} ELSE {name[symbols[i].address]}
      BY <1>1, <1>7, <2>2 DEF IInv, CountedIsThere
    <3> QED
      BY <3>2, <3>3, <1>2, <1>5
  <2> QED
    BY <2>1, <2>2, <1>1
<1>9. NothingElseChanged'
  <2> SUFFICES ASSUME NEW a \in Addresses \ touched, \A i \in applied' : symbols[i].address # a
               PROVE  <<name'[a], type'[a], labels[a]>> = <<before[1][a], before[2][a], before[3][a]>>
    BY <1>1, <1>7 DEF NothingElseChanged
  <2>1. a # s.address
    BY <1>1, <1>4
  <2>2. <<name[a], type[a], labels[a]>> = <<before[1][a], before[2][a], before[3][a]>>
    BY <1>1, <1>7 DEF IInv, NothingElseChanged
  <2> QED
    BY <2>1, <2>2, <1>5
<1>10. AppliedAsAsked'
  <2> SUFFICES ASSUME script, ~refused', touched = {}
               PROVE  /\ \A i \in 1..at' - 1 : AsAsked(i)'
                      /\ repeated => program' = before /\ \A i \in DOMAIN symbols : AsAsked(i)'
    BY <1>7 DEF AppliedAsAsked
  <2>1. /\ \A i \in 1..at - 1 : AsAsked(i)
        /\ repeated => program = before /\ \A i \in DOMAIN symbols : AsAsked(i)
    BY <1>2, <1>7 DEF IInv, AppliedAsAsked
  <2>2. ASSUME NEW i, i = at
        PROVE  AsAsked(i)'
    <3>1. name'[s.address] = s.name /\ type'[s.address] = T
      BY <1>2, <1>5
    <3>2. Typed(T, s.return_type, s.param_types) = T
      BY TypedAgain DEF T
    <3>3. Typed(type'[s.address], s.return_type, s.param_types) = type'[s.address]
      BY <3>1, <3>2
    <3> QED
      <4>1. /\ symbols[i].is_function /\ name'[symbols[i].address] = symbols[i].name
            /\ type'[symbols[i].address]
                 = Typed(type'[symbols[i].address], symbols[i].return_type, symbols[i].param_types)
        BY <1>1, <1>4, <2>2, <3>1, <3>3
      <4> QED
        BY <1>7, <4>1, ThenAsAsked
  <2>3. ASSUME NEW i \in DOMAIN symbols, i # at, AsAsked(i)
        PROVE  AsAsked(i)'
    <3>1. symbols[i].is_function => symbols[i].address # s.address
      BY <1>1, <1>4, <2>3 DEF IInv, OneSymbolPerFunction
    <3>2. symbols[i].name # NoName /\ symbols[i].is_function =>
            /\ name'[symbols[i].address] = symbols[i].name
            /\ type'[symbols[i].address]
                 = Typed(type'[symbols[i].address], symbols[i].return_type, symbols[i].param_types)
      BY <1>5, <2>3, <3>1 DEF AsAsked
    <3>3. symbols[i].name # NoName /\ ~symbols[i].is_function =>
            symbols[i].name \in RangeOf(labels'[symbols[i].address])
      BY <1>1, <2>3 DEF AsAsked
    <3> QED
      BY <1>7, <3>2, <3>3, ThenAsAsked
  <2>4. \A i \in 1..at' - 1 : i \in 1..at - 1 \/ i = at
    BY <1>4
  <2>5. ASSUME NEW i \in 1..at' - 1
        PROVE  AsAsked(i)'
    <3>1. CASE i = at
      BY <2>2, <3>1
    <3>2. CASE i \in 1..at - 1
      <4>1. i \in DOMAIN symbols /\ i # at /\ AsAsked(i)
        BY <1>4, <2>1, <3>2
      <4> QED
        BY <4>1, <2>3
    <3> QED
      BY <2>4, <3>1, <3>2
  <2>6. ASSUME repeated
        PROVE  program' = before /\ \A i \in DOMAIN symbols : AsAsked(i)'
    <3>1. AsAsked(at) /\ program = before
      BY <1>4, <2>1, <2>6
    <3>2. n = name[s.address] /\ T = type[s.address] /\ w = T
      BY <1>1, <1>2, <1>4, <3>1 DEF AsAsked, T
    <3>3. name' = name /\ type' = type
      <4>1. \A a \in Addresses : name'[a] = name[a] /\ type'[a] = type[a]
        BY <3>2, <1>5
      <4>2. [a \in Addresses |-> name'[a]] = [a \in Addresses |-> name[a]]
            /\ [a \in Addresses |-> type'[a]] = [a \in Addresses |-> type[a]]
        BY <4>1
      <4> QED
        BY <4>2, <1>3, <1>t
    <3>4. ASSUME NEW i \in DOMAIN symbols
          PROVE  AsAsked(i)'
      <4>1. CASE i = at
        BY <2>2, <4>1
      <4>2. CASE i # at
        BY <2>1, <2>3, <2>6, <4>2
      <4> QED
        BY <4>1, <4>2
    <3> QED
      BY <1>1, <3>1, <3>3, <3>4
  <2> QED
    BY <2>5, <2>6
<1> QED
  BY <1>4, <1>8, <1>9, <1>10 DEF IInv
\* The script counts a function that is not there, and writes nothing.
LEMMA NoFunctionMadeInv ==
    ASSUME IInv, NoFunctionMade
    PROVE  IInv'
<1> USE DEF program
<1>1. PICK s : /\ Next_symbol(s) /\ s.is_function /\ script /\ name[s.address] = NoFunction
               /\ applied' = applied \cup {at} /\ refused' = TRUE
               /\ UNCHANGED <<name, type, labels>>
  BY DEF NoFunctionMade
<1>2. /\ TypeOK' /\ Gathered' /\ OneSymbolPerFunction' /\ s = symbols[at]
      /\ \A i \in applied : i \in DOMAIN symbols
  <2>1. /\ name' = [a \in Addresses |-> name'[a]] /\ type' = [a \in Addresses |-> type'[a]]
        /\ labels' = [a \in Addresses |-> labels'[a]] /\ refused' \in BOOLEAN
        /\ \A a \in Addresses : labels'[a] \in Seq(RangeOf(labels'[a]))
    BY <1>1 DEF IInv, TypeOK
  <2>2. applied' \in {applied, applied \cup {at}}
    BY <1>1
  <2> QED
    BY <1>1, <2>1, <2>2, Step
<1>3. Applying /\ symbols' = symbols /\ script' = script /\ touched' = touched
      /\ before' = before /\ phase' = phase
  BY <1>1 DEF Next_symbol, Applying
<1>4. CountedIsThere'
  <2> SUFFICES ASSUME NEW i \in applied', symbols[i].address \notin touched,
                      \A j \in applied' : ~Covers(j, i)
               PROVE  IF symbols[i].is_function
                      THEN \/ name[symbols[i].address] \in {symbols[i].name, Suffixed(symbols[i].name)}
                           \/ script /\ refused' /\ name[symbols[i].address] = NoFunction
                      ELSE symbols[i].name \in RangeOf(labels[symbols[i].address]) \cup
                             IF script THEN {} ELSE {name[symbols[i].address]}
    BY <1>1, <1>3 DEF CountedIsThere, Covers, Suffixed
  <2>1. CASE i = at
    BY <1>1, <1>2, <2>1
  <2>2. CASE i \in applied
    BY <1>1, <1>3, <2>2 DEF IInv, CountedIsThere
  <2> QED
    BY <1>1, <2>1, <2>2
<1>5. NothingElseChanged'
  BY <1>1, <1>3 DEF IInv, NothingElseChanged, Applying
<1>6. AppliedAsAsked'
  BY <1>1 DEF AppliedAsAsked
<1> QED
  BY <1>2, <1>4, <1>5, <1>6 DEF IInv

\* A name that is written to an address is there, as a label or as the name of its
\* function, and only there.
LEMMA PutsLabel ==
    ASSUME TypeOK, NEW a \in Addresses, NEW n, PutLabel(a, n)
    PROVE  /\ n \in RangeOf(labels'[a]) /\ RangeOf(labels[a]) \subseteq RangeOf(labels'[a])
           /\ n \in RangeOf(labels[a]) => labels'[a] = labels[a]
           /\ labels'[a] \in Seq(RangeOf(labels'[a]))
           /\ \A b : b # a => labels'[b] = labels[b]
           /\ labels' = [b \in Addresses |-> labels'[b]]
<1>t. /\ DOMAIN labels = Addresses /\ labels = [b \in Addresses |-> labels[b]]
      /\ labels[a] \in Seq(RangeOf(labels[a]))
  BY DEF TypeOK
<1>1. labels' = [labels EXCEPT ![a] = IF n \in RangeOf(labels[a]) THEN labels[a] ELSE Append(labels[a], n)]
  BY DEF PutLabel
<1>2. labels'[a] = IF n \in RangeOf(labels[a]) THEN labels[a] ELSE Append(labels[a], n)
  BY <1>1, <1>t
<1>3. (\A b : b # a => labels'[b] = labels[b]) /\ labels' = [b \in Addresses |-> labels'[b]]
  <2>1. \A b : b # a => labels'[b] = labels[b]
    BY <1>1, <1>t
  <2>2. labels' = [b \in Addresses |-> labels'[b]]
    BY <1>1, <1>t
  <2> QED
    BY <2>1, <2>2
<1>4. /\ Append(labels[a], n) \in Seq(RangeOf(Append(labels[a], n)))
      /\ RangeOf(Append(labels[a], n)) = RangeOf(labels[a]) \cup {n}
  BY <1>t, AppendRange
<1>5. CASE n \in RangeOf(labels[a])
  BY <1>2, <1>3, <1>5, <1>t
<1>6. CASE n \notin RangeOf(labels[a])
  BY <1>2, <1>3, <1>4, <1>6
<1> QED
  BY <1>5, <1>6

LEMMA WritesName ==
    ASSUME TypeOK, NEW a \in Addresses, NEW n,
           (PutLabel(a, n) /\ name' = name) \/ RenameFirst(a, n)
    PROVE  /\ n \in RangeOf(labels'[a]) \cup {name'[a]}
           /\ \A b : b # a => name'[b] = name[b] /\ labels'[b] = labels[b]
           /\ name' = [b \in Addresses |-> name'[b]] /\ labels' = [b \in Addresses |-> labels'[b]]
           /\ \A b \in Addresses : labels'[b] \in Seq(RangeOf(labels'[b]))
<1>t. /\ DOMAIN name = Addresses /\ DOMAIN labels = Addresses
      /\ name = [b \in Addresses |-> name[b]] /\ labels = [b \in Addresses |-> labels[b]]
      /\ \A b \in Addresses : labels[b] \in Seq(RangeOf(labels[b]))
  BY DEF TypeOK
<1>1. CASE PutLabel(a, n) /\ name' = name
  <2>1. \A b \in Addresses : labels'[b] \in Seq(RangeOf(labels'[b]))
    BY <1>1, <1>t, PutsLabel
  <2> QED
    BY <1>1, <1>t, <2>1, PutsLabel
<1>2. CASE name' = [name EXCEPT ![a] = n] /\ labels' = labels
  <2>1. n = name'[a]
    BY <1>2, <1>t
  <2>2. \A b : b # a => name'[b] = name[b] /\ labels'[b] = labels[b]
    BY <1>2, <1>t
  <2>3. name' = [b \in Addresses |-> name'[b]]
    BY <1>2, <1>t
  <2> QED
    BY <1>2, <1>t, <2>1, <2>2, <2>3
<1>3. CASE labels[a] # <<>> /\ labels' = [labels EXCEPT ![a][1] = n] /\ name' = name
  <2> DEFINE q == labels[a]
             R == RangeOf(q) \cup {n}
  <2>1. labels'[a] = [q EXCEPT ![1] = n]
    BY <1>3, <1>t
  <2>2. \A b : b # a => labels'[b] = labels[b]
    BY <1>3, <1>t
  <2>11. labels' = [b \in Addresses |-> labels'[b]]
    BY <1>3, <1>t
  <2>3. q \in Seq(RangeOf(q)) /\ q # <<>>
    BY <1>3, <1>t
  <2> HIDE DEF q
  <2>4. Len(q) \in Nat /\ DOMAIN q = 1..Len(q) /\ 1 \in DOMAIN q /\ \A i \in 1..Len(q) : q[i] \in R
    BY <2>3
  <2>5. [q EXCEPT ![1] = n] = [i \in 1..Len(q) |-> IF i = 1 THEN n ELSE q[i]]
    BY <2>3, <2>4
  <2> DEFINE p == [i \in 1..Len(q) |-> IF i = 1 THEN n ELSE q[i]]
  <2>6. p \in Seq(R) /\ 1 \in DOMAIN p /\ p[1] = n
    BY <2>4
  <2> HIDE DEF p
  <2>7. p \in Seq(RangeOf(p))
    BY <2>6, OwnRange
  <2>8. n \in RangeOf(p)
    BY <2>6 DEF RangeOf
  <2>9. labels'[a] = p
    BY <2>1, <2>5 DEF p
  <2>10. \A b \in Addresses : labels'[b] \in Seq(RangeOf(labels'[b]))
    BY <1>t, <2>2, <2>7, <2>9
  <2> QED
    BY <1>3, <1>t, <2>2, <2>8, <2>9, <2>10, <2>11
<1> QED
  BY <1>1, <1>2, <1>3 DEF RenameFirst

\* The label of a data symbol is there, or what stood first at its address now
\* bears its name.
LEMMA ApplyDataSymbolInv ==
    ASSUME IInv, ApplyDataSymbol
    PROVE  IInv'
<1> USE DEF program
<1>1. PICK s :
        /\ s \in RangeOf(symbols) /\ Next_symbol(s) /\ s.name # NoName /\ ~s.is_function
        /\ applied' = applied \cup {at} /\ type' = type /\ refused' = refused
        /\ script => PutLabel(s.address, s.name) /\ name' = name
        /\ ~script => RenameFirst(s.address, s.name)
  BY DEF ApplyDataSymbol
<1> DEFINE A == s.address
<1>t. /\ TypeOK /\ DOMAIN name = Addresses /\ DOMAIN labels = Addresses
      /\ name = [a \in Addresses |-> name[a]] /\ type = [a \in Addresses |-> type[a]]
      /\ labels = [a \in Addresses |-> labels[a]] /\ refused \in BOOLEAN
      /\ \A a \in Addresses : labels[a] \in Seq(RangeOf(labels[a]))
  BY DEF IInv, TypeOK
<1>3. at \in DOMAIN symbols /\ s = symbols[at] /\ A \in Addresses
  <2>1. Len(symbols) \in Nat /\ DOMAIN symbols = 1..Len(symbols) /\ at \in 1..Len(symbols) + 1
    BY <1>t DEF TypeOK
  <2>2. at \in DOMAIN symbols /\ s = symbols[at]
    BY <1>1, <2>1 DEF Next_symbol
  <2> QED
    BY <1>t, <2>2 DEF TypeOK
<1>5. script => name' = name /\ s.name \in RangeOf(labels'[A])
                 /\ RangeOf(labels[A]) \subseteq RangeOf(labels'[A])
                 /\ (s.name \in RangeOf(labels[A]) => labels'[A] = labels[A])
  BY <1>1, <1>3, <1>t, PutsLabel
<1>6. /\ ~script => s.name \in RangeOf(labels'[A]) \cup {name'[A]}
      /\ \A a : a # A => name'[a] = name[a] /\ labels'[a] = labels[a]
      /\ name' = [a \in Addresses |-> name'[a]] /\ labels' = [a \in Addresses |-> labels'[a]]
      /\ \A a \in Addresses : labels'[a] \in Seq(RangeOf(labels'[a]))
  BY <1>1, <1>3, <1>t, WritesName
<1> HIDE DEF A
<1>7. type' = [a \in Addresses |-> type'[a]]
  BY <1>1, <1>t
<1>9. refused' \in BOOLEAN
  BY <1>1, <1>t
<1>10. /\ TypeOK' /\ Gathered' /\ OneSymbolPerFunction'
       /\ at \in Nat /\ at' = at + 1
       /\ \A i \in applied : i \in DOMAIN symbols /\ i \in Nat /\ i < at /\ i # at
       /\ \A i \in 1..at - 1 : i \in DOMAIN symbols /\ i # at
  BY <1>1, <1>6, <1>7, <1>9, Step
<1>11. Applying /\ symbols' = symbols /\ script' = script /\ touched' = touched
       /\ before' = before /\ repeated' = repeated /\ phase' = phase
  BY <1>1 DEF Next_symbol, Applying
<1>12. CountedIsThere'
  <2> SUFFICES ASSUME NEW i \in applied', symbols[i].address \notin touched,
                      \A j \in applied' : ~Covers(j, i)
               PROVE  IF symbols[i].is_function
                      THEN \/ name'[symbols[i].address] \in {symbols[i].name, Suffixed(symbols[i].name)}
                           \/ script /\ refused' /\ name'[symbols[i].address] = NoFunction
                      ELSE symbols[i].name \in RangeOf(labels'[symbols[i].address]) \cup
                             IF script THEN {} ELSE {name'[symbols[i].address]}
    BY <1>1, <1>11 DEF CountedIsThere, Covers, Suffixed
  <2>1. CASE i = at
    BY <2>1, <1>1, <1>3, <1>5, <1>6 DEF A
  <2>2. CASE i \in applied
    <3>1. ~Covers(at, i) /\ i < at /\ i \in DOMAIN symbols
      BY <1>1, <1>10, <2>2
    <3>2. symbols[i].is_function \in BOOLEAN
      BY <3>1, <1>t DEF TypeOK
    <3>3. symbols[i].address # A \/ (script /\ symbols[i].is_function)
      <4>1. s.is_function = FALSE
        BY <1>1, <1>3, <1>t DEF TypeOK
      <4> QED
        BY <1>3, <3>1, <3>2, <4>1 DEF Covers, A
    <3>4. IF symbols[i].is_function
          THEN \/ name[symbols[i].address] \in {symbols[i].name, Suffixed(symbols[i].name)}
               \/ script /\ refused /\ name[symbols[i].address] = NoFunction
          ELSE symbols[i].name \in RangeOf(labels[symbols[i].address]) \cup
                 IF script THEN {} ELSE {name[symbols[i].address]}
      BY <1>1, <1>11, <2>2 DEF IInv, CountedIsThere
    <3> QED
      BY <3>3, <3>4, <1>1, <1>5, <1>6
  <2> QED
    BY <2>1, <2>2, <1>1
<1>13. NothingElseChanged'
  <2> SUFFICES ASSUME NEW a \in Addresses \ touched, \A i \in applied' : symbols[i].address # a
               PROVE  <<name'[a], type'[a], labels'[a]>> = <<before[1][a], before[2][a], before[3][a]>>
    BY <1>11 DEF NothingElseChanged
  <2>1. a # A
    BY <1>1, <1>3 DEF A
  <2>2. <<name[a], type[a], labels[a]>> = <<before[1][a], before[2][a], before[3][a]>>
    BY <1>1, <1>11 DEF IInv, NothingElseChanged
  <2> QED
    BY <2>1, <2>2, <1>1, <1>6
<1>14. AppliedAsAsked'
  <2> SUFFICES ASSUME script, ~refused, touched = {}
               PROVE  /\ \A i \in 1..at' - 1 : AsAsked(i)'
                      /\ repeated => program' = before /\ \A i \in DOMAIN symbols : AsAsked(i)'
    BY <1>1, <1>11 DEF AppliedAsAsked
  <2>1. /\ \A i \in 1..at - 1 : AsAsked(i)
        /\ repeated => program = before /\ \A i \in DOMAIN symbols : AsAsked(i)
    BY <1>11 DEF IInv, AppliedAsAsked
  <2>2. ASSUME NEW i, i = at
        PROVE  AsAsked(i)'
    <3>1. ~symbols[i].is_function /\ symbols[i].name \in RangeOf(labels'[symbols[i].address])
      BY <1>1, <1>3, <1>5, <2>2 DEF A
    <3> QED
      BY <1>11, <3>1, ThenAsAsked
  <2>3. ASSUME NEW i \in DOMAIN symbols, AsAsked(i)
        PROVE  AsAsked(i)'
    <3>1. symbols[i].name # NoName /\ symbols[i].is_function =>
            /\ name'[symbols[i].address] = symbols[i].name
            /\ type'[symbols[i].address]
                 = Typed(type'[symbols[i].address], symbols[i].return_type, symbols[i].param_types)
      BY <1>1, <1>5, <2>3 DEF AsAsked
    <3>2. symbols[i].name # NoName /\ ~symbols[i].is_function =>
            symbols[i].name \in RangeOf(labels[symbols[i].address])
      BY <2>3 DEF AsAsked
    <3>3. RangeOf(labels[symbols[i].address]) \subseteq RangeOf(labels'[symbols[i].address])
      BY <1>5, <1>6
    <3>4. symbols[i].name # NoName /\ ~symbols[i].is_function =>
            symbols[i].name \in RangeOf(labels'[symbols[i].address])
      BY <3>2, <3>3
    <3> QED
      BY <1>11, <3>1, <3>4, ThenAsAsked
  <2>4. \A i \in 1..at' - 1 : i \in 1..at - 1 \/ i = at
    BY <1>10
  <2>5. ASSUME NEW i \in 1..at' - 1
        PROVE  AsAsked(i)'
    <3>1. CASE i = at
      BY <2>2, <3>1
    <3>2. CASE i \in 1..at - 1
      BY <1>10, <2>1, <2>3, <3>2
    <3> QED
      BY <2>4, <3>1, <3>2
  <2>6. ASSUME repeated
        PROVE  program' = before /\ \A i \in DOMAIN symbols : AsAsked(i)'
    <3>1. AsAsked(at) /\ program = before
      BY <1>3, <2>1, <2>6
    <3>2. s.name \in RangeOf(labels[A])
      BY <1>1, <1>3, <3>1 DEF AsAsked, A
    <3>3. \A a \in Addresses : labels'[a] = labels[a]
      BY <3>2, <1>5, <1>6
    <3>4. [a \in Addresses |-> labels'[a]] = [a \in Addresses |-> labels[a]]
      BY <3>3
    <3>5. labels' = labels /\ name' = name
      BY <3>4, <1>5, <1>6, <1>t
    <3> QED
      BY <1>1, <2>1, <2>3, <2>6, <3>1, <3>5
  <2> QED
    BY <2>5, <2>6
<1> QED
  BY <1>10, <1>12, <1>13, <1>14 DEF IInv

----------------------------------------------------------------------------
(* Others write *)

\* A function that others have written to is spoken of no more.
LEMMA OthersInv ==
    ASSUME IInv, rename_symbol \/ rename_data \/ set_signature
    PROVE  IInv'
<1> USE DEF program
<1>t. /\ TypeOK /\ name = [a \in Addresses |-> name[a]] /\ type = [a \in Addresses |-> type[a]]
      /\ labels = [a \in Addresses |-> labels[a]]
      /\ \A a \in Addresses : labels[a] \in Seq(RangeOf(labels[a]))
  BY DEF IInv, TypeOK
<1>1. PICK a \in Addresses :
        /\ Touch(a)
        /\ name' = [b \in Addresses |-> name'[b]] /\ type' = [b \in Addresses |-> type'[b]]
        /\ labels' = [b \in Addresses |-> labels'[b]]
        /\ \A b \in Addresses : labels'[b] \in Seq(RangeOf(labels'[b]))
        /\ \A b : b # a => name'[b] = name[b] /\ type'[b] = type[b] /\ labels'[b] = labels[b]
  <2>1. CASE rename_symbol
    <3>1. PICK a \in Addresses, n \in Names \ {NoName} :
            Touch(a) /\ name' = [name EXCEPT ![a] = n] /\ type' = type /\ labels' = labels
      BY <2>1 DEF rename_symbol
    <3>2. name' = [b \in Addresses |-> name'[b]] /\ type' = [b \in Addresses |-> type'[b]]
      BY <3>1, <1>t
    <3>3. \A b : b # a => name'[b] = name[b] /\ type'[b] = type[b]
      <4>1. DOMAIN name = Addresses
        BY <1>t
      <4> QED
        BY <3>1, <4>1
    <3>4. Touch(a) /\ labels' = labels
      BY <3>1
    <3> QED
      BY <1>t, <3>2, <3>3, <3>4
  <2>2. CASE set_signature
    <3>1. PICK a \in Addresses :
            /\ Touch(a) /\ labels' = labels
            /\ \E n, w : name' = [name EXCEPT ![a] = n] /\ type' = [type EXCEPT ![a] = w]
      BY <2>2 DEF set_signature
    <3>2. name' = [b \in Addresses |-> name'[b]] /\ type' = [b \in Addresses |-> type'[b]]
      BY <3>1, <1>t
    <3>3. \A b : b # a => name'[b] = name[b] /\ type'[b] = type[b]
      <4>1. DOMAIN name = Addresses /\ DOMAIN type = Addresses
        BY <1>t
      <4> QED
        BY <3>1, <4>1
    <3> QED
      BY <1>t, <3>1, <3>2, <3>3
  <2>3. CASE rename_data
    <3>1. PICK a \in Addresses, n \in Names \ {NoName} :
            Touch(a) /\ type' = type /\ RenameFirst(a, n)
      BY <2>3 DEF rename_data
    <3>2. /\ \A b : b # a => name'[b] = name[b] /\ labels'[b] = labels[b]
          /\ name' = [b \in Addresses |-> name'[b]] /\ labels' = [b \in Addresses |-> labels'[b]]
          /\ \A b \in Addresses : labels'[b] \in Seq(RangeOf(labels'[b]))
      BY <1>t, <3>1, WritesName
    <3> QED
      BY <1>t, <3>1, <3>2
  <2> QED
    BY <2>1, <2>2, <2>3
<1>2. /\ touched' = touched \cup {a}
      /\ UNCHANGED <<viv, script, phase, fva, symbols, at, applied, before, refused, repeated>>
  BY <1>1 DEF Touch, request
<1>3. TypeOK'
  BY <1>1, <1>2, <1>t DEF TypeOK
<1>4. \A b : FunctionSymbol(b)' = FunctionSymbol(b)
  BY <1>2 DEF FunctionSymbol, Symbol
<1>5. Gathered' /\ OneSymbolPerFunction'
  BY <1>2, <1>4 DEF IInv, Gathered, OneSymbolPerFunction
<1>6. \A b : b \notin touched' => /\ b # a /\ b \notin touched
                              /\ name'[b] = name[b] /\ type'[b] = type[b] /\ labels'[b] = labels[b]
  BY <1>1, <1>2
<1>7. CountedIsThere'
  <2> SUFFICES ASSUME Applying, NEW i \in applied, symbols[i].address \notin touched',
                      \A j \in applied : ~Covers(j, i)
               PROVE  IF symbols[i].is_function
                      THEN \/ name'[symbols[i].address] \in {symbols[i].name, Suffixed(symbols[i].name)}
                           \/ script /\ refused /\ name'[symbols[i].address] = NoFunction
                      ELSE symbols[i].name \in RangeOf(labels'[symbols[i].address]) \cup
                             IF script THEN {} ELSE {name'[symbols[i].address]}
    BY <1>1, <1>2 DEF CountedIsThere, Covers, Suffixed, Applying
  <2> QED
    BY <1>6 DEF IInv, CountedIsThere
<1>8. NothingElseChanged'
  <2> SUFFICES ASSUME Applying, NEW b \in Addresses \ touched', \A i \in applied : symbols[i].address # b
               PROVE  <<name'[b], type'[b], labels'[b]>> = <<before[1][b], before[2][b], before[3][b]>>
    BY <1>1, <1>2 DEF NothingElseChanged, Applying
  <2> QED
    BY <1>6 DEF IInv, NothingElseChanged
<1>9. AppliedAsAsked'
  BY <1>2 DEF AppliedAsAsked
<1> QED
  BY <1>3, <1>5, <1>7, <1>8, <1>9 DEF IInv
----------------------------------------------------------------------------
(* Theorems *)

LEMMA NextInv ==
    ASSUME IInv, [Next]_vars
    PROVE  IInv'
<1>1. CASE extract_for_function
  BY <1>1, ExtractInv
<1>2. CASE Argument
  BY <1>2, ArgumentInv
<1>3. CASE ArgumentsDone
  BY <1>3, ArgumentsDoneInv
<1>4. CASE CalledFunction
  BY <1>4, CalledFunctionInv
<1>5. CASE apply_symbols
  BY <1>5, apply_symbolsInv
<1>6. CASE ApplyFunctionSymbol
  BY <1>6, ApplyFunctionSymbolInv
<1>7. CASE ApplyDataSymbol
  BY <1>7, ApplyDataSymbolInv
<1>8. CASE SymbolFails \/ NoNameFails
  BY <1>8, FailsInv
<1>9. CASE SymbolsApplied
  BY <1>9, SymbolsAppliedInv
<1>10. CASE Repeat
  BY <1>10, RepeatInv
<1>11. CASE rename_symbol \/ rename_data \/ set_signature
  BY <1>11, OthersInv
<1>12. CASE NoFunctionMade
  BY <1>12, NoFunctionMadeInv
<1>13. CASE UNCHANGED vars
  <2> USE <1>13 DEF vars, request, program, history
  <2>1. TypeOK'
    BY DEF IInv, TypeOK
  <2>2. \A a : FunctionSymbol(a)' = FunctionSymbol(a)
    BY DEF FunctionSymbol, Symbol
  <2>3. Gathered' /\ OneSymbolPerFunction'
    BY <2>2 DEF IInv, Gathered, OneSymbolPerFunction
  <2>4. CountedIsThere' /\ NothingElseChanged'
    BY DEF IInv, Applying, CountedIsThere, NothingElseChanged, Covers
  <2>5. \A i : AsAsked(i) => AsAsked(i)'
    BY KeepAsAsked
  <2>6. AppliedAsAsked'
    BY <2>5 DEF IInv, Applying, AppliedAsAsked
  <2> QED
    BY <2>1, <2>3, <2>4, <2>6 DEF IInv
<1> QED
  BY <1>1, <1>2, <1>3, <1>4, <1>5, <1>6, <1>7, <1>8, <1>9, <1>10, <1>11, <1>12, <1>13 DEF Next

\* The inductive invariant holds in every reachable state.
THEOREM Inductive == Spec => []IInv
<1>1. Init => IInv
  BY Initially
<1>2. IInv /\ [Next]_vars => IInv'
  BY NextInv
<1> QED
  BY <1>1, <1>2, PTL DEF Spec

\* The variables keep their types, and the symbols to apply are in bounds.
THEOREM TypeCorrect == Spec => []TypeOK
<1>1. IInv => TypeOK
  BY DEF IInv
<1> QED
  BY <1>1, Inductive, PTL

\* extract_for_function names no function twice, whatever calls what.
THEOREM EachFunctionOnce == Spec => []OneSymbolPerFunction
<1>1. IInv => OneSymbolPerFunction
  BY DEF IInv
<1> QED
  BY <1>1, Inductive, PTL

\* What either server counts as applied is in the program, but for the functions
\* that the script counts and Ghidra would not make.
THEOREM CountsAreTrue == Spec => []CountedIsThere
<1>1. IInv => CountedIsThere
  BY DEF IInv
<1> QED
  BY <1>1, Inductive, PTL

\* A symbol that either server does not count has changed nothing.
THEOREM FailuresLeaveNothing == Spec => []NothingElseChanged
<1>1. IInv => NothingElseChanged
  BY DEF IInv
<1> QED
  BY <1>1, Inductive, PTL

\* The script leaves the program as all symbols of a request ask for, however
\* many there are and whatever functions call one another.
THEOREM NoneUndone == Spec => []NoneUndoesAnother
<1>1. IInv => NoneUndoesAnother
  <2> SUFFICES ASSUME IInv, script, phase = "done", ~refused, touched = {},
                      NEW i \in DOMAIN symbols
               PROVE  AsAsked(i)
    BY DEF NoneUndoesAnother
  <2>1. at = Len(symbols) + 1
    BY DEF IInv, Gathered
  <2>2. symbols \in Seq(RangeOf(symbols))
    BY DEF IInv, TypeOK
  <2>3. i \in 1..at - 1
    BY <2>1, <2>2
  <2> QED
    BY <2>3 DEF IInv, AppliedAsAsked, Applying
<1> QED
  BY <1>1, Inductive, PTL

\* To repeat apply_symbols to the script changes nothing.
LEMMA ScriptRepeat == IInv /\ script => RepeatChangesNothing
  BY DEF IInv, AppliedAsAsked, Applying, RepeatChangesNothing
=============================================================================
