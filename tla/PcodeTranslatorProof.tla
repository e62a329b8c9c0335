------------------------ MODULE PcodeTranslatorProof ------------------------
(***************************************************************************)
(* Proofs, for any names, arguments, literals, operators, words and bounds *)
(* that satisfy the assumptions of PcodeTranslator, that IInv is an        *)
(* invariant and that the p-code means what the effects say.               *)
(***************************************************************************)
EXTENDS PcodeTranslatorInv, SequenceTheorems, TLAPS

(***************************************************************************)
(* Varnodes.                                                               *)
(***************************************************************************)

\* Registers, variables and arguments are no temporaries (make_register,
\* make_arg).
LEMMA FixedFacts ==
    ASSUME NEW vn \in Fixed
    PROVE  /\ vn \in Varnodes /\ ~IsTemporary(vn) /\ vn # NoOutput /\ vn.reg_name # NoName
           /\ vn.space # "const" /\ vn.space # "none" /\ Home(vn) \in Homes /\ vn.size \in Nat
<1>1. vn \in Varnodes /\ Home(vn) \in Homes
  BY DEF Varnodes, Homes
<1>2. CASE vn \in {make_register(n, w) : n \in Names, w \in Widths}
  <2>1. PICK n \in Names, w \in Widths : vn = make_register(n, w)
    BY <1>2
  <2>2. vn.reg_name = n /\ vn.space \in {"register", "unique"} /\ vn.size = w
    BY <2>1 DEF make_register, Varnode
  <2> QED
    BY <1>1, <2>2, ConstantsAssumption DEF IsTemporary, NoOutput, Varnode
<1>3. CASE vn \in {make_arg(i, w) : i \in Args, w \in Widths}
  <2>1. PICK i \in Args, w \in Widths : vn = make_arg(i, w)
    BY <1>3
  <2>2. vn.reg_name = <<"arg", i>> /\ vn.space = "unique" /\ vn.size = w
    BY <2>1 DEF make_arg, Varnode
  <2> QED
    BY <1>1, <2>2, ConstantsAssumption DEF IsTemporary, NoOutput, Varnode
<1> QED
  BY <1>2, <1>3 DEF Fixed

\* A name and an argument have the same home at every size, and two of them
\* different ones.
LEMMA NameFacts ==
    ASSUME NEW n \in Names, NEW w \in Widths
    PROVE  /\ make_register(n, w) \in Fixed /\ make_register(n, w).reg_name = n
           /\ Home(make_register(n, w)) = Home(make_register(n, 1))
           /\ Home(make_register(n, w)) \in Homes /\ Home(make_register(n, w))[3] = n
<1>1. make_register(n, w) \in Fixed
  BY DEF Fixed
<1> QED
  BY <1>1, FixedFacts DEF make_register, Varnode, Home

LEMMA ArgFacts ==
    ASSUME NEW i \in Args, NEW w \in Widths
    PROVE  /\ make_arg(i, w) \in Fixed
           /\ Home(make_arg(i, w)) = Home(make_arg(i, 1))
           /\ Home(make_arg(i, w)) \in Homes /\ Home(make_arg(i, w))[3] = <<"arg", i>>
<1>1. make_arg(i, w) \in Fixed
  BY DEF Fixed
<1> QED
  BY <1>1, FixedFacts DEF make_arg, Varnode, Home

\* What _next_unique returns.
LEMMA UniqueFacts ==
    ASSUME NEW i \in 0..MaxOps, NEW w \in Widths
    PROVE  /\ unique(i, w) \in Varnodes /\ unique(i, w) \in Uniques /\ IsTemporary(unique(i, w))
           /\ unique(i, w) # NoOutput /\ unique(i, w).offset = i /\ unique(i, w).space = "unique"
           /\ unique(i, w).reg_name = NoName /\ unique(i, w).size = w
           /\ Home(unique(i, w)) \in Homes
  BY DEF Varnodes, Homes, Uniques, IsTemporary, unique, Varnode, NoOutput

LEMMA ConstFacts ==
    ASSUME NEW c \in Word
    PROVE  /\ make_const(c) \in Varnodes /\ ~IsTemporary(make_const(c))
           /\ make_const(c).space = "const" /\ make_const(c).offset = c
  BY DEF Varnodes, make_const, IsTemporary, Varnode

\* Only a temporary is one.
LEMMA TemporaryFacts ==
    ASSUME NEW vn \in Varnodes, IsTemporary(vn)
    PROVE  vn.offset \in 0..MaxOps /\ vn \in Uniques
<1>1. vn \in Uniques
  BY FixedFacts, ConstFacts DEF Varnodes
<1>2. PICK i \in 0..MaxOps, w \in Widths : vn = unique(i, w)
  BY <1>1 DEF Uniques
<1> QED
  BY <1>1, <1>2, UniqueFacts

\* A varnode is a constant or has a home.
LEMMA HomeFacts ==
    ASSUME NEW vn \in Varnodes, vn.space # "const"
    PROVE  vn \in Fixed \cup Uniques /\ Home(vn) \in Homes
  BY FixedFacts, UniqueFacts, ConstFacts DEF Varnodes, Uniques

(***************************************************************************)
(* Values.                                                                 *)
(***************************************************************************)

LEMMA ValueType ==
    ASSUME TypeOK, NEW vn \in Varnodes
    PROVE  Value(vn) \in Word
<1>1. CASE vn.space = "const"
  <2>1. vn \in {make_const(c) : c \in Word}
    BY <1>1, FixedFacts, UniqueFacts DEF Varnodes, Uniques
  <2> QED
    BY <1>1, <2>1, ConstFacts DEF Value
<1>2. CASE vn.space # "const"
  BY <1>2, HomeFacts DEF Value, TypeOK
<1> QED
  BY <1>1, <1>2

LEMMA ValuesType ==
    ASSUME TypeOK, NEW s \in Seq(Varnodes)
    PROVE  /\ Values(s) \in Seq(Word) /\ Len(Values(s)) = Len(s)
           /\ \A i \in 1..Len(s) : Values(s)[i] = Value(s[i])
<1>1. \A i \in 1..Len(s) : Value(s[i]) \in Word
  BY ValueType
<1>2. Len(s) \in Nat
  OBVIOUS
<1>3. Values(s) \in [1..Len(s) -> Word]
  BY <1>1 DEF Values
<1>4. Values(s) \in Seq(Word)
  BY <1>2, <1>3
<1> QED
  BY <1>2, <1>3, <1>4 DEF Values

\* An op that assigns the next temporary leaves what was last written to every
\* register, variable, argument, and earlier temporary.
LEMMA Undisturbed ==
    ASSUME TypeOK, NEW vn \in Varnodes, IsTemporary(vn) => vn.offset < uniq,
           NEW w \in Widths, NEW x, cells' = [cells EXCEPT ![Home(unique(uniq, w))] = x]
    PROVE  Value(vn)' = Value(vn)
<1>1. CASE vn.space = "const"
  BY <1>1 DEF Value
<1>2. CASE vn.space # "const"
  <2>1. uniq \in 0..MaxOps
    BY DEF TypeOK
  <2>2. vn \in Fixed \cup Uniques /\ Home(vn) \in Homes
    BY <1>2, HomeFacts
  <2>3. Home(unique(uniq, w)) = <<"unique", uniq, NoName>>
    BY <2>1, UniqueFacts DEF Home
  <2>4. Home(vn) # Home(unique(uniq, w))
    <3>1. SUFFICES ASSUME vn.space = "unique", vn.offset = uniq, vn.reg_name = NoName PROVE FALSE
      BY <2>3 DEF Home
    <3> QED
      BY <3>1, <2>1 DEF IsTemporary
  <2>5. cells'[Home(vn)] = cells[Home(vn)]
    BY <2>2, <2>4 DEF TypeOK
  <2> QED
    BY <1>2, <2>5 DEF Value
<1> QED
  BY <1>1, <1>2

(***************************************************************************)
(* The invariant.                                                          *)
(***************************************************************************)

LEMMA LeafKeeps ==
    ASSUME IInv, NEW vn \in Varnodes, ~IsTemporary(vn), NEW n, Leaf(n, vn)
    PROVE  IInv'
<1>1. stack' \in Seq(Varnodes) /\ Len(stack') = Len(stack) + 1
      /\ \A i \in 1..Len(stack') : stack'[i] = IF i <= Len(stack) THEN stack[i] ELSE vn
  BY DEF IInv, TypeOK, Leaf
<1>2. UNCHANGED <<phase, uniq, order, ops, all_ops, cells, held, lost, mem>> /\ phase = "path"
  BY DEF Leaf, counters, machine
<1>3. TypeOK'
  BY <1>1, <1>2 DEF IInv, TypeOK
<1>4. StackInv'
  <2>1. Len(stack') <= MaxDepth
    BY <1>1, ConstantsAssumption DEF Leaf, IInv, TypeOK
  <2>2. ASSUME NEW i \in DOMAIN stack', IsTemporary(stack'[i])
        PROVE  stack'[i].offset < uniq /\ \E j \in DOMAIN ops : ops[j].output = stack'[i]
    <3>1. i \in DOMAIN stack /\ stack'[i] = stack[i]
      BY <1>1, <2>2 DEF IInv, TypeOK
    <3> QED
      BY <3>1, <2>2 DEF IInv, StackInv
  <2> QED
    BY <1>2, <2>1, <2>2 DEF StackInv, IsTemporary
<1> QED
  BY <1>2, <1>3, <1>4 DEF IInv, CodeInv, AssignedOnce, AssignsOnce, DefinedBeforeUse, IsTemporary

\* Emitting an op whose temporaries have been assigned, and whose output is the
\* next temporary or none.
LEMMA EmitKeeps ==
    ASSUME IInv, NEW opcode \in Opcodes, NEW output \in Fixed \cup Uniques \cup {NoOutput},
           NEW inputs \in Seq(Varnodes), Emit(opcode, output, inputs),
           \/ (\E w \in Widths : output = unique(uniq, w)) /\ uniq' = uniq + 1
           \/ ~IsTemporary(output) /\ uniq' = uniq,
           \A k \in DOMAIN inputs : IsTemporary(inputs[k]) =>
               \E j \in DOMAIN ops : ops[j].output = inputs[k],
           output # NoOutput => Computes(opcode, Values(inputs)) \in Word,
           opcode = "STORE" => Values(inputs)[2] \in Word /\ Values(inputs)[3] \in Word,
           stack' \in Seq(Varnodes), Len(stack') <= MaxDepth,
           \A i \in DOMAIN stack' : IsTemporary(stack'[i]) =>
               /\ stack'[i].offset < uniq'
               /\ \E j \in DOMAIN ops' : ops'[j].output = stack'[i]
    PROVE  IInv'
<1> DEFINE op == [opcode |-> opcode, output |-> output, inputs |-> inputs, order |-> order + 1]
<1>1. /\ phase = "path" /\ phase' = "path" /\ all_ops' = all_ops
      /\ order' = order + 1 /\ ops' = Append(ops, op)
      /\ Len(all_ops) + Len(ops) < MaxOps
  BY DEF Emit
<1>2. /\ uniq \in 0..MaxOps /\ order = Len(ops) /\ uniq <= Len(ops) /\ ops \in Seq(Ops)
      /\ all_ops \in Seq(Ops) /\ Len(ops) \in Nat /\ Len(all_ops) \in Nat
  BY <1>1 DEF IInv, TypeOK, CodeInv
<1>3. op \in Ops
  BY <1>2 DEF Ops
<1>4. /\ ops' \in Seq(Ops) /\ Len(ops') = Len(ops) + 1 /\ ops'[Len(ops) + 1] = op
      /\ \A j \in 1..Len(ops) : ops'[j] = ops[j]
      /\ DOMAIN ops' = 1..Len(ops) + 1 /\ DOMAIN ops = 1..Len(ops)
  BY <1>1, <1>2, <1>3
<1>5. uniq' \in 0..MaxOps /\ uniq <= uniq' /\ uniq' <= Len(ops) + 1
  BY <1>1, <1>2, ConstantsAssumption
<1>6. IsTemporary(output) => output.offset = uniq /\ uniq < uniq'
  BY <1>2, UniqueFacts
<1>7. cells' \in [Homes -> Word] /\ held' \in [Homes -> Nat] /\ lost' \in BOOLEAN
  <2>0. cells \in [Homes -> Word] /\ held \in [Homes -> Nat] /\ lost \in BOOLEAN
    BY DEF IInv, TypeOK
  <2>1. CASE UNCHANGED <<cells, held>>
    BY <2>0, <2>1 DEF Emit
  <2>2. CASE output # NoOutput /\ Write(output, Computes(opcode, Values(inputs))) /\ UNCHANGED lost
    <3>1. Home(output) \in Homes /\ output.size \in Nat
      <4>1. CASE output \in Fixed
        BY <4>1, FixedFacts
      <4>2. CASE output \in Uniques
        <5>1. PICK i \in 0..MaxOps, w \in Widths : output = unique(i, w)
          BY <4>2 DEF Uniques
        <5>2. w \in Nat
          BY ConstantsAssumption
        <5> QED
          BY <5>1, <5>2, UniqueFacts
      <4> QED
        BY <2>2, <4>1, <4>2
    <3> QED
      BY <2>0, <2>2, <3>1 DEF Write
  <2> QED
    BY <2>1, <2>2 DEF Emit, Execute
<1>8. mem' \in [Word -> Word]
  <2>1. mem \in [Word -> Word]
    BY DEF IInv, TypeOK
  <2> QED
    BY <2>1 DEF Emit, Execute
<1>9. TypeOK'
  BY <1>1, <1>2, <1>4, <1>5, <1>7, <1>8, ConstantsAssumption DEF TypeOK, IInv
<1>10. StackInv'
  BY <1>1 DEF StackInv, IsTemporary
<1>11. CodeInv'
  <2>1. ASSUME NEW j \in DOMAIN ops'
        PROVE  /\ IsTemporary(ops'[j].output) => ops'[j].output.offset < uniq'
               /\ ops'[j].order = j
    <3>1. CASE j = Len(ops) + 1
      BY <3>1, <1>2, <1>4, <1>6
    <3>2. CASE j \in 1..Len(ops)
      <4>1. ops'[j] = ops[j] /\ ops[j].order = j
        BY <3>2, <1>4 DEF IInv, CodeInv
      <4>2. ASSUME IsTemporary(ops[j].output)
            PROVE  ops[j].output.offset < uniq'
        <5>1. ops[j].output.offset < uniq
          BY <4>2, <3>2, <1>4 DEF IInv, CodeInv
        <5>2. ops[j].output \in Varnodes
          <6>1. ops[j].output \in Fixed \cup Uniques \cup {NoOutput}
            <7>1. ops[j] \in Ops
              BY <3>2, <1>2
            <7> QED
              BY <7>1 DEF Ops
          <6>2. ~IsTemporary(NoOutput)
            BY DEF IsTemporary, NoOutput, Varnode
          <6> QED
            BY <6>1, <6>2, <4>2 DEF Varnodes
        <5>3. ops[j].output.offset \in Int
          BY <5>2, <4>2, TemporaryFacts
        <5> QED
          BY <5>1, <5>3, <1>2, <1>5
      <4> QED
        BY <4>1, <4>2
    <3> QED
      BY <3>1, <3>2, <1>4, <1>2
  <2> QED
    <3>1. Len(all_ops') + Len(ops') <= MaxOps
      BY <1>1, <1>2, <1>4, ConstantsAssumption
    <3>2. uniq' <= Len(ops') /\ order' = Len(ops')
      BY <1>1, <1>2, <1>4, <1>5
    <3> QED
      BY <2>1, <3>1, <3>2 DEF CodeInv, IsTemporary
<1>12. AssignedOnce'
  <2>1. ASSUME NEW i \in DOMAIN ops', NEW j \in DOMAIN ops', i < j, IsTemporary(ops'[i].output)
        PROVE  Home(ops'[i].output) # Home(ops'[j].output)
    <3>1. i \in 1..Len(ops) /\ ops'[i] = ops[i]
      BY <2>1, <1>2, <1>4
    <3>2. CASE j = Len(ops) + 1
      <4>1. ops[i].output.offset < uniq
        BY <3>1, <2>1, <1>4 DEF IInv, CodeInv
      <4>2. SUFFICES ASSUME ops[i].output.space = output.space, ops[i].output.offset = output.offset,
                            ops[i].output.reg_name = output.reg_name
                     PROVE  FALSE
        BY <3>1, <3>2, <1>4 DEF Home
      <4>3. IsTemporary(output)
        BY <4>2, <2>1, <3>1 DEF IsTemporary
      <4>4. output.offset = uniq
        BY <4>3, <1>6
      <4>5. uniq \in Int
        BY <1>2
      <4>6. uniq < uniq
        BY <4>1, <4>2, <4>4
      <4> QED
        BY <4>6, <4>5
    <3>3. CASE j \in 1..Len(ops)
      BY <3>1, <3>3, <2>1, <1>4 DEF IInv, AssignedOnce, AssignsOnce
    <3>4. j = Len(ops) + 1 \/ j \in 1..Len(ops)
      BY <1>2, <1>4
    <3> QED
      BY <3>2, <3>3, <3>4
  <2> QED
    BY <2>1 DEF AssignedOnce, AssignsOnce, IsTemporary, Home
<1>13. DefinedBeforeUse'
  <2>1. ASSUME NEW i \in DOMAIN ops', NEW k \in DOMAIN ops'[i].inputs,
               IsTemporary(ops'[i].inputs[k])
        PROVE  \E j \in 1..i - 1 : ops'[j].output = ops'[i].inputs[k]
    <3>1. CASE i = Len(ops) + 1
      <4>1. ops'[i].inputs = inputs
        BY <3>1, <1>4
      <4>2. PICK j \in DOMAIN ops : ops[j].output = inputs[k]
        BY <4>1, <2>1
      <4> QED
        BY <4>1, <4>2, <3>1, <1>4, <1>2
    <3>2. CASE i \in 1..Len(ops)
      <4>1. ops'[i] = ops[i]
        BY <3>2, <1>4
      <4>2. PICK j \in 1..i - 1 : ops[j].output = ops[i].inputs[k]
        BY <4>1, <2>1, <3>2, <1>4 DEF IInv, DefinedBeforeUse
      <4>3. j \in 1..Len(ops)
        BY <3>2, <1>2
      <4>4. ops'[j] = ops[j]
        BY <4>3, <1>4
      <4>5. ops'[j].output = ops'[i].inputs[k]
        BY <4>1, <4>2, <4>4, Zenon
      <4> QED
        BY <4>2, <4>5, Zenon
    <3>3. i = Len(ops) + 1 \/ i \in 1..Len(ops)
      <4>1. DOMAIN ops' = 1..Len(ops) + 1 /\ Len(ops) \in Nat
        BY <1>2, <1>4, Zenon
      <4>2. i \in 1..Len(ops) + 1
        BY <4>1, Zenon
      <4> HIDE DEF op
      <4> QED
        BY <4>1, <4>2
    <3> QED
      BY <3>1, <3>2, <3>3, Zenon
  <2> QED
    BY <2>1 DEF DefinedBeforeUse, IsTemporary
<1> QED
  BY <1>9, <1>10, <1>11, <1>12, <1>13 DEF IInv

\* A node takes its operands off the stack and leaves the next temporary; its
\* inputs are constants and operands.
LEMMA NodeKeeps ==
    ASSUME IInv, NEW opcode \in Opcodes, opcode # "STORE", NEW inputs \in Seq(Varnodes),
           NEW n, NEW k \in Nat \ {0}, NEW w \in Widths, Node(n, k, w, opcode, inputs),
           \A m \in DOMAIN inputs : IsTemporary(inputs[m]) =>
               \E i \in DOMAIN stack : inputs[m] = stack[i],
           Computes(opcode, Values(inputs)) \in Word
    PROVE  IInv'
<1>1. /\ uniq \in 0..MaxOps /\ stack \in Seq(Varnodes) /\ ops \in Seq(Ops)
      /\ Len(stack) <= MaxDepth /\ Len(stack) \in Nat /\ k <= Len(stack)
  BY DEF IInv, TypeOK, StackInv, Node, Results
<1>2. /\ unique(uniq, w) \in Varnodes /\ unique(uniq, w) \in Uniques /\ IsTemporary(unique(uniq, w))
      /\ unique(uniq, w).offset = uniq /\ unique(uniq, w) # NoOutput
  BY <1>1, UniqueFacts
<1>3. Emit(opcode, unique(uniq, w), inputs) /\ uniq' = uniq + 1
  BY DEF Node
<1>4. /\ ops' = Append(ops, [opcode |-> opcode, output |-> unique(uniq, w), inputs |-> inputs,
                             order |-> order + 1])
  BY <1>3 DEF Emit
<1>5. /\ DOMAIN ops' = 1..Len(ops) + 1 /\ Len(ops) \in Nat /\ DOMAIN ops = 1..Len(ops)
      /\ ops'[Len(ops) + 1].output = unique(uniq, w)
      /\ \A j \in 1..Len(ops) : ops'[j] = ops[j]
  BY <1>1, <1>4
<1>6. /\ stack' \in Seq(Varnodes) /\ Len(stack') = Len(stack) - k + 1
      /\ stack'[Len(stack) - k + 1] = unique(uniq, w)
      /\ \A i \in 1..Len(stack) - k : stack'[i] = stack[i]
  <2> DEFINE rest == SubSeq(stack, 1, Len(stack) - k)
  <2>1. rest \in Seq(Varnodes) /\ Len(rest) = Len(stack) - k
        /\ \A i \in 1..Len(stack) - k : rest[i] = stack[i]
    BY <1>1
  <2>2. stack' = Append(rest, unique(uniq, w))
    BY DEF Node, Results
  <2> HIDE DEF rest
  <2>3. unique(uniq, w) \in Varnodes /\ Len(stack) - k \in Nat
    BY <1>1, <1>2
  <2>4. /\ stack' \in Seq(Varnodes) /\ Len(stack') = Len(rest) + 1
        /\ \A i \in 1..Len(rest) : stack'[i] = rest[i]
        /\ stack'[Len(rest) + 1] = unique(uniq, w)
    <3> DEFINE vn == unique(uniq, w)
    <3>1. rest \in Seq(Varnodes) /\ vn \in Varnodes /\ stack' = Append(rest, vn)
      BY <2>1, <2>2, <2>3
    <3> HIDE DEF vn
    <3>2. /\ Append(rest, vn) \in Seq(Varnodes) /\ Len(Append(rest, vn)) = Len(rest) + 1
          /\ \A i \in 1..Len(rest) : Append(rest, vn)[i] = rest[i]
          /\ Append(rest, vn)[Len(rest) + 1] = vn
      BY <3>1, AppendProperties
    <3>3. /\ stack' \in Seq(Varnodes) /\ Len(stack') = Len(rest) + 1
          /\ \A i \in 1..Len(rest) : stack'[i] = rest[i]
          /\ stack'[Len(rest) + 1] = vn
      BY <3>1, <3>2
    <3> QED
      BY <3>3 DEF vn
  <2> QED
    BY <2>1, <2>3, <2>4, Zenon
<1>7. Len(stack') <= MaxDepth
  BY <1>1, <1>6, ConstantsAssumption
<1>8. ASSUME NEW i \in DOMAIN stack', IsTemporary(stack'[i])
      PROVE  /\ stack'[i].offset < uniq'
             /\ \E j \in DOMAIN ops' : ops'[j].output = stack'[i]
  <2>1. i = Len(stack) - k + 1 \/ i \in 1..Len(stack) - k
    BY <1>1, <1>6
  <2>2. CASE i = Len(stack) - k + 1
    BY <2>2, <1>1, <1>2, <1>3, <1>5, <1>6
  <2>3. CASE i \in 1..Len(stack) - k
    <3>1. stack'[i] = stack[i] /\ i \in DOMAIN stack
      BY <2>3, <1>1, <1>6
    <3>2. stack[i].offset < uniq /\ \E j \in DOMAIN ops : ops[j].output = stack[i]
      BY <3>1, <1>8 DEF IInv, StackInv
    <3>3. stack[i] \in Varnodes /\ stack[i].offset \in Int
      BY <3>1, <1>1, <1>8, TemporaryFacts
    <3> QED
      BY <3>1, <3>2, <3>3, <1>1, <1>3, <1>5
  <2> QED
    BY <2>1, <2>2, <2>3
<1>9. \A m \in DOMAIN inputs : IsTemporary(inputs[m]) =>
        \E j \in DOMAIN ops : ops[j].output = inputs[m]
  BY DEF IInv, StackInv
<1> QED
  BY <1>2, <1>3, <1>6, <1>7, <1>8, <1>9, EmitKeeps

\* The last values on the stack are words.
LEMMA Operand ==
    ASSUME TypeOK, NEW k \in Nat \ {0}, k <= Len(stack)
    PROVE  /\ Operands(k) \in Seq(Varnodes) /\ Len(Operands(k)) = k
           /\ \A m \in 1..k : Operands(k)[m] = stack[Len(stack) - k + m]
           /\ Values(Operands(k)) \in Seq(Word) /\ Len(Values(Operands(k))) = k
<1>1. stack \in Seq(Varnodes) /\ Len(stack) \in Nat
  BY DEF TypeOK
<1>2. /\ Operands(k) \in Seq(Varnodes) /\ Len(Operands(k)) = k
      /\ \A m \in 1..k : Operands(k)[m] = stack[Len(stack) - k + m]
  BY <1>1 DEF Operands
<1> QED
  BY <1>2, ValuesType

\* What the opcodes of Computes compute.
LEMMA ComputesFacts ==
    ASSUME NEW v
    PROVE  /\ Computes("COPY", v) = v[1] /\ Computes("INT_SEXT", v) = v[1]
           /\ Computes("LOAD", v) = mem[v[2]]
           /\ Computes("CALL", v) = Result(v[1], Tail(v))
           /\ Computes("BOOL_NEGATE", v) = Truth(v[1] = 0)
           /\ Computes("INT_EQUAL", v) = Truth(v[1] = v[2])
           /\ Computes("INT_NOTEQUAL", v) = Truth(v[1] # v[2])
           /\ Computes("INT_SLESS", v) = Truth(v[1] < v[2])
           /\ Computes("INT_SLESSEQUAL", v) = Truth(v[1] <= v[2])
           /\ \A o \in Operators : Computes(OPERATOR_MAP[o], v) = Alu(OPERATOR_MAP[o], v[1], v[2])
<1>1. ASSUME NEW o \in Operators
      PROVE  Computes(OPERATOR_MAP[o], v) = Alu(OPERATOR_MAP[o], v[1], v[2])
  <2>1. OPERATOR_MAP[o] \in {"INT_ADD", "INT_SUB", "INT_MULT", "INT_DIV", "INT_AND", "INT_OR",
                             "INT_XOR", "INT_REM", "INT_LEFT", "INT_RIGHT"}
    BY ConstantsAssumption DEF OPERATOR_MAP
  <2> QED
    BY <2>1 DEF Computes
<1> QED
  BY <1>1 DEF Computes

\* The result of a call is a word.
LEMMA ResultType ==
    ASSUME NEW v \in Seq(Word), Len(v) \in 1..MaxDepth
    PROVE  Result(v[1], Tail(v)) \in Word
<1>1. v[1] \in Word
  OBVIOUS
<1>2. Tail(v) \in Seq(Word) /\ Len(Tail(v)) = Len(v) - 1
  OBVIOUS
<1>3. Len(v) - 1 \in 0..MaxDepth
  BY ConstantsAssumption
<1>4. Tail(v) \in [1..Len(v) - 1 -> Word]
  <2> DEFINE t == Tail(v)
  <2>1. t \in [1..Len(t) -> Word] /\ Len(t) = Len(v) - 1
    <3>1. t \in Seq(Word) /\ Len(t) = Len(v) - 1
      BY <1>2
    <3> HIDE DEF t
    <3> QED
      BY <3>1
  <2> QED
    BY <2>1
<1> QED
  BY <1>1, <1>3, <1>4, ConstantsAssumption

LEMMA TruthType == ASSUME NEW b \in BOOLEAN PROVE Truth(b) \in Word
  BY ConstantsAssumption DEF Truth

\* The operand of a node with one, and those of a node with two.
LEMMA UnaryFacts ==
    ASSUME IInv, Len(stack) >= 1
    PROVE  /\ Second \in Varnodes /\ Value(Second) \in Word
           /\ \E i \in DOMAIN stack : Second = stack[i]
<1>1. stack \in Seq(Varnodes) /\ Len(stack) \in 1..Len(stack)
  BY DEF IInv, TypeOK
<1> QED
  BY <1>1, ValueType DEF Second, IInv

LEMMA BinaryFacts ==
    ASSUME IInv, Len(stack) >= 2
    PROVE  /\ First \in Varnodes /\ Second \in Varnodes
           /\ Value(First) \in Word /\ Value(Second) \in Word
           /\ \E i \in DOMAIN stack : First = stack[i]
           /\ \E i \in DOMAIN stack : Second = stack[i]
<1>1. stack \in Seq(Varnodes) /\ Len(stack) - 1 \in 1..Len(stack)
  BY DEF IInv, TypeOK
<1> QED
  BY <1>1, UnaryFacts, ValueType DEF First, IInv

\* The values of one varnode, of two, of three.
LEMMA ValuesOf ==
    ASSUME NEW a, NEW b, NEW c
    PROVE  /\ Values(<<a>>)[1] = Value(a)
           /\ Values(<<a, b>>)[1] = Value(a) /\ Values(<<a, b>>)[2] = Value(b)
           /\ Values(<<a, b, c>>)[2] = Value(b) /\ Values(<<a, b, c>>)[3] = Value(c)
  BY DEF Values

LEMMA PairValues ==
    ASSUME NEW a, NEW b PROVE Values(<<a, b>>) = <<Value(a), Value(b)>>
  BY DEF Values

LEMMA MemKeeps == ASSUME IInv, Mem PROVE IInv'
<1>1. PICK w \in Widths : Len(stack) >= 1 /\ Node(<<"Mem">>, 1, w, "LOAD", <<make_const(0), Second>>)
  BY DEF Mem, Node, Results
<1>2. make_const(0) \in Varnodes /\ ~IsTemporary(make_const(0))
  BY ConstFacts, ConstantsAssumption
<1>3. <<make_const(0), Second>> \in Seq(Varnodes)
  BY <1>1, <1>2, UnaryFacts
<1>4. Computes("LOAD", Values(<<make_const(0), Second>>)) \in Word
  <2>1. Values(<<make_const(0), Second>>)[2] = Value(Second)
    BY ValuesOf
  <2>2. mem[Value(Second)] \in Word
    BY <1>1, UnaryFacts DEF IInv, TypeOK
  <2> QED
    BY <2>1, <2>2, ComputesFacts
<1>5. "LOAD" \in Opcodes
  BY DEF Opcodes
<1>6. \A m \in DOMAIN <<make_const(0), Second>> :
        IsTemporary(<<make_const(0), Second>>[m]) =>
            \E i \in DOMAIN stack : <<make_const(0), Second>>[m] = stack[i]
  BY <1>1, <1>2, UnaryFacts
<1> DEFINE inputs == <<make_const(0), Second>>
<1>7. 1 \in Nat \ {0} /\ inputs = <<make_const(0), Second>>
  OBVIOUS
<1> HIDE DEF inputs
<1> QED
  BY <1>1, <1>3, <1>4, <1>5, <1>6, <1>7, NodeKeeps

LEMMA UnaryKeeps ==
    ASSUME IInv, NEW n, NEW w \in Widths,
           NEW opcode \in {"INT_SEXT", "BOOL_NEGATE"}, Node(n, 1, w, opcode, <<Second>>)
    PROVE  IInv'
<1>1. Len(stack) >= 1
  BY DEF Node, Results
<1>2. <<Second>> \in Seq(Varnodes)
  BY <1>1, UnaryFacts
<1>3. Computes(opcode, Values(<<Second>>)) \in Word
  <2>1. Values(<<Second>>)[1] = Value(Second) /\ Value(Second) \in Word
    BY <1>1, UnaryFacts, ValuesOf
  <2>2. Truth(Value(Second) = 0) \in Word
    BY TruthType
  <2> QED
    BY <2>1, <2>2, ComputesFacts
<1>4. opcode \in Opcodes /\ opcode # "STORE"
  BY DEF Opcodes
<1>5. \A m \in DOMAIN <<Second>> :
        IsTemporary(<<Second>>[m]) => \E i \in DOMAIN stack : <<Second>>[m] = stack[i]
  BY <1>1, UnaryFacts
<1> DEFINE inputs == <<Second>>
<1>7. 1 \in Nat \ {0} /\ inputs = <<Second>>
  OBVIOUS
<1> HIDE DEF inputs
<1> QED
  BY <1>2, <1>3, <1>4, <1>5, <1>7, NodeKeeps

LEMMA BinaryKeeps ==
    ASSUME IInv, NEW n, NEW w \in Widths, NEW opcode \in Opcodes, opcode # "STORE",
           NEW a \in {First, Second}, NEW b \in {First, Second},
           Node(n, 2, w, opcode, <<a, b>>),
           \A x, y \in Word : \A v : v[1] = x /\ v[2] = y => Computes(opcode, v) \in Word
    PROVE  IInv'
<1>1. Len(stack) >= 2
  BY DEF Node, Results
<1>2. <<a, b>> \in Seq(Varnodes)
  BY <1>1, BinaryFacts
<1>3. Computes(opcode, Values(<<a, b>>)) \in Word
  <2>1. /\ Values(<<a, b>>)[1] = Value(a) /\ Value(a) \in Word
        /\ Values(<<a, b>>)[2] = Value(b) /\ Value(b) \in Word
    <3>1. Value(a) \in Word /\ Value(b) \in Word
      BY <1>1, BinaryFacts, Zenon
    <3>2. Values(<<a, b>>) = <<Value(a), Value(b)>>
      BY PairValues, Zenon
    <3> QED
      BY <3>1, <3>2
  <2>2. \A v : v[1] = Value(a) /\ v[2] = Value(b) => Computes(opcode, v) \in Word
    BY <2>1, Zenon
  <2> QED
    BY <2>1, <2>2, Zenon
<1>5. \A m \in DOMAIN <<a, b>> :
        IsTemporary(<<a, b>>[m]) => \E i \in DOMAIN stack : <<a, b>>[m] = stack[i]
  BY <1>1, BinaryFacts
<1> DEFINE inputs == <<a, b>>
<1>7. 2 \in Nat \ {0} /\ inputs = <<a, b>>
  OBVIOUS
<1> HIDE DEF inputs
<1> QED
  BY <1>2, <1>3, <1>5, <1>7, NodeKeeps

LEMMA OperatorKeeps == ASSUME IInv, translate_operator PROVE IInv'
<1>1. PICK o \in Operators, w \in Widths : Node(<<"Operator", o>>, 2, w, OPERATOR_MAP[o], <<First, Second>>)
  BY DEF translate_operator
<1>2. OPERATOR_MAP[o] \in Opcodes /\ OPERATOR_MAP[o] # "STORE"
  BY ConstantsAssumption DEF OPERATOR_MAP, Opcodes
<1>3. \A x, y \in Word : \A v : v[1] = x /\ v[2] = y => Computes(OPERATOR_MAP[o], v) \in Word
  BY ComputesFacts, ConstantsAssumption
<1> QED
  BY <1>1, <1>2, <1>3, BinaryKeeps

LEMMA ConstraintKeeps == ASSUME IInv, translate_constraint PROVE IInv'
<1>1. PICK c \in DOMAIN CONSTRAINT_MAP :
        Node(<<"Constraint", c>>, 2, 1, CONSTRAINT_MAP[c],
             IF c \in {"GT", "GE"} THEN <<Second, First>> ELSE <<First, Second>>)
  BY DEF translate_constraint
<1>2. /\ CONSTRAINT_MAP[c] \in {"INT_EQUAL", "INT_NOTEQUAL", "INT_SLESS", "INT_SLESSEQUAL"}
      /\ CONSTRAINT_MAP[c] \in Opcodes
  BY DEF CONSTRAINT_MAP, Opcodes
<1>3. \A x, y \in Word : \A v : v[1] = x /\ v[2] = y => Computes(CONSTRAINT_MAP[c], v) \in Word
  <2>1. SUFFICES ASSUME NEW v PROVE Computes(CONSTRAINT_MAP[c], v) \in Word
    OBVIOUS
  <2>2. /\ Truth(v[1] = v[2]) \in Word /\ Truth(v[1] # v[2]) \in Word
        /\ Truth(v[1] < v[2]) \in Word /\ Truth(v[1] <= v[2]) \in Word
    BY ConstantsAssumption DEF Truth
  <2> QED
    BY <1>2, <2>2, ComputesFacts
<1>4. CASE c \in {"GT", "GE"}
  BY <1>1, <1>2, <1>3, <1>4, BinaryKeeps, ConstantsAssumption
<1>5. CASE c \notin {"GT", "GE"}
  BY <1>1, <1>2, <1>3, <1>5, BinaryKeeps, ConstantsAssumption
<1> QED
  BY <1>4, <1>5

\* What is on the stack.
LEMMA StackFacts ==
    ASSUME IInv
    PROVE  /\ stack \in Seq(Varnodes) /\ Len(stack) \in 0..MaxDepth
           /\ DOMAIN stack = 1..Len(stack) /\ \A i \in 1..Len(stack) : stack[i] \in Varnodes
<1>1. stack \in Seq(Varnodes) /\ Len(stack) <= MaxDepth
  BY DEF IInv, TypeOK, StackInv
<1>2. Len(stack) \in 0..MaxDepth
  BY <1>1, ConstantsAssumption
<1> QED
  BY <1>1, <1>2

LEMMA CallKeeps == ASSUME IInv, Call PROVE IInv'
<1>1. PICK k \in 1..Len(stack), w \in Widths : Node(<<"Call", k, FALSE>>, k, w, "CALL", Operands(k))
  BY DEF Call
<1>2. stack \in Seq(Varnodes) /\ Len(stack) \in 0..MaxDepth
  BY ConstantsAssumption DEF IInv, TypeOK, StackInv
<1>3. k \in Nat \ {0} /\ k <= Len(stack)
  BY <1>2
<1>4. /\ Operands(k) \in Seq(Varnodes) /\ Len(Operands(k)) = k
      /\ \A m \in 1..k : Operands(k)[m] = stack[Len(stack) - k + m]
      /\ Values(Operands(k)) \in Seq(Word) /\ Len(Values(Operands(k))) = k
  BY <1>3, Operand DEF IInv
<1>5. \A m \in DOMAIN Operands(k) : IsTemporary(Operands(k)[m]) =>
        \E i \in DOMAIN stack : Operands(k)[m] = stack[i]
  <2>1. ASSUME NEW m \in 1..k PROVE \E i \in DOMAIN stack : Operands(k)[m] = stack[i]
    <3>1. Len(stack) - k + m \in DOMAIN stack
      BY <1>2, <1>3
    <3> QED
      BY <3>1, <1>4
  <2> QED
    BY <2>1, <1>4
<1>6. Computes("CALL", Values(Operands(k))) \in Word
  <2> DEFINE v == Values(Operands(k))
  <2>1. v \in Seq(Word) /\ Len(v) \in 1..MaxDepth
    BY <1>2, <1>3, <1>4, ConstantsAssumption
  <2> HIDE DEF v
  <2>2. Computes("CALL", v) \in Word
    BY <2>1, ResultType, ComputesFacts
  <2> QED
    BY <2>2 DEF v
<1>7. "CALL" \in Opcodes /\ "CALL" # "STORE"
  BY DEF Opcodes
<1> QED
  BY <1>1, <1>3, <1>4, <1>5, <1>6, <1>7, NodeKeeps

LEMMA CallVoidKeeps == ASSUME IInv, CallVoid PROVE IInv'
<1>1. PICK k \in 1..Len(stack) :
        /\ Results(<<"Call", k, TRUE>>, k, make_const(0)) /\ UNCHANGED uniq
        /\ Emit("CALL", NoOutput, Operands(k))
  BY DEF CallVoid
<1>2. /\ stack \in Seq(Varnodes) /\ Len(stack) \in 0..MaxDepth /\ MaxDepth \in Nat
      /\ k \in Nat \ {0} /\ k <= Len(stack) /\ ops \in Seq(Ops)
  BY ConstantsAssumption DEF IInv, TypeOK, StackInv
<1>3. /\ Operands(k) \in Seq(Varnodes) /\ Len(Operands(k)) = k
      /\ \A m \in 1..k : Operands(k)[m] = stack[Len(stack) - k + m]
  BY <1>2, Operand DEF IInv
<1>4. \A m \in DOMAIN Operands(k) : IsTemporary(Operands(k)[m]) =>
        \E j \in DOMAIN ops : ops[j].output = Operands(k)[m]
  <2>1. ASSUME NEW m \in 1..k, IsTemporary(Operands(k)[m])
        PROVE  \E j \in DOMAIN ops : ops[j].output = Operands(k)[m]
    <3>1. Len(stack) - k + m \in DOMAIN stack
      BY <1>2
    <3> QED
      BY <3>1, <1>3, <2>1 DEF IInv, StackInv
  <2> QED
    BY <2>1, <1>3
<1>5. "CALL" \in Opcodes /\ "CALL" # "STORE" /\ ~IsTemporary(NoOutput)
  BY DEF Opcodes, IsTemporary, NoOutput, Varnode
<1> DEFINE rest == SubSeq(stack, 1, Len(stack) - k)
<1>6. /\ rest \in Seq(Varnodes) /\ Len(rest) = Len(stack) - k
      /\ \A i \in 1..Len(rest) : rest[i] = stack[i]
  BY <1>2
<1>7. stack' = Append(rest, make_const(0))
  BY <1>1 DEF Results
<1>8. make_const(0) \in Varnodes /\ ~IsTemporary(make_const(0))
  BY ConstFacts, ConstantsAssumption
<1> HIDE DEF rest
<1>9. stack' \in Seq(Varnodes) /\ Len(stack') <= MaxDepth
  BY <1>2, <1>6, <1>7, <1>8
<1>10. ASSUME NEW i \in DOMAIN stack', IsTemporary(stack'[i])
       PROVE  /\ stack'[i].offset < uniq'
              /\ \E j \in DOMAIN ops' : ops'[j].output = stack'[i]
  <2>1. i \in 1..Len(rest) \/ i = Len(rest) + 1
    BY <1>2, <1>6, <1>7, <1>8
  <2>2. i # Len(rest) + 1
    BY <1>6, <1>7, <1>8, <1>10
  <2>3. stack'[i] = stack[i] /\ i \in DOMAIN stack
    BY <2>1, <2>2, <1>2, <1>6, <1>7, <1>8
  <2>4. stack[i].offset < uniq /\ \E j \in DOMAIN ops : ops[j].output = stack[i]
    BY <2>3, <1>10 DEF IInv, StackInv
  <2>5. \A j \in DOMAIN ops : ops'[j] = ops[j] /\ j \in DOMAIN ops'
    BY <1>1, <1>2 DEF Emit
  <2> QED
    BY <2>3, <2>4, <2>5, <1>1
<1> QED
  BY <1>1, <1>3, <1>4, <1>5, <1>9, <1>10, EmitKeeps

\* An effect consumes the whole stack.
LEMMA EffectKeeps ==
    ASSUME IInv, NEW opcode \in Opcodes, NEW output \in Fixed \cup Uniques \cup {NoOutput},
           NEW inputs \in Seq(Varnodes), Emit(opcode, output, inputs),
           \/ (\E w \in Widths : output = unique(uniq, w)) /\ uniq' = uniq + 1
           \/ ~IsTemporary(output) /\ uniq' = uniq,
           \A k \in DOMAIN inputs : IsTemporary(inputs[k]) =>
               \E i \in DOMAIN stack : inputs[k] = stack[i],
           output # NoOutput => Computes(opcode, Values(inputs)) \in Word,
           opcode = "STORE" => Values(inputs)[2] \in Word /\ Values(inputs)[3] \in Word,
           stack' = <<>>
    PROVE  IInv'
<1>1. stack' \in Seq(Varnodes) /\ Len(stack') <= MaxDepth /\ DOMAIN stack' = {}
  BY ConstantsAssumption
<1>2. \A k \in DOMAIN inputs : IsTemporary(inputs[k]) =>
        \E j \in DOMAIN ops : ops[j].output = inputs[k]
  BY DEF IInv, StackInv
<1> QED
  BY <1>1, <1>2, EmitKeeps

LEMMA SetVariableKeeps == ASSUME IInv, translate_set_variable PROVE IInv'
<1>1. PICK n \in Names, w \in Widths :
        /\ Len(stack) = 1 /\ stack' = <<>> /\ UNCHANGED uniq
        /\ IF stack[1] = make_register(n, w)
           THEN phase = "path" /\ UNCHANGED <<phase, order, ops, all_ops, machine>>
           ELSE Emit("COPY", make_register(n, w), stack)
  BY DEF translate_set_variable
<1>2. stack \in Seq(Varnodes) /\ stack[1] \in Varnodes
  BY <1>1, StackFacts
<1>3. CASE stack[1] = make_register(n, w)
  <2>1. UNCHANGED <<phase, uniq, order, ops, all_ops, cells, held, lost, mem>> /\ phase = "path"
    BY <1>1, <1>3 DEF machine
  <2>2. stack' = <<>> /\ stack' \in Seq(Varnodes) /\ Len(stack') <= MaxDepth
    BY <1>1, ConstantsAssumption
  <2>3. TypeOK' /\ StackInv'
    BY <2>1, <2>2 DEF IInv, TypeOK, StackInv
  <2> QED
    BY <2>1, <2>3 DEF IInv, CodeInv, AssignedOnce, AssignsOnce, DefinedBeforeUse, IsTemporary
<1>4. CASE stack[1] # make_register(n, w)
  <2>1. make_register(n, w) \in Fixed /\ ~IsTemporary(make_register(n, w))
    BY FixedFacts DEF Fixed
  <2>2. "COPY" \in Opcodes /\ "COPY" # "STORE"
    BY DEF Opcodes
  <2>3. Computes("COPY", Values(stack)) \in Word
    <3>1. Values(stack)[1] = Value(stack[1])
      BY <1>1 DEF Values
    <3> QED
      BY <3>1, <1>2, ValueType, ComputesFacts DEF IInv
  <2> QED
    BY <2>1, <2>2, <2>3, <1>1, <1>2, <1>4, EffectKeeps
<1> QED
  BY <1>3, <1>4

LEMMA ReadMemoryKeeps == ASSUME IInv, translate_read_memory PROVE IInv'
<1> DEFINE inputs == <<make_const(0), stack[1]>>
<1>1. PICK w \in Widths :
      /\ Len(stack) = 1 /\ stack' = <<>> /\ uniq' = uniq + 1
      /\ Emit("LOAD", unique(uniq, w), inputs)
  BY DEF translate_read_memory
<1>2. /\ make_const(0) \in Varnodes /\ ~IsTemporary(make_const(0))
      /\ stack[1] \in Varnodes /\ 1 \in DOMAIN stack /\ uniq \in 0..MaxOps
  <2>1. stack[1] \in Varnodes /\ 1 \in DOMAIN stack
    BY <1>1, StackFacts
  <2>2. uniq \in 0..MaxOps
    BY DEF IInv, TypeOK
  <2> QED
    BY <2>1, <2>2, ConstFacts, ConstantsAssumption
<1>3. inputs \in Seq(Varnodes)
  BY <1>2
<1>4. unique(uniq, w) \in Uniques
  BY <1>2, UniqueFacts
<1>5. Computes("LOAD", Values(inputs)) \in Word
  <2>1. Values(<<make_const(0), stack[1]>>)[2] = Value(stack[1])
    <3>1. Values(<<make_const(0), stack[1]>>) = <<Value(make_const(0)), Value(stack[1])>>
      BY PairValues, Zenon
    <3> QED
      BY <3>1
  <2>2. mem[Value(stack[1])] \in Word
    BY <1>2, ValueType DEF IInv, TypeOK
  <2> QED
    BY <2>1, <2>2, ComputesFacts
<1>6. "LOAD" \in Opcodes /\ "LOAD" # "STORE"
  BY DEF Opcodes
<1>7. \A k \in DOMAIN inputs : IsTemporary(inputs[k]) =>
        \E i \in DOMAIN stack : inputs[k] = stack[i]
  BY <1>2
<1> HIDE DEF inputs
<1> QED
  BY <1>1, <1>3, <1>4, <1>5, <1>6, <1>7, EffectKeeps

LEMMA NoOutputFacts == ~IsTemporary(NoOutput)
  BY DEF IsTemporary, NoOutput, Varnode

LEMMA WriteMemoryKeeps == ASSUME IInv, translate_write_memory PROVE IInv'
<1> DEFINE inputs == <<make_const(0), stack[1], stack[2]>>
<1>1. Len(stack) = 2 /\ stack' = <<>> /\ UNCHANGED uniq
  BY DEF translate_write_memory
<1>2. stack \in Seq(Varnodes)
  BY DEF IInv, TypeOK
<1>4. Emit("STORE", NoOutput, inputs)
  BY DEF translate_write_memory
<1>5. /\ make_const(0) \in Varnodes /\ ~IsTemporary(make_const(0))
      /\ stack[1] \in Varnodes /\ stack[2] \in Varnodes /\ {1, 2} \subseteq DOMAIN stack
  <2>1. make_const(0) \in Varnodes /\ ~IsTemporary(make_const(0))
    BY ConstFacts, ConstantsAssumption
  <2>2. stack[1] \in Varnodes /\ stack[2] \in Varnodes /\ {1, 2} \subseteq DOMAIN stack
    BY <1>1, StackFacts
  <2> QED
    BY <2>1, <2>2
<1>6. inputs \in Seq(Varnodes)
  BY <1>5
<1>7. Values(inputs)[2] \in Word /\ Values(inputs)[3] \in Word
  <2>1. Value(stack[1]) \in Word /\ Value(stack[2]) \in Word
    BY <1>5, ValueType DEF IInv
  <2>2. /\ Values(inputs)[2] = Value(stack[1])
        /\ Values(inputs)[3] = Value(stack[2])
    BY DEF Values
  <2> HIDE DEF inputs
  <2> QED
    BY <2>1, <2>2
<1>8. "STORE" \in Opcodes
  BY DEF Opcodes
<1>9. \A k \in DOMAIN inputs : IsTemporary(inputs[k]) =>
        \E i \in DOMAIN stack : inputs[k] = stack[i]
  BY <1>5
<1> HIDE DEF inputs
<1> QED
  BY <1>1, <1>4, <1>6, <1>7, <1>8, <1>9, NoOutputFacts, EffectKeeps

LEMMA CallFunctionKeeps == ASSUME IInv, translate_call_function PROVE IInv'
<1>1. stack \in Seq(Varnodes) /\ "CALL" \in Opcodes /\ "CALL" # "STORE"
  BY DEF IInv, TypeOK, Opcodes
<1>2. stack' = <<>> /\ uniq' = uniq /\ Emit("CALL", NoOutput, stack)
  BY DEF translate_call_function
<1> QED
  BY <1>1, <1>2, NoOutputFacts, EffectKeeps

LEMMA ConstrainPathKeeps == ASSUME IInv, translate_constrain_path PROVE IInv'
<1> DEFINE inputs == <<stack[2], stack[1]>>
<1>1. Len(stack) = 2 /\ stack' = <<>> /\ uniq' = uniq /\ Emit("CBRANCH", NoOutput, inputs)
  BY DEF translate_constrain_path
<1>2. /\ stack[1] \in Varnodes /\ stack[2] \in Varnodes /\ {1, 2} \subseteq DOMAIN stack
      /\ "CBRANCH" \in Opcodes /\ "CBRANCH" # "STORE"
  <2>1. "CBRANCH" \in Opcodes /\ "CBRANCH" # "STORE"
    BY DEF Opcodes
  <2> QED
    BY <1>1, <2>1, StackFacts
<1>3. inputs \in Seq(Varnodes)
  BY <1>2
<1>4. \A k \in DOMAIN inputs : IsTemporary(inputs[k]) =>
        \E i \in DOMAIN stack : inputs[k] = stack[i]
  BY <1>2
<1> HIDE DEF inputs
<1> QED
  BY <1>1, <1>2, <1>3, <1>4, NoOutputFacts, EffectKeeps

\* Between paths: nothing is on the stack and no op is pending.
LEMMA BetweenKeeps ==
    ASSUME IInv, TypeOK', stack' = <<>>, ops' = <<>>, phase' # "path", Len(all_ops') <= MaxOps
    PROVE  IInv'
  BY ConstantsAssumption
     DEF IInv, StackInv, CodeInv, AssignedOnce, AssignsOnce, DefinedBeforeUse, IsTemporary

LEMMA NextKeeps == ASSUME IInv, [Next]_vars PROVE IInv'
<1>0. <<>> \in Seq(Varnodes) /\ <<>> \in Seq(Ops) /\ 0 \in 0..MaxOps
  BY ConstantsAssumption
<1>1. CASE translate_function
  <2>1. /\ TypeOK' /\ stack' = <<>> /\ ops' = <<>> /\ phase' = "walk"
        /\ Len(all_ops') <= MaxOps
    BY <1>0, <1>1, ConstantsAssumption DEF IInv, TypeOK, StackInv, translate_function, reset, machine
  <2> QED
    BY <2>1, BetweenKeeps
<1>2. CASE translate_effects
  <2>1. /\ phase' = "path" /\ uniq' = 0 /\ order' = 0 /\ all_ops' = all_ops
        /\ stack' = <<>> /\ ops' = <<>>
    BY <1>2 DEF IInv, StackInv, translate_effects, reset
  <2>2. /\ cells' \in [Homes -> Word] /\ held' \in [Homes -> Nat] /\ lost' \in BOOLEAN
        /\ mem' \in [Word -> Word]
    BY <1>2, ConstantsAssumption DEF translate_effects
  <2>3. TypeOK'
    BY <1>0, <2>1, <2>2 DEF IInv, TypeOK
  <2>4. Len(all_ops) <= MaxOps
    BY <1>2, ConstantsAssumption DEF IInv, TypeOK, CodeInv
  <2> QED
    BY <2>1, <2>3, <2>4, ConstantsAssumption
       DEF IInv, StackInv, CodeInv, AssignedOnce, AssignsOnce, DefinedBeforeUse, IsTemporary
<1>3. CASE PathDone
  <2>1. /\ stack' = <<>> /\ ops' = <<>> /\ phase' = "walk" /\ all_ops' = all_ops \o ops
        /\ UNCHANGED <<uniq, order, cells, held, lost, mem>>
    BY <1>3 DEF PathDone, counters, machine
  <2>2. ops \in Seq(Ops) /\ all_ops \in Seq(Ops) /\ Len(all_ops) + Len(ops) <= MaxOps
    BY DEF IInv, TypeOK, CodeInv
  <2> HIDE DEF Ops
  <2>3. all_ops' \in Seq(Ops) /\ Len(all_ops') = Len(all_ops) + Len(ops)
    BY <2>1, <2>2
  <2>4. TypeOK'
    BY <1>0, <2>1, <2>3 DEF IInv, TypeOK
  <2> QED
    BY <2>1, <2>2, <2>3, <2>4, BetweenKeeps
<1>4. CASE WalkFails
  <2>1. /\ stack' = <<>> /\ ops' = <<>> /\ phase' = "idle"
        /\ UNCHANGED <<all_ops, uniq, order, cells, held, lost, mem>>
    BY <1>4 DEF WalkFails, counters, machine
  <2>2. TypeOK'
    BY <1>0, <2>1 DEF IInv, TypeOK
  <2>3. Len(all_ops') <= MaxOps
    BY <2>1, ConstantsAssumption DEF IInv, TypeOK, CodeInv
  <2> QED
    BY <2>1, <2>2, <2>3, BetweenKeeps
<1>5. CASE FunctionDone
  <2>1. /\ stack' = <<>> /\ ops' = <<>> /\ phase' = "idle"
        /\ UNCHANGED <<all_ops, uniq, order, cells, held, lost, mem>>
    BY <1>5 DEF FunctionDone, counters, machine, IInv, StackInv
  <2>2. TypeOK'
    BY <1>0, <2>1 DEF IInv, TypeOK
  <2>3. Len(all_ops') <= MaxOps
    BY <2>1, ConstantsAssumption DEF IInv, TypeOK, CodeInv
  <2> QED
    BY <2>1, <2>2, <2>3, BetweenKeeps
<1>6. CASE translate_ast
  <2>1. CASE Const
    BY <2>1, ConstFacts, LeafKeeps, ConstantsAssumption DEF Const
  <2>2. CASE Var
    <3>1. PICK n \in Names, w \in Widths : Leaf(<<"Var", n>>, make_register(n, w))
      BY <2>2 DEF Var
    <3>2. make_register(n, w) \in Varnodes /\ ~IsTemporary(make_register(n, w))
      BY NameFacts, FixedFacts
    <3> QED
      BY <3>1, <3>2, LeafKeeps
  <2>3. CASE Arg
    <3>1. PICK i \in Args, w \in Widths : Leaf(<<"Arg", i>>, make_arg(i, w))
      BY <2>3 DEF Arg
    <3>2. make_arg(i, w) \in Varnodes /\ ~IsTemporary(make_arg(i, w))
      BY ArgFacts, FixedFacts
    <3> QED
      BY <3>1, <3>2, LeafKeeps
  <2>4. CASE SExtend \/ CNot
    BY <2>4, UnaryKeeps, ConstantsAssumption DEF SExtend, CNot
  <2> QED
    BY <1>6, <2>1, <2>2, <2>3, <2>4, MemKeeps, OperatorKeeps, ConstraintKeeps, CallKeeps,
       CallVoidKeeps DEF translate_ast
<1>7. CASE translate_effect
  BY <1>7, SetVariableKeeps, ReadMemoryKeeps, WriteMemoryKeeps, CallFunctionKeeps,
     ConstrainPathKeeps DEF translate_effect
<1>8. CASE UNCHANGED vars
  BY <1>8 DEF vars, IInv, TypeOK, StackInv, CodeInv, AssignedOnce, AssignsOnce,
     DefinedBeforeUse, IsTemporary
<1> QED
  BY <1>1, <1>2, <1>3, <1>4, <1>5, <1>6, <1>7, <1>8 DEF Next

LEMMA InitHolds == Init => IInv
<1> SUFFICES ASSUME Init PROVE IInv
  OBVIOUS
<1>1. <<>> \in Seq(Varnodes) /\ <<>> \in Seq(Ops) /\ 0 \in 0..MaxOps
  BY ConstantsAssumption
<1>2. cells \in [Homes -> Word] /\ held \in [Homes -> Nat] /\ mem \in [Word -> Word]
  BY ConstantsAssumption DEF Init
<1>3. TypeOK
  BY <1>1, <1>2 DEF Init, TypeOK
<1> QED
  BY <1>3, ConstantsAssumption
     DEF Init, IInv, StackInv, CodeInv, AssignedOnce, AssignsOnce, DefinedBeforeUse

\* The strengthened invariant holds of any function, path after path
\* (translate_function, translate_effects).
THEOREM Inductive == Spec => []IInv
<1>1. IInv /\ [Next]_vars => IInv'
  BY NextKeeps
<1> QED
  BY <1>1, InitHolds, PTL DEF Spec

\* Counters, stack, code and machine stay within their types.
THEOREM TypeCorrect == Spec => []TypeOK
<1>1. IInv => TypeOK
  BY DEF IInv
<1> QED
  BY <1>1, Inductive, PTL

\* Whatever the expressions of a path are, no temporary is assigned twice in its
\* code (_next_unique).
THEOREM EachAssignedOnce == Spec => []AssignedOnce
<1>1. IInv => AssignedOnce
  BY DEF IInv
<1> QED
  BY <1>1, Inductive, PTL

\* No op reads a temporary before the op that assigns it (_translate_ast).
THEOREM EachDefinedBeforeUse == Spec => []DefinedBeforeUse
<1>1. IInv => DefinedBeforeUse
  BY DEF IInv
<1> QED
  BY <1>1, Inductive, PTL

\* The ops of a path are numbered in the order they are in (_next_order).
THEOREM OrderedOps == Spec => []OrderedInPath
<1>1. IInv => OrderedInPath
  BY DEF IInv, CodeInv, TypeOK, OrderedInPath
<1> QED
  BY <1>1, Inductive, PTL

(***************************************************************************)
(* The p-code means what the effects say.                                  *)
(***************************************************************************)

\* The value of a varnode after a step.
Afterwards(vn) == IF vn.space = "const" THEN vn.offset ELSE cells'[Home(vn)]

LEMMA ValuesAfterwards ==
    Values(stack)' = [i \in 1..Len(stack') |-> Afterwards(stack'[i])]
  BY DEF Values, Value, Afterwards, Home

LEMMA EmptyValues == ASSUME stack' = <<>> PROVE Values(stack)' = <<>>
<1>1. Len(stack') = 0 /\ 1..0 = {}
  OBVIOUS
<1> QED
  BY <1>1 DEF Values

\* The last k elements of a sequence give way to one.
LEMMA Replaced ==
    ASSUME NEW S, NEW s \in Seq(S), NEW k \in Nat \ {0}, k <= Len(s), NEW x \in S
    PROVE  Append(SubSeq(s, 1, Len(s) - k), x) =
               [i \in 1..Len(s) - k + 1 |-> IF i <= Len(s) - k THEN s[i] ELSE x]
<1>0. LET rest == SubSeq(s, 1, Len(s) - k)
      IN  /\ rest \in Seq(S) /\ Len(rest) = Len(s) - k
          /\ \A i \in 1..Len(s) - k : rest[i] = s[i]
  OBVIOUS
<1>1. PICK rest \in Seq(S) :
        /\ rest = SubSeq(s, 1, Len(s) - k) /\ Len(rest) = Len(s) - k
        /\ \A i \in 1..Len(s) - k : rest[i] = s[i]
  BY <1>0
<1>2. /\ Append(rest, x) \in Seq(S) /\ Len(Append(rest, x)) = Len(rest) + 1
      /\ \A i \in 1..Len(rest) : Append(rest, x)[i] = rest[i]
      /\ Append(rest, x)[Len(rest) + 1] = x
  BY AppendProperties
<1>3. Len(s) - k \in Nat
  OBVIOUS
<1> DEFINE r == Append(rest, x)
<1>4. r \in [1..Len(s) - k + 1 -> S]
  <2>1. r \in Seq(S) /\ Len(r) = Len(s) - k + 1
    BY <1>1, <1>2
  <2> HIDE DEF r
  <2> QED
    BY <2>1
<1>5. ASSUME NEW i \in 1..Len(s) - k + 1
      PROVE  r[i] = IF i <= Len(s) - k THEN s[i] ELSE x
  <2>1. i = Len(s) - k + 1 \/ i \in 1..Len(s) - k
    BY <1>3
  <2> QED
    BY <2>1, <1>1, <1>2, <1>3
<1> HIDE DEF r
<1>6. r = [i \in 1..Len(s) - k + 1 |-> IF i <= Len(s) - k THEN s[i] ELSE x]
  BY <1>4, <1>5
<1> QED
  BY <1>1, <1>6 DEF r

\* What an op does that reads nothing that has been written over.
LEMMA EmitExecutes ==
    ASSUME NEW opcode, NEW output, NEW inputs, Emit(opcode, output, inputs), ~lost'
    PROVE  Execute(opcode, output, Values(inputs))
  BY DEF Emit

\* Variables and arguments after a step that writes to no home but a temporary's.
LEMMA NamesKept ==
    ASSUME IInv,
           cells' = cells \/ \E w \in Widths : \E x : cells' = [cells EXCEPT ![Home(unique(uniq, w))] = x]
    PROVE  /\ [n \in Names |-> cells[Home(make_register(n, 1))]]'
                = [n \in Names |-> cells[Home(make_register(n, 1))]]
           /\ [i \in Args |-> cells[Home(make_arg(i, 1))]]'
                = [i \in Args |-> cells[Home(make_arg(i, 1))]]
<1>1. ASSUME NEW vn \in Fixed PROVE cells'[Home(vn)] = cells[Home(vn)]
  <2>1. vn \in Varnodes /\ ~IsTemporary(vn) /\ vn.space # "const"
    BY FixedFacts
  <2>2. CASE cells' = cells
    BY <2>2
  <2>3. CASE \E w \in Widths : \E x : cells' = [cells EXCEPT ![Home(unique(uniq, w))] = x]
    <3>0. PICK w \in Widths : \E x : cells' = [cells EXCEPT ![Home(unique(uniq, w))] = x]
      BY <2>3
    <3>1. PICK x : cells' = [cells EXCEPT ![Home(unique(uniq, w))] = x]
      BY <3>0
    <3>2. Value(vn)' = Value(vn)
      BY <2>1, <3>1, Undisturbed DEF IInv
    <3> QED
      BY <3>2, <2>1 DEF Value
  <2> QED
    BY <2>2, <2>3
<1>2. \A n \in Names : cells'[Home(make_register(n, 1))] = cells[Home(make_register(n, 1))]
  BY <1>1, NameFacts, ConstantsAssumption
<1>3. \A i \in Args : cells'[Home(make_arg(i, 1))] = cells[Home(make_arg(i, 1))]
  BY <1>1, ArgFacts, ConstantsAssumption
<1> QED
  BY <1>2, <1>3

\* What is below the operands keeps its value, and the result is put there.
LEMMA ResultsRefine ==
    ASSUME IInv, NEW n, NEW k \in Nat \ {0}, NEW vn \in Varnodes, Results(n, k, vn),
           \A w \in Varnodes : (IsTemporary(w) => w.offset < uniq) => Afterwards(w) = Value(w)
    PROVE  /\ node' = n /\ Len(Values(stack)) >= k
           /\ Values(stack)' =
                Append(SubSeq(Values(stack), 1, Len(Values(stack)) - k), Afterwards(vn))
<1> DEFINE x == Afterwards(vn)
<1>1. /\ stack \in Seq(Varnodes) /\ Len(stack) \in Nat
      /\ k <= Len(stack) /\ \A i \in 1..Len(stack) : stack[i] \in Varnodes
  BY StackFacts DEF Results
<1>2. node' = n /\ stack' = Append(SubSeq(stack, 1, Len(stack) - k), vn)
  BY DEF Results
<1>3. stack' = [i \in 1..Len(stack) - k + 1 |-> IF i <= Len(stack) - k THEN stack[i] ELSE vn]
  BY <1>1, <1>2, Replaced
<1>4. Len(stack') = Len(stack) - k + 1
  BY <1>1, <1>3
<1>5. ASSUME NEW i \in 1..Len(stack) - k PROVE Afterwards(stack[i]) = Value(stack[i])
  <2>1. i \in 1..Len(stack) /\ stack[i] \in Varnodes
    BY <1>1
  <2>2. IsTemporary(stack[i]) => stack[i].offset < uniq
    BY <1>1, <2>1 DEF IInv, StackInv
  <2> QED
    BY <2>1, <2>2
<1>6. x = Afterwards(vn)
  OBVIOUS
<1> HIDE DEF x
<1>7. Values(stack)' = [i \in 1..Len(stack) - k + 1 |->
                           IF i <= Len(stack) - k THEN Value(stack[i]) ELSE x]
  <2>1. ASSUME NEW i \in 1..Len(stack) - k + 1
        PROVE  Afterwards(stack'[i]) = IF i <= Len(stack) - k THEN Value(stack[i]) ELSE x
    <3>1. stack'[i] = IF i <= Len(stack) - k THEN stack[i] ELSE vn
      BY <1>3
    <3>2. CASE i <= Len(stack) - k
      <4>1. i \in 1..Len(stack) - k
        BY <1>1, <3>2
      <4> QED
        BY <4>1, <3>1, <3>2, <1>5
    <3>3. CASE ~(i <= Len(stack) - k)
      BY <3>1, <3>3, <1>6
    <3> QED
      BY <3>2, <3>3
  <2> QED
    BY <2>1, <1>4, ValuesAfterwards
<1>8. /\ Values(stack) \in Seq(Word) /\ Len(Values(stack)) = Len(stack)
      /\ \A i \in 1..Len(stack) : Values(stack)[i] = Value(stack[i])
  BY <1>1, ValuesType DEF IInv
<1>9. Append(SubSeq(Values(stack), 1, Len(Values(stack)) - k), x) =
         [i \in 1..Len(stack) - k + 1 |-> IF i <= Len(stack) - k THEN Values(stack)[i] ELSE x]
  <2>1. Values(stack) \in Seq(Word \cup {x}) /\ x \in Word \cup {x}
    BY <1>8
  <2> QED
    BY <2>1, <1>1, <1>8, Replaced
<1>10. Values(stack)' = Append(SubSeq(Values(stack), 1, Len(Values(stack)) - k), x)
  BY <1>1, <1>7, <1>8, <1>9
<1> QED
  BY <1>1, <1>2, <1>8, <1>10 DEF x

\* The op of a node puts in the new temporary what it computes.
LEMMA NodeRefines ==
    ASSUME IInv, NEW opcode, opcode # "STORE", NEW inputs, NEW n, NEW k \in Nat \ {0},
           NEW w \in Widths, Node(n, k, w, opcode, inputs), ~lost'
    PROVE  /\ Meaning!Reduce(n, k, Computes(opcode, Values(inputs)))
           /\ seen' = IF opcode \in {"CALL", "CBRANCH"} THEN <<opcode, Values(inputs)>> ELSE seen
<1> DEFINE x == Computes(opcode, Values(inputs))
<1>1. uniq \in 0..MaxOps /\ Results(n, k, unique(uniq, w))
  BY DEF IInv, TypeOK, Node
<1>2. /\ unique(uniq, w) # NoOutput /\ unique(uniq, w).space = "unique"
      /\ Home(unique(uniq, w)) \in DOMAIN cells /\ unique(uniq, w) \in Varnodes
  BY <1>1, UniqueFacts DEF IInv, TypeOK
<1>3. /\ cells' = [cells EXCEPT ![Home(unique(uniq, w))] = x] /\ mem' = mem
      /\ seen' = IF opcode \in {"CALL", "CBRANCH"} THEN <<opcode, Values(inputs)>> ELSE seen
  BY <1>2, EmitExecutes DEF Node, Execute, Write
<1> HIDE DEF x
<1>4. ASSUME NEW vn \in Varnodes, IsTemporary(vn) => vn.offset < uniq
      PROVE  Afterwards(vn) = Value(vn)
  <2>1. Value(vn)' = Value(vn)
    BY <1>3, <1>4, Undisturbed DEF IInv
  <2> QED
    BY <2>1 DEF Value, Afterwards
<1>5. Afterwards(unique(uniq, w)) = x
  BY <1>2, <1>3 DEF Afterwards
<1>6. /\ node' = n /\ Len(Values(stack)) >= k
      /\ Values(stack)' = Append(SubSeq(Values(stack), 1, Len(Values(stack)) - k), x)
  BY <1>1, <1>2, <1>4, <1>5, ResultsRefine
<1>7. Meaning!Reduce(n, k, x)
  BY <1>3, <1>6, NamesKept DEF Meaning!Reduce
<1> QED
  BY <1>3, <1>7 DEF x

\* The values of the operands.
LEMMA OperandValues ==
    ASSUME IInv
    PROVE  /\ Len(Values(stack)) = Len(stack)
           /\ Len(stack) >= 1 => Meaning!Second = Value(Second)
           /\ Len(stack) >= 2 => Meaning!First = Value(First)
<1>1. /\ stack \in Seq(Varnodes) /\ Len(Values(stack)) = Len(stack)
      /\ \A i \in 1..Len(stack) : Values(stack)[i] = Value(stack[i])
  BY ValuesType DEF IInv, TypeOK
<1>2. Len(stack) \in Nat
  BY <1>1
<1> QED
  BY <1>1, <1>2 DEF Meaning!First, Meaning!Second, First, Second

LEMMA LeafRefines ==
    ASSUME IInv, NEW vn \in Varnodes, NEW n, Leaf(n, vn)
    PROVE  Meaning!Push(n, Value(vn))
<1>1. /\ node' = n /\ stack' = Append(stack, vn) /\ cells' = cells
      /\ UNCHANGED <<mem, seen>> /\ stack \in Seq(Varnodes)
  BY DEF Leaf, machine, IInv, TypeOK
<1>2. /\ Len(stack) \in Nat /\ Len(stack') = Len(stack) + 1
      /\ \A i \in 1..Len(stack) + 1 : stack'[i] = IF i <= Len(stack) THEN stack[i] ELSE vn
  BY <1>1
<1>3. \A w : Afterwards(w) = Value(w)
  BY <1>1 DEF Afterwards, Value
<1>4. Values(stack)' = [i \in 1..Len(stack) + 1 |->
                           IF i <= Len(stack) THEN Value(stack[i]) ELSE Value(vn)]
  <2>1. ASSUME NEW i \in 1..Len(stack) + 1
        PROVE  Afterwards(stack'[i]) = IF i <= Len(stack) THEN Value(stack[i]) ELSE Value(vn)
    BY <1>2, <1>3
  <2> QED
    BY <2>1, <1>2, ValuesAfterwards
<1> DEFINE v == Values(stack) x == Value(vn)
<1>5. /\ v \in Seq(Word) /\ Len(v) = Len(stack) /\ x \in Word
      /\ \A i \in 1..Len(stack) : v[i] = Value(stack[i])
  BY <1>1, ValuesType, ValueType DEF IInv
<1>6. v' = Append(v, x)
  <2>1. v' = [i \in 1..Len(stack) + 1 |-> IF i <= Len(stack) THEN v[i] ELSE x]
    BY <1>2, <1>4, <1>5
  <2>2. /\ Append(v, x) \in Seq(Word) /\ Len(Append(v, x)) = Len(v) + 1
        /\ \A i \in 1..Len(v) : Append(v, x)[i] = v[i]
        /\ Append(v, x)[Len(v) + 1] = x
    BY <1>5, AppendProperties
  <2>3. Append(v, x) = [i \in 1..Len(stack) + 1 |-> IF i <= Len(stack) THEN v[i] ELSE x]
    <3> DEFINE r == Append(v, x)
    <3> HIDE DEF v, x
    <3>1. r \in Seq(Word) /\ Len(r) = Len(stack) + 1
      BY <2>2, <1>5
    <3>2. \A i \in 1..Len(stack) + 1 : r[i] = IF i <= Len(stack) THEN v[i] ELSE x
      <4>1. \A i \in 1..Len(stack) + 1 : i = Len(stack) + 1 \/ i \in 1..Len(stack)
        BY <1>2
      <4> QED
        BY <4>1, <2>2, <1>5, <1>2
    <3> HIDE DEF r
    <3>3. r = [i \in 1..Len(stack) + 1 |-> IF i <= Len(stack) THEN v[i] ELSE x]
      BY <3>1, <3>2
    <3> QED
      BY <3>3 DEF r
  <2> QED
    BY <2>1, <2>3
<1> HIDE DEF v, x
<1>7. Values(stack)' = Append(Values(stack), Value(vn))
  BY <1>6 DEF v, x
<1> QED
  BY <1>1, <1>7 DEF Meaning!Push

LEMMA ConstRefines == ASSUME IInv, Const PROVE Meaning!Expression
<1>1. PICK c \in Literals : Leaf(<<"Const", c>>, make_const(c))
  BY DEF Const
<1>2. make_const(c) \in Varnodes /\ Value(make_const(c)) = c
  BY ConstFacts, ConstantsAssumption DEF Value
<1>3. Meaning!Push(<<"Const", c>>, c)
  BY <1>1, <1>2, LeafRefines
<1> QED
  BY <1>3 DEF Meaning!Expression, Meaning!Const

LEMMA VarRefines == ASSUME IInv, Var PROVE Meaning!Expression
<1>1. PICK n \in Names, w \in Widths : Leaf(<<"Var", n>>, make_register(n, w))
  BY DEF Var
<1>2. /\ make_register(n, w) \in Varnodes /\ make_register(n, w).space # "const"
      /\ Home(make_register(n, w)) = Home(make_register(n, 1))
  BY NameFacts, FixedFacts
<1>3. Meaning!Push(<<"Var", n>>, cells[Home(make_register(n, 1))])
  BY <1>1, <1>2, LeafRefines DEF Value
<1> QED
  BY <1>3 DEF Meaning!Expression, Meaning!Var

LEMMA ArgRefines == ASSUME IInv, Arg PROVE Meaning!Expression
<1>1. PICK i \in Args, w \in Widths : Leaf(<<"Arg", i>>, make_arg(i, w))
  BY DEF Arg
<1>2. /\ make_arg(i, w) \in Varnodes /\ make_arg(i, w).space # "const"
      /\ Home(make_arg(i, w)) = Home(make_arg(i, 1))
  BY ArgFacts, FixedFacts
<1>3. Meaning!Push(<<"Arg", i>>, cells[Home(make_arg(i, 1))])
  BY <1>1, <1>2, LeafRefines DEF Value
<1> QED
  BY <1>3 DEF Meaning!Expression, Meaning!Arg

LEMMA MemRefines == ASSUME IInv, Mem, ~lost' PROVE Meaning!Mem
<1> DEFINE inputs == <<make_const(0), Second>>
<1>1. PICK w \in Widths : Len(stack) >= 1 /\ Node(<<"Mem">>, 1, w, "LOAD", inputs)
  BY DEF Mem, Node, Results
<1>2. Computes("LOAD", Values(inputs)) = mem[Meaning!Second]
  <2>1. Values(inputs)[2] = Value(Second)
    BY ValuesOf
  <2> QED
    BY <2>1, <1>1, OperandValues, ComputesFacts
<1> HIDE DEF inputs
<1>3. /\ Meaning!Reduce(<<"Mem">>, 1, Computes("LOAD", Values(inputs)))
      /\ seen' = seen
  <2>1. 1 \in Nat \ {0} /\ "LOAD" # "STORE" /\ "LOAD" \notin {"CALL", "CBRANCH"}
    OBVIOUS
  <2> QED
    BY <1>1, <2>1, NodeRefines
<1> QED
  BY <1>2, <1>3 DEF Meaning!Mem, Meaning!Evaluate

LEMMA UnaryRefines ==
    ASSUME IInv, NEW n, NEW w \in Widths,
           NEW opcode \in {"INT_SEXT", "BOOL_NEGATE"}, Node(n, 1, w, opcode, <<Second>>), ~lost'
    PROVE  Meaning!Evaluate(n, 1, IF opcode = "INT_SEXT" THEN Meaning!Second
                                  ELSE Truth(Meaning!Second = 0))
<1> DEFINE inputs == <<Second>>
<1>1. Len(stack) >= 1 /\ Node(n, 1, w, opcode, inputs)
  BY DEF Node, Results
<1>2. Computes(opcode, Values(inputs)) =
        IF opcode = "INT_SEXT" THEN Meaning!Second ELSE Truth(Meaning!Second = 0)
  <2>1. Values(inputs)[1] = Value(Second)
    BY ValuesOf
  <2> QED
    BY <2>1, <1>1, OperandValues, ComputesFacts
<1> HIDE DEF inputs
<1>3. Meaning!Reduce(n, 1, Computes(opcode, Values(inputs))) /\ seen' = seen
  <2>1. 1 \in Nat \ {0} /\ opcode # "STORE" /\ opcode \notin {"CALL", "CBRANCH"}
    OBVIOUS
  <2> QED
    BY <1>1, <2>1, NodeRefines
<1> QED
  BY <1>2, <1>3 DEF Meaning!Evaluate

LEMMA BinaryRefines ==
    ASSUME IInv, NEW n, NEW w \in Widths, NEW opcode, opcode \notin {"STORE", "CALL", "CBRANCH"},
           NEW a \in {First, Second}, NEW b \in {First, Second}, Node(n, 2, w, opcode, <<a, b>>), ~lost'
    PROVE  /\ Meaning!First = Value(First) /\ Meaning!Second = Value(Second)
           /\ Value(First) \in Word /\ Value(Second) \in Word
           /\ \E v : /\ v[1] = Value(a) /\ v[2] = Value(b)
                    /\ Meaning!Evaluate(n, 2, Computes(opcode, v))
<1> DEFINE inputs == <<a, b>>
<1>1. Len(stack) >= 2 /\ Len(stack) >= 1 /\ Node(n, 2, w, opcode, inputs)
  BY StackFacts DEF Node, Results
<1>2. Values(inputs)[1] = Value(a) /\ Values(inputs)[2] = Value(b)
  BY ValuesOf
<1> HIDE DEF inputs
<1>3. Meaning!Reduce(n, 2, Computes(opcode, Values(inputs))) /\ seen' = seen
  <2>1. 2 \in Nat \ {0}
    OBVIOUS
  <2> QED
    BY <1>1, <2>1, NodeRefines
<1>4. Meaning!Evaluate(n, 2, Computes(opcode, Values(inputs)))
  BY <1>3 DEF Meaning!Evaluate
<1> QED
  BY <1>1, <1>2, <1>4, OperandValues, BinaryFacts

LEMMA OperatorRefines == ASSUME IInv, translate_operator, ~lost' PROVE Meaning!Expression
<1>1. PICK o \in Operators, w \in Widths : Node(<<"Operator", o>>, 2, w, OPERATOR_MAP[o], <<First, Second>>)
  BY DEF translate_operator
<1>2. OPERATOR_MAP[o] \notin {"STORE", "CALL", "CBRANCH"}
  BY ConstantsAssumption DEF OPERATOR_MAP
<1>3. Meaning!First = Value(First) /\ Meaning!Second = Value(Second)
      /\ Value(First) \in Word /\ Value(Second) \in Word
  BY <1>1, <1>2, BinaryRefines
<1>4. PICK v : /\ v[1] = Value(First) /\ v[2] = Value(Second)
               /\ Meaning!Evaluate(<<"Operator", o>>, 2, Computes(OPERATOR_MAP[o], v))
  BY <1>1, <1>2, BinaryRefines
<1>5. /\ Computes(OPERATOR_MAP[o], v) \in Word
      /\ o \notin Inexact => Computes(OPERATOR_MAP[o], v) = Arith(o, Meaning!First, Meaning!Second)
  <2>1. Computes(OPERATOR_MAP[o], v) = Alu(OPERATOR_MAP[o], Meaning!First, Meaning!Second)
    BY <1>3, <1>4, ComputesFacts
  <2>2. Meaning!First \in Word /\ Meaning!Second \in Word
    BY <1>3
  <2>3. /\ Alu(OPERATOR_MAP[o], Meaning!First, Meaning!Second) \in Word
        /\ o \notin Inexact =>
             Alu(OPERATOR_MAP[o], Meaning!First, Meaning!Second) = Arith(o, Meaning!First, Meaning!Second)
    BY <2>2, ConstantsAssumption, MappingAssumption
  <2> QED
    BY <2>1, <2>3
<1>6. Meaning!Operator(o)
  BY <1>4, <1>5 DEF Meaning!Operator
<1> QED
  BY <1>6 DEF Meaning!Expression

\* Comparisons that have no opcode of their own have their operands swapped.
LEMMA ConstraintRefines == ASSUME IInv, translate_constraint, ~lost' PROVE Meaning!Expression
<1>1. PICK c \in DOMAIN CONSTRAINT_MAP :
        Node(<<"Constraint", c>>, 2, 1, CONSTRAINT_MAP[c],
             IF c \in {"GT", "GE"} THEN <<Second, First>> ELSE <<First, Second>>)
  BY DEF translate_constraint
<1>2. CONSTRAINT_MAP[c] \notin {"STORE", "CALL", "CBRANCH"}
  BY DEF CONSTRAINT_MAP
<1> DEFINE a == IF c \in {"GT", "GE"} THEN Second ELSE First
           b == IF c \in {"GT", "GE"} THEN First ELSE Second
<1>3. /\ Node(<<"Constraint", c>>, 2, 1, CONSTRAINT_MAP[c], <<a, b>>)
      /\ a \in {First, Second} /\ b \in {First, Second}
      /\ Value(a) = IF c \in {"GT", "GE"} THEN Value(Second) ELSE Value(First)
      /\ Value(b) = IF c \in {"GT", "GE"} THEN Value(First) ELSE Value(Second)
  BY <1>1
<1> HIDE DEF a, b
<1>4. /\ Meaning!First = Value(First) /\ Meaning!Second = Value(Second)
      /\ Value(First) \in Word /\ Value(Second) \in Word
  BY <1>2, <1>3, BinaryRefines, ConstantsAssumption
<1>5. PICK v : /\ v[1] = Value(a) /\ v[2] = Value(b)
               /\ Meaning!Evaluate(<<"Constraint", c>>, 2, Computes(CONSTRAINT_MAP[c], v))
  BY <1>2, <1>3, BinaryRefines, ConstantsAssumption
<1>6. Meaning!First \in Int /\ Meaning!Second \in Int
  BY <1>4, ConstantsAssumption
<1>7. CASE c = "EQ"
  <2>1. Computes(CONSTRAINT_MAP[c], v) = Truth(Meaning!First = Meaning!Second)
    BY <1>3, <1>4, <1>5, <1>7, ComputesFacts DEF CONSTRAINT_MAP
  <2>2. Meaning!Eq
    BY <2>1, <1>5, <1>7 DEF Meaning!Eq, Meaning!Truth, Truth
  <2> QED
    BY <2>2 DEF Meaning!Expression
<1>8. CASE c = "NE"
  <2>1. Computes(CONSTRAINT_MAP[c], v) = Truth(Meaning!First # Meaning!Second)
    BY <1>3, <1>4, <1>5, <1>8, ComputesFacts DEF CONSTRAINT_MAP
  <2>2. Meaning!Ne
    BY <2>1, <1>5, <1>8 DEF Meaning!Ne, Meaning!Truth, Truth
  <2> QED
    BY <2>2 DEF Meaning!Expression
<1>9. CASE c = "GT"
  <2>1. Computes(CONSTRAINT_MAP[c], v) = Truth(Meaning!First > Meaning!Second)
    BY <1>3, <1>4, <1>5, <1>6, <1>9, ComputesFacts DEF CONSTRAINT_MAP, Truth
  <2>2. Meaning!Gt
    BY <2>1, <1>5, <1>9 DEF Meaning!Gt, Meaning!Truth, Truth
  <2> QED
    BY <2>2 DEF Meaning!Expression
<1>10. CASE c = "GE"
  <2>1. Computes(CONSTRAINT_MAP[c], v) = Truth(Meaning!First >= Meaning!Second)
    BY <1>3, <1>4, <1>5, <1>6, <1>10, ComputesFacts DEF CONSTRAINT_MAP, Truth
  <2>2. Meaning!Ge
    BY <2>1, <1>5, <1>10 DEF Meaning!Ge, Meaning!Truth, Truth
  <2> QED
    BY <2>2 DEF Meaning!Expression
<1>11. CASE c = "LT"
  <2>1. Computes(CONSTRAINT_MAP[c], v) = Truth(Meaning!First < Meaning!Second)
    BY <1>3, <1>4, <1>5, <1>11, ComputesFacts DEF CONSTRAINT_MAP
  <2>2. Meaning!Lt
    BY <2>1, <1>5, <1>11 DEF Meaning!Lt, Meaning!Truth, Truth
  <2> QED
    BY <2>2 DEF Meaning!Expression
<1>12. CASE c = "LE"
  <2>1. Computes(CONSTRAINT_MAP[c], v) = Truth(Meaning!First <= Meaning!Second)
    BY <1>3, <1>4, <1>5, <1>12, ComputesFacts DEF CONSTRAINT_MAP
  <2>2. Meaning!Le
    BY <2>1, <1>5, <1>12 DEF Meaning!Le, Meaning!Truth, Truth
  <2> QED
    BY <2>2 DEF Meaning!Expression
<1>13. c \in {"EQ", "NE", "GT", "GE", "LT", "LE"}
  BY DEF CONSTRAINT_MAP
<1> QED
  BY <1>7, <1>8, <1>9, <1>10, <1>11, <1>12, <1>13

LEMMA UnaryNodesRefine == ASSUME IInv, SExtend \/ CNot, ~lost' PROVE Meaning!Expression
<1>1. CASE SExtend
  <2>1. Meaning!SExtend
    BY <1>1, UnaryRefines DEF SExtend, Meaning!SExtend
  <2> QED
    BY <2>1 DEF Meaning!Expression
<1>2. CASE CNot
  <2>1. Meaning!CNot
    BY <1>2, UnaryRefines, ConstantsAssumption DEF CNot, Meaning!CNot, Truth, Meaning!Truth
  <2> QED
    BY <2>1 DEF Meaning!Expression
<1> QED
  BY <1>1, <1>2

\* The values of the target and the arguments of a call.
LEMMA CallValues ==
    ASSUME IInv, NEW k \in 1..Len(stack)
    PROVE  /\ k \in Nat \ {0} /\ Len(Values(stack)) = Len(stack)
           /\ SubSeq(Values(stack), Len(Values(stack)) - k + 1, Len(Values(stack)))
                = Values(Operands(k))
<1>1. /\ stack \in Seq(Varnodes) /\ Len(stack) \in Nat /\ k \in Nat \ {0} /\ k <= Len(stack)
      /\ Values(stack) \in Seq(Word) /\ Len(Values(stack)) = Len(stack)
      /\ \A i \in 1..Len(stack) : Values(stack)[i] = Value(stack[i])
  <2>1. stack \in Seq(Varnodes) /\ Len(stack) \in Nat
    BY StackFacts
  <2> QED
    BY <2>1, ValuesType DEF IInv
<1>2. /\ Operands(k) \in Seq(Varnodes) /\ Len(Operands(k)) = k
      /\ \A m \in 1..k : Operands(k)[m] = stack[Len(stack) - k + m]
  BY <1>1, Operand DEF IInv
<1>3. /\ Values(Operands(k)) \in Seq(Word) /\ Len(Values(Operands(k))) = k
      /\ \A m \in 1..k : Values(Operands(k))[m] = Value(Operands(k)[m])
  BY <1>2, ValuesType DEF IInv
<1> DEFINE v == Values(stack)
           r == SubSeq(v, Len(v) - k + 1, Len(v))
           o == Values(Operands(k))
<1>4. ASSUME NEW m \in 1..k PROVE Len(stack) - k + m \in 1..Len(stack)
  BY <1>1
<1>5. ASSUME NEW m \in 1..k PROVE o[m] = v[Len(stack) - k + m]
  BY <1>1, <1>2, <1>3, <1>4
<1>6. v \in Seq(Word) /\ Len(v) = Len(stack)
  BY <1>1
<1>7. o \in Seq(Word) /\ Len(o) = k
  BY <1>3
<1> HIDE DEF v, o
<1>8. /\ r \in Seq(Word) /\ Len(r) = k
      /\ \A m \in 1..k : r[m] = v[Len(stack) - k + m]
  BY <1>1, <1>6
<1> HIDE DEF r
<1>9. r = o
  BY <1>5, <1>7, <1>8, SeqEqual
<1> QED
  BY <1>1, <1>9 DEF r, v, o

LEMMA CallRefines == ASSUME IInv, Call, ~lost' PROVE Meaning!Expression
<1>1. PICK k \in 1..Len(stack), w \in Widths : Node(<<"Call", k, FALSE>>, k, w, "CALL", Operands(k))
  BY DEF Call
<1> DEFINE call == SubSeq(Values(stack), Len(Values(stack)) - k + 1, Len(Values(stack)))
<1>2. k \in Nat \ {0} /\ k \in 1..Len(Values(stack)) /\ call = Values(Operands(k))
  BY CallValues
<1>3. /\ Meaning!Reduce(<<"Call", k, FALSE>>, k, Computes("CALL", Values(Operands(k))))
      /\ seen' = <<"CALL", Values(Operands(k))>>
  <2>1. "CALL" # "STORE" /\ "CALL" \in {"CALL", "CBRANCH"}
    OBVIOUS
  <2> QED
    BY <1>1, <1>2, <2>1, NodeRefines
<1>4. Computes("CALL", call) = Result(call[1], Tail(call))
  BY ComputesFacts
<1>5. Meaning!Call(k, FALSE)
  BY <1>2, <1>3, <1>4 DEF Meaning!Call
<1> QED
  BY <1>2, <1>5 DEF Meaning!Expression

LEMMA CallVoidRefines == ASSUME IInv, CallVoid, ~lost' PROVE Meaning!Expression
<1>1. PICK k \in 1..Len(stack) :
        Results(<<"Call", k, TRUE>>, k, make_const(0)) /\ Emit("CALL", NoOutput, Operands(k))
  BY DEF CallVoid
<1>2. /\ k \in Nat \ {0} /\ k \in 1..Len(Values(stack))
      /\ SubSeq(Values(stack), Len(Values(stack)) - k + 1, Len(Values(stack)))
           = Values(Operands(k))
  BY CallValues
<1>3. cells' = cells /\ mem' = mem /\ seen' = <<"CALL", Values(Operands(k))>>
  BY <1>1, EmitExecutes DEF Execute
<1>4. \A w : Afterwards(w) = Value(w)
  BY <1>3 DEF Afterwards, Value
<1>5. make_const(0) \in Varnodes /\ Afterwards(make_const(0)) = 0
  BY ConstFacts, ConstantsAssumption DEF Afterwards
<1>6. /\ node' = <<"Call", k, TRUE>> /\ Len(Values(stack)) >= k
      /\ Values(stack)' = Append(SubSeq(Values(stack), 1, Len(Values(stack)) - k), 0)
  BY <1>1, <1>2, <1>4, <1>5, ResultsRefine
<1>7. Meaning!Reduce(<<"Call", k, TRUE>>, k, 0)
  BY <1>3, <1>6, NamesKept DEF Meaning!Reduce
<1>8. Meaning!Call(k, TRUE)
  BY <1>2, <1>3, <1>7 DEF Meaning!Call
<1> QED
  BY <1>2, <1>8 DEF Meaning!Expression

\* The values of the whole stack.
LEMMA StackValues ==
    ASSUME IInv
    PROVE  /\ Values(stack) \in Seq(Word) /\ Len(Values(stack)) = Len(stack)
           /\ \A i \in 1..Len(stack) : Values(stack)[i] = Value(stack[i])
  BY StackFacts, ValuesType DEF IInv

LEMMA SetVariableRefines == ASSUME IInv, translate_set_variable, ~lost' PROVE Meaning!Effect
<1>1. PICK n \in Names, w \in Widths :
        /\ node' = <<"SetVariable", n>> /\ Len(stack) = 1 /\ stack' = <<>>
        /\ IF stack[1] = make_register(n, w)
           THEN phase = "path" /\ UNCHANGED <<phase, order, ops, all_ops, machine>>
           ELSE Emit("COPY", make_register(n, w), stack)
  BY DEF translate_set_variable
<1> DEFINE env == [m \in Names |-> cells[Home(make_register(m, 1))]]
           arg == [i \in Args |-> cells[Home(make_arg(i, 1))]]
           x == Values(stack)[1]
<1>2. x = Value(stack[1]) /\ Len(Values(stack)) = 1
  BY <1>1, StackValues
<1>3. Values(stack)' = <<>>
  BY <1>1, EmptyValues
<1>4. make_register(n, w) \in Fixed /\ make_register(n, w).space # "const"
  BY NameFacts, FixedFacts
<1>5. mem' = mem /\ seen' = seen /\ cells' = [cells EXCEPT ![Home(make_register(n, w))] = x]
  <2>1. CASE stack[1] = make_register(n, w)
    <3>1. x = cells[Home(make_register(n, w))]
      BY <2>1, <1>2, <1>4 DEF Value
    <3>2. UNCHANGED <<cells, mem, seen>> /\ cells \in [Homes -> Word]
      BY <1>1, <2>1 DEF machine, IInv, TypeOK
    <3> HIDE DEF x
    <3> QED
      BY <3>1, <3>2
  <2>2. CASE stack[1] # make_register(n, w)
    <3>1. make_register(n, w) # NoOutput
      BY <1>4, FixedFacts
    <3>2. Computes("COPY", Values(stack)) = x
      BY ComputesFacts
    <3> HIDE DEF x
    <3> QED
      BY <1>1, <2>2, <3>1, <3>2, EmitExecutes DEF Execute, Write
  <2> QED
    BY <2>1, <2>2
<1> HIDE DEF x
<1>6. cells \in [Homes -> Word]
  BY DEF IInv, TypeOK
<1>7. ASSUME NEW h \in Homes
      PROVE  cells'[h] = IF h = Home(make_register(n, w)) THEN x ELSE cells[h]
  BY <1>5, <1>6, <1>7
<1>8. ASSUME NEW m \in Names
      PROVE  cells'[Home(make_register(m, 1))] =
                 IF m = n THEN x ELSE cells[Home(make_register(m, 1))]
  <2>1. /\ Home(make_register(m, 1)) \in Homes
        /\ Home(make_register(m, 1)) = Home(make_register(n, w)) <=> m = n
    BY NameFacts, ConstantsAssumption
  <2> QED
    BY <2>1, <1>7
<1>9. ASSUME NEW i \in Args
      PROVE  cells'[Home(make_arg(i, 1))] = cells[Home(make_arg(i, 1))]
  <2>1. /\ Home(make_arg(i, 1)) \in Homes /\ Home(make_arg(i, 1))[3] = <<"arg", i>>
        /\ Home(make_register(n, w))[3] = n
    <3>1. 1 \in Widths
      BY ConstantsAssumption
    <3> QED
      BY <3>1, NameFacts, ArgFacts
  <2>2. <<"arg", i>> # n
    BY ConstantsAssumption
  <2> QED
    BY <2>1, <2>2, <1>7
<1>10. env' = [env EXCEPT ![n] = x] /\ arg' = arg
  BY <1>8, <1>9
<1>11. Meaning!SetVariable(n)
  BY <1>1, <1>2, <1>3, <1>5, <1>10 DEF Meaning!SetVariable, x
<1> QED
  BY <1>11 DEF Meaning!Effect

LEMMA OtherEffectsRefine ==
    ASSUME IInv,
           \/ translate_read_memory \/ translate_write_memory
           \/ translate_call_function \/ translate_constrain_path,
           ~lost'
    PROVE  Meaning!Effect
<1>1. CASE translate_read_memory
  <2>1. PICK w \in Widths :
        /\ node' = <<"ReadMemory">> /\ Len(stack) = 1 /\ stack' = <<>>
        /\ Emit("LOAD", unique(uniq, w), <<make_const(0), stack[1]>>)
    BY <1>1 DEF translate_read_memory
  <2>2. unique(uniq, w) # NoOutput
    BY UniqueFacts DEF IInv, TypeOK
  <2>3. /\ mem' = mem /\ seen' = seen
        /\ \E x : cells' = [cells EXCEPT ![Home(unique(uniq, w))] = x]
    BY <2>1, <2>2, EmitExecutes DEF Execute, Write
  <2>4. Len(Values(stack)) = 1 /\ Values(stack)' = <<>>
    BY <2>1, StackValues, EmptyValues
  <2>5. Meaning!ReadMemory
    BY <2>1, <2>3, <2>4, NamesKept DEF Meaning!ReadMemory
  <2> QED
    BY <2>5 DEF Meaning!Effect
<1>2. CASE translate_write_memory
  <2> DEFINE v == Values(<<make_const(0), stack[1], stack[2]>>)
  <2>1. /\ node' = <<"WriteMemory">> /\ Len(stack) = 2 /\ stack' = <<>>
        /\ Emit("STORE", NoOutput, <<make_const(0), stack[1], stack[2]>>)
    BY <1>2 DEF translate_write_memory
  <2>2. v[2] = Value(stack[1]) /\ v[3] = Value(stack[2])
    BY DEF Values
  <2>3. cells' = cells /\ seen' = seen /\ mem' = [mem EXCEPT ![v[2]] = v[3]]
    BY <2>1, EmitExecutes DEF Execute
  <2>4. /\ Len(Values(stack)) = 2 /\ Values(stack)' = <<>>
        /\ Values(stack)[1] = Value(stack[1]) /\ Values(stack)[2] = Value(stack[2])
    BY <2>1, StackValues, EmptyValues
  <2> HIDE DEF v
  <2>5. Meaning!WriteMemory
    BY <2>1, <2>2, <2>3, <2>4, NamesKept DEF Meaning!WriteMemory
  <2> QED
    BY <2>5 DEF Meaning!Effect
<1>3. CASE translate_call_function
  <2>1. /\ node' = <<"CallFunction">> /\ stack # <<>> /\ stack' = <<>>
        /\ Emit("CALL", NoOutput, stack)
    BY <1>3 DEF translate_call_function
  <2>2. cells' = cells /\ mem' = mem /\ seen' = <<"CALL", Values(stack)>>
    BY <2>1, EmitExecutes DEF Execute
  <2>3. Values(stack) # <<>> /\ Values(stack)' = <<>>
    <3>1. Len(stack) # 0
      BY <2>1, StackFacts
    <3> QED
      BY <3>1, <2>1, StackValues, EmptyValues
  <2>4. Meaning!CallFunction
    BY <2>1, <2>2, <2>3, NamesKept DEF Meaning!CallFunction
  <2> QED
    BY <2>4 DEF Meaning!Effect
<1>4. CASE translate_constrain_path
  <2>1. /\ node' = <<"ConstrainPath">> /\ Len(stack) = 2 /\ stack' = <<>>
        /\ Emit("CBRANCH", NoOutput, <<stack[2], stack[1]>>)
    BY <1>4 DEF translate_constrain_path
  <2>2. /\ cells' = cells /\ mem' = mem
        /\ seen' = <<"CBRANCH", Values(<<stack[2], stack[1]>>)>>
    BY <2>1, EmitExecutes DEF Execute
  <2>3. Values(<<stack[2], stack[1]>>) = <<Value(stack[2]), Value(stack[1])>>
    BY PairValues
  <2>4. /\ Len(Values(stack)) = 2 /\ Values(stack)' = <<>>
        /\ Values(stack)[1] = Value(stack[1]) /\ Values(stack)[2] = Value(stack[2])
    BY <2>1, StackValues, EmptyValues
  <2>5. Meaning!ConstrainPath
    BY <2>1, <2>2, <2>3, <2>4, NamesKept DEF Meaning!ConstrainPath
  <2> QED
    BY <2>5 DEF Meaning!Effect
<1> QED
  BY <1>1, <1>2, <1>3, <1>4

\* A path that is lost stays so.
LEMMA LostStays == ASSUME translate_ast \/ translate_effect, ~lost' PROVE ~lost
<1>1. ASSUME NEW opcode, NEW output, NEW inputs, Emit(opcode, output, inputs) PROVE ~lost
  BY <1>1 DEF Emit
<1>2. ASSUME NEW n, NEW vn, Leaf(n, vn) PROVE ~lost
  BY <1>2 DEF Leaf, machine
<1>3. ASSUME NEW n, NEW k, NEW w, NEW opcode, NEW inputs, Node(n, k, w, opcode, inputs) PROVE ~lost
  BY <1>1, <1>3 DEF Node
<1>4. CASE translate_ast
  BY <1>1, <1>2, <1>3, <1>4
     DEF translate_ast, Const, Var, Arg, Mem, SExtend, CNot, translate_operator,
         translate_constraint, Call, CallVoid
<1>5. CASE translate_effect
  BY <1>1, <1>5
     DEF translate_effect, translate_set_variable, translate_read_memory,
         translate_write_memory, translate_call_function, translate_constrain_path, machine
<1> QED
  BY <1>4, <1>5

LEMMA NextRefines == ASSUME IInv, [Next]_vars PROVE [Meaning!Next]_(Meaning!vars)
<1>0. CASE lost'
  BY <1>0 DEF Meaning!Next
<1> SUFFICES ASSUME ~lost' PROVE [Meaning!Next]_(Meaning!vars)
  BY <1>0
<1>6. ~lost'
  OBVIOUS
<1>1. CASE translate_function \/ PathDone \/ FunctionDone \/ UNCHANGED vars
  <2>1. UNCHANGED <<stack, cells, mem, seen, lost, node>>
    BY <1>1 DEF translate_function, PathDone, FunctionDone, vars, machine
  <2>2. UNCHANGED Values(stack)
    BY <2>1 DEF Values, Value
  <2> QED
    BY <2>1, <2>2 DEF Meaning!vars
<1>2. CASE translate_effects
  <2>1. /\ node' = <<"Enter">> /\ stack' = <<>> /\ seen' = <<>> /\ lost' = FALSE
        /\ cells' \in [Homes -> Word] /\ mem' \in [Word -> Word]
    <3>1. PICK s \in Starts : cells' = s.cells /\ mem' = s.mem
      BY <1>2 DEF translate_effects
    <3>2. s \in [cells : [Homes -> Word], held : [Homes -> Nat], mem : [Word -> Word]]
      BY ConstantsAssumption
    <3>3. stack = <<>>
      BY <1>2 DEF translate_effects, IInv, StackInv
    <3> QED
      BY <1>2, <3>1, <3>2, <3>3 DEF translate_effects
  <2>2. /\ \A n \in Names : Home(make_register(n, 1)) \in Homes
        /\ \A i \in Args : Home(make_arg(i, 1)) \in Homes
    BY NameFacts, ArgFacts, ConstantsAssumption
  <2>3. Meaning!Enter
    BY <2>1, <2>2, EmptyValues DEF Meaning!Enter
  <2> QED
    BY <2>3 DEF Meaning!Next
<1>3. CASE WalkFails
  <2>1. node' = <<"Discard">> /\ stack' = <<>> /\ UNCHANGED <<cells, mem, seen, lost>>
    BY <1>3 DEF WalkFails, machine
  <2>2. Meaning!Discard
    BY <2>1, EmptyValues, NamesKept DEF Meaning!Discard
  <2> QED
    BY <1>6, <2>1, <2>2 DEF Meaning!Next, Meaning!Effect
<1>4. CASE translate_ast
  <2>1. Meaning!Mem => Meaning!Expression
    BY DEF Meaning!Expression
  <2>2. Meaning!Expression
    BY <1>6, <1>4, <2>1, ConstRefines, VarRefines, ArgRefines, MemRefines, UnaryNodesRefine,
       OperatorRefines, ConstraintRefines, CallRefines, CallVoidRefines DEF translate_ast
  <2> QED
    BY <1>4, <1>6, <2>2, LostStays DEF Meaning!Next
<1>5. CASE translate_effect
  BY <1>6, <1>5, LostStays, SetVariableRefines, OtherEffectsRefine DEF translate_effect, Meaning!Next
<1> QED
  BY <1>1, <1>2, <1>3, <1>4, <1>5 DEF Next

LEMMA InitRefines == Init => Meaning!Init
<1> SUFFICES ASSUME Init PROVE Meaning!Init
  OBVIOUS
<1>1. /\ node = <<"Discard">> /\ stack = <<>> /\ seen = <<>> /\ lost = FALSE
      /\ cells \in [Homes -> Word] /\ mem \in [Word -> Word]
  BY ConstantsAssumption DEF Init
<1>2. Values(stack) = <<>>
  <2>1. Len(stack) = 0 /\ 1..0 = {}
    BY <1>1
  <2> QED
    BY <2>1 DEF Values
<1>3. /\ \A n \in Names : Home(make_register(n, 1)) \in Homes
      /\ \A i \in Args : Home(make_arg(i, 1)) \in Homes
  BY NameFacts, ArgFacts, ConstantsAssumption
<1> QED
  BY <1>1, <1>2, <1>3 DEF Meaning!Init

\* For any expressions, names, sizes, offsets and words: the p-code of a path has
\* the effect that its symbolik effects describe, and makes the calls and branches
\* they do, until an op reads storage that a write to another varnode has taken;
\* flags, registers and temporaries may share theirs in any way.  The opcodes are
\* assumed to mean what the operators do, POW excepted (MappingAssumption).
THEOREM Refinement == Spec => ImplementsSymbolik
<1>1. IInv /\ [Next]_vars => [Meaning!Next]_(Meaning!vars)
  BY NextRefines
<1> QED
  BY <1>1, InitRefines, Inductive, PTL DEF Spec, ImplementsSymbolik, Meaning!Spec
=============================================================================
