--------------------------- MODULE PcodeTranslator ---------------------------
(***************************************************************************)
(* PcodeTranslator: the effects of a function's paths become p-code.  The  *)
(* recursion of _translate_ast is its post-order: an action for each kind  *)
(* of node takes the operands off the stack of results and puts its own    *)
(* there, and an action for each kind of effect consumes the stack.  The   *)
(* code of a path is straight-line, so that the machine that runs it may   *)
(* run each op when it is emitted.  A varnode is a stretch of storage, and *)
(* the stretches of two names or temporaries may overlap: the machine is   *)
(* followed until an op reads one that has been written over.  Values are  *)
(* not cut to their widths.                                                *)
(***************************************************************************)
EXTENDS Integers, Sequences

CONSTANTS
    Registers,      \* names in reg_map
    Flags,          \* names in EFLAGS_NAMES
    Strangers,      \* names in neither
    Args,           \* indices of arguments
    Literals,       \* values of constants
    Operators,      \* operators that occur
    Widths,         \* sizes in bytes
    Word,           \* values, as signed integers
    Arith(_, _, _), \* what Vivisect means by an operator
    Alu(_, _, _),   \* what Ghidra means by an opcode of arithmetic
    Result(_, _),   \* what a call returns
    RegOffset,      \* offsets of Registers and of "eflags"
    Hash,           \* hash(name) & 0xFFFFFFFF of Strangers
    ARG_BASE,       \* 0x1000
    Starts,         \* states a path is run from
    MaxOps          \* bound: ops in a function
CONSTANTS MaxDepth, NoName

Names == Registers \cup Flags \cup Strangers

Varnode(space, offset, size, name) ==
    [space |-> space, offset |-> offset, size |-> size, reg_name |-> name]

\* Nothing depends on the size of a constant.
make_const(c) == Varnode("const", c, 1, NoName)

make_register(n, w) ==
    IF n \in Flags THEN Varnode("register", RegOffset["eflags"], w, n)
    ELSE IF n \in Registers THEN Varnode("register", RegOffset[n], w, n)
    ELSE Varnode("unique", Hash[n], w, n)

\* The name of an argument is "arg" and its index.
make_arg(i, w) == Varnode("unique", ARG_BASE + i, w, <<"arg", i>>)

\* The offset counts temporaries, not the bytes they take.
unique(i, w) == Varnode("unique", i, w, NoName)

\* What a varnode is called, at whatever size.
Home(vn) == <<vn.space, vn.offset, vn.reg_name>>

\* n bytes at home h and the varnode vn have a byte in common.
Overlap(h, n, vn) ==
    h[1] = vn.space /\ h[2] < vn.offset + vn.size /\ vn.offset < h[2] + n

Fixed == {make_register(n, w) : n \in Names, w \in Widths} \cup {make_arg(i, w) : i \in Args, w \in Widths}
Uniques == {unique(i, w) : i \in 0..MaxOps, w \in Widths}
Varnodes == Fixed \cup Uniques \cup {make_const(c) : c \in Word}
Homes == {Home(vn) : vn \in Fixed \cup Uniques}

OPERATOR_MAP ==
    [ADD |-> "INT_ADD", SUB |-> "INT_SUB", MUL |-> "INT_MULT", DIV |-> "INT_DIV",
     AND |-> "INT_AND", OR |-> "INT_OR", XOR |-> "INT_XOR", MOD |-> "INT_REM",
     LSHIFT |-> "INT_LEFT", RSHIFT |-> "INT_RIGHT", POW |-> "INT_MULT"]

CONSTRAINT_MAP ==
    [EQ |-> "INT_EQUAL", NE |-> "INT_NOTEQUAL", GT |-> "INT_SLESS",
     GE |-> "INT_SLESSEQUAL", LT |-> "INT_SLESS", LE |-> "INT_SLESSEQUAL"]

ASSUME ConstantsAssumption ==
    /\ MaxOps \in Nat /\ MaxDepth \in Nat /\ ARG_BASE \in Nat
    /\ Args \subseteq Nat /\ Operators \subseteq DOMAIN OPERATOR_MAP
    /\ Widths \subseteq Nat \ {0} /\ 1 \in Widths
    /\ Word \subseteq Int /\ {0, 1} \cup Literals \subseteq Word /\ 0 \in Literals
    /\ RegOffset \in [Registers \cup {"eflags"} -> Nat] /\ Hash \in [Strangers -> Nat]
    /\ \A a, b \in Word : \A o \in Operators : Alu(OPERATOR_MAP[o], a, b) \in Word
    /\ \A f \in Word, k \in 0..MaxDepth : \A s \in [1..k -> Word] : Result(f, s) \in Word
    /\ NoName \notin Names /\ \A i \in Args : <<"arg", i>> \notin Names \cup {NoName}
    /\ Starts \subseteq [cells : [Homes -> Word], held : [Homes -> Nat], mem : [Word -> Word]]

\* "no direct p-code equiv; closest is MULT"
Inexact == {"POW"}

\* What the translator relies on: an opcode of OPERATOR_MAP means what the
\* operator does.
ASSUME MappingAssumption ==
    \A o \in Operators \ Inexact : \A a, b \in Word : Alu(OPERATOR_MAP[o], a, b) = Arith(o, a, b)
-----------------------------------------------------------------------------
VARIABLES
    phase,      \* "idle"; "walk": between two paths of a function; "path"
    uniq,       \* _unique_counter
    order,      \* _order_counter
    stack,      \* results of _translate_ast not consumed yet
    ops,        \* all_ops of translate_effects
    all_ops,    \* all_ops of translate_function
    cells,      \* the machine: what was last written to each home
    held,       \* the size at which a home still has it, 0 for not at all
    lost,       \* an op has read what was not held
    mem, seen,
    node        \* history: the node or effect translated last

counters == <<uniq, order>>
machine == <<cells, held, lost, mem, seen>>
vars == <<phase, uniq, order, stack, ops, all_ops, cells, held, lost, mem, seen, node>>

Truth(b) == IF b THEN 1 ELSE 0

Value(vn) == IF vn.space = "const" THEN vn.offset ELSE cells[Home(vn)]

Whole(vn) == vn.space = "const" \/ held[Home(vn)] = vn.size

Values(inputs) == [i \in 1..Len(inputs) |-> Value(inputs[i])]

\* The output of an op whose inputs have the values v.
Computes(opcode, v) ==
    CASE opcode \in {"COPY", "INT_SEXT"} -> v[1]
      [] opcode = "LOAD" -> mem[v[2]]
      [] opcode = "CALL" -> Result(v[1], Tail(v))
      [] opcode = "BOOL_NEGATE" -> Truth(v[1] = 0)
      [] opcode = "INT_EQUAL" -> Truth(v[1] = v[2])
      [] opcode = "INT_NOTEQUAL" -> Truth(v[1] # v[2])
      [] opcode = "INT_SLESS" -> Truth(v[1] < v[2])
      [] opcode = "INT_SLESSEQUAL" -> Truth(v[1] <= v[2])
      [] OTHER -> Alu(opcode, v[1], v[2])

NoOutput == Varnode("none", 0, 1, NoName)

\* A write takes the storage from every home it overlaps.
Write(output, v) ==
    /\ cells' = [cells EXCEPT ![Home(output)] = v]
    /\ held' = [h \in Homes |-> IF h = Home(output) THEN output.size
                               ELSE IF Overlap(h, held[h], output) THEN 0 ELSE held[h]]

Execute(opcode, output, v) ==
    /\ IF output = NoOutput THEN UNCHANGED <<cells, held>> ELSE Write(output, Computes(opcode, v))
    /\ mem' = IF opcode = "STORE" THEN [mem EXCEPT ![v[2]] = v[3]] ELSE mem
    /\ seen' = IF opcode \in {"CALL", "CBRANCH"} THEN <<opcode, v>> ELSE seen

\* An op is built and appended; each takes the next order number.
Emit(opcode, output, inputs) ==
    /\ phase = "path" /\ Len(all_ops) + Len(ops) < MaxOps
    /\ order' = order + 1
    /\ ops' = Append(ops, [opcode |-> opcode, output |-> output, inputs |-> inputs,
                           order |-> order + 1])
    /\ IF ~lost /\ \A i \in DOMAIN inputs : Whole(inputs[i])
       THEN Execute(opcode, output, Values(inputs)) /\ UNCHANGED lost
       ELSE lost' = TRUE /\ UNCHANGED <<cells, held, mem, seen>>
    /\ UNCHANGED <<phase, all_ops>>
-----------------------------------------------------------------------------
(* _translate_ast *)

Leaf(n, vn) ==
    /\ node' = n
    /\ phase = "path" /\ Len(stack) < MaxDepth
    /\ stack' = Append(stack, vn)
    /\ UNCHANGED <<phase, counters, ops, all_ops, machine>>

\* A node that is missing is the constant 0, one of unknown type a variable.
Const == \E c \in Literals : Leaf(<<"Const", c>>, make_const(c))
Var == \E n \in Names, w \in Widths : Leaf(<<"Var", n>>, make_register(n, w))
Arg == \E i \in Args, w \in Widths : Leaf(<<"Arg", i>>, make_arg(i, w))

First == stack[Len(stack) - 1]
Second == stack[Len(stack)]

Results(n, k, vn) ==
    /\ node' = n
    /\ Len(stack) >= k
    /\ stack' = Append(SubSeq(stack, 1, Len(stack) - k), vn)

\* A node with k operands: its op puts the result in a new temporary of w bytes.
Node(n, k, w, opcode, inputs) ==
    /\ Results(n, k, unique(uniq, w)) /\ uniq' = uniq + 1
    /\ Emit(opcode, unique(uniq, w), inputs)

Mem == \E w \in Widths : Node(<<"Mem">>, 1, w, "LOAD", <<make_const(0), Second>>)
SExtend == \E w \in Widths : Node(<<"SExtend">>, 1, w, "INT_SEXT", <<Second>>)
CNot == Node(<<"CNot">>, 1, 1, "BOOL_NEGATE", <<Second>>)

translate_operator ==
    \E o \in Operators, w \in Widths :
        Node(<<"Operator", o>>, 2, w, OPERATOR_MAP[o], <<First, Second>>)

Bug_translate_constraint ==
    \E c \in DOMAIN CONSTRAINT_MAP :
        Node(<<"Constraint", c>>, 2, 1, CONSTRAINT_MAP[c], <<First, Second>>)

translate_constraint ==
    \E c \in DOMAIN CONSTRAINT_MAP :
        Node(<<"Constraint", c>>, 2, 1, CONSTRAINT_MAP[c],
             IF c \in {"GT", "GE"} THEN <<Second, First>> ELSE <<First, Second>>)

\* The target and the arguments of a call in an expression.
Operands(k) == SubSeq(stack, Len(stack) - k + 1, Len(stack))

Call ==
    \E k \in 1..Len(stack), w \in Widths : Node(<<"Call", k, FALSE>>, k, w, "CALL", Operands(k))

\* A call of width 0 has no output, and 0 is its result.
Bug_CallVoid ==
    \E k \in 1..Len(stack) :
        /\ Results(<<"Call", k, TRUE>>, k, unique(uniq, 1)) /\ uniq' = uniq + 1
        /\ Emit("CALL", NoOutput, Operands(k))

CallVoid ==
    \E k \in 1..Len(stack) :
        /\ Results(<<"Call", k, TRUE>>, k, make_const(0)) /\ UNCHANGED uniq
        /\ Emit("CALL", NoOutput, Operands(k))
-----------------------------------------------------------------------------
(* _translate_set_variable and its siblings: the expressions are translated *)

translate_set_variable ==
    \E n \in Names, w \in Widths :
        /\ node' = <<"SetVariable", n>>
        /\ Len(stack) = 1 /\ stack' = <<>> /\ UNCHANGED uniq
        /\ IF stack[1] = make_register(n, w)
           THEN phase = "path" /\ UNCHANGED <<phase, order, ops, all_ops, machine>>
           ELSE Emit("COPY", make_register(n, w), stack)

Bug_translate_read_memory ==
    /\ node' = <<"ReadMemory">>
    /\ Len(stack) = 1 /\ stack' = <<>> /\ UNCHANGED uniq
    /\ \E w \in Widths : Emit("LOAD", unique(uniq, w), <<make_const(0), stack[1]>>)

translate_read_memory ==
    /\ node' = <<"ReadMemory">>
    /\ Len(stack) = 1 /\ stack' = <<>> /\ uniq' = uniq + 1
    /\ \E w \in Widths : Emit("LOAD", unique(uniq, w), <<make_const(0), stack[1]>>)

translate_write_memory ==
    /\ node' = <<"WriteMemory">>
    /\ Len(stack) = 2 /\ stack' = <<>> /\ UNCHANGED uniq
    /\ Emit("STORE", NoOutput, <<make_const(0), stack[1], stack[2]>>)

translate_call_function ==
    /\ node' = <<"CallFunction">>
    /\ stack # <<>> /\ stack' = <<>> /\ UNCHANGED uniq
    /\ Emit("CALL", NoOutput, stack)

translate_constrain_path ==
    /\ node' = <<"ConstrainPath">>
    /\ Len(stack) = 2 /\ stack' = <<>> /\ UNCHANGED uniq
    /\ Emit("CBRANCH", NoOutput, <<stack[2], stack[1]>>)
-----------------------------------------------------------------------------
Bug_reset == UNCHANGED counters

reset == uniq' = 0 /\ order' = 0

Init ==
    /\ phase = "idle" /\ uniq = 0 /\ order = 0
    /\ stack = <<>> /\ ops = <<>> /\ all_ops = <<>>
    /\ \E s \in Starts : cells = s.cells /\ held = s.held /\ mem = s.mem
    /\ lost = FALSE /\ seen = <<>> /\ node = <<"Discard">>

translate_function ==
    /\ phase = "idle" /\ phase' = "walk" /\ reset
    /\ all_ops' = <<>> /\ UNCHANGED <<stack, ops, machine, node>>

\* The walk hands out a path, which is run from the entry of the function.
translate_effects ==
    /\ node' = <<"Enter">>
    /\ phase = "walk" /\ phase' = "path" /\ reset
    /\ \E s \in Starts : cells' = s.cells /\ held' = s.held /\ mem' = s.mem
    /\ lost' = FALSE /\ seen' = <<>> /\ UNCHANGED <<stack, ops, all_ops>>

PathDone ==
    /\ phase = "path" /\ stack = <<>> /\ phase' = "walk"
    /\ all_ops' = all_ops \o ops /\ ops' = <<>>
    /\ UNCHANGED <<counters, stack, machine, node>>

\* The walk or a translation raises: the ops of the path are lost.
WalkFails ==
    /\ node' = <<"Discard">>
    /\ phase # "idle" /\ phase' = "idle" /\ stack' = <<>> /\ ops' = <<>>
    /\ UNCHANGED <<counters, all_ops, machine>>

FunctionDone ==
    /\ phase = "walk" /\ phase' = "idle"
    /\ UNCHANGED <<counters, stack, ops, all_ops, machine, node>>

translate_ast ==
    \/ Const \/ Var \/ Arg \/ Mem \/ SExtend \/ CNot
    \/ translate_operator \/ translate_constraint \/ Call \/ CallVoid

translate_effect ==
    \/ translate_set_variable \/ translate_read_memory \/ translate_write_memory
    \/ translate_call_function \/ translate_constrain_path

Next ==
    \/ translate_function \/ translate_effects \/ PathDone \/ WalkFails \/ FunctionDone
    \/ translate_ast \/ translate_effect

Spec == Init /\ [][Next]_vars
=============================================================================
