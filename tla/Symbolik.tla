------------------------------ MODULE Symbolik ------------------------------
(***************************************************************************)
(* What the symbolik effects of a path say, with neither varnodes nor      *)
(* temporaries: the effects of a path are run in order on the variables,   *)
(* the memory and the arguments of the function.  The expression of an     *)
(* effect is evaluated operands first: node is the node, or the effect,    *)
(* that was reached last, and values holds the results that are not        *)
(* consumed yet.  seen is what the path last showed to the outside, a call  *)
(* it made or a branch it is constrained by.                               *)
(***************************************************************************)
EXTENDS Integers, Sequences

CONSTANTS
    Names,          \* names of variables: registers, flags and others
    Args,           \* indices of arguments
    Literals,       \* values of constants, 0 is among them
    Word,           \* values: a word, read as a signed integer
    Operators,      \* operators of expressions, symtypes SYMT_OPER_*
    Inexact,        \* those that p-code can only come near
    Arith(_, _, _), \* the value of an operator
    Result(_, _)    \* the value of a call, by target and arguments

VARIABLES
    node, values, env, arg, mem, seen,
    lost    \* the path has read from storage that no longer has what it means

vars == <<node, values, env, arg, mem, seen, lost>>

Truth(b) == IF b THEN 1 ELSE 0

\* The first and the second of two operands, the one of one.
First == values[Len(values) - 1]
Second == values[Len(values)]

Enter ==
    /\ node' = <<"Enter">>
    /\ values' = <<>> /\ seen' = <<>> /\ lost' = FALSE
    /\ env' \in [Names -> Word] /\ arg' \in [Args -> Word] /\ mem' \in [Word -> Word]

Init ==
    /\ node = <<"Discard">>
    /\ values = <<>> /\ seen = <<>> /\ lost = FALSE
    /\ env \in [Names -> Word] /\ arg \in [Args -> Word] /\ mem \in [Word -> Word]

Push(n, v) ==
    /\ node' = n
    /\ values' = Append(values, v)
    /\ UNCHANGED <<env, arg, mem, seen>>

Const(c) == Push(<<"Const", c>>, c)
Var(n) == Push(<<"Var", n>>, env[n])
Arg(i) == Push(<<"Arg", i>>, arg[i])

\* The last k values give way to one computed from them.
Reduce(n, k, v) ==
    /\ node' = n
    /\ Len(values) >= k
    /\ values' = Append(SubSeq(values, 1, Len(values) - k), v)
    /\ UNCHANGED <<env, arg, mem>>

Evaluate(n, k, v) == Reduce(n, k, v) /\ UNCHANGED seen

Mem == Evaluate(<<"Mem">>, 1, mem[Second])
SExtend == Evaluate(<<"SExtend">>, 1, Second)
CNot == Evaluate(<<"CNot">>, 1, Truth(Second = 0))
Operator(o) ==
    \E v \in Word :
        /\ Evaluate(<<"Operator", o>>, 2, v)
        /\ o \notin Inexact => v = Arith(o, First, Second)
Eq == Evaluate(<<"Constraint", "EQ">>, 2, Truth(First = Second))
Ne == Evaluate(<<"Constraint", "NE">>, 2, Truth(First # Second))
Gt == Evaluate(<<"Constraint", "GT">>, 2, Truth(First > Second))
Ge == Evaluate(<<"Constraint", "GE">>, 2, Truth(First >= Second))
Lt == Evaluate(<<"Constraint", "LT">>, 2, Truth(First < Second))
Le == Evaluate(<<"Constraint", "LE">>, 2, Truth(First <= Second))

\* A call in an expression: its target and k - 1 arguments.  The value of one
\* that has none is 0.
Call(k, void) ==
    LET call == SubSeq(values, Len(values) - k + 1, Len(values))
    IN  /\ Reduce(<<"Call", k, void>>, k, IF void THEN 0 ELSE Result(call[1], Tail(call)))
        /\ seen' = <<"CALL", call>>

SetVariable(n) ==
    /\ node' = <<"SetVariable", n>>
    /\ Len(values) = 1 /\ values' = <<>>
    /\ env' = [env EXCEPT ![n] = values[1]]
    /\ UNCHANGED <<arg, mem, seen>>

WriteMemory ==
    /\ node' = <<"WriteMemory">>
    /\ Len(values) = 2 /\ values' = <<>>
    /\ mem' = [mem EXCEPT ![values[1]] = values[2]]
    /\ UNCHANGED <<env, arg, seen>>

CallFunction ==
    /\ node' = <<"CallFunction">>
    /\ values # <<>> /\ values' = <<>>
    /\ seen' = <<"CALL", values>>
    /\ UNCHANGED <<env, arg, mem>>

\* The constraint is evaluated before the address.
ConstrainPath ==
    /\ node' = <<"ConstrainPath">>
    /\ Len(values) = 2 /\ values' = <<>>
    /\ seen' = <<"CBRANCH", <<values[2], values[1]>>>>
    /\ UNCHANGED <<env, arg, mem>>

\* A read whose value nobody takes.
ReadMemory ==
    /\ node' = <<"ReadMemory">>
    /\ Len(values) = 1 /\ values' = <<>>
    /\ UNCHANGED <<env, arg, mem, seen>>

\* The path is given up.
Discard == node' = <<"Discard">> /\ values' = <<>> /\ UNCHANGED <<env, arg, mem, seen>>

Expression ==
    \/ \E c \in Literals : Const(c)
    \/ \E n \in Names : Var(n)
    \/ \E i \in Args : Arg(i)
    \/ Mem \/ SExtend \/ CNot
    \/ \E o \in Operators : Operator(o)
    \/ Eq \/ Ne \/ Gt \/ Ge \/ Lt \/ Le
    \/ \E k \in 1..Len(values), void \in BOOLEAN : Call(k, void)

Effect ==
    \/ \E n \in Names : SetVariable(n)
    \/ ReadMemory \/ WriteMemory \/ CallFunction \/ ConstrainPath \/ Discard

\* Nothing is said of a path that is lost, up to the next.
Next ==
    \/ Enter
    \/ (Expression \/ Effect) /\ ~lost /\ ~lost'
    \/ lost'

Spec == Init /\ [][Next]_vars
=============================================================================
