------------------------- MODULE PcodeTranslatorInv -------------------------
(***************************************************************************)
(* What the code that PcodeTranslator emits must satisfy, and the          *)
(* inductive invariant from which it follows.                              *)
(***************************************************************************)
EXTENDS PcodeTranslator

Opcodes ==
    {OPERATOR_MAP[o] : o \in Operators} \cup {CONSTRAINT_MAP[c] : c \in DOMAIN CONSTRAINT_MAP}
        \cup {"COPY", "LOAD", "STORE", "CALL", "CBRANCH", "INT_SEXT", "BOOL_NEGATE"}

Ops ==
    [opcode : Opcodes, output : Fixed \cup Uniques \cup {NoOutput},
     inputs : Seq(Varnodes), order : Nat]

\* The counters stay within the ops of one path, since each path starts them
\* anew (_reset in translate_effects).
TypeOK ==
    /\ phase \in {"idle", "walk", "path"}
    /\ uniq \in 0..MaxOps /\ order \in 0..MaxOps
    /\ stack \in Seq(Varnodes)
    /\ ops \in Seq(Ops) /\ all_ops \in Seq(Ops)
    /\ cells \in [Homes -> Word] /\ held \in [Homes -> Nat] /\ lost \in BOOLEAN
    /\ mem \in [Word -> Word]

IsTemporary(vn) == vn.space = "unique" /\ vn.reg_name = NoName

AssignsOnce(code) ==
    \A i, j \in DOMAIN code :
        i < j /\ IsTemporary(code[i].output) => Home(code[i].output) # Home(code[j].output)

\* In the code of one path each sub-expression has a temporary of its own:
\* no temporary is the output of two ops (_next_unique).
AssignedOnce == AssignsOnce(ops)

\* An op never reads a temporary that no earlier op of its path has assigned:
\* operands are translated, and their ops appended, before the op itself.
DefinedBeforeUse ==
    \A i \in DOMAIN ops : \A k \in DOMAIN ops[i].inputs :
        IsTemporary(ops[i].inputs[k]) => \E j \in 1..i - 1 : ops[j].output = ops[i].inputs[k]

\* The ops of a path are numbered in the order they are in, so that (va, order)
\* tells those of one instruction apart (_next_order).
OrderedInPath == \A i, j \in DOMAIN ops : i < j => ops[i].order < ops[j].order
-----------------------------------------------------------------------------
Meaning ==
    INSTANCE Symbolik WITH
        values <- Values(stack),
        env <- [n \in Names |-> cells[Home(make_register(n, 1))]],
        arg <- [i \in Args |-> cells[Home(make_arg(i, 1))]]

\* Running the p-code of a path does to registers, variables and memory what its
\* effects say, in order, and makes the same calls and branches, until an op
\* reads a register, flag, variable or temporary that a write to another one has
\* destroyed since, or that was written at another size: comparisons have their
\* operands the right way round, a path whose varnodes keep out of each other's
\* storage is right to its end, and each path starts right whatever came before.
ImplementsSymbolik == Meaning!Spec
-----------------------------------------------------------------------------
\* Nothing is on the stack between paths; what is there is in a temporary that
\* has been handed out and assigned, or was there before the path.
StackInv ==
    /\ phase # "path" => stack = <<>> /\ ops = <<>>
    /\ Len(stack) <= MaxDepth
    /\ \A i \in DOMAIN stack : IsTemporary(stack[i]) =>
        /\ stack[i].offset < uniq
        /\ \E j \in DOMAIN ops : ops[j].output = stack[i]

\* The counters are ahead of what is in the code.
CodeInv ==
    /\ Len(all_ops) + Len(ops) <= MaxOps
    /\ phase = "path" => uniq <= Len(ops) /\ order = Len(ops)
    /\ \A j \in DOMAIN ops :
        /\ IsTemporary(ops[j].output) => ops[j].output.offset < uniq
        /\ ops[j].order = j

IInv ==
    /\ TypeOK /\ StackInv /\ CodeInv
    /\ AssignedOnce /\ DefinedBeforeUse
=============================================================================
