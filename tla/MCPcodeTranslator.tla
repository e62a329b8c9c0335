-------------------------- MODULE MCPcodeTranslator --------------------------
(* Values of PcodeTranslator's constants that a .cfg cannot write down. *)
EXTENDS PcodeTranslatorInv, TLC, Functions

CONSTANTS eax, eflags_eq, eflags_lt, tmp

\* Words of three values, with arithmetic modulo 3.
MCWord == -1..1
Wrap(v) == ((v + 1) % 3) - 1
MCArith(o, a, b) == IF o = "ADD" THEN Wrap(a + b) ELSE Wrap(a - b)
MCAlu(opcode, a, b) == IF opcode = "INT_ADD" THEN Wrap(a + b) ELSE Wrap(a - b)
MCResult(f, s) == Wrap(f + Len(s))

MCRegOffset == (eax :> 0) @@ ("eflags" :> 136)
\* The name of a variable is hashed to where the second temporary is.
MCHash == tmp :> 1
\* Variables and memory start with values that tell them apart, at four bytes but
\* for the flags.
MCStarts ==
    {[cells |-> [h \in Homes |-> IF h[3] \in {eax, eflags_lt} THEN 1 ELSE IF h[3] = eflags_eq THEN 0 ELSE -1],
      held |-> [h \in Homes |-> IF h[3] = NoName THEN 0 ELSE IF h[3] \in Flags THEN 1 ELSE 4],
      mem |-> [a \in Word |-> Wrap(a + 1)]]}

Emitted == {ops[i].output : i \in DOMAIN ops}

\* What the properties tell apart.  Of the code: how much there is, whether it is
\* in order so far, and what of it the rest of the path may still run into, a
\* result on the stack that no op has assigned or an output whose number is to
\* come again.  Of the machine: what a path may still read.
View ==
    <<phase, uniq, order, stack, Len(all_ops) + Len(ops), AssignedOnce, DefinedBeforeUse,
      {i \in DOMAIN stack : stack[i] \in Uniques \ Emitted},
      {vn \in Emitted : IsTemporary(vn) /\ vn.offset >= uniq},
      IF phase # "path" THEN <<>>
      ELSE IF lost THEN <<lost>>
      ELSE LET live == {h \in Homes : h[3] # NoName \/ \E i \in DOMAIN stack : Home(stack[i]) = h}
           IN  <<mem, [h \in live |-> <<cells[h], held[h]>>]>> >>
=============================================================================
