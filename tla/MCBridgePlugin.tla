--------------------------- MODULE MCBridgePlugin ---------------------------
(* BridgePlugin for TLC: two connections, two programs opened in turn. *)
EXTENDS BridgePluginInv, TLC

CONSTANTS p1, p2, w1, w2, a1, a2

MCPrograms == {p1, p2}
MCWorkers == {w1, w2}
MCAddrs == {a1, a2}
MCOneAddr == {a1}

\* What the properties and later steps tell apart.  Code that has been answered is
\* read no more; names written for apply_symbols are compared with none; and an
\* applier matters while it is used, or to tell where the names are.
View ==
    LET sends == {w \in Workers : job[w] = "decompile_function"}
        wrote == {w \in sends : own[w] # NoNames}
    IN  <<event_vars, fields, initialized, monitor, names, writes, server, pc, job, left, service,
          [w \in Workers |-> IF w \in wrote THEN own[w] ELSE NoNames],
          [w \in Workers |-> IF pc[w] = "applying" \/ w \in wrote THEN applier[w] ELSE 0],
          [w \in Workers |-> IF pc[w] = "decompiling" THEN code[w] ELSE NoNames]>>

Symmetry == Permutations(MCPrograms) \cup Permutations(MCWorkers) \cup Permutations(MCAddrs)
============================================================================
