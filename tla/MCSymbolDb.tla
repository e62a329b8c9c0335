----------------------------- MODULE MCSymbolDb -----------------------------
(* Values of SymbolDb's constants that a .cfg cannot write down. *)
EXTENDS SymbolDbInv, TLC

MCNames == {<<>>, <<"*.", "plt_", "puts">>}
MCArgNames == {<<"s">>}
MCTypes == {Star("int", 0), Star("double", 0), Star("FILE", 1), Star("void", 0), NoType}

Info(r, n, a, t, p) ==
    [raises |-> r, name |-> n, api |-> a, api_name |-> n, ret |-> t, params |-> p]
Puts == Info(FALSE, <<"*.", "plt_", "puts">>, TRUE, Star("void", 0), <<Star("FILE", 1)>>)
Unnamed == Info(FALSE, <<>>, FALSE, NoType, <<>>)
Raises == Info(TRUE, <<>>, FALSE, NoType, <<>>)
\* Its API has an empty name, which is what is sent.
Nameless == Info(FALSE, <<>>, TRUE, Star("int", 0), <<>>)
MCInfos == {Puts, Unnamed, Nameless, Raises}
MCEdits == {[name |-> <<>>, return_type |-> Star("double", 0), param_types |-> <<>>]}

MCLabels == {<<>>, <<<<"LAB">>>>}

\* What Vivisect knows does not matter any more when the symbols are on their way,
\* and what came before does not matter yet until then.
View ==
    <<script, phase, symbols, program, tries, writes,
      IF Applying THEN <<at, applied, before, touched, refused, repeated>> ELSE <<viv, fva>> >>

MCSymmetry == Permutations(Addresses)
=============================================================================
