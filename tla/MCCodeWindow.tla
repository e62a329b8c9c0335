---------------------------- MODULE MCCodeWindow ----------------------------
(* Texts, which a .cfg cannot write down: a query may overlap itself, occur     *)
(* three times, or stand behind a wide character.                              *)
EXTENDS CodeWindowInv
MCCodes == {<<>>, <<"a", "a", "a", "b">>, <<"a", "b", "a", "a">>, <<"w", "a", "b">>}
MCErrors == {<<"b">>}
MCQueries == {<<"a">>, <<"a", "a">>, <<"a", "b">>, <<"b">>}
=============================================================================
