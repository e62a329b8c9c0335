---- MODULE MCBridgeSession ----
(* Two functions, 10 apart like the image bases: an address that is not       *)
(* mapped may be that of the other function.                                  *)
EXTENDS BridgeSession
MCFuncs == {10, 20}
MCNames == {"main", "plt_main", "read"}
TwoNames == {"main", "read"}
MCBase == [n \in Names |-> IF n = "plt_main" THEN "main" ELSE n]
====
