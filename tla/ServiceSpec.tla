---------------------------- MODULE ServiceSpec ----------------------------
(***************************************************************************)
(* What a client of the plugin may rely on while programs are opened and   *)
(* closed: one program is open at a time, numbered in the order of their   *)
(* opening; a client is let in while one is open, decompiles in that one   *)
(* or in one opened later, and has its interface to itself until it is     *)
(* done: no interface is closed under a decompilation.                     *)
(***************************************************************************)
EXTENDS Naturals

CONSTANT Workers

VARIABLES
    latest,    \* programs opened so far
    open,      \* those whose interface is open
    server,    \* the program each client was let in for, 0 for no client
    using      \* the program it decompiles in, 0 for none

vars == <<latest, open, server, using>>

Init ==
    /\ latest = 0 /\ open = {}
    /\ server = [w \in Workers |-> 0] /\ using = [w \in Workers |-> 0]

Open ==
    /\ open = {}
    /\ latest' = latest + 1 /\ open' = {latest + 1}
    /\ UNCHANGED <<server, using>>

Close ==
    /\ open # {} /\ \A w \in Workers : using[w] = 0
    /\ open' = {}
    /\ UNCHANGED <<latest, server, using>>

Enter(w) ==
    /\ server[w] = 0
    /\ \E g \in open : server' = [server EXCEPT ![w] = g]
    /\ UNCHANGED <<latest, open, using>>

Leave(w) ==
    /\ server[w] # 0 /\ using[w] = 0
    /\ server' = [server EXCEPT ![w] = 0]
    /\ UNCHANGED <<latest, open, using>>

Begin(w) ==
    /\ server[w] # 0 /\ \A v \in Workers : using[v] = 0
    /\ \E g \in open : server[w] <= g /\ using' = [using EXCEPT ![w] = g]
    /\ UNCHANGED <<latest, open, server>>

End(w) ==
    /\ using[w] # 0
    /\ using' = [using EXCEPT ![w] = 0]
    /\ UNCHANGED <<latest, open, server>>

Next ==
    \/ Open \/ Close
    \/ \E w \in Workers : Enter(w) \/ Leave(w) \/ Begin(w) \/ End(w)

Spec == Init /\ [][Next]_vars
============================================================================
