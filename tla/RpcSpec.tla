------------------------------ MODULE RpcSpec ------------------------------
(***************************************************************************)
(* What a caller of GhidraClient may rely on, without wire or server:      *)
(* calls are made one at a time, each on at most one connection, each      *)
(* returns or raises, and the replies a connection hands out are those of  *)
(* its own calls in the order they were made, one reply to one call.  The  *)
(* reply is the call's own until a call on the connection has timed out.   *)
(***************************************************************************)
EXTENDS Naturals

CONSTANTS MaxCalls, MaxConns

Calls == 1..MaxCalls
Conns == 1..MaxConns

VARIABLES
    calls,      \* calls made so far
    receiving,  \* the last one has not returned
    outcome,    \* how each call ended
    on          \* the connection each was sent on, 0 for none

vars == <<calls, receiving, outcome, on>>

Raised(k) == [kind |-> k, reply |-> 0]

Init ==
    /\ calls = 0 /\ receiving = FALSE
    /\ outcome = [n \in Calls |-> Raised("none")]
    /\ on = [n \in Calls |-> 0]

\* The calls made on the connection of the call in progress before it.
Earlier == {n \in Calls : n < calls /\ on[n] = on[calls]}

TimedOut == \E n \in Earlier : outcome[n].kind = "timeout"

NewCall(c, o, waits) ==
    /\ ~receiving /\ calls < MaxCalls
    /\ calls' = calls + 1 /\ receiving' = waits
    /\ outcome' = [outcome EXCEPT ![calls + 1] = o]
    /\ on' = [on EXCEPT ![calls + 1] = c]

\* Connections are never taken up again once a later one was used.
Usable(c) == \A n \in Calls : on[n] <= c

NotConnected == NewCall(0, Raised("notConnected"), FALSE)
Send(c) == Usable(c) /\ NewCall(c, Raised("pending"), TRUE)
SendTimeout(c) == Usable(c) /\ NewCall(c, Raised("timeout"), FALSE)

Return(o) ==
    /\ receiving /\ receiving' = FALSE
    /\ outcome' = [outcome EXCEPT ![calls] = o]
    /\ UNCHANGED <<calls, on>>

\* The reply of call m answers the call in progress: a reply not handed out
\* before, with none skipped back over, and the call's own unless one timed out.
Reply(m) ==
    /\ m <= calls /\ on[m] = on[calls]
    /\ \A n \in Earlier : outcome[n].reply < m
    /\ m = calls \/ TimedOut
    /\ \E k \in {"result", "error"} : Return([kind |-> k, reply |-> m])

Raise == \E k \in {"timeout", "eof", "socketError"} : Return(Raised(k))

Garbled == TimedOut /\ Return(Raised("badJson"))

Finish == (\E m \in Calls : Reply(m)) \/ Raise \/ Garbled

Next ==
    \/ NotConnected
    \/ \E c \in Conns : Send(c) \/ SendTimeout(c)
    \/ Finish

Spec == Init /\ [][Next]_vars
============================================================================
