---------------------------- MODULE RpcLinkInv ----------------------------
(***************************************************************************)
(* The inductive invariant of RpcLink: where the calls of a connection can *)
(* be.  On every connection the calls that are consumed, those whose reply *)
(* is on its way, the one the worker handles and those waiting for it      *)
(* follow one another in the order they were made, and until a call of the *)
(* connection has timed out all of them are the call in progress.          *)
(***************************************************************************)
EXTENDS RpcLink

Pieces(s) == {s[i] : i \in DOMAIN s}

\* f was put on the wire before g.
Before(f, g) ==
    \/ f.call < g.call
    \/ f.call = g.call /\ f.part = "head" /\ g.part = "tail"

Sorted(s) == \A i, j \in DOMAIN s : i < j => Before(s[i], s[j])

\* The pieces of replies that connection c holds, those in buf included.
Arriving(c) == Pieces(down[c]) \cup (IF c = sock THEN Pieces(buf) ELSE {})

\* What the client has not done yet leaves no trace.
InvFresh ==
    /\ \A n \in Calls : n > calls => on[n] = 0 /\ outcome[n] = Raised("none")
    /\ \A n \in Calls : on[n] <= conns
    /\ \A n \in Calls : on[n] = 0 => outcome[n].reply = 0 /\ runs[n] = 0
    /\ connected => sock = conns
    /\ receiving => on[calls] = sock /\ outcome[calls] = Raised("pending")
    /\ ~receiving => buf = <<>>

\* A connection carries something only while an end is there to send it.
InvEnds ==
    \A c \in Conns :
        /\ c > conns <=> worker[c] = "none"
        /\ c # sock => down[c] = <<>>
        /\ worker[c] # "handling" => request[c] = NoRequest
        /\ worker[c] \in {"none", "closed"} => up[c] = <<>>

\* What a connection carries belongs to calls made on it.
InvOwn ==
    \A c \in Conns :
        /\ \A f \in Arriving(c) : on[f.call] = c /\ answer[f.call] # "none"
        /\ request[c].call # 0 => on[request[c].call] = c
        /\ \A f \in Pieces(up[c]) : on[f.call] = c

\* Replies on their way, the request being handled and those waiting are in
\* the order of the calls.
InvOrder ==
    /\ Sorted(buf) /\ Unterminated(buf)
    /\ receiving => \A f \in Pieces(buf), g \in Pieces(down[sock]) : Before(f, g)
    /\ \A c \in Conns :
        /\ Sorted(down[c]) /\ Sorted(up[c])
        /\ \A f \in Arriving(c), g \in Pieces(up[c]) : f.call < g.call
        /\ request[c].call # 0 =>
              /\ \A f \in Arriving(c) : f.call < request[c].call
              /\ \A g \in Pieces(up[c]) : request[c].call < g.call

\* What is still on a connection is later than every reply consumed from it.
InvConsumed ==
    \A n \in Calls :
        /\ outcome[n].kind = "result" => Answered(n)
        /\ Answered(n) =>
              /\ on[n] \in Conns
              /\ \A f \in Arriving(on[n]) \cup Pieces(up[on[n]]) : outcome[n].reply < f.call
              /\ request[on[n]].call # 0 => outcome[n].reply < request[on[n]].call

\* What still waits for the handler is later than every call it has run for.
InvRan ==
    \A n \in Calls :
        /\ runs[n] <= 1
        /\ answer[n] = "result" => runs[n] = 1
        /\ runs[n] > 0 =>
              /\ \A f \in Pieces(up[on[n]]) : n < f.call
              /\ request[on[n]].call # 0 => n < request[on[n]].call

\* A connection on which a call has seen the end of the stream is closed and
\* empty.
InvClosed ==
    \A m \in Calls : outcome[m].kind = "eof" =>
        on[m] \in Conns /\ worker[on[m]] = "closed" /\ down[on[m]] = <<>>

TimedOutOn(c) == \E t \in Calls : on[t] = c /\ outcome[t].kind = "timeout"

\* Until a call on it times out, the connection in use carries at most the call
\* in progress, and of its reply the tail never without the head.
InvClean ==
    connected /\ ~TimedOutOn(sock) =>
        /\ \A f \in Arriving(sock) \cup Pieces(up[sock]) : receiving /\ f.call = calls
        /\ request[sock].call # 0 => receiving /\ request[sock].call = calls
        /\ Piece(calls, "tail") \in Arriving(sock) => Piece(calls, "head") \in Arriving(sock)

IInv ==
    /\ TypeOK
    /\ InvFresh /\ InvEnds /\ InvOwn /\ InvOrder /\ InvConsumed /\ InvRan /\ InvClosed /\ InvClean
    /\ RepliesInOrder /\ OwnReplyUnlessTimeout /\ FramingLostOnlyByTimeout /\ HandlerRunsOnce
    /\ ClosedStaysClosed
============================================================================
