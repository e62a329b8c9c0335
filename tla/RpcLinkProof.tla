---------------------------- MODULE RpcLinkProof ----------------------------
(***************************************************************************)
(* RpcLinkInv!IInv is an invariant of RpcLink for every number of calls    *)
(* and connections, the properties of RpcLink follow from it, and RpcLink  *)
(* implements the safety part of RpcSpec.                                  *)
(***************************************************************************)
EXTENDS RpcStreams

----------------------------------------------------------------------------
(* Types *)

\* The unfinished line a send that times out may leave behind is a stream.
LEMMA HeadStream ==
    ASSUME NEW n \in Calls
    PROVE  /\ <<Piece(n, "head")>> \in Seq(Fragment) /\ Sorted(<<Piece(n, "head")>>)
           /\ Pieces(<<Piece(n, "head")>>) = {Piece(n, "head")}
<1>1. Piece(n, "head") \in Fragment
  BY LineStream
<1> DEFINE s == <<Piece(n, "head")>>
<1>2. s \in Seq(Fragment) /\ DOMAIN s = {1} /\ s[1] = Piece(n, "head")
  BY <1>1
<1> HIDE DEF s
<1>3. Sorted(s) /\ Pieces(s) = {Piece(n, "head")}
  BY <1>2 DEF Sorted, Pieces
<1> QED
  BY <1>2, <1>3 DEF s

\* Whatever ends a call is an Outcome.
LEMMA OutcomeTypes ==
    /\ \A k \in Kinds : Raised(k) \in Outcome
    /\ \A k \in Kinds, m \in Calls : [kind |-> k, reply |-> m] \in Outcome
  BY ConstantsAssumption DEF Outcome, Raised, Calls

\* The numbers of the socket in use and of the call in progress, and those of
\* the next connection and call within the bounds.
LEMMA InUse ==
    ASSUME TypeOK
    PROVE  /\ sock # 0 => sock \in Conns
           /\ receiving => sock \in Conns /\ calls \in Calls
           /\ calls < MaxCalls => calls + 1 \in Calls /\ calls + 1 \in 0..MaxCalls
           /\ conns < MaxConns => conns + 1 \in Conns
  BY ConstantsAssumption DEF TypeOK, Conns, Calls

\* Forgetting what was on its way to a replaced socket leaves streams.
LEMMA DropType == ASSUME TypeOK, DropSocket PROVE down' \in [Conns -> Seq(Fragment)]
  BY EmptyStream DEF TypeOK, DropSocket

\* The request a worker reads is the first or the last of those in its line.
LEMMA ParsesFirstOrLast ==
    ASSUME NEW s \in Seq(Fragment), NEW j \in 1..Len(s), NEW r \in Parses(SubSeq(s, 1, j))
    PROVE  \E i \in {1, j} : \E b \in BOOLEAN : r = [call |-> s[i].call, ok |-> b]
<1> DEFINE line == SubSeq(s, 1, j)
<1>1. Len(line) = j /\ line[1] = s[1] /\ line[j] = s[j]
  OBVIOUS
<1> HIDE DEF line
<1>2. \E b \in BOOLEAN : r \in {[call |-> line[1].call, ok |-> b], [call |-> line[Len(line)].call, ok |-> b]}
  BY DEF Parses, line
<1> QED
  BY <1>1, <1>2

\* Every step of client and server keeps the types, and the agreement of
\* GhidraClient's flags.
LEMMA TypeStep == ASSUME TypeOK, [Next]_vars PROVE TypeOK'
<1> USE ConstantsAssumption
<1>1. CASE Connect
  <2>1. down' \in [Conns -> Seq(Fragment)]
    BY <1>1, DropType DEF Connect
  <2>2. conns + 1 \in 0..MaxConns /\ conns + 1 \in Conns
    BY <1>1 DEF Connect, TypeOK, Conns
  <2>3. sock' \in 0..conns' /\ sock' # 0 /\ conns' \in 0..MaxConns
    BY <1>1, <2>2 DEF Connect, TypeOK
  <2>4. connected' \in BOOLEAN /\ receiving' \in BOOLEAN /\ ~receiving'
    BY <1>1 DEF Connect, TypeOK
  <2>5. /\ worker' \in [Conns -> {"none", "queued", "reading", "handling", "closed"}]
        /\ \A c \in Conns : worker'[c] = "handling" => request'[c].call # 0
    BY <1>1, <2>2 DEF Connect, TypeOK
  <2> QED
    BY <1>1, <2>1, <2>3, <2>4, <2>5 DEF Connect, TypeOK
<1>2. CASE ConnectRefused
  <2>1. down' \in [Conns -> Seq(Fragment)]
    BY <1>2, DropType DEF ConnectRefused
  <2> QED
    BY <1>2, <2>1 DEF ConnectRefused, TypeOK, workers
<1>3. CASE Close
  <2>1. down' \in [Conns -> Seq(Fragment)]
    BY <1>3, DropType DEF Close
  <2>2. connected' \in BOOLEAN /\ ~connected' /\ ~receiving' /\ receiving' \in BOOLEAN
    BY <1>3 DEF Close, TypeOK
  <2> QED
    BY <1>3, <2>1, <2>2 DEF Close, TypeOK, workers
<1>4. CASE CallNotConnected
  BY <1>4, InUse, OutcomeTypes DEF CallNotConnected, TypeOK, workers, wire, Kinds
<1>5. CASE Call
  <2>1. sock \in Conns /\ calls + 1 \in Calls
    BY <1>5, InUse DEF Call, TypeOK
  <2>2. up' \in [Conns -> Seq(Fragment)]
    BY <1>5, <2>1, LineStream, CatStreams DEF Call, TypeOK
  <2>3. on' \in [Calls -> 0..MaxConns]
    BY <1>5, <2>1 DEF Call, TypeOK, Conns
  <2>4. outcome' \in [Calls -> Outcome]
    BY <1>5, <2>1, OutcomeTypes DEF Call, TypeOK, Kinds
  <2>5. calls' \in 0..MaxCalls /\ calls' # 0
    BY <1>5 DEF Call, TypeOK
  <2>6. connected' = connected /\ connected /\ receiving' \in BOOLEAN
    BY <1>5 DEF Call
  <2> QED
    BY <1>5, <2>2, <2>3, <2>4, <2>5, <2>6, EmptyStream DEF Call, TypeOK, workers
<1>6. CASE CallSendTimeout
  <2>1. sock \in Conns /\ calls + 1 \in Calls
    BY <1>6, InUse DEF CallSendTimeout, TypeOK
  <2>2. up' \in [Conns -> Seq(Fragment)]
    <3>1. PICK sent \in {<<>>, <<Piece(calls + 1, "head")>>} :
            up' = [up EXCEPT ![sock] = @ \o sent]
      BY <1>6 DEF CallSendTimeout
    <3>2. sent \in Seq(Fragment)
      BY <2>1, <3>1, EmptyStream, HeadStream
    <3>3. up[sock] \o sent \in Seq(Fragment)
      BY <2>1, <3>2, CatStreams DEF TypeOK
    <3> QED
      BY <2>1, <3>1, <3>3 DEF TypeOK
  <2>3. on' \in [Calls -> 0..MaxConns]
    BY <1>6, <2>1 DEF CallSendTimeout, TypeOK, Conns
  <2>4. outcome' \in [Calls -> Outcome]
    BY <1>6, <2>1, OutcomeTypes DEF CallSendTimeout, TypeOK, Kinds
  <2>5. calls' \in 0..MaxCalls
    BY <1>6 DEF CallSendTimeout, TypeOK
  <2>6. connected' = connected /\ receiving' = receiving /\ ~receiving
    BY <1>6 DEF CallSendTimeout
  <2> QED
    BY <1>6, <2>2, <2>3, <2>4, <2>5, <2>6 DEF CallSendTimeout, TypeOK, workers
<1>7. CASE RecvMore
  <2>1. sock \in Conns
    BY <1>7, InUse DEF RecvMore
  <2>2. PICK k \in DOMAIN down[sock] :
            /\ buf' = buf \o SubSeq(down[sock], 1, k)
            /\ down' = [down EXCEPT ![sock] = From(@, k)]
    BY <1>7 DEF RecvMore
  <2>3. down[sock] \in Seq(Fragment) /\ k \in 1..Len(down[sock])
    BY <2>1 DEF TypeOK
  <2>4. From(down[sock], k) \in Seq(Fragment) /\ SubSeq(down[sock], 1, k) \in Seq(Fragment)
    BY <2>3, SubStreams DEF From
  <2>5. buf' \in Seq(Fragment)
    BY <2>2, <2>4, CatStreams DEF TypeOK
  <2> QED
    BY <1>7, <2>1, <2>2, <2>4, <2>5 DEF RecvMore, TypeOK, workers
<1>8. CASE RecvLine
  <2>1. sock \in Conns /\ calls \in Calls
    BY <1>8, InUse DEF RecvLine
  <2>2. PICK k \in DOMAIN down[sock] : \E j \in 1..k :
            /\ LineEndsAt(down[sock], j)
            /\ down' = [down EXCEPT ![sock] = From(@, k)]
            /\ Return(IF WellFormed(buf \o SubSeq(down[sock], 1, j))
                      THEN [kind |-> answer[down[sock][j].call], reply |-> down[sock][j].call]
                      ELSE Raised("badJson"))
    BY <1>8 DEF RecvLine
  <2>9. PICK j \in 1..k :
            /\ down' = [down EXCEPT ![sock] = From(@, k)]
            /\ Return(IF WellFormed(buf \o SubSeq(down[sock], 1, j))
                      THEN [kind |-> answer[down[sock][j].call], reply |-> down[sock][j].call]
                      ELSE Raised("badJson"))
    BY <2>2
  <2>3. down[sock] \in Seq(Fragment) /\ k \in 1..Len(down[sock]) /\ j \in 1..Len(down[sock])
    BY <2>1, <2>9 DEF TypeOK
  <2>4. From(down[sock], k) \in Seq(Fragment)
    BY <2>3, SubStreams DEF From
  <2>5. down[sock][j].call \in Calls
    <3>1. down[sock][j] \in Fragment
      BY <2>3
    <3> QED
      BY <3>1 DEF Fragment
  <2>6. answer[down[sock][j].call] \in Kinds
    BY <2>5 DEF TypeOK, Kinds
  <2>7. outcome' \in [Calls -> Outcome]
    BY <2>1, <2>9, <2>5, <2>6, OutcomeTypes DEF TypeOK, Return, Kinds
  <2> QED
    BY <1>8, <2>1, <2>9, <2>4, <2>7, EmptyStream DEF RecvLine, TypeOK, workers, Return
<1>9. CASE RecvTimeout \/ RecvEof \/ SocketError
  <2>1. calls \in Calls
    BY <1>9, InUse DEF RecvTimeout, RecvEof, SocketError
  <2>2. outcome' \in [Calls -> Outcome]
    BY <1>9, <2>1, OutcomeTypes DEF TypeOK, RecvTimeout, RecvEof, SocketError, Return, Kinds
  <2> QED
    BY <1>9, <2>2, EmptyStream DEF RecvTimeout, RecvEof, SocketError, TypeOK, workers, wire, Return
<1>10. CASE Start \/ AcceptError
  BY <1>10 DEF Start, AcceptError, TypeOK, client, wire, workers
<1>11. CASE Stop
  BY <1>11, EmptyStream DEF Stop, TypeOK, client
<1>12. CASE Exit
  <2>1. PICK kept \in [Conns -> 0..(2 * MaxCalls)] :
            /\ \A c \in Conns : kept[c] <= Len(down[c])
            /\ down' = [c \in Conns |-> SubSeq(down[c], 1, kept[c])]
    BY <1>12 DEF Exit
  <2>2. \A c \in Conns : SubSeq(down[c], 1, kept[c]) \in Seq(Fragment)
    <3> TAKE c \in Conns
    <3>1. down[c] \in Seq(Fragment) /\ kept[c] \in 0..Len(down[c])
      BY <2>1 DEF TypeOK
    <3> QED
      BY <3>1, SubStreams
  <2>3. down' \in [Conns -> Seq(Fragment)]
    BY <2>1, <2>2
  <2>4. NoRequest \in [call : 0..MaxCalls, ok : BOOLEAN]
    BY DEF NoRequest
  <2> QED
    BY <1>12, <2>3, <2>4, EmptyStream DEF Exit, TypeOK, client
<1>13. ASSUME NEW c \in Conns, Accept(c) PROVE TypeOK'
  BY <1>13 DEF Accept, TypeOK, client, wire
<1>14. ASSUME NEW c \in Conns, WorkerRead(c) PROVE TypeOK'
  <2>1. PICK j \in DOMAIN up[c] :
           /\ \E r \in Parses(SubSeq(up[c], 1, j)) : request' = [request EXCEPT ![c] = r]
           /\ up' = [up EXCEPT ![c] = From(@, j)]
    BY <1>14 DEF WorkerRead
  <2>2. up[c] \in Seq(Fragment) /\ j \in 1..Len(up[c])
    BY <1>14 DEF TypeOK
  <2>3. From(up[c], j) \in Seq(Fragment)
    BY <2>2, SubStreams DEF From
  <2>4. PICK r \in Parses(SubSeq(up[c], 1, j)) : request' = [request EXCEPT ![c] = r]
    BY <2>1
  <2>5. up[c][1].call \in Calls /\ up[c][j].call \in Calls
    <3>1. up[c][1] \in Fragment /\ up[c][j] \in Fragment
      BY <2>2
    <3> QED
      BY <3>1 DEF Fragment
  <2>50. r.call \in Calls /\ r \in [call : 0..MaxCalls, ok : BOOLEAN]
    BY <2>2, <2>5, ParsesFirstOrLast DEF Calls
  <2>6. request' \in [Conns -> [call : 0..MaxCalls, ok : BOOLEAN]] /\ request'[c].call # 0
    BY <1>14, <2>4, <2>50 DEF TypeOK, Calls
  <2>7. up' \in [Conns -> Seq(Fragment)]
    BY <2>1, <2>3 DEF TypeOK
  <2>8. \A d \in Conns : d # c => request'[d] = request[d] /\ worker'[d] = worker[d]
    BY <1>14, <2>1 DEF WorkerRead, TypeOK
  <2> QED
    BY <1>14, <2>6, <2>7, <2>8 DEF WorkerRead, TypeOK, client
<1>15. ASSUME NEW c \in Conns, WorkerAnswer(c) PROVE TypeOK'
  <2>1. request[c].call \in Calls /\ request[c].ok \in BOOLEAN
    BY <1>15 DEF WorkerAnswer, TypeOK, Calls
  <2>2. down' \in [Conns -> Seq(Fragment)]
    BY <1>15, <2>1, LineStream, CatStreams DEF WorkerAnswer, TypeOK
  <2>3. answer' \in [Calls -> {"none", "result", "error"}]
    BY <1>15, <2>1 DEF WorkerAnswer, TypeOK
  <2>4. runs' \in [Calls -> Nat]
    BY <1>15, <2>1 DEF WorkerAnswer, TypeOK
  <2>5. request' \in [Conns -> [call : 0..MaxCalls, ok : BOOLEAN]]
    BY <1>15 DEF WorkerAnswer, TypeOK, NoRequest
  <2>6. \A d \in Conns : worker'[d] = "handling" => request'[d].call # 0
    BY <1>15 DEF WorkerAnswer, TypeOK
  <2> QED
    BY <1>15, <2>2, <2>3, <2>4, <2>5, <2>6 DEF WorkerAnswer, TypeOK, client
<1>16. ASSUME NEW c \in Conns, WorkerExit(c) PROVE TypeOK'
  BY <1>16, EmptyStream DEF WorkerExit, TypeOK, client
<1>17. ASSUME NEW c \in Conns, WorkerDies(c) PROVE TypeOK'
  <2>1. request[c].call \in Calls /\ request[c].ok \in BOOLEAN
    BY <1>17 DEF WorkerDies, TypeOK, Calls
  <2>4. runs' \in [Calls -> Nat]
    BY <1>17, <2>1 DEF WorkerDies, TypeOK
  <2>5. request' \in [Conns -> [call : 0..MaxCalls, ok : BOOLEAN]]
    BY <1>17 DEF WorkerDies, TypeOK, NoRequest
  <2>6. \A d \in Conns : worker'[d] = "handling" => request'[d].call # 0
    BY <1>17 DEF WorkerDies, TypeOK
  <2> QED
    BY <1>17, <2>4, <2>5, <2>6, EmptyStream DEF WorkerDies, TypeOK, client
<1>18. CASE UNCHANGED vars
  BY <1>18 DEF TypeOK, vars, client, wire, workers
<1> QED
  BY <1>1, <1>2, <1>3, <1>4, <1>5, <1>6, <1>7, <1>8, <1>9, <1>10, <1>11, <1>12, <1>13,
     <1>14, <1>15, <1>16, <1>17, <1>18 DEF Next, ClientReturns, Worker

----------------------------------------------------------------------------
(* Steps that take pieces away *)

\* A step after which no connection holds anything it did not hold before.
Shrinks ==
    \A c \in Conns :
        /\ Pieces(up'[c]) \subseteq Pieces(up[c]) /\ Sorted(up'[c])
        /\ Arriving(c)' \subseteq Arriving(c) /\ Sorted(down'[c])
        /\ request'[c] \in {request[c], NoRequest}

\* A call the handler has run, or that was answered, was sent on a connection.
LEMMA OwnConn ==
    ASSUME TypeOK, InvFresh, NEW n \in Calls
    PROVE  /\ on[n] = 0 \/ on[n] \in Conns
           /\ runs[n] > 0 => on[n] \in Conns
           /\ Answered(n) => on[n] \in Conns
<1>1. on[n] \in 0..MaxConns
  BY DEF TypeOK
<1>2. on[n] = 0 \/ on[n] \in Conns
  BY <1>1, ConstantsAssumption DEF Conns
<1>3. on[n] = 0 => outcome[n].reply = 0 /\ runs[n] = 0
  BY DEF InvFresh
<1>4. runs[n] \in Nat
  BY DEF TypeOK
<1> QED
  BY <1>2, <1>3, <1>4 DEF Answered

\* A step that only takes pieces away leaves every piece on its call's
\* connection.
LEMMA ShrinkOwn ==
    ASSUME TypeOK, InvOwn, Shrinks, on' = on, answer' = answer
    PROVE  InvOwn'
<1> SUFFICES ASSUME NEW c \in Conns
             PROVE  /\ \A f \in Arriving(c)' : on[f.call] = c /\ answer[f.call] # "none"
                    /\ request'[c].call # 0 => on[request'[c].call] = c
                    /\ \A f \in Pieces(up'[c]) : on[f.call] = c
  BY DEF InvOwn
<1>1. /\ \A f \in Arriving(c) : on[f.call] = c /\ answer[f.call] # "none"
      /\ request[c].call # 0 => on[request[c].call] = c
      /\ \A f \in Pieces(up[c]) : on[f.call] = c
  BY DEF InvOwn
<1>2. /\ Arriving(c)' \subseteq Arriving(c) /\ Pieces(up'[c]) \subseteq Pieces(up[c])
      /\ request'[c] = request[c] \/ request'[c].call = 0
  BY DEF Shrinks, NoRequest
<1> QED
  BY <1>1, <1>2

\* A step that only takes pieces away leaves the rest in order.
LEMMA ShrinkOrder ==
    ASSUME TypeOK, InvOrder, Shrinks, Sorted(buf'), Unterminated(buf'),
           receiving' => \A f \in Pieces(buf'), g \in Pieces(down'[sock']) : Before(f, g)
    PROVE  InvOrder'
<1>1. ASSUME NEW c \in Conns
      PROVE  /\ Sorted(down'[c]) /\ Sorted(up'[c])
             /\ \A f \in Arriving(c)', g \in Pieces(up'[c]) : f.call < g.call
             /\ request'[c].call # 0 =>
                   /\ \A f \in Arriving(c)' : f.call < request'[c].call
                   /\ \A g \in Pieces(up'[c]) : request'[c].call < g.call
  BY <1>1 DEF InvOrder, Shrinks, NoRequest
<1> QED
  BY <1>1 DEF InvOrder

\* A step that only takes pieces away, and answers no call, leaves all that is
\* left behind what was consumed.
LEMMA ShrinkConsumed ==
    ASSUME TypeOK, InvFresh, InvConsumed, Shrinks, on' = on,
           \A n \in Calls : /\ outcome'[n].reply = 0 \/ outcome'[n].reply = outcome[n].reply
                            /\ outcome'[n].kind = "result" => outcome'[n] = outcome[n]
    PROVE  InvConsumed'
<1>0. \A n \in Calls : outcome'[n].kind = "result" => outcome'[n].reply # 0
  BY DEF InvConsumed, Answered
<1> SUFFICES ASSUME NEW n \in Calls, outcome'[n].reply # 0
             PROVE  /\ on[n] \in Conns
                    /\ \A f \in Arriving(on[n])' \cup Pieces(up'[on[n]]) : outcome'[n].reply < f.call
                    /\ request'[on[n]].call # 0 => outcome'[n].reply < request'[on[n]].call
  BY <1>0 DEF InvConsumed, Answered
<1>1. Answered(n) /\ on[n] \in Conns /\ outcome'[n].reply = outcome[n].reply
  <2>1. outcome'[n].reply = outcome[n].reply /\ outcome[n].reply # 0
    OBVIOUS
  <2> QED
    BY <2>1 DEF InvConsumed, Answered
<1>2. /\ \A f \in Arriving(on[n]) \cup Pieces(up[on[n]]) : outcome[n].reply < f.call
      /\ request[on[n]].call # 0 => outcome[n].reply < request[on[n]].call
  BY <1>1 DEF InvConsumed
<1>3. Arriving(on[n])' \subseteq Arriving(on[n])
  <2>1. \A c \in Conns : Arriving(c)' \subseteq Arriving(c)
    BY DEF Shrinks
  <2>2. ASSUME NEW c \in Conns, c = on[n]
        PROVE  Arriving(on[n])' \subseteq Arriving(on[n])
    BY <2>1, <2>2 DEF Arriving
  <2> QED
    BY <1>1, <2>2
<1>4. Pieces(up'[on[n]]) \subseteq Pieces(up[on[n]]) /\ request'[on[n]] \in {request[on[n]], NoRequest}
  BY <1>1 DEF Shrinks
<1> QED
  BY <1>1, <1>2, <1>3, <1>4 DEF NoRequest

\* A step that only takes pieces away, and runs nothing, leaves all that waits
\* behind what has run.
LEMMA ShrinkRan ==
    ASSUME TypeOK, InvFresh, InvRan, Shrinks, on' = on, answer' = answer, runs' = runs
    PROVE  InvRan'
<1> SUFFICES ASSUME NEW n \in Calls, runs[n] > 0
             PROVE  /\ \A f \in Pieces(up'[on[n]]) : n < f.call
                    /\ request'[on[n]].call # 0 => n < request'[on[n]].call
  BY DEF InvRan
<1> QED
  BY OwnConn DEF InvRan, Shrinks, NoRequest

\* The steps that only take things away.
LEMMA ClientShrinks ==
    ASSUME IInv, Connect \/ ConnectRefused \/ Close \/ CallNotConnected
                 \/ RecvTimeout \/ RecvEof \/ SocketError
    PROVE  /\ Shrinks /\ buf' = <<>>
           /\ on' = on /\ answer' = answer /\ runs' = runs
<1>1. buf' = <<>> /\ on' = on /\ answer' = answer /\ runs' = runs /\ up' = up /\ request' = request
  BY DEF IInv, InvFresh, Connect, ConnectRefused, Close, CallNotConnected, RecvTimeout, RecvEof,
         SocketError, Return, workers, wire
<1>2. ASSUME NEW c \in Conns PROVE down'[c] \in {<<>>, down[c]}
  BY <1>2 DEF IInv, Connect, ConnectRefused, Close, CallNotConnected, RecvTimeout, RecvEof,
         SocketError, DropSocket, wire
<1>3. ASSUME NEW c \in Conns
      PROVE  Arriving(c)' \subseteq Arriving(c) /\ Sorted(down'[c])
  BY <1>1, <1>2, <1>3, EmptyStream DEF Arriving, IInv, InvOrder
<1>4. Shrinks
  BY <1>1, <1>3 DEF Shrinks, IInv, InvOrder
<1> QED
  BY <1>1, <1>4

\* recv without a newline moves pieces to buf and leaves them in order.
LEMMA RecvMoreShrinks ==
    ASSUME IInv, RecvMore
    PROVE  /\ Shrinks /\ Sorted(buf') /\ Unterminated(buf')
           /\ \A f \in Pieces(buf'), g \in Pieces(down'[sock']) : Before(f, g)
           /\ Arriving(sock)' = Arriving(sock)
<1>1. PICK k \in DOMAIN down[sock] :
          /\ Unterminated(SubSeq(down[sock], 1, k))
          /\ buf' = buf \o SubSeq(down[sock], 1, k)
          /\ down' = [down EXCEPT ![sock] = From(@, k)]
  BY DEF RecvMore
<1>2. sock \in Conns /\ down[sock] \in Seq(Fragment) /\ Sorted(down[sock])
      /\ buf \in Seq(Fragment) /\ Sorted(buf) /\ Unterminated(buf)
  BY InUse DEF RecvMore, IInv, TypeOK, InvOrder
<1> DEFINE taken == SubSeq(down[sock], 1, k)
           left == From(down[sock], k)
<1>3. /\ taken \in Seq(Fragment) /\ Sorted(taken)
      /\ Sorted(left) /\ Pieces(left) \subseteq Pieces(down[sock])
      /\ \A f \in Pieces(taken), g \in Pieces(left) : Before(f, g)
      /\ Pieces(down[sock]) = Pieces(taken) \cup Pieces(left)
  <2>1. k \in 1..Len(down[sock]) /\ k \in 0..Len(down[sock]) /\ 1 \in 1..(Len(down[sock]) + 1)
    BY <1>1, <1>2
  <2>2. taken \in Seq(Fragment) /\ Sorted(taken)
    BY <1>2, <2>1, SubStreams
  <2> QED
    BY <1>1, <1>2, <2>2, CutStream
<1>4. buf' = buf \o taken /\ down'[sock] = left
  BY <1>1, <1>2 DEF IInv, TypeOK
<1> HIDE DEF taken, left
<1>5. \A f \in Pieces(buf), g \in Pieces(down[sock]) : Before(f, g)
  BY DEF RecvMore, IInv, InvOrder
<1>6. Sorted(buf') /\ Unterminated(buf') /\ Pieces(buf') = Pieces(buf) \cup Pieces(taken)
  <2>1. Unterminated(taken)
    BY <1>1 DEF taken
  <2>2. \A f \in Pieces(buf), g \in Pieces(taken) : Before(f, g)
    BY <1>3, <1>5
  <2> QED
    BY <1>2, <1>3, <1>4, <2>1, <2>2, CatStreams
<1>7. Arriving(sock)' = Arriving(sock)
  BY <1>3, <1>4, <1>6 DEF Arriving, RecvMore
<1>8. \A c \in Conns : c # sock => down'[c] = down[c]
  BY <1>1 DEF IInv, TypeOK
<1>9. up' = up /\ request' = request /\ sock' = sock
  BY DEF RecvMore, workers
<1>10. ASSUME NEW c \in Conns PROVE Arriving(c)' \subseteq Arriving(c) /\ Sorted(down'[c])
  <2>1. CASE c = sock
    BY <2>1, <1>3, <1>4, <1>7, <1>9 DEF Arriving
  <2>2. CASE c # sock
    BY <2>2, <1>8, <1>9 DEF Arriving, IInv, InvOrder
  <2> QED
    BY <2>1, <2>2
<1>11. Shrinks
  BY <1>9, <1>10 DEF Shrinks, IInv, InvOrder
<1> QED
  BY <1>3, <1>4, <1>5, <1>6, <1>7, <1>9, <1>11

\* recv of a newline ends the call and empties buf.
LEMMA RecvLineShrinks ==
    ASSUME IInv, RecvLine
    PROVE  Shrinks /\ buf' = <<>>
<1>1. PICK k \in DOMAIN down[sock] : down' = [down EXCEPT ![sock] = From(@, k)]
  BY DEF RecvLine
<1>2. sock \in Conns /\ down[sock] \in Seq(Fragment) /\ Sorted(down[sock])
  BY InUse DEF RecvLine, IInv, TypeOK, InvOrder
<1>3. Sorted(From(down[sock], k)) /\ Pieces(From(down[sock], k)) \subseteq Pieces(down[sock])
  BY <1>2, CutStream
<1>4. up' = up /\ request' = request /\ sock' = sock /\ buf' = <<>>
  BY DEF RecvLine, workers, Return
<1>5. ASSUME NEW c \in Conns PROVE Arriving(c)' \subseteq Arriving(c) /\ Sorted(down'[c])
  <2>1. CASE c = sock
    BY <2>1, <1>1, <1>2, <1>3, <1>4, EmptyStream DEF Arriving, IInv, TypeOK
  <2>2. CASE c # sock
    BY <2>2, <1>1, <1>4 DEF Arriving, IInv, InvOrder, TypeOK
  <2> QED
    BY <2>1, <2>2
<1> QED
  BY <1>4, <1>5 DEF Shrinks, IInv, InvOrder

\* Steps of the server that neither read nor answer a request only take things
\* away.
LEMMA ServerShrinks ==
    ASSUME IInv, \/ Start \/ AcceptError \/ Stop \/ Exit
                 \/ \E c \in Conns : Accept(c) \/ WorkerExit(c) \/ WorkerDies(c)
    PROVE  /\ Shrinks /\ client' = client /\ answer' = answer
           /\ \A c \in Conns : Pieces(down'[c]) \subseteq Pieces(down[c])
<1>1. client' = client /\ answer' = answer
  BY DEF Start, AcceptError, Stop, Exit, Accept, WorkerExit, WorkerDies, workers
<1>2. ASSUME NEW c \in Conns
      PROVE up'[c] \in {up[c], <<>>} /\ request'[c] \in {request[c], NoRequest}
  BY <1>2 DEF Start, AcceptError, Stop, Exit, Accept, WorkerExit, WorkerDies, workers, wire, IInv, TypeOK
<1>3. ASSUME NEW c \in Conns
      PROVE Pieces(down'[c]) \subseteq Pieces(down[c]) /\ Sorted(down'[c])
  <2>1. CASE Exit
    <3>1. PICK kept \in [Conns -> 0..(2 * MaxCalls)] :
              /\ \A d \in Conns : kept[d] <= Len(down[d])
              /\ down' = [d \in Conns |-> SubSeq(down[d], 1, kept[d])]
      BY <2>1 DEF Exit
    <3>2. down[c] \in Seq(Fragment) /\ kept[c] \in 0..Len(down[c]) /\ down'[c] = SubSeq(down[c], 1, kept[c])
      BY <3>1, ConstantsAssumption DEF IInv, TypeOK
    <3>3. 1 \in 1..(Len(down[c]) + 1) /\ 1 <= kept[c] + 1
      BY <3>2
    <3>4. Sorted(down[c])
      BY DEF IInv, InvOrder
    <3> QED
      BY <3>2, <3>3, <3>4, SubStreams
  <2>2. CASE ~Exit
    <3>1. down' = down
      BY <2>2 DEF Start, AcceptError, Stop, Accept, WorkerExit, WorkerDies, wire
    <3> QED
      BY <3>1 DEF IInv, InvOrder
  <2> QED
    BY <2>1, <2>2
<1>4. ASSUME NEW c \in Conns
      PROVE  /\ Pieces(up'[c]) \subseteq Pieces(up[c]) /\ Sorted(up'[c])
             /\ Arriving(c)' \subseteq Arriving(c)
  BY <1>1, <1>2, <1>3, EmptyStream DEF Arriving, client, IInv, InvOrder
<1> QED
  BY <1>1, <1>2, <1>3, <1>4 DEF Shrinks

----------------------------------------------------------------------------
(* Steps that send, read and answer *)

\* A piece on a connection belongs to a call made on that connection.
LEMMA PieceCalls ==
    ASSUME IInv, NEW c \in Conns, NEW f \in Arriving(c) \cup Pieces(up[c])
    PROVE  f \in Fragment /\ f.call \in Calls /\ f.call <= calls /\ on[f.call] = c
<1>1. f \in Fragment
  BY StreamElements DEF Arriving, IInv, TypeOK
<1>2. f.call \in Calls
  BY <1>1 DEF Fragment
<1>3. on[f.call] = c
  BY DEF IInv, InvOwn
<1> QED
  BY <1>1, <1>2, <1>3 DEF IInv, InvFresh, TypeOK, Calls, Conns

\* The request a worker handles belongs to a call made on its connection.
LEMMA RequestCall ==
    ASSUME IInv, NEW c \in Conns, request[c].call # 0
    PROVE  request[c].call \in Calls /\ request[c].call <= calls /\ on[request[c].call] = c
<1>1. request[c].call \in Calls /\ on[request[c].call] = c
  BY ConstantsAssumption DEF IInv, InvOwn, TypeOK, Calls
<1> QED
  BY <1>1 DEF IInv, InvFresh, TypeOK, Calls, Conns

\* A call that is sent, whole or in part, is behind everything on its connection.
LEMMA Sends ==
    ASSUME IInv, Call \/ CallSendTimeout
    PROVE  /\ sock \in Conns /\ calls + 1 \in Calls /\ calls' = calls + 1 /\ connected
           /\ buf = <<>> /\ buf' = <<>> /\ ~receiving
           /\ UNCHANGED <<sock, conns, connected, down, server, workers>>
           /\ on' = [on EXCEPT ![calls + 1] = sock] /\ on[calls + 1] = 0
           /\ \A m \in Calls : m # calls + 1 => on'[m] = on[m] /\ outcome'[m] = outcome[m]
           /\ outcome'[calls + 1].reply = 0 /\ runs[calls + 1] = 0
           /\ \A c \in Conns : c # sock => up'[c] = up[c]
           /\ Pieces(up'[sock]) \subseteq
                  Pieces(up[sock]) \cup {Piece(calls + 1, "head"), Piece(calls + 1, "tail")}
           /\ Sorted(up'[sock])
<1>1. /\ sock \in Conns /\ calls + 1 \in Calls /\ calls' = calls + 1 /\ connected
      /\ buf = <<>> /\ buf' = <<>> /\ ~receiving
      /\ UNCHANGED <<sock, conns, connected, down, server, workers>>
  BY InUse DEF Call, CallSendTimeout, IInv, TypeOK, InvFresh
<1>2. on' = [on EXCEPT ![calls + 1] = sock] /\ on[calls + 1] = 0 /\ runs[calls + 1] = 0
  BY <1>1 DEF Call, CallSendTimeout, IInv, TypeOK, InvFresh, Calls
<1>3. /\ \A m \in Calls : m # calls + 1 => on'[m] = on[m] /\ outcome'[m] = outcome[m]
      /\ outcome'[calls + 1].reply = 0
  BY <1>1 DEF Call, CallSendTimeout, IInv, TypeOK, Raised
<1>4. PICK sent \in {<<>>, <<Piece(calls + 1, "head")>>, Line(calls + 1)} :
          up' = up \/ up' = [up EXCEPT ![sock] = @ \o sent]
  BY DEF Call, CallSendTimeout
<1>5. /\ sent \in Seq(Fragment) /\ Sorted(sent)
      /\ Pieces(sent) \subseteq {Piece(calls + 1, "head"), Piece(calls + 1, "tail")}
  BY <1>1, LineStream, HeadStream, EmptyStream
<1>6. \A f \in Pieces(up[sock]), g \in Pieces(sent) : Before(f, g)
  <2> SUFFICES ASSUME NEW f \in Pieces(up[sock]), NEW g \in Pieces(sent)
               PROVE  f.call < g.call
    BY DEF Before
  <2>1. f.call <= calls /\ f.call \in Calls
    BY <1>1, PieceCalls
  <2>2. g.call = calls + 1
    BY <1>1, <1>5, LineStream
  <2> QED
    BY <2>1, <2>2 DEF Calls, IInv, TypeOK
<1>7. up[sock] \in Seq(Fragment) /\ Sorted(up[sock])
  BY <1>1 DEF IInv, TypeOK, InvOrder
<1>8. /\ Pieces(up[sock] \o sent) = Pieces(up[sock]) \cup Pieces(sent)
      /\ Sorted(up[sock] \o sent)
  BY <1>5, <1>6, <1>7, CatStreams
<1>9. /\ \A c \in Conns : c # sock => up'[c] = up[c]
      /\ up'[sock] \in {up[sock], up[sock] \o sent}
  BY <1>1, <1>4 DEF IInv, TypeOK
<1> QED
  BY <1>1, <1>2, <1>3, <1>5, <1>7, <1>8, <1>9

\* A piece on its way to the server after a send was there before, or is a
\* piece of the call sent.
LEMMA SentPieces ==
    ASSUME IInv, Call \/ CallSendTimeout, NEW c \in Conns, NEW f \in Pieces(up'[c])
    PROVE  f \in Pieces(up[c]) \/ (c = sock /\ f.call = calls + 1)
<1>1. CASE c = sock
  <2>1. f \in Pieces(up[sock]) \/ f = Piece(calls + 1, "head") \/ f = Piece(calls + 1, "tail")
    BY <1>1, Sends
  <2>2. f \in Pieces(up[sock]) \/ f.call = calls + 1
    BY <2>1 DEF Piece
  <2> QED
    BY <1>1, <2>2
<1>2. CASE c # sock
  BY <1>2, Sends
<1> QED
  BY <1>1, <1>2

\* The line a worker takes is before the lines it leaves.
LEMMA Reads ==
    ASSUME IInv, NEW c \in Conns, WorkerRead(c)
    PROVE  /\ client' = client /\ UNCHANGED <<down, server, answer, runs>>
           /\ \A d \in Conns : d # c => up'[d] = up[d] /\ request'[d] = request[d]
           /\ request[c] = NoRequest
           /\ \E f \in Pieces(up[c]) : request'[c].call = f.call
           /\ \A g \in Pieces(up'[c]) : request'[c].call < g.call
           /\ Pieces(up'[c]) \subseteq Pieces(up[c]) /\ Sorted(up'[c])
<1>1. PICK j \in DOMAIN up[c] :
          /\ LineEndsAt(up[c], j) \/ (Unterminated(up[c]) /\ j = Len(up[c]))
          /\ \E r \in Parses(SubSeq(up[c], 1, j)) : request' = [request EXCEPT ![c] = r]
          /\ up' = [up EXCEPT ![c] = From(@, j)]
  BY DEF WorkerRead
<1>2. up[c] \in Seq(Fragment) /\ Sorted(up[c]) /\ j \in 1..Len(up[c])
  BY DEF IInv, TypeOK, InvOrder
<1>20. PICK r \in Parses(SubSeq(up[c], 1, j)) : request' = [request EXCEPT ![c] = r]
  BY <1>1
<1>21. PICK i \in {1, j} : r.call = up[c][i].call
  BY <1>2, ParsesFirstOrLast
<1>3. /\ request'[c].call = up[c][i].call /\ up'[c] = From(up[c], j)
      /\ \A d \in Conns : d # c => up'[d] = up[d] /\ request'[d] = request[d]
  BY <1>1, <1>20, <1>21 DEF IInv, TypeOK
<1>4. /\ Sorted(up'[c]) /\ Pieces(up'[c]) \subseteq Pieces(up[c])
      /\ \A g \in Pieces(up'[c]) : Before(up[c][j], g)
  BY <1>2, <1>3, CutStream
<1>5. up[c][i] \in Pieces(up[c])
  BY <1>2, StreamElements
<1>6. ASSUME NEW g \in Pieces(up'[c]) PROVE up[c][i].call < g.call
  <2>1. CASE LineEndsAt(up[c], j)
    <3>1. up[c][j].call < g.call
      BY <2>1, <1>4, <1>6 DEF LineEndsAt, Before
    <3>2. i = j \/ Before(up[c][i], up[c][j])
      BY <1>2 DEF Sorted
    <3>3. up[c][i].call <= up[c][j].call /\ up[c][i].call \in Nat /\ up[c][j].call \in Nat /\ g.call \in Nat
      <4>1. up[c][i] \in Fragment /\ up[c][j] \in Fragment /\ g \in Fragment
        BY <1>2, <1>4, <1>6, StreamElements
      <4> QED
        BY <3>2, <4>1 DEF Before, Fragment, Calls
    <3> QED
      BY <3>1, <3>3
  <2>2. CASE j = Len(up[c])
    <3>1. Len(up'[c]) = 0 /\ up'[c] \in Seq(Fragment)
      <4>1. Len(up[c]) + 1 \in 1..(Len(up[c]) + 1) /\ Len(up[c]) \in 0..Len(up[c])
        BY <1>2
      <4> QED
        BY <2>2, <4>1, <1>2, <1>3, SubStreams DEF From
    <3>2. Pieces(up'[c]) = {}
      BY <3>1 DEF Pieces
    <3> QED
      BY <3>2, <1>6
  <2> QED
    BY <2>1, <2>2, <1>1
<1>7. client' = client /\ UNCHANGED <<down, server, answer, runs>>
  BY DEF WorkerRead
<1>8. request[c] = NoRequest
  BY DEF WorkerRead, IInv, InvEnds
<1> QED
  BY <1>3, <1>4, <1>5, <1>6, <1>7, <1>8

\* A reply goes behind the replies that are on their way.
LEMMA Answers ==
    ASSUME IInv, NEW c \in Conns, WorkerAnswer(c)
    PROVE  /\ client' = client /\ UNCHANGED <<up, server>>
           /\ request[c].call \in Calls /\ on[request[c].call] = c
           /\ request'[c] = NoRequest
           /\ \A d \in Conns : d # c => down'[d] = down[d] /\ request'[d] = request[d]
           /\ \A n \in Calls : n # request[c].call => answer'[n] = answer[n] /\ runs'[n] = runs[n]
           /\ answer'[request[c].call] # "none"
           /\ Sorted(down'[c])
           /\ \/ down'[c] = down[c] /\ c # sock
              \/ /\ c = sock
                 /\ Pieces(down'[c]) = Pieces(down[c]) \cup
                        {Piece(request[c].call, "head"), Piece(request[c].call, "tail")}
<1> DEFINE m == request[c].call
<1>1. m # 0
  BY DEF WorkerAnswer, IInv, TypeOK
<1>2. m \in Calls /\ on[m] = c
  BY <1>1, RequestCall
<1>3. client' = client /\ UNCHANGED <<up, server>>
  BY DEF WorkerAnswer
<1>4. /\ request'[c] = NoRequest
      /\ \A d \in Conns : d # c => down'[d] = down[d] /\ request'[d] = request[d]
  BY DEF WorkerAnswer, IInv, TypeOK
<1>5. /\ \A n \in Calls : n # m => answer'[n] = answer[n] /\ runs'[n] = runs[n]
      /\ answer'[m] # "none"
  BY <1>2 DEF WorkerAnswer, IInv, TypeOK
<1>6. down[c] \in Seq(Fragment) /\ Sorted(down[c])
  BY DEF IInv, TypeOK, InvOrder
<1>7. CASE c # sock
  BY <1>2, <1>3, <1>4, <1>5, <1>6, <1>7 DEF WorkerAnswer
<1>8. CASE c = sock
  <2>1. down'[c] = down[c] \o Line(m)
    BY <1>8 DEF WorkerAnswer, IInv, TypeOK
  <2>2. \A f \in Pieces(down[c]) : f.call < m
    BY <1>1 DEF IInv, InvOrder, Arriving
  <2>3. /\ Line(m) \in Seq(Fragment) /\ Sorted(Line(m))
        /\ Pieces(Line(m)) = {Piece(m, "head"), Piece(m, "tail")}
        /\ Piece(m, "head").call = m /\ Piece(m, "tail").call = m
    BY <1>2, LineStream
  <2>4. \A f \in Pieces(down[c]), g \in Pieces(Line(m)) : Before(f, g)
    BY <2>2, <2>3 DEF Before
  <2>5. Sorted(down'[c]) /\ Pieces(down'[c]) = Pieces(down[c]) \cup Pieces(Line(m))
    BY <1>6, <2>1, <2>3, <2>4, CatStreams
  <2> QED
    BY <1>2, <1>3, <1>4, <1>5, <1>8, <2>3, <2>5
<1> QED
  BY <1>7, <1>8

----------------------------------------------------------------------------
(* What has not been done, and what has ended *)

\* Every step keeps InvFresh: what the client has not done leaves no trace.
LEMMA FreshStep == ASSUME IInv, [Next]_vars, TypeOK' PROVE InvFresh'
<1>1. CASE Connect
  <2>1. sock' = conns' /\ conns' = conns + 1 /\ ~receiving' /\ buf' = <<>>
    BY <1>1 DEF Connect, IInv, InvFresh
  <2>2. calls' = calls /\ on' = on /\ outcome' = outcome /\ runs' = runs
    BY <1>1 DEF Connect
  <2>3. \A n \in Calls : on'[n] <= conns'
    BY <2>1, <2>2 DEF IInv, InvFresh, TypeOK
  <2> QED
    BY <2>1, <2>2, <2>3 DEF IInv, InvFresh
<1>2. CASE ConnectRefused \/ Close
  BY <1>2 DEF ConnectRefused, Close, IInv, InvFresh, workers
<1>3. CASE CallNotConnected
  <2>1. calls + 1 \in Calls /\ calls' = calls + 1
    BY <1>3, InUse DEF CallNotConnected, IInv
  <2>2. /\ on' = on /\ conns' = conns /\ sock' = sock /\ connected' = connected /\ runs' = runs
        /\ buf' = buf /\ ~receiving /\ ~receiving'
    BY <1>3 DEF CallNotConnected, workers
  <2>3. /\ \A n \in Calls : n # calls + 1 => outcome'[n] = outcome[n]
        /\ outcome'[calls + 1].reply = 0
    BY <1>3, <2>1 DEF CallNotConnected, IInv, TypeOK, Raised
  <2>4. \A n \in Calls : n > calls' => n > calls /\ n # calls + 1
    BY <2>1 DEF IInv, TypeOK, Calls
  <2> QED
    BY <2>1, <2>2, <2>3, <2>4 DEF IInv, InvFresh
<1>4. CASE Call \/ CallSendTimeout
  <2> DEFINE n == calls + 1
  <2>1. /\ n \in Calls /\ calls' = n /\ conns' = conns /\ sock' = sock /\ connected' = connected
        /\ buf' = <<>> /\ on' = [on EXCEPT ![n] = sock] /\ runs' = runs /\ sock \in Conns
        /\ outcome'[n].reply = 0 /\ connected
        /\ \A k \in Calls : k # n => on'[k] = on[k] /\ outcome'[k] = outcome[k]
    BY <1>4, Sends DEF workers
  <2>2. on'[n] = sock /\ sock = conns /\ sock # 0
    BY <2>1 DEF IInv, TypeOK, InvFresh, Conns
  <2>3. receiving' => outcome'[n] = Raised("pending")
    BY <1>4, <2>1 DEF Call, CallSendTimeout, IInv, TypeOK
  <2>4. \A k \in Calls : k > calls' => k > calls /\ k # n
    BY <2>1 DEF IInv, TypeOK, Calls
  <2> HIDE DEF n
  <2>5. conns \in Nat /\ \A k \in Calls : on'[k] <= conns'
    BY <2>1, <2>2 DEF IInv, InvFresh, TypeOK
  <2> QED
    BY <2>1, <2>2, <2>3, <2>4, <2>5 DEF IInv, InvFresh
<1>5. CASE RecvMore
  BY <1>5 DEF RecvMore, IInv, InvFresh, workers
<1>6. CASE RecvLine \/ RecvTimeout \/ RecvEof \/ SocketError
  <2>1. calls \in Calls /\ receiving /\ ~receiving' /\ buf' = <<>>
    BY <1>6, InUse DEF RecvLine, RecvTimeout, RecvEof, SocketError, Return, IInv
  <2>2. calls' = calls /\ on' = on /\ conns' = conns /\ sock' = sock /\ runs' = runs
    BY <1>6 DEF RecvLine, RecvTimeout, RecvEof, SocketError, Return, wire, workers
  <2>3. connected' => connected
    BY <1>6 DEF RecvLine, RecvTimeout, RecvEof, SocketError, Return
  <2>4. \A n \in Calls : n # calls => outcome'[n] = outcome[n]
    BY <1>6, <2>1 DEF RecvLine, RecvTimeout, RecvEof, SocketError, Return, IInv, TypeOK
  <2>5. on[calls] = sock /\ sock # 0
    BY <2>1 DEF IInv, InvFresh, TypeOK
  <2>6. \A n \in Calls : n > calls => n # calls
    BY DEF IInv, TypeOK, Calls
  <2> QED
    BY <2>1, <2>2, <2>3, <2>4, <2>5, <2>6 DEF IInv, InvFresh
<1>7. CASE \/ Start \/ AcceptError \/ Stop \/ Exit
           \/ \E c \in Conns : Accept(c) \/ WorkerRead(c) \/ WorkerExit(c)
  <2>1. client' = client /\ runs' = runs
    BY <1>7 DEF Start, AcceptError, Stop, Exit, Accept, WorkerRead, WorkerExit, workers
  <2> QED
    BY <2>1 DEF IInv, InvFresh, client
<1>8. ASSUME NEW c \in Conns, WorkerAnswer(c) \/ WorkerDies(c) PROVE InvFresh'
  <2>1. client' = client
    BY <1>8 DEF WorkerAnswer, WorkerDies
  <2>2. request[c].call # 0
    BY <1>8 DEF WorkerAnswer, WorkerDies, IInv, TypeOK
  <2>3. on[request[c].call] = c /\ c # 0
    BY <2>2, RequestCall DEF Conns
  <2>4. \A n \in Calls : on[n] = 0 => runs'[n] = runs[n]
    BY <1>8, <2>3 DEF WorkerAnswer, WorkerDies, IInv, TypeOK
  <2> QED
    BY <2>1, <2>4 DEF IInv, InvFresh, client
<1>9. CASE UNCHANGED vars
  BY <1>9 DEF vars, client, workers, IInv, InvFresh
<1> QED
  BY <1>1, <1>2, <1>3, <1>4, <1>5, <1>6, <1>7, <1>8, <1>9 DEF Next, ClientReturns, Worker

\* Every step keeps InvEnds: a connection without ends carries nothing.
LEMMA EndsStep == ASSUME IInv, [Next]_vars PROVE InvEnds'
<1> SUFFICES ASSUME NEW c \in Conns
             PROVE  /\ c > conns' <=> worker'[c] = "none"
                    /\ c # sock' => down'[c] = <<>>
                    /\ worker'[c] # "handling" => request'[c] = NoRequest
                    /\ worker'[c] \in {"none", "closed"} => up'[c] = <<>>
  BY DEF InvEnds
<1>1. CASE Connect
  <2>1. conns + 1 \in Conns /\ conns \in Nat /\ conns' = conns + 1
    BY <1>1, InUse DEF Connect, IInv, TypeOK
  <2>2. worker'[c] = IF c = conns + 1 THEN "queued" ELSE worker[c]
    BY <1>1, <2>1 DEF Connect, IInv, TypeOK
  <2>3. c > conns' <=> c > conns /\ c # conns + 1
    BY <2>1 DEF Conns
  <2>4. conns + 1 > conns
    BY <2>1
  <2>5. down'[c] = <<>>
    BY <1>1 DEF Connect, DropSocket, IInv, InvEnds
  <2>6. up' = up /\ request' = request
    BY <1>1 DEF Connect
  <2> QED
    BY <2>1, <2>2, <2>3, <2>4, <2>5, <2>6 DEF IInv, InvEnds
<1>2. CASE ConnectRefused \/ Close
  BY <1>2 DEF ConnectRefused, Close, DropSocket, workers, IInv, InvEnds
<1>3. CASE CallNotConnected \/ RecvTimeout \/ RecvEof \/ SocketError \/ Start \/ AcceptError
  BY <1>3 DEF CallNotConnected, RecvTimeout, RecvEof, SocketError, Start, AcceptError,
       workers, wire, client, IInv, InvEnds
<1>4. CASE Call \/ CallSendTimeout
  <2>1. /\ UNCHANGED <<sock, conns, down>> /\ worker' = worker /\ request' = request
        /\ c # sock => up'[c] = up[c]
    BY <1>4, Sends DEF workers
  <2>2. worker[sock] = "closed" => up' = up
    BY <1>4 DEF Call, CallSendTimeout
  <2>3. worker[sock] # "none"
    <3>1. sock \in Conns /\ ~(sock > conns)
      BY <1>4, Sends DEF IInv, TypeOK
    <3> QED
      BY <3>1 DEF IInv, InvEnds
  <2> QED
    BY <2>1, <2>2, <2>3 DEF IInv, InvEnds
<1>5. CASE RecvMore \/ RecvLine
  <2>1. UNCHANGED <<sock, conns, up>> /\ worker' = worker /\ request' = request
    BY <1>5 DEF RecvMore, RecvLine, workers
  <2>2. c # sock => down'[c] = down[c]
    BY <1>5 DEF RecvMore, RecvLine, IInv, TypeOK
  <2> QED
    BY <2>1, <2>2 DEF IInv, InvEnds
<1>6. CASE Stop
  BY <1>6 DEF Stop, client, IInv, InvEnds
<1>7. CASE Exit
  <2>1. /\ worker'[c] = IF worker[c] = "none" THEN "none" ELSE "closed"
        /\ request'[c] = NoRequest /\ up'[c] = <<>> /\ client' = client
    BY <1>7 DEF Exit
  <2>2. c # sock => down'[c] = <<>>
    <3>1. \A d \in Conns : Pieces(down'[d]) \subseteq Pieces(down[d])
      BY <1>7, ServerShrinks
    <3>2. c # sock => Pieces(down'[c]) = {}
      BY <3>1, EmptyStream DEF IInv, InvEnds
    <3>3. down'[c] \in Seq(Fragment)
      <4>1. Next /\ TypeOK
        BY <1>7 DEF Next, IInv
      <4>2. TypeOK'
        BY <4>1, TypeStep
      <4> QED
        BY <4>2 DEF TypeOK
    <3> QED
      BY <3>2, <3>3, StreamElements
  <2> QED
    BY <2>1, <2>2 DEF IInv, InvEnds, client
<1>8. ASSUME NEW d \in Conns, Accept(d) \/ WorkerExit(d) \/ WorkerDies(d) PROVE InvEnds'
  <2>1. CASE Accept(d)
    BY <1>8, <2>1 DEF Accept, client, wire, IInv, InvEnds, TypeOK
  <2>2. CASE WorkerExit(d)
    BY <1>8, <2>2 DEF WorkerExit, client, IInv, InvEnds, TypeOK
  <2>3. CASE WorkerDies(d)
    BY <1>8, <2>3 DEF WorkerDies, client, IInv, InvEnds, TypeOK
  <2> QED
    BY <1>8, <2>1, <2>2, <2>3
<1>9. ASSUME NEW d \in Conns, WorkerRead(d) PROVE InvEnds'
  BY <1>9 DEF WorkerRead, client, IInv, InvEnds, TypeOK
<1>10. ASSUME NEW d \in Conns, WorkerAnswer(d) PROVE InvEnds'
  BY <1>10 DEF WorkerAnswer, client, IInv, InvEnds, TypeOK
<1>11. CASE UNCHANGED vars
  BY <1>11 DEF vars, client, wire, workers, IInv, InvEnds
<1> QED
  BY <1>1, <1>2, <1>3, <1>4, <1>5, <1>6, <1>7, <1>8, <1>9, <1>10, <1>11
  DEF Next, ClientReturns, Worker, InvEnds

----------------------------------------------------------------------------
(* Ownership and order *)

\* The steps that only take things off the connections, or leave them alone.
Taking ==
    \/ Connect \/ ConnectRefused \/ Close \/ CallNotConnected
    \/ ClientReturns
    \/ Start \/ AcceptError \/ Stop \/ Exit
    \/ \E c \in Conns : Accept(c) \/ WorkerExit(c) \/ WorkerDies(c)

\* Those steps shrink every connection and keep buf in order.
LEMMA TakingShrinks ==
    ASSUME IInv, Taking
    PROVE  /\ Shrinks /\ on' = on /\ answer' = answer
           /\ Sorted(buf') /\ Unterminated(buf')
           /\ receiving' => \A f \in Pieces(buf'), g \in Pieces(down'[sock']) : Before(f, g)
<1>1. CASE Connect \/ ConnectRefused \/ Close \/ CallNotConnected \/ RecvTimeout \/ RecvEof \/ SocketError
  BY <1>1, ClientShrinks, EmptyStream
<1>2. CASE RecvMore
  BY <1>2, RecvMoreShrinks DEF RecvMore, workers
<1>3. CASE RecvLine
  BY <1>3, RecvLineShrinks, EmptyStream DEF RecvLine, workers
<1>4. CASE \/ Start \/ AcceptError \/ Stop \/ Exit
           \/ \E c \in Conns : Accept(c) \/ WorkerExit(c) \/ WorkerDies(c)
  <2>1. Shrinks /\ client' = client /\ answer' = answer
    BY <1>4, ServerShrinks
  <2>2. ASSUME receiving, NEW f \in Pieces(buf), NEW g \in Pieces(down'[sock])
        PROVE  Before(f, g)
    <3>1. sock \in Conns
      BY <2>2, InUse DEF IInv
    <3>2. g \in Pieces(down[sock])
      BY <1>4, <2>2, <3>1, ServerShrinks
    <3> QED
      BY <2>2, <3>2 DEF IInv, InvOrder
  <2> QED
    BY <2>1, <2>2 DEF client, IInv, InvOrder
<1> QED
  BY <1>1, <1>2, <1>3, <1>4 DEF Taking, ClientReturns

\* A step only takes things away, or it sends, reads or answers a request.
LEMMA NextCases ==
    ASSUME [Next]_vars
    PROVE  \/ Taking
           \/ Call \/ CallSendTimeout
           \/ \E c \in Conns : WorkerRead(c) \/ WorkerAnswer(c)
           \/ UNCHANGED vars
  BY DEF Next, Taking, Worker

\* Every step keeps InvOwn: a connection carries its own calls.
LEMMA OwnStep == ASSUME IInv, [Next]_vars PROVE InvOwn'
<1>1. CASE Taking
  BY <1>1, TakingShrinks, ShrinkOwn DEF IInv
<1>2. CASE Call \/ CallSendTimeout
  <2> SUFFICES ASSUME NEW c \in Conns
               PROVE  /\ \A f \in Arriving(c)' : on'[f.call] = c /\ answer'[f.call] # "none"
                      /\ request'[c].call # 0 => on'[request'[c].call] = c
                      /\ \A f \in Pieces(up'[c]) : on'[f.call] = c
    BY DEF InvOwn
  <2>1. Arriving(c)' = Arriving(c) /\ request' = request /\ answer' = answer
    BY <1>2, Sends DEF Arriving, workers
  <2>2. \A n \in Calls : on[n] = c => on'[n] = c
    BY <1>2, Sends DEF Conns
  <2>3. ASSUME NEW f \in Arriving(c) PROVE on'[f.call] = c /\ answer[f.call] # "none"
    BY <2>2, <2>3, PieceCalls DEF IInv, InvOwn
  <2>4. request[c].call # 0 => on'[request[c].call] = c
    BY <2>2, RequestCall
  <2>5. ASSUME NEW f \in Pieces(up'[c]) PROVE on'[f.call] = c
    <3>1. CASE f \in Pieces(up[c])
      BY <2>2, <3>1, PieceCalls
    <3>2. CASE f \notin Pieces(up[c])
      <4>1. c = sock /\ f.call = calls + 1
        BY <1>2, <2>5, <3>2, SentPieces
      <4>2. on' = [on EXCEPT ![calls + 1] = sock] /\ calls + 1 \in Calls
        BY <1>2, Sends
      <4>3. on \in [Calls -> 0..MaxConns]
        BY DEF IInv, TypeOK
      <4> QED
        BY <4>1, <4>2, <4>3
    <3> QED
      BY <3>1, <3>2
  <2> QED
    BY <2>1, <2>3, <2>4, <2>5
<1>3. ASSUME NEW d \in Conns, WorkerRead(d) PROVE InvOwn'
  <2> SUFFICES ASSUME NEW c \in Conns
               PROVE  /\ \A f \in Arriving(c)' : on'[f.call] = c /\ answer'[f.call] # "none"
                      /\ request'[c].call # 0 => on'[request'[c].call] = c
                      /\ \A f \in Pieces(up'[c]) : on'[f.call] = c
    BY DEF InvOwn
  <2>1. Arriving(c)' = Arriving(c) /\ on' = on /\ answer' = answer
    BY <1>3, Reads DEF Arriving, client
  <2>2. Pieces(up'[c]) \subseteq Pieces(up[c])
    BY <1>3, Reads
  <2>3. request'[c] = request[c] \/ \E f \in Pieces(up[c]) : request'[c].call = f.call
    BY <1>3, Reads
  <2> QED
    BY <2>1, <2>2, <2>3 DEF IInv, InvOwn
<1>4. ASSUME NEW d \in Conns, WorkerAnswer(d) PROVE InvOwn'
  <2> SUFFICES ASSUME NEW c \in Conns
               PROVE  /\ \A f \in Arriving(c)' : on'[f.call] = c /\ answer'[f.call] # "none"
                      /\ request'[c].call # 0 => on'[request'[c].call] = c
                      /\ \A f \in Pieces(up'[c]) : on'[f.call] = c
    BY DEF InvOwn
  <2>1. on' = on /\ up' = up /\ buf' = buf /\ sock' = sock
    BY <1>4, Answers DEF client
  <2>2. request'[c] = request[c] \/ request'[c] = NoRequest
    BY <1>4, Answers
  <2>3. ASSUME NEW f \in Arriving(c)' PROVE on[f.call] = c /\ answer'[f.call] # "none"
    <3>1. CASE f \in Arriving(c)
      BY <1>4, <3>1, PieceCalls, Answers DEF IInv, InvOwn
    <3>2. CASE f \notin Arriving(c)
      <4>1. c = d /\ f \in {Piece(request[d].call, "head"), Piece(request[d].call, "tail")}
        BY <1>4, <2>1, <2>3, <3>2, Answers DEF Arriving
      <4>2. f.call = request[d].call
        BY <1>4, <4>1, Answers, LineStream
      <4> QED
        BY <1>4, <4>1, <4>2, Answers
    <3> QED
      BY <3>1, <3>2
  <2> QED
    BY <2>1, <2>2, <2>3 DEF IInv, InvOwn, NoRequest
<1>5. CASE UNCHANGED vars
  BY <1>5 DEF vars, client, wire, workers, IInv, InvOwn, Arriving
<1> QED
  BY <1>1, <1>2, <1>3, <1>4, <1>5, NextCases

\* Every step keeps InvOrder: replies, the request being handled and those
\* waiting follow one another.
LEMMA OrderStep == ASSUME IInv, [Next]_vars PROVE InvOrder'
<1>1. CASE Taking
  BY <1>1, TakingShrinks, ShrinkOrder DEF IInv
<1>2. CASE Call \/ CallSendTimeout
  <2>1. buf' = <<>> /\ down' = down /\ sock' = sock /\ request' = request /\ sock \in Conns
    BY <1>2, Sends DEF workers
  <2>2. ASSUME NEW c \in Conns
        PROVE  /\ Sorted(down'[c]) /\ Sorted(up'[c])
               /\ \A f \in Arriving(c)', g \in Pieces(up'[c]) : f.call < g.call
               /\ request'[c].call # 0 =>
                     /\ \A f \in Arriving(c)' : f.call < request'[c].call
                     /\ \A g \in Pieces(up'[c]) : request'[c].call < g.call
    <3>1. Sorted(down'[c]) /\ Sorted(up'[c])
      BY <1>2, <2>1, Sends DEF IInv, InvOrder
    <3>2. Arriving(c)' = Arriving(c)
      BY <1>2, Sends DEF Arriving
    <3>3. ASSUME NEW g \in Pieces(up'[c])
          PROVE  g \in Pieces(up[c]) \/ (g.call = calls + 1 /\ calls \in Nat)
      <4>1. CASE c = sock
        <5>1. g \in Pieces(up[c]) \cup {Piece(calls + 1, "head"), Piece(calls + 1, "tail")}
          BY <1>2, <3>3, <4>1, Sends
        <5>2. calls + 1 \in Calls /\ calls \in Nat
          BY <1>2, Sends DEF IInv, TypeOK
        <5> QED
          BY <5>1, <5>2, LineStream
      <4>2. CASE c # sock
        BY <1>2, <3>3, <4>2, Sends
      <4> QED
        BY <4>1, <4>2
    <3>4. ASSUME NEW f \in Arriving(c), NEW g \in Pieces(up'[c]) PROVE f.call < g.call
      <4>1. f.call \in Calls /\ f.call <= calls
        BY PieceCalls
      <4> QED
        BY <3>3, <4>1 DEF IInv, InvOrder, Calls
    <3>5. ASSUME request[c].call # 0, NEW g \in Pieces(up'[c]) PROVE request[c].call < g.call
      <4>1. request[c].call \in Calls /\ request[c].call <= calls
        BY <3>5, RequestCall
      <4> QED
        BY <3>3, <3>5, <4>1 DEF IInv, InvOrder, Calls
    <3> QED
      BY <2>1, <3>1, <3>2, <3>4, <3>5 DEF IInv, InvOrder
  <2> QED
    BY <2>1, <2>2, EmptyStream DEF InvOrder
<1>3. ASSUME NEW d \in Conns, WorkerRead(d) PROVE InvOrder'
  <2>1. /\ buf' = buf /\ down' = down /\ sock' = sock /\ receiving' = receiving
    BY <1>3, Reads DEF client
  <2>2. ASSUME NEW c \in Conns
        PROVE  /\ Sorted(down'[c]) /\ Sorted(up'[c])
               /\ \A f \in Arriving(c)', g \in Pieces(up'[c]) : f.call < g.call
               /\ request'[c].call # 0 =>
                     /\ \A f \in Arriving(c)' : f.call < request'[c].call
                     /\ \A g \in Pieces(up'[c]) : request'[c].call < g.call
    <3>1. Sorted(down'[c]) /\ Sorted(up'[c]) /\ Pieces(up'[c]) \subseteq Pieces(up[c])
      BY <1>3, <2>1, Reads DEF IInv, InvOrder
    <3>2. Arriving(c)' = Arriving(c)
      BY <2>1 DEF Arriving
    <3>3. \/ request'[c] = request[c]
          \/ /\ \E f \in Pieces(up[c]) : request'[c].call = f.call
             /\ \A g \in Pieces(up'[c]) : request'[c].call < g.call
      BY <1>3, Reads
    <3> QED
      BY <3>1, <3>2, <3>3 DEF IInv, InvOrder
  <2> QED
    BY <2>1, <2>2 DEF IInv, InvOrder
<1>4. ASSUME NEW d \in Conns, WorkerAnswer(d) PROVE InvOrder'
  <2> DEFINE m == request[d].call
  <2>1. /\ buf' = buf /\ up' = up /\ sock' = sock /\ receiving' = receiving
    BY <1>4, Answers DEF client
  <2>2. m \in Calls /\ m # 0 /\ request'[d] = NoRequest
    BY <1>4, Answers DEF Calls
  <2>3. ASSUME NEW g \in Pieces(down'[d]) PROVE g \in Pieces(down[d]) \/ (d = sock /\ g.call = m)
    BY <1>4, <2>3, Answers, LineStream
  <2>4. \A c \in Conns : c # d => down'[c] = down[c] /\ request'[c] = request[c]
    BY <1>4, Answers
  <2>5. ASSUME receiving, NEW f \in Pieces(buf), NEW g \in Pieces(down'[sock]) PROVE Before(f, g)
    <3>1. CASE sock = d
      <4>1. f \in Arriving(d)
        BY <2>5, <3>1 DEF Arriving
      <4>2. f.call < m
        BY <2>2, <4>1 DEF IInv, InvOrder
      <4> QED
        BY <2>3, <2>5, <3>1, <4>2 DEF Before, IInv, InvOrder
    <3>2. CASE sock # d
      <4>1. sock \in Conns
        BY <2>5, InUse DEF IInv
      <4> QED
        BY <2>4, <2>5, <3>2, <4>1 DEF IInv, InvOrder
    <3> QED
      BY <3>1, <3>2
  <2>6. ASSUME NEW c \in Conns
        PROVE  /\ Sorted(down'[c]) /\ Sorted(up'[c])
               /\ \A f \in Arriving(c)', g \in Pieces(up'[c]) : f.call < g.call
               /\ request'[c].call # 0 =>
                     /\ \A f \in Arriving(c)' : f.call < request'[c].call
                     /\ \A g \in Pieces(up'[c]) : request'[c].call < g.call
    <3>1. CASE c # d
      <4>1. Arriving(c)' = Arriving(c) /\ down'[c] = down[c] /\ request'[c] = request[c]
        BY <2>1, <2>4, <3>1 DEF Arriving
      <4> QED
        BY <2>1, <4>1 DEF IInv, InvOrder
    <3>2. CASE c = d
      <4>1. Sorted(down'[c]) /\ Sorted(up'[c])
        BY <1>4, <2>1, <3>2, Answers DEF IInv, InvOrder
      <4>2. ASSUME NEW f \in Arriving(c)' PROVE f \in Arriving(c) \/ f.call = m
        BY <2>1, <2>3, <3>2, <4>2 DEF Arriving
      <4>3. ASSUME NEW f \in Arriving(c)', NEW g \in Pieces(up'[c]) PROVE f.call < g.call
        BY <2>1, <2>2, <3>2, <4>2, <4>3 DEF IInv, InvOrder
      <4> QED
        BY <2>2, <3>2, <4>1, <4>3 DEF NoRequest
    <3> QED
      BY <3>1, <3>2
  <2> QED
    BY <2>1, <2>5, <2>6 DEF IInv, InvOrder
<1>5. CASE UNCHANGED vars
  BY <1>5 DEF vars, client, wire, workers, IInv, InvOrder, Arriving
<1> QED
  BY <1>1, <1>2, <1>3, <1>4, <1>5, NextCases

----------------------------------------------------------------------------
(* What ends a call *)

\* Every step but RecvLine leaves the replies, and what a call has ended with.
LEMMA OtherSteps ==
    ASSUME IInv, [Next]_vars, ~RecvLine
    PROVE  \A n \in Calls :
               /\ outcome'[n].reply = outcome[n].reply
               /\ n <= calls => on'[n] = on[n]
               /\ outcome[n].kind \in {"timeout", "badJson", "result"} => outcome'[n] = outcome[n]
               /\ outcome'[n].kind \in {"badJson", "result"} => outcome'[n] = outcome[n]
<1> SUFFICES ASSUME NEW n \in Calls
             PROVE  /\ outcome'[n].reply = outcome[n].reply
                    /\ n <= calls => on'[n] = on[n]
                    /\ outcome[n].kind \in {"timeout", "badJson", "result"} => outcome'[n] = outcome[n]
                    /\ outcome'[n].kind \in {"badJson", "result"} => outcome'[n] = outcome[n]
  OBVIOUS
<1>1. CASE CallNotConnected \/ Call \/ CallSendTimeout
  <2>0. calls < MaxCalls
    BY <1>1 DEF CallNotConnected, Call, CallSendTimeout
  <2>1. calls + 1 \in Calls /\ calls + 1 > calls /\ ~(calls + 1 <= calls)
    BY <2>0, InUse DEF IInv, TypeOK
  <2>2. outcome[calls + 1] = Raised("none")
    BY <2>1 DEF IInv, InvFresh
  <2>3. \E k \in {"notConnected", "pending", "timeout"} :
            outcome' = [outcome EXCEPT ![calls + 1] = Raised(k)]
    BY <1>1 DEF CallNotConnected, Call, CallSendTimeout
  <2>4. n # calls + 1 => outcome'[n] = outcome[n] /\ on'[n] = on[n]
    BY <1>1, <2>1 DEF CallNotConnected, Call, CallSendTimeout, IInv, TypeOK
  <2>5. n = calls + 1 => \E k \in {"notConnected", "pending", "timeout"} : outcome'[n] = Raised(k)
    BY <2>1, <2>3 DEF IInv, TypeOK
  <2> QED
    BY <2>1, <2>2, <2>4, <2>5 DEF Raised
<1>2. CASE RecvTimeout \/ RecvEof \/ SocketError
  <2>1. calls \in Calls /\ outcome[calls] = Raised("pending") /\ on' = on
    BY <1>2, InUse DEF RecvTimeout, RecvEof, SocketError, IInv, InvFresh
  <2>2. \E k \in {"timeout", "eof", "socketError"} :
            outcome' = [outcome EXCEPT ![calls] = Raised(k)]
    BY <1>2 DEF RecvTimeout, RecvEof, SocketError, Return
  <2>3. /\ n # calls => outcome'[n] = outcome[n]
        /\ n = calls => \E k \in {"timeout", "eof", "socketError"} : outcome'[n] = Raised(k)
    BY <2>1, <2>2 DEF IInv, TypeOK
  <2> QED
    BY <2>1, <2>3 DEF Raised
<1>3. CASE outcome' = outcome /\ on' = on
  BY <1>3
<1>4. CASE Connect \/ ConnectRefused \/ Close \/ RecvMore
  BY <1>3, <1>4 DEF Connect, ConnectRefused, Close, RecvMore
<1>5. CASE \/ Start \/ AcceptError \/ Stop \/ Exit
           \/ \E c \in Conns : Accept(c) \/ Worker(c)
  BY <1>3, <1>5 DEF Start, AcceptError, Stop, Exit, Accept, Worker, WorkerRead, WorkerAnswer,
       WorkerExit, WorkerDies, client
<1>6. CASE UNCHANGED vars
  BY <1>3, <1>6 DEF vars, client
<1> QED
  BY <1>1, <1>2, <1>4, <1>5, <1>6 DEF Next, ClientReturns

\* The line the client takes: the reply m whose tail it is precedes all that is
\* left, and without a timeout it is that of the call in progress, and whole.
LEMMA Receives ==
    ASSUME IInv, RecvLine
    PROVE  \E m \in Calls :
               /\ m <= calls /\ on[m] = sock /\ answer[m] # "none"
               /\ Piece(m, "tail") \in Arriving(sock)
               /\ \A f \in Arriving(sock)' : m < f.call
               /\ \/ outcome' = [outcome EXCEPT ![calls] = [kind |-> answer[m], reply |-> m]]
                  \/ /\ outcome' = [outcome EXCEPT ![calls] = Raised("badJson")]
                     /\ TimedOutOn(sock)
               /\ ~TimedOutOn(sock) => m = calls
<1>1. PICK k \in DOMAIN down[sock] : \E j \in 1..k :
          /\ LineEndsAt(down[sock], j)
          /\ down' = [down EXCEPT ![sock] = From(@, k)]
          /\ Return(IF WellFormed(buf \o SubSeq(down[sock], 1, j))
                    THEN [kind |-> answer[down[sock][j].call], reply |-> down[sock][j].call]
                    ELSE Raised("badJson"))
  BY DEF RecvLine
<1>2. PICK j \in 1..k :
          /\ LineEndsAt(down[sock], j)
          /\ down' = [down EXCEPT ![sock] = From(@, k)]
          /\ Return(IF WellFormed(buf \o SubSeq(down[sock], 1, j))
                    THEN [kind |-> answer[down[sock][j].call], reply |-> down[sock][j].call]
                    ELSE Raised("badJson"))
  BY <1>1
<1> DEFINE s == down[sock]
           m == s[j].call
           head == SubSeq(s, 1, j)
           line == buf \o head
<1>3. /\ sock \in Conns /\ calls \in Calls /\ s \in Seq(Fragment) /\ Sorted(s)
      /\ buf \in Seq(Fragment) /\ Sorted(buf) /\ Unterminated(buf) /\ connected /\ receiving
  BY InUse DEF RecvLine, IInv, TypeOK, InvOrder
<1>4. k \in 1..Len(s) /\ j \in 1..Len(s) /\ j \in DOMAIN s /\ j <= k
  BY <1>1, <1>2, <1>3
<1>5. s[j] \in Fragment /\ s[j].part = "tail" /\ s[j] \in Pieces(s)
  BY <1>2, <1>3, <1>4, StreamElements DEF LineEndsAt
<1>6. s[j] = Piece(m, "tail")
  BY <1>5 DEF Fragment, Piece
<1>7. Piece(m, "tail") \in Arriving(sock)
  BY <1>5, <1>6 DEF Arriving
<1>8. m \in Calls /\ m <= calls /\ on[m] = sock /\ answer[m] # "none"
  <2>1. Piece(m, "tail").call = m
    BY DEF Piece
  <2> QED
    BY <1>3, <1>7, <2>1, PieceCalls DEF IInv, InvOwn
<1>9. ASSUME NEW f \in Arriving(sock)' PROVE m < f.call
  <2>1. buf' = <<>> /\ sock' = sock /\ down'[sock] = From(s, k)
    BY <1>2, <1>3 DEF RecvLine, Return, IInv, TypeOK
  <2>2. f \in Pieces(From(s, k))
    BY <1>9, <2>1, EmptyStream DEF Arriving
  <2>3. Before(s[j], f)
    BY <1>3, <1>4, <2>2, CutStream
  <2> QED
    BY <1>5, <2>3 DEF Before
<1>10. ASSUME ~TimedOutOn(sock) PROVE m = calls /\ WellFormed(line)
  <2>1. \A f \in Arriving(sock) : f.call = calls
    BY <1>3, <1>10 DEF IInv, InvClean
  <2>2. m = calls
    BY <1>7, <2>1 DEF Piece
  <2>3. Piece(calls, "head") \in Arriving(sock)
    BY <1>3, <1>7, <1>10, <2>2 DEF IInv, InvClean
  <2>4. /\ head \in Seq(Fragment) /\ Pieces(head) \subseteq Pieces(s) /\ Sorted(head) /\ Len(head) = j
        /\ \A i \in 1..j : head[i] = s[i]
    <3>1. 1 \in 1..(Len(s) + 1) /\ j \in 0..Len(s) /\ 1 <= j + 1 /\ j + 1 - 1 = j
      BY <1>3, <1>4
    <3>2. \A i \in 1..j : 1 + i - 1 = i
      BY <1>4
    <3> HIDE DEF s
    <3> QED
      BY <1>3, <3>1, <3>2, SubStreams
  <2>5. \A f \in Pieces(buf), g \in Pieces(head) : Before(f, g)
    BY <1>3, <2>4 DEF IInv, InvOrder
  <2> HIDE DEF head
  <2>6. line \in Seq(Fragment) /\ Sorted(line) /\ Pieces(line) = Pieces(buf) \cup Pieces(head)
    BY <1>3, <2>4, <2>5, CatStreams
  <2>7. Pieces(line) \subseteq Arriving(sock)
    BY <2>4, <2>6 DEF Arriving
  <2>8. Piece(calls, "tail") \in Pieces(line)
    <3>1. head[j] = Piece(calls, "tail") /\ j \in DOMAIN head
      BY <1>4, <1>6, <2>2, <2>4
    <3>2. head[j] \in Pieces(head)
      BY <2>4, <3>1, StreamElements
    <3> QED
      BY <2>6, <3>1, <3>2
  <2>9. Piece(calls, "head") \in Pieces(line)
    <3>1. CASE Piece(calls, "head") \in Pieces(buf)
      BY <2>6, <3>1
    <3>2. CASE Piece(calls, "head") \in Pieces(s)
      <4>1. PICK i \in DOMAIN s : s[i] = Piece(calls, "head")
        BY <3>2 DEF Pieces
      <4>2. ~Before(s[j], s[i]) /\ s[i] # s[j]
        <5>1. calls \in Nat
          BY <1>3 DEF Calls
        <5> QED
          BY <1>6, <2>2, <4>1, <5>1 DEF Before, Piece
      <4>3. i < j /\ i \in 1..j
        BY <1>3, <1>4, <4>1, <4>2 DEF Sorted
      <4>4. head[i] = Piece(calls, "head") /\ i \in DOMAIN head
        BY <2>4, <4>1, <4>3
      <4>5. head[i] \in Pieces(head)
        BY <2>4, <4>4, StreamElements
      <4> QED
        BY <2>6, <4>4, <4>5
    <3> QED
      BY <2>3, <3>1, <3>2 DEF Arriving
  <2> HIDE DEF line
  <2>10. \A i \in DOMAIN line : line[i] \in Fragment /\ line[i].call = calls
    BY <2>1, <2>6, <2>7, StreamElements
  <2>11. PICK a \in DOMAIN line : line[a] = Piece(calls, "head")
    BY <2>9 DEF Pieces
  <2>12. PICK b \in DOMAIN line : line[b] = Piece(calls, "tail")
    BY <2>8 DEF Pieces
  <2>13. \A i1, i2 \in DOMAIN line : i1 < i2 => line[i1].part = "head" /\ line[i2].part = "tail"
    BY <1>3, <2>6, <2>10 DEF Sorted, Before, Calls
  <2>14. a < b
    <3>1. a # b
      BY <2>11, <2>12 DEF Piece
    <3>2. ~(b < a)
      BY <2>11, <2>12, <2>13 DEF Piece
    <3> QED
      BY <2>6, <3>1, <3>2
  <2>15. Len(line) = 2
    <3>1. Len(line) \in Nat /\ DOMAIN line = 1..Len(line)
      BY <2>6
    <3>2. ASSUME 3 \in DOMAIN line PROVE FALSE
      <4>1. 1 \in DOMAIN line /\ 2 \in DOMAIN line
        BY <3>1, <3>2
      <4> QED
        BY <2>13, <3>2, <4>1
    <3> QED
      BY <2>14, <3>1, <3>2
  <2>16. a = 1 /\ b = 2
    BY <2>6, <2>14, <2>15
  <2> QED
    BY <2>2, <2>11, <2>12, <2>15, <2>16 DEF WellFormed, Piece
<1> HIDE DEF line, m
<1>11. outcome' = [outcome EXCEPT ![calls] =
                      IF WellFormed(line) THEN [kind |-> answer[m], reply |-> m] ELSE Raised("badJson")]
  BY <1>2 DEF Return, line, m
<1> QED
  BY <1>7, <1>8, <1>9, <1>10, <1>11

\* A reply on its way is of an earlier call than all that waits for the worker.
LEMMA RequestLater ==
    ASSUME IInv, NEW c \in Conns, NEW f \in Arriving(c)
    PROVE  /\ \A g \in Pieces(up[c]) : f.call < g.call
           /\ request[c].call # 0 => f.call < request[c].call
  BY DEF IInv, InvOrder

\* Every step keeps InvConsumed: what is left is later than what was consumed.
LEMMA ConsumedStep == ASSUME IInv, [Next]_vars, InvFresh', TypeOK' PROVE InvConsumed'
<1>1. CASE Taking /\ ~RecvLine
  <2>1. \A n \in Calls : /\ outcome'[n].reply = 0 \/ outcome'[n].reply = outcome[n].reply
                         /\ outcome'[n].kind = "result" => outcome'[n] = outcome[n]
    BY <1>1, OtherSteps
  <2> QED
    BY <1>1, <2>1, TakingShrinks, ShrinkConsumed DEF IInv
<1>2. CASE RecvLine
  <2> SUFFICES ASSUME NEW n \in Calls
               PROVE  /\ outcome'[n].kind = "result" => outcome'[n].reply # 0
                      /\ outcome'[n].reply # 0 =>
                          /\ on'[n] \in Conns
                          /\ \A f \in Arriving(on[n])' \cup Pieces(up'[on'[n]]) :
                                 outcome'[n].reply < f.call
                          /\ request'[on'[n]].call # 0 => outcome'[n].reply < request'[on'[n]].call
    BY DEF InvConsumed, Answered
  <2>1. calls \in Calls /\ on[calls] = sock /\ sock \in Conns /\ on' = on /\ sock' = sock
        /\ up' = up /\ request' = request
    BY <1>2, InUse DEF RecvLine, IInv, InvFresh, workers
  <2>2. PICK m \in Calls :
            /\ Piece(m, "tail") \in Arriving(sock)
            /\ \A f \in Arriving(sock)' : m < f.call
            /\ \/ outcome' = [outcome EXCEPT ![calls] = [kind |-> answer[m], reply |-> m]]
               \/ outcome' = [outcome EXCEPT ![calls] = Raised("badJson")]
    BY <1>2, Receives
  <2>3. CASE n # calls
    <3>1. outcome'[n] = outcome[n]
      BY <2>1, <2>2, <2>3 DEF IInv, TypeOK
    <3>2. ASSUME outcome[n].reply # 0
          PROVE  /\ on[n] \in Conns
                 /\ \A f \in Arriving(on[n]) \cup Pieces(up[on[n]]) : outcome[n].reply < f.call
                 /\ request[on[n]].call # 0 => outcome[n].reply < request[on[n]].call
      BY <3>2 DEF IInv, InvConsumed, Answered
    <3>3. outcome[n].kind = "result" => outcome[n].reply # 0
      BY DEF IInv, InvConsumed, Answered
    <3>4. \A c \in Conns : Arriving(c)' \subseteq Arriving(c)
      BY <1>2, RecvLineShrinks DEF Shrinks
    <3>5. ASSUME outcome[n].reply # 0 PROVE Arriving(on[n])' \subseteq Arriving(on[n])
      <4>1. PICK c \in Conns : c = on[n]
        BY <3>2, <3>5
      <4> QED
        BY <2>1, <3>4, <4>1 DEF Arriving
    <3> QED
      BY <2>1, <3>1, <3>2, <3>3, <3>5
  <2>4. CASE n = calls
    <3>1. outcome'[n] = [kind |-> answer[m], reply |-> m] \/ outcome'[n] = Raised("badJson")
      BY <2>1, <2>2, <2>4 DEF IInv, TypeOK
    <3>2. m # 0 /\ Piece(m, "tail").call = m
      BY DEF Calls, Piece
    <3>3. /\ \A g \in Pieces(up[sock]) : m < g.call
          /\ request[sock].call # 0 => m < request[sock].call
      BY <2>1, <2>2, <3>2, RequestLater
    <3>4. Arriving(on[n])' = Arriving(sock)'
      BY <2>1, <2>4 DEF Arriving
    <3>5. CASE outcome'[n] = Raised("badJson")
      BY <3>5 DEF Raised
    <3>6. CASE outcome'[n] = [kind |-> answer[m], reply |-> m]
      <4>1. outcome'[n].reply = m
        BY <3>6
      <4>2. on'[n] = sock /\ up'[on'[n]] = up[sock] /\ request'[on'[n]] = request[sock]
        BY <2>1, <2>4
      <4> QED
        BY <2>1, <2>2, <3>2, <3>3, <3>4, <4>1, <4>2
    <3> QED
      BY <3>1, <3>5, <3>6
  <2> QED
    BY <2>3, <2>4
<1>3. ASSUME ~RecvLine, NEW c \in Conns, NEW n \in Calls, on[n] = c, Answered(n),
             Call \/ CallSendTimeout \/ WorkerRead(c) \/ WorkerAnswer(c)
      PROVE  /\ \A f \in Arriving(c)' \cup Pieces(up'[c]) : outcome[n].reply < f.call
             /\ request'[c].call # 0 => outcome[n].reply < request'[c].call
  <2>1. /\ \A f \in Arriving(c) \cup Pieces(up[c]) : outcome[n].reply < f.call
        /\ request[c].call # 0 => outcome[n].reply < request[c].call
    BY <1>3 DEF IInv, InvConsumed
  <2>2. outcome[n].reply \in Calls /\ outcome[n].reply <= n /\ n <= calls
    <3>1. outcome[n] \in Outcome
      BY DEF IInv, TypeOK
    <3>2. outcome[n].reply \in Calls
      BY <1>3, <3>1, ConstantsAssumption DEF Outcome, Calls, Answered
    <3>3. n <= calls
      BY <1>3 DEF IInv, InvFresh, Raised, Answered, TypeOK, Calls
    <3> QED
      BY <1>3, <3>2, <3>3 DEF IInv, RepliesInOrder
  <2>3. CASE Call \/ CallSendTimeout
    <3>1. Arriving(c)' = Arriving(c) /\ request' = request
      BY <2>3, Sends DEF Arriving, workers
    <3>2. \A f \in Pieces(up'[c]) : f \in Pieces(up[c]) \/ f.call = calls + 1
      BY <2>3, SentPieces
    <3>3. outcome[n].reply < calls + 1
      <4>1. n \in Nat /\ outcome[n].reply \in Nat
        BY <2>2 DEF Calls
      <4>2. TypeOK
        BY DEF IInv
      <4>3. calls \in Nat
        BY <4>2, ConstantsAssumption DEF TypeOK
      <4> QED
        BY <2>2, <4>1, <4>3
    <3>4. \A f \in Pieces(up'[c]) : outcome[n].reply < f.call
      BY <2>1, <3>2, <3>3
    <3> QED
      BY <2>1, <3>1, <3>4
  <2>4. CASE WorkerRead(c)
    <3>1. Arriving(c)' = Arriving(c)
      BY <2>4, Reads DEF Arriving, client
    <3> QED
      BY <2>1, <2>4, <3>1, Reads
  <2>5. CASE WorkerAnswer(c)
    <3>1. up' = up /\ buf' = buf /\ sock' = sock /\ request'[c] = NoRequest
      BY <2>5, Answers DEF client
    <3>2. ASSUME NEW f \in Arriving(c)' PROVE f \in Arriving(c) \/ f.call = request[c].call
      <4>1. request[c].call \in Calls
        BY <2>5, Answers
      <4>2. ASSUME NEW g \in Pieces(down'[c]) PROVE g \in Pieces(down[c]) \/ g.call = request[c].call
        BY <2>5, <4>1, <4>2, Answers, LineStream
      <4> QED
        BY <3>1, <3>2, <4>2 DEF Arriving
    <3>3. request[c].call # 0
      BY <2>5, Answers DEF Calls
    <3> QED
      BY <2>1, <3>1, <3>2, <3>3 DEF NoRequest
  <2> QED
    BY <1>3, <2>3, <2>4, <2>5
<1>4. CASE (Call \/ CallSendTimeout \/ \E d \in Conns : WorkerRead(d) \/ WorkerAnswer(d)) /\ ~RecvLine
  <2> SUFFICES ASSUME NEW n \in Calls
               PROVE  /\ outcome'[n].kind = "result" => outcome'[n].reply # 0
                      /\ outcome'[n].reply # 0 =>
                          /\ on'[n] \in Conns
                          /\ \A f \in Arriving(on[n])' \cup Pieces(up'[on'[n]]) :
                                 outcome'[n].reply < f.call
                          /\ request'[on'[n]].call # 0 => outcome'[n].reply < request'[on'[n]].call
    BY DEF InvConsumed, Answered
  <2>1. /\ outcome'[n].reply = outcome[n].reply
        /\ outcome'[n].kind = "result" => outcome'[n] = outcome[n]
        /\ n <= calls => on'[n] = on[n]
    BY <1>4, OtherSteps
  <2>2. outcome'[n].kind = "result" => outcome'[n].reply # 0
    BY <2>1 DEF IInv, InvConsumed, Answered
  <2>3. ASSUME outcome[n].reply # 0
        PROVE  /\ on'[n] \in Conns
               /\ \A f \in Arriving(on[n])' \cup Pieces(up'[on'[n]]) : outcome[n].reply < f.call
               /\ request'[on'[n]].call # 0 => outcome[n].reply < request'[on'[n]].call
    <3>1. PICK c \in Conns : c = on[n]
      BY <2>3 DEF IInv, InvConsumed, Answered
    <3>2. on'[n] = c
      BY <2>1, <2>3, <3>1 DEF IInv, InvFresh, Raised, TypeOK, Calls
    <3>3. Arriving(on[n])' = Arriving(c)'
      BY <3>2 DEF Arriving
    <3>4. CASE Call \/ CallSendTimeout \/ WorkerRead(c) \/ WorkerAnswer(c)
      BY <1>3, <1>4, <2>3, <3>1, <3>2, <3>3, <3>4 DEF Answered
    <3>5. CASE \E d \in Conns : d # c /\ (WorkerRead(d) \/ WorkerAnswer(d))
      <4>1. /\ up'[c] = up[c] /\ request'[c] = request[c] /\ down'[c] = down[c]
            /\ buf' = buf /\ sock' = sock
        BY <3>5, Reads, Answers DEF client
      <4>2. Arriving(c)' = Arriving(c)
        BY <4>1 DEF Arriving
      <4> QED
        BY <2>3, <3>1, <3>2, <3>3, <4>1, <4>2 DEF IInv, InvConsumed, Answered
    <3> QED
      BY <1>4, <3>4, <3>5
  <2> QED
    BY <2>1, <2>2, <2>3
<1>5. CASE UNCHANGED vars
  BY <1>5 DEF vars, client, wire, workers, IInv, InvConsumed, Answered, Arriving
<1> QED
  BY <1>1, <1>2, <1>4, <1>5, NextCases

----------------------------------------------------------------------------
(* The handler *)

\* The call a worker handles has not run before.
LEMMA NotRunYet ==
    ASSUME IInv, NEW c \in Conns, request[c].call # 0
    PROVE  request[c].call \in Calls /\ on[request[c].call] = c /\ runs[request[c].call] = 0
<1>1. request[c].call \in Calls /\ on[request[c].call] = c
  BY RequestCall
<1> QED
  BY <1>1 DEF IInv, InvRan, TypeOK, Calls

\* Every step keeps InvRan: what waits for the handler is later than what it ran.
LEMMA RanStep == ASSUME IInv, [Next]_vars PROVE InvRan'
<1>1. CASE Taking /\ runs' = runs
  BY <1>1, TakingShrinks, ShrinkRan DEF IInv
<1>2. CASE Taking /\ ~\E c \in Conns : WorkerDies(c)
  <2>1. runs' = runs
    BY <1>2 DEF Taking, ClientReturns, Connect, ConnectRefused, Close, CallNotConnected, RecvMore,
         RecvLine, RecvTimeout, RecvEof, SocketError, Start, AcceptError, Stop, Exit, Accept,
         WorkerExit, workers
  <2> QED
    BY <1>1, <1>2, <2>1
<1>3. ASSUME NEW d \in Conns, WorkerDies(d) \/ WorkerAnswer(d) PROVE InvRan'
  <2> DEFINE m == request[d].call
  <2>1. m \in Calls /\ on[m] = d /\ runs[m] = 0
    <3>1. m # 0
      BY <1>3 DEF WorkerDies, WorkerAnswer, IInv, TypeOK
    <3> QED
      BY <3>1, NotRunYet
  <2>2. on' = on /\ request' = [request EXCEPT ![d] = NoRequest]
    BY <1>3 DEF WorkerDies, WorkerAnswer, client
  <2>3. \A c \in Conns : up'[c] \in {up[c], <<>>}
    BY <1>3 DEF WorkerDies, WorkerAnswer, IInv, TypeOK
  <2>4. /\ \A n \in Calls : n # m => runs'[n] = runs[n] /\ answer'[n] = answer[n]
        /\ runs'[m] \in {0, 1}
    BY <1>3, <2>1 DEF WorkerDies, WorkerAnswer, IInv, TypeOK
  <2>5. answer'[m] = "result" => runs'[m] = 1
    <3>1. CASE WorkerAnswer(d)
      BY <2>1, <3>1 DEF WorkerAnswer, IInv, TypeOK
    <3>2. CASE WorkerDies(d)
      BY <2>1, <3>2 DEF WorkerDies, IInv, InvRan
    <3> QED
      BY <1>3, <3>1, <3>2
  <2> SUFFICES ASSUME NEW n \in Calls
               PROVE  /\ runs'[n] <= 1
                      /\ answer'[n] = "result" => runs'[n] = 1
                      /\ runs'[n] > 0 =>
                            /\ \A f \in Pieces(up'[on[n]]) : n < f.call
                            /\ request'[on[n]].call # 0 => n < request'[on[n]].call
    BY <2>2 DEF InvRan
  <2>6. CASE n = m
    <3>1. request'[d].call = 0
      BY <2>2 DEF NoRequest, IInv, TypeOK
    <3>2. \A f \in Pieces(up[d]) : m < f.call
      BY <2>1 DEF IInv, InvOrder, Calls
    <3> HIDE DEF m
    <3> QED
      BY <2>1, <2>3, <2>4, <2>5, <2>6, <3>1, <3>2, EmptyStream
  <2>7. CASE n # m
    <3>1. runs[n] > 0 => on[n] \in Conns
      BY OwnConn DEF IInv
    <3>2. runs[n] > 0 => request'[on[n]] \in {request[on[n]], NoRequest}
      BY <2>2, <3>1 DEF IInv, TypeOK
    <3> HIDE DEF m
    <3> QED
      BY <2>3, <2>4, <2>7, <3>1, <3>2, EmptyStream DEF IInv, InvRan, NoRequest
  <2> QED
    BY <2>6, <2>7
<1>4. CASE Call \/ CallSendTimeout
  <2> SUFFICES ASSUME NEW n \in Calls
               PROVE  /\ runs[n] <= 1
                      /\ answer[n] = "result" => runs[n] = 1
                      /\ runs[n] > 0 =>
                            /\ \A f \in Pieces(up'[on'[n]]) : n < f.call
                            /\ request[on'[n]].call # 0 => n < request[on'[n]].call
    BY <1>4, Sends DEF InvRan, workers
  <2>1. ASSUME runs[n] > 0
        PROVE  /\ \A f \in Pieces(up'[on'[n]]) : n < f.call
               /\ request[on'[n]].call # 0 => n < request[on'[n]].call
    <3>1. n # calls + 1 /\ on'[n] = on[n] /\ on[n] \in Conns /\ n <= calls /\ calls \in Nat
      <4>1. on[n] \in Conns /\ runs[calls + 1] = 0
        BY <1>4, <2>1, Sends, OwnConn DEF IInv
      <4>2. n # calls + 1 /\ ~(n > calls)
        BY <2>1, <4>1 DEF IInv, InvFresh, Conns
      <4>3. n \in Nat /\ calls \in Nat
        BY ConstantsAssumption DEF IInv, TypeOK, Calls
      <4>4. on'[n] = on[n]
        BY <1>4, <4>2, Sends
      <4> QED
        BY <4>1, <4>2, <4>3, <4>4
    <3>2. \A f \in Pieces(up'[on[n]]) : f \in Pieces(up[on[n]]) \/ f.call = calls + 1
      BY <1>4, <3>1, SentPieces
    <3>3. n < calls + 1
      BY <3>1 DEF Calls
    <3> QED
      BY <2>1, <3>1, <3>2, <3>3 DEF IInv, InvRan
  <2> QED
    BY <2>1 DEF IInv, InvRan
<1>5. ASSUME NEW d \in Conns, WorkerRead(d) PROVE InvRan'
  <2>1. on' = on /\ runs' = runs /\ answer' = answer
    BY <1>5, Reads DEF client
  <2>2. ASSUME NEW n \in Calls, runs[n] > 0
        PROVE  /\ \A f \in Pieces(up'[on[n]]) : n < f.call
               /\ request'[on[n]].call # 0 => n < request'[on[n]].call
    <3>1. on[n] \in Conns
      BY <2>2, OwnConn DEF IInv
    <3>2. CASE on[n] = d
      BY <1>5, <2>2, <3>2, Reads DEF IInv, InvRan
    <3>3. CASE on[n] # d
      BY <1>5, <2>2, <3>1, <3>3, Reads DEF IInv, InvRan
    <3> QED
      BY <3>2, <3>3
  <2> QED
    BY <2>1, <2>2 DEF IInv, InvRan
<1>6. CASE UNCHANGED vars
  BY <1>6 DEF vars, client, wire, workers, IInv, InvRan
<1> QED
  BY <1>2, <1>3, <1>4, <1>5, <1>6, NextCases

\* A connection on which a call has timed out stays one.
LEMMA TimeoutsStay ==
    ASSUME IInv, [Next]_vars, NEW c \in Conns, TimedOutOn(c)
    PROVE  TimedOutOn(c)'
<1>1. PICK t \in Calls : on[t] = c /\ outcome[t].kind = "timeout"
  BY DEF TimedOutOn
<1>2. t <= calls
  BY <1>1 DEF IInv, InvFresh, TypeOK, Calls, Conns
<1>3. CASE RecvLine
  <2>1. outcome[calls].kind = "pending" /\ on' = on /\ calls \in Calls
    BY <1>3, InUse DEF RecvLine, IInv, InvFresh, Raised
  <2>2. outcome'[t] = outcome[t]
    BY <1>1, <1>3, <2>1, Receives DEF IInv, TypeOK
  <2> QED
    BY <1>1, <2>1, <2>2 DEF TimedOutOn
<1>4. CASE ~RecvLine
  <2>1. on'[t] = on[t] /\ outcome'[t] = outcome[t]
    BY <1>1, <1>2, <1>4, OtherSteps
  <2> QED
    BY <1>1, <2>1 DEF TimedOutOn
<1> QED
  BY <1>3, <1>4

----------------------------------------------------------------------------
(* Connections without a timeout *)

\* Every step keeps InvClean: without a timeout the connection carries only the
\* call in progress.
LEMMA CleanStep ==
    ASSUME IInv, [Next]_vars, TypeOK', InvFresh', InvEnds', InvOrder'
    PROVE  InvClean'
<1> SUFFICES ASSUME connected', ~TimedOutOn(sock)'
             PROVE  /\ \A f \in Arriving(sock)' \cup Pieces(up'[sock']) : receiving' /\ f.call = calls'
                    /\ request'[sock'].call # 0 => receiving' /\ request'[sock'].call = calls'
                    /\ Piece(calls', "tail") \in Arriving(sock)' => Piece(calls', "head") \in Arriving(sock)'
  BY DEF InvClean
<1> sock' \in Conns
  BY ConstantsAssumption DEF TypeOK, Conns
<1>a. ASSUME sock' = sock, connected
      PROVE  /\ sock \in Conns
             /\ \A f \in Arriving(sock) \cup Pieces(up[sock]) : receiving /\ f.call = calls
             /\ request[sock].call # 0 => receiving /\ request[sock].call = calls
             /\ Piece(calls, "tail") \in Arriving(sock) => Piece(calls, "head") \in Arriving(sock)
  <2>1. ~TimedOutOn(sock)
    <3>1. PICK c \in Conns : c = sock /\ c = sock'
      BY <1>a
    <3>2. TimedOutOn(c) => TimedOutOn(c)'
      BY TimeoutsStay
    <3> QED
      BY <3>1, <3>2 DEF TimedOutOn
  <2> QED
    BY <1>a, <2>1 DEF IInv, InvClean
<1>1. CASE Connect
  <2>1. Arriving(sock)' = {} /\ up'[sock'] = <<>> /\ request'[sock'].call = 0
    <3>1. sock' = conns + 1 /\ sock' \in Conns /\ ~(sock' <= conns) /\ up' = up /\ request' = request
      BY <1>1 DEF Connect, IInv, TypeOK
    <3>2. sock' > conns
      BY <3>1 DEF Conns, IInv, TypeOK
    <3>3. worker[sock'] = "none"
      BY <3>1, <3>2 DEF IInv, InvEnds
    <3>4. up[sock'] = <<>> /\ request[sock'] = NoRequest
      BY <3>1, <3>3 DEF IInv, InvEnds
    <3>5. down'[sock'] = <<>> /\ buf' = <<>>
      BY <1>1, <3>1 DEF Connect, DropSocket, IInv, InvEnds, InvFresh
    <3> QED
      BY <3>1, <3>4, <3>5, EmptyStream DEF Arriving, NoRequest
  <2> QED
    BY <2>1, EmptyStream
<1>2. CASE ConnectRefused \/ Close \/ CallNotConnected \/ SocketError
  BY <1>2 DEF ConnectRefused, Close, CallNotConnected, SocketError
<1>3. CASE Call
  <2>1. sock' = sock /\ connected /\ ~receiving /\ receiving' /\ calls' = calls + 1 /\ calls + 1 \in Calls
        /\ down' = down /\ buf' = buf /\ request' = request
    BY <1>3, Sends DEF Call, workers
  <2>2. Arriving(sock) = {} /\ Pieces(up[sock]) = {} /\ request[sock].call = 0
    BY <1>a, <2>1
  <2>3. Arriving(sock)' = {}
    BY <2>1, <2>2 DEF Arriving
  <2>4. \A f \in Pieces(up'[sock]) : f.call = calls + 1
    BY <1>3, <2>1, <2>2, Sends, LineStream
  <2> QED
    BY <2>1, <2>2, <2>3, <2>4
<1>4. CASE CallSendTimeout
  <2>1. sock' = sock /\ calls + 1 \in Calls /\ on'[calls + 1] = sock
    BY <1>4, Sends DEF IInv, TypeOK
  <2>2. outcome'[calls + 1].kind = "timeout"
    BY <1>4, <2>1 DEF CallSendTimeout, IInv, TypeOK, Raised
  <2> QED
    BY <2>1, <2>2 DEF TimedOutOn
<1>5. CASE RecvMore
  <2>1. Arriving(sock)' = Arriving(sock) /\ sock' = sock /\ connected' = connected
        /\ receiving' = receiving /\ calls' = calls /\ up' = up /\ request' = request
    BY <1>5, RecvMoreShrinks DEF RecvMore, workers
  <2> QED
    BY <1>a, <2>1
<1>6. CASE RecvLine
  <2>1. sock' = sock /\ connected' = connected /\ calls' = calls /\ up' = up /\ request' = request
    BY <1>6 DEF RecvLine, workers
  <2>2. ~TimedOutOn(sock)
    <3>1. PICK c \in Conns : c = sock /\ c = sock'
      BY <2>1
    <3>2. TimedOutOn(c) => TimedOutOn(c)'
      BY TimeoutsStay
    <3> QED
      BY <3>1, <3>2 DEF TimedOutOn
  <2>3. /\ Piece(calls, "tail") \in Arriving(sock)
        /\ \A f \in Arriving(sock)' : calls < f.call
    BY <1>6, <2>2, Receives
  <2>4. Arriving(sock)' \subseteq Arriving(sock)
    BY <1>6, <2>1, RecvLineShrinks DEF Shrinks, Arriving
  <2>5. calls \in Nat /\ Piece(calls, "tail").call = calls
    BY DEF IInv, TypeOK, Piece
  <2>6. Arriving(sock)' = {}
    BY <1>a, <2>1, <2>3, <2>4, <2>5
  <2>7. \A g \in Pieces(up[sock]) : calls < g.call
    BY <2>1, <2>3, <2>5, RequestLater
  <2>8. Pieces(up[sock]) = {}
    BY <1>a, <2>1, <2>5, <2>7
  <2>9. request[sock].call = 0
    BY <1>a, <2>1, <2>3, <2>5, RequestLater
  <2> QED
    BY <2>1, <2>6, <2>8, <2>9
<1>7. CASE RecvTimeout
  <2>1. calls \in Calls /\ on'[calls] = sock' /\ outcome'[calls].kind = "timeout"
    BY <1>7, InUse DEF RecvTimeout, Return, Raised, IInv, TypeOK, InvFresh
  <2> QED
    BY <2>1 DEF TimedOutOn
<1>8. CASE RecvEof
  <2>1. sock' = sock /\ down'[sock] = <<>> /\ buf' = <<>> /\ worker[sock] = "closed"
        /\ up' = up /\ request' = request
    BY <1>8 DEF RecvEof, Return, wire, workers
  <2>2. up[sock] = <<>> /\ request[sock] = NoRequest
    BY <2>1 DEF IInv, InvEnds
  <2>3. Arriving(sock)' = {}
    BY <2>1, EmptyStream DEF Arriving
  <2> QED
    BY <2>1, <2>2, <2>3, EmptyStream DEF NoRequest
<1>9. CASE \/ Start \/ AcceptError \/ Stop \/ Exit
           \/ \E c \in Conns : Accept(c) \/ WorkerExit(c) \/ WorkerDies(c)
  <2>1. client' = client /\ Shrinks
    BY <1>9, ServerShrinks
  <2>2. sock' = sock /\ connected /\ receiving' = receiving /\ calls' = calls /\ buf' = buf
    BY <2>1 DEF client
  <2>3. /\ Arriving(sock)' \subseteq Arriving(sock) /\ Pieces(up'[sock]) \subseteq Pieces(up[sock])
        /\ request'[sock] \in {request[sock], NoRequest}
    BY <2>1, <2>2 DEF Shrinks, Arriving
  <2>4. ASSUME Piece(calls, "tail") \in Arriving(sock)' PROVE Piece(calls, "head") \in Arriving(sock)'
    <3>1. Piece(calls, "head") \in Arriving(sock)
      BY <1>a, <2>2, <2>3, <2>4
    <3>2. CASE ~Exit
      <4>1. down' = down
        BY <1>9, <3>2 DEF Start, AcceptError, Stop, Accept, WorkerExit, WorkerDies, wire
      <4> QED
        BY <2>2, <3>1, <4>1 DEF Arriving
    <3>3. CASE Exit
      <4>1. PICK kept \in [Conns -> 0..(2 * MaxCalls)] :
                /\ \A d \in Conns : kept[d] <= Len(down[d])
                /\ down' = [d \in Conns |-> SubSeq(down[d], 1, kept[d])]
        BY <3>3 DEF Exit
      <4> DEFINE s == down[sock]
                 k == kept[sock]
      <4>2. s \in Seq(Fragment) /\ k \in 0..Len(s) /\ down'[sock] = SubSeq(s, 1, k) /\ Sorted(s)
        BY <2>2, <4>1, ConstantsAssumption DEF IInv, TypeOK, InvOrder
      <4>3. /\ Len(SubSeq(s, 1, k)) = k
            /\ \A i \in 1..k : SubSeq(s, 1, k)[i] = s[i]
            /\ SubSeq(s, 1, k) \in Seq(Fragment)
        <5>1. 1 \in 1..(Len(s) + 1) /\ 1 <= k + 1 /\ k + 1 - 1 = k
          BY <4>2
        <5>2. \A i \in 1..k : 1 + i - 1 = i
          BY <4>2
        <5> HIDE DEF s, k
        <5> QED
          BY <4>2, <5>1, <5>2, SubStreams
      <4>4. Piece(calls, "tail") \notin Pieces(buf)
        <5>1. \A i \in DOMAIN buf : buf[i].part = "head"
          BY DEF IInv, InvOrder, Unterminated
        <5> QED
          BY <5>1 DEF Pieces, Piece
      <4> HIDE DEF s, k
      <4>5. Piece(calls, "tail") \in Pieces(SubSeq(s, 1, k))
        BY <2>2, <2>4, <4>2, <4>4 DEF Arriving
      <4>6. PICK t \in 1..k : s[t] = Piece(calls, "tail")
        BY <4>3, <4>5 DEF Pieces
      <4>7. CASE Piece(calls, "head") \in Pieces(buf)
        BY <2>2, <4>7 DEF Arriving
      <4>8. CASE Piece(calls, "head") \in Pieces(s)
        <5>1. PICK i \in DOMAIN s : s[i] = Piece(calls, "head")
          BY <4>8 DEF Pieces
        <5>2. calls \in Nat
          BY DEF IInv, TypeOK
        <5>3. ~Before(s[t], s[i]) /\ s[t] # s[i]
          BY <4>6, <5>1, <5>2 DEF Before, Piece
        <5>4. i < t
          BY <4>2, <4>6, <5>1, <5>3 DEF Sorted
        <5>5. i \in 1..k /\ SubSeq(s, 1, k)[i] = Piece(calls, "head") /\ i \in DOMAIN SubSeq(s, 1, k)
          BY <4>2, <4>3, <4>6, <5>1, <5>4
        <5>6. Piece(calls, "head") \in Pieces(down'[sock])
          BY <4>2, <4>3, <5>5, StreamElements
        <5> QED
          BY <2>2, <5>6 DEF Arriving
      <4> QED
        BY <3>1, <4>7, <4>8 DEF Arriving, s
    <3> QED
      BY <3>2, <3>3
  <2> QED
    BY <1>a, <2>2, <2>3, <2>4 DEF NoRequest
<1>10. ASSUME NEW d \in Conns, WorkerRead(d) \/ WorkerAnswer(d)
       PROVE  /\ \A f \in Arriving(sock)' \cup Pieces(up'[sock']) : receiving' /\ f.call = calls'
              /\ request'[sock'].call # 0 => receiving' /\ request'[sock'].call = calls'
              /\ Piece(calls', "tail") \in Arriving(sock)' => Piece(calls', "head") \in Arriving(sock)'
  <2>1. sock' = sock /\ connected /\ receiving' = receiving /\ calls' = calls /\ buf' = buf
    BY <1>10, Reads, Answers DEF client
  <2>2. CASE WorkerRead(d)
    <3>1. Arriving(sock)' = Arriving(sock)
      BY <2>1, <2>2, Reads DEF Arriving
    <3>2. Pieces(up'[sock]) \subseteq Pieces(up[sock])
      BY <2>1, <2>2, Reads
    <3>3. request'[sock] = request[sock] \/ \E f \in Pieces(up[sock]) : request'[sock].call = f.call
      BY <2>1, <2>2, Reads
    <3> QED
      BY <1>a, <2>1, <3>1, <3>2, <3>3
  <2>3. CASE WorkerAnswer(d)
    <3>1. CASE d = sock
      <4>1. request[d].call # 0 /\ request'[d] = NoRequest /\ up' = up /\ request[d].call \in Calls
        BY <2>3, Answers DEF Calls
      <4>2. receiving /\ request[d].call = calls
        BY <1>a, <2>1, <3>1, <4>1
      <4>3. Pieces(down'[d]) = Pieces(down[d]) \cup {Piece(calls, "head"), Piece(calls, "tail")}
        BY <2>3, <3>1, <4>2, Answers
      <4>4. Arriving(sock)' = Arriving(sock) \cup {Piece(calls, "head"), Piece(calls, "tail")}
        BY <2>1, <3>1, <4>3 DEF Arriving
      <4>5. Piece(calls, "head").call = calls /\ Piece(calls, "tail").call = calls
        BY DEF Piece
      <4> QED
        BY <1>a, <2>1, <3>1, <4>1, <4>2, <4>4, <4>5 DEF NoRequest
    <3>2. CASE d # sock
      <4>1. down'[sock] = down[sock] /\ request'[sock] = request[sock] /\ up' = up
        BY <2>1, <2>3, <3>2, Answers
      <4>2. Arriving(sock)' = Arriving(sock)
        BY <2>1, <4>1 DEF Arriving
      <4> QED
        BY <1>a, <2>1, <4>1, <4>2
    <3> QED
      BY <3>1, <3>2
  <2> QED
    BY <1>10, <2>2, <2>3
<1>11. CASE UNCHANGED vars
  <2>1. sock' = sock /\ connected /\ receiving' = receiving /\ calls' = calls /\ buf' = buf
        /\ down' = down /\ up' = up /\ request' = request
    BY <1>11 DEF vars, client, wire, workers
  <2>2. Arriving(sock)' = Arriving(sock)
    BY <2>1 DEF Arriving
  <2> QED
    BY <1>a, <2>1, <2>2
<1> QED
  BY <1>1, <1>2, <1>3, <1>4, <1>5, <1>6, <1>7, <1>8, <1>9, <1>10, <1>11, NextCases DEF Taking, ClientReturns

----------------------------------------------------------------------------
(* The properties *)

\* A call that was answered, or ended otherwise, has been made.
LEMMA Ended ==
    ASSUME IInv, NEW n \in Calls, Answered(n) \/ outcome[n].kind # "none"
    PROVE  n <= calls
  BY DEF IInv, InvFresh, Raised, Answered, TypeOK, Calls

\* Every step keeps RepliesInOrder: the client consumes the replies of a
\* connection in the order of the requests, none twice.
LEMMA RepliesStep == ASSUME IInv, [Next]_vars PROVE RepliesInOrder'
<1>1. CASE RecvLine
  <2>1. calls \in Calls /\ on[calls] = sock /\ on' = on
    BY <1>1, InUse DEF RecvLine, IInv, InvFresh
  <2>2. PICK m \in Calls :
            /\ m <= calls /\ on[m] = sock /\ Piece(m, "tail") \in Arriving(sock)
            /\ \/ outcome' = [outcome EXCEPT ![calls] = [kind |-> answer[m], reply |-> m]]
               \/ outcome' = [outcome EXCEPT ![calls] = Raised("badJson")]
    BY <1>1, Receives
  <2>3. Piece(m, "tail").call = m /\ m > 0
    BY DEF Piece, Calls
  <2>4. ASSUME NEW n \in Calls, n # calls PROVE outcome'[n] = outcome[n]
    BY <2>1, <2>2, <2>4 DEF IInv, TypeOK
  <2>5. outcome'[calls].reply \in {0, m}
    BY <2>1, <2>2 DEF IInv, TypeOK, Raised
  <2>6. ASSUME NEW n \in Calls, on[n] = sock PROVE outcome[n].reply < m
    <3>1. CASE Answered(n)
      BY <2>2, <2>3, <2>6, <3>1 DEF IInv, InvConsumed
    <3>2. CASE ~Answered(n)
      BY <2>3, <3>2 DEF Answered
    <3> QED
      BY <3>1, <3>2
  <2> SUFFICES ASSUME NEW n \in Calls, outcome'[n].reply # 0
               PROVE  /\ outcome'[n].reply <= n /\ on[outcome'[n].reply] = on[n]
                      /\ \A n2 \in Calls : n2 < n /\ on[n2] = on[n] =>
                             outcome'[n2].reply < outcome'[n].reply
    BY <2>1 DEF RepliesInOrder, Answered
  <2>7. CASE n = calls
    BY <2>1, <2>2, <2>3, <2>4, <2>5, <2>6, <2>7 DEF Calls
  <2>8. CASE n # calls
    <3>1. Answered(n) /\ outcome'[n] = outcome[n]
      BY <2>4, <2>8 DEF Answered
    <3>2. n < calls
      BY <2>1, <2>8, <3>1, Ended DEF Calls
    <3>3. \A n2 \in Calls : n2 < n => n2 # calls
      BY <2>1, <3>2 DEF Calls
    <3> QED
      BY <2>4, <3>1, <3>3 DEF IInv, RepliesInOrder
  <2> QED
    BY <2>7, <2>8
<1>2. CASE ~RecvLine
  <2>1. \A n \in Calls : outcome'[n].reply = outcome[n].reply /\ (n <= calls => on'[n] = on[n])
    BY <1>2, OtherSteps
  <2> SUFFICES ASSUME NEW n \in Calls, outcome[n].reply # 0
               PROVE  /\ outcome[n].reply <= n /\ on'[outcome[n].reply] = on'[n]
                      /\ \A n2 \in Calls : n2 < n /\ on'[n2] = on'[n] =>
                             outcome[n2].reply < outcome[n].reply
    BY <2>1 DEF RepliesInOrder, Answered
  <2>2. n <= calls /\ calls \in Nat
    BY Ended DEF Answered, IInv, TypeOK
  <2>3. outcome[n].reply \in Calls /\ outcome[n].reply <= n /\ on[outcome[n].reply] = on[n]
    <3>1. outcome[n] \in Outcome
      BY DEF IInv, TypeOK
    <3>2. outcome[n].reply \in Calls
      BY <3>1, ConstantsAssumption DEF Outcome, Calls
    <3> QED
      BY <3>2 DEF IInv, RepliesInOrder, Answered
  <2>4. \A k \in Calls : k <= n => on'[k] = on[k]
    BY <2>1, <2>2 DEF Calls
  <2>5. \A n2 \in Calls : n2 < n => on'[n2] = on[n2]
    BY <2>4 DEF Calls
  <2>6. on'[n] = on[n] /\ on'[outcome[n].reply] = on[outcome[n].reply]
    BY <2>3, <2>4 DEF Calls
  <2> QED
    BY <2>3, <2>5, <2>6 DEF IInv, RepliesInOrder, Answered
<1> QED
  BY <1>1, <1>2

\* What holds of a call because an earlier one of its connection has timed out
\* keeps holding.
LEMMA EarlierTimeout ==
    ASSUME IInv, [Next]_vars, NEW n \in Calls, NEW t \in Calls, n <= calls,
           t < n, on[t] = on[n], outcome[t].kind = "timeout"
    PROVE  on'[t] = on'[n] /\ outcome'[t].kind = "timeout"
<1>1. t <= calls /\ calls \in Nat
  BY DEF IInv, TypeOK, Calls
<1>2. CASE RecvLine
  <2>1. outcome[calls].kind = "pending" /\ on' = on /\ calls \in Calls
    BY <1>2, InUse DEF RecvLine, IInv, InvFresh, Raised
  <2>2. outcome'[t] = outcome[t]
    BY <1>2, <2>1, Receives DEF IInv, TypeOK
  <2> QED
    BY <2>1, <2>2
<1>3. CASE ~RecvLine
  BY <1>1, <1>3, OtherSteps
<1> QED
  BY <1>2, <1>3

\* Every step keeps the two properties that only a timeout can break: the reply
\* is the call's own, and the line parses.
LEMMA OwnReplyStep ==
    ASSUME IInv, [Next]_vars
    PROVE  OwnReplyUnlessTimeout' /\ FramingLostOnlyByTimeout'
<1>1. CASE RecvLine
  <2>1. calls \in Calls /\ on[calls] = sock /\ on' = on /\ outcome[calls].kind = "pending"
    BY <1>1, InUse DEF RecvLine, IInv, InvFresh, Raised
  <2>2. PICK m \in Calls :
            /\ \/ outcome' = [outcome EXCEPT ![calls] = [kind |-> answer[m], reply |-> m]]
               \/ /\ outcome' = [outcome EXCEPT ![calls] = Raised("badJson")]
                  /\ TimedOutOn(sock)
            /\ ~TimedOutOn(sock) => m = calls
    BY <1>1, Receives
  <2>3. \A n \in Calls : n # calls => outcome'[n] = outcome[n]
    BY <2>1, <2>2 DEF IInv, TypeOK
  <2>4. ASSUME TimedOutOn(sock)
        PROVE  \E t \in Calls : t < calls /\ on'[t] = on'[calls] /\ outcome'[t].kind = "timeout"
    <3>1. PICK t \in Calls : on[t] = sock /\ outcome[t].kind = "timeout"
      BY <2>4 DEF TimedOutOn
    <3>2. t # calls /\ t <= calls
      BY <2>1, <3>1, Ended
    <3>3. t < calls
      BY <2>1, <3>2 DEF Calls
    <3> QED
      BY <2>1, <2>3, <3>1, <3>2, <3>3
  <2>5. ASSUME ~TimedOutOn(sock)
        PROVE  outcome'[calls].reply = calls /\ outcome'[calls].kind # "badJson"
    <3>1. outcome'[calls] = [kind |-> answer[calls], reply |-> calls]
      BY <2>1, <2>2, <2>5 DEF IInv, TypeOK
    <3>2. answer[calls] # "badJson"
      BY <2>1 DEF IInv, TypeOK
    <3> QED
      BY <3>1, <3>2
  <2>6. ASSUME NEW n \in Calls, n # calls
        PROVE  /\ outcome'[n].reply # 0 =>
                     \/ outcome'[n].reply = n
                     \/ \E t \in Calls : t < n /\ on'[t] = on'[n] /\ outcome'[t].kind = "timeout"
               /\ outcome'[n].kind = "badJson" =>
                     \E t \in Calls : t < n /\ on'[t] = on'[n] /\ outcome'[t].kind = "timeout"
    <3>1. outcome'[n] = outcome[n]
      BY <2>3, <2>6
    <3>2. outcome[n].reply # 0 \/ outcome[n].kind = "badJson" => n <= calls
      BY Ended DEF Answered
    <3> QED
      BY <3>1, <3>2, EarlierTimeout DEF IInv, OwnReplyUnlessTimeout, FramingLostOnlyByTimeout, Answered
  <2> QED
    BY <2>4, <2>5, <2>6 DEF OwnReplyUnlessTimeout, FramingLostOnlyByTimeout, Answered
<1>2. CASE ~RecvLine
  <2>1. ASSUME NEW n \in Calls
        PROVE  /\ outcome'[n].reply # 0 =>
                     \/ outcome'[n].reply = n
                     \/ \E t \in Calls : t < n /\ on'[t] = on'[n] /\ outcome'[t].kind = "timeout"
               /\ outcome'[n].kind = "badJson" =>
                     \E t \in Calls : t < n /\ on'[t] = on'[n] /\ outcome'[t].kind = "timeout"
    <3>1. /\ outcome'[n].reply = outcome[n].reply
          /\ outcome'[n].kind = "badJson" => outcome[n].kind = "badJson"
      BY <1>2, OtherSteps
    <3>2. outcome[n].reply # 0 \/ outcome[n].kind = "badJson" => n <= calls
      BY Ended DEF Answered
    <3> QED
      BY <3>1, <3>2, EarlierTimeout DEF IInv, OwnReplyUnlessTimeout, FramingLostOnlyByTimeout, Answered
  <2> QED
    BY <2>1 DEF OwnReplyUnlessTimeout, FramingLostOnlyByTimeout, Answered
<1> QED
  BY <1>1, <1>2

\* The handler never runs less often than it did.
LEMMA RunsGrow ==
    ASSUME IInv, [Next]_vars, NEW n \in Calls
    PROVE  runs'[n] >= runs[n]
<1>1. CASE runs' = runs
  BY <1>1 DEF IInv, TypeOK
<1>2. ASSUME NEW c \in Conns, WorkerAnswer(c) \/ WorkerDies(c) PROVE runs'[n] >= runs[n]
  <2>1. runs' = runs \/ runs' = [runs EXCEPT ![request[c].call] = @ + 1]
    BY <1>2 DEF WorkerAnswer, WorkerDies
  <2>2. runs \in [Calls -> Nat] /\ runs[n] \in Nat
    BY DEF IInv, TypeOK
  <2>3. runs'[n] = runs[n] \/ runs'[n] = runs[n] + 1
    <3>1. CASE n = request[c].call
      BY <2>1, <2>2, <3>1
    <3>2. CASE n # request[c].call
      BY <2>1, <2>2, <3>2
    <3> QED
      BY <3>1, <3>2
  <2> QED
    BY <2>2, <2>3
<1> QED
  BY <1>1, <1>2 DEF Next, ClientReturns, Worker, vars, workers, Connect, ConnectRefused, Close, CallNotConnected,
      Call, CallSendTimeout, RecvMore, RecvLine, RecvTimeout, RecvEof, SocketError, Start, AcceptError,
      Stop, Exit, Accept, WorkerRead, WorkerExit

\* Every step keeps HandlerRunsOnce: a result stands for exactly one run of the
\* handler.
LEMMA RunsOnceStep ==
    ASSUME IInv, [Next]_vars, InvRan', InvConsumed', TypeOK'
    PROVE  HandlerRunsOnce'
<1> SUFFICES ASSUME NEW n \in Calls, outcome'[n].kind = "result"
             PROVE  runs'[outcome'[n].reply] = 1
  BY DEF HandlerRunsOnce, InvRan
<1>1. outcome'[n].reply \in Calls
  <2>1. outcome'[n] \in Outcome
    BY DEF TypeOK
  <2> QED
    BY <2>1, ConstantsAssumption DEF InvConsumed, Answered, Outcome, Calls
<1>2. runs[outcome'[n].reply] = 1
  <2>1. CASE ~RecvLine \/ n # calls
    <3>1. outcome'[n] = outcome[n]
      <4>1. CASE ~RecvLine
        BY <4>1, OtherSteps
      <4>2. CASE RecvLine /\ n # calls
        BY <4>2, Receives DEF IInv, TypeOK
      <4> QED
        BY <2>1, <4>1, <4>2
    <3> QED
      BY <3>1 DEF IInv, HandlerRunsOnce
  <2>2. CASE RecvLine /\ n = calls
    <3>1. PICK m \in Calls :
              \/ outcome'[n] = [kind |-> answer[m], reply |-> m]
              \/ outcome'[n] = Raised("badJson")
      BY <2>2, Receives DEF IInv, TypeOK
    <3>2. answer[m] = "result" /\ outcome'[n].reply = m
      BY <3>1 DEF Raised
    <3> QED
      BY <3>2 DEF IInv, InvRan
  <2> QED
    BY <2>1, <2>2
<1>3. runs'[outcome'[n].reply] <= 1
  BY <1>1 DEF InvRan
<1>4. runs'[outcome'[n].reply] >= runs[outcome'[n].reply] /\ runs'[outcome'[n].reply] \in Nat
  BY <1>1, RunsGrow DEF TypeOK
<1> QED
  BY <1>2, <1>3, <1>4

\* A call has seen the end of the stream only if recv has returned it.
LEMMA EofOnlyByEof ==
    ASSUME IInv, [Next]_vars, ~RecvEof, NEW m \in Calls, outcome'[m].kind = "eof"
    PROVE  outcome[m].kind = "eof" /\ on'[m] = on[m]
<1>1. CASE CallNotConnected \/ Call \/ CallSendTimeout
  <2>1. calls + 1 \in Calls
    BY <1>1, InUse DEF CallNotConnected, Call, CallSendTimeout, IInv
  <2>2. \E k \in {"notConnected", "pending", "timeout"} :
            outcome' = [outcome EXCEPT ![calls + 1] = Raised(k)]
    BY <1>1 DEF CallNotConnected, Call, CallSendTimeout
  <2>3. m # calls + 1 /\ outcome'[m] = outcome[m]
    BY <2>1, <2>2 DEF IInv, TypeOK, Raised
  <2> QED
    BY <1>1, <2>1, <2>3 DEF CallNotConnected, Call, CallSendTimeout, IInv, TypeOK
<1>2. CASE RecvTimeout \/ SocketError
  <2>1. calls \in Calls /\ \E k \in {"timeout", "socketError"} :
            outcome' = [outcome EXCEPT ![calls] = Raised(k)]
    BY <1>2, InUse DEF RecvTimeout, SocketError, Return, IInv
  <2> QED
    BY <1>2, <2>1 DEF RecvTimeout, SocketError, IInv, TypeOK, Raised
<1>3. CASE RecvLine
  <2>1. PICK n \in Calls : \/ outcome' = [outcome EXCEPT ![calls] = [kind |-> answer[n], reply |-> n]]
                           \/ outcome' = [outcome EXCEPT ![calls] = Raised("badJson")]
    BY <1>3, Receives
  <2>2. answer[n] # "eof"
    BY DEF IInv, TypeOK
  <2>3. calls \in Calls /\ on' = on
    BY <1>3, InUse DEF RecvLine, IInv
  <2>4. outcome'[calls].kind # "eof" /\ (m # calls => outcome'[m] = outcome[m])
    BY <2>1, <2>2, <2>3 DEF IInv, TypeOK, Raised
  <2> QED
    BY <2>3, <2>4
<1>4. CASE outcome' = outcome /\ on' = on
  BY <1>4
<1> QED
  BY <1>1, <1>2, <1>3, <1>4 DEF Next, ClientReturns, Worker, vars, client, Connect, ConnectRefused,
     Close, RecvMore, Start, AcceptError, Stop, Exit, Accept, WorkerRead, WorkerAnswer, WorkerExit, WorkerDies

\* A call is sent once, on one connection.
LEMMA SentOnce ==
    ASSUME IInv, [Next]_vars, NEW n \in Calls, n <= calls
    PROVE  on'[n] = on[n]
<1>1. CASE RecvLine
  BY <1>1 DEF RecvLine
<1>2. CASE ~RecvLine
  BY <1>2, OtherSteps
<1> QED
  BY <1>1, <1>2

\* Every step keeps InvClosed: nothing comes from a connection that has ended.
LEMMA ClosedStep == ASSUME IInv, [Next]_vars PROVE InvClosed'
<1> SUFFICES ASSUME NEW m \in Calls, outcome'[m].kind = "eof"
             PROVE  on'[m] \in Conns /\ worker'[on'[m]] = "closed" /\ down'[on'[m]] = <<>>
  BY DEF InvClosed
<1>1. CASE RecvEof
  <2>1. calls \in Calls /\ on[calls] = sock /\ sock \in Conns
    BY <1>1, InUse DEF RecvEof, IInv, InvFresh
  <2>2. m # calls => outcome'[m] = outcome[m]
    BY <1>1, <2>1 DEF RecvEof, Return, IInv, TypeOK
  <2> QED
    BY <1>1, <2>1, <2>2 DEF RecvEof, wire, workers, IInv, InvClosed
<1>2. CASE ~RecvEof
  <2>1. outcome[m].kind = "eof" /\ on'[m] = on[m]
    BY <1>2, EofOnlyByEof
  <2> DEFINE c == on[m]
  <2>2. c \in Conns /\ worker[c] = "closed" /\ down[c] = <<>> /\ c <= conns
    BY <2>1 DEF IInv, InvClosed, InvFresh
  <2> HIDE DEF c
  <2>3. worker'[c] = "closed"
    <3>1. CASE Connect
      <4>1. c # conns + 1
        BY <2>2 DEF Conns, IInv, TypeOK
      <4> QED
        BY <2>2, <3>1, <4>1 DEF Connect, IInv, TypeOK
    <3>2. CASE \E d \in Conns : Accept(d) \/ Worker(d)
      BY <2>2, <3>2 DEF Accept, Worker, WorkerRead, WorkerAnswer, WorkerExit, WorkerDies, IInv, TypeOK
    <3>3. CASE Stop \/ Exit
      BY <2>2, <3>3 DEF Stop, Exit
    <3>4. CASE worker' = worker
      BY <2>2, <3>4
    <3> QED
      BY <3>1, <3>2, <3>3, <3>4 DEF Next, ClientReturns, vars, workers, ConnectRefused, Close, CallNotConnected, Call,
         CallSendTimeout, RecvMore, RecvLine, RecvTimeout, RecvEof, SocketError, Start, AcceptError
  <2>4. down'[c] = <<>>
    <3>1. CASE Connect \/ ConnectRefused \/ Close
      BY <2>2, <3>1 DEF Connect, ConnectRefused, Close, DropSocket
    <3>2. CASE RecvMore \/ RecvLine
      <4>1. c # sock
        BY <2>2, <3>2 DEF RecvMore, RecvLine
      <4> QED
        BY <2>2, <3>2, <4>1 DEF RecvMore, RecvLine, IInv, TypeOK
    <3>3. CASE Exit
      BY <2>2, <3>3 DEF Exit
    <3>4. CASE \E d \in Conns : WorkerAnswer(d)
      BY <2>2, <3>4 DEF WorkerAnswer, IInv, TypeOK
    <3>5. CASE down' = down
      BY <2>2, <3>5
    <3> QED
      BY <3>1, <3>2, <3>3, <3>4, <3>5 DEF Next, ClientReturns, Worker, vars, wire, CallNotConnected, Call,
         CallSendTimeout, RecvTimeout, RecvEof, SocketError, Start, AcceptError, Stop,
         Accept, WorkerRead, WorkerExit, WorkerDies
  <2> QED
    BY <2>1, <2>2, <2>3, <2>4 DEF c
<1> QED
  BY <1>1, <1>2

\* Only the call a worker handles is run.
LEMMA OnlyHandledRuns ==
    ASSUME IInv, [Next]_vars, NEW m \in Calls, runs'[m] # runs[m]
    PROVE  \E c \in Conns : request[c].call = m
<1>1. PICK c \in Conns : WorkerAnswer(c) \/ WorkerDies(c)
  BY DEF Next, ClientReturns, Worker, vars, workers, Connect, ConnectRefused, Close, CallNotConnected,
      Call, CallSendTimeout, RecvMore, RecvLine, RecvTimeout, RecvEof, SocketError, Start, AcceptError,
      Stop, Exit, Accept, WorkerRead, WorkerExit
<1>2. runs' = runs \/ runs' = [runs EXCEPT ![request[c].call] = @ + 1]
  BY <1>1 DEF WorkerAnswer, WorkerDies
<1> QED
  BY <1>2 DEF IInv, TypeOK

\* Every step keeps ClosedStaysClosed: calls on a connection that has ended
\* have no effect.
LEMMA StaysClosedStep == ASSUME IInv, [Next]_vars, InvFresh' PROVE ClosedStaysClosed'
<1> SUFFICES ASSUME NEW m \in Calls, NEW n \in Calls, m < n, on'[m] = on'[n], outcome'[m].kind = "eof"
             PROVE  outcome'[n].reply = 0 /\ runs'[n] = 0
  BY DEF ClosedStaysClosed, Answered
<1>2. CASE outcome[m].kind # "eof"
  <2>1. RecvEof /\ m = calls
    <3>1. CASE RecvEof
      <4>1. calls \in Calls
        BY <3>1, InUse DEF RecvEof, IInv
      <4> QED
        BY <1>2, <3>1, <4>1 DEF RecvEof, Return, IInv, TypeOK
    <3>2. CASE ~RecvEof
      BY <1>2, <3>2, EofOnlyByEof
    <3> QED
      BY <3>1, <3>2
  <2>2. n > calls /\ on' = on /\ on[m] = sock /\ sock # 0
    BY <2>1 DEF RecvEof, IInv, InvFresh, TypeOK
  <2> QED
    BY <2>2 DEF IInv, InvFresh
<1>3. CASE outcome[m].kind = "eof"
  <2>1. on[m] \in Conns /\ worker[on[m]] = "closed" /\ down[on[m]] = <<>> /\ m <= calls
    BY <1>3, Ended DEF IInv, InvClosed
  <2>2. outcome[n].reply = 0 /\ runs[n] = 0
    <3>1. CASE n > calls
      BY <3>1 DEF IInv, InvFresh, Raised
    <3>2. CASE n <= calls
      <4>1. on'[n] = on[n] /\ on'[m] = on[m]
        BY <2>1, <3>2, SentOnce
      <4> QED
        BY <1>3, <4>1 DEF IInv, ClosedStaysClosed, Answered
    <3> QED
      BY <3>1, <3>2 DEF IInv, TypeOK, Calls
  <2>3. outcome'[n].reply = 0
    <3>1. CASE ~RecvLine
      BY <2>2, <3>1, OtherSteps
    <3>2. CASE RecvLine
      <4>1. calls \in Calls /\ on' = on /\ on[calls] = sock /\ down[sock] # <<>>
        BY <3>2, InUse DEF RecvLine, IInv, InvFresh
      <4>2. n # calls
        BY <2>1, <4>1
      <4> QED
        BY <2>2, <3>2, <4>1, <4>2 DEF RecvLine, Return, IInv, TypeOK
    <3> QED
      BY <3>1, <3>2
  <2>4. runs'[n] = 0
    <3> SUFFICES ASSUME runs'[n] # runs[n] PROVE FALSE
      BY <2>2
    <3>1. PICK c \in Conns : request[c].call = n
      BY OnlyHandledRuns
    <3>2. request[c].call # 0
      BY <3>1 DEF Calls
    <3>3. on[n] = c /\ n <= calls
      BY <3>1, <3>2, RequestCall
    <3>4. on'[n] = on[n] /\ on'[m] = on[m]
      BY <2>1, <3>3, SentOnce
    <3>5. request[c] = NoRequest
      BY <2>1, <3>3, <3>4 DEF IInv, InvEnds
    <3> QED
      BY <3>2, <3>5 DEF NoRequest
  <2> QED
    BY <2>3, <2>4
<1> QED
  BY <1>2, <1>3

\* The invariant holds before anything is connected.
LEMMA InitIInv == ASSUME Init PROVE IInv
<1> USE ConstantsAssumption
<1>1. TypeOK
  <2>1. Raised("none") \in Outcome
    BY DEF Raised, Outcome, Kinds
  <2>2. outcome \in [Calls -> Outcome]
    BY <2>1 DEF Init
  <2>3. buf \in Seq(Fragment) /\ up \in [Conns -> Seq(Fragment)] /\ down \in [Conns -> Seq(Fragment)]
    BY DEF Init
  <2>4. NoRequest \in [call : 0..MaxCalls, ok : BOOLEAN]
    BY DEF NoRequest
  <2>5. request \in [Conns -> [call : 0..MaxCalls, ok : BOOLEAN]]
    BY <2>4 DEF Init
  <2>6. connected \in BOOLEAN /\ receiving \in BOOLEAN
    BY DEF Init
  <2>7. \A c \in Conns : worker[c] = "none"
    BY DEF Init
  <2> QED
    BY <2>2, <2>3, <2>5, <2>6, <2>7 DEF Init, TypeOK
<1>2. InvFresh /\ InvEnds
  BY DEF Init, InvFresh, InvEnds, Raised, Conns, Calls
<1>3. InvOwn /\ InvOrder
  BY EmptyStream DEF Init, InvOwn, InvOrder, Arriving, NoRequest
<1>4. InvConsumed /\ InvRan /\ InvClosed /\ InvClean
  BY DEF Init, InvConsumed, InvRan, InvClosed, InvClean, Answered, Raised
<1>5. /\ RepliesInOrder /\ OwnReplyUnlessTimeout /\ FramingLostOnlyByTimeout /\ HandlerRunsOnce
      /\ ClosedStaysClosed
  BY DEF Init, RepliesInOrder, OwnReplyUnlessTimeout, FramingLostOnlyByTimeout, HandlerRunsOnce,
         ClosedStaysClosed, Answered, Raised
<1> QED
  BY <1>1, <1>2, <1>3, <1>4, <1>5 DEF IInv

\* The invariant is inductive: every step of client or server keeps it.
LEMMA IInvStep == ASSUME IInv, [Next]_vars PROVE IInv'
<1>1. TypeOK'
  BY TypeStep DEF IInv
<1>2. InvFresh' /\ InvEnds'
  BY <1>1, FreshStep, EndsStep
<1>3. InvOwn' /\ InvOrder'
  BY OwnStep, OrderStep
<1>4. InvConsumed' /\ InvRan' /\ InvClosed' /\ InvClean'
  BY <1>1, <1>2, <1>3, ConsumedStep, RanStep, ClosedStep, CleanStep
<1>5. RepliesInOrder' /\ OwnReplyUnlessTimeout' /\ FramingLostOnlyByTimeout'
  BY RepliesStep, OwnReplyStep
<1>6. HandlerRunsOnce' /\ ClosedStaysClosed'
  BY <1>1, <1>2, <1>4, RunsOnceStep, StaysClosedStep
<1> QED
  BY <1>1, <1>2, <1>3, <1>4, <1>5, <1>6 DEF IInv

\* The inductive invariant holds of every behaviour of the client and the
\* server, whatever the number of calls and of connections.
THEOREM Invariant == Spec => []IInv
  BY InitIInv, IInvStep, PTL DEF Spec

\* Type correctness, with the agreement of GhidraClient's flags: a client that
\* is connected has a socket, and one in the recv loop is connected.
THEOREM TypeCorrect == Spec => []TypeOK
<1>1. IInv => TypeOK
  BY DEF IInv
<1> QED
  BY <1>1, Invariant, PTL

----------------------------------------------------------------------------
(* The theorems that follow from the invariant *)

\* _send_request takes the replies of a connection in the order of the requests,
\* each at most once and none from an earlier connection.
THEOREM RepliesOrdered == Spec => []RepliesInOrder
<1>1. IInv => RepliesInOrder
  BY DEF IInv
<1> QED
  BY <1>1, Invariant, PTL

\* A reply that is not the call's own is possible only on a connection on which
\* an earlier _send_request timed out.
THEOREM OwnRepliesOnly == Spec => []OwnReplyUnlessTimeout
<1>1. IInv => OwnReplyUnlessTimeout
  BY DEF IInv
<1> QED
  BY <1>1, Invariant, PTL

\* json.loads fails in _send_request only behind such a timeout.
THEOREM FramingKept == Spec => []FramingLostOnlyByTimeout
<1>1. IInv => FramingLostOnlyByTimeout
  BY DEF IInv
<1> QED
  BY <1>1, Invariant, PTL

\* The server's handler runs at most once for a call, and exactly once for one
\* whose result the client has seen.
THEOREM HandlerRunsAtMostOnce == Spec => []HandlerRunsOnce
<1>1. IInv => HandlerRunsOnce
  BY DEF IInv
<1> QED
  BY <1>1, Invariant, PTL

\* Once a call has seen the end of its connection, the calls that _connected
\* still lets through on it are never answered and never run.
THEOREM ClosedForGood == Spec => []ClosedStaysClosed
<1>1. IInv => ClosedStaysClosed
  BY DEF IInv
<1> QED
  BY <1>1, Invariant, PTL

\* The server never runs the handler for a call when it has run it for a later
\* one of the same connection.
THEOREM HandlerOrdered == Spec => HandlerRunsInOrder
<1> DEFINE InOrder == \A m, n \in Calls :
                          m < n /\ on[m] = on[n] /\ runs[n] > 0 => runs'[m] = runs[m]
<1>1. IInv /\ [Next]_vars => [InOrder]_vars
  <2> SUFFICES ASSUME IInv, [Next]_vars, NEW m \in Calls, NEW n \in Calls,
                      m < n, on[m] = on[n], runs[n] > 0, runs'[m] # runs[m]
               PROVE  FALSE
    OBVIOUS
  <2>1. PICK c \in Conns : request[c].call = m
    BY OnlyHandledRuns
  <2>2. request[c].call # 0
    BY <2>1 DEF Calls
  <2>3. on[n] = c
    BY <2>1, <2>2 DEF IInv, InvOwn
  <2>4. n < m
    BY <2>1, <2>2, <2>3 DEF IInv, InvRan
  <2> QED
    BY <2>4 DEF Calls
<1> HIDE DEF InOrder
<1>2. Spec => [][InOrder]_vars
  BY <1>1, Invariant, PTL DEF Spec
<1> QED
  BY <1>2 DEF HandlerRunsInOrder, InOrder

----------------------------------------------------------------------------
(* The link implements RpcSpec *)

\* The initial states of the link are initial states of RpcSpec.
LEMMA InitPromise == ASSUME Init PROVE Promise!Init
  BY DEF Init, Promise!Init, Raised, Promise!Raised, Calls, Promise!Calls

\* RpcSpec means the same calls, connections and exceptions.
LEMMA SameNames ==
    /\ Promise!Calls = Calls /\ Promise!Conns = Conns
    /\ \A k : Promise!Raised(k) = Raised(k)
  BY DEF Calls, Conns, Raised, Promise!Calls, Promise!Conns, Promise!Raised

\* Steps of the client that make a call.
LEMMA CallPromise ==
    ASSUME IInv, CallNotConnected \/ Call \/ CallSendTimeout
    PROVE  Promise!Next
<1>1. CASE CallNotConnected
  <2>1. on' = [on EXCEPT ![calls + 1] = 0] /\ ~receiving'
    <3>1. calls + 1 \in Calls /\ calls + 1 > calls
      BY <1>1, InUse DEF CallNotConnected, IInv, TypeOK
    <3>2. on[calls + 1] = 0 /\ on \in [Calls -> 0..MaxConns]
      BY <3>1 DEF IInv, InvFresh, TypeOK
    <3> QED
      BY <1>1, <3>1, <3>2 DEF CallNotConnected
  <2>2. receiving' = FALSE
    BY <1>1, <2>1 DEF CallNotConnected, IInv, TypeOK
  <2>3. Promise!NotConnected
    BY <1>1, <2>1, <2>2, SameNames DEF CallNotConnected, Promise!NotConnected, Promise!NewCall
  <2> QED
    BY <2>3 DEF Promise!Next
<1>2. CASE Call \/ CallSendTimeout
  <2>1. sock \in Conns /\ connected
    BY <1>2, Sends
  <2>2. Promise!Usable(sock)
    BY <2>1, SameNames DEF Promise!Usable, IInv, InvFresh
  <2>3. CASE Call
    <3>1. Promise!Send(sock)
      BY <2>2, <2>3, SameNames DEF Call, Promise!Send, Promise!NewCall
    <3> QED
      BY <2>1, <3>1, SameNames DEF Promise!Next
  <2>4. CASE CallSendTimeout
    <3>1. receiving' = FALSE
      BY <2>4 DEF CallSendTimeout, IInv, TypeOK
    <3>2. Promise!SendTimeout(sock)
      BY <2>2, <2>4, <3>1, SameNames DEF CallSendTimeout, Promise!SendTimeout, Promise!NewCall
    <3> QED
      BY <2>1, <3>2, SameNames DEF Promise!Next
  <2> QED
    BY <1>2, <2>3, <2>4
<1> QED
  BY <1>1, <1>2

\* Steps that end a call.
LEMMA FinishPromise ==
    ASSUME IInv, RecvLine \/ RecvTimeout \/ RecvEof \/ SocketError
    PROVE  Promise!Next
<1>1. receiving /\ receiving' = FALSE /\ UNCHANGED <<calls, on>> /\ calls \in Calls
  BY InUse DEF RecvLine, RecvTimeout, RecvEof, SocketError, Return, IInv
<1>2. on[calls] = sock
  BY <1>1 DEF IInv, InvFresh
<1>3. CASE RecvTimeout \/ RecvEof \/ SocketError
  <2>1. \E k \in {"timeout", "eof", "socketError"} : outcome' = [outcome EXCEPT ![calls] = Raised(k)]
    BY <1>3 DEF RecvTimeout, RecvEof, SocketError, Return
  <2>2. Promise!Raise
    BY <1>1, <2>1, SameNames DEF Promise!Raise, Promise!Return
  <2> QED
    BY <2>2 DEF Promise!Next, Promise!Finish
<1>4. CASE RecvLine
  <2>1. PICK m \in Calls :
            /\ m <= calls /\ on[m] = sock /\ answer[m] # "none"
            /\ Piece(m, "tail") \in Arriving(sock)
            /\ \/ outcome' = [outcome EXCEPT ![calls] = [kind |-> answer[m], reply |-> m]]
               \/ /\ outcome' = [outcome EXCEPT ![calls] = Raised("badJson")]
                  /\ TimedOutOn(sock)
            /\ ~TimedOutOn(sock) => m = calls
    BY <1>4, Receives
  <2>2. ASSUME TimedOutOn(sock) PROVE Promise!TimedOut
    <3>1. PICK t \in Calls : on[t] = sock /\ outcome[t].kind = "timeout"
      BY <2>2 DEF TimedOutOn
    <3>2. outcome[calls].kind = "pending"
      BY <1>1 DEF IInv, InvFresh, Raised
    <3>3. t <= calls /\ t # calls
      BY <3>1, <3>2, Ended
    <3>4. t < calls
      BY <1>1, <3>3 DEF Calls
    <3> QED
      BY <1>2, <3>1, <3>4, SameNames DEF Promise!TimedOut, Promise!Earlier
  <2>3. CASE outcome' = [outcome EXCEPT ![calls] = [kind |-> answer[m], reply |-> m]]
    <3>1. answer[m] \in {"result", "error"}
      BY <2>1 DEF IInv, TypeOK
    <3>2. ASSUME NEW n \in Calls, on[n] = sock PROVE outcome[n].reply < m
      <4>1. Piece(m, "tail").call = m /\ m > 0
        BY DEF Piece, Calls
      <4>2. CASE Answered(n)
        BY <2>1, <3>2, <4>1, <4>2 DEF IInv, InvConsumed
      <4>3. CASE ~Answered(n)
        BY <4>1, <4>3 DEF Answered
      <4> QED
        BY <4>2, <4>3
    <3>3. Promise!Return([kind |-> answer[m], reply |-> m])
      BY <1>1, <2>3 DEF Promise!Return
    <3>4. Promise!Reply(m)
      BY <1>2, <2>1, <2>2, <3>1, <3>2, <3>3, SameNames DEF Promise!Reply, Promise!Earlier
    <3> QED
      BY <3>4, SameNames DEF Promise!Next, Promise!Finish
  <2>4. CASE /\ outcome' = [outcome EXCEPT ![calls] = Raised("badJson")]
             /\ TimedOutOn(sock)
    <3>1. Promise!Garbled
      BY <1>1, <2>2, <2>4, SameNames DEF Promise!Garbled, Promise!Return
    <3> QED
      BY <3>1 DEF Promise!Next, Promise!Finish
  <2> QED
    BY <2>1, <2>3, <2>4
<1> QED
  BY <1>3, <1>4

\* Every step of the link is a step of RpcSpec or leaves its variables alone.
LEMMA StepPromise == ASSUME IInv, [Next]_vars PROVE [Promise!Next]_(Promise!vars)
<1>1. CASE CallNotConnected \/ Call \/ CallSendTimeout
  BY <1>1, CallPromise
<1>2. CASE RecvLine \/ RecvTimeout \/ RecvEof \/ SocketError
  BY <1>2, FinishPromise
<1>3. CASE ~(CallNotConnected \/ Call \/ CallSendTimeout \/ RecvLine \/ RecvTimeout \/ RecvEof \/ SocketError)
  <2>1. UNCHANGED <<calls, receiving, outcome, on>>
    BY <1>3 DEF Next, ClientReturns, Worker, vars, client, workers, wire, Connect, ConnectRefused, Close,
      RecvMore, Start, AcceptError, Stop, Exit, Accept, WorkerRead, WorkerAnswer, WorkerExit, WorkerDies
  <2> QED
    BY <2>1 DEF Promise!vars
<1> QED
  BY <1>1, <1>2, <1>3

\* The link implements RpcSpec: what client, wire and server do together is
\* what the promise to a caller of GhidraClient allows.
THEOREM Implements == Spec => ImplementsRpcSpec
  BY InitPromise, StepPromise, Invariant, PTL DEF Spec, ImplementsRpcSpec, Promise!Spec
============================================================================
