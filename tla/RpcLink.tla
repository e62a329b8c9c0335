------------------------------ MODULE RpcLink ------------------------------
(***************************************************************************)
(* One GhidraClient (ghidra_client.py) talking newline-delimited JSON over *)
(* TCP to JsonRpcServer (JsonRpcServer.java).  The client is one thread    *)
(* that makes one call at a time; the server has an accept loop and one    *)
(* worker thread per connection.                                           *)
(*                                                                         *)
(* Calls are numbered in the order they are made and a request or a reply  *)
(* is named by the number of the call it belongs to: the client sends no   *)
(* "id" and looks at none.  A line on the wire is a "head" (any number of  *)
(* bytes short of the newline) followed by a "tail" (the bytes that end    *)
(* with the newline), because sendall may stop and recv may cut anywhere.  *)
(***************************************************************************)
EXTENDS Naturals, Sequences

CONSTANTS
    MaxCalls,   \* bound on the calls the client makes
    MaxConns    \* bound on the TCP connections it opens

ASSUME ConstantsAssumption == MaxCalls \in Nat \ {0} /\ MaxConns \in Nat \ {0}

Calls == 1..MaxCalls
Conns == 1..MaxConns

\* A piece of the line that carries the request, or the reply, of a call.
Fragment == [call : Calls, part : {"head", "tail"}]
Piece(n, p) == [call |-> n, part |-> p]
Line(n) == <<Piece(n, "head"), Piece(n, "tail")>>

\* How a call ended: it returned a "result", raised the "error" the reply
\* carries, or raised without a reply.  reply names the call that was answered.
Kinds == {"none", "pending", "result", "error",
          "notConnected", "timeout", "eof", "socketError", "badJson"}
Outcome == [kind : Kinds, reply : 0..MaxCalls]
Raised(k) == [kind |-> k, reply |-> 0]

VARIABLES
    connected,  \* GhidraClient._connected
    sock,       \* GhidraClient._sock: a connection, or 0 when None or unconnected
    conns,      \* connections opened so far
    calls,      \* calls made so far
    receiving,  \* the client is inside _send_request, in the recv loop
    buf,        \* its local buf
    outcome,    \* history: how each call ended
    on,         \* history: the connection each call was sent on, 0 for none
    up, down,   \* bytes travelling to the server and to the client
    server,     \* "down", "serving", or "deaf": socket open, accept loop ended
    worker,     \* what serves each connection
    request,    \* the line each worker is handling
    answer,     \* what the server answered to each call's line
    runs        \* history: how often the handler ran for each call

client == <<connected, sock, conns, calls, receiving, buf, outcome, on>>
wire == <<up, down>>
workers == <<worker, request, answer, runs>>
vars == <<client, wire, server, workers>>

NoRequest == [call |-> 0, ok |-> FALSE]

Init ==
    /\ connected = FALSE /\ sock = 0 /\ conns = 0
    /\ calls = 0 /\ receiving = FALSE /\ buf = <<>>
    /\ outcome = [n \in Calls |-> Raised("none")]
    /\ on = [n \in Calls |-> 0]
    /\ up = [c \in Conns |-> <<>>] /\ down = [c \in Conns |-> <<>>]
    /\ server = "down"
    /\ worker = [c \in Conns |-> "none"]
    /\ request = [c \in Conns |-> NoRequest]
    /\ answer = [n \in Calls |-> "none"]
    /\ runs = [n \in Calls |-> 0]

----------------------------------------------------------------------------
(* Lines in a stream of fragments *)

\* The first newline of s is at the end of its j-th fragment.
LineEndsAt(s, j) ==
    /\ s[j].part = "tail"
    /\ \A i \in 1..(j - 1) : s[i].part = "head"

Unterminated(s) == \A i \in DOMAIN s : s[i].part = "head"

\* The text up to a newline is exactly one line as it was written.  The client
\* (json.loads) takes no other: one with its beginning lost, or glued behind
\* another line's beginning, does not parse.
WellFormed(line) ==
    Len(line) = 2 /\ line[1] = Piece(line[2].call, "head") /\ line[2].part = "tail"

\* What the server makes of a line.  Its parser does not look behind the object
\* (JsonUtil.parse): a head that is a whole object, cut off by its newline only,
\* is that request, whatever was glued behind it; any other head does not parse.
\* Which of the two a head is shows when it is read, and only then.
Parses(line) ==
    IF WellFormed(line) THEN {[call |-> line[1].call, ok |-> TRUE]}
    ELSE {[call |-> line[Len(line)].call, ok |-> FALSE], [call |-> line[1].call, ok |-> TRUE]}

From(s, k) == SubSeq(s, k + 1, Len(s))

----------------------------------------------------------------------------
(* The client *)

\* What is on its way to a socket is gone once the socket is.
DropSocket == down' = [c \in Conns |-> IF c = sock THEN <<>> ELSE down[c]]

\* connect(): a new socket replaces whatever _sock held.  The kernel completes
\* the handshake as long as the server socket is open.
Connect ==
    /\ ~receiving /\ ~connected
    /\ server # "down" /\ conns < MaxConns
    /\ conns' = conns + 1 /\ sock' = conns + 1 /\ connected' = TRUE
    /\ worker' = [worker EXCEPT ![conns + 1] = "queued"]
    /\ DropSocket
    /\ UNCHANGED <<calls, receiving, buf, outcome, on, up, server, request, answer, runs>>

\* connect() raising: _sock is left holding an unconnected socket.
ConnectRefused ==
    /\ ~receiving /\ ~connected /\ server = "down"
    /\ sock' = 0 /\ DropSocket
    /\ UNCHANGED <<connected, conns, calls, receiving, buf, outcome, on, up, server, workers>>

\* (Bug_: wrong variants of the definition that follows, which some property
\* must tell from it.)  close() that forgets _connected = False.
Bug_CloseKeepsConnected ==
    /\ ~receiving
    /\ sock # 0
    /\ sock' = 0 /\ DropSocket
    /\ UNCHANGED <<connected, conns, calls, receiving, buf, outcome, on, up, server, workers>>

\* close(), between two calls.
Close ==
    /\ ~receiving
    /\ sock # 0
    /\ sock' = 0 /\ connected' = FALSE /\ DropSocket
    /\ UNCHANGED <<conns, calls, receiving, buf, outcome, on, up, server, workers>>

\* _send_request raises at once: there is no connection.
CallNotConnected ==
    /\ ~receiving /\ calls < MaxCalls
    /\ ~connected
    /\ calls' = calls + 1
    /\ outcome' = [outcome EXCEPT ![calls + 1] = Raised("notConnected")]
    /\ UNCHANGED <<connected, sock, conns, receiving, buf, on, wire, server, workers>>

\* _send_request reaches the recv loop.  Bytes sent to an end that is closed
\* go nowhere.
Call ==
    /\ ~receiving /\ calls < MaxCalls
    /\ connected
    /\ calls' = calls + 1 /\ receiving' = TRUE /\ buf' = <<>>
    /\ outcome' = [outcome EXCEPT ![calls + 1] = Raised("pending")]
    /\ on' = [on EXCEPT ![calls + 1] = sock]
    /\ up' = IF worker[sock] = "closed" THEN up
             ELSE [up EXCEPT ![sock] = @ \o Line(calls + 1)]
    /\ UNCHANGED <<connected, sock, conns, down, server, workers>>

\* sendall times out: nothing, or an unfinished line, has left.
CallSendTimeout ==
    /\ ~receiving /\ calls < MaxCalls
    /\ connected /\ worker[sock] # "closed"
    /\ calls' = calls + 1
    /\ outcome' = [outcome EXCEPT ![calls + 1] = Raised("timeout")]
    /\ on' = [on EXCEPT ![calls + 1] = sock]
    /\ \E sent \in {<<>>, <<Piece(calls + 1, "head")>>} :
           up' = [up EXCEPT ![sock] = @ \o sent]
    /\ UNCHANGED <<connected, sock, conns, receiving, buf, down, server, workers>>

\* The call in progress leaves _send_request; its buf goes out of scope.
Return(o) ==
    /\ receiving' = FALSE /\ buf' = <<>>
    /\ outcome' = [outcome EXCEPT ![calls] = o]

\* buf = chunk where buf += chunk is meant.
Bug_RecvMoreOverwrites ==
    /\ receiving
    /\ \E k \in DOMAIN down[sock] :
        LET chunk == SubSeq(down[sock], 1, k) IN
        /\ Unterminated(chunk)
        /\ buf' = <<>>
        /\ down' = [down EXCEPT ![sock] = From(@, k)]
    /\ UNCHANGED <<connected, sock, conns, calls, receiving, outcome, on, up, server, workers>>

\* recv returns k fragments without a newline among them.
RecvMore ==
    /\ receiving
    /\ \E k \in DOMAIN down[sock] :
        LET chunk == SubSeq(down[sock], 1, k) IN
        /\ Unterminated(chunk)
        /\ buf' = buf \o chunk
        /\ down' = [down EXCEPT ![sock] = From(@, k)]
    /\ UNCHANGED <<connected, sock, conns, calls, receiving, outcome, on, up, server, workers>>

\* recv returns k fragments, the newline in the j-th: the line is parsed and
\* whatever came after it in the same chunk is lost with buf.
RecvLine ==
    /\ receiving
    /\ \E k \in DOMAIN down[sock] : \E j \in 1..k :
        LET line == buf \o SubSeq(down[sock], 1, j)
            m == down[sock][j].call
        IN
        /\ LineEndsAt(down[sock], j)
        /\ down' = [down EXCEPT ![sock] = From(@, k)]
        /\ Return(IF WellFormed(line) THEN [kind |-> answer[m], reply |-> m]
                  ELSE Raised("badJson"))
    /\ UNCHANGED <<connected, sock, conns, calls, on, up, server, workers>>

\* A timeout that sends the request again and keeps waiting.
Bug_RecvTimeoutRetries ==
    /\ receiving /\ worker[sock] # "closed" /\ Len(up[sock]) < 2
    /\ up' = [up EXCEPT ![sock] = @ \o Line(calls)]
    /\ UNCHANGED <<client, down, server, workers>>

\* A socket without a timeout.
Bug_RecvTimeoutNever == receiving /\ FALSE /\ UNCHANGED vars

\* recv times out, whether or not the reply is under way.  The socket stays in
\* use.
RecvTimeout ==
    /\ receiving
    /\ Return(Raised("timeout"))
    /\ UNCHANGED <<connected, sock, conns, calls, on, wire, server, workers>>

\* A recv that has nothing yet taken for the end of the stream.
Bug_RecvEofTooSoon ==
    /\ receiving /\ down[sock] = <<>>
    /\ Return(Raised("eof"))
    /\ UNCHANGED <<connected, sock, conns, calls, on, wire, server, workers>>

\* recv returns b"": GhidraConnectionError, which no except clause handles, so
\* _connected stays TRUE.
RecvEof ==
    /\ receiving /\ worker[sock] = "closed" /\ down[sock] = <<>>
    /\ Return(Raised("eof"))
    /\ UNCHANGED <<connected, sock, conns, calls, on, wire, server, workers>>

\* sendall or recv fails on a connection the server has closed.
SocketError ==
    /\ receiving /\ worker[sock] = "closed"
    /\ connected' = FALSE
    /\ Return(Raised("socketError"))
    /\ UNCHANGED <<sock, conns, calls, on, wire, server, workers>>

----------------------------------------------------------------------------
(* The server *)

\* start(): a new server socket and accept loop.
Start ==
    /\ server = "down"
    /\ server' = "serving"
    /\ UNCHANGED <<client, wire, workers>>

\* serveLoop: one accepted connection, one worker thread.
Accept(c) ==
    /\ server = "serving" /\ worker[c] = "queued"
    /\ worker' = [worker EXCEPT ![c] = "reading"]
    /\ UNCHANGED <<client, wire, server, request, answer, runs>>

\* accept() throws while running: the loop ends and the socket stays open.
AcceptError ==
    /\ server = "serving"
    /\ server' = "deaf"
    /\ UNCHANGED <<client, wire, workers>>

\* stop(): closes the server socket, which resets what is not accepted yet.
\* The client sockets are left alone, and interrupting a thread does not end
\* its blocking read.
Stop ==
    /\ server # "down"
    /\ server' = "down"
    /\ worker' = [c \in Conns |-> IF worker[c] = "queued" THEN "closed" ELSE worker[c]]
    /\ up' = [c \in Conns |-> IF worker[c] = "queued" THEN <<>> ELSE up[c]]
    /\ UNCHANGED <<client, down, request, answer, runs>>

\* The process ends: every connection is closed, and of the bytes on their way
\* to the client some suffix may be lost.
Exit ==
    /\ server # "down" \/ \E c \in Conns : worker[c] \in {"reading", "handling"}
    /\ server' = "down"
    /\ worker' = [c \in Conns |-> IF worker[c] = "none" THEN "none" ELSE "closed"]
    /\ request' = [c \in Conns |-> NoRequest]
    /\ up' = [c \in Conns |-> <<>>]
    /\ \E kept \in [Conns -> 0..(2 * MaxCalls)] :
        /\ \A c \in Conns : kept[c] <= Len(down[c])
        /\ down' = [c \in Conns |-> SubSeq(down[c], 1, kept[c])]
    /\ UNCHANGED <<client, answer, runs>>

\* A new BufferedReader for each request: what the old one had read ahead of
\* the line is lost.
Bug_WorkerReadDropsRest(c) ==
    /\ worker[c] = "reading"
    /\ \E j \in DOMAIN up[c] :
        /\ LineEndsAt(up[c], j) \/ (c # sock /\ Unterminated(up[c]) /\ j = Len(up[c]))
        /\ \E r \in Parses(SubSeq(up[c], 1, j)) : request' = [request EXCEPT ![c] = r]
        /\ up' = [up EXCEPT ![c] = <<>>]
    /\ worker' = [worker EXCEPT ![c] = "handling"]
    /\ UNCHANGED <<client, down, server, answer, runs>>

\* The lines read are queued and the newest is taken first.
Bug_WorkerReadNewest(c) ==
    /\ worker[c] = "reading" /\ Len(up[c]) >= 2 /\ up[c][Len(up[c])].part = "tail"
    /\ request' = [request EXCEPT ![c] = [call |-> up[c][Len(up[c])].call, ok |-> TRUE]]
    /\ up' = [up EXCEPT ![c] = SubSeq(@, 1, Len(@) - 2)]
    /\ worker' = [worker EXCEPT ![c] = "handling"]
    /\ UNCHANGED <<client, down, server, answer, runs>>

\* handleClient: readLine returns the next line, or what is left at end of
\* stream; it parses, or it does not.
WorkerRead(c) ==
    /\ worker[c] = "reading"
    /\ \E j \in DOMAIN up[c] :
        /\ LineEndsAt(up[c], j) \/ (c # sock /\ Unterminated(up[c]) /\ j = Len(up[c]))
        /\ \E r \in Parses(SubSeq(up[c], 1, j)) : request' = [request EXCEPT ![c] = r]
        /\ up' = [up EXCEPT ![c] = From(@, j)]
    /\ worker' = [worker EXCEPT ![c] = "handling"]
    /\ UNCHANGED <<client, down, server, answer, runs>>

\* A second reply sent from a finally clause.
Bug_WorkerAnswersTwice(c) ==
    LET m == request[c].call IN
    /\ worker[c] = "handling"
    /\ answer' = [answer EXCEPT ![m] = IF request[c].ok THEN "result" ELSE "error"]
    /\ runs' = IF request[c].ok THEN [runs EXCEPT ![m] = @ + 1] ELSE runs
    /\ down' = IF c = sock THEN [down EXCEPT ![c] = @ \o Line(m) \o Line(m)] ELSE down
    /\ request' = [request EXCEPT ![c] = NoRequest]
    /\ worker' = [worker EXCEPT ![c] = "reading"]
    /\ UNCHANGED <<client, up, server>>

\* One writer for the server, that of the newest connection.
Bug_WorkerSharesWriter(c) ==
    LET m == request[c].call IN
    /\ worker[c] = "handling"
    /\ answer' = [answer EXCEPT ![m] = IF request[c].ok THEN "result" ELSE "error"]
    /\ runs' = IF request[c].ok THEN [runs EXCEPT ![m] = @ + 1] ELSE runs
    /\ down' = IF sock # 0 THEN [down EXCEPT ![sock] = @ \o Line(m)] ELSE down
    /\ request' = [request EXCEPT ![c] = NoRequest]
    /\ worker' = [worker EXCEPT ![c] = "reading"]
    /\ UNCHANGED <<client, up, server>>

\* handler.handle and sendResponse; a line that does not parse is answered
\* without running the handler.  The write to a client that is gone fails and
\* the loop goes on.
WorkerAnswer(c) ==
    LET m == request[c].call IN
    /\ worker[c] = "handling"
    /\ \E a \in IF request[c].ok THEN {"result", "error"} ELSE {"error"} :
           answer' = [answer EXCEPT ![m] = a]
    /\ runs' = IF request[c].ok THEN [runs EXCEPT ![m] = @ + 1] ELSE runs
    /\ down' = IF c = sock THEN [down EXCEPT ![c] = @ \o Line(m)] ELSE down
    /\ request' = [request EXCEPT ![c] = NoRequest]
    /\ worker' = [worker EXCEPT ![c] = "reading"]
    /\ UNCHANGED <<client, up, server>>

\* The thread ends and closes its socket: readLine sees the end of a stream the
\* client closed, or its reset, which may overtake unread lines.
WorkerExit(c) ==
    /\ worker[c] = "reading" /\ c # sock
    /\ worker' = [worker EXCEPT ![c] = "closed"]
    /\ up' = [up EXCEPT ![c] = <<>>]
    /\ UNCHANGED <<client, down, server, request, answer, runs>>

\* The handler throws an Error, which no catch clause takes: the thread ends
\* without an answer and closes its socket.
WorkerDies(c) ==
    /\ worker[c] = "handling"
    /\ worker' = [worker EXCEPT ![c] = "closed"]
    /\ up' = [up EXCEPT ![c] = <<>>]
    /\ request' = [request EXCEPT ![c] = NoRequest]
    /\ runs' = IF request[c].ok THEN [runs EXCEPT ![request[c].call] = @ + 1] ELSE runs
    /\ UNCHANGED <<client, down, server, answer>>

----------------------------------------------------------------------------

ClientReturns ==
    RecvMore \/ RecvLine \/ RecvTimeout \/ RecvEof \/ SocketError

Worker(c) == WorkerRead(c) \/ WorkerAnswer(c) \/ WorkerExit(c) \/ WorkerDies(c)

Next ==
    \/ Connect \/ ConnectRefused \/ Close
    \/ CallNotConnected \/ Call \/ CallSendTimeout
    \/ ClientReturns
    \/ Start \/ AcceptError \/ Stop \/ Exit
    \/ \E c \in Conns : Accept(c) \/ Worker(c)

Spec == Init /\ [][Next]_vars

\* The client's thread and the server's threads keep running.  Nobody has to
\* make a call, to connect, or to start the server; and nothing has to fail,
\* except that a recv that keeps waiting times out.
Fairness ==
    /\ WF_vars(ClientReturns)
    /\ \A c \in Conns : WF_vars(Accept(c)) /\ WF_vars(Worker(c))

FairSpec == Spec /\ Fairness

----------------------------------------------------------------------------
(* Properties *)

\* Every variable has its type, and the flags of GhidraClient agree: a connected
\* client has a socket, and only a connected client is receiving.
TypeOK ==
    /\ connected \in BOOLEAN /\ receiving \in BOOLEAN
    /\ conns \in 0..MaxConns /\ sock \in 0..conns
    /\ calls \in 0..MaxCalls
    /\ buf \in Seq(Fragment)
    /\ outcome \in [Calls -> Outcome]
    /\ on \in [Calls -> 0..MaxConns]
    /\ up \in [Conns -> Seq(Fragment)] /\ down \in [Conns -> Seq(Fragment)]
    /\ server \in {"down", "serving", "deaf"}
    /\ worker \in [Conns -> {"none", "queued", "reading", "handling", "closed"}]
    /\ request \in [Conns -> [call : 0..MaxCalls, ok : BOOLEAN]]
    /\ \A c \in Conns : worker[c] = "handling" => request[c].call # 0
    /\ answer \in [Calls -> {"none", "result", "error"}]
    /\ runs \in [Calls -> Nat]
    /\ connected => sock # 0
    /\ receiving => connected /\ calls # 0

Answered(n) == outcome[n].reply # 0

\* A call is answered with its own reply or that of an earlier call on the same
\* connection, and each reply answers one call: replies are consumed in the
\* order of the requests, none twice, none carried over a reconnect
\* (_send_request reads the first line there is and compares no id).
RepliesInOrder ==
    \A n \in Calls : Answered(n) =>
        LET m == outcome[n].reply IN
        /\ m <= n /\ on[m] = on[n]
        /\ \A n2 \in Calls : n2 < n /\ on[n2] = on[n] => outcome[n2].reply < m

\* As long as no call on a connection has timed out, every call on it that is
\* answered gets its own reply; in particular the rest of a chunk that
\* _send_request drops behind the newline holds nothing.
OwnReplyUnlessTimeout ==
    \A n \in Calls : Answered(n) =>
        \/ outcome[n].reply = n
        \/ \E t \in Calls : t < n /\ on[t] = on[n] /\ outcome[t].kind = "timeout"

\* A line that does not parse is seen by the client only behind a timeout on
\* the same connection: the two sides agree on the framing until then.
FramingLostOnlyByTimeout ==
    \A n \in Calls : outcome[n].kind = "badJson" =>
        \E t \in Calls : t < n /\ on[t] = on[n] /\ outcome[t].kind = "timeout"

\* The handler runs at most once for a call, and it has run for every call that
\* a result answers, so a request that changes the program (rename, comment,
\* signature) is not applied twice whatever the client saw of it.
HandlerRunsOnce ==
    \A n \in Calls :
        /\ runs[n] <= 1
        /\ outcome[n].kind = "result" => runs[outcome[n].reply] = 1

\* On one connection the handler runs the calls in the order they were made: it
\* never starts one when a later one has run, also when replies were given up.
HandlerRunsInOrder ==
    [][\A m, n \in Calls :
          m < n /\ on[m] = on[n] /\ runs[n] > 0 => runs'[m] = runs[m]]_vars

\* A call returns or raises: each recv is bounded by the socket's timeout.
CallsReturn == receiving ~> ~receiving

\* A call that hears that the server closed its connection (recv returning b"")
\* leaves _connected TRUE, so further calls are sent on that connection: none of
\* them is answered, and the handler runs for none.
ClosedStaysClosed ==
    \A m, n \in Calls :
        m < n /\ on[m] = on[n] /\ outcome[m].kind = "eof" => ~Answered(n) /\ runs[n] = 0

\* A line on its way to the server on c that begins as call m's request and ends
\* as call n's: m's has lost its newline when m and n are not one call.
Waiting(m, n, c) ==
    \E i, j \in DOMAIN up[c] :
        /\ i < j /\ up[c][i] = Piece(m, "head") /\ up[c][j] = Piece(n, "tail")
        /\ \A k \in i..(j - 1) : up[c][k].part = "head"
        /\ i > 1 => up[c][i - 1].part = "tail"

\* A line that waits for a worker is answered unless the connection is closed,
\* also when several are waiting behind timeouts: a request in a line of its own
\* gets its answer, and of requests glued into one line the first or the last.
RequestsAnswered ==
    \A m, n \in Calls, c \in Conns :
        worker[c] = "reading" /\ Waiting(m, n, c)
            ~> \/ answer[n] # "none" \/ worker[c] = "closed"
               \/ m # n /\ answer[m] # "none"

\* The link implements what RpcSpec promises to a caller.
Promise == INSTANCE RpcSpec

ImplementsRpcSpec == Promise!Spec

----------------------------------------------------------------------------
(* What the documentation says, and the code does not do *)

\* "Send a JSON-RPC request and receive the response" (_send_request): an
\* answered call is answered with its own reply.
OwnReply == \A n \in Calls : Answered(n) => outcome[n].reply = n
============================================================================
