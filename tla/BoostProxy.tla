------------------------------ MODULE BoostProxy ------------------------------
(***************************************************************************)
(* The proxy of proxy.cpp: one thread that runs the ready handlers of an   *)
(* io_context.  A chain of handlers connects to the server, accepts one    *)
(* client for that connection, and begins again; a Connection object joins *)
(* the client's socket to the one that was connected before the client     *)
(* came.  Around it are the clients, the server and the clock.             *)
(*                                                                         *)
(* Some definitions are preceded by a faulty variant, without a comment    *)
(* (ForwardsAll, ...).  No behaviour uses these; they document which slip  *)
(* in the code each property would notice.                                 *)
(***************************************************************************)
EXTENDS Asio

CONSTANTS
    Text,             \* words that are neither types nor signs
    Streams,          \* what a client may say: pieces, each sent when all
                      \* replies to the pieces before it were received
    Horoscope,        \* the line that the server answers for each sign
    ReadRequestTimeout, WriteRequestTimeout, ReadResponseTimeout, WriteResponseTimeout,
    TimePasses,       \* FALSE: everything happens within one unit of time
    Faults,           \* what may fail: operations of the chain, "server"
    NONE              \* no connection

Word ==
    Zodiac \cup Text \cup {DELIMITER, STAR_REQUEST_TYPE, CLIENT_REQUEST_TYPE}
    \cup {STAR_RESPONSE_FAILURE[1]}

ASSUME BoostProxyAssumption ==
    /\ Streams \subseteq Seq(Seq(Word)) \ {<<>>}
    /\ Horoscope \in [Zodiac -> Seq(Word)]
    /\ \A z \in Zodiac : IsLine(Horoscope[z], Len(Horoscope[z]))
    /\ {ReadRequestTimeout, WriteRequestTimeout, ReadResponseTimeout, WriteResponseTimeout}
          \subseteq Nat \ {0}
    /\ TimePasses \in BOOLEAN
    /\ NONE \notin Conn

VARIABLES
    running,  \* io_context::run has not returned
    chain,    \* the outstanding operation of class Proxy
    spare,    \* the server connection that waits for a client
    sock,     \* the two sockets of each Connection object
    says,     \* what each client has said, and has still to say
    backlog   \* clients waiting to be accepted

vars == <<running, queue, chain, spare, conn, sock, says, backlog>>

-----------------------------------------------------------------------------
CHAIN == <<"chain", NONE>>   \* the chain's handler in the queue

Chain == [op : {"handleResolve", "handleConnect", "handleAccept", "none"}, ec : ErrorCode]

Handler ==
    {"handleReadRequest", "handleWriteRequest", "handleReadResponse", "handleWriteResponse"}

\* The socket that an operation is about.
Side(handler) ==
    IF handler \in {"handleReadRequest", "handleWriteResponse"} THEN "client" ELSE "server"

\* buf holds mClientBuffer and mConnectionBuffer; stop closes both sockets.
Connection ==
    [open : BOOLEAN, op : Handler \cup {"none"}, ec : ErrorCode, left : Nat,
     wait : ErrorCode, buf : [client : Seq(Word), server : Seq(Word)]]

NoConnection ==
    [open |-> FALSE, op |-> "none", ec |-> "none", left |-> 0, wait |-> "none",
     buf |-> [client |-> <<>>, server |-> <<>>]]

\* A socket: words on their way to the proxy, words sent that the other end has
\* not dealt with, whether it is still there, and for a server how long it will
\* wait for the next request.
Socket ==
    [in : Seq(Word), out : Seq(Word), peer : {"none", "open", "fin", "rst"}, left : Nat]

NoSocket == [in |-> <<>>, out |-> <<>>, peer |-> "none", left |-> 0]
NoSockets == [client |-> NoSocket, server |-> NoSocket]

Nothing == [said |-> <<>>, todo |-> <<>>]

Init ==
    /\ running = TRUE
    /\ queue = <<>>
    /\ chain = [op |-> "handleResolve", ec |-> "pending"]
    /\ spare = NoSocket
    /\ conn = [c \in Conn |-> NoConnection]
    /\ sock = [c \in Conn |-> NoSockets]
    /\ says = [c \in Conn |-> Nothing]
    /\ backlog = <<>>

-----------------------------------------------------------------------------
stop(s) == cancel(close(s))

startReadRequest(s) == async(expires_after(s, ReadRequestTimeout), "handleReadRequest")

startWaitDeadline(s) == async_wait(s)

StartsNoWait(s) == startReadRequest([s EXCEPT !.open = TRUE])

start(s) == startWaitDeadline(startReadRequest([s EXCEPT !.open = TRUE]))

\* A handler of c returns and leaves t.
Handled(c, t) ==
    /\ Becomes(c, t, Tail(queue), NoConnection)
    /\ sock' = [sock EXCEPT ![c] = IF t.open THEN @ ELSE NoSockets]
    /\ says' = [says EXCEPT ![c] = IF t.open THEN @ ELSE Nothing]
    /\ UNCHANGED <<running, chain, spare, backlog>>

\* How every handler of an operation begins: nothing is left to do when the
\* connection was stopped, and it is stopped when the operation failed.
Unless(s, t) ==
    IF ~s.open THEN IoCalled(s)
    ELSE IF s.ec # "success" THEN stop(IoCalled(s)) ELSE t

-----------------------------------------------------------------------------
RejectsWithThanks(s) ==
    async(expires_after([s EXCEPT !.buf.client = STAR_RESPONSE_SUCCESS], WriteResponseTimeout),
          "handleWriteResponse")

\* A star is denied, and what the buffer holds behind its request is dropped.
Reject(s) ==
    async(expires_after([s EXCEPT !.buf.client = STAR_RESPONSE_FAILURE], WriteResponseTimeout),
          "handleWriteResponse")

\* A line of one buffer is moved behind what is in the other.
Move(s, from, to) ==
    [s EXCEPT !.buf[from] = Remainder(@), !.buf[to] = @ \o getline(s.buf[from])]

MoveAll(s) == [s EXCEPT !.buf.client = <<>>, !.buf.server = @ \o s.buf.client]

ForwardsAll(s) == async(expires_after(MoveAll(s), WriteRequestTimeout), "handleWriteRequest")

ForwardsCopy(s) ==
    async(expires_after([s EXCEPT !.buf.server = @ \o getline(s.buf.client)], WriteRequestTimeout),
          "handleWriteRequest")

Forward(s) ==
    async(expires_after(Move(s, "client", "server"), WriteRequestTimeout), "handleWriteRequest")

handleReadRequest(s) ==
    Unless(s, IF StartsWith(getline(s.buf.client), STAR_REQUEST_TYPE)
              THEN Reject(IoCalled(s)) ELSE Forward(IoCalled(s)))

handleWriteRequest(s) ==
    Unless(s, async(expires_after(IoCalled(s), ReadResponseTimeout), "handleReadResponse"))

handleReadResponse(s) ==
    Unless(s, async(expires_after(Move(IoCalled(s), "server", "client"), WriteResponseTimeout),
                    "handleWriteResponse"))

handleWriteResponse(s) == Unless(s, startReadRequest(IoCalled(s)))

WaitsAgain(s) == IF s.open THEN startWaitDeadline(WaitCalled(s)) ELSE WaitCalled(s)

\* A wait is aborted when the timer is given a new expiry.
handleDeadline(s) ==
    CASE ~s.open -> WaitCalled(s)
      [] s.open /\ s.wait = "aborted" -> startWaitDeadline(WaitCalled(s))
      [] OTHER -> stop(WaitCalled(s))

RunHandler(c) ==
    LET s == conn[c]
        Called(handler) == Ready(<<"io", c>>) /\ s.op = handler IN
    \/ Called("handleReadRequest") /\ Handled(c, handleReadRequest(s))
    \/ Called("handleWriteRequest") /\ Handled(c, handleWriteRequest(s))
    \/ Called("handleReadResponse") /\ Handled(c, handleReadResponse(s))
    \/ Called("handleWriteResponse") /\ Handled(c, handleWriteResponse(s))
    \/ Ready(<<"deadline", c>>) /\ Handled(c, handleDeadline(s))

-----------------------------------------------------------------------------
\* The chain.  Once it has no operation outstanding nobody is accepted any more.
Outstanding(op) == [op |-> op, ec |-> "pending"]
NoOperation == [op |-> "none", ec |-> "none"]

IfSuccessful(op) == chain' = IF chain.ec = "success" THEN Outstanding(op) ELSE NoOperation

handleResolve ==
    /\ Ready(CHAIN) /\ chain.op = "handleResolve"
    /\ IfSuccessful("handleConnect") /\ queue' = Tail(queue)
    /\ UNCHANGED <<running, spare, conn, sock, says, backlog>>

handleConnect ==
    /\ Ready(CHAIN) /\ chain.op = "handleConnect"
    /\ IfSuccessful("handleAccept") /\ queue' = Tail(queue)
    /\ UNCHANGED <<running, spare, conn, sock, says, backlog>>

\* A failed accept drops the object, and with it the connection to the server.
Accepted ==
    LET c == Head(backlog) IN
    /\ Ready(CHAIN) /\ chain.op = "handleAccept"
    /\ IF chain.ec = "success"
       THEN /\ Becomes(c, start(conn[c]), Tail(queue), NoConnection)
            /\ sock' = [sock EXCEPT ![c].server = spare]
            /\ backlog' = Tail(backlog)
       ELSE queue' = Tail(queue) /\ UNCHANGED <<conn, sock, backlog>>
    /\ spare' = NoSocket
    /\ UNCHANGED <<running, says>>

EndsWithFailure == Accepted /\ IfSuccessful("handleConnect")

handleAccept == Accepted /\ chain' = Outstanding("handleConnect")

\* run returns when nothing is outstanding, and the acceptor is closed.
Exit ==
    /\ running /\ queue = <<>> /\ chain = NoOperation
    /\ \A c \in Conn : conn[c] = NoConnection
    /\ running' = FALSE /\ backlog' = <<>>
    /\ sock' = [c \in Conn |-> NoSockets] /\ says' = [c \in Conn |-> Nothing]
    /\ UNCHANGED <<queue, chain, spare, conn>>

run == handleResolve \/ handleConnect \/ handleAccept \/ Exit \/ \E c \in Conn : RunHandler(c)

-----------------------------------------------------------------------------
\* The operations, as the other ends and the clock let them go on.
IoStep(c, t, side, socket) ==
    /\ Becomes(c, t, queue, NoConnection)
    /\ sock' = [sock EXCEPT ![c][side] = socket]
    /\ UNCHANGED <<running, chain, spare, says, backlog>>

async_read_until(c) ==
    LET s == conn[c]
        side == Side(s.op)
        k == sock[c][side] IN
    /\ s.op \in {"handleReadRequest", "handleReadResponse"} /\ s.ec = "pending"
    /\ \/ \E n \in ReadSize(s.buf[side], k.in) :
             LET t == [s EXCEPT !.buf[side] = @ \o First(k.in, n)] IN
             IoStep(c, [t EXCEPT !.ec = IF HasLine(t.buf[side]) THEN "success" ELSE @],
                    side, [k EXCEPT !.in = After(@, n)])
       \/ /\ ~HasLine(s.buf[side]) /\ k.in = <<>> /\ k.peer # "open"
          /\ IoStep(c, [s EXCEPT !.ec = IF k.peer = "fin" THEN "eof" ELSE "failed"], side, k)

\* What is written to an end that has closed the connection is lost, and may be
\* answered with a reset.
async_write(c) ==
    LET s == conn[c]
        side == Side(s.op)
        k == sock[c][side] IN
    /\ s.op \in {"handleWriteRequest", "handleWriteResponse"} /\ s.ec = "pending"
    /\ \/ \E n \in 1 .. Len(s.buf[side]) :
             LET t == [s EXCEPT !.buf[side] = After(@, n),
                                !.ec = IF n = Len(s.buf[side]) THEN "success" ELSE @] IN
             \/ /\ k.peer = "open"
                /\ IoStep(c, t, side, [k EXCEPT !.out = @ \o First(s.buf[side], n)])
             \/ /\ k.peer = "fin"
                /\ \E p \in {"fin", "rst"} : IoStep(c, t, side, [k EXCEPT !.peer = p])
       \/ k.peer = "rst" /\ IoStep(c, [s EXCEPT !.ec = "failed"], side, k)

NewSocket == [NoSocket EXCEPT !.peer = "open", !.left = ReadRequestTimeout]

\* async_resolve, async_connect and async_accept.
ChainOperation(ec) ==
    /\ chain.ec = "pending"
    /\ chain.op = "handleAccept" => backlog # <<>>
    /\ ec = "success" \/ (ec = "failed" /\ chain.op \in Faults)
    /\ chain' = [chain EXCEPT !.ec = ec]
    /\ queue' = Append(queue, CHAIN)
    /\ spare' = IF ec = "success" /\ chain.op = "handleConnect" THEN NewSocket ELSE spare
    /\ UNCHANGED <<running, conn, sock, says, backlog>>

TimerExpires(c) ==
    /\ conn[c].wait = "pending" /\ conn[c].left = 0
    /\ Becomes(c, [conn[c] EXCEPT !.wait = "success"], queue, NoConnection)
    /\ UNCHANGED <<running, chain, spare, sock, says, backlog>>

Tick ==
    /\ TimePasses
    /\ spare.left > 0 \/ \E c \in Conn : conn[c].left > 0 \/ sock[c].server.left > 0
    /\ conn' = [c \in Conn |-> Sooner(conn[c])]
    /\ sock' = [c \in Conn |-> [sock[c] EXCEPT !.server = Sooner(@)]]
    /\ spare' = Sooner(spare)
    /\ UNCHANGED <<running, queue, chain, says, backlog>>

-----------------------------------------------------------------------------
\* The server answers requests one by one.  It drops a connection for a line
\* that it does not understand, when no request comes in time, or when it ends.
Answer(c) ==
    LET k == sock[c].server IN
    /\ \E n \in 1 .. Len(k.out) :
          /\ k.peer = "open" /\ IsLine(k.out, n)
          /\ StartsWith(k.out, CLIENT_REQUEST_TYPE) /\ FindZodiac(Tail(k.out))
          /\ sock' = [sock EXCEPT ![c].server =
                         [k EXCEPT !.out = After(@, n), !.in = @ \o Horoscope[k.out[2]],
                                   !.left = ReadRequestTimeout]]
    /\ UNCHANGED <<running, queue, chain, spare, conn, says, backlog>>

MayDrop(k) ==
    /\ k.peer = "open"
    /\ \/ "server" \in Faults
       \/ k.left = 0 /\ k.out = <<>>
       \/ HasLine(k.out) /\ ~(StartsWith(k.out, CLIENT_REQUEST_TYPE) /\ FindZodiac(Tail(k.out)))

Lost(k, p) == [k EXCEPT !.out = <<>>, !.peer = p, !.left = 0]

ServerDrops ==
    /\ \E p \in {"fin", "rst"} :
          \/ MayDrop(spare) /\ spare' = Lost(spare, p) /\ UNCHANGED sock
          \/ \E c \in Conn : /\ MayDrop(sock[c].server)
                             /\ sock' = [sock EXCEPT ![c].server = Lost(@, p)]
                             /\ UNCHANGED spare
    /\ UNCHANGED <<running, queue, chain, conn, says, backlog>>

Connect(c, s) ==
    /\ running /\ sock[c].client.peer = "none" /\ conn[c] = NoConnection
    /\ sock' = [sock EXCEPT ![c].client = [NoSocket EXCEPT !.in = Head(s), !.peer = "open"]]
    /\ says' = [says EXCEPT ![c] = [said |-> <<Head(s)>>, todo |-> Tail(s)]]
    /\ backlog' = Append(backlog, c)
    /\ UNCHANGED <<running, queue, chain, spare, conn>>

\* The client has read a line for each piece it sent, and sends the next one.
SendNext(c) ==
    /\ sock[c].client.peer = "open" /\ says[c].todo # <<>>
    /\ Delimiters(sock[c].client.out) = Len(says[c].said)
    /\ sock' = [sock EXCEPT ![c].client.in = @ \o Head(says[c].todo)]
    /\ says' = [says EXCEPT ![c] = [said |-> Append(@.said, Head(@.todo)), todo |-> Tail(@.todo)]]
    /\ UNCHANGED <<running, queue, chain, spare, conn, backlog>>

\* The client leaves; what is on its way still arrives, or none of it.
ClientClose(c, arrives) ==
    /\ sock[c].client.peer = "open"
    /\ sock' = [sock EXCEPT ![c].client.in = IF arrives THEN @ ELSE <<>>, ![c].client.peer = "fin"]
    /\ UNCHANGED <<running, queue, chain, spare, conn, says, backlog>>

Client(c) ==
    \/ \E s \in Streams : Connect(c, s)
    \/ SendNext(c)
    \/ \E arrives \in BOOLEAN : ClientClose(c, arrives)

Ended == ~running /\ UNCHANGED vars

Next ==
    \/ run \/ Tick \/ ServerDrops \/ Ended
    \/ \E ec \in {"success", "failed"} : ChainOperation(ec)
    \/ \E c \in Conn : \/ async_read_until(c) \/ async_write(c) \/ TimerExpires(c)
                       \/ Answer(c) \/ Client(c)

Spec == Init /\ [][Next]_vars

\* The thread runs, the kernel completes what it can, the clock goes on, and an
\* accept that fails now and then succeeds in the end.  Clients owe nothing, and
\* a write to one that does not read need not go on.
FairSpec ==
    /\ Spec
    /\ WF_vars(run) /\ WF_vars(Tick)
    /\ WF_vars(\E ec \in {"success", "failed"} : ChainOperation(ec))
    /\ SF_vars(ChainOperation("success") /\ chain.op = "handleAccept")
    /\ \A c \in Conn : /\ WF_vars(async_read_until(c))
                       /\ WF_vars(async_write(c) /\ Side(conn[c].op) = "server")
                       /\ WF_vars(TimerExpires(c))

-----------------------------------------------------------------------------
TypeOK ==
    /\ running \in BOOLEAN
    /\ queue \in Seq({CHAIN} \cup ({"io", "deadline"} \X Conn))
    /\ chain \in Chain
    /\ spare \in Socket
    /\ conn \in [Conn -> Connection]
    /\ sock \in [Conn -> [client : Socket, server : Socket]]
    /\ says \in [Conn -> [said : Seq(Seq(Word)), todo : Seq(Seq(Word))]]
    /\ backlog \in Seq(Conn)

\* No open connection is forgotten by the handlers that keep it alive, and each
\* has both its sockets.
HandlersOutstanding ==
    /\ Times(CHAIN) = Queued(chain.ec)
    /\ \A c \in Conn : conn[c].open <=> sock[c].server.peer # "none"
    /\ ObjectsKept

\* The access control that the proxy exists for: wherever the server cuts what
\* it is sent into lines, no line begins as a star's request does.
AccessControl ==
    \A c \in Conn :
        LET out == sock[c].server.out IN
        \A i \in 1 .. Len(out) :
            i = 1 \/ out[i - 1] = DELIMITER => out[i] # STAR_REQUEST_TYPE

\* A client that sends a line at a time and waits for the reply is sent the reply
\* to each of its own requests, in their order and byte for byte.
ReplyTo(line) ==
    CASE StartsWith(line, STAR_REQUEST_TYPE) -> STAR_RESPONSE_FAILURE
      [] StartsWith(line, CLIENT_REQUEST_TYPE) /\ FindZodiac(Tail(line)) -> Horoscope[line[2]]
      [] OTHER -> <<>>

Replies(said) == Together([i \in 1 .. Len(said) |-> ReplyTo(said[i])])

Begins(s, t) == \E n \in 0 .. Len(t) : s = First(t, n)

OwnReply ==
    \A c \in Conn :
        LET said == says[c].said IN
        (\A i \in 1 .. Len(said) : IsLine(said[i], Len(said[i]))) =>
        Begins(sock[c].client.out, Replies(said))

-----------------------------------------------------------------------------
\* Every operation ends: a client or a server that goes silent costs a connection
\* no longer than its deadline.
OperationsEnd == \A c \in Conn : conn[c].ec = "pending" ~> conn[c].ec # "pending"

\* As long as the server can be connected to, every client is accepted, also
\* when accept fails now and then, which throws a connection to the server away.
Waiting(c) == \E i \in 1 .. Len(backlog) : backlog[i] = c

ServerLost == chain.op \in {"handleResolve", "handleConnect"} /\ chain.ec = "failed"

KeepsAccepting == []~ServerLost => \A c \in Conn : Waiting(c) ~> conn[c].open

=============================================================================
