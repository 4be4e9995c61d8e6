------------------------------ MODULE BoostServer ------------------------------
(***************************************************************************)
(* The server of server.cpp: one thread that runs the ready handlers of an *)
(* io_context one after the other, one Connection object per client, one   *)
(* deadline timer in each.  Around it, as far as it can observe them, are  *)
(* the sockets, the clients and the passing of time.                       *)
(*                                                                         *)
(* Some definitions are preceded by a faulty variant, without a comment    *)
(* (WaitsOnlyOnce, ...). No behaviour uses these; they document which slip *)
(* in the code each property would notice.                                 *)
(***************************************************************************)
EXTENDS Asio

CONSTANTS
    Text,             \* words that are neither types nor signs
    Streams,          \* what a client may say: pieces, each sent when all
                      \* replies to the pieces before it were received
    SNDBUF,           \* words a client may leave unread before a write waits
    ReadRequestTimeout, ReadPrognosisTimeout, WriteResponseTimeout,
    TimePasses,       \* FALSE: everything happens within one unit of time
    Faults,           \* what may fail: "accept"
    NONE              \* no sign

Word ==
    Zodiac \cup Text \cup {DELIMITER, STAR_REQUEST_TYPE, CLIENT_REQUEST_TYPE}
    \cup {STAR_RESPONSE_SUCCESS[1], UNKNOWN_PROGNOSIS[1]}

ASSUME BoostServerAssumption ==
    /\ Streams \subseteq Seq(Seq(Word)) \ {<<>>}
    /\ SNDBUF \in Nat \ {0}
    /\ ReadRequestTimeout \in Nat \ {0}
    /\ ReadPrognosisTimeout \in Nat \ {0}
    /\ WriteResponseTimeout \in Nat \ {0}
    /\ TimePasses \in BOOLEAN
    /\ DELIMITER \notin Zodiac
    /\ NONE \notin Zodiac \cup Seq(Word)

VARIABLES
    accepting,           \* how async_accept stands
    mPrognosisPerZodiac, \* the last prognosis of each sign, or NONE
    net,                 \* each connection's socket, and its client
    backlog              \* connections waiting to be accepted

vars == <<queue, accepting, conn, mPrognosisPerZodiac, net, backlog>>

-----------------------------------------------------------------------------
ACCEPT == <<"accept", NONE>>   \* the handler of async_accept in the queue

Handler == {"handleReadRequest", "handleReadPrognosis", "handleWriteResponse"}

\* mSocket, mBuffer and mDeadline; zodiac is bound to handleReadPrognosis.
Connection ==
    [open : BOOLEAN, op : Handler \cup {"none"}, ec : ErrorCode,
     left : Nat, wait : ErrorCode, buf : Seq(Word), zodiac : Zodiac \cup {NONE}]

NoConnection ==
    [open |-> FALSE, op |-> "none", ec |-> "none", left |-> 0, wait |-> "none",
     buf |-> <<>>, zodiac |-> NONE]

\* A socket: words on their way to the server, words sent to the client and how
\* many of them it has not read, what became of the client ("rst": it left
\* and answers with a reset), the pieces it has still to send, how many it sent.
Socket ==
    [inq : Seq(Word), sent : Seq(Word), unread : 0 .. SNDBUF,
     peer : {"none", "open", "fin", "rst"}, todo : Seq(Seq(Word)), asked : Nat]

NoSocket ==
    [inq |-> <<>>, sent |-> <<>>, unread |-> 0, peer |-> "none", todo |-> <<>>, asked |-> 0]

Init ==
    /\ queue = <<>>
    /\ accepting = "pending"
    /\ conn = [c \in Conn |-> NoConnection]
    /\ mPrognosisPerZodiac = [z \in Zodiac |-> NONE]
    /\ net = [c \in Conn |-> NoSocket]
    /\ backlog = <<>>

-----------------------------------------------------------------------------
stop(s) == cancel(close(s))

startReadRequest(s) == async(expires_after(s, ReadRequestTimeout), "handleReadRequest")

startWaitDeadline(s) == async_wait(s)

start(s) == startWaitDeadline(startReadRequest([s EXCEPT !.open = TRUE]))

\* A handler of c returns and leaves t.  Closing the socket ends the connection.
Handled(c, t) ==
    /\ Becomes(c, t, Tail(queue), NoConnection)
    /\ net' = [net EXCEPT ![c] = IF t.open THEN @ ELSE NoSocket]
    /\ UNCHANGED <<accepting, backlog>>

Handling(c, handler) == Ready(<<"io", c>>) /\ conn[c].op = handler

\* How every handler of an operation begins: nothing is left to do when the
\* connection was stopped, and it is stopped when the operation failed.
Unless(s, t) ==
    IF ~s.open THEN IoCalled(s)
    ELSE IF s.ec # "success" THEN stop(IoCalled(s)) ELSE t

-----------------------------------------------------------------------------
ForgetsDelimiter(z) ==
    IF mPrognosisPerZodiac[z] = NONE THEN UNKNOWN_PROGNOSIS ELSE mPrognosisPerZodiac[z]

getPrognosis(z) ==
    IF mPrognosisPerZodiac[z] = NONE
    THEN UNKNOWN_PROGNOSIS
    ELSE Append(mPrognosisPerZodiac[z], DELIMITER)

\* The reply goes behind what the buffer may still hold.
Respond(s, response) ==
    async(expires_after([s EXCEPT !.buf = @ \o response], WriteResponseTimeout),
          "handleWriteResponse")

AwaitPrognosis(s, z) ==
    async(expires_after([s EXCEPT !.zodiac = z], ReadPrognosisTimeout),
          "handleReadPrognosis")

AnySign(type, line) == StartsWith(line, type)

\* A line of this type; parseZodiac stops the connection for an unknown sign.
IsRequest(type, line) == StartsWith(line, type) /\ FindZodiac(Tail(line))

\* handleReadRequest once a line has come.
Request(s) ==
    LET request == getline(s.buf)
        t == [s EXCEPT !.buf = Remainder(s.buf)] IN
    CASE IsRequest(STAR_REQUEST_TYPE, request) -> AwaitPrognosis(t, request[2])
      [] IsRequest(CLIENT_REQUEST_TYPE, request) -> Respond(t, getPrognosis(request[2]))
      [] OTHER -> stop(t)

handleReadRequest(c) ==
    /\ Handling(c, "handleReadRequest")
    /\ Handled(c, Unless(conn[c], Request(IoCalled(conn[c]))))
    /\ UNCHANGED mPrognosisPerZodiac

handleReadPrognosis(c) ==
    LET s == conn[c]
        t == [IoCalled(s) EXCEPT !.buf = Remainder(s.buf), !.zodiac = NONE] IN
    /\ Handling(c, "handleReadPrognosis")
    /\ Handled(c, Unless(s, Respond(t, STAR_RESPONSE_SUCCESS)))
    /\ mPrognosisPerZodiac' =
          IF s.open /\ s.ec = "success"
          THEN [mPrognosisPerZodiac EXCEPT ![s.zodiac] = First(s.buf, LineLength(s.buf) - 1)]
          ELSE mPrognosisPerZodiac

handleWriteResponse(c) ==
    /\ Handling(c, "handleWriteResponse")
    /\ Handled(c, Unless(conn[c], startReadRequest(IoCalled(conn[c]))))
    /\ UNCHANGED mPrognosisPerZodiac

StopsWhenRenewed(c) ==
    LET s == conn[c]
        t == WaitCalled(s) IN
    /\ Ready(<<"deadline", c>>)
    /\ Handled(c, IF s.open THEN stop(t) ELSE t)
    /\ UNCHANGED mPrognosisPerZodiac

WaitsOnlyOnce(c) ==
    LET s == conn[c]
        t == WaitCalled(s) IN
    /\ Ready(<<"deadline", c>>)
    /\ Handled(c, IF ~s.open \/ s.wait = "aborted" THEN t ELSE stop(t))
    /\ UNCHANGED mPrognosisPerZodiac

\* The wait was aborted because the timer was given a new expiry.
handleDeadline(c) ==
    LET s == conn[c]
        t == WaitCalled(s) IN
    /\ Ready(<<"deadline", c>>)
    /\ Handled(c, CASE ~s.open -> t
                    [] s.open /\ s.wait = "aborted" -> startWaitDeadline(t)
                    [] OTHER -> stop(t))
    /\ UNCHANGED mPrognosisPerZodiac

\* A failure of accept leaves the client in the backlog and is tried again.
handleAccept ==
    /\ Ready(ACCEPT)
    /\ IF accepting = "success"
       THEN /\ Becomes(Head(backlog), start(conn[Head(backlog)]), Tail(queue), NoConnection)
            /\ backlog' = Tail(backlog)
       ELSE queue' = Tail(queue) /\ UNCHANGED <<conn, backlog>>
    /\ accepting' = "pending"
    /\ UNCHANGED <<mPrognosisPerZodiac, net>>

RunOne ==
    \/ handleAccept
    \/ \E c \in Conn : \/ handleReadRequest(c)
                       \/ handleReadPrognosis(c)
                       \/ handleWriteResponse(c)
                       \/ handleDeadline(c)

-----------------------------------------------------------------------------
\* The operations, as the sockets and the clock let them go on.
Completes(c, ec) ==
    Becomes(c, [conn[c] EXCEPT !.ec = ec], queue, NoConnection) /\ UNCHANGED net

Pending(c, handlers) == conn[c].op \in handlers /\ conn[c].ec = "pending"

async_read_until(c) ==
    /\ Pending(c, {"handleReadRequest", "handleReadPrognosis"})
    /\ \/ \E n \in ReadSize(conn[c].buf, net[c].inq) :
             LET buf == conn[c].buf \o First(net[c].inq, n) IN
             /\ net' = [net EXCEPT ![c].inq = After(@, n)]
             /\ Becomes(c, [conn[c] EXCEPT !.buf = buf,
                                           !.ec = IF HasLine(buf) THEN "success" ELSE @],
                        queue, NoConnection)
       \/ /\ ~HasLine(conn[c].buf) /\ net[c].inq = <<>>
          /\ \/ net[c].peer = "fin" /\ Completes(c, "eof")
             \/ net[c].peer = "rst" /\ Completes(c, "failed")
    /\ UNCHANGED <<accepting, mPrognosisPerZodiac, backlog>>

\* Whatever was written leaves the buffer.
async_write(c) ==
    LET buf == conn[c].buf
        n == IF net[c].peer = "fin" THEN Len(buf) ELSE MIN(Len(buf), SNDBUF - net[c].unread) IN
    /\ Pending(c, {"handleWriteResponse"})
    /\ \/ /\ net[c].peer \in {"open", "fin"} /\ n > 0
          /\ Becomes(c, [conn[c] EXCEPT !.buf = After(buf, n),
                                        !.ec = IF n = Len(buf) THEN "success" ELSE @],
                     queue, NoConnection)
          /\ \/ /\ net[c].peer = "open"
                /\ net' = [net EXCEPT ![c].sent = @ \o First(buf, n), ![c].unread = @ + n]
             \/ /\ net[c].peer = "fin"
                /\ \E p \in {"fin", "rst"} :
                      net' = [net EXCEPT ![c].sent = @ \o buf, ![c].peer = p]
       \/ net[c].peer = "rst" /\ Completes(c, "failed")
    /\ UNCHANGED <<accepting, mPrognosisPerZodiac, backlog>>

async_accept ==
    /\ accepting = "pending" /\ backlog # <<>>
    /\ accepting' \in {"success"} \cup {f \in {"failed"} : "accept" \in Faults}
    /\ queue' = Append(queue, ACCEPT)
    /\ UNCHANGED <<conn, mPrognosisPerZodiac, net, backlog>>

TimerExpires(c) ==
    /\ conn[c].wait = "pending" /\ conn[c].left = 0
    /\ Becomes(c, [conn[c] EXCEPT !.wait = "success"], queue, NoConnection)
    /\ UNCHANGED <<accepting, mPrognosisPerZodiac, net, backlog>>

Tick ==
    /\ TimePasses /\ \E c \in Conn : conn[c].left > 0
    /\ conn' = [c \in Conn |-> Sooner(conn[c])]
    /\ UNCHANGED <<queue, accepting, mPrognosisPerZodiac, net, backlog>>

Reactor(c) == async_read_until(c) \/ async_write(c) \/ TimerExpires(c)

-----------------------------------------------------------------------------
Connect(c, s) ==
    /\ net[c].peer = "none" /\ conn[c] = NoConnection
    /\ net' = [net EXCEPT ![c] = [NoSocket EXCEPT !.peer = "open", !.inq = Head(s),
                                                  !.todo = Tail(s), !.asked = 1]]
    /\ backlog' = Append(backlog, c)
    /\ UNCHANGED <<queue, accepting, conn, mPrognosisPerZodiac>>

\* The client has read a line for each piece it sent, and sends the next one.
SendNext(c) ==
    /\ net[c].peer = "open" /\ net[c].todo # <<>>
    /\ net[c].unread = 0 /\ Delimiters(net[c].sent) = net[c].asked
    /\ net' = [net EXCEPT ![c].inq = @ \o Head(net[c].todo), ![c].todo = Tail(@),
                          ![c].asked = @ + 1]
    /\ UNCHANGED <<queue, accepting, conn, mPrognosisPerZodiac, backlog>>

ClientRecv(c) ==
    /\ net[c].peer = "open" /\ net[c].unread > 0
    /\ net' = [net EXCEPT ![c].unread = 0]
    /\ UNCHANGED <<queue, accepting, conn, mPrognosisPerZodiac, backlog>>

\* The client leaves; what is on its way still arrives, or none of it, as when
\* the client had not read all that it was sent: that resets the connection.
ClientClose(c, arrives) ==
    LET n == IF arrives /\ net[c].unread = 0 THEN Len(net[c].inq) ELSE 0 IN
    /\ net[c].peer = "open"
    /\ net' = [net EXCEPT ![c].inq = First(@, n), ![c].todo = <<After(net[c].inq, n)>> \o @,
                          ![c].peer = IF net[c].unread = 0 THEN "fin" ELSE "rst",
                          ![c].unread = 0]
    /\ UNCHANGED <<queue, accepting, conn, mPrognosisPerZodiac, backlog>>

Client(c) ==
    \/ \E s \in Streams : Connect(c, s)
    \/ SendNext(c)
    \/ ClientRecv(c)
    \/ \E arrives \in BOOLEAN : ClientClose(c, arrives)

Next == RunOne \/ async_accept \/ Tick \/ \E c \in Conn : Reactor(c) \/ Client(c)

Spec == Init /\ [][Next]_vars

-----------------------------------------------------------------------------
TypeOK ==
    /\ queue \in Seq({ACCEPT} \cup ({"io", "deadline"} \X Conn))
    /\ accepting \in ErrorCode
    /\ conn \in [Conn -> Connection]
    /\ mPrognosisPerZodiac \in [Zodiac -> Seq(Word) \cup {NONE}]
    /\ net \in [Conn -> Socket]
    /\ backlog \in Seq(Conn)

\* No open connection is forgotten by the handlers that keep it alive, and there
\* is always an accept outstanding.
HandlersOutstanding ==
    /\ accepting # "none" /\ Times(ACCEPT) = Queued(accepting)
    /\ ObjectsKept

\* A client that is still there loses its connection only for a line that is no
\* request or after its timer expired; not because the timer was given a new
\* expiry, which also calls handleDeadline.
DropsAreDeserved ==
    [][\A c \in Conn :
          conn[c].open /\ ~conn'[c].open /\ net[c].peer = "open" =>
              \/ conn[c].wait = "success"
              \/ /\ Handling(c, "handleReadRequest")
                 /\ \A type \in {STAR_REQUEST_TYPE, CLIENT_REQUEST_TYPE} :
                       ~IsRequest(type, getline(conn[c].buf))]_vars

\* What a client says that waits for a reply before it sends another request: a
\* line, or two when the first is a star's request, of which the last may be
\* unfinished.
NoFurtherLine(piece) == \A i \in 1 .. Len(piece) - 1 : piece[i] # DELIMITER

OneRequest(piece) ==
    \A n \in 1 .. Len(piece) : IsLine(piece, n) =>
        \/ n = Len(piece)
        \/ IsRequest(STAR_REQUEST_TYPE, First(piece, n)) /\ NoFurtherLine(After(piece, n))

ClientsWait == \A s \in Streams : \A i \in 1 .. Len(s) : OneRequest(s[i])

\* The server implements the same service as the Unix server, if ClientsWait: what
\* is sent behind a request that is answered is echoed with the reply.
Reading(c) == conn[c].open /\ conn[c].op # "handleWriteResponse"

Writing(c) == conn[c].open /\ conn[c].op = "handleWriteResponse"

Unserved(c) == ((IF Reading(c) THEN conn[c].buf ELSE <<>>) \o net[c].inq) \o Together(net[c].todo)

Announced(c) == IF conn[c].open THEN conn[c].zodiac ELSE NONE

Owed(c) == net[c].sent \o (IF Writing(c) THEN conn[c].buf ELSE <<>>)

Prognosis(z) ==
    IF mPrognosisPerZodiac[z] = NONE THEN <<>> ELSE Append(mPrognosisPerZodiac[z], DELIMITER)

Service == INSTANCE AstrologService WITH
    Streams <- {Together(s) : s \in Streams},
    store <- [z \in Zodiac |-> Prognosis(z)],
    input <- [c \in Conn |-> Unserved(c)],
    sign <- [c \in Conn |-> Announced(c)],
    owed <- [c \in Conn |-> Owed(c)]

ImplementsService == Service!Spec

\* When handleDeadline is about to report "Operation timeout" and to stop the
\* connection, the operation under way has used up its time.
ExpiryIsCurrent ==
    \A c \in Conn :
        Ready(<<"deadline", c>>) /\ conn[c].open /\ conn[c].wait = "success" =>
            conn[c].left = 0

=============================================================================
