--------------------------- MODULE BoostProxyProofs ---------------------------
(***************************************************************************)
(* The safety of the Boost proxy for every number of clients, whatever     *)
(* they say, every set of signs and answers, every timeout and every       *)
(* failure: no handler is lost or called twice, no request of a star       *)
(* reaches the server, and a client that says one line at a time is sent   *)
(* the replies to its own requests.  The first part is about ProxyInv, the *)
(* second about ReplyInv, which takes ProxyInv for granted.                *)
(***************************************************************************)
EXTENDS BoostProxy, AsioProofs

Handlers == {CHAIN} \cup ({"io", "deadline"} \X Conn)

-----------------------------------------------------------------------------
\* What is between a connection and the server, with buf the words that the
\* connection's buffer for the server holds and k the socket: nothing; a
\* request on its way, of which a part may be sent; one line of an answer, of
\* which a part may be received; or a request that was lost with the server.
OneLine(l) == IsLine(l, Len(l))

Quiet(buf, k) == buf = <<>> /\ k.in = <<>> /\ k.out = <<>>

Asking(buf, k) ==
    LET l == k.out \o buf IN
    k.in = <<>> /\ OneLine(l) /\ l[1] # STAR_REQUEST_TYPE

Answered(buf, k) == k.out = <<>> /\ OneLine(buf \o k.in)

Unanswered(k) == k.in = <<>> /\ k.out = <<>> /\ k.peer # "open"

\* How this goes with the operation that is outstanding.
InTurn(op, ec, buf, k) ==
    /\ op \in {"handleReadRequest", "handleWriteResponse"} => Quiet(buf, k)
    /\ op = "handleWriteRequest" =>
          /\ Asking(buf, k) \/ (buf = <<>> /\ Answered(buf, k)) \/ Unanswered(k)
          /\ ec = "success" => buf = <<>>
    /\ op = "handleReadResponse" =>
          (buf = <<>> /\ Asking(buf, k)) \/ Answered(buf, k) \/ (buf = <<>> /\ Unanswered(k))
    /\ k.peer # "open" => k.out = <<>>

\* What holds of one connection and its two sockets.
Joined(s, k) ==
    /\ Kept(s)
    /\ IF s.open
       THEN k.server.peer # "none" /\ InTurn(s.op, s.ec, s.buf.server, k.server)
       ELSE k.server = NoSocket
    /\ s.op \in {"handleReadRequest", "handleReadResponse"} /\ s.ec = "success" =>
          HasLine(s.buf[Side(s.op)])

\* The chain has an operation outstanding or is over; a client that it has
\* accepted is there, and so is the server's connection that is kept for it.
ChainInv ==
    /\ Holds(queue, CHAIN) <=> Over(chain.ec)
    /\ chain.op = "none" <=> chain.ec = "none"
    /\ chain.op = "handleAccept" /\ chain.ec = "success" => backlog # <<>>
    /\ spare.in = <<>> /\ spare.out = <<>>
    /\ chain.op = "handleAccept" => spare.peer # "none"
    /\ chain.op = "handleConnect" /\ chain.ec = "success" => spare.peer # "none"

\* A client that waits to be accepted has no Connection object yet.
BacklogInv ==
    /\ Distinct(backlog)
    /\ \A c \in Conn : Holds(backlog, c) =>
                          conn[c] = NoConnection /\ sock[c].client.peer # "none"

\* The inductive invariant.
ProxyInv ==
    /\ TypeOK
    /\ Distinct(queue)
    /\ \A c \in Conn : InStep(c) /\ Joined(conn[c], sock[c])
    /\ ChainInv
    /\ BacklogInv

-----------------------------------------------------------------------------
Sockets == [client : Socket, server : Socket]

LEMMA TimeoutFacts ==
    /\ ReadRequestTimeout \in Nat /\ WriteRequestTimeout \in Nat
    /\ ReadResponseTimeout \in Nat /\ WriteResponseTimeout \in Nat
  BY BoostProxyAssumption

\* The fields of a Connection object.
LEMMA Fields ==
    ASSUME NEW s \in Connection
    PROVE  /\ s.open \in BOOLEAN /\ s.op \in Handler \cup {"none"} /\ s.ec \in ErrorCode
           /\ s.left \in Nat /\ s.wait \in ErrorCode
           /\ s.buf = [client |-> s.buf.client, server |-> s.buf.server]
           /\ s.buf.client \in Seq(Word) /\ s.buf.server \in Seq(Word)
  BY DEF Connection

LEMMA NoConnectionFacts ==
    /\ NoConnection \in Connection /\ NoSockets \in Sockets /\ NoSocket \in Socket
    /\ Kept(NoConnection)
  <1>1. NoConnection \in Connection
    BY DEF NoConnection, Connection, ErrorCode
  <1>2. NoSocket \in Socket
    BY DEF NoSocket, Socket
  <1>3. NoSockets \in Sockets
    BY <1>2 DEF NoSockets, Sockets
  <1> QED BY <1>1, <1>2, <1>3 DEF NoConnection, Kept

\* What a lemma says of an object.
LooksLike(t, open, op, ec, wait, buf) ==
    /\ t \in Connection
    /\ t.open = open /\ t.op = op /\ t.ec = ec /\ t.wait = wait /\ t.buf = buf

\* The first thing a handler of an operation, or of a wait, finds.
LEMMA CalledFacts ==
    ASSUME NEW s \in Connection
    PROVE  /\ LooksLike(IoCalled(s), s.open, "none", "none", s.wait, s.buf)
           /\ LooksLike(WaitCalled(s), s.open, s.op, s.ec, "none", s.buf)
  <1>1. LooksLike(IoCalled(s), s.open, "none", "none", s.wait, s.buf)
    BY DEF LooksLike, IoCalled, Connection, ErrorCode
  <1>2. LooksLike(WaitCalled(s), s.open, s.op, s.ec, "none", s.buf)
    BY DEF LooksLike, WaitCalled, Connection, ErrorCode
  <1> QED BY <1>1, <1>2

LEMMA StopFacts ==
    ASSUME NEW s \in Connection
    PROVE  LooksLike(stop(s), FALSE, s.op, Cancelled(s.ec), Cancelled(s.wait), s.buf)
  BY DEF LooksLike, stop, cancel, close, Cancelled, Connection, ErrorCode

\* A new operation is started with a new expiry.
LEMMA AsyncFacts ==
    ASSUME NEW s \in Connection, NEW h \in Handler, NEW n \in Nat
    PROVE  LooksLike(async(expires_after(s, n), h), s.open, h, "pending", Cancelled(s.wait), s.buf)
  BY DEF LooksLike, async, expires_after, cancel, Cancelled, Connection, ErrorCode

\* Only a buffer changes.
WithBuffer(s, x, a) == [s EXCEPT !.buf[x] = a]

SameState(s, t) ==
    /\ t \in Connection /\ t.open = s.open /\ t.op = s.op /\ t.ec = s.ec /\ t.wait = s.wait

LEMMA BufferFacts ==
    ASSUME NEW s \in Connection, NEW x \in {"client", "server"}, NEW a \in Seq(Word)
    PROVE  /\ SameState(s, WithBuffer(s, x, a))
           /\ WithBuffer(s, x, a).buf[x] = a
           /\ \A y \in {"client", "server"} : y # x => WithBuffer(s, x, a).buf[y] = s.buf[y]
  <1> DEFINE b == [s.buf EXCEPT ![x] = a]
             t == [s EXCEPT !.buf = b]
  <1>1. /\ b \in [client : Seq(Word), server : Seq(Word)] /\ b[x] = a
        /\ \A y \in {"client", "server"} : y # x => b[y] = s.buf[y]
    BY DEF Connection
  <1>2. WithBuffer(s, x, a) = t
    BY DEF Connection, WithBuffer
  <1> HIDE DEF b
  <1>3. SameState(s, t) /\ t.buf = b
    BY <1>1 DEF Connection, SameState
  <1> QED BY <1>1, <1>2, <1>3

LEMMA MoveFacts ==
    ASSUME NEW s \in Connection, NEW x \in {"client", "server"}, NEW y \in {"client", "server"},
           x # y, HasLine(s.buf[x])
    PROVE  /\ SameState(s, Move(s, x, y))
           /\ Move(s, x, y).buf[x] = Remainder(s.buf[x])
           /\ Move(s, x, y).buf[y] = s.buf[y] \o getline(s.buf[x])
  <1> DEFINE a == Remainder(s.buf[x])
             b == s.buf[y] \o getline(s.buf[x])
             r == WithBuffer(s, x, a)
             t == WithBuffer(r, y, b)
  <1>1. s.buf[x] \in Seq(Word) /\ s.buf[y] \in Seq(Word)
    BY DEF Connection
  <1>2. a \in Seq(Word) /\ getline(s.buf[x]) \in Seq(Word)
    BY <1>1, LineFacts
  <1>3. b \in Seq(Word)
    BY <1>1, <1>2, ConcatProperties
  <1>4. Move(s, x, y) = [r EXCEPT !.buf[y] = @ \o getline(s.buf[x])]
    BY Zenon DEF Move, WithBuffer
  <1> HIDE DEF a
  <1>5. SameState(s, r) /\ r.buf[x] = a /\ r.buf[y] = s.buf[y]
    BY <1>2, BufferFacts
  <1> HIDE DEF r
  <1>6. Move(s, x, y) = t
    BY <1>4, <1>5, Zenon DEF WithBuffer
  <1> HIDE DEF b
  <1>7. SameState(r, t) /\ t.buf[y] = b /\ t.buf[x] = r.buf[x]
    <2>1. r \in Connection
      BY <1>5 DEF SameState
    <2> QED BY <1>3, <2>1, BufferFacts
  <1> QED BY <1>5, <1>6, <1>7 DEF SameState, a, b

-----------------------------------------------------------------------------
\* What a handler of an operation leaves.
IoOutcome(s, t, k) ==
    /\ t \in Connection /\ t.ec \in {"none", "pending"}
    /\ GoesOn(s.wait, t.wait)
    /\ Joined(t, IF t.open THEN k ELSE NoSockets)

LEMMA CancelledFacts ==
    ASSUME NEW ec \in ErrorCode
    PROVE  /\ GoesOn(ec, Cancelled(ec)) /\ Cancelled(ec) # "pending"
           /\ Cancelled(ec) = "none" <=> ec = "none"
           /\ Cancelled(ec) = "success" <=> ec = "success"
  BY DEF GoesOn, Cancelled

LEMMA UnlessFacts ==
    ASSUME NEW s \in Connection, NEW k \in Sockets, Joined(s, k), NEW t,
           s.open /\ s.ec = "success" => IoOutcome(s, t, k)
    PROVE  IoOutcome(s, Unless(s, t), k)
  <1>1. /\ LooksLike(IoCalled(s), s.open, "none", "none", s.wait, s.buf)
        /\ s.wait \in ErrorCode /\ s.open \in BOOLEAN /\ IoCalled(s) \in Connection
    BY CalledFacts, Fields DEF LooksLike
  <1>2. CASE ~s.open
    <2>1. Kept(IoCalled(s)) /\ ~IoCalled(s).open /\ IoCalled(s).op = "none"
      BY <1>1, <1>2 DEF Joined, Kept, LooksLike
    <2> QED BY <1>1, <1>2, <2>1 DEF Unless, IoOutcome, Joined, GoesOn, LooksLike, NoSockets
  <1>3. CASE s.open /\ s.ec # "success"
    <2> DEFINE r == IoCalled(s)
               u == stop(IoCalled(s))
    <2>1. /\ u \in Connection /\ u.open = FALSE /\ u.op = "none"
          /\ u.ec = "none" /\ u.wait = Cancelled(s.wait)
      <3>1. LooksLike(u, FALSE, r.op, Cancelled(r.ec), Cancelled(r.wait), r.buf)
        BY <1>1, StopFacts
      <3> QED BY <1>1, <3>1 DEF LooksLike, Cancelled
    <2> HIDE DEF u
    <2>2. Kept(u)
      BY <1>1, <2>1, CancelledFacts DEF Kept
    <2>3. IoOutcome(s, u, k)
      BY <1>1, <2>1, <2>2, CancelledFacts DEF IoOutcome, Joined, NoSockets
    <2> QED BY <1>3, <2>3 DEF Unless, u
  <1>4. CASE s.open /\ s.ec = "success"
    BY <1>4 DEF Unless
  <1> QED BY <1>1, <1>2, <1>3, <1>4

\* A connection that goes on with another operation.
LEMMA NextOperation ==
    ASSUME NEW s \in Connection, NEW k \in Sockets, Joined(s, k), s.open,
           NEW u, SameState(IoCalled(s), u), NEW h \in Handler, NEW n \in Nat,
           InTurn(h, "pending", u.buf.server, k.server)
    PROVE  IoOutcome(s, async(expires_after(u, n), h), k)
  <1> DEFINE t == async(expires_after(u, n), h)
  <1>1. s.wait \in ErrorCode /\ s.wait # "none" /\ k.server.peer # "none"
    BY Fields DEF Joined, Kept
  <1>2. u \in Connection /\ u.open = TRUE /\ u.wait = s.wait
    BY CalledFacts, Fields DEF LooksLike, SameState
  <1>3. LooksLike(t, TRUE, h, "pending", Cancelled(s.wait), u.buf)
    BY <1>2, AsyncFacts
  <1> HIDE DEF t
  <1>4. Kept(t)
    BY <1>1, <1>3, CancelledFacts DEF Kept, LooksLike, Handler
  <1>5. Joined(t, k)
    BY <1>1, <1>3, <1>4 DEF Joined, LooksLike
  <1>6. IoOutcome(s, t, k)
    BY <1>1, <1>3, <1>5, CancelledFacts DEF IoOutcome, LooksLike
  <1> QED BY <1>6 DEF t

LEMMA HandlerFacts ==
    /\ "handleReadRequest" \in Handler /\ "handleWriteRequest" \in Handler
    /\ "handleReadResponse" \in Handler /\ "handleWriteResponse" \in Handler
  BY DEF Handler

\* The request is denied, or goes on to the server and is no star's.
LEMMA ReadRequestFacts ==
    ASSUME NEW s \in Connection, NEW k \in Sockets, Joined(s, k), s.op = "handleReadRequest"
    PROVE  IoOutcome(s, handleReadRequest(s), k)
  <1> DEFINE r == IoCalled(s)
             l == getline(s.buf.client)
             t == IF StartsWith(l, STAR_REQUEST_TYPE) THEN Reject(r) ELSE Forward(r)
  <1>1. ASSUME s.open, s.ec = "success"
        PROVE  IoOutcome(s, t, k)
    <2>1. r \in Connection /\ r.buf = s.buf
      BY CalledFacts DEF LooksLike
    <2>2. HasLine(s.buf["client"]) /\ Quiet(s.buf.server, k.server)
          /\ (k.server.peer # "open" => k.server.out = <<>>)
      BY <1>1 DEF Joined, Side, InTurn
    <2>3. CASE StartsWith(l, STAR_REQUEST_TYPE)
      <3> DEFINE d == STAR_RESPONSE_FAILURE
                 u == WithBuffer(r, "client", d)
      <3>1. d \in Seq(Word)
        BY DEF STAR_RESPONSE_FAILURE, STAR_REPLY_FAILURE, Word
      <3> HIDE DEF d, r
      <3>2. SameState(r, u) /\ u.buf.server = s.buf.server
        BY <2>1, <3>1, BufferFacts
      <3>3. Reject(r) = async(expires_after(u, WriteResponseTimeout), "handleWriteResponse")
        BY Zenon DEF Reject, WithBuffer, d
      <3> HIDE DEF u
      <3>4. InTurn("handleWriteResponse", "pending", u.buf.server, k.server)
        BY <2>2, <3>2 DEF InTurn
      <3>5. IoOutcome(s, Reject(r), k)
        BY <1>1, <3>2, <3>3, <3>4, NextOperation, TimeoutFacts, HandlerFacts DEF r
      <3> QED BY <2>3, <3>5
    <2>4. CASE ~StartsWith(l, STAR_REQUEST_TYPE)
      <3> DEFINE u == Move(r, "client", "server")
      <3> HIDE DEF r
      <3>1. SameState(r, u) /\ u.buf["server"] = s.buf["server"] \o l
        BY <2>1, <2>2, MoveFacts
      <3>2. Forward(r) = async(expires_after(u, WriteRequestTimeout), "handleWriteRequest")
        BY DEF Forward
      <3> HIDE DEF u
      <3>3. l \in Seq(Word) /\ OneLine(l)
        <4>1. s.buf["client"] \in Seq(Word)
          BY Fields
        <4> QED BY <2>2, <4>1, LineFacts DEF OneLine
      <3>4. l[1] # STAR_REQUEST_TYPE
        <4>1. l # <<>>
          BY <3>3 DEF OneLine, IsLine
        <4> QED BY <2>4, <4>1 DEF StartsWith
      <3> HIDE DEF l
      <3>5. Asking(u.buf.server, k.server)
        <4>1. k.server.out \o u.buf.server = l
          BY <2>2, <3>1, <3>3, ConcatEmptySeq DEF Quiet
        <4> QED BY <2>2, <3>3, <3>4, <4>1, Zenon DEF Asking, Quiet
      <3>6. InTurn("handleWriteRequest", "pending", u.buf.server, k.server)
        BY <2>2, <3>5 DEF InTurn
      <3>7. IoOutcome(s, Forward(r), k)
        BY <1>1, <3>1, <3>2, <3>6, NextOperation, TimeoutFacts, HandlerFacts DEF r
      <3> QED BY <2>4, <3>7
    <2> QED BY <2>3, <2>4
  <1>2. handleReadRequest(s) = Unless(s, t)
    BY DEF handleReadRequest
  <1> HIDE DEF t
  <1> QED BY <1>1, <1>2, UnlessFacts

\* Whatever became of the request, the answer is read next.
LEMMA WriteRequestFacts ==
    ASSUME NEW s \in Connection, NEW k \in Sockets, Joined(s, k), s.op = "handleWriteRequest"
    PROVE  IoOutcome(s, handleWriteRequest(s), k)
  <1> DEFINE r == IoCalled(s)
             t == async(expires_after(r, ReadResponseTimeout), "handleReadResponse")
  <1>1. ASSUME s.open, s.ec = "success"
        PROVE  IoOutcome(s, t, k)
    <2>1. SameState(r, r) /\ r.buf = s.buf
      BY CalledFacts DEF LooksLike, SameState
    <2>2. InTurn("handleReadResponse", "pending", s.buf.server, k.server)
      BY <1>1 DEF Joined, InTurn
    <2> HIDE DEF r
    <2> QED BY <1>1, <2>1, <2>2, NextOperation, TimeoutFacts, HandlerFacts DEF r
  <1>2. handleWriteRequest(s) = Unless(s, t)
    BY DEF handleWriteRequest
  <1> HIDE DEF t
  <1> QED BY <1>1, <1>2, UnlessFacts

\* The line that was read is all that the server has said.
LEMMA ReadResponseFacts ==
    ASSUME NEW s \in Connection, NEW k \in Sockets, Joined(s, k), s.op = "handleReadResponse"
    PROVE  IoOutcome(s, handleReadResponse(s), k)
  <1> DEFINE r == IoCalled(s)
             u == Move(r, "server", "client")
             t == async(expires_after(u, WriteResponseTimeout), "handleWriteResponse")
  <1>1. ASSUME s.open, s.ec = "success"
        PROVE  IoOutcome(s, t, k)
    <2> DEFINE buf == s.buf.server
               in == k.server.in
    <2>1. r \in Connection /\ r.buf = s.buf
      BY CalledFacts DEF LooksLike
    <2>2. HasLine(s.buf["server"]) /\ InTurn("handleReadResponse", "success", buf, k.server)
      BY <1>1 DEF Joined, Side
    <2>3. buf \in Seq(Word) /\ in \in Seq(Word)
      BY Fields DEF Sockets, Socket
    <2>4. buf # <<>>
      BY <2>2 DEF HasLine
    <2>5. Answered(buf, k.server)
      BY <2>2, <2>4 DEF InTurn
    <2>6. in = <<>> /\ OneLine(buf)
      <3>1. OneLine(buf \o in)
        BY <2>5 DEF Answered
      <3>2. PICK i \in 1 .. Len(buf) : buf[i] = DELIMITER
        BY <2>2 DEF HasLine
      <3> HIDE DEF buf, in
      <3>3. in = <<>>
        BY <2>3, <3>1, <3>2, PartOfLine DEF OneLine
      <3>4. buf \o in = buf
        BY <2>3, <3>3, ConcatEmptySeq
      <3> QED BY <3>1, <3>3, <3>4
    <2>7. Remainder(buf) = <<>>
      BY <2>3, <2>6, SingleLineFacts DEF OneLine
    <2> HIDE DEF r
    <2>8. SameState(r, u) /\ u.buf["server"] = Remainder(buf)
      BY <2>1, <2>2, MoveFacts
    <2> HIDE DEF u
    <2>9. InTurn("handleWriteResponse", "pending", u.buf.server, k.server)
      BY <2>2, <2>5, <2>6, <2>7, <2>8 DEF InTurn, Quiet, Answered
    <2> QED BY <1>1, <2>8, <2>9, NextOperation, TimeoutFacts, HandlerFacts DEF r
  <1>2. handleReadResponse(s) = Unless(s, t)
    BY DEF handleReadResponse
  <1> HIDE DEF t
  <1> QED BY <1>1, <1>2, UnlessFacts

LEMMA WriteResponseFacts ==
    ASSUME NEW s \in Connection, NEW k \in Sockets, Joined(s, k), s.op = "handleWriteResponse"
    PROVE  IoOutcome(s, handleWriteResponse(s), k)
  <1> DEFINE r == IoCalled(s)
             t == async(expires_after(r, ReadRequestTimeout), "handleReadRequest")
  <1>1. ASSUME s.open, s.ec = "success"
        PROVE  IoOutcome(s, t, k)
    <2>1. SameState(r, r) /\ r.buf = s.buf
      BY CalledFacts DEF LooksLike, SameState
    <2>2. InTurn("handleReadRequest", "pending", s.buf.server, k.server)
      BY <1>1 DEF Joined, InTurn
    <2> HIDE DEF r
    <2> QED BY <1>1, <2>1, <2>2, NextOperation, TimeoutFacts, HandlerFacts DEF r
  <1>2. handleWriteResponse(s) = Unless(s, t)
    BY DEF handleWriteResponse, startReadRequest
  <1> HIDE DEF t
  <1> QED BY <1>1, <1>2, UnlessFacts

\* The timer's handler stops the connection, or waits for the new expiry.
WaitOutcome(s, t, k) ==
    /\ t \in Connection /\ t.wait \in {"none", "pending"}
    /\ GoesOn(s.ec, t.ec)
    /\ Joined(t, IF t.open THEN k ELSE NoSockets)

LEMMA DeadlineFacts ==
    ASSUME NEW s \in Connection, NEW k \in Sockets, Joined(s, k)
    PROVE  WaitOutcome(s, handleDeadline(s), k)
  <1> DEFINE r == WaitCalled(s)
             t == handleDeadline(s)
  <1>1. LooksLike(r, s.open, s.op, s.ec, "none", s.buf)
    BY CalledFacts
  <1>2. s.open \in BOOLEAN /\ s.ec \in ErrorCode
    BY Fields
  <1> HIDE DEF r
  <1>3. CASE ~s.open
    <2>1. t = r
      BY <1>3 DEF handleDeadline, r
    <2>2. Joined(r, NoSockets)
      BY <1>1, <1>3 DEF LooksLike, Joined, Kept, NoSockets
    <2> QED BY <1>1, <1>3, <2>1, <2>2 DEF WaitOutcome, LooksLike, GoesOn
  <1>4. CASE s.open /\ s.wait = "aborted"
    <2>1. t = async_wait(r)
      BY <1>4 DEF handleDeadline, r, startWaitDeadline
    <2>2. LooksLike(t, TRUE, s.op, s.ec, "pending", s.buf)
      BY <1>1, <1>4, <2>1 DEF LooksLike, async_wait, Connection, ErrorCode
    <2>3. Joined(t, k)
      BY <1>4, <2>2 DEF LooksLike, Joined, Kept
    <2> QED BY <2>2, <2>3 DEF WaitOutcome, LooksLike, GoesOn
  <1>5. CASE s.open /\ s.wait # "aborted"
    <2>1. t = stop(r)
      BY <1>5 DEF handleDeadline, r
    <2>2. LooksLike(t, FALSE, s.op, Cancelled(s.ec), "none", s.buf)
      <3>1. LooksLike(t, FALSE, r.op, Cancelled(r.ec), Cancelled(r.wait), r.buf)
        BY <1>1, <2>1, StopFacts DEF LooksLike
      <3> QED BY <1>1, <3>1 DEF LooksLike, Cancelled
    <2>3. Joined(t, NoSockets)
      BY <1>2, <1>5, <2>2, CancelledFacts DEF LooksLike, Joined, Kept, NoSockets
    <2> QED BY <1>2, <2>2, <2>3, CancelledFacts DEF WaitOutcome, LooksLike
  <1> QED BY <1>2, <1>3, <1>4, <1>5

-----------------------------------------------------------------------------
\* The parts of the invariant that are about types.
LEMMA TypeFacts ==
    ASSUME ProxyInv
    PROVE  /\ queue \in Seq(Handlers) /\ chain \in Chain /\ spare \in Socket
           /\ conn \in [Conn -> Connection] /\ sock \in [Conn -> Sockets]
           /\ says \in [Conn -> [said : Seq(Seq(Word)), todo : Seq(Seq(Word))]]
           /\ backlog \in Seq(Conn) /\ running \in BOOLEAN
  BY DEF ProxyInv, TypeOK, Handlers, Sockets

LEMMA HandlersFacts ==
    /\ CHAIN \in Handlers
    /\ \A c \in Conn : /\ <<"io", c>> \in Handlers /\ <<"deadline", c>> \in Handlers
                       /\ CHAIN # <<"io", c>> /\ CHAIN # <<"deadline", c>>
  BY DEF CHAIN, Handlers

\* A step of one Connection object and its sockets keeps the invariant.
LEMMA ConnectionStep ==
    ASSUME ProxyInv, NEW c \in Conn, NEW t \in Connection, NEW k \in Sockets,
           QueueFollows(Handlers, c), Joined(t, k), conn[c] # NoConnection,
           conn' = [conn EXCEPT ![c] = IF Released(t) THEN NoConnection ELSE t],
           sock' = [sock EXCEPT ![c] = k],
           says' \in [Conn -> [said : Seq(Seq(Word)), todo : Seq(Seq(Word))]],
           UNCHANGED <<running, chain, spare, backlog>>
    PROVE  ProxyInv'
  <1> DEFINE u == IF Released(t) THEN NoConnection ELSE t
  <1>1. u \in Connection /\ Joined(u, k)
    <2>1. CASE Released(t)
      <3>1. Joined(NoConnection, k)
        BY <2>1, NoConnectionFacts DEF Released, Joined, NoConnection
      <3> QED BY <2>1, <3>1, NoConnectionFacts
    <2>2. CASE ~Released(t)
      BY <2>2
    <2> QED BY <2>1, <2>2
  <1> HIDE DEF u
  <1>2. conn' = [conn EXCEPT ![c] = u]
    BY DEF u
  <1>3. /\ conn' \in [Conn -> Connection] /\ conn'[c] = u
        /\ \A d \in Conn : d # c => conn'[d] = conn[d]
    BY <1>1, <1>2, TypeFacts
  <1>4. /\ sock' \in [Conn -> Sockets] /\ sock'[c] = k
        /\ \A d \in Conn : d # c => sock'[d] = sock[d]
    BY TypeFacts
  <1>5. TypeOK'
    BY <1>3, <1>4, TypeFacts DEF TypeOK, QueueFollows, Handlers, Sockets
  <1>6. \A d \in Conn : InStep(d)' /\ Joined(conn'[d], sock'[d])
    BY <1>1, <1>3, <1>4 DEF ProxyInv, QueueFollows
  <1>7. ChainInv'
    <2>1. Holds(queue', CHAIN) <=> Holds(queue, CHAIN)
      BY HandlersFacts DEF QueueFollows
    <2> QED BY <2>1 DEF ProxyInv, ChainInv
  <1>8. BacklogInv'
    <2>1. ~Holds(backlog, c)
      BY DEF ProxyInv, BacklogInv
    <2> QED BY <1>3, <1>4, <2>1 DEF ProxyInv, BacklogInv
  <1>9. Distinct(queue')
    BY DEF QueueFollows
  <1> QED BY <1>5, <1>6, <1>7, <1>8, <1>9 DEF ProxyInv

\* Some handler of an object that the queue holds was outstanding.
LEMMA ReadyIsInUse ==
    ASSUME ProxyInv, NEW c \in Conn, Ready(<<"io", c>>) \/ Ready(<<"deadline", c>>)
    PROVE  conn[c] # NoConnection
  <1>1. Holds(queue, <<"io", c>>) \/ Holds(queue, <<"deadline", c>>)
    BY TypeFacts, Popped DEF ProxyInv, Ready
  <1>2. Over(conn[c].ec) \/ Over(conn[c].wait)
    BY <1>1 DEF ProxyInv, InStep
  <1> QED BY <1>2 DEF Over, NoConnection

\* What Handled does to the sockets and to what the client has said.
LEMMA HandledFacts ==
    ASSUME ProxyInv, NEW c \in Conn, NEW t \in Connection, Handled(c, t)
    PROVE  /\ sock' = [sock EXCEPT ![c] = IF t.open THEN sock[c] ELSE NoSockets]
           /\ says' \in [Conn -> [said : Seq(Seq(Word)), todo : Seq(Seq(Word))]]
           /\ (IF t.open THEN sock[c] ELSE NoSockets) \in Sockets
           /\ UNCHANGED <<running, chain, spare, backlog>>
           /\ Becomes(c, t, Tail(queue), NoConnection)
           /\ conn' = [conn EXCEPT ![c] = IF Released(t) THEN NoConnection ELSE t]
  <1>1. Nothing \in [said : Seq(Seq(Word)), todo : Seq(Seq(Word))]
    BY DEF Nothing
  <1>2. says' = [says EXCEPT ![c] = IF t.open THEN says[c] ELSE Nothing]
    BY TypeFacts DEF Handled
  <1> QED BY <1>1, <1>2, TypeFacts, NoConnectionFacts DEF Handled, Becomes

LEMMA IoHandled ==
    ASSUME ProxyInv, NEW c \in Conn, Ready(<<"io", c>>), NEW t,
           IoOutcome(conn[c], t, sock[c]), Handled(c, t)
    PROVE  ProxyInv'
  <1> DEFINE k == IF t.open THEN sock[c] ELSE NoSockets
  <1>1. /\ t \in Connection /\ t.ec \in {"none", "pending"} /\ GoesOn(conn[c].wait, t.wait)
        /\ Joined(t, k)
    BY DEF IoOutcome
  <1>2. /\ sock' = [sock EXCEPT ![c] = k] /\ k \in Sockets
        /\ says' \in [Conn -> [said : Seq(Seq(Word)), todo : Seq(Seq(Word))]]
        /\ UNCHANGED <<running, chain, spare, backlog>>
        /\ Becomes(c, t, Tail(queue), NoConnection)
        /\ conn' = [conn EXCEPT ![c] = IF Released(t) THEN NoConnection ELSE t]
    BY <1>1, HandledFacts
  <1> HIDE DEF k
  <1>3. conn[c] # NoConnection
    BY ReadyIsInUse
  <1>4. (Released(t) => t.ec = "none") /\ NoConnection.ec = "none" /\ NoConnection.wait = "none"
    BY <1>1, KeptReleased DEF Joined, NoConnection
  <1>5. QueueFollows(Handlers, c)
    <2>1. InStep(c) /\ Distinct(queue)
      BY DEF ProxyInv
    <2>2. Leaves(Tail(queue), <<"io", c>>, Handlers)
      BY <2>1, TypeFacts, FirstTaken
    <2> QED BY <1>1, <1>2, <1>4, <2>1, <2>2, TypeFacts, HandlersFacts, IoHandledFacts
  <1> QED BY <1>1, <1>2, <1>3, <1>5, ConnectionStep

LEMMA WaitHandled ==
    ASSUME ProxyInv, NEW c \in Conn, Ready(<<"deadline", c>>), NEW t,
           WaitOutcome(conn[c], t, sock[c]), Handled(c, t)
    PROVE  ProxyInv'
  <1> DEFINE k == IF t.open THEN sock[c] ELSE NoSockets
  <1>1. /\ t \in Connection /\ t.wait \in {"none", "pending"} /\ GoesOn(conn[c].ec, t.ec)
        /\ Joined(t, k)
    BY DEF WaitOutcome
  <1>2. /\ sock' = [sock EXCEPT ![c] = k] /\ k \in Sockets
        /\ says' \in [Conn -> [said : Seq(Seq(Word)), todo : Seq(Seq(Word))]]
        /\ UNCHANGED <<running, chain, spare, backlog>>
        /\ Becomes(c, t, Tail(queue), NoConnection)
        /\ conn' = [conn EXCEPT ![c] = IF Released(t) THEN NoConnection ELSE t]
    BY <1>1, HandledFacts
  <1> HIDE DEF k
  <1>3. conn[c] # NoConnection
    BY ReadyIsInUse
  <1>4. (Released(t) => t.ec = "none") /\ NoConnection.ec = "none" /\ NoConnection.wait = "none"
    BY <1>1, KeptReleased DEF Joined, NoConnection
  <1>5. QueueFollows(Handlers, c)
    <2>1. InStep(c) /\ Distinct(queue)
      BY DEF ProxyInv
    <2>2. Leaves(Tail(queue), <<"deadline", c>>, Handlers)
      BY <2>1, TypeFacts, FirstTaken
    <2> QED BY <1>1, <1>2, <1>4, <2>1, <2>2, TypeFacts, HandlersFacts, WaitHandledFacts
  <1> QED BY <1>1, <1>2, <1>3, <1>5, ConnectionStep

\* The handlers of a Connection object.
LEMMA RunHandlerInv ==
    ASSUME ProxyInv, NEW c \in Conn, RunHandler(c)
    PROVE  ProxyInv'
  <1> DEFINE s == conn[c]
             k == sock[c]
  <1>1. s \in Connection /\ k \in Sockets /\ Joined(s, k)
    BY TypeFacts DEF ProxyInv
  <1>2. CASE Ready(<<"io", c>>) /\ s.op = "handleReadRequest" /\ Handled(c, handleReadRequest(s))
    BY <1>1, <1>2, ReadRequestFacts, IoHandled
  <1>3. CASE Ready(<<"io", c>>) /\ s.op = "handleWriteRequest" /\ Handled(c, handleWriteRequest(s))
    BY <1>1, <1>3, WriteRequestFacts, IoHandled
  <1>4. CASE Ready(<<"io", c>>) /\ s.op = "handleReadResponse" /\ Handled(c, handleReadResponse(s))
    BY <1>1, <1>4, ReadResponseFacts, IoHandled
  <1>5. CASE Ready(<<"io", c>>) /\ s.op = "handleWriteResponse" /\ Handled(c, handleWriteResponse(s))
    BY <1>1, <1>5, WriteResponseFacts, IoHandled
  <1>6. CASE Ready(<<"deadline", c>>) /\ Handled(c, handleDeadline(s))
    BY <1>1, <1>6, DeadlineFacts, WaitHandled
  <1> QED BY <1>2, <1>3, <1>4, <1>5, <1>6 DEF RunHandler

-----------------------------------------------------------------------------
\* The chain's handler is called.
LEMMA ChainCalled ==
    ASSUME ProxyInv, Ready(CHAIN), queue' = Tail(queue), UNCHANGED conn
    PROVE  /\ queue' \in Seq(Handlers) /\ Distinct(queue') /\ ~Holds(queue', CHAIN)
           /\ \A c \in Conn : InStep(c)'
  <1>1. /\ queue' \in Seq(Handlers) /\ Distinct(queue')
        /\ \A h : Holds(queue', h) <=> Holds(queue, h) /\ h # CHAIN
    BY TypeFacts, Popped DEF ProxyInv, Ready
  <1>2. \A c \in Conn : InStep(c)'
    BY <1>1, HandlersFacts DEF ProxyInv, InStep
  <1> QED BY <1>1, <1>2

\* A step that leaves the objects and the sockets alone.
LEMMA ChainStep ==
    ASSUME ProxyInv, UNCHANGED <<running, conn, sock, says, backlog>>,
           queue' \in Seq(Handlers), Distinct(queue'), \A c \in Conn : InStep(c)',
           chain' \in Chain, spare' \in Socket, ChainInv'
    PROVE  ProxyInv'
  <1>1. TypeOK'
    BY TypeFacts DEF TypeOK, Handlers, Sockets
  <1>2. \A c \in Conn : Joined(conn'[c], sock'[c])
    BY DEF ProxyInv
  <1>3. BacklogInv'
    BY DEF ProxyInv, BacklogInv
  <1> QED BY <1>1, <1>2, <1>3 DEF ProxyInv

LEMMA ChainTypes ==
    /\ NoOperation \in Chain
    /\ \A op \in {"handleResolve", "handleConnect", "handleAccept"} : Outstanding(op) \in Chain
  BY DEF NoOperation, Outstanding, Chain, ErrorCode

LEMMA ResolveInv ==
    ASSUME ProxyInv, handleResolve
    PROVE  ProxyInv'
  <1>1. /\ Ready(CHAIN) /\ queue' = Tail(queue) /\ chain.op = "handleResolve"
        /\ chain' = IF chain.ec = "success" THEN Outstanding("handleConnect") ELSE NoOperation
        /\ UNCHANGED <<running, spare, conn, sock, says, backlog>>
    BY DEF handleResolve, IfSuccessful
  <1>2. /\ queue' \in Seq(Handlers) /\ Distinct(queue') /\ ~Holds(queue', CHAIN)
        /\ \A c \in Conn : InStep(c)'
    BY <1>1, ChainCalled
  <1>3. ChainInv'
    BY <1>1, <1>2 DEF ProxyInv, ChainInv, Outstanding, NoOperation, Over
  <1> QED BY <1>1, <1>2, <1>3, TypeFacts, ChainTypes, ChainStep

\* The connection to the server stays for the client that will be accepted.
LEMMA ConnectedInv ==
    ASSUME ProxyInv, handleConnect
    PROVE  ProxyInv'
  <1>1. /\ Ready(CHAIN) /\ queue' = Tail(queue) /\ chain.op = "handleConnect"
        /\ chain' = IF chain.ec = "success" THEN Outstanding("handleAccept") ELSE NoOperation
        /\ UNCHANGED <<running, spare, conn, sock, says, backlog>>
    BY DEF handleConnect, IfSuccessful
  <1>2. /\ queue' \in Seq(Handlers) /\ Distinct(queue') /\ ~Holds(queue', CHAIN)
        /\ \A c \in Conn : InStep(c)'
    BY <1>1, ChainCalled
  <1>3. ChainInv'
    BY <1>1, <1>2 DEF ProxyInv, ChainInv, Outstanding, NoOperation, Over
  <1> QED BY <1>1, <1>2, <1>3, TypeFacts, ChainTypes, ChainStep

\* A client that was accepted gets an object with nothing in its buffers, and
\* the connection to the server over which nothing was said yet.
LEMMA StartFacts ==
    /\ LooksLike(start(NoConnection), TRUE, "handleReadRequest", "pending", "pending",
                 [client |-> <<>>, server |-> <<>>])
    /\ ~Released(start(NoConnection))
  <1> DEFINE s == [NoConnection EXCEPT !.open = TRUE]
             t == async(expires_after(s, ReadRequestTimeout), "handleReadRequest")
             u == async_wait(t)
  <1>1. LooksLike(s, TRUE, "none", "none", "none", [client |-> <<>>, server |-> <<>>])
    BY NoConnectionFacts DEF LooksLike, NoConnection, Connection
  <1>2. start(NoConnection) = u
    BY DEF start, startWaitDeadline, startReadRequest
  <1> HIDE DEF s
  <1>3. LooksLike(t, s.open, "handleReadRequest", "pending", Cancelled(s.wait), s.buf)
    BY <1>1, AsyncFacts, TimeoutFacts, HandlerFacts DEF LooksLike
  <1> HIDE DEF t
  <1>4. LooksLike(u, t.open, t.op, t.ec, "pending", t.buf)
    BY <1>3 DEF LooksLike, async_wait, Connection, ErrorCode
  <1> HIDE DEF u
  <1>5. LooksLike(u, TRUE, "handleReadRequest", "pending", "pending",
                 [client |-> <<>>, server |-> <<>>])
    BY <1>1, <1>3, <1>4 DEF LooksLike
  <1> QED BY <1>2, <1>5 DEF LooksLike, Released

LEMMA AcceptInv ==
    ASSUME ProxyInv, handleAccept
    PROVE  ProxyInv'
  <1>1. /\ Ready(CHAIN) /\ chain.op = "handleAccept" /\ chain' = Outstanding("handleConnect")
        /\ spare' = NoSocket /\ UNCHANGED <<running, says>>
    BY DEF handleAccept, Accepted
  <1>2. chain' \in Chain /\ spare' \in Socket
    BY <1>1, ChainTypes, NoConnectionFacts
  <1>3. CASE chain.ec # "success"
    <2>1. queue' = Tail(queue) /\ UNCHANGED <<conn, sock, backlog>>
      BY <1>3 DEF handleAccept, Accepted
    <2>2. /\ queue' \in Seq(Handlers) /\ Distinct(queue') /\ ~Holds(queue', CHAIN)
          /\ \A c \in Conn : InStep(c)'
      BY <1>1, <2>1, ChainCalled
    <2>3. ChainInv'
      BY <1>1, <2>1, <2>2 DEF ProxyInv, ChainInv, Outstanding, NoSocket, Over
    <2> QED BY <1>1, <1>2, <2>1, <2>2, <2>3, ChainStep
  <1>4. CASE chain.ec = "success"
    <2> DEFINE c == Head(backlog)
               t == start(NoConnection)
    <2>1. backlog # <<>> /\ spare.peer # "none" /\ spare.in = <<>> /\ spare.out = <<>>
      BY <1>1, <1>4 DEF ProxyInv, ChainInv
    <2>2. /\ c \in Conn /\ Holds(backlog, c)
          /\ Tail(backlog) \in Seq(Conn) /\ Distinct(Tail(backlog))
          /\ \A d : Holds(Tail(backlog), d) <=> Holds(backlog, d) /\ d # c
      BY <2>1, TypeFacts, Popped DEF ProxyInv, BacklogInv
    <2>3. conn[c] = NoConnection
      BY <2>2 DEF ProxyInv, BacklogInv
    <2>4. /\ Becomes(c, t, Tail(queue), NoConnection)
          /\ sock' = [sock EXCEPT ![c].server = spare] /\ backlog' = Tail(backlog)
      BY <1>4, <2>3 DEF handleAccept, Accepted
    <2> HIDE DEF c, t
    <2>5. /\ LooksLike(t, TRUE, "handleReadRequest", "pending", "pending",
                       [client |-> <<>>, server |-> <<>>])
          /\ ~Released(t)
      BY StartFacts DEF t
    <2>6. /\ conn' \in [Conn -> Connection] /\ conn'[c] = t
          /\ \A d \in Conn : d # c => conn'[d] = conn[d]
      BY <2>2, <2>4, <2>5, TypeFacts DEF Becomes, LooksLike
    <2>7. /\ sock' \in [Conn -> Sockets] /\ sock'[c].server = spare
          /\ sock'[c].client = sock[c].client
          /\ \A d \in Conn : d # c => sock'[d] = sock[d]
      BY <2>2, <2>4, TypeFacts DEF Sockets
    <2>8. /\ queue' \in Seq(Handlers) /\ Distinct(queue') /\ ~Holds(queue', CHAIN)
          /\ \A d \in Conn : InStep(d) => InStep(d)'
      <3>1. /\ conn[c].ec = "none" /\ conn[c].wait = "none" /\ t.ec = "pending" /\ t.wait = "pending"
            /\ NoConnection.ec = "none" /\ NoConnection.wait = "none"
        BY <2>3, <2>5 DEF NoConnection, LooksLike
      <3>2. InStep(c) /\ Distinct(queue)
        BY <2>2 DEF ProxyInv
      <3>3. <<"io", c>> \in Handlers /\ <<"deadline", c>> \in Handlers
        BY <2>2, HandlersFacts
      <3> QED BY <1>1, <2>2, <2>4, <3>1, <3>2, <3>3, TypeFacts, HandlersFacts, StartedFacts
    <2>9. Joined(t, sock'[c])
      <3>1. Kept(t) /\ t.open /\ t.buf.server = <<>>
        BY <2>5 DEF LooksLike, Kept
      <3>2. InTurn("handleReadRequest", "pending", t.buf.server, sock'[c].server)
        BY <2>1, <2>7, <3>1 DEF InTurn, Quiet
      <3> QED BY <2>1, <2>5, <2>7, <3>1, <3>2 DEF LooksLike, Joined
    <2>10. \A d \in Conn : InStep(d)' /\ Joined(conn'[d], sock'[d])
      BY <2>6, <2>7, <2>8, <2>9 DEF ProxyInv
    <2>11. TypeOK'
      BY <1>1, <1>2, <2>2, <2>4, <2>6, <2>7, <2>8, TypeFacts DEF TypeOK, Handlers, Sockets
    <2>12. ChainInv'
      BY <1>1, <2>8 DEF ChainInv, Outstanding, NoSocket, Over
    <2>13. BacklogInv'
      BY <2>2, <2>4, <2>6, <2>7 DEF ProxyInv, BacklogInv
    <2> QED BY <2>8, <2>10, <2>11, <2>12, <2>13 DEF ProxyInv
  <1> QED BY <1>3, <1>4

LEMMA ExitInv ==
    ASSUME ProxyInv, Exit
    PROVE  ProxyInv'
  <1>1. /\ running' = FALSE /\ backlog' = <<>> /\ chain = NoOperation
        /\ sock' = [c \in Conn |-> NoSockets] /\ says' = [c \in Conn |-> Nothing]
        /\ UNCHANGED <<queue, chain, spare, conn>>
        /\ \A c \in Conn : conn[c] = NoConnection
    BY DEF Exit
  <1>2. TypeOK'
    <2>1. Nothing \in [said : Seq(Seq(Word)), todo : Seq(Seq(Word))]
      BY DEF Nothing
    <2>2. says' \in [Conn -> [said : Seq(Seq(Word)), todo : Seq(Seq(Word))]]
      BY <1>1, <2>1
    <2>3. sock' \in [Conn -> Sockets] /\ backlog' \in Seq(Conn)
      BY <1>1, NoConnectionFacts
    <2> QED BY <1>1, <2>2, <2>3, TypeFacts DEF TypeOK, Handlers, Sockets
  <1>3. \A c \in Conn : InStep(c)'
    BY <1>1 DEF ProxyInv, InStep
  <1>4. \A c \in Conn : Joined(conn'[c], sock'[c])
    BY <1>1, NoConnectionFacts DEF Joined, NoConnection, NoSockets
  <1>5. ChainInv'
    BY <1>1 DEF ProxyInv, ChainInv, NoOperation
  <1>6. BacklogInv' /\ Distinct(queue')
    BY <1>1 DEF ProxyInv, BacklogInv, Distinct, Holds
  <1> QED BY <1>2, <1>3, <1>4, <1>5, <1>6 DEF ProxyInv

-----------------------------------------------------------------------------
\* async_resolve, async_connect and async_accept come to an end.
LEMMA ChainOperationInv ==
    ASSUME ProxyInv, NEW ec \in {"success", "failed"}, ChainOperation(ec)
    PROVE  ProxyInv'
  <1>1. /\ chain.ec = "pending" /\ (chain.op = "handleAccept" => backlog # <<>>)
        /\ chain' = [chain EXCEPT !.ec = ec] /\ queue' = Append(queue, CHAIN)
        /\ spare' = IF ec = "success" /\ chain.op = "handleConnect" THEN NewSocket ELSE spare
        /\ UNCHANGED <<running, conn, sock, says, backlog>>
    BY DEF ChainOperation
  <1>2. /\ queue' \in Seq(Handlers) /\ Distinct(queue')
        /\ \A h : Holds(queue', h) <=> Holds(queue, h) \/ h = CHAIN
    <2>1. ~Holds(queue, CHAIN) /\ Distinct(queue)
      BY <1>1 DEF ProxyInv, ChainInv, Over
    <2> QED BY <1>1, <2>1, TypeFacts, HandlersFacts, Pushed
  <1>3. \A c \in Conn : InStep(c)'
    BY <1>1, <1>2, HandlersFacts DEF ProxyInv, InStep
  <1>4. chain' \in Chain /\ chain'.op = chain.op /\ chain'.ec = ec
    BY <1>1, TypeFacts DEF Chain, ErrorCode
  <1>5. /\ NewSocket \in Socket /\ NewSocket.in = <<>> /\ NewSocket.out = <<>>
        /\ NewSocket.peer = "open"
    <2>1. NoSocket \in Socket /\ NoSocket.in = <<>> /\ NoSocket.out = <<>>
      BY NoConnectionFacts DEF NoSocket
    <2>2. NewSocket \in Socket /\ NewSocket.in = NoSocket.in /\ NewSocket.out = NoSocket.out
          /\ NewSocket.peer = "open"
      BY <2>1, TimeoutFacts DEF NewSocket, Socket
    <2> QED BY <2>1, <2>2
  <1>6. ChainInv'
    BY <1>1, <1>2, <1>4, <1>5, TypeFacts DEF ProxyInv, ChainInv, Over
  <1> QED BY <1>1, <1>2, <1>3, <1>4, <1>5, <1>6, TypeFacts, ChainStep

\* An operation goes on: one buffer changes, and perhaps how it stands.
Progress(s, x, a, ec) == [WithBuffer(s, x, a) EXCEPT !.ec = ec]

LEMMA ProgressFacts ==
    ASSUME NEW s \in Connection, NEW x \in {"client", "server"}, NEW a \in Seq(Word),
           NEW ec \in ErrorCode
    PROVE  /\ LooksLike(Progress(s, x, a, ec), s.open, s.op, ec, s.wait, WithBuffer(s, x, a).buf)
           /\ Progress(s, x, a, ec).buf[x] = a
           /\ \A y \in {"client", "server"} : y # x => Progress(s, x, a, ec).buf[y] = s.buf[y]
  <1> DEFINE r == WithBuffer(s, x, a)
             t == [r EXCEPT !.ec = ec]
  <1>1. /\ SameState(s, r) /\ r.buf[x] = a
        /\ \A y \in {"client", "server"} : y # x => r.buf[y] = s.buf[y]
    BY BufferFacts
  <1> HIDE DEF r
  <1>2. LooksLike(t, s.open, s.op, ec, s.wait, r.buf)
    BY <1>1 DEF SameState, LooksLike, Connection
  <1>3. Progress(s, x, a, ec) = t
    BY DEF Progress, r
  <1> HIDE DEF t
  <1> QED BY <1>1, <1>2, <1>3 DEF LooksLike, r

\* A step of an operation keeps the invariant when what it leaves is joined.
LEMMA IoStepInv ==
    ASSUME ProxyInv, NEW c \in Conn, NEW t \in Connection, NEW x \in {"client", "server"},
           NEW k \in Socket, conn[c].ec = "pending", t.ec # "none",
           t.open = conn[c].open, t.op = conn[c].op, t.wait = conn[c].wait,
           Joined(t, [sock[c] EXCEPT ![x] = k]),
           IoStep(c, t, x, k)
    PROVE  ProxyInv'
  <1> DEFINE j == [sock[c] EXCEPT ![x] = k]
  <1>1. /\ Becomes(c, t, queue, NoConnection) /\ sock' = [sock EXCEPT ![c][x] = k]
        /\ UNCHANGED <<running, chain, spare, says, backlog>>
    BY DEF IoStep
  <1>2. sock' = [sock EXCEPT ![c] = j] /\ j \in Sockets
    BY <1>1, TypeFacts DEF Sockets
  <1> HIDE DEF j
  <1>3. GoesOn(conn[c].ec, t.ec) /\ GoesOn(conn[c].wait, t.wait)
    BY DEF GoesOn
  <1>4. (Released(t) => t.ec = "none") /\ NoConnection.ec = "none" /\ NoConnection.wait = "none"
    BY KeptReleased DEF Joined, NoConnection
  <1>5. QueueFollows(Handlers, c)
    <2>1. InStep(c) /\ Distinct(queue)
      BY DEF ProxyInv
    <2> QED BY <1>1, <1>3, <1>4, <2>1, TypeFacts, HandlersFacts, CompletedFacts
  <1>6. conn[c] # NoConnection
    BY DEF NoConnection
  <1>7. conn' = [conn EXCEPT ![c] = IF Released(t) THEN NoConnection ELSE t]
    BY <1>1 DEF Becomes
  <1> QED BY <1>1, <1>2, <1>5, <1>6, <1>7, TypeFacts, ConnectionStep DEF j

\* Who has an operation pending is open; its operation tells the side.
LEMMA PendingFacts ==
    ASSUME NEW s \in Connection, NEW k \in Sockets, Joined(s, k), s.ec = "pending"
    PROVE  /\ s.open /\ s.op # "none" /\ s.wait # "none" /\ k.server.peer # "none"
           /\ InTurn(s.op, "pending", s.buf.server, k.server)
           /\ Side(s.op) \in {"client", "server"}
  BY Fields DEF Joined, Kept, Side

\* The socket and the buffer of the server when x is the side of the operation.
LEMMA SideFacts ==
    ASSUME NEW s \in Connection, NEW j \in Sockets, Joined(s, j), s.ec = "pending",
           NEW t, NEW b, NEW ec \in ErrorCode \ {"none"}, NEW k \in Socket,
           LooksLike(t, s.open, s.op, ec, s.wait, b),
           LET x == Side(s.op) IN
           /\ \A y \in {"client", "server"} : y # x => b[y] = s.buf[y]
           /\ x = "server" => k.peer # "none" /\ InTurn(s.op, ec, b[x], k)
           /\ s.op \in {"handleReadRequest", "handleReadResponse"} /\ ec = "success" => HasLine(b[x])
    PROVE  Joined(t, [j EXCEPT ![Side(s.op)] = k])
  <1> DEFINE x == Side(s.op)
             i == [j EXCEPT ![x] = k]
  <1>1. /\ s.open = TRUE /\ s.op # "none" /\ s.wait # "none" /\ j.server.peer # "none"
        /\ InTurn(s.op, "pending", s.buf.server, j.server) /\ x \in {"client", "server"}
    BY PendingFacts, Fields
  <1>2. Kept(t)
    BY <1>1 DEF LooksLike, Kept
  <1>3. x = "client" => s.op # "handleWriteRequest" /\ s.op # "handleReadResponse"
    BY DEF Side
  <1>4. x = "server" => i.server = k
    BY DEF Sockets
  <1>5. x = "client" => i.server = j.server
    BY DEF Sockets
  <1> HIDE DEF i
  <1>6. i.server.peer # "none" /\ InTurn(s.op, ec, b.server, i.server)
    <2>1. CASE x = "server"
      BY <1>4, <2>1
    <2>2. CASE x = "client"
      BY <1>1, <1>3, <1>5, <2>2 DEF InTurn
    <2> QED BY <1>1, <2>1, <2>2
  <1> QED BY <1>1, <1>2, <1>6 DEF Joined, LooksLike, i

\* Only how the operation stands changes, and the socket stays.
LEMMA EndedInv ==
    ASSUME ProxyInv, NEW c \in Conn, conn[c].ec = "pending", NEW ec \in {"eof", "failed"},
           IoStep(c, [conn[c] EXCEPT !.ec = ec], Side(conn[c].op), sock[c][Side(conn[c].op)])
    PROVE  ProxyInv'
  <1> DEFINE s == conn[c]
             x == Side(s.op)
             t == [s EXCEPT !.ec = ec]
             k == sock[c][x]
  <1>1. s \in Connection /\ sock[c] \in Sockets /\ Joined(s, sock[c]) /\ s.ec = "pending"
    BY TypeFacts DEF ProxyInv
  <1>2. /\ x \in {"client", "server"} /\ sock[c].server.peer # "none"
        /\ InTurn(s.op, "pending", s.buf.server, sock[c].server)
    BY <1>1, PendingFacts
  <1>3. ec \in ErrorCode \ {"none"} /\ k \in Socket
    BY <1>1, <1>2 DEF ErrorCode, Sockets
  <1>4. LooksLike(t, s.open, s.op, ec, s.wait, s.buf)
    BY <1>1, <1>3 DEF LooksLike, Connection
  <1>5. Joined(t, [sock[c] EXCEPT ![x] = k])
    <2>1. x = "server" => k.peer # "none" /\ InTurn(s.op, ec, s.buf[x], k)
      BY <1>2 DEF InTurn
    <2> HIDE DEF t, s, k
    <2>2. ec # "success"
      OBVIOUS
    <2> QED BY <1>1, <1>3, <1>4, <2>1, <2>2, SideFacts
  <1> HIDE DEF x, t, k
  <1>6. /\ t \in Connection /\ t.ec # "none"
        /\ t.open = s.open /\ t.op = s.op /\ t.wait = s.wait
    BY <1>4 DEF LooksLike
  <1>7. IoStep(c, t, x, k)
    BY SMTT(30) DEF t, x, k
  <1> QED BY <1>2, <1>3, <1>5, <1>6, <1>7, IoStepInv

\* What has arrived is read into the buffer.
LEMMA ReadInv ==
    ASSUME ProxyInv, NEW c \in Conn, async_read_until(c)
    PROVE  ProxyInv'
  <1> DEFINE s == conn[c]
             x == Side(s.op)
             k == sock[c][x]
  <1>1. s \in Connection /\ sock[c] \in Sockets /\ Joined(s, sock[c])
    BY TypeFacts, SMTT(30) DEF ProxyInv
  <1>2. s.op \in {"handleReadRequest", "handleReadResponse"} /\ s.ec = "pending"
    BY DEF async_read_until
  <1>3. /\ x \in {"client", "server"} /\ sock[c].server.peer # "none"
        /\ InTurn(s.op, "pending", s.buf.server, sock[c].server)
    BY <1>1, <1>2, PendingFacts
  <1>4. /\ k \in Socket /\ k.in \in Seq(Word) /\ s.buf[x] \in Seq(Word)
    BY <1>1, <1>3, Fields DEF Sockets, Socket
  <1>5. ASSUME NEW n \in ReadSize(s.buf[x], k.in),
               LET t == [s EXCEPT !.buf[x] = @ \o First(k.in, n)] IN
               IoStep(c, [t EXCEPT !.ec = IF HasLine(t.buf[x]) THEN "success" ELSE @],
                      x, [k EXCEPT !.in = After(@, n)])
        PROVE  ProxyInv'
    <2> DEFINE a == s.buf[x] \o First(k.in, n)
               ec == IF HasLine(a) THEN "success" ELSE "pending"
               r == WithBuffer(s, x, a)
               t == Progress(s, x, a, ec)
               l == [k EXCEPT !.in = After(k.in, n)]
    <2>1. Len(k.in) \in Nat /\ n \in 0 .. Len(k.in)
      BY <1>4, LenProperties DEF ReadSize
    <2>2. First(k.in, n) \in Seq(Word) /\ After(k.in, n) \in Seq(Word)
      BY <1>4, <2>1, CutFacts
    <2>3. a \in Seq(Word) /\ ec \in ErrorCode \ {"none"} /\ ec \in ErrorCode
      BY <1>4, <2>2, ConcatProperties, SMTT(30) DEF ErrorCode
    <2>4. r.buf[x] = a /\ r.ec = s.ec
      BY <1>1, <1>3, <2>3, BufferFacts DEF SameState
    <2>5. /\ l \in Socket /\ l.in = After(k.in, n) /\ l.out = k.out /\ l.peer = k.peer
      BY <1>4, <2>2 DEF Socket
    <2>6. [s EXCEPT !.buf[x] = @ \o First(k.in, n)] = r
      BY Zenon DEF WithBuffer
    <2>7. IoStep(c, [r EXCEPT !.ec = IF HasLine(r.buf[x]) THEN "success" ELSE @], x, l)
      BY <1>5, <2>6, Zenon
    <2> HIDE DEF l
    <2>8. IoStep(c, t, x, l)
      BY <1>2, <2>4, <2>7, Zenon DEF Progress
    <2> HIDE DEF ec
    <2>9. /\ LooksLike(t, s.open, s.op, ec, s.wait, r.buf)
      BY <1>1, <1>3, <2>3, ProgressFacts
    <2>10. \A y \in {"client", "server"} : y # x => r.buf[y] = s.buf[y]
      <3> HIDE DEF a, x, s
      <3> QED BY <1>1, <1>3, <2>3, BufferFacts
    <2>11. ASSUME x = "server"
           PROVE  l.peer # "none" /\ InTurn(s.op, ec, a, l)
      <3>1. s.op = "handleReadResponse" /\ k = sock[c].server
        BY <1>2, <2>11 DEF Side
      <3>2. k.in # <<>> \/ s.buf[x] # <<>>
        <4>1. k.in = <<>> /\ s.buf[x] = <<>> => ReadSize(s.buf[x], k.in) = {}
          BY DEF ReadSize, HasLine
        <4> QED BY <4>1
      <3>3. Answered(s.buf[x], k)
        BY <1>3, <2>11, <3>1, <3>2 DEF InTurn, Asking, Unanswered
      <3>4. a \o l.in = s.buf[x] \o k.in
        BY <1>4, <2>1, <2>5, Recut, ZenonT(60)
      <3>5. Answered(a, l)
        BY <2>5, <3>3, <3>4, Zenon DEF Answered
      <3> HIDE DEF a
      <3> QED BY <1>3, <2>5, <2>11, <3>1, <3>5 DEF InTurn
    <2> HIDE DEF a
    <2>12. Joined(t, [sock[c] EXCEPT ![x] = l])
      <3>1. ec = "success" => HasLine(r.buf[x])
        BY <2>4 DEF ec
      <3> HIDE DEF t, r, k
      <3> QED BY <1>1, <1>2, <2>3, <2>4, <2>5, <2>9, <2>10, <2>11, <3>1, SideFacts
    <2> HIDE DEF t
    <2>13. /\ t \in Connection /\ t.ec # "none"
           /\ t.open = s.open /\ t.op = s.op /\ t.wait = s.wait
      BY <2>3, <2>9 DEF LooksLike
    <2> QED BY <1>2, <1>3, <2>5, <2>8, <2>12, <2>13, IoStepInv
  <1>6. CASE k.peer # "open" /\ IoStep(c, [s EXCEPT !.ec = IF k.peer = "fin" THEN "eof" ELSE "failed"], x, k)
    BY <1>2, <1>6, EndedInv
  <1> QED BY <1>5, <1>6 DEF async_read_until

\* The buffer is written, to an end that is there or to one that has left.
LEMMA WriteInv ==
    ASSUME ProxyInv, NEW c \in Conn, async_write(c)
    PROVE  ProxyInv'
  <1> DEFINE s == conn[c]
             x == Side(s.op)
             k == sock[c][x]
             Wrote(n) == [s EXCEPT !.buf[x] = After(@, n),
                                   !.ec = IF n = Len(s.buf[x]) THEN "success" ELSE @]
  <1>1. s \in Connection /\ sock[c] \in Sockets /\ Joined(s, sock[c])
    BY TypeFacts DEF ProxyInv
  <1>2. s.op \in {"handleWriteRequest", "handleWriteResponse"} /\ s.ec = "pending"
    BY DEF async_write
  <1>3. /\ x \in {"client", "server"} /\ sock[c].server.peer # "none"
        /\ InTurn(s.op, "pending", s.buf.server, sock[c].server)
    BY <1>1, <1>2, PendingFacts
  <1>4. /\ k \in Socket /\ k.in \in Seq(Word) /\ k.out \in Seq(Word) /\ s.buf[x] \in Seq(Word)
    BY <1>1, <1>3, Fields DEF Sockets, Socket
  <1>5. ASSUME NEW n \in 1 .. Len(s.buf[x]), NEW l \in Socket, IoStep(c, Wrote(n), x, l),
               l.in = k.in,
               \/ k.peer = "open" /\ l.peer = "open" /\ l.out = k.out \o First(s.buf[x], n)
               \/ k.peer = "fin" /\ l.peer \in {"fin", "rst"} /\ l.out = k.out
        PROVE  ProxyInv'
    <2> DEFINE a == After(s.buf[x], n)
               ec == IF n = Len(s.buf[x]) THEN "success" ELSE "pending"
               r == WithBuffer(s, x, a)
               t == Progress(s, x, a, ec)
    <2>1. Len(s.buf[x]) \in Nat /\ n \in 0 .. Len(s.buf[x])
      BY <1>4, LenProperties
    <2>2. a \in Seq(Word) /\ Len(a) = Len(s.buf[x]) - n
      BY <1>4, <2>1, CutFacts
    <2>3. ec \in ErrorCode \ {"none"} /\ ec \in ErrorCode
      BY DEF ErrorCode
    <2>4. ec = "success" => a = <<>>
      BY <2>1, <2>2, EmptySeq
    <2>5. r.buf[x] = a /\ r.ec = s.ec
      BY <1>1, <1>3, <2>2, BufferFacts DEF SameState
    <2>6. Wrote(n) = t
      BY <1>2, <2>5, Zenon DEF Progress, WithBuffer
    <2> HIDE DEF ec
    <2>7. LooksLike(t, s.open, s.op, ec, s.wait, r.buf)
      BY <1>1, <1>3, <2>2, <2>3, ProgressFacts
    <2>8. \A y \in {"client", "server"} : y # x => r.buf[y] = s.buf[y]
      <3> HIDE DEF a, x, s
      <3> QED BY <1>1, <1>3, <2>2, BufferFacts, SMTT(30)
    <2>9. ASSUME x = "server"
          PROVE  l.peer # "none" /\ InTurn(s.op, ec, a, l)
      <3>1. s.op = "handleWriteRequest" /\ k = sock[c].server
        BY <1>2, <2>9 DEF Side
      <3>2. s.buf[x] # <<>>
        BY <2>1
      <3>3. Asking(s.buf[x], k) \/ Unanswered(k)
        BY <1>3, <2>9, <3>1, <3>2 DEF InTurn
      <3>4. k.peer # "open" => k.out = <<>>
        BY <1>3, <3>1 DEF InTurn
      <3>5. CASE k.peer = "open"
        <4>1. l.peer = "open" /\ l.out = k.out \o First(s.buf[x], n) /\ Asking(s.buf[x], k)
          BY <1>5, <3>3, <3>5 DEF Unanswered
        <4>2. l.out \o a = k.out \o s.buf[x]
          BY <1>4, <2>1, <4>1, Recut
        <4>3. Asking(a, l)
          BY <1>5, <4>1, <4>2, Zenon DEF Asking
        <4> HIDE DEF a
        <4> QED BY <2>4, <3>1, <4>1, <4>3, SMTT(30) DEF InTurn
      <3>6. CASE k.peer = "fin"
        <4>1. l.peer \in {"fin", "rst"} /\ l.out = <<>> /\ l.in = <<>>
          BY <1>5, <3>3, <3>4, <3>6 DEF Asking, Unanswered
        <4> HIDE DEF a
        <4> QED BY <2>4, <3>1, <4>1 DEF InTurn, Unanswered
      <3> QED BY <1>5, <3>5, <3>6
    <2> HIDE DEF a
    <2>10. Joined(t, [sock[c] EXCEPT ![x] = l])
      <3> HIDE DEF t, r, k
      <3> QED BY <1>1, <1>2, <1>5, <2>3, <2>5, <2>7, <2>8, <2>9, SideFacts
    <2>11. IoStep(c, t, x, l)
      BY <1>5, <2>6, Zenon
    <2> HIDE DEF t
    <2>12. /\ t \in Connection /\ t.ec # "none"
           /\ t.open = s.open /\ t.op = s.op /\ t.wait = s.wait
      BY <2>3, <2>7 DEF LooksLike
    <2> QED BY <1>2, <1>3, <2>10, <2>11, <2>12, IoStepInv
  <1>6. ASSUME NEW n \in 1 .. Len(s.buf[x]), k.peer = "open",
               IoStep(c, Wrote(n), x, [k EXCEPT !.out = @ \o First(s.buf[x], n)])
        PROVE  ProxyInv'
    <2> DEFINE l == [k EXCEPT !.out = k.out \o First(s.buf[x], n)]
    <2>1. n \in 0 .. Len(s.buf[x])
      BY <1>4, LenProperties
    <2>2. k.out \o First(s.buf[x], n) \in Seq(Word)
      BY <1>4, <2>1, CutFacts, ConcatProperties, SMTT(30)
    <2>3. /\ l \in Socket /\ l.in = k.in /\ l.peer = k.peer
          /\ l.out = k.out \o First(s.buf[x], n)
      BY <1>4, <2>2 DEF Socket
    <2>4. IoStep(c, Wrote(n), x, l)
      BY <1>6, Zenon
    <2> HIDE DEF l, Wrote, k, x, s
    <2> QED BY <1>5, <1>6, <2>3, <2>4
  <1>7. ASSUME NEW n \in 1 .. Len(s.buf[x]), k.peer = "fin", NEW p \in {"fin", "rst"},
               IoStep(c, Wrote(n), x, [k EXCEPT !.peer = p])
        PROVE  ProxyInv'
    <2> DEFINE l == [k EXCEPT !.peer = p]
    <2>1. l \in Socket /\ l.in = k.in /\ l.peer = p /\ l.out = k.out
      BY <1>4 DEF Socket
    <2>2. IoStep(c, Wrote(n), x, l)
      BY <1>7, Zenon
    <2> HIDE DEF l, Wrote, k, x, s
    <2> QED BY <1>5, <1>7, <2>1, <2>2
  <1>8. CASE k.peer = "rst" /\ IoStep(c, [s EXCEPT !.ec = "failed"], x, k)
    BY <1>2, <1>8, EndedInv
  <1> QED BY <1>6, <1>7, <1>8 DEF async_write

LEMMA TimerInv ==
    ASSUME ProxyInv, NEW c \in Conn, TimerExpires(c)
    PROVE  ProxyInv'
  <1> DEFINE s == conn[c]
             t == [s EXCEPT !.wait = "success"]
  <1>1. s \in Connection /\ sock[c] \in Sockets /\ Joined(s, sock[c])
    BY TypeFacts DEF ProxyInv
  <1>2. /\ s.wait = "pending" /\ Becomes(c, t, queue, NoConnection)
        /\ UNCHANGED <<running, chain, spare, sock, says, backlog>>
    BY DEF TimerExpires
  <1>3. LooksLike(t, s.open, s.op, s.ec, "success", s.buf)
    BY <1>1 DEF LooksLike, Connection, ErrorCode
  <1>4. Joined(t, sock[c])
    BY <1>1, <1>2, <1>3 DEF LooksLike, Joined, Kept
  <1> HIDE DEF t
  <1>5. GoesOn(s.ec, t.ec) /\ GoesOn(s.wait, t.wait)
    BY <1>2, <1>3 DEF GoesOn, LooksLike
  <1>6. (Released(t) => t.ec = "none") /\ NoConnection.ec = "none" /\ NoConnection.wait = "none"
    BY <1>4, KeptReleased DEF Joined, NoConnection
  <1>7. QueueFollows(Handlers, c)
    <2>1. InStep(c) /\ Distinct(queue)
      BY DEF ProxyInv
    <2> QED BY <1>2, <1>5, <1>6, <2>1, TypeFacts, HandlersFacts, CompletedFacts
  <1>8. conn[c] # NoConnection
    BY <1>2 DEF NoConnection
  <1>9. /\ conn' = [conn EXCEPT ![c] = IF Released(t) THEN NoConnection ELSE t]
        /\ sock' = [sock EXCEPT ![c] = sock[c]] /\ t \in Connection
    BY <1>2, <1>3, TypeFacts DEF Becomes, LooksLike
  <1> QED BY <1>1, <1>2, <1>4, <1>7, <1>8, <1>9, TypeFacts, ConnectionStep

\* Time passes for the timers of the proxy and of the server.
LEMMA TickInv ==
    ASSUME ProxyInv, Tick
    PROVE  ProxyInv'
  <1>1. /\ conn' = [c \in Conn |-> Sooner(conn[c])]
        /\ sock' = [c \in Conn |-> [sock[c] EXCEPT !.server = Sooner(@)]]
        /\ spare' = Sooner(spare)
        /\ UNCHANGED <<running, queue, chain, says, backlog>>
    BY DEF Tick
  <1>2. \A k \in Socket : /\ Sooner(k) \in Socket /\ Sooner(k).in = k.in /\ Sooner(k).out = k.out
                          /\ Sooner(k).peer = k.peer
    BY DEF Sooner, Socket
  <1>3. ASSUME NEW s \in Connection
        PROVE  LooksLike(Sooner(s), s.open, s.op, s.ec, s.wait, s.buf)
    BY DEF LooksLike, Sooner, Connection
  <1>4. Sooner(NoSocket) = NoSocket /\ Sooner(NoConnection) = NoConnection
    BY DEF Sooner, NoSocket, NoConnection
  <1>5. ASSUME NEW c \in Conn
        PROVE  /\ conn'[c] \in Connection /\ sock'[c] \in Sockets
               /\ InStep(c)' /\ Joined(conn'[c], sock'[c])
               /\ sock'[c].client = sock[c].client
               /\ conn[c] = NoConnection => conn'[c] = NoConnection
    <2> DEFINE s == conn[c]
               k == sock[c]
    <2>1. s \in Connection /\ k \in Sockets /\ Joined(s, k) /\ InStep(c)
      BY TypeFacts DEF ProxyInv
    <2>2. LooksLike(conn'[c], s.open, s.op, s.ec, s.wait, s.buf)
      BY <1>1, <1>3, <2>1
    <2>3. /\ sock'[c] \in Sockets /\ sock'[c].client = k.client
          /\ sock'[c].server = Sooner(k.server) /\ k.server \in Socket
      BY <1>1, <1>2, <2>1 DEF Sockets
    <2>4. InStep(c)'
      BY <1>1, <2>1, <2>2 DEF InStep, LooksLike
    <2>5. Joined(conn'[c], sock'[c])
      <3>1. Kept(conn'[c])
        BY <2>1, <2>2 DEF Joined, Kept, LooksLike
      <3>2. InTurn(s.op, s.ec, s.buf.server, k.server) =>
              InTurn(s.op, s.ec, s.buf.server, Sooner(k.server))
        BY <1>2, <2>3 DEF InTurn, Quiet, Asking, Answered, Unanswered
      <3> QED BY <1>2, <1>4, <2>1, <2>2, <2>3, <3>1, <3>2 DEF Joined, LooksLike
    <2>6. conn[c] = NoConnection => conn'[c] = NoConnection
      BY <1>1, <1>4
    <2> QED BY <2>2, <2>3, <2>4, <2>5, <2>6 DEF LooksLike
  <1>6. TypeOK'
    <2>1. conn' \in [Conn -> Connection] /\ sock' \in [Conn -> Sockets]
      BY <1>1, <1>5
    <2>2. spare' \in Socket
      BY <1>1, <1>2, TypeFacts
    <2> QED BY <1>1, <2>1, <2>2, TypeFacts DEF TypeOK, Handlers, Sockets
  <1>7. ChainInv'
    BY <1>1, <1>2, TypeFacts DEF ProxyInv, ChainInv
  <1>8. BacklogInv' /\ Distinct(queue')
    BY <1>1, <1>5 DEF ProxyInv, BacklogInv
  <1> QED BY <1>5, <1>6, <1>7, <1>8 DEF ProxyInv

-----------------------------------------------------------------------------
\* A step of the server or of a client, which changes a socket only.
LEMMA SocketStep ==
    ASSUME ProxyInv, UNCHANGED <<running, queue, chain, conn, spare>>, NEW c \in Conn,
           NEW k \in Sockets, sock' = [sock EXCEPT ![c] = k], Joined(conn[c], k),
           says' \in [Conn -> [said : Seq(Seq(Word)), todo : Seq(Seq(Word))]],
           \/ backlog' = backlog /\ (k.client.peer = "none" => sock[c].client.peer = "none")
           \/ /\ sock[c].client.peer = "none" /\ conn[c] = NoConnection
              /\ backlog' = Append(backlog, c) /\ k.client.peer # "none"
    PROVE  ProxyInv'
  <1>1. /\ sock' \in [Conn -> Sockets] /\ sock'[c] = k
        /\ \A d \in Conn : d # c => sock'[d] = sock[d]
    BY TypeFacts
  <1>2. \A d \in Conn : InStep(d)' /\ Joined(conn'[d], sock'[d])
    BY <1>1 DEF ProxyInv, InStep
  <1>3. BacklogInv' /\ backlog' \in Seq(Conn) /\ (backlog # <<>> => backlog' # <<>>)
    <2>1. CASE backlog' = backlog /\ (k.client.peer = "none" => sock[c].client.peer = "none")
      BY <1>1, <2>1, TypeFacts DEF ProxyInv, BacklogInv
    <2>2. CASE /\ sock[c].client.peer = "none" /\ conn[c] = NoConnection
               /\ backlog' = Append(backlog, c) /\ k.client.peer # "none"
      <3>1. ~Holds(backlog, c) /\ Distinct(backlog)
        BY <2>2 DEF ProxyInv, BacklogInv
      <3>2. /\ backlog' \in Seq(Conn) /\ Distinct(backlog') /\ backlog' # <<>>
            /\ \A d : Holds(backlog', d) <=> Holds(backlog, d) \/ d = c
        BY <2>2, <3>1, TypeFacts, Pushed
      <3> QED BY <1>1, <2>2, <3>2 DEF ProxyInv, BacklogInv
    <2> QED BY <2>1, <2>2
  <1>4. TypeOK'
    BY <1>1, <1>3, TypeFacts DEF TypeOK, Handlers, Sockets
  <1>5. ChainInv' /\ Distinct(queue')
    BY <1>3 DEF ProxyInv, ChainInv
  <1> QED BY <1>2, <1>3, <1>4, <1>5 DEF ProxyInv

\* The server has a connection's request and answers it with one line, l.
Answers(s, k, l) ==
    /\ s.open /\ s.op \in {"handleWriteRequest", "handleReadResponse"} /\ s.buf.server = <<>>
    /\ k.in = <<>> /\ k.out \in Seq(Word) /\ k.out # <<>>
    /\ StartsWith(k.out, CLIENT_REQUEST_TYPE) /\ FindZodiac(Tail(k.out))
    /\ l \in Socket /\ l.out = <<>> /\ l.in = Horoscope[k.out[2]] /\ l.peer = "open"
    /\ OneLine(l.in)

LEMMA AnswerFacts ==
    ASSUME ProxyInv, NEW c \in Conn, Answer(c)
    PROVE  /\ UNCHANGED <<running, queue, chain, spare, conn, says, backlog>>
           /\ \E l \in Socket :
                 /\ Answers(conn[c], sock[c].server, l)
                 /\ sock' = [sock EXCEPT ![c] = [sock[c] EXCEPT !.server = l]]
  <1> DEFINE s == conn[c]
             k == sock[c].server
  <1>1. s \in Connection /\ sock[c] \in Sockets /\ Joined(s, sock[c])
    BY TypeFacts DEF ProxyInv
  <1>2. PICK n \in 1 .. Len(k.out) :
          /\ k.peer = "open" /\ IsLine(k.out, n)
          /\ StartsWith(k.out, CLIENT_REQUEST_TYPE) /\ FindZodiac(Tail(k.out))
          /\ sock' = [sock EXCEPT ![c].server =
                         [k EXCEPT !.out = After(@, n), !.in = @ \o Horoscope[k.out[2]],
                                   !.left = ReadRequestTimeout]]
    BY DEF Answer
  <1>3. UNCHANGED <<running, queue, chain, spare, conn, says, backlog>>
    BY DEF Answer
  <1>4. /\ k \in Socket /\ k.out \in Seq(Word) /\ k.in \in Seq(Word) /\ k.out # <<>>
        /\ s.buf.server \in Seq(Word) /\ Len(k.out) \in Nat
    <2>1. k \in Socket /\ s.buf.server \in Seq(Word)
      BY <1>1, Fields DEF Sockets
    <2>2. k.out \in Seq(Word) /\ k.in \in Seq(Word)
      BY <2>1 DEF Socket
    <2>3. k.out # <<>> /\ Len(k.out) \in Nat
      BY <1>2, <2>2, LenProperties DEF StartsWith
    <2> QED BY <2>1, <2>2, <2>3
  <1>5. s.open /\ s.op \in {"handleWriteRequest", "handleReadResponse"}
        /\ Asking(s.buf.server, k)
    <2>1. s.open
      BY <1>1, <1>2 DEF Joined, NoSocket
    <2>2. s.op \in Handler /\ InTurn(s.op, s.ec, s.buf.server, k)
      BY <1>1, <2>1, Fields DEF Joined, Kept
    <2> QED BY <1>4, <2>1, <2>2 DEF InTurn, Quiet, Answered, Unanswered, Handler
  <1>6. s.buf.server = <<>> /\ n = Len(k.out) /\ k.in = <<>>
    <2>1. IsLine(k.out \o s.buf.server, Len(k.out \o s.buf.server)) /\ k.in = <<>>
      BY <1>5 DEF Asking, OneLine
    <2>2. k.out[n] = DELIMITER
      BY <1>2 DEF IsLine
    <2> HIDE DEF k, s
    <2> QED BY <1>2, <1>4, <2>1, <2>2, PartOfLine
  <1> DEFINE h == Horoscope[k.out[2]]
             l == [k EXCEPT !.out = After(k.out, n), !.in = k.in \o h, !.left = ReadRequestTimeout]
  <1>7. h \in Seq(Word) /\ OneLine(h)
    <2>1. k.out[2] \in Zodiac
      BY <1>2, <1>4, ZodiacFacts
    <2> QED BY <2>1, BoostProxyAssumption DEF OneLine
  <1>8. After(k.out, n) = <<>> /\ k.in \o h = h
    <2>1. n \in 0 .. Len(k.out)
      BY <1>4, <1>6
    <2>2. After(k.out, n) \in Seq(Word) /\ Len(After(k.out, n)) = Len(k.out) - n
      BY <1>4, <2>1, CutFacts
    <2>3. Len(After(k.out, n)) = 0
      BY <1>4, <1>6, <2>2
    <2> HIDE DEF h
    <2> QED BY <1>6, <1>7, <2>2, <2>3, EmptySeq, ConcatEmptySeq
  <1> HIDE DEF h
  <1>9. l \in Socket /\ l.out = <<>> /\ l.in = h /\ l.peer = "open"
    <2> DEFINE e == After(k.out, n)
               f == k.in \o h
               g == [k EXCEPT !.out = e, !.in = f, !.left = ReadRequestTimeout]
    <2>1. e = <<>> /\ f = h /\ e \in Seq(Word) /\ f \in Seq(Word) /\ l = g
      BY <1>7, <1>8
    <2> HIDE DEF e, f, l
    <2>2. g \in Socket /\ g.out = e /\ g.in = f /\ g.peer = k.peer
      BY <1>4, <2>1, TimeoutFacts DEF Socket
    <2> HIDE DEF g
    <2> QED BY <1>2, <2>1, <2>2
  <1> HIDE DEF l
  <1>10. sock' = [sock EXCEPT ![c] = [sock[c] EXCEPT !.server = l]]
    BY <1>2, TypeFacts DEF l, h
  <1>11. Answers(s, k, l)
    BY <1>2, <1>4, <1>5, <1>6, <1>7, <1>9 DEF Answers, h
  <1> QED BY <1>3, <1>9, <1>10, <1>11

LEMMA AnswerInv ==
    ASSUME ProxyInv, NEW c \in Conn, Answer(c)
    PROVE  ProxyInv'
  <1> DEFINE s == conn[c]
  <1>1. s \in Connection /\ sock[c] \in Sockets /\ Joined(s, sock[c])
    BY TypeFacts DEF ProxyInv
  <1>2. PICK l \in Socket : /\ Answers(s, sock[c].server, l)
                            /\ sock' = [sock EXCEPT ![c] = [sock[c] EXCEPT !.server = l]]
    BY AnswerFacts
  <1>3. UNCHANGED <<running, queue, chain, spare, conn, says, backlog>>
    BY AnswerFacts
  <1> DEFINE j == [sock[c] EXCEPT !.server = l]
  <1>4. j \in Sockets /\ j.server = l /\ j.client = sock[c].client
    BY <1>1 DEF Sockets
  <1>5. /\ s.open /\ s.op \in {"handleWriteRequest", "handleReadResponse"} /\ s.buf.server = <<>>
        /\ l.out = <<>> /\ l.in \in Seq(Word) /\ l.peer = "open" /\ OneLine(l.in)
    BY <1>2 DEF Answers, Socket
  <1> HIDE DEF j
  <1>6. Joined(s, j)
    <2>1. s.buf.server \o l.in = l.in
      BY <1>5, ConcatEmptySeq
    <2>2. Answered(s.buf.server, l)
      BY <1>5, <2>1, Zenon DEF Answered
    <2>3. InTurn(s.op, s.ec, s.buf.server, l)
      BY <1>5, <2>2 DEF InTurn
    <2> QED BY <1>1, <1>4, <1>5, <2>3 DEF Joined
  <1> QED BY <1>2, <1>3, <1>4, <1>6, TypeFacts, SocketStep DEF j

\* The server goes, and what it was asked is lost with it.
LEMMA DropsInv ==
    ASSUME ProxyInv, ServerDrops
    PROVE  ProxyInv'
  <1>1. UNCHANGED <<running, queue, chain, conn, says, backlog>>
    BY DEF ServerDrops
  <1>2. ASSUME NEW k \in Socket, NEW p \in {"fin", "rst"}
        PROVE  /\ Lost(k, p) \in Socket /\ Lost(k, p).out = <<>> /\ Lost(k, p).in = k.in
               /\ Lost(k, p).peer = p
    <2> DEFINE e == <<>>
               z == 0
               l == [k EXCEPT !.out = e, !.peer = p, !.left = z]
    <2>1. e \in Seq(Word) /\ z \in Nat /\ Lost(k, p) = l
      BY DEF Lost
    <2> HIDE DEF e, z
    <2>2. l \in Socket /\ l.out = e /\ l.in = k.in /\ l.peer = p
      BY <2>1 DEF Socket
    <2> HIDE DEF l
    <2> QED BY <2>1, <2>2 DEF e
  <1>3. ASSUME NEW p \in {"fin", "rst"}, spare' = Lost(spare, p), UNCHANGED sock
        PROVE  ProxyInv'
    <2>1. spare' \in Socket /\ spare'.in = <<>> /\ spare'.out = <<>> /\ spare'.peer # "none"
      BY <1>2, <1>3, TypeFacts DEF ProxyInv, ChainInv
    <2>2. ChainInv' /\ Distinct(queue') /\ \A c \in Conn : InStep(c)'
      BY <1>1, <2>1 DEF ProxyInv, ChainInv, InStep
    <2> QED BY <1>1, <1>3, <2>1, <2>2, TypeFacts, ChainStep
  <1>4. ASSUME NEW p \in {"fin", "rst"}, NEW c \in Conn, MayDrop(sock[c].server),
               sock' = [sock EXCEPT ![c].server = Lost(@, p)], UNCHANGED spare
        PROVE  ProxyInv'
    <2> DEFINE s == conn[c]
               k == sock[c].server
               l == Lost(k, p)
               j == [sock[c] EXCEPT !.server = l]
    <2>1. s \in Connection /\ sock[c] \in Sockets /\ Joined(s, sock[c]) /\ k.peer = "open"
      BY <1>4, TypeFacts DEF ProxyInv, MayDrop
    <2>2. l \in Socket /\ l.out = <<>> /\ l.in = k.in /\ l.peer = p
      BY <1>2, <2>1 DEF Sockets
    <2>3. s.open
      BY <2>1 DEF Joined, NoSocket
    <2>4. InTurn(s.op, s.ec, s.buf.server, k)
      BY <2>1, <2>3 DEF Joined
    <2> HIDE DEF l
    <2>5. sock' = [sock EXCEPT ![c] = j]
      BY <1>4, TypeFacts DEF l
    <2>6. j \in Sockets /\ j.server = l /\ j.client = sock[c].client
      BY <2>1, <2>2 DEF Sockets
    <2> HIDE DEF j
    <2>7. InTurn(s.op, s.ec, s.buf.server, l)
      BY <2>2, <2>4 DEF InTurn, Quiet, Asking, Answered, Unanswered
    <2>8. Joined(s, j)
      BY <2>1, <2>2, <2>3, <2>6, <2>7 DEF Joined
    <2> QED BY <1>1, <1>4, <2>5, <2>6, <2>8, TypeFacts, SocketStep
  <1> QED BY <1>3, <1>4 DEF ServerDrops

\* A client comes, speaks or leaves; nothing of this touches the server's side.
LEMMA ClientInv ==
    ASSUME ProxyInv, NEW c \in Conn, Client(c)
    PROVE  ProxyInv'
  <1> DEFINE k == sock[c].client
             Says == [said : Seq(Seq(Word)), todo : Seq(Seq(Word))]
  <1>1. /\ conn[c] \in Connection /\ sock[c] \in Sockets /\ Joined(conn[c], sock[c])
        /\ says[c] \in Says
    BY TypeFacts DEF ProxyInv
  <1>2. k \in Socket /\ k.in \in Seq(Word)
    BY <1>1 DEF Sockets, Socket
  <1>3. ASSUME NEW l \in Socket
        PROVE  LET j == [sock[c] EXCEPT !.client = l] IN
               j \in Sockets /\ j.client = l /\ Joined(conn[c], j)
    <2> DEFINE j == [sock[c] EXCEPT !.client = l]
    <2>1. j \in Sockets /\ j.client = l /\ j.server = sock[c].server
      BY <1>1 DEF Sockets
    <2> HIDE DEF j
    <2>2. Joined(conn[c], j)
      BY <1>1, <2>1 DEF Joined
    <2> QED BY <2>1, <2>2 DEF j
  <1>4. ASSUME NEW s \in Streams, Connect(c, s)
        PROVE  ProxyInv'
    <2> DEFINE l == [NoSocket EXCEPT !.in = Head(s), !.peer = "open"]
               j == [sock[c] EXCEPT !.client = l]
               w == [said |-> <<Head(s)>>, todo |-> Tail(s)]
    <2>1. s \in Seq(Seq(Word)) /\ s # <<>>
      BY BoostProxyAssumption
    <2>2. Head(s) \in Seq(Word) /\ Tail(s) \in Seq(Seq(Word))
      BY <2>1, HeadTailProperties
    <2>3. l \in Socket /\ l.peer = "open"
      BY <2>2, NoConnectionFacts DEF Socket
    <2>4. w \in Says
      BY <2>2
    <2>5. /\ k.peer = "none" /\ conn[c] = NoConnection
          /\ sock' = [sock EXCEPT ![c].client = l] /\ says' = [says EXCEPT ![c] = w]
          /\ backlog' = Append(backlog, c)
          /\ UNCHANGED <<running, queue, chain, spare, conn>>
      BY <1>4 DEF Connect
    <2> HIDE DEF l, w
    <2>6. sock' = [sock EXCEPT ![c] = j] /\ says' \in [Conn -> Says]
      BY <2>4, <2>5, TypeFacts
    <2>7. j \in Sockets /\ j.client = l /\ Joined(conn[c], j)
      BY <1>3, <2>3
    <2> HIDE DEF j
    <2>8. j.client.peer # "none"
      BY <2>3, <2>7
    <2> QED BY <2>5, <2>6, <2>7, <2>8, SocketStep
  <1>5. ASSUME SendNext(c)
        PROVE  ProxyInv'
    <2> DEFINE q == says[c]
               l == [k EXCEPT !.in = k.in \o Head(q.todo)]
               j == [sock[c] EXCEPT !.client = l]
               w == [said |-> Append(q.said, Head(q.todo)), todo |-> Tail(q.todo)]
    <2>1. /\ q.todo # <<>> /\ UNCHANGED <<running, queue, chain, spare, conn, backlog>>
          /\ sock' = [sock EXCEPT ![c].client.in = @ \o Head(q.todo)]
          /\ says' = [says EXCEPT ![c] = w]
      BY <1>5, TypeFacts DEF SendNext
    <2>2. q.said \in Seq(Seq(Word)) /\ q.todo \in Seq(Seq(Word))
      BY <1>1
    <2>3. Head(q.todo) \in Seq(Word) /\ Tail(q.todo) \in Seq(Seq(Word))
      BY <2>1, <2>2, HeadTailProperties
    <2>4. w \in Says
      BY <2>2, <2>3, AppendProperties
    <2>5. k.in \o Head(q.todo) \in Seq(Word)
      BY <1>2, <2>3, ConcatProperties
    <2>6. l \in Socket /\ l.peer = k.peer
      <3> DEFINE e == k.in \o Head(q.todo)
                 f == [k EXCEPT !.in = e]
      <3> HIDE DEF e
      <3>1. f \in Socket /\ f.peer = k.peer
        BY <1>2, <2>5 DEF Socket, e
      <3> QED BY <3>1 DEF e
    <2> HIDE DEF w
    <2>7. sock' = [sock EXCEPT ![c] = j] /\ says' \in [Conn -> Says]
      BY <2>1, <2>4, TypeFacts
    <2> HIDE DEF l
    <2>8. j \in Sockets /\ j.client = l /\ Joined(conn[c], j)
      BY <1>3, <2>6
    <2> HIDE DEF j
    <2> QED BY <2>1, <2>6, <2>7, <2>8, SocketStep
  <1>6. ASSUME NEW arrives \in BOOLEAN, ClientClose(c, arrives)
        PROVE  ProxyInv'
    <2> DEFINE e == IF arrives THEN k.in ELSE <<>>
               l == [k EXCEPT !.in = e, !.peer = "fin"]
               j == [sock[c] EXCEPT !.client = l]
    <2>1. e \in Seq(Word)
      BY <1>2
    <2>2. UNCHANGED <<running, queue, chain, spare, conn, says, backlog>>
      BY <1>6 DEF ClientClose
    <2>3. sock' = [sock EXCEPT ![c] = j]
      BY <1>6, TypeFacts DEF ClientClose
    <2> HIDE DEF e
    <2>4. l \in Socket /\ l.peer = "fin"
      BY <1>2, <2>1 DEF Socket
    <2> HIDE DEF l
    <2>5. j \in Sockets /\ j.client = l /\ Joined(conn[c], j)
      BY <1>3, <2>4
    <2> HIDE DEF j
    <2> QED BY <2>2, <2>3, <2>4, <2>5, TypeFacts, SocketStep
  <1> QED BY <1>4, <1>5, <1>6 DEF Client

-----------------------------------------------------------------------------
LEMMA InitInv == Init => ProxyInv
  <1> SUFFICES ASSUME Init PROVE ProxyInv
    OBVIOUS
  <1>1. /\ running = TRUE /\ queue = <<>> /\ chain = [op |-> "handleResolve", ec |-> "pending"]
        /\ spare = NoSocket /\ backlog = <<>>
        /\ conn = [c \in Conn |-> NoConnection] /\ sock = [c \in Conn |-> NoSockets]
        /\ says = [c \in Conn |-> Nothing]
    BY DEF Init
  <1>2. TypeOK
    <2>1. Nothing \in [said : Seq(Seq(Word)), todo : Seq(Seq(Word))]
      BY DEF Nothing
    <2>2. says \in [Conn -> [said : Seq(Seq(Word)), todo : Seq(Seq(Word))]]
      BY <1>1, <2>1
    <2>3. conn \in [Conn -> Connection] /\ sock \in [Conn -> Sockets] /\ spare \in Socket
      BY <1>1, NoConnectionFacts
    <2>4. chain \in Chain
      BY <1>1 DEF Chain, ErrorCode
    <2> QED BY <1>1, <2>2, <2>3, <2>4 DEF TypeOK, Sockets
  <1>3. \A c \in Conn : InStep(c)
    BY <1>1 DEF InStep, Holds, Over, NoConnection
  <1>4. \A c \in Conn : Joined(conn[c], sock[c])
    BY <1>1, NoConnectionFacts DEF Joined, NoConnection, NoSockets
  <1>5. ChainInv
    BY <1>1 DEF ChainInv, Holds, Over, NoSocket
  <1>6. BacklogInv /\ Distinct(queue)
    BY <1>1 DEF BacklogInv, Holds, Distinct
  <1> QED BY <1>2, <1>3, <1>4, <1>5, <1>6 DEF ProxyInv

LEMMA NextInv == ProxyInv /\ [Next]_vars => ProxyInv'
  <1> SUFFICES ASSUME ProxyInv, [Next]_vars
               PROVE  ProxyInv'
    OBVIOUS
  <1>1. CASE handleResolve
    BY <1>1, ResolveInv
  <1>2. CASE handleConnect
    BY <1>2, ConnectedInv
  <1>3. CASE handleAccept
    BY <1>3, AcceptInv
  <1>4. CASE Exit
    BY <1>4, ExitInv
  <1>5. ASSUME NEW c \in Conn, RunHandler(c) PROVE ProxyInv'
    BY <1>5, RunHandlerInv
  <1>6. CASE Tick
    BY <1>6, TickInv
  <1>7. CASE ServerDrops
    BY <1>7, DropsInv
  <1>8. ASSUME NEW ec \in {"success", "failed"}, ChainOperation(ec) PROVE ProxyInv'
    BY <1>8, ChainOperationInv
  <1>9. ASSUME NEW c \in Conn, async_read_until(c) PROVE ProxyInv'
    BY <1>9, ReadInv
  <1>10. ASSUME NEW c \in Conn, async_write(c) PROVE ProxyInv'
    BY <1>10, WriteInv
  <1>11. ASSUME NEW c \in Conn, TimerExpires(c) PROVE ProxyInv'
    BY <1>11, TimerInv
  <1>12. ASSUME NEW c \in Conn, Answer(c) PROVE ProxyInv'
    BY <1>12, AnswerInv
  <1>13. ASSUME NEW c \in Conn, Client(c) PROVE ProxyInv'
    BY <1>13, ClientInv
  <1>14. CASE UNCHANGED vars
    <2>1. UNCHANGED <<running, queue, chain, spare, conn, sock, says, backlog>>
      BY <1>14 DEF vars
    <2>2. ChainInv' /\ Distinct(queue') /\ \A c \in Conn : InStep(c)'
      BY <2>1 DEF ProxyInv, ChainInv, InStep
    <2> QED BY <2>1, <2>2, TypeFacts, ChainStep
  <1>15. CASE Ended
    BY <1>14, <1>15 DEF Ended
  <1> QED BY <1>1, <1>2, <1>3, <1>4, <1>5, <1>6, <1>7, <1>8, <1>9, <1>10, <1>11, <1>12, <1>13,
             <1>14, <1>15 DEF Next, run

\* The invariant that the proofs below rest on.
THEOREM ProxyInvariant == Spec => []ProxyInv
  BY InitInv, NextInv, PTL DEF Spec

\* Every variable has its type: a buffer never holds anything but words, and
\* the queue nothing but the handlers of proxy.cpp.
THEOREM TypeCorrect == Spec => []TypeOK
  <1>1. ProxyInv => TypeOK
    BY DEF ProxyInv
  <1> QED BY <1>1, ProxyInvariant, PTL

\* No open connection is forgotten by the handlers that keep it alive, none of
\* them is called twice, and each open connection has both its sockets.
THEOREM NoHandlerIsLost == Spec => []HandlersOutstanding
  <1>1. ProxyInv => HandlersOutstanding
    <2> SUFFICES ASSUME ProxyInv PROVE HandlersOutstanding
      OBVIOUS
    <2>1. queue \in Seq(Handlers) /\ Distinct(queue) /\ \A c \in Conn : InStep(c) /\ Kept(conn[c])
      BY TypeFacts DEF ProxyInv, Joined
    <2>2. ObjectsKept
      BY <2>1, ObjectsAreKept
    <2>3. Times(CHAIN) = Queued(chain.ec)
      BY <2>1, TimesOnce DEF ProxyInv, ChainInv
    <2>4. \A c \in Conn : conn[c].open <=> sock[c].server.peer # "none"
      BY DEF ProxyInv, Joined, NoSocket
    <2> QED BY <2>2, <2>3, <2>4 DEF HandlersOutstanding
  <1> QED BY <1>1, ProxyInvariant, PTL

\* The access control that the proxy exists for: handleReadRequest forwards one
\* line at a time and none that begins as a star's request, and nothing else
\* is ever in a connection's buffer for the server.
THEOREM StarsAreKeptOut == Spec => []AccessControl
  <1>1. ProxyInv => AccessControl
    <2> SUFFICES ASSUME ProxyInv, NEW c \in Conn,
                        NEW i \in 1 .. Len(sock[c].server.out),
                        i = 1 \/ sock[c].server.out[i - 1] = DELIMITER
                 PROVE  sock[c].server.out[i] # STAR_REQUEST_TYPE
      BY DEF AccessControl
    <2> DEFINE s == conn[c]
               k == sock[c].server
               b == s.buf.server
    <2>1. s \in Connection /\ sock[c] \in Sockets /\ Joined(s, sock[c])
      BY TypeFacts DEF ProxyInv
    <2>2. k.out \in Seq(Word) /\ b \in Seq(Word) /\ k.out # <<>>
      <3>1. k \in Socket /\ b \in Seq(Word)
        BY <2>1, Fields DEF Sockets
      <3>2. k.out \in Seq(Word)
        BY <3>1 DEF Socket
      <3>3. k.out # <<>>
        OBVIOUS
      <3> QED BY <3>1, <3>2, <3>3
    <2>3. s.open
      BY <2>1, <2>2 DEF Joined, NoSocket
    <2>4. s.op \in Handler /\ InTurn(s.op, s.ec, b, k)
      BY <2>1, <2>3, Fields DEF Joined, Kept
    <2>5. Asking(b, k)
      BY <2>2, <2>4 DEF InTurn, Quiet, Answered, Unanswered, Handler
    <2>6. /\ IsLine(k.out \o b, Len(k.out \o b)) /\ (k.out \o b)[1] # STAR_REQUEST_TYPE
      BY <2>5 DEF Asking, OneLine
    <2> HIDE DEF k, b
    <2>7. /\ \A j \in 1 .. Len(k.out) : k.out[j] = DELIMITER => b = <<>> /\ j = Len(k.out)
          /\ \A j \in 1 .. Len(k.out) : k.out[j] = (k.out \o b)[j]
      BY <2>2, <2>6, PartOfLine, ZenonT(60)
    <2>8. Len(k.out) \in Nat /\ i \in 1 .. Len(k.out) /\ (i = 1 \/ k.out[i - 1] = DELIMITER)
      BY <2>2, LenProperties DEF k
    <2>9. i = 1
      <3>1. i # 1 => i - 1 \in 1 .. Len(k.out) /\ i - 1 # Len(k.out)
        BY <2>8
      <3> QED BY <2>7, <2>8, <3>1
    <2>10. k.out[i] # STAR_REQUEST_TYPE
      BY <2>6, <2>7, <2>8, <2>9
    <2> QED BY <2>10 DEF k
  <1> QED BY <1>1, ProxyInvariant, PTL

-----------------------------------------------------------------------------
\* A client that says one line at a time has said a before and q now; r is the
\* replies to what it said before.  The proxy waits for a request, of which a
\* part may have arrived, or it has the reply to write, of which a part is
\* written already.
Listening(buf, k, r, q) ==
    \/ buf = <<>> /\ k.in = <<>> /\ k.out = r \o ReplyTo(q)
    \/ k.out = r /\ buf \o k.in = q

Replying(buf, k, r, q) ==
    /\ k.in = <<>> /\ k.out \o buf = r \o ReplyTo(q)
    /\ buf # <<>> /\ buf[Len(buf)] = DELIMITER

\* Between the proxy and the server is this client's request, the reply to it,
\* or nothing any more.
Relayed(op, buf, k, q) ==
    \/ k.in = <<>> /\ k.out \o buf = q /\ (op = "handleReadResponse" => buf = <<>>)
    \/ k.out = <<>> /\ buf \o k.in = ReplyTo(q) /\ (op = "handleWriteRequest" => buf = <<>>)
    \/ Unanswered(k) /\ (op = "handleReadResponse" => buf = <<>>)

Dialogue(s, k, r, q) ==
    LET buf == s.buf.client IN
    /\ ~s.open => k.client.in = q /\ k.client.out = r
    /\ s.open /\ s.op = "handleReadRequest" => Listening(buf, k.client, r, q)
    /\ s.open /\ s.op = "handleWriteResponse" =>
          /\ (buf = <<>> /\ Listening(buf, k.client, r, q)) \/ Replying(buf, k.client, r, q)
          /\ s.ec = "success" => buf = <<>>
    /\ s.open /\ s.op \in {"handleWriteRequest", "handleReadResponse"} =>
          /\ buf = <<>> /\ k.client.in = <<>> /\ k.client.out = r
          /\ Relayed(s.op, s.buf.server, k.server, q)

LinesOnly(said) == \A i \in 1 .. Len(said) : IsLine(said[i], Len(said[i]))

Newest(said) == said[Len(said)]

Earlier(said) == Replies(First(said, Len(said) - 1))

\* What holds of one client.  The dialogue goes on as long as it is there, and
\* nothing is written to it any more once it has left.
Served(s, k, said) ==
    LinesOnly(said) =>
        /\ Begins(k.client.out, Replies(said))
        /\ k.client.peer = "open" =>
              /\ said # <<>> /\ Delimiters(Earlier(said)) < Len(said)
              /\ Dialogue(s, k, Earlier(said), Newest(said))

ReplyInv == \A c \in Conn : Served(conn[c], sock[c], says[c].said)
-----------------------------------------------------------------------------
\* What a line is answered with.
LEMMA ReplyCases ==
    ASSUME NEW l
    PROVE  /\ StartsWith(l, STAR_REQUEST_TYPE) => ReplyTo(l) = STAR_RESPONSE_FAILURE
           /\ StartsWith(l, CLIENT_REQUEST_TYPE) /\ FindZodiac(Tail(l)) =>
                 ReplyTo(l) = Horoscope[l[2]]
           /\ \/ StartsWith(l, STAR_REQUEST_TYPE)
              \/ StartsWith(l, CLIENT_REQUEST_TYPE) /\ FindZodiac(Tail(l))
              \/ ReplyTo(l) = <<>>
  <1> DEFINE star == StartsWith(l, STAR_REQUEST_TYPE)
             ask == StartsWith(l, CLIENT_REQUEST_TYPE) /\ FindZodiac(Tail(l))
  <1>1. ~star \/ ~ask
    BY DEF StartsWith, STAR_REQUEST_TYPE, CLIENT_REQUEST_TYPE
  <1>2. ReplyTo(l) = CASE star -> STAR_RESPONSE_FAILURE [] ask -> Horoscope[l[2]] [] OTHER -> <<>>
    BY Zenon DEF ReplyTo
  <1> DEFINE good == /\ star => ReplyTo(l) = STAR_RESPONSE_FAILURE
                     /\ ask => ReplyTo(l) = Horoscope[l[2]]
                     /\ star \/ ask \/ ReplyTo(l) = <<>>
  <1> HIDE DEF star, ask
  <1>3. good
    BY <1>1, <1>2
  <1> QED BY <1>3, Zenon DEF star, ask

\* Every reply is words, and one line if it is anything.
LEMMA ReplyFacts ==
    ASSUME NEW l \in Seq(Word)
    PROVE  /\ ReplyTo(l) \in Seq(Word)
           /\ ReplyTo(l) = <<>> \/ OneLine(ReplyTo(l))
  <1>1. CASE StartsWith(l, STAR_REQUEST_TYPE)
    <2>1. STAR_RESPONSE_FAILURE \in Seq(Word) /\ OneLine(STAR_RESPONSE_FAILURE)
      BY DEF STAR_RESPONSE_FAILURE, STAR_REPLY_FAILURE, Word, OneLine, IsLine, DELIMITER
    <2> QED BY <1>1, <2>1, ReplyCases
  <1>2. CASE StartsWith(l, CLIENT_REQUEST_TYPE) /\ FindZodiac(Tail(l))
    <2>1. l[2] \in Zodiac
      BY <1>2, ZodiacFacts DEF StartsWith
    <2>2. Horoscope[l[2]] \in Seq(Word) /\ OneLine(Horoscope[l[2]])
      BY <2>1, BoostProxyAssumption DEF OneLine
    <2>3. ReplyTo(l) = Horoscope[l[2]]
      BY <1>2, ReplyCases
    <2> QED BY <2>2, <2>3
  <1>3. CASE ReplyTo(l) = <<>>
    <2>1. <<>> \in Seq(Word)
      OBVIOUS
    <2> QED BY <1>3, <2>1
  <1> QED BY <1>1, <1>2, <1>3, ReplyCases

\* The lines that a client is sent for what it said.
LinesFor(said) == [i \in 1 .. Len(said) |-> ReplyTo(said[i])]

LEMMA LinesForFacts ==
    ASSUME NEW said \in Seq(Seq(Word))
    PROVE  /\ LinesFor(said) \in Seq(Seq(Word)) /\ Len(LinesFor(said)) = Len(said)
           /\ \A i \in 1 .. Len(said) : LinesFor(said)[i] = ReplyTo(said[i])
           /\ Replies(said) = Together(LinesFor(said))
  <1>1. Len(said) \in Nat /\ \A i \in 1 .. Len(said) : said[i] \in Seq(Word)
    BY LenProperties, ElementOfSeq
  <1>2. \A i \in 1 .. Len(said) : ReplyTo(said[i]) \in Seq(Word)
    BY <1>1, ReplyFacts
  <1>3. LinesFor(said) \in Seq(Seq(Word)) /\ Len(LinesFor(said)) = Len(said)
    BY <1>1, <1>2 DEF LinesFor
  <1>4. \A i \in 1 .. Len(said) : LinesFor(said)[i] = ReplyTo(said[i])
    BY DEF LinesFor
  <1>5. Replies(said) = Together(LinesFor(said))
    BY Zenon DEF Replies, LinesFor
  <1> QED BY <1>3, <1>4, <1>5

\* The replies to what was said, by the last thing that was said.
LEMMA RepliesGrow ==
    ASSUME NEW said \in Seq(Seq(Word)), said # <<>>
    PROVE  Replies(said) = Earlier(said) \o ReplyTo(Newest(said))
  <1> DEFINE n == Len(said)
             front == First(said, n - 1)
  <1>1. n \in Nat \ {0} /\ n - 1 \in 0 .. n /\ n - 1 \in Nat /\ n \in 1 .. n
    BY LenProperties, EmptySeq
  <1>2. /\ front \in Seq(Seq(Word)) /\ Len(front) = n - 1
        /\ \A i \in 1 .. n - 1 : front[i] = said[i]
    <2> DEFINE Line == Seq(Word)
               m == n - 1
    <2>1. said \in Seq(Line) /\ m \in 0 .. Len(said)
      BY <1>1
    <2> HIDE DEF Line, m
    <2>2. /\ First(said, m) \in Seq(Line) /\ Len(First(said, m)) = m
          /\ \A i \in 1 .. m : First(said, m)[i] = said[i]
      BY <2>1, CutFacts
    <2> QED BY <2>2 DEF Line, m
  <1> HIDE DEF front
  <1> DEFINE a == LinesFor(said)
             b == LinesFor(front)
  <1>3. Len(a) = n /\ (\A i \in 1 .. n : a[i] = ReplyTo(said[i])) /\ Replies(said) = Together(a)
    BY LinesForFacts
  <1>4. /\ Len(b) = n - 1 /\ (\A i \in 1 .. n - 1 : b[i] = ReplyTo(front[i]))
        /\ Replies(front) = Together(b)
    BY <1>2, LinesForFacts
  <1> HIDE DEF a, b
  <1>5. \A i \in 1 .. n - 1 : b[i] = a[i]
    <2> SUFFICES ASSUME NEW i \in 1 .. n - 1 PROVE b[i] = a[i]
      OBVIOUS
    <2>1. i \in 1 .. n /\ front[i] = said[i]
      BY <1>1, <1>2
    <2> QED BY <1>3, <1>4, <2>1, Zenon
  <1>6. Together(a) = Together(b) \o a[n]
    BY <1>1, <1>3, <1>4, <1>5, TogetherLast
  <1>7. a[n] = ReplyTo(said[n])
    BY <1>1, <1>3
  <1> QED BY <1>3, <1>4, <1>6, <1>7, Zenon DEF Earlier, Newest, front

LEMMA RepliesEmpty == Replies(<<>>) = <<>>
  <1>1. LinesFor(<<>>) = <<>>
    BY DEF LinesFor
  <1> QED BY <1>1, TogetherEmpty, Zenon DEF Replies, LinesFor

LEMMA RepliesAreWords ==
    ASSUME NEW said \in Seq(Seq(Word))
    PROVE  Replies(said) \in Seq(Word)
  BY LinesForFacts, TogetherTypes

-----------------------------------------------------------------------------
\* A stream begins with what another was appended to.
LEMMA BeginsFacts ==
    ASSUME NEW a \in Seq(Word), NEW b \in Seq(Word)
    PROVE  Begins(a, a \o b)
  <1> DEFINE t == a \o b
             m == Len(a)
  <1>1. /\ t \in Seq(Word) /\ Len(t) = m + Len(b) /\ m \in Nat /\ Len(b) \in Nat
        /\ \A i \in 1 .. m : t[i] = a[i]
    BY ConcatProperties, LenProperties
  <1> HIDE DEF t
  <1>2. m \in 0 .. Len(t)
    BY <1>1
  <1>3. /\ First(t, m) \in Seq(Word) /\ Len(First(t, m)) = m
        /\ \A i \in 1 .. m : First(t, m)[i] = t[i]
    BY <1>1, <1>2, CutFacts
  <1>4. First(t, m) = a
    <2> DEFINE f == First(t, m)
    <2>1. f \in Seq(Word) /\ Len(f) = Len(a) /\ \A i \in 1 .. Len(f) : f[i] = a[i]
      BY <1>1, <1>3
    <2> HIDE DEF f
    <2>2. f = a
      BY <2>1, SeqEqual
    <2> QED BY <2>2 DEF f
  <1> HIDE DEF m
  <1>5. Begins(a, t)
    BY <1>2, <1>4 DEF Begins
  <1> QED BY <1>5 DEF t

LEMMA BeginsEmpty ==
    ASSUME NEW b \in Seq(Word)
    PROVE  Begins(<<>>, b)
  <1>1. <<>> \in Seq(Word) /\ <<>> \o b = b
    BY ConcatEmptySeq
  <1>2. Begins(<<>>, <<>> \o b)
    BY <1>1, BeginsFacts
  <1> QED BY <1>1, <1>2, Zenon

\* One reply more is at most one line more.
LEMMA DelimitersReply ==
    ASSUME NEW r \in Seq(Word), NEW q \in Seq(Word)
    PROVE  /\ Delimiters(r) \in Nat /\ Delimiters(r \o ReplyTo(q)) \in Nat
           /\ Delimiters(r \o ReplyTo(q)) <= Delimiters(r) + 1
  <1> DEFINE l == ReplyTo(q)
  <1>1. l \in Seq(Word) /\ (l = <<>> \/ OneLine(l))
    BY ReplyFacts
  <1> HIDE DEF l
  <1>2. CASE OneLine(l)
    <2>1. l # <<>> /\ l[Len(l)] = DELIMITER
      BY <1>2 DEF OneLine, IsLine
    <2>2. /\ Delimiters(r) \in Nat /\ Delimiters(r \o l) \in Nat
          /\ Delimiters(r \o l) = Delimiters(r) + 1
      BY <1>1, <1>2, <2>1, DelimitersFacts DEF OneLine
    <2> QED BY <2>2 DEF l
  <1>3. CASE l = <<>>
    <2>1. r \o l = r
      BY <1>3, ConcatEmptySeq
    <2>2. Delimiters(r) \in Nat
      <3>1. <<DELIMITER>> \in Seq(Word)
        BY DEF Word
      <3>2. <<DELIMITER>> # <<>> /\ <<DELIMITER>>[Len(<<DELIMITER>>)] = DELIMITER
        OBVIOUS
      <3> QED BY <3>1, <3>2, DelimitersFacts
    <2> QED BY <2>1, <2>2 DEF l
  <1> QED BY <1>1, <1>2, <1>3

-----------------------------------------------------------------------------
\* What a dialogue depends on.
LEMMA DialogueSame ==
    ASSUME NEW s, NEW t, NEW k, NEW j, NEW r, NEW q, Dialogue(s, k, r, q),
           t.open = s.open, t.op = s.op, t.buf = s.buf, t.ec = "success" => s.ec = "success",
           j.client.in = k.client.in, j.client.out = k.client.out,
           j.server.in = k.server.in, j.server.out = k.server.out, j.server.peer = k.server.peer
    PROVE  Dialogue(t, j, r, q)
  BY Zenon DEF Dialogue, Listening, Replying, Relayed, Unanswered

\* A client in a dialogue was sent a beginning of the replies to all it said.
LEMMA DialogueBegins ==
    ASSUME NEW s \in Connection, Kept(s), NEW k \in Sockets,
           NEW r \in Seq(Word), NEW q \in Seq(Word), Dialogue(s, k, r, q)
    PROVE  Begins(k.client.out, r \o ReplyTo(q))
  <1> DEFINE all == r \o ReplyTo(q)
             buf == s.buf.client
             out == k.client.out
  <1>1. ReplyTo(q) \in Seq(Word) /\ all \in Seq(Word)
    BY ReplyFacts, ConcatProperties
  <1>2. buf \in Seq(Word) /\ out \in Seq(Word)
    <2>1. k.client \in Socket
      BY DEF Sockets
    <2> QED BY <2>1, Fields DEF Socket
  <1>3. Begins(r, all)
    BY <1>1, BeginsFacts
  <1>4. Begins(all, all)
    <2>1. <<>> \in Seq(Word) /\ all \o <<>> = all
      BY <1>1, ConcatEmptySeq
    <2> HIDE DEF all
    <2>2. Begins(all, all \o <<>>)
      BY <1>1, <2>1, BeginsFacts
    <2> QED BY <2>1, <2>2, Zenon
  <1>5. ASSUME Listening(buf, k.client, r, q)
        PROVE  Begins(out, all)
    BY <1>3, <1>4, <1>5, Zenon DEF Listening
  <1>6. ASSUME Replying(buf, k.client, r, q)
        PROVE  Begins(out, all)
    <2>1. out \o buf = all
      BY <1>6, Zenon DEF Replying
    <2>2. Begins(out, out \o buf)
      BY <1>2, BeginsFacts
    <2> QED BY <2>1, <2>2, Zenon
  <1>7. CASE ~s.open
    BY <1>3, <1>7, Zenon DEF Dialogue
  <1>8. CASE s.open
    <2>1. s.op \in Handler
      BY <1>8, Fields DEF Kept
    <2>2. CASE s.op = "handleReadRequest"
      BY <1>5, <1>8, <2>2, Zenon DEF Dialogue
    <2>3. CASE s.op = "handleWriteResponse"
      BY <1>5, <1>6, <1>8, <2>3, Zenon DEF Dialogue
    <2>4. CASE s.op \in {"handleWriteRequest", "handleReadResponse"}
      BY <1>3, <1>8, <2>4, Zenon DEF Dialogue
    <2> QED BY <2>1, <2>2, <2>3, <2>4 DEF Handler
  <1> QED BY <1>7, <1>8

\* What was said last, and the replies to what was said before.
LEMMA NewestFacts ==
    ASSUME NEW said \in Seq(Seq(Word)), said # <<>>
    PROVE  /\ Newest(said) \in Seq(Word) /\ Earlier(said) \in Seq(Word)
           /\ LinesOnly(said) => OneLine(Newest(said))
           /\ Len(said) \in Nat \ {0}
  <1>1. Len(said) \in Nat \ {0} /\ Len(said) \in 1 .. Len(said) /\ Len(said) - 1 \in 0 .. Len(said)
    BY LenProperties, EmptySeq
  <1>2. Newest(said) \in Seq(Word)
    BY <1>1, ElementOfSeq DEF Newest
  <1>3. First(said, Len(said) - 1) \in Seq(Seq(Word))
    BY <1>1, CutFacts
  <1>4. Earlier(said) \in Seq(Word)
    BY <1>3, RepliesAreWords DEF Earlier
  <1>5. LinesOnly(said) => OneLine(Newest(said))
    BY <1>1 DEF LinesOnly, Newest, OneLine
  <1> QED BY <1>1, <1>2, <1>4, <1>5

\* A step of a connection or of its sockets that carries the dialogue on.
LEMMA ServedStep ==
    ASSUME NEW s, NEW k, NEW said \in Seq(Seq(Word)), Served(s, k, said),
           NEW t \in Connection, Kept(t), NEW j \in Sockets,
           j.client.peer = "open" =>
              /\ k.client.peer = "open"
              /\ \A r, q \in Seq(Word) : OneLine(q) /\ Dialogue(s, k, r, q) => Dialogue(t, j, r, q),
           j.client.peer # "open" => j.client.out = k.client.out
    PROVE  Served(t, j, said)
  <1> SUFFICES ASSUME LinesOnly(said)
               PROVE  /\ Begins(j.client.out, Replies(said))
                      /\ j.client.peer = "open" =>
                            /\ said # <<>> /\ Delimiters(Earlier(said)) < Len(said)
                            /\ Dialogue(t, j, Earlier(said), Newest(said))
    BY DEF Served
  <1>1. CASE j.client.peer # "open"
    BY <1>1 DEF Served
  <1>2. CASE j.client.peer = "open"
    <2> DEFINE r == Earlier(said)
               q == Newest(said)
    <2>1. said # <<>> /\ Delimiters(r) < Len(said) /\ Dialogue(s, k, r, q)
      BY <1>2 DEF Served
    <2>2. r \in Seq(Word) /\ q \in Seq(Word) /\ OneLine(q)
      BY <2>1, NewestFacts
    <2>3. Replies(said) = r \o ReplyTo(q)
      BY <2>1, RepliesGrow
    <2> HIDE DEF r, q
    <2>4. Dialogue(t, j, r, q)
      BY <1>2, <2>1, <2>2
    <2>5. Begins(j.client.out, r \o ReplyTo(q))
      BY <2>2, <2>4, DialogueBegins
    <2> QED BY <2>1, <2>3, <2>4, <2>5 DEF r, q
  <1> QED BY <1>1, <1>2

\* Nobody is owed a reply before it connects.
LEMMA ServedNobody ==
    ASSUME NEW s
    PROVE  Served(s, NoSockets, <<>>)
  <1>1. NoSockets.client.out = <<>> /\ NoSockets.client.peer = "none"
    BY DEF NoSockets, NoSocket
  <1>2. Begins(<<>>, Replies(<<>>))
    <2>1. <<>> \in Seq(Word)
      OBVIOUS
    <2> QED BY <2>1, BeginsEmpty, RepliesEmpty
  <1> QED BY <1>1, <1>2 DEF Served

-----------------------------------------------------------------------------
\* A handler goes on only with a connection that is open and whose operation
\* succeeded.
LEMMA UnlessOpen ==
    ASSUME NEW s \in Connection, NEW t, Unless(s, t).open
    PROVE  s.open /\ s.ec = "success" /\ Unless(s, t) = t
  <1>1. LooksLike(IoCalled(s), s.open, "none", "none", s.wait, s.buf)
    BY CalledFacts
  <1>2. CASE ~s.open
    BY <1>1, <1>2 DEF Unless, LooksLike
  <1>3. CASE s.open /\ s.ec # "success"
    <2>1. stop(IoCalled(s)).open = FALSE
      BY <1>1, StopFacts DEF LooksLike
    <2> QED BY <1>3, <2>1 DEF Unless
  <1>4. CASE s.open /\ s.ec = "success"
    BY <1>4 DEF Unless
  <1> QED BY <1>2, <1>3, <1>4

\* The next operation after the handler that was called.
Goes(t, op, client, server) ==
    /\ t.open /\ t.op = op /\ t.ec = "pending"
    /\ t.buf.client = client /\ t.buf.server = server

LEMMA GoesFacts ==
    ASSUME NEW s \in Connection, s.open, NEW u, SameState(IoCalled(s), u),
           NEW h \in Handler, NEW n \in Nat
    PROVE  Goes(async(expires_after(u, n), h), h, u.buf.client, u.buf.server)
  <1>1. u \in Connection /\ u.open
    BY CalledFacts DEF LooksLike, SameState
  <1>2. LooksLike(async(expires_after(u, n), h), u.open, h, "pending", Cancelled(u.wait), u.buf)
    BY <1>1, AsyncFacts
  <1> QED BY <1>1, <1>2 DEF LooksLike, Goes

\* The handlers carry the dialogue on: a request that was read is answered with
\* a denial or moved behind the empty buffer for the server;
LEMMA ReadRequestDialogue ==
    ASSUME NEW s \in Connection, NEW k \in Sockets, Joined(s, k), s.op = "handleReadRequest",
           handleReadRequest(s).open,
           NEW r \in Seq(Word), NEW q \in Seq(Word), OneLine(q), Dialogue(s, k, r, q)
    PROVE  Dialogue(handleReadRequest(s), k, r, q)
  <1> DEFINE v == IoCalled(s)
             buf == s.buf.client
             l == getline(buf)
             t == IF StartsWith(l, STAR_REQUEST_TYPE) THEN Reject(v) ELSE Forward(v)
  <1>1. s.open /\ s.ec = "success" /\ handleReadRequest(s) = t
    BY UnlessOpen DEF handleReadRequest
  <1>2. v \in Connection /\ v.buf = s.buf
    BY CalledFacts DEF LooksLike
  <1>3. HasLine(s.buf["client"]) /\ Quiet(s.buf.server, k.server)
    BY <1>1 DEF Joined, Side, InTurn
  <1>4. buf \in Seq(Word) /\ k.client.in \in Seq(Word) /\ k.client.out \in Seq(Word)
    <2>1. k.client \in Socket
      BY DEF Sockets
    <2> QED BY <2>1, Fields DEF Socket
  <1>5. k.client.in = <<>> /\ k.client.out = r /\ buf = q
    <2> DEFINE in == k.client.in
    <2>1. buf # <<>>
      BY <1>3 DEF HasLine
    <2>2. k.client.out = r /\ buf \o in = q
      BY <1>1, <2>1, Zenon DEF Dialogue, Listening
    <2>3. IsLine(buf \o in, Len(buf \o in))
      BY <2>2 DEF OneLine
    <2>4. PICK i \in 1 .. Len(buf) : buf[i] = DELIMITER
      BY <1>3 DEF HasLine
    <2>5. buf \in Seq(Word) /\ in \in Seq(Word)
      BY <1>4
    <2> HIDE DEF buf, in
    <2>6. in = <<>>
      BY <2>3, <2>4, <2>5, PartOfLine, SMTT(30)
    <2>7. buf \o in = buf
      BY <2>5, <2>6, ConcatEmptySeq
    <2> QED BY <2>2, <2>6, <2>7 DEF in
  <1>6. l = q /\ Remainder(buf) = <<>>
    BY <1>4, <1>5, SingleLineFacts DEF OneLine
  <1> HIDE DEF v
  <1>7. CASE StartsWith(l, STAR_REQUEST_TYPE)
    <2> DEFINE d == STAR_RESPONSE_FAILURE
               u == WithBuffer(v, "client", d)
    <2>1. d \in Seq(Word) /\ d # <<>> /\ d[Len(d)] = DELIMITER
      BY DEF STAR_RESPONSE_FAILURE, STAR_REPLY_FAILURE, Word
    <2>2. d = ReplyTo(q)
      BY <1>6, <1>7, ReplyCases
    <2> HIDE DEF d
    <2>3. SameState(v, u) /\ u.buf["client"] = d /\ u.buf.server = s.buf.server
      BY <1>2, <2>1, BufferFacts
    <2>4. t = async(expires_after(u, WriteResponseTimeout), "handleWriteResponse")
      BY <1>7, Zenon DEF Reject, WithBuffer, d
    <2> HIDE DEF u, t
    <2>5. Goes(t, "handleWriteResponse", d, s.buf.server)
      BY <1>1, <2>3, <2>4, GoesFacts, TimeoutFacts, HandlerFacts DEF v
    <2>6. Replying(d, k.client, r, q)
      BY <1>5, <2>1, <2>2, Zenon DEF Replying
    <2>7. Dialogue(t, k, r, q)
      BY <2>5, <2>6 DEF Dialogue, Goes
    <2> QED BY <1>1, <2>7
  <1>8. CASE ~StartsWith(l, STAR_REQUEST_TYPE)
    <2> DEFINE u == Move(v, "client", "server")
    <2>1. /\ SameState(v, u) /\ u.buf["server"] = s.buf["server"] \o l
          /\ u.buf["client"] = Remainder(buf)
      BY <1>2, <1>3, MoveFacts
    <2>2. t = async(expires_after(u, WriteRequestTimeout), "handleWriteRequest")
      BY <1>8 DEF Forward
    <2>3. s.buf["server"] \o l = q
      BY <1>3, <1>6, ConcatEmptySeq DEF Quiet
    <2> HIDE DEF u, t
    <2>4. Goes(t, "handleWriteRequest", <<>>, q)
      <3>1. Goes(t, "handleWriteRequest", u.buf.client, u.buf.server)
        BY <1>1, <2>1, <2>2, GoesFacts, TimeoutFacts, HandlerFacts DEF v
      <3> QED BY <1>6, <2>1, <2>3, <3>1
    <2>5. Relayed("handleWriteRequest", q, k.server, q)
      <3>1. k.server.in = <<>> /\ k.server.out = <<>>
        BY <1>3 DEF Quiet
      <3>2. <<>> \o q = q
        BY ConcatEmptySeq
      <3> QED BY <3>1, <3>2 DEF Relayed
    <2>6. Dialogue(t, k, r, q)
      BY <1>5, <2>4, <2>5 DEF Dialogue, Goes
    <2> QED BY <1>1, <2>6
  <1> QED BY <1>7, <1>8

-----------------------------------------------------------------------------
\* a request that was written is the server's to answer;
LEMMA WriteRequestDialogue ==
    ASSUME NEW s \in Connection, NEW k \in Sockets, Joined(s, k), s.op = "handleWriteRequest",
           handleWriteRequest(s).open,
           NEW r \in Seq(Word), NEW q \in Seq(Word), Dialogue(s, k, r, q)
    PROVE  Dialogue(handleWriteRequest(s), k, r, q)
  <1> DEFINE v == IoCalled(s)
             t == async(expires_after(v, ReadResponseTimeout), "handleReadResponse")
  <1>1. s.open /\ s.ec = "success" /\ handleWriteRequest(s) = t
    BY UnlessOpen DEF handleWriteRequest
  <1>2. SameState(v, v) /\ v.buf = s.buf
    BY CalledFacts DEF LooksLike, SameState
  <1>3. s.buf.server = <<>>
    BY <1>1 DEF Joined, InTurn
  <1> HIDE DEF t
  <1>4. Goes(t, "handleReadResponse", s.buf.client, s.buf.server)
    <2> HIDE DEF v
    <2> QED BY <1>1, <1>2, GoesFacts, TimeoutFacts, HandlerFacts DEF v, t
  <1>5. /\ s.buf.client = <<>> /\ k.client.in = <<>> /\ k.client.out = r
        /\ Relayed("handleWriteRequest", s.buf.server, k.server, q)
    BY <1>1 DEF Dialogue
  <1>6. Relayed("handleReadResponse", s.buf.server, k.server, q)
    BY <1>3, <1>5, Zenon DEF Relayed
  <1>7. Dialogue(t, k, r, q)
    BY <1>4, <1>5, <1>6 DEF Dialogue, Goes
  <1> QED BY <1>1, <1>7

\* an answer that was read is moved to the client's buffer as it is;
LEMMA ReadResponseDialogue ==
    ASSUME NEW s \in Connection, NEW k \in Sockets, Joined(s, k), s.op = "handleReadResponse",
           handleReadResponse(s).open,
           NEW r \in Seq(Word), NEW q \in Seq(Word), Dialogue(s, k, r, q)
    PROVE  Dialogue(handleReadResponse(s), k, r, q)
  <1> DEFINE v == IoCalled(s)
             buf == s.buf.server
             in == k.server.in
             d == ReplyTo(q)
             u == Move(v, "server", "client")
             t == async(expires_after(u, WriteResponseTimeout), "handleWriteResponse")
  <1>1. s.open /\ s.ec = "success" /\ handleReadResponse(s) = t
    BY UnlessOpen DEF handleReadResponse
  <1>2. v \in Connection /\ v.buf = s.buf
    BY CalledFacts DEF LooksLike
  <1>3. HasLine(s.buf["server"]) /\ buf # <<>>
    BY <1>1 DEF Joined, Side, HasLine
  <1>4. buf \in Seq(Word) /\ in \in Seq(Word) /\ s.buf.client \in Seq(Word)
    <2>1. k.server \in Socket
      BY DEF Sockets
    <2> QED BY <2>1, Fields DEF Socket
  <1>5. /\ s.buf.client = <<>> /\ k.client.in = <<>> /\ k.client.out = r
        /\ Relayed("handleReadResponse", buf, k.server, q)
    BY <1>1 DEF Dialogue
  <1>6. buf \o in = d
    BY <1>3, <1>5, Zenon DEF Relayed
  <1>7. PICK i \in 1 .. Len(buf) : buf[i] = DELIMITER
    BY <1>3 DEF HasLine
  <1>8. OneLine(d)
    <2>1. i \in 1 .. Len(buf \o in)
      <3> HIDE DEF buf, in, d
      <3>1. Len(buf \o in) = Len(buf) + Len(in) /\ Len(buf) \in Nat /\ Len(in) \in Nat
        BY <1>4, ConcatProperties, LenProperties
      <3> QED BY <1>7, <3>1
    <2>2. d # <<>>
      <3> HIDE DEF buf, in, d
      <3> QED BY <1>6, <2>1
    <2> QED BY <2>2, ReplyFacts
  <1>9. buf = d
    <2> HIDE DEF buf, in, d
    <2>1. in = <<>>
      <3>1. IsLine(buf \o in, Len(buf \o in))
        BY <1>6, <1>8 DEF OneLine
      <3> QED BY <1>4, <1>7, <3>1, PartOfLine
    <2>2. buf \o in = buf
      BY <1>4, <2>1, ConcatEmptySeq
    <2> QED BY <1>6, <2>2
  <1>10. getline(buf) = d /\ Remainder(buf) = <<>>
    BY <1>4, <1>8, <1>9, SingleLineFacts DEF OneLine
  <1> HIDE DEF v, u, t, d
  <1>11. SameState(v, u) /\ u.buf["server"] = <<>> /\ u.buf["client"] = d
    <2>1. SameState(v, u) /\ u.buf["server"] = Remainder(buf)
          /\ u.buf["client"] = s.buf["client"] \o getline(buf)
      BY <1>2, <1>3, MoveFacts DEF u
    <2>2. <<>> \o d = d
      BY <1>4, <1>9, ConcatEmptySeq
    <2> QED BY <1>5, <1>10, <2>1, <2>2
  <1>12. Goes(t, "handleWriteResponse", d, <<>>)
    BY <1>1, <1>11, GoesFacts, TimeoutFacts, HandlerFacts DEF t, v
  <1>13. Replying(d, k.client, r, q)
    <2>1. d # <<>> /\ d[Len(d)] = DELIMITER
      BY <1>8 DEF OneLine, IsLine
    <2> QED BY <1>5, <2>1, Zenon DEF Replying, d
  <1>14. Dialogue(t, k, r, q)
    BY <1>12, <1>13 DEF Dialogue, Goes
  <1> QED BY <1>1, <1>14

\* and after a reply that was written the next request is read.
LEMMA WriteResponseDialogue ==
    ASSUME NEW s \in Connection, NEW k \in Sockets, s.op = "handleWriteResponse",
           handleWriteResponse(s).open,
           NEW r \in Seq(Word), NEW q \in Seq(Word), Dialogue(s, k, r, q)
    PROVE  Dialogue(handleWriteResponse(s), k, r, q)
  <1> DEFINE v == IoCalled(s)
             t == async(expires_after(v, ReadRequestTimeout), "handleReadRequest")
  <1>1. s.open /\ s.ec = "success" /\ handleWriteResponse(s) = t
    BY UnlessOpen DEF handleWriteResponse, startReadRequest
  <1>2. SameState(v, v) /\ v.buf = s.buf
    BY CalledFacts DEF LooksLike, SameState
  <1> HIDE DEF t
  <1>3. Goes(t, "handleReadRequest", s.buf.client, s.buf.server)
    <2> HIDE DEF v
    <2> QED BY <1>1, <1>2, GoesFacts, TimeoutFacts, HandlerFacts DEF v, t
  <1>4. Listening(s.buf.client, k.client, r, q)
    BY <1>1, Zenon DEF Dialogue, Replying
  <1>5. Dialogue(t, k, r, q)
    BY <1>3, <1>4 DEF Dialogue, Goes
  <1> QED BY <1>1, <1>5

\* The timer's handler does not disturb a dialogue.
LEMMA DeadlineDialogue ==
    ASSUME NEW s \in Connection, NEW k, handleDeadline(s).open,
           NEW r, NEW q, Dialogue(s, k, r, q)
    PROVE  Dialogue(handleDeadline(s), k, r, q)
  <1> DEFINE v == WaitCalled(s)
             t == handleDeadline(s)
  <1>1. LooksLike(v, s.open, s.op, s.ec, "none", s.buf)
    BY CalledFacts
  <1> HIDE DEF v
  <1>2. t \in {v, async_wait(v), stop(v)}
    BY DEF handleDeadline, startWaitDeadline, v
  <1>3. stop(v).open = FALSE
    BY <1>1, StopFacts DEF LooksLike
  <1>4. LooksLike(async_wait(v), s.open, s.op, s.ec, "pending", s.buf)
    BY <1>1 DEF LooksLike, async_wait, Connection, ErrorCode
  <1>5. t.open = s.open /\ t.op = s.op /\ t.ec = s.ec /\ t.buf = s.buf
    BY <1>1, <1>2, <1>3, <1>4 DEF LooksLike
  <1> HIDE DEF t
  <1>6. Dialogue(t, k, r, q)
    BY <1>5, DialogueSame
  <1> QED BY <1>6 DEF t

-----------------------------------------------------------------------------
\* The invariant for one client that a step is about; the others' is kept.
LEMMA RepliesStep ==
    ASSUME ProxyInv, ReplyInv, NEW c \in Conn,
           \A d \in Conn : d # c => UNCHANGED <<conn[d], sock[d], says[d]>>,
           Served(conn'[c], sock'[c], says'[c].said)
    PROVE  ReplyInv'
  BY DEF ReplyInv

LEMMA RepliesStay ==
    ASSUME ReplyInv, UNCHANGED <<conn, sock, says>>
    PROVE  ReplyInv'
  BY DEF ReplyInv

LEMMA ServedFacts ==
    ASSUME ProxyInv, ReplyInv, NEW c \in Conn
    PROVE  /\ conn[c] \in Connection /\ sock[c] \in Sockets /\ Joined(conn[c], sock[c])
           /\ Kept(conn[c])
           /\ sock[c].client \in Socket /\ sock[c].server \in Socket
           /\ says[c].said \in Seq(Seq(Word)) /\ says[c].todo \in Seq(Seq(Word))
           /\ Served(conn[c], sock[c], says[c].said)
  <1>1. conn[c] \in Connection /\ sock[c] \in Sockets /\ Joined(conn[c], sock[c])
    BY TypeFacts DEF ProxyInv
  <1>2. says[c].said \in Seq(Seq(Word)) /\ says[c].todo \in Seq(Seq(Word))
    BY TypeFacts
  <1>3. sock[c].client \in Socket /\ sock[c].server \in Socket
    BY <1>1 DEF Sockets
  <1> QED BY <1>1, <1>2, <1>3 DEF ReplyInv, Joined

LEMMA HandledReplies ==
    ASSUME ProxyInv, ReplyInv, NEW c \in Conn, NEW t \in Connection, Kept(t), Handled(c, t),
           t.open => \A r, q \in Seq(Word) :
              OneLine(q) /\ Dialogue(conn[c], sock[c], r, q) => Dialogue(t, sock[c], r, q)
    PROVE  ReplyInv'
  <1>1. /\ sock' = [sock EXCEPT ![c] = IF t.open THEN sock[c] ELSE NoSockets]
        /\ conn' = [conn EXCEPT ![c] = IF Released(t) THEN NoConnection ELSE t]
    BY HandledFacts
  <1>2. says' = [says EXCEPT ![c] = IF t.open THEN says[c] ELSE Nothing]
    BY TypeFacts DEF Handled
  <1>3. \A d \in Conn : d # c => UNCHANGED <<conn[d], sock[d], says[d]>>
    BY <1>1, <1>2, TypeFacts
  <1>4. /\ sock'[c] = IF t.open THEN sock[c] ELSE NoSockets
        /\ conn'[c] = IF Released(t) THEN NoConnection ELSE t
        /\ says'[c] = IF t.open THEN says[c] ELSE Nothing
    BY <1>1, <1>2, TypeFacts
  <1>5. CASE t.open
    <2>1. conn'[c] = t /\ sock'[c] = sock[c] /\ says'[c] = says[c]
      BY <1>4, <1>5 DEF Released
    <2>2. Served(t, sock[c], says[c].said)
      BY <1>5, ServedFacts, ServedStep
    <2> QED BY <1>3, <2>1, <2>2, RepliesStep
  <1>6. CASE ~t.open
    <2>1. sock'[c] = NoSockets /\ says'[c].said = <<>>
      BY <1>4, <1>6 DEF Nothing
    <2>2. Served(conn'[c], sock'[c], says'[c].said)
      BY <2>1, ServedNobody
    <2> QED BY <1>3, <2>2, RepliesStep
  <1> QED BY <1>5, <1>6

\* The handlers of a Connection object.
LEMMA RunHandlerReplies ==
    ASSUME ProxyInv, ReplyInv, NEW c \in Conn, RunHandler(c)
    PROVE  ReplyInv'
  <1> DEFINE s == conn[c]
             k == sock[c]
  <1>1. s \in Connection /\ k \in Sockets /\ Joined(s, k)
    BY ServedFacts
  <1>2. ASSUME NEW t, IoOutcome(s, t, k) \/ WaitOutcome(s, t, k)
        PROVE  t \in Connection /\ Kept(t)
    BY <1>2 DEF IoOutcome, WaitOutcome, Joined
  <1>3. CASE s.op = "handleReadRequest" /\ Handled(c, handleReadRequest(s))
    BY <1>1, <1>2, <1>3, ReadRequestFacts, ReadRequestDialogue, HandledReplies
  <1>4. CASE s.op = "handleWriteRequest" /\ Handled(c, handleWriteRequest(s))
    BY <1>1, <1>2, <1>4, WriteRequestFacts, WriteRequestDialogue, HandledReplies
  <1>5. CASE s.op = "handleReadResponse" /\ Handled(c, handleReadResponse(s))
    BY <1>1, <1>2, <1>5, ReadResponseFacts, ReadResponseDialogue, HandledReplies
  <1>6. CASE s.op = "handleWriteResponse" /\ Handled(c, handleWriteResponse(s))
    BY <1>1, <1>2, <1>6, WriteResponseFacts, WriteResponseDialogue, HandledReplies
  <1>7. CASE Handled(c, handleDeadline(s))
    BY <1>1, <1>2, <1>7, DeadlineFacts, DeadlineDialogue, HandledReplies
  <1> QED BY <1>3, <1>4, <1>5, <1>6, <1>7 DEF RunHandler

-----------------------------------------------------------------------------
\* A step of an operation on socket x of c.
LEMMA IoReplies ==
    ASSUME ProxyInv, ReplyInv, NEW c \in Conn, NEW t \in Connection, Kept(t), t.op # "none",
           NEW x \in {"client", "server"}, NEW l \in Socket, IoStep(c, t, x, l),
           LET j == [sock[c] EXCEPT ![x] = l]
               k == sock[c] IN
           /\ j.client.peer = "open" =>
                 /\ k.client.peer = "open"
                 /\ \A r, q \in Seq(Word) : OneLine(q) /\ Dialogue(conn[c], k, r, q) =>
                       Dialogue(t, j, r, q)
           /\ j.client.peer # "open" => j.client.out = k.client.out
    PROVE  ReplyInv'
  <1> DEFINE j == [sock[c] EXCEPT ![x] = l]
  <1>1. /\ conn' = [conn EXCEPT ![c] = IF Released(t) THEN NoConnection ELSE t]
        /\ sock' = [sock EXCEPT ![c][x] = l] /\ UNCHANGED says
    BY DEF IoStep, Becomes
  <1>2. sock' = [sock EXCEPT ![c] = j] /\ j \in Sockets
    BY <1>1, TypeFacts DEF Sockets
  <1>3. conn'[c] = t /\ sock'[c] = j /\ says'[c] = says[c]
    BY <1>1, <1>2, TypeFacts DEF Released
  <1>4. \A d \in Conn : d # c => UNCHANGED <<conn[d], sock[d], says[d]>>
    BY <1>1, <1>2, TypeFacts
  <1>5. /\ j.client.peer = "open" =>
              /\ sock[c].client.peer = "open"
              /\ \A r, q \in Seq(Word) : OneLine(q) /\ Dialogue(conn[c], sock[c], r, q) =>
                    Dialogue(t, j, r, q)
        /\ j.client.peer # "open" => j.client.out = sock[c].client.out
    OBVIOUS
  <1> HIDE DEF j
  <1>6. Served(t, j, says[c].said)
    BY <1>2, <1>5, ServedFacts, ServedStep
  <1> QED BY <1>3, <1>4, <1>6, RepliesStep

\* An operation that fails disturbs no dialogue.
LEMMA EndedReplies ==
    ASSUME ProxyInv, ReplyInv, NEW c \in Conn, conn[c].ec = "pending", NEW ec \in {"eof", "failed"},
           IoStep(c, [conn[c] EXCEPT !.ec = ec], Side(conn[c].op), sock[c][Side(conn[c].op)])
    PROVE  ReplyInv'
  <1> DEFINE s == conn[c]
             k == sock[c]
             x == Side(s.op)
             t == [s EXCEPT !.ec = ec]
             j == [k EXCEPT ![x] = k[x]]
  <1>1. s \in Connection /\ k \in Sockets /\ Joined(s, k) /\ s.ec = "pending"
    BY ServedFacts
  <1>2. x \in {"client", "server"} /\ s.open /\ s.op # "none" /\ s.wait # "none"
    BY <1>1, PendingFacts
  <1>3. LooksLike(t, s.open, s.op, ec, s.wait, s.buf)
    BY <1>1 DEF LooksLike, Connection, ErrorCode
  <1>4. j = k
    BY <1>1, <1>2 DEF Sockets
  <1>5. Kept(t) /\ t \in Connection /\ t.op # "none"
    BY <1>2, <1>3 DEF Kept, LooksLike
  <1>6. IoStep(c, t, x, k[x]) /\ k[x] \in Socket
    BY <1>1, <1>2 DEF Sockets
  <1> HIDE DEF t, j
  <1>7. \A r, q \in Seq(Word) : Dialogue(s, k, r, q) => Dialogue(t, j, r, q)
    BY <1>3, <1>4, DialogueSame DEF LooksLike
  <1> HIDE DEF x, s, k
  <1>8. /\ j.client.peer = "open" =>
              /\ k.client.peer = "open"
              /\ \A r, q \in Seq(Word) : OneLine(q) /\ Dialogue(s, k, r, q) => Dialogue(t, j, r, q)
        /\ j.client.peer # "open" => j.client.out = k.client.out
    BY <1>4, <1>7
  <1> QED BY <1>2, <1>5, <1>6, <1>8, IoReplies DEF j, k, s

\* What a step of an operation leaves alone.
SameOperation(s, t, x) ==
    /\ t \in Connection /\ t.open = s.open /\ t.op = s.op /\ t.wait = s.wait /\ t.ec # "none"
    /\ \A y \in {"client", "server"} : y # x => t.buf[y] = s.buf[y]

\* One socket of k is another in j.
OtherSocket(k, j, x, l) == j[x] = l /\ \A y \in {"client", "server"} : y # x => j[y] = k[y]

\* Object s with sockets k becomes t with sockets j, when n words are read from,
\* or written to, socket x, which becomes l.
Reads(s, k, x, n, t, j, l) ==
    /\ s.open /\ s.op \in {"handleReadRequest", "handleReadResponse"} /\ x = Side(s.op)
    /\ SameOperation(s, t, x) /\ OtherSocket(k, j, x, l)
    /\ n \in ReadSize(s.buf[x], k[x].in)
    /\ t.buf[x] = s.buf[x] \o First(k[x].in, n)
    /\ l.in = After(k[x].in, n) /\ l.out = k[x].out /\ l.peer = k[x].peer

Writes(s, k, x, n, t, j, l) ==
    /\ s.open /\ s.op \in {"handleWriteRequest", "handleWriteResponse"} /\ x = Side(s.op)
    /\ SameOperation(s, t, x) /\ OtherSocket(k, j, x, l)
    /\ n \in 1 .. Len(s.buf[x])
    /\ t.buf[x] = After(s.buf[x], n) /\ (t.ec = "success" => t.buf[x] = <<>>)
    /\ l.in = k[x].in
    /\ \/ k[x].peer = "open" /\ l.peer = "open" /\ l.out = k[x].out \o First(s.buf[x], n)
       \/ x = "server" /\ l.peer # "open" /\ l.out = k[x].out /\ k[x].out = <<>>

\* What a read moves into a buffer stays in its place in the stream;
LEMMA ReadDialogue ==
    ASSUME NEW s \in Connection, NEW k \in Sockets, NEW x, NEW n, NEW t, NEW j, NEW l,
           Reads(s, k, x, n, t, j, l),
           NEW r \in Seq(Word), NEW q \in Seq(Word), Dialogue(s, k, r, q)
    PROVE  Dialogue(t, j, r, q)
  <1> DEFINE buf == s.buf[x]
             in == k[x].in
             a == buf \o First(in, n)
  <1>0. /\ s.open /\ s.op \in {"handleReadRequest", "handleReadResponse"} /\ x = Side(s.op)
        /\ SameOperation(s, t, x) /\ j[x] = l
        /\ \A y \in {"client", "server"} : y # x => j[y] = k[y]
        /\ n \in ReadSize(buf, in)
        /\ t.buf[x] = a /\ l.in = After(in, n) /\ l.out = k[x].out /\ l.peer = k[x].peer
    BY DEF Reads, OtherSocket
  <1> USE <1>0
  <1>1. x \in {"client", "server"} /\ (x = "client" <=> s.op = "handleReadRequest")
    BY DEF Side
  <1>2. buf \in Seq(Word) /\ in \in Seq(Word)
    <2>1. k[x] \in Socket
      BY <1>1 DEF Sockets
    <2> QED BY <1>1, <2>1, Fields DEF Socket
  <1>3. n \in 0 .. Len(in)
    <2>1. Len(in) \in Nat
      BY <1>2, LenProperties
    <2> HIDE DEF in
    <2> QED BY <2>1 DEF ReadSize, in
  <1>4. a \o l.in = buf \o in
    <2>1. l.in = After(in, n)
      OBVIOUS
    <2> HIDE DEF buf, in
    <2>2. (buf \o First(in, n)) \o After(in, n) = buf \o in
      BY <1>2, <1>3, Recut, SMTT(30)
    <2> QED BY <2>1, <2>2, Zenon
  <1>5. ~(buf = <<>> /\ in = <<>>)
    <2>1. buf = <<>> /\ in = <<>> => ReadSize(buf, in) = {}
      BY DEF ReadSize, HasLine
    <2> QED BY <2>1
  <1> HIDE DEF a, buf, in
  <1>6. CASE s.op = "handleReadRequest"
    <2>1. x = "client" /\ j.client = l /\ j.server = k.server /\ t.buf.client = a
      BY <1>1, <1>6 DEF a, buf, in
    <2>2. Listening(buf, k.client, r, q)
      BY <1>6, <2>1, Zenon DEF Dialogue, buf
    <2>3. k.client.out = r /\ buf \o in = q
      BY <1>5, <2>1, <2>2, Zenon DEF Listening, in
    <2>4. Listening(a, j.client, r, q)
      BY <1>4, <2>1, <2>3, Zenon DEF Listening
    <2> QED BY <1>6, <2>1, <2>4 DEF Dialogue, SameOperation
  <1>7. CASE s.op = "handleReadResponse"
    <2>1. /\ x = "server" /\ j.server = l /\ j.client = k.client /\ t.buf.server = a
          /\ t.buf.client = s.buf.client
      BY <1>1, <1>7 DEF a, buf, in, SameOperation
    <2>2. /\ s.buf.client = <<>> /\ k.client.in = <<>> /\ k.client.out = r
          /\ Relayed("handleReadResponse", buf, k.server, q)
      BY <1>7, <2>1 DEF Dialogue, buf
    <2>3. k.server.out = <<>> /\ buf \o in = ReplyTo(q)
      <3>1. k.server.in = in
        BY <2>1 DEF in
      <3> QED BY <1>5, <2>2, <3>1, Zenon DEF Relayed, Unanswered
    <2>4. Relayed("handleReadResponse", a, l, q)
      <3>1. l.out = <<>> /\ a \o l.in = ReplyTo(q)
        BY <1>4, <2>1, <2>3
      <3> QED BY <3>1, Zenon DEF Relayed
    <2> QED BY <1>7, <2>1, <2>2, <2>4 DEF Dialogue, SameOperation
  <1> QED BY <1>6, <1>7

\* and so does what a write takes from one.
LEMMA WriteDialogue ==
    ASSUME NEW s \in Connection, NEW k \in Sockets, NEW x, NEW n, NEW t, NEW j, NEW l,
           Writes(s, k, x, n, t, j, l),
           NEW r \in Seq(Word), NEW q \in Seq(Word), Dialogue(s, k, r, q)
    PROVE  Dialogue(t, j, r, q)
  <1> DEFINE buf == s.buf[x]
             out == k[x].out
             a == After(buf, n)
  <1>0. /\ s.open /\ s.op \in {"handleWriteRequest", "handleWriteResponse"} /\ x = Side(s.op)
        /\ SameOperation(s, t, x) /\ j[x] = l
        /\ \A y \in {"client", "server"} : y # x => j[y] = k[y]
        /\ n \in 1 .. Len(buf)
        /\ t.buf[x] = a /\ (t.ec = "success" => t.buf[x] = <<>>)
        /\ l.in = k[x].in
        /\ \/ k[x].peer = "open" /\ l.peer = "open" /\ l.out = out \o First(buf, n)
           \/ x = "server" /\ l.peer # "open" /\ l.out = out /\ out = <<>>
    BY DEF Writes, OtherSocket
  <1> USE <1>0
  <1>1. x \in {"client", "server"} /\ (x = "client" <=> s.op = "handleWriteResponse")
    BY DEF Side
  <1>2. buf \in Seq(Word) /\ out \in Seq(Word)
    <2>1. k[x] \in Socket
      BY <1>1 DEF Sockets
    <2> QED BY <1>1, <2>1, Fields DEF Socket
  <1>3. n \in 1 .. Len(buf) /\ n \in 0 .. Len(buf) /\ Len(buf) \in Nat /\ buf # <<>>
    BY <1>2, LenProperties
  <1>4. /\ a \in Seq(Word) /\ Len(a) = Len(buf) - n
        /\ \A i \in 1 .. Len(buf) - n : a[i] = buf[n + i]
        /\ (out \o First(buf, n)) \o a = out \o buf
    <2> HIDE DEF buf, out
    <2>1. /\ a \in Seq(Word) /\ Len(a) = Len(buf) - n
          /\ \A i \in 1 .. Len(buf) - n : a[i] = buf[n + i]
      BY <1>2, <1>3, CutFacts
    <2>2. (out \o First(buf, n)) \o a = out \o buf
      BY <1>2, <1>3, Recut
    <2> QED BY <2>1, <2>2
  <1>5. a # <<>> => a[Len(a)] = buf[Len(buf)]
    <2> HIDE DEF a, buf
    <2> SUFFICES ASSUME a # <<>> PROVE a[Len(a)] = buf[Len(buf)]
      OBVIOUS
    <2>1. Len(a) # 0
      BY <1>4, EmptySeq
    <2> DEFINE m == Len(buf)
    <2>2. m - n \in 1 .. m - n /\ n + (m - n) = m
      <3>1. m \in Nat /\ n \in 1 .. m /\ m - n # 0
        BY <1>3, <1>4, <2>1, SMTT(30)
      <3> HIDE DEF m
      <3> QED BY <3>1, SMTT(30)
    <2>3. a[Len(buf) - n] = buf[n + (Len(buf) - n)]
      BY <1>4, <2>2
    <2> QED BY <1>4, <2>2, <2>3
  <1> DEFINE f == First(buf, n)
  <1> HIDE DEF a, buf, out, f
  <1>6. /\ t.buf[x] = a /\ (t.ec = "success" => a = <<>>)
        /\ \/ k[x].peer = "open" /\ l.peer = "open" /\ l.out = out \o f
           \/ x = "server" /\ l.peer # "open" /\ l.out = out /\ out = <<>>
    BY DEF a, buf, out, f
  <1>7. (out \o f) \o a = out \o buf
    BY <1>4 DEF f
  <1>8. CASE s.op = "handleWriteResponse"
    <2>1. x = "client" /\ j.client = l /\ j.server = k.server /\ t.buf.client = a
      BY <1>1, <1>6, <1>8
    <2>2. Replying(buf, k.client, r, q)
      BY <1>3, <1>8, <2>1, Zenon DEF Dialogue, buf
    <2>3. /\ k.client.in = <<>> /\ out \o buf = r \o ReplyTo(q) /\ buf[Len(buf)] = DELIMITER
          /\ l.out = out \o f /\ l.in = <<>>
      BY <1>6, <2>1, <2>2, Zenon DEF Replying, out
    <2>4. l.out \o a = r \o ReplyTo(q)
      BY <1>7, <2>3, Zenon
    <2>5. CASE a = <<>>
      <3>1. out \o f \in Seq(Word)
        BY <1>2, <1>3, CutFacts, ConcatProperties DEF f
      <3>2. l.out = r \o ReplyTo(q)
        <4>1. l.out \o a = l.out
          BY <2>3, <2>5, <3>1, ConcatEmptySeq
        <4> QED BY <2>4, <4>1, Zenon
      <3>3. Listening(a, l, r, q)
        BY <2>3, <2>5, <3>2, Zenon DEF Listening
      <3> QED BY <1>8, <2>1, <2>5, <3>3 DEF Dialogue, SameOperation
    <2>6. CASE a # <<>>
      <3>1. Replying(a, l, r, q)
        BY <1>5, <2>3, <2>4, <2>6, Zenon DEF Replying
      <3> QED BY <1>6, <1>8, <2>1, <2>6, <3>1 DEF Dialogue, SameOperation
    <2> QED BY <2>5, <2>6
  <1>9. CASE s.op = "handleWriteRequest"
    <2>1. /\ x = "server" /\ j.server = l /\ j.client = k.client /\ t.buf.server = a
          /\ t.buf.client = s.buf.client /\ out = k.server.out
      BY <1>1, <1>6, <1>9 DEF SameOperation, out
    <2>2. /\ s.buf.client = <<>> /\ k.client.in = <<>> /\ k.client.out = r
          /\ Relayed("handleWriteRequest", buf, k.server, q)
      BY <1>9, <2>1 DEF Dialogue, buf
    <2>3. l.in = k.server.in
      BY <2>1
    <2>4. (k.server.in = <<>> /\ out \o buf = q) \/ Unanswered(k.server)
      BY <1>3, <2>1, <2>2, Zenon DEF Relayed
    <2>5. Relayed("handleWriteRequest", a, l, q)
      <3>1. CASE l.peer = "open"
        <4>1. k.server.peer = "open" /\ l.out = out \o f
          BY <1>6, <2>1, <3>1
        <4>2. k.server.in = <<>> /\ out \o buf = q
          BY <2>4, <4>1, Zenon DEF Unanswered
        <4>3. l.out \o a = q
          BY <1>7, <4>1, <4>2, Zenon
        <4> QED BY <2>3, <4>2, <4>3, Zenon DEF Relayed
      <3>2. CASE l.peer # "open"
        <4>1. l.out = <<>> /\ l.in = <<>>
          BY <1>6, <2>3, <2>4, <3>2 DEF Unanswered
        <4> QED BY <3>2, <4>1, Zenon DEF Relayed, Unanswered
      <3> QED BY <3>1, <3>2
    <2> QED BY <1>9, <2>1, <2>2, <2>5 DEF Dialogue, SameOperation
  <1> QED BY <1>8, <1>9, SMTT(30)

-----------------------------------------------------------------------------
LEMMA SideOf ==
    ASSUME NEW k \in Sockets, NEW x \in {"client", "server"}, NEW l \in Socket
    PROVE  LET j == [k EXCEPT ![x] = l] IN
           j[x] = l /\ \A y \in {"client", "server"} : y # x => j[y] = k[y]
  BY DEF Sockets

LEMMA StillKept ==
    ASSUME NEW s \in Connection, NEW k \in Sockets, Joined(s, k), s.ec = "pending",
           NEW t, NEW x, SameOperation(s, t, x)
    PROVE  Kept(t) /\ t \in Connection /\ t.op # "none"
  <1>1. s.open /\ s.op # "none" /\ s.wait # "none"
    BY PendingFacts
  <1> QED BY <1>1 DEF SameOperation, Kept

LEMMA ProgressSame ==
    ASSUME NEW s \in Connection, NEW x \in {"client", "server"}, NEW a \in Seq(Word),
           NEW ec \in ErrorCode, ec # "none"
    PROVE  LET t == Progress(s, x, a, ec) IN SameOperation(s, t, x) /\ t.buf[x] = a /\ t.ec = ec
  <1> DEFINE t == Progress(s, x, a, ec)
             b == WithBuffer(s, x, a).buf
  <1>1. LooksLike(t, s.open, s.op, ec, s.wait, b)
    BY ProgressFacts
  <1>2. t.buf[x] = a
    BY ProgressFacts
  <1>3. \A y \in {"client", "server"} : y # x => t.buf[y] = s.buf[y]
    BY ProgressFacts
  <1> HIDE DEF t, b
  <1>4. SameOperation(s, t, x) /\ t.ec = ec
    BY <1>1, <1>3, SMTT(30) DEF LooksLike, SameOperation
  <1> QED BY <1>2, <1>4 DEF t

\* What has arrived is read into the buffer.
LEMMA ReadReplies ==
    ASSUME ProxyInv, ReplyInv, NEW c \in Conn, async_read_until(c)
    PROVE  ReplyInv'
  <1> DEFINE s == conn[c]
             x == Side(s.op)
             k == sock[c][x]
  <1>1. s \in Connection /\ sock[c] \in Sockets /\ Joined(s, sock[c])
    BY ServedFacts, SMTT(30)
  <1>2. s.op \in {"handleReadRequest", "handleReadResponse"} /\ s.ec = "pending"
    BY DEF async_read_until
  <1>3. x \in {"client", "server"} /\ s.open
    BY <1>1, <1>2, PendingFacts
  <1>4. k \in Socket /\ k.in \in Seq(Word) /\ s.buf[x] \in Seq(Word)
    BY <1>1, <1>3, Fields DEF Sockets, Socket
  <1>5. ASSUME NEW n \in ReadSize(s.buf[x], k.in),
               LET t == [s EXCEPT !.buf[x] = @ \o First(k.in, n)] IN
               IoStep(c, [t EXCEPT !.ec = IF HasLine(t.buf[x]) THEN "success" ELSE @],
                      x, [k EXCEPT !.in = After(@, n)])
        PROVE  ReplyInv'
    <2> DEFINE a == s.buf[x] \o First(k.in, n)
               ec == IF HasLine(a) THEN "success" ELSE "pending"
               v == WithBuffer(s, x, a)
               t == Progress(s, x, a, ec)
               l == [k EXCEPT !.in = After(k.in, n)]
               j == [sock[c] EXCEPT ![x] = l]
    <2>1. Len(k.in) \in Nat /\ n \in 0 .. Len(k.in)
      BY <1>4, LenProperties DEF ReadSize
    <2>2. First(k.in, n) \in Seq(Word) /\ After(k.in, n) \in Seq(Word)
      BY <1>4, <2>1, CutFacts
    <2>3. a \in Seq(Word) /\ ec \in ErrorCode \ {"none"} /\ ec \in ErrorCode
      BY <1>4, <2>2, ConcatProperties DEF ErrorCode
    <2>4. v.buf[x] = a /\ v.ec = s.ec
      <3> HIDE DEF a, x, s
      <3> QED BY <1>1, <1>3, <2>3, BufferFacts DEF SameState
    <2>5. /\ l \in Socket /\ l.in = After(k.in, n) /\ l.out = k.out /\ l.peer = k.peer
      BY <1>4, <2>2 DEF Socket
    <2>6. [s EXCEPT !.buf[x] = @ \o First(k.in, n)] = v
      BY Zenon DEF WithBuffer
    <2>7. IoStep(c, [v EXCEPT !.ec = IF HasLine(v.buf[x]) THEN "success" ELSE @], x, l)
      BY <1>5, <2>6, Zenon
    <2> HIDE DEF l
    <2>8. IoStep(c, t, x, l)
      BY <1>2, <2>4, <2>7, Zenon DEF Progress
    <2> HIDE DEF ec, a
    <2>9. SameOperation(s, t, x) /\ t.buf[x] = a
      <3> HIDE DEF x, s
      <3> QED BY <1>1, <1>3, <2>3, ProgressSame
    <2> HIDE DEF t
    <2>10. Kept(t) /\ t \in Connection /\ t.op # "none"
      BY <1>1, <1>2, <2>9, StillKept
    <2>11. j[x] = l /\ \A y \in {"client", "server"} : y # x => j[y] = sock[c][y]
      BY <1>1, <1>3, <2>5, SideOf
    <2> HIDE DEF j
    <2>12. ASSUME NEW r \in Seq(Word), NEW q \in Seq(Word), Dialogue(s, sock[c], r, q)
           PROVE  Dialogue(t, j, r, q)
      <3>1. Reads(s, sock[c], x, n, t, j, l)
        BY <1>2, <1>3, <1>5, <2>5, <2>9, <2>11, Zenon DEF Reads, OtherSocket, a
      <3> HIDE DEF x, s
      <3> QED BY <1>1, <2>12, <3>1, ReadDialogue
    <2>13. j.client.peer = sock[c].client.peer /\ j.client.out = sock[c].client.out
      BY <1>3, <2>5, <2>11
    <2> HIDE DEF x
    <2> QED BY <1>3, <2>5, <2>8, <2>10, <2>12, <2>13, IoReplies DEF j
  <1>6. CASE k.peer # "open" /\ IoStep(c, [s EXCEPT !.ec = IF k.peer = "fin" THEN "eof" ELSE "failed"], x, k)
    BY <1>2, <1>6, EndedReplies
  <1> QED BY <1>5, <1>6 DEF async_read_until

\* The buffer is written, to an end that is there or to one that has left.
LEMMA WriteReplies ==
    ASSUME ProxyInv, ReplyInv, NEW c \in Conn, async_write(c)
    PROVE  ReplyInv'
  <1> DEFINE s == conn[c]
             x == Side(s.op)
             k == sock[c][x]
             Wrote(n) == [s EXCEPT !.buf[x] = After(@, n),
                                   !.ec = IF n = Len(s.buf[x]) THEN "success" ELSE @]
  <1>1. s \in Connection /\ sock[c] \in Sockets /\ Joined(s, sock[c])
    BY ServedFacts
  <1>2. s.op \in {"handleWriteRequest", "handleWriteResponse"} /\ s.ec = "pending"
    BY DEF async_write
  <1>3. /\ x \in {"client", "server"} /\ s.open
        /\ InTurn(s.op, "pending", s.buf.server, sock[c].server)
    BY <1>1, <1>2, PendingFacts
  <1>4. /\ k \in Socket /\ k.in \in Seq(Word) /\ k.out \in Seq(Word) /\ s.buf[x] \in Seq(Word)
    BY <1>1, <1>3, Fields DEF Sockets, Socket
  <1>5. sock[c].server.peer # "open" => sock[c].server.out = <<>>
    BY <1>3 DEF InTurn
  <1>6. ASSUME NEW n \in 1 .. Len(s.buf[x]), NEW l \in Socket, IoStep(c, Wrote(n), x, l),
               l.in = k.in,
               \/ k.peer = "open" /\ l.peer = "open" /\ l.out = k.out \o First(s.buf[x], n)
               \/ k.peer = "fin" /\ l.peer \in {"fin", "rst"} /\ l.out = k.out
        PROVE  ReplyInv'
    <2> DEFINE a == After(s.buf[x], n)
               ec == IF n = Len(s.buf[x]) THEN "success" ELSE "pending"
               v == WithBuffer(s, x, a)
               t == Progress(s, x, a, ec)
               j == [sock[c] EXCEPT ![x] = l]
    <2>1. Len(s.buf[x]) \in Nat /\ n \in 0 .. Len(s.buf[x])
      BY <1>4, LenProperties
    <2>2. a \in Seq(Word) /\ Len(a) = Len(s.buf[x]) - n
      BY <1>4, <2>1, CutFacts
    <2>3. ec \in ErrorCode \ {"none"} /\ ec \in ErrorCode
      BY DEF ErrorCode
    <2>4. ec = "success" => a = <<>>
      BY <2>1, <2>2, EmptySeq
    <2>5. v.buf[x] = a /\ v.ec = s.ec
      BY <1>1, <1>3, <2>2, BufferFacts DEF SameState
    <2>6. Wrote(n) = t
      BY <1>2, <2>5, Zenon DEF Progress, WithBuffer
    <2>7. IoStep(c, t, x, l)
      BY <1>6, <2>6, Zenon
    <2> HIDE DEF ec, a
    <2>8. SameOperation(s, t, x) /\ t.buf[x] = a /\ (t.ec = "success" => t.buf[x] = <<>>)
      <3> HIDE DEF x, s
      <3>1. SameOperation(s, t, x) /\ t.buf[x] = a /\ t.ec = ec
        BY <1>1, <1>3, <2>2, <2>3, ProgressSame
      <3> HIDE DEF t
      <3> QED BY <2>4, <3>1
    <2> HIDE DEF t
    <2>9. Kept(t) /\ t \in Connection /\ t.op # "none"
      BY <1>1, <1>2, <2>8, StillKept
    <2>10. j[x] = l /\ \A y \in {"client", "server"} : y # x => j[y] = sock[c][y]
      BY <1>1, <1>3, SideOf
    <2> HIDE DEF j
    <2>11. ASSUME NEW r \in Seq(Word), NEW q \in Seq(Word), Dialogue(s, sock[c], r, q),
                  x = "server" \/ k.peer = "open"
           PROVE  Dialogue(t, j, r, q)
      <3>2. \/ k.peer = "open" /\ l.peer = "open" /\ l.out = k.out \o First(s.buf[x], n)
            \/ x = "server" /\ l.peer # "open" /\ l.out = k.out /\ k.out = <<>>
        <4>1. x = "server" /\ k.peer = "fin" => k.out = <<>>
          BY <1>5
        <4> HIDE DEF x, k, s
        <4> QED BY <1>6, <2>11, <4>1
      <3>1. Writes(s, sock[c], x, n, t, j, l)
        BY <1>2, <1>3, <1>6, <2>8, <2>10, <3>2, Zenon DEF Writes, OtherSocket, a
      <3> HIDE DEF x, s
      <3> QED BY <1>1, <2>11, <3>1, WriteDialogue
    <2>12. /\ j.client.peer = "open" => sock[c].client.peer = "open" /\ (x = "server" \/ k.peer = "open")
           /\ j.client.peer # "open" => j.client.out = sock[c].client.out
      <3>1. CASE x = "server"
        BY <2>10, <3>1, SMTT(30)
      <3>2. CASE x = "client"
        <4>1. j.client = l /\ k = sock[c].client
          BY <2>10, <3>2
        <4> HIDE DEF k
        <4> QED BY <1>6, <4>1
      <3> QED BY <1>3, <3>1, <3>2
    <2> HIDE DEF x
    <2> QED BY <1>3, <1>6, <2>7, <2>9, <2>11, <2>12, IoReplies DEF j
  <1>7. ASSUME NEW n \in 1 .. Len(s.buf[x]), k.peer = "open",
               IoStep(c, Wrote(n), x, [k EXCEPT !.out = @ \o First(s.buf[x], n)])
        PROVE  ReplyInv'
    <2> DEFINE l == [k EXCEPT !.out = k.out \o First(s.buf[x], n)]
    <2>1. n \in 0 .. Len(s.buf[x])
      BY <1>4, LenProperties
    <2>2. k.out \o First(s.buf[x], n) \in Seq(Word)
      BY <1>4, <2>1, CutFacts, ConcatProperties, SMTT(30)
    <2>3. /\ l \in Socket /\ l.in = k.in /\ l.peer = k.peer
          /\ l.out = k.out \o First(s.buf[x], n)
      BY <1>4, <2>2 DEF Socket
    <2>4. IoStep(c, Wrote(n), x, l)
      BY <1>7, Zenon
    <2> HIDE DEF l, Wrote, k, x, s
    <2> QED BY <1>6, <1>7, <2>3, <2>4
  <1>8. ASSUME NEW n \in 1 .. Len(s.buf[x]), k.peer = "fin", NEW p \in {"fin", "rst"},
               IoStep(c, Wrote(n), x, [k EXCEPT !.peer = p])
        PROVE  ReplyInv'
    <2> DEFINE l == [k EXCEPT !.peer = p]
    <2>1. l \in Socket /\ l.in = k.in /\ l.peer = p /\ l.out = k.out
      BY <1>4 DEF Socket
    <2>2. IoStep(c, Wrote(n), x, l)
      BY <1>8, Zenon
    <2> HIDE DEF l, Wrote, k, x, s
    <2> QED BY <1>6, <1>8, <2>1, <2>2
  <1>9. CASE k.peer = "rst" /\ IoStep(c, [s EXCEPT !.ec = "failed"], x, k)
    BY <1>2, <1>9, EndedReplies
  <1> QED BY <1>7, <1>8, <1>9 DEF async_write

-----------------------------------------------------------------------------
\* The clock and the timers do not touch what is said.
LEMMA TimerReplies ==
    ASSUME ProxyInv, ReplyInv, NEW c \in Conn, TimerExpires(c)
    PROVE  ReplyInv'
  <1> DEFINE s == conn[c]
             t == [s EXCEPT !.wait = "success"]
  <1>1. s \in Connection /\ Kept(s)
    BY ServedFacts
  <1>2. /\ s.wait = "pending" /\ UNCHANGED <<sock, says>>
        /\ conn' = [conn EXCEPT ![c] = IF Released(t) THEN NoConnection ELSE t]
    BY DEF TimerExpires, Becomes
  <1>3. LooksLike(t, s.open, s.op, s.ec, "success", s.buf)
    BY <1>1 DEF LooksLike, Connection, ErrorCode
  <1> HIDE DEF t
  <1>4. t.open /\ Kept(t) /\ t \in Connection
    BY <1>1, <1>2, <1>3 DEF Kept, LooksLike
  <1>5. conn'[c] = t /\ \A d \in Conn : d # c => UNCHANGED <<conn[d], sock[d], says[d]>>
    BY <1>2, <1>4, TypeFacts DEF Released
  <1>6. \A r, q \in Seq(Word) : Dialogue(s, sock[c], r, q) => Dialogue(t, sock[c], r, q)
    BY <1>3, DialogueSame DEF LooksLike
  <1>7. Served(t, sock[c], says[c].said)
    BY <1>4, <1>6, ServedFacts, ServedStep
  <1> QED BY <1>2, <1>5, <1>7, RepliesStep

LEMMA TickReplies ==
    ASSUME ProxyInv, ReplyInv, Tick
    PROVE  ReplyInv'
  <1>1. /\ conn' = [c \in Conn |-> Sooner(conn[c])]
        /\ sock' = [c \in Conn |-> [sock[c] EXCEPT !.server = Sooner(@)]]
        /\ UNCHANGED says
    BY DEF Tick
  <1>2. \A k \in Socket : /\ Sooner(k) \in Socket /\ Sooner(k).in = k.in /\ Sooner(k).out = k.out
                          /\ Sooner(k).peer = k.peer
    BY DEF Sooner, Socket
  <1>3. ASSUME NEW s \in Connection
        PROVE  LooksLike(Sooner(s), s.open, s.op, s.ec, s.wait, s.buf)
    BY DEF LooksLike, Sooner, Connection
  <1>4. ASSUME NEW c \in Conn
        PROVE  Served(conn'[c], sock'[c], says'[c].said)
    <2> DEFINE s == conn[c]
               k == sock[c]
               t == conn'[c]
               j == sock'[c]
    <2>1. s \in Connection /\ k \in Sockets /\ Kept(s)
      BY ServedFacts
    <2>2. LooksLike(t, s.open, s.op, s.ec, s.wait, s.buf)
      BY <1>1, <1>3, <2>1
    <2>3. /\ j \in Sockets /\ j.client = k.client
          /\ j.server = Sooner(k.server) /\ k.server \in Socket
      BY <1>1, <1>2, <2>1 DEF Sockets
    <2>4. Kept(t) /\ t \in Connection
      BY <2>1, <2>2 DEF Kept, LooksLike
    <2>5. \A r, q \in Seq(Word) : Dialogue(s, k, r, q) => Dialogue(t, j, r, q)
      BY <1>2, <2>2, <2>3, DialogueSame DEF LooksLike
    <2> HIDE DEF t, j
    <2>6. Served(t, j, says[c].said)
      BY <2>3, <2>4, <2>5, ServedFacts, ServedStep
    <2> QED BY <1>1, <2>6 DEF t, j
  <1> QED BY <1>4 DEF ReplyInv

\* The socket to the server of one connection changes.
LEMMA ServerReplies ==
    ASSUME ProxyInv, ReplyInv, NEW c \in Conn, NEW l \in Socket,
           sock' = [sock EXCEPT ![c] = [sock[c] EXCEPT !.server = l]], UNCHANGED <<conn, says>>,
           LET j == [sock[c] EXCEPT !.server = l] IN
           \A r, q \in Seq(Word) : Dialogue(conn[c], sock[c], r, q) => Dialogue(conn[c], j, r, q)
    PROVE  ReplyInv'
  <1> DEFINE j == [sock[c] EXCEPT !.server = l]
  <1>1. j \in Sockets /\ j.client = sock[c].client
    BY ServedFacts DEF Sockets
  <1>2. sock'[c] = j /\ \A d \in Conn : d # c => UNCHANGED <<conn[d], sock[d], says[d]>>
    BY TypeFacts
  <1>3. \A r, q \in Seq(Word) : Dialogue(conn[c], sock[c], r, q) => Dialogue(conn[c], j, r, q)
    OBVIOUS
  <1> HIDE DEF j
  <1>4. Served(conn[c], j, says[c].said)
    BY <1>1, <1>3, ServedFacts, ServedStep
  <1> QED BY <1>2, <1>4, RepliesStep

\* The server answers this client's request, and no other.
LEMMA AnswerReplies ==
    ASSUME ProxyInv, ReplyInv, NEW c \in Conn, Answer(c)
    PROVE  ReplyInv'
  <1> DEFINE s == conn[c]
             k == sock[c]
  <1>1. PICK l \in Socket : /\ Answers(s, k.server, l)
                            /\ sock' = [sock EXCEPT ![c] = [sock[c] EXCEPT !.server = l]]
    BY AnswerFacts
  <1>2. UNCHANGED <<conn, says>>
    BY AnswerFacts
  <1> DEFINE j == [sock[c] EXCEPT !.server = l]
  <1>3. j.server = l /\ j.client = k.client
    BY ServedFacts DEF Sockets
  <1> HIDE DEF j
  <1>4. ASSUME NEW r \in Seq(Word), NEW q \in Seq(Word), Dialogue(s, k, r, q)
        PROVE  Dialogue(s, j, r, q)
    <2> DEFINE out == k.server.out
    <2>1. /\ s.open /\ s.op \in {"handleWriteRequest", "handleReadResponse"} /\ s.buf.server = <<>>
          /\ out \in Seq(Word) /\ out # <<>>
          /\ StartsWith(out, CLIENT_REQUEST_TYPE) /\ FindZodiac(Tail(out))
          /\ l.out = <<>> /\ l.in = Horoscope[out[2]] /\ OneLine(l.in) /\ l.in \in Seq(Word)
      BY <1>1 DEF Answers, Socket
    <2>2. /\ s.buf.client = <<>> /\ k.client.in = <<>> /\ k.client.out = r
          /\ Relayed(s.op, s.buf.server, k.server, q)
      BY <1>4, <2>1 DEF Dialogue
    <2>3. out \o <<>> = q
      BY <2>1, <2>2, Zenon DEF Relayed, Unanswered
    <2>4. out = q
      <3>1. out \o <<>> = out
        BY <2>1, ConcatEmptySeq
      <3> QED BY <2>3, <3>1, Zenon
    <2> HIDE DEF out
    <2>5. l.in = ReplyTo(q)
      BY <2>1, <2>4, ReplyCases
    <2>6. <<>> \o l.in = l.in
      BY <2>1, ConcatEmptySeq
    <2>7. Relayed(s.op, s.buf.server, l, q)
      BY <2>1, <2>5, <2>6, Zenon DEF Relayed
    <2> QED BY <1>3, <2>1, <2>2, <2>7 DEF Dialogue
  <1> QED BY <1>1, <1>2, <1>4, ServerReplies DEF j

\* What the server was asked is lost with it, and no client gets a reply for it.
LEMMA DropsReplies ==
    ASSUME ProxyInv, ReplyInv, ServerDrops
    PROVE  ReplyInv'
  <1>1. UNCHANGED <<conn, says>>
    BY DEF ServerDrops
  <1>2. CASE UNCHANGED sock
    BY <1>1, <1>2, RepliesStay
  <1>3. ASSUME NEW p \in {"fin", "rst"}, NEW c \in Conn,
               sock' = [sock EXCEPT ![c].server = Lost(@, p)]
        PROVE  ReplyInv'
    <2> DEFINE s == conn[c]
               k == sock[c]
               l == Lost(k.server, p)
               j == [sock[c] EXCEPT !.server = l]
    <2>1. k \in Sockets /\ k.server \in Socket
      BY ServedFacts
    <2>2. l \in Socket /\ l.out = <<>> /\ l.in = k.server.in /\ l.peer # "open"
      <3> DEFINE e == <<>>
                 z == 0
                 m == [k.server EXCEPT !.out = e, !.peer = p, !.left = z]
      <3>1. e \in Seq(Word) /\ z \in Nat /\ l = m
        BY DEF Lost
      <3> HIDE DEF e, z, l, k
      <3>2. m \in Socket /\ m.out = e /\ m.in = k.server.in /\ m.peer = p
        BY <2>1, <3>1 DEF Socket
      <3> HIDE DEF m
      <3> QED BY <3>1, <3>2 DEF e
    <2> HIDE DEF l
    <2>3. sock' = [sock EXCEPT ![c] = j]
      BY <1>3, TypeFacts DEF l
    <2>4. j.server = l /\ j.client = k.client
      BY <2>1 DEF Sockets
    <2> HIDE DEF j
    <2>5. ASSUME NEW r \in Seq(Word), NEW q \in Seq(Word), Dialogue(s, k, r, q)
          PROVE  Dialogue(s, j, r, q)
      <3>1. \A op, buf : Relayed(op, buf, k.server, q) => Relayed(op, buf, l, q)
        BY <2>2, Zenon DEF Relayed, Unanswered
      <3> QED BY <2>4, <2>5, <3>1, Zenon DEF Dialogue
    <2> QED BY <1>1, <2>2, <2>3, <2>5, ServerReplies DEF j
  <1> QED BY <1>2, <1>3 DEF ServerDrops

-----------------------------------------------------------------------------
\* The dialogue with a client that was accepted begins with its first line.
LEMMA AcceptReplies ==
    ASSUME ProxyInv, ReplyInv, handleAccept
    PROVE  ReplyInv'
  <1>1. chain.op = "handleAccept" /\ UNCHANGED says
    BY DEF handleAccept, Accepted
  <1>2. CASE chain.ec # "success"
    <2>1. UNCHANGED <<conn, sock>>
      BY <1>2 DEF handleAccept, Accepted
    <2> QED BY <1>1, <2>1, RepliesStay
  <1>3. CASE chain.ec = "success"
    <2> DEFINE c == Head(backlog)
               s == conn[c]
               k == sock[c]
               t == start(NoConnection)
               j == [sock[c] EXCEPT !.server = spare]
    <2>1. backlog # <<>>
      BY <1>1, <1>3 DEF ProxyInv, ChainInv
    <2>2. c \in Conn /\ s = NoConnection
      <3>1. c \in Conn /\ Holds(backlog, c)
        BY <2>1, TypeFacts, Popped DEF ProxyInv, BacklogInv
      <3> QED BY <3>1 DEF ProxyInv, BacklogInv
    <2>3. /\ conn' = [conn EXCEPT ![c] = IF Released(t) THEN NoConnection ELSE t]
          /\ sock' = [sock EXCEPT ![c].server = spare]
      BY <1>3, <2>2 DEF handleAccept, Accepted, Becomes
    <2> HIDE DEF c, t
    <2>4. /\ LooksLike(t, TRUE, "handleReadRequest", "pending", "pending",
                       [client |-> <<>>, server |-> <<>>])
          /\ ~Released(t)
      BY StartFacts DEF t
    <2>5. Kept(t) /\ t \in Connection
      BY <2>4 DEF LooksLike, Kept
    <2>6. conn'[c] = t /\ sock'[c] = j /\ \A d \in Conn : d # c => UNCHANGED <<conn[d], sock[d], says[d]>>
      BY <1>1, <2>2, <2>3, <2>4, TypeFacts
    <2>7. k \in Sockets /\ j \in Sockets /\ j.client = k.client
      BY <2>2, TypeFacts, ServedFacts DEF Sockets
    <2> HIDE DEF j
    <2>8. ASSUME NEW r \in Seq(Word), NEW q \in Seq(Word), Dialogue(s, k, r, q)
          PROVE  Dialogue(t, j, r, q)
      <3>1. k.client.in = q /\ k.client.out = r
        BY <2>2, <2>8 DEF Dialogue, NoConnection
      <3>2. <<>> \o q = q
        BY ConcatEmptySeq
      <3>3. Listening(<<>>, j.client, r, q)
        BY <2>7, <3>1, <3>2, Zenon DEF Listening
      <3> QED BY <2>4, <3>3 DEF Dialogue, LooksLike
    <2>9. Served(t, j, says[c].said)
      BY <2>2, <2>5, <2>7, <2>8, ServedFacts, ServedStep
    <2> QED BY <1>1, <2>2, <2>6, <2>9, RepliesStep
  <1> QED BY <1>2, <1>3

LEMMA ExitReplies ==
    ASSUME ReplyInv, Exit
    PROVE  ReplyInv'
  <1>1. \A c \in Conn : sock'[c] = NoSockets /\ says'[c].said = <<>>
    BY DEF Exit, Nothing
  <1> QED BY <1>1, ServedNobody DEF ReplyInv

-----------------------------------------------------------------------------
\* A client that has the replies to all it said begins a new dialogue.
LEMMA SendDialogue ==
    ASSUME NEW s \in Connection, Kept(s), NEW k \in Sockets, NEW j \in Sockets,
           NEW r \in Seq(Word), NEW q \in Seq(Word), NEW p \in Seq(Word), NEW n \in Nat,
           Dialogue(s, k, r, q), Delimiters(r) < n, Delimiters(k.client.out) = n,
           NEW all, all = r \o ReplyTo(q),
           j.client.in = k.client.in \o p, j.client.out = k.client.out
    PROVE  k.client.out = all /\ Dialogue(s, j, all, p)
  <1> DEFINE buf == s.buf.client
             in == k.client.in
             out == k.client.out
  <1>1. ReplyTo(q) \in Seq(Word) /\ all \in Seq(Word)
    BY ReplyFacts, ConcatProperties
  <1>2. buf \in Seq(Word) /\ out \in Seq(Word) /\ in \in Seq(Word)
    <2>1. k.client \in Socket
      BY DEF Sockets
    <2> QED BY <2>1, Fields DEF Socket
  <1>3. out # r
    <2>1. Delimiters(r) \in Nat /\ Delimiters(r) < Delimiters(out)
      BY DelimitersReply
    <2> HIDE DEF out
    <2> QED BY <2>1
  <1>4. s.open /\ s.op \in {"handleReadRequest", "handleWriteResponse"}
    BY <1>3, Fields DEF Dialogue, Kept, Handler
  <1>5. ~Replying(buf, k.client, r, q)
    <2> SUFFICES ASSUME Replying(buf, k.client, r, q) PROVE FALSE
      OBVIOUS
    <2>1. out \o buf = all /\ buf # <<>> /\ buf[Len(buf)] = DELIMITER
      BY Zenon DEF Replying
    <2>2. Delimiters(out \o buf) >= n + 1 /\ Delimiters(out \o buf) \in Nat
      BY <1>2, <2>1, DelimitersFacts
    <2>3. Delimiters(r) \in Nat /\ Delimiters(all) \in Nat /\ Delimiters(all) <= Delimiters(r) + 1
      BY DelimitersReply
    <2> HIDE DEF out
    <2> QED BY <2>1, <2>2, <2>3
  <1>6. Listening(buf, k.client, r, q)
    BY <1>4, <1>5, Zenon DEF Dialogue
  <1>7. buf = <<>> /\ in = <<>> /\ out = all
    BY <1>3, <1>6, Zenon DEF Listening
  <1>8. buf \o j.client.in = p
    <2>1. <<>> \o p = p
      BY ConcatEmptySeq
    <2> QED BY <1>7, <2>1, Zenon
  <1>9. Listening(buf, j.client, all, p)
    BY <1>7, <1>8, Zenon DEF Listening
  <1>10. Dialogue(s, j, all, p)
    BY <1>4, <1>7, <1>9 DEF Dialogue
  <1> QED BY <1>7, <1>10

\* What was said before the newest piece.
LEMMA SaidMore ==
    ASSUME NEW said \in Seq(Seq(Word)), NEW p \in Seq(Word)
    PROVE  LET more == Append(said, p) IN
           /\ more \in Seq(Seq(Word)) /\ more # <<>> /\ Len(more) = Len(said) + 1
           /\ Newest(more) = p /\ Earlier(more) = Replies(said)
           /\ LinesOnly(more) => LinesOnly(said)
  <1> DEFINE more == Append(said, p)
             n == Len(said)
             f == First(more, n)
  <1>1. /\ more \in Seq(Seq(Word)) /\ Len(more) = n + 1 /\ n \in Nat
        /\ \A i \in 1 .. n : more[i] = said[i]
        /\ more[n + 1] = p
    BY AppendProperties, LenProperties
  <1> HIDE DEF more
  <1>2. more # <<>>
    BY <1>1, EmptySeq
  <1>3. n \in 0 .. Len(more) /\ Len(more) - 1 = n
    BY <1>1
  <1>4. f = said
    <2> HIDE DEF n
    <2>1. f \in Seq(Seq(Word)) /\ Len(f) = n /\ \A i \in 1 .. n : f[i] = more[i]
      BY <1>1, <1>3, CutFacts
    <2> HIDE DEF f
    <2> USE DEF n
    <2>2. \A i \in 1 .. Len(f) : f[i] = said[i]
      BY <1>1, <2>1
    <2> QED BY <2>1, <2>2, SeqEqual
  <1>5. Earlier(more) = Replies(said)
    BY <1>3, <1>4, Zenon DEF Earlier
  <1>6. Newest(more) = p
    BY <1>1 DEF Newest
  <1>7. LinesOnly(more) => LinesOnly(said)
    BY <1>1 DEF LinesOnly
  <1> QED BY <1>1, <1>2, <1>5, <1>6, <1>7 DEF more

\* A client that has just said something new.
LEMMA ServedNewest ==
    ASSUME NEW s \in Connection, Kept(s), NEW j \in Sockets,
           NEW said \in Seq(Seq(Word)), NEW p \in Seq(Word),
           LinesOnly(Append(said, p)) =>
              /\ Delimiters(Replies(said)) < Len(said) + 1
              /\ Dialogue(s, j, Replies(said), p)
    PROVE  Served(s, j, Append(said, p))
  <1> DEFINE more == Append(said, p)
             r == Replies(said)
  <1>1. /\ more \in Seq(Seq(Word)) /\ more # <<>> /\ Len(more) = Len(said) + 1
        /\ Newest(more) = p /\ Earlier(more) = r
    BY SaidMore
  <1>2. r \in Seq(Word)
    BY RepliesAreWords
  <1> HIDE DEF more, r
  <1>3. Replies(more) = r \o ReplyTo(p)
    BY <1>1, RepliesGrow, Zenon
  <1>4. ASSUME LinesOnly(more)
        PROVE  /\ Begins(j.client.out, Replies(more))
               /\ Delimiters(Earlier(more)) < Len(more)
               /\ Dialogue(s, j, Earlier(more), Newest(more))
    <2>1. Delimiters(r) < Len(said) + 1 /\ Dialogue(s, j, r, p)
      BY <1>4 DEF more, r
    <2>2. Begins(j.client.out, r \o ReplyTo(p))
      BY <1>2, <2>1, DialogueBegins
    <2> QED BY <1>1, <1>3, <2>1, <2>2
  <1>5. Served(s, j, more)
    BY <1>1, <1>4 DEF Served
  <1> QED BY <1>5 DEF more

\* A client that connects, says something more, or leaves.
LEMMA ConnectReplies ==
    ASSUME ProxyInv, ReplyInv, NEW c \in Conn, NEW s \in Streams, Connect(c, s)
    PROVE  ReplyInv'
  <1> DEFINE p == Head(s)
             e == <<>>
             l == [NoSocket EXCEPT !.in = p, !.peer = "open"]
             j == [sock[c] EXCEPT !.client = l]
             w == [said |-> <<p>>, todo |-> Tail(s)]
  <1>1. p \in Seq(Word)
    <2>1. s \in Seq(Seq(Word)) /\ s # <<>>
      BY BoostProxyAssumption
    <2> QED BY <2>1, HeadTailProperties
  <1>2. l \in Socket /\ l.in = p /\ l.out = <<>>
    <2> HIDE DEF p
    <2> QED BY <1>1, NoConnectionFacts DEF Socket, NoSocket
  <1>3. /\ conn[c] = NoConnection /\ UNCHANGED conn
        /\ sock' = [sock EXCEPT ![c].client = l] /\ says' = [says EXCEPT ![c] = w]
    BY DEF Connect
  <1>4. w.said = <<p>>
    OBVIOUS
  <1> HIDE DEF l, w, p
  <1>5. sock'[c] = j /\ says'[c] = w /\ \A d \in Conn : d # c => UNCHANGED <<conn[d], sock[d], says[d]>>
    BY <1>3, TypeFacts
  <1>6. j \in Sockets /\ j.client = l
    BY <1>2, ServedFacts DEF Sockets
  <1> HIDE DEF j
  <1>7. Dialogue(NoConnection, j, <<>>, p)
    BY <1>2, <1>6 DEF Dialogue, NoConnection
  <1>8. e \in Seq(Seq(Word)) /\ Append(e, p) = <<p>> /\ Replies(e) = <<>> /\ Len(e) = 0
    BY RepliesEmpty
  <1>9. Delimiters(Replies(e)) < Len(e) + 1 /\ Dialogue(NoConnection, j, Replies(e), p)
    <2> HIDE DEF e
    <2> QED BY <1>7, <1>8, DelimitersEmpty
  <1> HIDE DEF e
  <1>10. Served(conn[c], j, Append(e, p))
    BY <1>1, <1>3, <1>6, <1>8, <1>9, ServedFacts, ServedNewest
  <1>11. Served(conn'[c], sock'[c], says'[c].said)
    BY <1>3, <1>4, <1>5, <1>8, <1>10
  <1> QED BY <1>5, <1>11, RepliesStep

LEMMA SendReplies ==
    ASSUME ProxyInv, ReplyInv, NEW c \in Conn, SendNext(c)
    PROVE  ReplyInv'
  <1> DEFINE k == sock[c]
             p == Head(says[c].todo)
             e == k.client.in \o p
             l == [k.client EXCEPT !.in = e]
             j == [k EXCEPT !.client = l]
             said == says[c].said
             w == [said |-> Append(said, p), todo |-> Tail(says[c].todo)]
  <1>1. /\ says[c].todo # <<>> /\ UNCHANGED conn
        /\ k.client.peer = "open" /\ Delimiters(k.client.out) = Len(said)
        /\ sock' = [sock EXCEPT ![c].client.in = @ \o p]
        /\ says' = [says EXCEPT ![c] = w]
    BY TypeFacts DEF SendNext
  <1>2. /\ p \in Seq(Word) /\ said \in Seq(Seq(Word)) /\ k \in Sockets
        /\ k.client \in Socket /\ k.client.in \in Seq(Word)
    <2>1. said \in Seq(Seq(Word)) /\ says[c].todo \in Seq(Seq(Word)) /\ k \in Sockets /\ k.client \in Socket
      BY ServedFacts
    <2>2. k.client.in \in Seq(Word)
      BY <2>1 DEF Socket
    <2>3. p \in Seq(Word)
      BY <1>1, <2>1, HeadTailProperties
    <2> QED BY <2>1, <2>2, <2>3
  <1>3. e \in Seq(Word)
    BY <1>2, ConcatProperties
  <1>4. w.said = Append(said, p)
    OBVIOUS
  <1>5. sock' = [sock EXCEPT ![c] = j]
    BY <1>1, TypeFacts
  <1> HIDE DEF e, w, p, said
  <1>6. l \in Socket /\ l.in = e /\ l.out = k.client.out
    BY <1>2, <1>3 DEF Socket
  <1> HIDE DEF l
  <1>7. j \in Sockets /\ j.client = l
    BY <1>2, <1>6 DEF Sockets
  <1> HIDE DEF j
  <1>8. sock'[c] = j /\ says'[c] = w /\ \A d \in Conn : d # c => UNCHANGED <<conn[d], sock[d], says[d]>>
    BY <1>1, <1>5, TypeFacts
  <1>9. ASSUME LinesOnly(Append(said, p))
        PROVE  /\ Delimiters(Replies(said)) < Len(said) + 1
               /\ Dialogue(conn[c], j, Replies(said), p)
    <2> DEFINE r == Earlier(said)
               q == Newest(said)
    <2>1. LinesOnly(said)
      BY <1>2, <1>9, SaidMore
    <2>2. said # <<>> /\ Delimiters(r) < Len(said) /\ Dialogue(conn[c], k, r, q)
      BY <1>1, <2>1, ServedFacts DEF Served, said
    <2>3. r \in Seq(Word) /\ q \in Seq(Word) /\ Len(said) \in Nat
      BY <1>2, <2>2, NewestFacts
    <2>4. Replies(said) = r \o ReplyTo(q)
      BY <1>2, <2>2, RepliesGrow
    <2> HIDE DEF r, q
    <2>5. conn[c] \in Connection /\ Kept(conn[c])
      BY ServedFacts
    <2>6. j.client.in = k.client.in \o p
      BY <1>6, <1>7 DEF e
    <2>7. j.client.out = k.client.out
      BY <1>6, <1>7
    <2> DEFINE s == conn[c]
    <2>8. /\ s \in Connection /\ Kept(s) /\ k \in Sockets /\ j \in Sockets
          /\ Dialogue(s, k, r, q) /\ Delimiters(r) < Len(said) /\ Delimiters(k.client.out) = Len(said)
      BY <1>1, <1>2, <1>7, <2>2, <2>5
    <2>9. k.client.out = Replies(said) /\ Dialogue(s, j, Replies(said), p)
      <3> HIDE DEF s, k
      <3> QED BY <1>2, <2>3, <2>4, <2>6, <2>7, <2>8, SendDialogue
    <2>10. Delimiters(Replies(said)) = Len(said)
      BY <1>1, <2>9
    <2> QED BY <2>3, <2>9, <2>10
  <1>10. Served(conn[c], j, Append(said, p))
    BY <1>2, <1>7, <1>9, ServedFacts, ServedNewest
  <1>11. Served(conn'[c], sock'[c], says'[c].said)
    BY <1>1, <1>4, <1>8, <1>10
  <1> QED BY <1>8, <1>11, RepliesStep

LEMMA CloseReplies ==
    ASSUME ProxyInv, ReplyInv, NEW c \in Conn, NEW arrives \in BOOLEAN, ClientClose(c, arrives)
    PROVE  ReplyInv'
  <1> DEFINE k == sock[c].client
             e == IF arrives THEN k.in ELSE <<>>
             l == [k EXCEPT !.in = e, !.peer = "fin"]
             j == [sock[c] EXCEPT !.client = l]
  <1>1. k \in Socket /\ k.in \in Seq(Word) /\ sock[c] \in Sockets
    BY ServedFacts DEF Socket
  <1>2. e \in Seq(Word)
    BY <1>1
  <1>3. UNCHANGED <<conn, says>> /\ sock' = [sock EXCEPT ![c] = j]
    BY TypeFacts DEF ClientClose
  <1> HIDE DEF e
  <1>4. l \in Socket /\ l.peer = "fin" /\ l.out = k.out
    BY <1>1, <1>2 DEF Socket
  <1> HIDE DEF l
  <1>5. j \in Sockets /\ j.client = l
    BY <1>1, <1>4 DEF Sockets
  <1> HIDE DEF j
  <1>6. Served(conn[c], j, says[c].said)
    BY <1>4, <1>5, ServedFacts, ServedStep
  <1>7. sock'[c] = j /\ \A d \in Conn : d # c => UNCHANGED <<conn[d], sock[d], says[d]>>
    BY <1>3, TypeFacts
  <1> QED BY <1>3, <1>6, <1>7, RepliesStep

LEMMA ClientReplies ==
    ASSUME ProxyInv, ReplyInv, NEW c \in Conn, Client(c)
    PROVE  ReplyInv'
  BY ConnectReplies, SendReplies, CloseReplies DEF Client

-----------------------------------------------------------------------------
LEMMA InitReplies == Init => ReplyInv
  <1> SUFFICES ASSUME Init, NEW c \in Conn
               PROVE  Served(conn[c], sock[c], says[c].said)
    BY DEF ReplyInv
  <1>1. sock[c] = NoSockets /\ says[c].said = <<>>
    BY DEF Init, Nothing
  <1> QED BY <1>1, ServedNobody

LEMMA NextReplies == ProxyInv /\ ReplyInv /\ [Next]_vars => ReplyInv'
  <1> SUFFICES ASSUME ProxyInv, ReplyInv, [Next]_vars
               PROVE  ReplyInv'
    OBVIOUS
  <1>1. CASE handleResolve \/ handleConnect
    <2>1. UNCHANGED <<conn, sock, says>>
      BY <1>1 DEF handleResolve, handleConnect
    <2> QED BY <2>1, RepliesStay
  <1>2. CASE handleAccept
    BY <1>2, AcceptReplies
  <1>3. CASE Exit
    BY <1>3, ExitReplies
  <1>4. ASSUME NEW c \in Conn, RunHandler(c) PROVE ReplyInv'
    BY <1>4, RunHandlerReplies
  <1>5. CASE Tick
    BY <1>5, TickReplies
  <1>6. CASE ServerDrops
    BY <1>6, DropsReplies
  <1>7. ASSUME NEW ec \in {"success", "failed"}, ChainOperation(ec) PROVE ReplyInv'
    <2>1. UNCHANGED <<conn, sock, says>>
      BY <1>7 DEF ChainOperation
    <2> QED BY <2>1, RepliesStay
  <1>8. ASSUME NEW c \in Conn, async_read_until(c) PROVE ReplyInv'
    BY <1>8, ReadReplies
  <1>9. ASSUME NEW c \in Conn, async_write(c) PROVE ReplyInv'
    BY <1>9, WriteReplies
  <1>10. ASSUME NEW c \in Conn, TimerExpires(c) PROVE ReplyInv'
    BY <1>10, TimerReplies
  <1>11. ASSUME NEW c \in Conn, Answer(c) PROVE ReplyInv'
    BY <1>11, AnswerReplies
  <1>12. ASSUME NEW c \in Conn, Client(c) PROVE ReplyInv'
    BY <1>12, ClientReplies
  <1>13. CASE UNCHANGED vars
    BY <1>13, RepliesStay DEF vars
  <1>14. CASE Ended
    BY <1>13, <1>14 DEF Ended
  <1> QED BY <1>1, <1>2, <1>3, <1>4, <1>5, <1>6, <1>7, <1>8, <1>9, <1>10, <1>11, <1>12, <1>13,
             <1>14 DEF Next, run

\* While a client that says one line at a time is there, what is in the buffers
\* and the sockets between it, the proxy and the server is the request it said
\* last, the server's answer to that request or the reply to it, and before
\* that it was sent the replies to everything it said earlier.
THEOREM RepliesInvariant == Spec => []ReplyInv
  <1>1. Init => ReplyInv
    BY InitReplies
  <1>2. ProxyInv /\ ReplyInv /\ [Next]_vars => ReplyInv'
    BY NextReplies
  <1> QED BY <1>1, <1>2, ProxyInvariant, PTL DEF Spec

\* A client that sends a line at a time and waits for the reply is sent the
\* replies to its own requests, in their order and byte for byte: the four
\* handlers of a Connection neither mix up the words of two requests, nor those
\* of two clients, nor lose or repeat a part of a line that was sent or received
\* in pieces.
THEOREM RepliesAreOwn == Spec => []OwnReply
  <1>1. ReplyInv => OwnReply
    BY DEF ReplyInv, Served, LinesOnly, OwnReply
  <1> QED BY <1>1, RepliesInvariant, PTL

=============================================================================
