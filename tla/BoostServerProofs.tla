--------------------------- MODULE BoostServerProofs ---------------------------
(***************************************************************************)
(* The safety of the Boost server for every number of clients, whatever    *)
(* they say, every set of signs, every timeout and every size of the       *)
(* sockets' buffers: no handler is lost or called twice, an accept is      *)
(* always outstanding, and no client is dropped without a reason.  The     *)
(* second half proves that clients that wait for the reply to a request    *)
(* before they send another are served as AstrologService promises.        *)
(***************************************************************************)
EXTENDS BoostServer, AsioProofs

Handlers == {ACCEPT} \cup ({"io", "deadline"} \X Conn)

Reads == {"handleReadRequest", "handleReadPrognosis"}

-----------------------------------------------------------------------------
\* What holds of one connection whose client is peer: a read that was successful
\* has a line, a prognosis is read for a known sign, an operation of a
\* connection that is open is not aborted and fails only when the client left,
\* and a wait ends when the timer expires or is given a new expiry.
Sound(s, peer) ==
    /\ Kept(s)
    /\ s.wait \in {"none", "pending", "success", "aborted"}
    /\ s.op \in Reads /\ s.ec = "success" => HasLine(s.buf)
    /\ s.op = "handleReadPrognosis" => s.zodiac \in Zodiac
    /\ s.open => s.ec # "aborted" /\ (s.ec \in {"eof", "failed"} => peer \in {"fin", "rst"})

\* There is always an accept outstanding, and a client that was accepted.
AcceptInv ==
    /\ Holds(queue, ACCEPT) <=> Over(accepting)
    /\ accepting # "none"
    /\ accepting = "success" => backlog # <<>>

\* A client that waits to be accepted has no Connection object yet.
BacklogInv ==
    /\ Distinct(backlog)
    /\ \A c \in Conn : Holds(backlog, c) => conn[c] = NoConnection /\ net[c].peer # "none"

\* The inductive invariant.
ServerInv ==
    /\ TypeOK
    /\ Distinct(queue)
    /\ \A c \in Conn : InStep(c) /\ Sound(conn[c], net[c].peer)
    /\ AcceptInv
    /\ BacklogInv

-----------------------------------------------------------------------------
LEMMA NumberFacts ==
    /\ ReadRequestTimeout \in Nat /\ ReadPrognosisTimeout \in Nat /\ WriteResponseTimeout \in Nat
    /\ SNDBUF \in Nat /\ SNDBUF > 0
  BY BoostServerAssumption

LEMMA HandlerFacts ==
    /\ "handleReadRequest" \in Handler /\ "handleReadPrognosis" \in Handler
    /\ "handleWriteResponse" \in Handler
  BY DEF Handler

\* The fields of a Connection object.
LEMMA Fields ==
    ASSUME NEW s \in Connection
    PROVE  /\ s.open \in BOOLEAN /\ s.op \in Handler \cup {"none"} /\ s.ec \in ErrorCode
           /\ s.left \in Nat /\ s.wait \in ErrorCode /\ s.buf \in Seq(Word)
           /\ s.zodiac \in Zodiac \cup {NONE}
  BY DEF Connection

LEMMA NothingFacts ==
    /\ NoConnection \in Connection /\ NoSocket \in Socket
    /\ NoConnection.ec = "none" /\ NoConnection.wait = "none" /\ NoConnection.op = "none"
    /\ NoConnection.open = FALSE
    /\ \A peer : Sound(NoConnection, peer)
  <1>1. NoConnection \in Connection
    BY DEF NoConnection, Connection, ErrorCode
  <1>2. NoSocket \in Socket
    BY NumberFacts DEF NoSocket, Socket
  <1> QED BY <1>1, <1>2 DEF NoConnection, Sound, Kept, Reads

\* What a lemma says of an object.
LooksLike(t, open, op, ec, wait, buf, zodiac) ==
    /\ t \in Connection
    /\ t.open = open /\ t.op = op /\ t.ec = ec /\ t.wait = wait /\ t.buf = buf
    /\ t.zodiac = zodiac

\* The first thing a handler of an operation, or of a wait, finds.
LEMMA CalledFacts ==
    ASSUME NEW s \in Connection
    PROVE  /\ LooksLike(IoCalled(s), s.open, "none", "none", s.wait, s.buf, s.zodiac)
           /\ LooksLike(WaitCalled(s), s.open, s.op, s.ec, "none", s.buf, s.zodiac)
  <1>1. LooksLike(IoCalled(s), s.open, "none", "none", s.wait, s.buf, s.zodiac)
    BY DEF LooksLike, IoCalled, Connection, ErrorCode
  <1>2. LooksLike(WaitCalled(s), s.open, s.op, s.ec, "none", s.buf, s.zodiac)
    BY DEF LooksLike, WaitCalled, Connection, ErrorCode
  <1> QED BY <1>1, <1>2

LEMMA StopFacts ==
    ASSUME NEW s \in Connection
    PROVE  LooksLike(stop(s), FALSE, s.op, Cancelled(s.ec), Cancelled(s.wait), s.buf, s.zodiac)
  BY DEF LooksLike, stop, cancel, close, Cancelled, Connection, ErrorCode

\* A new operation is started with a new expiry.
LEMMA AsyncFacts ==
    ASSUME NEW s \in Connection, NEW h \in Handler, NEW n \in Nat
    PROVE  LooksLike(async(expires_after(s, n), h), s.open, h, "pending", Cancelled(s.wait),
                     s.buf, s.zodiac)
  BY DEF LooksLike, async, expires_after, cancel, Cancelled, Connection, ErrorCode

LEMMA WaitFacts ==
    ASSUME NEW s \in Connection
    PROVE  LooksLike(async_wait(s), s.open, s.op, s.ec, "pending", s.buf, s.zodiac)
  BY DEF LooksLike, async_wait, Connection, ErrorCode

LEMMA CancelledFacts ==
    ASSUME NEW ec
    PROVE  /\ GoesOn(ec, Cancelled(ec)) /\ Cancelled(ec) # "pending"
           /\ Cancelled(ec) = "none" <=> ec = "none"
           /\ Cancelled(ec) = "success" <=> ec = "success"
           /\ Cancelled(ec) = ec \/ Cancelled(ec) = "aborted"
  BY DEF GoesOn, Cancelled

-----------------------------------------------------------------------------
\* What a handler of an operation leaves.
IoOutcome(s, t, peer) ==
    /\ t \in Connection /\ t.ec \in {"none", "pending"}
    /\ GoesOn(s.wait, t.wait)
    /\ Sound(t, IF t.open THEN peer ELSE "none")

\* A connection that is stopped by a handler, or was stopped before.
LEMMA Stopped ==
    ASSUME NEW s \in Connection, NEW peer, Sound(s, peer), NEW t \in Connection,
           t.open = FALSE, t.op = "none", t.ec = "none",
           t.wait = Cancelled(s.wait) \/ (~s.open /\ t.wait = s.wait)
    PROVE  IoOutcome(s, t, peer)
  <1>1. s.wait \in {"none", "pending", "success", "aborted"} /\ (~s.open => s.wait # "pending")
    BY DEF Sound, Kept
  <1>2. /\ t.wait \in {"none", "pending", "success", "aborted"} /\ t.wait # "pending"
        /\ GoesOn(s.wait, t.wait)
    BY <1>1, CancelledFacts DEF GoesOn
  <1> QED BY <1>2 DEF IoOutcome, Sound, Kept, Reads

LEMMA UnlessFacts ==
    ASSUME NEW s \in Connection, NEW peer, Sound(s, peer), NEW t,
           s.open /\ s.ec = "success" => IoOutcome(s, t, peer)
    PROVE  IoOutcome(s, Unless(s, t), peer)
  <1> DEFINE r == IoCalled(s)
             u == stop(r)
  <1>1. LooksLike(r, s.open, "none", "none", s.wait, s.buf, s.zodiac) /\ s.open \in BOOLEAN
    BY CalledFacts, Fields
  <1> HIDE DEF r
  <1>2. LooksLike(u, FALSE, r.op, Cancelled(r.ec), Cancelled(r.wait), r.buf, r.zodiac)
    BY <1>1, StopFacts DEF LooksLike
  <1> HIDE DEF u
  <1>3. /\ u \in Connection /\ u.open = FALSE /\ u.op = "none" /\ u.ec = "none"
        /\ u.wait = Cancelled(s.wait)
    BY <1>1, <1>2 DEF LooksLike, Cancelled
  <1>4. IoOutcome(s, u, peer)
    BY <1>3, Stopped
  <1>5. ~s.open => IoOutcome(s, r, peer)
    BY <1>1, Stopped DEF LooksLike
  <1>6. Unless(s, t) = IF ~s.open THEN r ELSE IF s.ec # "success" THEN u ELSE t
    BY DEF Unless, u, r
  <1> QED BY <1>4, <1>5, <1>6

\* A connection that goes on with another operation.
LEMMA NextOperation ==
    ASSUME NEW s \in Connection, NEW peer, Sound(s, peer), s.open,
           NEW u \in Connection, u.open = TRUE, u.wait = s.wait, NEW h \in Handler, NEW n \in Nat,
           h = "handleReadPrognosis" => u.zodiac \in Zodiac
    PROVE  /\ IoOutcome(s, async(expires_after(u, n), h), peer)
           /\ async(expires_after(u, n), h).open = TRUE
  <1> DEFINE t == async(expires_after(u, n), h)
  <1>1. LooksLike(t, u.open, h, "pending", Cancelled(u.wait), u.buf, u.zodiac)
    BY AsyncFacts
  <1>2. s.wait \in {"none", "pending", "success", "aborted"} /\ s.wait # "none" /\ h # "none"
    BY DEF Sound, Kept, Handler
  <1> HIDE DEF t
  <1>3. /\ Cancelled(s.wait) \in {"success", "aborted"} /\ GoesOn(s.wait, Cancelled(s.wait))
    BY <1>2, CancelledFacts
  <1>4. IoOutcome(s, t, peer) /\ t.open = TRUE
    BY <1>1, <1>2, <1>3 DEF LooksLike, IoOutcome, Sound, Kept
  <1> QED BY <1>4 DEF t

LEMMA ReplyFacts == UNKNOWN_PROGNOSIS \in Seq(Word) /\ STAR_RESPONSE_SUCCESS \in Seq(Word)
  <1>1. DELIMITER \in Word
    BY DEF Word
  <1>2. UNKNOWN_PROGNOSIS[1] \in Word /\ STAR_RESPONSE_SUCCESS[1] \in Word
    BY DEF Word
  <1>3. UNKNOWN_PROGNOSIS \in Seq(Word)
    <2> DEFINE w == "OUT OF LUCK!"
    <2>1. UNKNOWN_PROGNOSIS = <<w, DELIMITER>>
      BY DEF UNKNOWN_PROGNOSIS, CLIENT_REPLY_FAILURE
    <2> HIDE DEF w
    <2>2. UNKNOWN_PROGNOSIS[1] = w
      BY <2>1
    <2>3. w \in Word
      BY <1>2, <2>2
    <2> QED BY <1>1, <2>1, <2>3
  <1>4. STAR_RESPONSE_SUCCESS \in Seq(Word)
    <2>1. STAR_RESPONSE_SUCCESS = <<"THANKS!", DELIMITER>>
      BY DEF STAR_RESPONSE_SUCCESS, STAR_REPLY_SUCCESS
    <2>2. STAR_RESPONSE_SUCCESS[1] = "THANKS!"
      BY <2>1
    <2> QED BY <1>1, <1>2, <2>1, <2>2
  <1> QED BY <1>3, <1>4

\* What getPrognosis returns is a line of words.
LEMMA PrognosisFacts ==
    ASSUME mPrognosisPerZodiac \in [Zodiac -> Seq(Word) \cup {NONE}], NEW z \in Zodiac
    PROVE  getPrognosis(z) \in Seq(Word)
  <1>1. UNKNOWN_PROGNOSIS \in Seq(Word)
    BY ReplyFacts
  <1>2. DELIMITER \in Word
    BY DEF Word
  <1>3. mPrognosisPerZodiac[z] # NONE => Append(mPrognosisPerZodiac[z], DELIMITER) \in Seq(Word)
    <2>1. mPrognosisPerZodiac[z] # NONE => mPrognosisPerZodiac[z] \in Seq(Word)
      OBVIOUS
    <2> QED BY <1>2, <2>1, AppendProperties
  <1> QED BY <1>1, <1>3 DEF getPrognosis

\* A reply goes behind what the buffer holds, and is written.
LEMMA RespondFacts ==
    ASSUME NEW s \in Connection, NEW peer, Sound(s, peer), s.open,
           NEW u \in Connection, u.open = TRUE, u.wait = s.wait, NEW a \in Seq(Word)
    PROVE  IoOutcome(s, Respond(u, a), peer) /\ Respond(u, a).open = TRUE
  <1> DEFINE b == u.buf \o a
             v == [u EXCEPT !.buf = b]
  <1>1. b \in Seq(Word)
    BY Fields, ConcatProperties
  <1>2. Respond(u, a) = async(expires_after(v, WriteResponseTimeout), "handleWriteResponse")
    BY DEF Respond
  <1> HIDE DEF b
  <1>3. v \in Connection /\ v.open = TRUE /\ v.wait = s.wait
    BY <1>1 DEF Connection
  <1> HIDE DEF v
  <1> QED BY <1>2, <1>3, NextOperation, NumberFacts, HandlerFacts

\* A request is served, or the connection is stopped because it is none.
NoRequest(l) ==
    \A type \in {STAR_REQUEST_TYPE, CLIENT_REQUEST_TYPE} : ~IsRequest(type, l)

LEMMA RequestFacts ==
    ASSUME mPrognosisPerZodiac \in [Zodiac -> Seq(Word) \cup {NONE}],
           NEW s \in Connection, NEW peer, Sound(s, peer), s.open,
           s.op = "handleReadRequest", s.ec = "success"
    PROVE  /\ IoOutcome(s, Request(IoCalled(s)), peer)
           /\ Request(IoCalled(s)).open = TRUE \/ NoRequest(getline(s.buf))
  <1> DEFINE r == IoCalled(s)
             l == getline(s.buf)
             e == Remainder(s.buf)
             t == [r EXCEPT !.buf = e]
             u == [t EXCEPT !.zodiac = l[2]]
  <1>1. LooksLike(r, s.open, "none", "none", s.wait, s.buf, s.zodiac) /\ s.open = TRUE
    BY CalledFacts, Fields
  <1>2. HasLine(s.buf) /\ s.buf \in Seq(Word)
    BY Fields DEF Sound, Reads
  <1>3. l \in Seq(Word) /\ e \in Seq(Word) /\ l # <<>>
    <2>1. l \in Seq(Word) /\ e \in Seq(Word) /\ IsLine(l, Len(l))
      BY <1>2, LineFacts
    <2> QED BY <2>1 DEF IsLine
  <1>4. /\ Request(r) = CASE IsRequest(STAR_REQUEST_TYPE, l) -> AwaitPrognosis(t, l[2])
                          [] IsRequest(CLIENT_REQUEST_TYPE, l) -> Respond(t, getPrognosis(l[2]))
                          [] OTHER -> stop(t)
    <2>1. r.buf = s.buf
      BY <1>1 DEF LooksLike
    <2> HIDE DEF r
    <2> QED BY <2>1 DEF Request
  <1> HIDE DEF l, e, r
  <1>5. LooksLike(t, TRUE, "none", "none", s.wait, e, s.zodiac)
    BY <1>1, <1>3 DEF LooksLike, Connection
  <1> HIDE DEF t
  <1>6. ASSUME NEW type, IsRequest(type, l)
        PROVE  l[2] \in Zodiac /\ l[1] = type
    BY <1>3, <1>6, ZodiacFacts DEF IsRequest, StartsWith
  <1>7. CASE IsRequest(STAR_REQUEST_TYPE, l)
    <2>1. l[2] \in Zodiac /\ ~IsRequest(CLIENT_REQUEST_TYPE, l)
      <3>1. l[2] \in Zodiac /\ l[1] = STAR_REQUEST_TYPE
        BY <1>6, <1>7
      <3>2. IsRequest(CLIENT_REQUEST_TYPE, l) => l[1] = CLIENT_REQUEST_TYPE
        BY <1>6
      <3> QED BY <3>1, <3>2 DEF STAR_REQUEST_TYPE, CLIENT_REQUEST_TYPE
    <2>2. Request(r) = AwaitPrognosis(t, l[2])
      BY <1>4, <1>7, <2>1
    <2>3. u \in Connection /\ u.open = TRUE /\ u.wait = s.wait /\ u.zodiac = l[2]
      BY <1>5, <2>1 DEF LooksLike, Connection
    <2>4. AwaitPrognosis(t, l[2]) = async(expires_after(u, ReadPrognosisTimeout), "handleReadPrognosis")
      BY DEF AwaitPrognosis
    <2> HIDE DEF u
    <2>5. IoOutcome(s, Request(r), peer) /\ Request(r).open = TRUE
      BY <2>1, <2>2, <2>3, <2>4, NextOperation, NumberFacts, HandlerFacts, ZenonT(60)
    <2> QED BY <2>5 DEF r
  <1>8. CASE ~IsRequest(STAR_REQUEST_TYPE, l) /\ IsRequest(CLIENT_REQUEST_TYPE, l)
    <2>1. getPrognosis(l[2]) \in Seq(Word)
      BY <1>6, <1>8, PrognosisFacts
    <2>2. Request(r) = Respond(t, getPrognosis(l[2]))
      BY <1>4, <1>8
    <2>3. IoOutcome(s, Request(r), peer) /\ Request(r).open = TRUE
      BY <1>5, <2>1, <2>2, RespondFacts DEF LooksLike
    <2> QED BY <2>3 DEF r
  <1>9. CASE ~IsRequest(STAR_REQUEST_TYPE, l) /\ ~IsRequest(CLIENT_REQUEST_TYPE, l)
    <2>1. Request(r) = stop(t)
      BY <1>4, <1>9
    <2>2. LooksLike(stop(t), FALSE, t.op, Cancelled(t.ec), Cancelled(t.wait), t.buf, t.zodiac)
      BY <1>5, StopFacts DEF LooksLike
    <2>3. /\ stop(t) \in Connection /\ stop(t).open = FALSE /\ stop(t).op = "none"
          /\ stop(t).ec = "none" /\ stop(t).wait = Cancelled(s.wait)
      BY <1>5, <2>2 DEF LooksLike, Cancelled
    <2>4. IoOutcome(s, stop(t), peer)
      BY <2>3, Stopped
    <2>5. NoRequest(l)
      BY <1>9 DEF NoRequest
    <2> QED BY <2>1, <2>4, <2>5 DEF r, l
  <1> QED BY <1>7, <1>8, <1>9

\* A connection that goes on loses its client only when there was no request.
LEMMA UnlessKeeps ==
    ASSUME NEW s \in Connection, Sound(s, "open"), Over(s.ec), s.open, NEW t,
           ~Unless(s, t).open
    PROVE  s.ec = "success" /\ ~t.open
  <1>1. s.ec = "success"
    BY Fields DEF Sound, Over, ErrorCode
  <1> QED BY <1>1 DEF Unless

\* The timer's handler stops the connection, or waits for the new expiry.
DeadlineCalled(s) ==
    CASE ~s.open -> WaitCalled(s)
      [] s.open /\ s.wait = "aborted" -> startWaitDeadline(WaitCalled(s))
      [] OTHER -> stop(WaitCalled(s))

WaitOutcome(s, t, peer) ==
    /\ t \in Connection /\ t.wait \in {"none", "pending"}
    /\ GoesOn(s.ec, t.ec)
    /\ Sound(t, IF t.open THEN peer ELSE "none")

LEMMA DeadlineFacts ==
    ASSUME NEW s \in Connection, NEW peer, Sound(s, peer), Over(s.wait)
    PROVE  /\ WaitOutcome(s, DeadlineCalled(s), peer)
           /\ s.open /\ ~DeadlineCalled(s).open => s.wait = "success"
  <1> DEFINE r == WaitCalled(s)
             t == DeadlineCalled(s)
  <1>1. LooksLike(r, s.open, s.op, s.ec, "none", s.buf, s.zodiac)
    BY CalledFacts
  <1>2. s.open \in BOOLEAN /\ s.ec \in ErrorCode
    BY Fields
  <1> HIDE DEF r
  <1>3. CASE ~s.open
    <2>1. t = r
      BY <1>3 DEF DeadlineCalled, r
    <2>2. Sound(r, "none")
      BY <1>1, <1>3 DEF LooksLike, Sound, Kept
    <2> QED BY <1>1, <1>3, <2>1, <2>2 DEF WaitOutcome, LooksLike, GoesOn
  <1>4. CASE s.open /\ s.wait = "aborted"
    <2>1. t = async_wait(r)
      BY <1>4 DEF DeadlineCalled, r, startWaitDeadline
    <2>2. LooksLike(t, r.open, r.op, r.ec, "pending", r.buf, r.zodiac)
      BY <1>1, <2>1, WaitFacts DEF LooksLike
    <2>3. LooksLike(t, TRUE, s.op, s.ec, "pending", s.buf, s.zodiac)
      BY <1>1, <1>2, <1>4, <2>2 DEF LooksLike
    <2>4. Sound(t, peer)
      BY <1>4, <2>3 DEF LooksLike, Sound, Kept
    <2> QED BY <2>3, <2>4 DEF WaitOutcome, LooksLike, GoesOn
  <1>5. CASE s.open /\ s.wait # "aborted"
    <2>1. t = stop(r)
      BY <1>5 DEF DeadlineCalled, r
    <2>2. LooksLike(t, FALSE, s.op, Cancelled(s.ec), "none", s.buf, s.zodiac)
      <3>1. LooksLike(t, FALSE, r.op, Cancelled(r.ec), Cancelled(r.wait), r.buf, r.zodiac)
        BY <1>1, <2>1, StopFacts DEF LooksLike
      <3> QED BY <1>1, <3>1 DEF LooksLike, Cancelled
    <2>3. Sound(t, "none")
      BY <1>5, <2>2, CancelledFacts DEF LooksLike, Sound, Kept
    <2>4. s.wait = "success"
      BY <1>5 DEF Sound, Over
    <2> QED BY <2>2, <2>3, <2>4, CancelledFacts DEF WaitOutcome, LooksLike
  <1> QED BY <1>2, <1>3, <1>4, <1>5

-----------------------------------------------------------------------------
\* The parts of the invariant that are about types.
LEMMA TypeFacts ==
    ASSUME ServerInv
    PROVE  /\ queue \in Seq(Handlers) /\ accepting \in ErrorCode
           /\ conn \in [Conn -> Connection] /\ net \in [Conn -> Socket]
           /\ mPrognosisPerZodiac \in [Zodiac -> Seq(Word) \cup {NONE}]
           /\ backlog \in Seq(Conn)
  BY DEF ServerInv, TypeOK, Handlers

LEMMA HandlersFacts ==
    /\ ACCEPT \in Handlers
    /\ \A c \in Conn : /\ <<"io", c>> \in Handlers /\ <<"deadline", c>> \in Handlers
                       /\ ACCEPT # <<"io", c>> /\ ACCEPT # <<"deadline", c>>
  BY DEF ACCEPT, Handlers

\* A step of one Connection object and its socket keeps the invariant.
LEMMA ConnectionStep ==
    ASSUME ServerInv, NEW c \in Conn, NEW t \in Connection, NEW k \in Socket,
           QueueFollows(Handlers, c), Sound(t, k.peer), conn[c] # NoConnection,
           conn' = [conn EXCEPT ![c] = IF Released(t) THEN NoConnection ELSE t],
           net' = [net EXCEPT ![c] = k],
           mPrognosisPerZodiac' \in [Zodiac -> Seq(Word) \cup {NONE}],
           UNCHANGED <<accepting, backlog>>
    PROVE  ServerInv'
  <1> DEFINE u == IF Released(t) THEN NoConnection ELSE t
  <1>1. u \in Connection /\ Sound(u, k.peer)
    BY NothingFacts
  <1> HIDE DEF u
  <1>2. /\ conn' \in [Conn -> Connection] /\ conn'[c] = u
        /\ \A d \in Conn : d # c => conn'[d] = conn[d]
    BY <1>1, TypeFacts DEF u
  <1>3. /\ net' \in [Conn -> Socket] /\ net'[c] = k
        /\ \A d \in Conn : d # c => net'[d] = net[d]
    BY TypeFacts
  <1>4. TypeOK'
    BY <1>2, <1>3, TypeFacts DEF TypeOK, QueueFollows, Handlers
  <1>5. \A d \in Conn : InStep(d)' /\ Sound(conn'[d], net'[d].peer)
    BY <1>1, <1>2, <1>3 DEF ServerInv, QueueFollows
  <1>6. AcceptInv'
    <2>1. Holds(queue', ACCEPT) <=> Holds(queue, ACCEPT)
      BY HandlersFacts DEF QueueFollows
    <2> QED BY <2>1 DEF ServerInv, AcceptInv
  <1>7. BacklogInv' /\ Distinct(queue')
    <2>1. ~Holds(backlog, c)
      BY DEF ServerInv, BacklogInv
    <2> QED BY <1>2, <1>3, <2>1 DEF ServerInv, BacklogInv, QueueFollows
  <1> QED BY <1>4, <1>5, <1>6, <1>7 DEF ServerInv

\* Some handler of an object that the queue holds was outstanding.
LEMMA ReadyFacts ==
    ASSUME ServerInv, NEW c \in Conn
    PROVE  /\ Ready(<<"io", c>>) => Over(conn[c].ec) /\ conn[c] # NoConnection
           /\ Ready(<<"deadline", c>>) => Over(conn[c].wait) /\ conn[c] # NoConnection
  <1>1. /\ Ready(<<"io", c>>) => Holds(queue, <<"io", c>>)
        /\ Ready(<<"deadline", c>>) => Holds(queue, <<"deadline", c>>)
    BY TypeFacts, Popped DEF ServerInv, Ready
  <1>2. /\ Ready(<<"io", c>>) => Over(conn[c].ec)
        /\ Ready(<<"deadline", c>>) => Over(conn[c].wait)
    BY <1>1 DEF ServerInv, InStep
  <1> QED BY <1>2 DEF Over, NoConnection

LEMMA IoHandled ==
    ASSUME ServerInv, NEW c \in Conn, Ready(<<"io", c>>), NEW t,
           IoOutcome(conn[c], t, net[c].peer), Handled(c, t),
           mPrognosisPerZodiac' \in [Zodiac -> Seq(Word) \cup {NONE}]
    PROVE  ServerInv'
  <1> DEFINE k == IF t.open THEN net[c] ELSE NoSocket
  <1>1. /\ t \in Connection /\ t.ec \in {"none", "pending"} /\ GoesOn(conn[c].wait, t.wait)
        /\ Sound(t, IF t.open THEN net[c].peer ELSE "none")
    BY DEF IoOutcome
  <1>2. k \in Socket /\ Sound(t, k.peer)
    BY <1>1, TypeFacts, NothingFacts DEF NoSocket
  <1>3. /\ Becomes(c, t, Tail(queue), NoConnection) /\ net' = [net EXCEPT ![c] = k]
        /\ UNCHANGED <<accepting, backlog>>
        /\ conn' = [conn EXCEPT ![c] = IF Released(t) THEN NoConnection ELSE t]
    BY TypeFacts DEF Handled, Becomes
  <1> HIDE DEF k
  <1>4. conn[c] # NoConnection /\ (Released(t) => t.ec = "none")
    BY <1>1, ReadyFacts, KeptReleased DEF Sound
  <1>5. QueueFollows(Handlers, c)
    <2>1. InStep(c) /\ Distinct(queue)
      BY DEF ServerInv
    <2>2. Leaves(Tail(queue), <<"io", c>>, Handlers)
      BY <2>1, TypeFacts, FirstTaken
    <2> QED BY <1>1, <1>3, <1>4, <2>1, <2>2, NothingFacts, TypeFacts, HandlersFacts, IoHandledFacts
  <1> QED BY <1>1, <1>2, <1>3, <1>4, <1>5, ConnectionStep

LEMMA WaitHandled ==
    ASSUME ServerInv, NEW c \in Conn, Ready(<<"deadline", c>>), NEW t,
           WaitOutcome(conn[c], t, net[c].peer), Handled(c, t), UNCHANGED mPrognosisPerZodiac
    PROVE  ServerInv'
  <1> DEFINE k == IF t.open THEN net[c] ELSE NoSocket
  <1>1. /\ t \in Connection /\ t.wait \in {"none", "pending"} /\ GoesOn(conn[c].ec, t.ec)
        /\ Sound(t, IF t.open THEN net[c].peer ELSE "none")
    BY DEF WaitOutcome
  <1>2. k \in Socket /\ Sound(t, k.peer)
    BY <1>1, TypeFacts, NothingFacts DEF NoSocket
  <1>3. /\ Becomes(c, t, Tail(queue), NoConnection) /\ net' = [net EXCEPT ![c] = k]
        /\ UNCHANGED <<accepting, backlog>>
        /\ conn' = [conn EXCEPT ![c] = IF Released(t) THEN NoConnection ELSE t]
    BY TypeFacts DEF Handled, Becomes
  <1> HIDE DEF k
  <1>4. conn[c] # NoConnection /\ (Released(t) => t.ec = "none")
    BY <1>1, ReadyFacts, KeptReleased DEF Sound
  <1>5. QueueFollows(Handlers, c)
    <2>1. InStep(c) /\ Distinct(queue)
      BY DEF ServerInv
    <2>2. Leaves(Tail(queue), <<"deadline", c>>, Handlers)
      BY <2>1, TypeFacts, FirstTaken
    <2> QED BY <1>1, <1>3, <1>4, <2>1, <2>2, NothingFacts, TypeFacts, HandlersFacts, WaitHandledFacts
  <1> QED BY <1>1, <1>2, <1>3, <1>4, <1>5, TypeFacts, ConnectionStep

\* What a client may hold against a step: it lost its connection for nothing.
Deserved(c) ==
    conn[c].open /\ ~conn'[c].open /\ net[c].peer = "open" =>
        \/ conn[c].wait = "success"
        \/ Handling(c, "handleReadRequest") /\ NoRequest(getline(conn[c].buf))

\* Only the object that a step is about can be closed by it.
LEMMA OthersStay ==
    ASSUME ServerInv, NEW c \in Conn, NEW t, NEW q, Becomes(c, t, q, NoConnection),
           conn[c].open /\ ~t.open /\ net[c].peer = "open" =>
               \/ conn[c].wait = "success"
               \/ Handling(c, "handleReadRequest") /\ NoRequest(getline(conn[c].buf))
    PROVE  \A d \in Conn : Deserved(d)
  <1>1. /\ conn'[c] = IF Released(t) THEN NoConnection ELSE t
        /\ \A d \in Conn : d # c => conn'[d] = conn[d]
    BY TypeFacts DEF Becomes
  <1>2. ~conn'[c].open => ~t.open
    BY <1>1 DEF Released
  <1> QED BY <1>1, <1>2 DEF Deserved

LEMMA ReadRequestInv ==
    ASSUME ServerInv, NEW c \in Conn, handleReadRequest(c)
    PROVE  ServerInv' /\ \A d \in Conn : Deserved(d)
  <1> DEFINE s == conn[c]
             peer == net[c].peer
             r == Request(IoCalled(s))
             t == Unless(s, r)
  <1>1. /\ Ready(<<"io", c>>) /\ s.op = "handleReadRequest" /\ Handled(c, t)
        /\ UNCHANGED mPrognosisPerZodiac
    BY DEF handleReadRequest, Handling
  <1>2. s \in Connection /\ Sound(s, peer)
        /\ mPrognosisPerZodiac \in [Zodiac -> Seq(Word) \cup {NONE}]
    BY TypeFacts DEF ServerInv
  <1>3. s.open /\ s.ec = "success" =>
          IoOutcome(s, r, peer) /\ (r.open = TRUE \/ NoRequest(getline(s.buf)))
    BY <1>1, <1>2, RequestFacts
  <1> HIDE DEF r
  <1>4. IoOutcome(s, t, peer)
    BY <1>2, <1>3, UnlessFacts
  <1>5. ServerInv'
    BY <1>1, <1>2, <1>4, IoHandled
  <1>6. ASSUME s.open, ~t.open, peer = "open"
        PROVE  NoRequest(getline(s.buf))
    <2>1. Over(s.ec)
      BY <1>1, ReadyFacts
    <2>2. s.ec = "success" /\ ~r.open
      BY <1>2, <1>6, <2>1, UnlessKeeps
    <2> QED BY <1>3, <1>6, <2>2
  <1>7. Becomes(c, t, Tail(queue), NoConnection) /\ Handling(c, "handleReadRequest")
    BY <1>1 DEF Handled, Handling
  <1> HIDE DEF t
  <1> QED BY <1>5, <1>6, <1>7, OthersStay

LEMMA ReadPrognosisInv ==
    ASSUME ServerInv, NEW c \in Conn, handleReadPrognosis(c)
    PROVE  ServerInv' /\ \A d \in Conn : Deserved(d)
  <1> DEFINE s == conn[c]
             peer == net[c].peer
             e == Remainder(s.buf)
             u == [IoCalled(s) EXCEPT !.buf = e, !.zodiac = NONE]
             r == Respond(u, STAR_RESPONSE_SUCCESS)
             t == Unless(s, r)
             p == First(s.buf, LineLength(s.buf) - 1)
  <1>1. /\ Ready(<<"io", c>>) /\ s.op = "handleReadPrognosis" /\ Handled(c, t)
        /\ mPrognosisPerZodiac' =
             IF s.open /\ s.ec = "success"
             THEN [mPrognosisPerZodiac EXCEPT ![s.zodiac] = p] ELSE mPrognosisPerZodiac
    BY DEF handleReadPrognosis, Handling
  <1>2. s \in Connection /\ Sound(s, peer) /\ s.buf \in Seq(Word)
        /\ mPrognosisPerZodiac \in [Zodiac -> Seq(Word) \cup {NONE}]
    BY TypeFacts, Fields DEF ServerInv
  <1>3. s.ec = "success" => e \in Seq(Word) /\ p \in Seq(Word)
    <2>1. s.ec = "success" => HasLine(s.buf)
      BY <1>1, <1>2 DEF Sound, Reads
    <2>2. s.ec = "success" => LineLength(s.buf) \in 1 .. Len(s.buf) /\ e \in Seq(Word)
      BY <1>2, <2>1, LineFacts
    <2>3. s.ec = "success" => LineLength(s.buf) - 1 \in 0 .. Len(s.buf)
      BY <1>2, <2>2, LenProperties
    <2> QED BY <1>2, <2>2, <2>3, CutFacts
  <1> HIDE DEF e, p
  <1>4. ASSUME s.open, s.ec = "success"
        PROVE  IoOutcome(s, r, peer) /\ r.open = TRUE
    <2> DEFINE v == IoCalled(s)
    <2>1. LooksLike(v, s.open, "none", "none", s.wait, s.buf, s.zodiac) /\ s.open = TRUE
      BY <1>2, <1>4, CalledFacts, Fields
    <2> HIDE DEF v
    <2>2. u = [v EXCEPT !.buf = e, !.zodiac = NONE]
      BY DEF v
    <2> HIDE DEF u
    <2>3. u \in Connection /\ u.open = TRUE /\ u.wait = s.wait
      BY <1>3, <1>4, <2>1, <2>2 DEF LooksLike, Connection
    <2> DEFINE a == STAR_RESPONSE_SUCCESS
    <2>4. a \in Seq(Word)
      BY ReplyFacts
    <2>5. r = Respond(u, a)
      OBVIOUS
    <2> HIDE DEF a, r, s, peer
    <2>6. IoOutcome(s, Respond(u, a), peer) /\ Respond(u, a).open = TRUE
      BY <1>2, <1>4, <2>3, <2>4, RespondFacts
    <2> QED BY <2>5, <2>6
  <1> HIDE DEF r
  <1>5. IoOutcome(s, t, peer)
    BY <1>2, <1>4, UnlessFacts
  <1>6. mPrognosisPerZodiac' \in [Zodiac -> Seq(Word) \cup {NONE}]
    BY <1>1, <1>2, <1>3
  <1>7. ServerInv'
    BY <1>1, <1>2, <1>5, <1>6, IoHandled
  <1>8. ASSUME s.open, ~t.open, peer = "open"
        PROVE  FALSE
    <2>1. Over(s.ec)
      BY <1>1, ReadyFacts
    <2>2. s.ec = "success" /\ ~r.open
      BY <1>2, <1>8, <2>1, UnlessKeeps
    <2> QED BY <1>4, <1>8, <2>2
  <1>9. Becomes(c, t, Tail(queue), NoConnection)
    BY <1>1 DEF Handled
  <1> HIDE DEF t
  <1> QED BY <1>7, <1>8, <1>9, OthersStay

LEMMA WriteResponseInv ==
    ASSUME ServerInv, NEW c \in Conn, handleWriteResponse(c)
    PROVE  ServerInv' /\ \A d \in Conn : Deserved(d)
  <1> DEFINE s == conn[c]
             peer == net[c].peer
             v == IoCalled(s)
             r == startReadRequest(v)
             t == Unless(s, r)
  <1>1. Ready(<<"io", c>>) /\ Handled(c, t) /\ UNCHANGED mPrognosisPerZodiac
    BY DEF handleWriteResponse, Handling
  <1>2. s \in Connection /\ Sound(s, peer)
        /\ mPrognosisPerZodiac \in [Zodiac -> Seq(Word) \cup {NONE}]
    BY TypeFacts DEF ServerInv
  <1>3. ASSUME s.open, s.ec = "success"
        PROVE  IoOutcome(s, r, peer) /\ r.open = TRUE
    <2>1. LooksLike(v, s.open, "none", "none", s.wait, s.buf, s.zodiac) /\ s.open = TRUE
      BY <1>2, <1>3, CalledFacts, Fields
    <2>2. r = async(expires_after(v, ReadRequestTimeout), "handleReadRequest")
      BY DEF startReadRequest
    <2>3. v \in Connection /\ v.open = TRUE /\ v.wait = s.wait
      BY <2>1 DEF LooksLike
    <2> HIDE DEF v, r, s, peer
    <2>4. "handleReadRequest" \in Handler /\ ReadRequestTimeout \in Nat
      BY NumberFacts, HandlerFacts
    <2>5. /\ IoOutcome(s, async(expires_after(v, ReadRequestTimeout), "handleReadRequest"), peer)
          /\ async(expires_after(v, ReadRequestTimeout), "handleReadRequest").open = TRUE
      BY <1>2, <1>3, <2>3, <2>4, NextOperation
    <2> QED BY <2>2, <2>5
  <1> HIDE DEF r
  <1>4. IoOutcome(s, t, peer)
    BY <1>2, <1>3, UnlessFacts
  <1>5. ServerInv'
    BY <1>1, <1>2, <1>4, IoHandled
  <1>6. ASSUME s.open, ~t.open, peer = "open"
        PROVE  FALSE
    <2>1. Over(s.ec)
      BY <1>1, ReadyFacts
    <2>2. s.ec = "success" /\ ~r.open
      BY <1>2, <1>6, <2>1, UnlessKeeps
    <2> QED BY <1>3, <1>6, <2>2
  <1>7. Becomes(c, t, Tail(queue), NoConnection)
    BY <1>1 DEF Handled
  <1> HIDE DEF t
  <1> QED BY <1>5, <1>6, <1>7, OthersStay

LEMMA DeadlineInv ==
    ASSUME ServerInv, NEW c \in Conn, handleDeadline(c)
    PROVE  ServerInv' /\ \A d \in Conn : Deserved(d)
  <1> DEFINE s == conn[c]
             t == DeadlineCalled(s)
  <1>1. Ready(<<"deadline", c>>) /\ Handled(c, t) /\ UNCHANGED mPrognosisPerZodiac
    BY DEF handleDeadline, DeadlineCalled
  <1>2. s \in Connection /\ Sound(s, net[c].peer) /\ Over(s.wait)
    BY <1>1, TypeFacts, ReadyFacts DEF ServerInv
  <1>3. WaitOutcome(s, t, net[c].peer) /\ (s.open /\ ~t.open => s.wait = "success")
    BY <1>2, DeadlineFacts
  <1> HIDE DEF t
  <1>4. ServerInv'
    BY <1>1, <1>3, WaitHandled
  <1>5. Becomes(c, t, Tail(queue), NoConnection)
    BY <1>1 DEF Handled
  <1> QED BY <1>3, <1>4, <1>5, OthersStay

-----------------------------------------------------------------------------
\* A client that was accepted gets an object with a read and a wait pending.
LEMMA StartFacts ==
    /\ LooksLike(start(NoConnection), TRUE, "handleReadRequest", "pending", "pending", <<>>, NONE)
    /\ ~Released(start(NoConnection))
  <1> DEFINE s == [NoConnection EXCEPT !.open = TRUE]
             t == async(expires_after(s, ReadRequestTimeout), "handleReadRequest")
             u == async_wait(t)
  <1>1. LooksLike(s, TRUE, "none", "none", "none", <<>>, NONE)
    BY NothingFacts DEF LooksLike, NoConnection, Connection
  <1>2. start(NoConnection) = u
    BY DEF start, startWaitDeadline, startReadRequest
  <1> HIDE DEF s
  <1>3. LooksLike(t, s.open, "handleReadRequest", "pending", Cancelled(s.wait), s.buf, s.zodiac)
    <2>1. s \in Connection /\ "handleReadRequest" \in Handler /\ ReadRequestTimeout \in Nat
      BY <1>1, NumberFacts, HandlerFacts DEF LooksLike
    <2> QED BY <2>1, AsyncFacts
  <1> HIDE DEF t
  <1>4. LooksLike(u, t.open, t.op, t.ec, "pending", t.buf, t.zodiac)
    BY <1>3, WaitFacts DEF LooksLike
  <1> HIDE DEF u
  <1>5. LooksLike(u, TRUE, "handleReadRequest", "pending", "pending", <<>>, NONE)
    BY <1>1, <1>3, <1>4 DEF LooksLike
  <1> QED BY <1>2, <1>5 DEF LooksLike, Released

\* An accept that succeeded starts the first connection of the backlog; one that
\* failed leaves it there.
LEMMA HandleAcceptInv ==
    ASSUME ServerInv, handleAccept
    PROVE  ServerInv' /\ \A d \in Conn : Deserved(d)
  <1>1. /\ Ready(ACCEPT) /\ accepting' = "pending" /\ UNCHANGED <<mPrognosisPerZodiac, net>>
    BY DEF handleAccept
  <1>2. Distinct(queue) /\ queue # <<>> /\ Head(queue) = ACCEPT
    BY <1>1 DEF ServerInv, Ready
  <1>3. CASE accepting # "success"
    <2>1. queue' = Tail(queue) /\ UNCHANGED <<conn, backlog>>
      BY <1>3 DEF handleAccept
    <2>2. /\ queue' \in Seq(Handlers) /\ Distinct(queue')
          /\ \A h : Holds(queue', h) <=> Holds(queue, h) /\ h # ACCEPT
      BY <1>2, <2>1, TypeFacts, Popped
    <2>3. \A d \in Conn : InStep(d)' /\ Sound(conn'[d], net'[d].peer)
      BY <1>1, <2>1, <2>2, HandlersFacts DEF ServerInv, InStep
    <2>4. TypeOK'
      BY <1>1, <2>1, <2>2, TypeFacts DEF TypeOK, Handlers, ErrorCode
    <2>5. AcceptInv' /\ BacklogInv'
      BY <1>1, <2>1, <2>2 DEF ServerInv, AcceptInv, BacklogInv, Over
    <2>6. \A d \in Conn : Deserved(d)
      BY <2>1 DEF Deserved
    <2> QED BY <2>2, <2>3, <2>4, <2>5, <2>6 DEF ServerInv
  <1>4. CASE accepting = "success"
    <2> DEFINE c == Head(backlog)
               t == start(NoConnection)
    <2>1. backlog # <<>>
      BY <1>4 DEF ServerInv, AcceptInv
    <2>2. /\ c \in Conn /\ Holds(backlog, c)
          /\ Tail(backlog) \in Seq(Conn) /\ Distinct(Tail(backlog))
          /\ \A d : Holds(Tail(backlog), d) <=> Holds(backlog, d) /\ d # c
      BY <2>1, TypeFacts, Popped DEF ServerInv, BacklogInv
    <2>3. conn[c] = NoConnection
      BY <2>2 DEF ServerInv, BacklogInv
    <2>4. Becomes(c, t, Tail(queue), NoConnection) /\ backlog' = Tail(backlog)
      BY <1>4, <2>3 DEF handleAccept
    <2> HIDE DEF c, t
    <2>5. /\ LooksLike(t, TRUE, "handleReadRequest", "pending", "pending", <<>>, NONE)
          /\ ~Released(t)
      BY StartFacts DEF t
    <2>6. /\ conn' \in [Conn -> Connection] /\ conn'[c] = t
          /\ \A d \in Conn : d # c => conn'[d] = conn[d]
      BY <2>2, <2>4, <2>5, TypeFacts DEF Becomes, LooksLike
    <2>7. /\ queue' \in Seq(Handlers) /\ Distinct(queue') /\ ~Holds(queue', ACCEPT)
          /\ \A d \in Conn : InStep(d) => InStep(d)'
      <3>1. /\ conn[c].ec = "none" /\ conn[c].wait = "none" /\ t.ec = "pending" /\ t.wait = "pending"
            /\ NoConnection.ec = "none" /\ NoConnection.wait = "none"
        BY <2>3, <2>5, NothingFacts DEF LooksLike
      <3>2. InStep(c)
        BY <2>2 DEF ServerInv
      <3>3. <<"io", c>> \in Handlers /\ <<"deadline", c>> \in Handlers
        BY <2>2, HandlersFacts
      <3> QED BY <1>1, <1>2, <2>2, <2>4, <3>1, <3>2, <3>3, TypeFacts, HandlersFacts, StartedFacts
    <2>8. Sound(t, net[c].peer)
      BY <2>5 DEF LooksLike, Sound, Kept
    <2>9. \A d \in Conn : InStep(d)' /\ Sound(conn'[d], net'[d].peer)
      BY <1>1, <2>6, <2>7, <2>8 DEF ServerInv
    <2>10. TypeOK'
      BY <1>1, <2>2, <2>4, <2>6, <2>7, TypeFacts DEF TypeOK, Handlers, ErrorCode
    <2>11. AcceptInv'
      BY <1>1, <2>7 DEF AcceptInv, Over
    <2>12. BacklogInv'
      BY <1>1, <2>2, <2>4, <2>6 DEF ServerInv, BacklogInv
    <2>13. \A d \in Conn : Deserved(d)
      BY <2>2, <2>3, <2>6, NothingFacts DEF Deserved
    <2> QED BY <2>7, <2>9, <2>10, <2>11, <2>12, <2>13 DEF ServerInv
  <1> QED BY <1>3, <1>4

\* async_accept comes to an end.
LEMMA AsyncAcceptInv ==
    ASSUME ServerInv, async_accept
    PROVE  ServerInv' /\ \A d \in Conn : Deserved(d)
  <1>1. /\ accepting = "pending" /\ backlog # <<>> /\ accepting' \in {"success", "failed"}
        /\ queue' = Append(queue, ACCEPT)
        /\ UNCHANGED <<conn, mPrognosisPerZodiac, net, backlog>>
    BY DEF async_accept
  <1>2. /\ queue' \in Seq(Handlers) /\ Distinct(queue')
        /\ \A h : Holds(queue', h) <=> Holds(queue, h) \/ h = ACCEPT
    <2>1. ~Holds(queue, ACCEPT) /\ Distinct(queue)
      BY <1>1 DEF ServerInv, AcceptInv, Over
    <2> QED BY <1>1, <2>1, TypeFacts, HandlersFacts, Pushed
  <1>3. \A d \in Conn : InStep(d)' /\ Sound(conn'[d], net'[d].peer)
    BY <1>1, <1>2, HandlersFacts DEF ServerInv, InStep
  <1>4. TypeOK'
    BY <1>1, <1>2, TypeFacts DEF TypeOK, Handlers, ErrorCode
  <1>5. AcceptInv' /\ BacklogInv'
    BY <1>1, <1>2 DEF ServerInv, AcceptInv, BacklogInv, Over
  <1>6. \A d \in Conn : Deserved(d)
    BY <1>1 DEF Deserved
  <1> QED BY <1>2, <1>3, <1>4, <1>5, <1>6 DEF ServerInv

\* A step of an operation or of a timer of c, outside the handlers.
LEMMA ReactorStep ==
    ASSUME ServerInv, NEW c \in Conn, NEW t \in Connection, NEW k \in Socket,
           Becomes(c, t, queue, NoConnection), net' = [net EXCEPT ![c] = k],
           GoesOn(conn[c].ec, t.ec), GoesOn(conn[c].wait, t.wait), Sound(t, k.peer),
           conn[c].ec = "pending" \/ conn[c].wait = "pending", t.open = conn[c].open,
           UNCHANGED <<accepting, mPrognosisPerZodiac, backlog>>
    PROVE  ServerInv' /\ \A d \in Conn : Deserved(d)
  <1>1. Released(t) => t.ec = "none"
    BY KeptReleased DEF Sound
  <1>2. QueueFollows(Handlers, c)
    <2>1. InStep(c) /\ Distinct(queue) /\ NoConnection.ec = "none" /\ NoConnection.wait = "none"
      BY NothingFacts DEF ServerInv
    <2> QED BY <1>1, <2>1, TypeFacts, HandlersFacts, CompletedFacts
  <1>3. conn[c] # NoConnection
    BY NothingFacts
  <1>4. /\ conn' = [conn EXCEPT ![c] = IF Released(t) THEN NoConnection ELSE t]
        /\ mPrognosisPerZodiac' \in [Zodiac -> Seq(Word) \cup {NONE}]
    BY TypeFacts DEF Becomes
  <1>5. ServerInv'
    BY <1>2, <1>3, <1>4, ConnectionStep
  <1> QED BY <1>5, OthersStay

\* An operation fails because the client has left.
LEMMA EndedInv ==
    ASSUME ServerInv, NEW c \in Conn, conn[c].ec = "pending", NEW ec \in {"eof", "failed"},
           net[c].peer \in {"fin", "rst"}, Completes(c, ec),
           UNCHANGED <<accepting, mPrognosisPerZodiac, backlog>>
    PROVE  ServerInv' /\ \A d \in Conn : Deserved(d)
  <1> DEFINE s == conn[c]
             t == [s EXCEPT !.ec = ec]
             k == net[c]
  <1>1. s \in Connection /\ k \in Socket /\ Sound(s, k.peer) /\ s.open = TRUE
    BY TypeFacts, Fields DEF ServerInv, Sound, Kept
  <1>2. Becomes(c, t, queue, NoConnection) /\ net' = [net EXCEPT ![c] = k]
    BY TypeFacts DEF Completes
  <1>3. LooksLike(t, s.open, s.op, ec, s.wait, s.buf, s.zodiac)
    BY <1>1 DEF LooksLike, Connection, ErrorCode
  <1> HIDE DEF t
  <1>4. Sound(t, k.peer)
    BY <1>1, <1>3 DEF LooksLike, Sound, Kept
  <1>5. t \in Connection /\ GoesOn(s.ec, t.ec) /\ GoesOn(s.wait, t.wait) /\ t.open = s.open
    BY <1>3 DEF LooksLike, GoesOn
  <1> HIDE DEF k
  <1> QED BY <1>1, <1>2, <1>4, <1>5, ReactorStep

\* What has arrived is read into the buffer, or the end of the stream is met.
LEMMA AsyncReadInv ==
    ASSUME ServerInv, NEW c \in Conn, async_read_until(c)
    PROVE  ServerInv' /\ \A d \in Conn : Deserved(d)
  <1> DEFINE s == conn[c]
             k == net[c]
  <1>1. /\ s.op \in Reads /\ s.ec = "pending" /\ UNCHANGED <<accepting, mPrognosisPerZodiac, backlog>>
    BY DEF async_read_until, Pending, Reads
  <1>2. s \in Connection /\ k \in Socket /\ Sound(s, k.peer)
    BY TypeFacts DEF ServerInv
  <1>3. s.buf \in Seq(Word) /\ k.inq \in Seq(Word)
    BY <1>2 DEF Connection, Socket
  <1>4. s.open = TRUE
    BY <1>1, <1>2, Fields DEF Sound, Kept
  <1>5. ASSUME NEW n \in ReadSize(s.buf, k.inq),
               net' = [net EXCEPT ![c].inq = After(@, n)],
               Becomes(c, [s EXCEPT !.buf = s.buf \o First(k.inq, n),
                                    !.ec = IF HasLine(s.buf \o First(k.inq, n)) THEN "success" ELSE @],
                       queue, NoConnection)
        PROVE  ServerInv' /\ \A d \in Conn : Deserved(d)
    <2> DEFINE b == s.buf \o First(k.inq, n)
               ec == IF HasLine(b) THEN "success" ELSE s.ec
               e == After(k.inq, n)
               t == [s EXCEPT !.buf = b, !.ec = ec]
               l == [k EXCEPT !.inq = e]
    <2>1. Len(k.inq) \in Nat /\ n \in 0 .. Len(k.inq)
      BY <1>3, LenProperties DEF ReadSize
    <2>2. First(k.inq, n) \in Seq(Word) /\ e \in Seq(Word)
      BY <1>3, <2>1, CutFacts
    <2>3. b \in Seq(Word) /\ ec \in {"success", "pending"} /\ (ec = "success" => HasLine(b))
      BY <1>1, <1>3, <2>2, ConcatProperties
    <2>4. net' = [net EXCEPT ![c] = l] /\ Becomes(c, t, queue, NoConnection)
      BY <1>5, TypeFacts
    <2> HIDE DEF b, ec, e
    <2>5. LooksLike(t, s.open, s.op, ec, s.wait, b, s.zodiac)
      BY <1>2, <2>3 DEF LooksLike, Connection, ErrorCode
    <2>6. l \in Socket /\ l.peer = k.peer
      BY <1>2, <2>2 DEF Socket
    <2> HIDE DEF t, l
    <2>7. Sound(t, l.peer)
      BY <1>1, <1>2, <1>4, <2>3, <2>5, <2>6 DEF LooksLike, Sound, Kept, Reads
    <2>8. t \in Connection /\ GoesOn(s.ec, t.ec) /\ GoesOn(s.wait, t.wait) /\ t.open = s.open
      BY <1>1, <2>3, <2>5 DEF LooksLike, GoesOn
    <2> QED BY <1>1, <2>4, <2>6, <2>7, <2>8, ReactorStep
  <1>6. ASSUME NEW ec \in {"eof", "failed"}, k.peer \in {"fin", "rst"}, Completes(c, ec)
        PROVE  ServerInv' /\ \A d \in Conn : Deserved(d)
    BY <1>1, <1>6, EndedInv
  <1> QED BY <1>5, <1>6 DEF async_read_until

\* The reply is written as far as the socket takes it.
LEMMA AsyncWriteInv ==
    ASSUME ServerInv, NEW c \in Conn, async_write(c)
    PROVE  ServerInv' /\ \A d \in Conn : Deserved(d)
  <1> DEFINE s == conn[c]
             k == net[c]
             b == s.buf
             n == IF k.peer = "fin" THEN Len(b) ELSE MIN(Len(b), SNDBUF - k.unread)
             e == After(b, n)
             f == First(b, n)
             ec == IF n = Len(b) THEN "success" ELSE s.ec
             t == [s EXCEPT !.buf = e, !.ec = ec]
  <1>1. /\ s.op = "handleWriteResponse" /\ s.ec = "pending"
        /\ UNCHANGED <<accepting, mPrognosisPerZodiac, backlog>>
    BY DEF async_write, Pending
  <1>2. s \in Connection /\ k \in Socket /\ Sound(s, k.peer)
    BY TypeFacts DEF ServerInv
  <1>3. b \in Seq(Word) /\ k.sent \in Seq(Word) /\ k.unread \in 0 .. SNDBUF /\ SNDBUF \in Nat
    BY <1>2, NumberFacts DEF Connection, Socket
  <1>4. s.open = TRUE
    BY <1>1, <1>2, Fields DEF Sound, Kept
  <1>5. Len(b) \in Nat
    BY <1>3, LenProperties
  <1>6. /\ n \in 0 .. Len(b)
        /\ k.peer = "open" => k.unread + n \in 0 .. SNDBUF
    <2>1. SNDBUF - k.unread \in Nat /\ MIN(Len(b), SNDBUF - k.unread) \in 0 .. Len(b)
          /\ MIN(Len(b), SNDBUF - k.unread) <= SNDBUF - k.unread
      BY <1>3, <1>5 DEF MIN
    <2> QED BY <1>3, <1>5, <2>1
  <1> HIDE DEF n
  <1>7. e \in Seq(Word) /\ f \in Seq(Word)
    BY <1>3, <1>6, CutFacts
  <1>8. ec \in {"success", "pending"}
    BY <1>1
  <1> HIDE DEF e, f, ec
  <1>9. LooksLike(t, s.open, s.op, ec, s.wait, e, s.zodiac)
    BY <1>2, <1>7, <1>8 DEF LooksLike, Connection, ErrorCode
  <1> HIDE DEF t
  <1>10. \A p : Sound(t, p)
    BY <1>1, <1>2, <1>4, <1>8, <1>9 DEF LooksLike, Sound, Kept, Reads
  <1>11. t \in Connection /\ GoesOn(s.ec, t.ec) /\ GoesOn(s.wait, t.wait) /\ t.open = s.open
    BY <1>1, <1>8, <1>9 DEF LooksLike, GoesOn
  <1>12. ASSUME NEW l \in Socket, net' = [net EXCEPT ![c] = l], Becomes(c, t, queue, NoConnection)
         PROVE  ServerInv' /\ \A d \in Conn : Deserved(d)
    BY <1>1, <1>10, <1>11, <1>12, ReactorStep
  <1>13. CASE /\ k.peer = "open" /\ Becomes(c, t, queue, NoConnection)
              /\ net' = [net EXCEPT ![c].sent = @ \o f, ![c].unread = @ + n]
    <2> DEFINE g == k.sent \o f
               m == k.unread + n
               l == [k EXCEPT !.sent = g, !.unread = m]
    <2>1. g \in Seq(Word) /\ m \in 0 .. SNDBUF
      BY <1>3, <1>6, <1>7, <1>13, ConcatProperties
    <2>2. net' = [net EXCEPT ![c] = l]
      BY <1>13, TypeFacts
    <2> HIDE DEF g, m
    <2>3. l \in Socket
      BY <1>2, <2>1 DEF Socket
    <2> HIDE DEF l
    <2> QED BY <1>12, <1>13, <2>2, <2>3
  <1>14. ASSUME NEW p \in {"fin", "rst"}, Becomes(c, t, queue, NoConnection),
                net' = [net EXCEPT ![c].sent = @ \o b, ![c].peer = p]
         PROVE  ServerInv' /\ \A d \in Conn : Deserved(d)
    <2> DEFINE g == k.sent \o b
               l == [k EXCEPT !.sent = g, !.peer = p]
    <2>1. g \in Seq(Word)
      BY <1>3, ConcatProperties
    <2>2. net' = [net EXCEPT ![c] = l]
      BY <1>14, TypeFacts
    <2> HIDE DEF g
    <2>3. l \in Socket
      BY <1>2, <2>1 DEF Socket
    <2> HIDE DEF l
    <2> QED BY <1>12, <1>14, <2>2, <2>3
  <1>15. CASE k.peer = "rst" /\ Completes(c, "failed")
    BY <1>1, <1>15, EndedInv
  <1>16. \/ k.peer = "rst" /\ Completes(c, "failed")
         \/ /\ Becomes(c, t, queue, NoConnection)
            /\ \/ /\ k.peer = "open"
                  /\ net' = [net EXCEPT ![c].sent = @ \o f, ![c].unread = @ + n]
               \/ \E p \in {"fin", "rst"} : net' = [net EXCEPT ![c].sent = @ \o b, ![c].peer = p]
    BY DEF async_write, t, n, e, f, ec
  <1> QED BY <1>13, <1>14, <1>15, <1>16

LEMMA TimerInv ==
    ASSUME ServerInv, NEW c \in Conn, TimerExpires(c)
    PROVE  ServerInv' /\ \A d \in Conn : Deserved(d)
  <1> DEFINE s == conn[c]
             t == [s EXCEPT !.wait = "success"]
             k == net[c]
  <1>1. s \in Connection /\ k \in Socket /\ Sound(s, k.peer)
    BY TypeFacts DEF ServerInv
  <1>2. /\ s.wait = "pending" /\ Becomes(c, t, queue, NoConnection)
        /\ net' = [net EXCEPT ![c] = k]
        /\ UNCHANGED <<accepting, mPrognosisPerZodiac, backlog>>
    BY TypeFacts DEF TimerExpires
  <1>3. LooksLike(t, s.open, s.op, s.ec, "success", s.buf, s.zodiac)
    BY <1>1 DEF LooksLike, Connection, ErrorCode
  <1> HIDE DEF t
  <1>4. Sound(t, k.peer)
    BY <1>1, <1>2, <1>3 DEF LooksLike, Sound, Kept
  <1>5. t \in Connection /\ GoesOn(s.ec, t.ec) /\ GoesOn(s.wait, t.wait) /\ t.open = s.open
    BY <1>2, <1>3 DEF GoesOn, LooksLike
  <1> HIDE DEF k
  <1> QED BY <1>1, <1>2, <1>4, <1>5, ReactorStep

LEMMA TickInv ==
    ASSUME ServerInv, Tick
    PROVE  ServerInv' /\ \A d \in Conn : Deserved(d)
  <1>1. /\ conn' = [c \in Conn |-> Sooner(conn[c])]
        /\ UNCHANGED <<queue, accepting, mPrognosisPerZodiac, net, backlog>>
    BY DEF Tick
  <1>2. ASSUME NEW s \in Connection
        PROVE  LooksLike(Sooner(s), s.open, s.op, s.ec, s.wait, s.buf, s.zodiac)
    BY DEF LooksLike, Sooner, Connection
  <1>3. Sooner(NoConnection) = NoConnection
    <2>1. ASSUME NEW s \in Connection, s.left = 0
          PROVE  Sooner(s) = s
      BY <2>1 DEF Sooner, Connection
    <2>2. NoConnection.left = 0
      BY DEF NoConnection
    <2> QED BY <2>1, <2>2, NothingFacts
  <1>4. ASSUME NEW c \in Conn
        PROVE  /\ conn'[c] \in Connection /\ InStep(c)' /\ Sound(conn'[c], net'[c].peer)
               /\ conn[c] = NoConnection => conn'[c] = NoConnection
               /\ Deserved(c)
    <2> DEFINE s == conn[c]
    <2>1. s \in Connection /\ Sound(s, net[c].peer) /\ InStep(c)
      BY TypeFacts DEF ServerInv
    <2>2. LooksLike(conn'[c], s.open, s.op, s.ec, s.wait, s.buf, s.zodiac)
      BY <1>1, <1>2, <2>1
    <2>3. InStep(c)'
      BY <1>1, <2>1, <2>2 DEF InStep, LooksLike
    <2>4. Sound(conn'[c], net'[c].peer)
      BY <1>1, <2>1, <2>2 DEF Sound, Kept, LooksLike
    <2>5. Deserved(c)
      BY <2>2 DEF Deserved, LooksLike
    <2> QED BY <1>1, <1>3, <2>2, <2>3, <2>4, <2>5 DEF LooksLike
  <1>5. TypeOK'
    <2>1. conn' \in [Conn -> Connection]
      BY <1>1, <1>4
    <2> QED BY <1>1, <2>1, TypeFacts DEF TypeOK, Handlers
  <1>6. AcceptInv' /\ BacklogInv' /\ Distinct(queue')
    BY <1>1, <1>4 DEF ServerInv, AcceptInv, BacklogInv
  <1> QED BY <1>4, <1>5, <1>6 DEF ServerInv

-----------------------------------------------------------------------------
\* A step of a client, which changes its socket and perhaps the backlog.
LEMMA SocketStep ==
    ASSUME ServerInv, UNCHANGED <<queue, accepting, conn, mPrognosisPerZodiac>>, NEW c \in Conn,
           NEW k \in Socket, net' = [net EXCEPT ![c] = k], k.peer # "none",
           net[c].peer \in {"fin", "rst"} => k.peer \in {"fin", "rst"},
           \/ backlog' = backlog
           \/ net[c].peer = "none" /\ conn[c] = NoConnection /\ backlog' = Append(backlog, c)
    PROVE  ServerInv' /\ \A d \in Conn : Deserved(d)
  <1>1. /\ net' \in [Conn -> Socket] /\ net'[c] = k
        /\ \A d \in Conn : d # c => net'[d] = net[d]
    BY TypeFacts
  <1>2. \A d \in Conn : InStep(d)' /\ Sound(conn'[d], net'[d].peer)
    BY <1>1 DEF ServerInv, InStep, Sound
  <1>3. BacklogInv' /\ backlog' \in Seq(Conn) /\ (backlog # <<>> => backlog' # <<>>)
    <2>1. CASE backlog' = backlog
      BY <1>1, <2>1, TypeFacts DEF ServerInv, BacklogInv
    <2>2. CASE net[c].peer = "none" /\ conn[c] = NoConnection /\ backlog' = Append(backlog, c)
      <3>1. ~Holds(backlog, c) /\ Distinct(backlog)
        BY <2>2 DEF ServerInv, BacklogInv
      <3>2. /\ backlog' \in Seq(Conn) /\ Distinct(backlog') /\ backlog' # <<>>
            /\ \A d : Holds(backlog', d) <=> Holds(backlog, d) \/ d = c
        BY <2>2, <3>1, TypeFacts, Pushed
      <3> QED BY <1>1, <2>2, <3>2 DEF ServerInv, BacklogInv
    <2> QED BY <2>1, <2>2
  <1>4. TypeOK'
    BY <1>1, <1>3, TypeFacts DEF TypeOK, Handlers
  <1>5. AcceptInv' /\ Distinct(queue')
    BY <1>3 DEF ServerInv, AcceptInv
  <1>6. \A d \in Conn : Deserved(d)
    BY DEF Deserved
  <1> QED BY <1>2, <1>3, <1>4, <1>5, <1>6 DEF ServerInv

LEMMA SocketFields ==
    ASSUME NEW k \in Socket
    PROVE  /\ k.inq \in Seq(Word) /\ k.sent \in Seq(Word) /\ k.unread \in 0 .. SNDBUF
           /\ k.peer \in {"none", "open", "fin", "rst"} /\ k.todo \in Seq(Seq(Word))
           /\ k.asked \in Nat
  BY DEF Socket

LEMMA ClientInv ==
    ASSUME ServerInv, NEW c \in Conn, Client(c)
    PROVE  ServerInv' /\ \A d \in Conn : Deserved(d)
  <1> DEFINE k == net[c]
  <1>1. /\ k \in Socket /\ k.inq \in Seq(Word) /\ k.sent \in Seq(Word) /\ k.unread \in 0 .. SNDBUF
        /\ k.todo \in Seq(Seq(Word)) /\ k.asked \in Nat
    BY TypeFacts, SocketFields
  <1>2. 0 \in 0 .. SNDBUF
    BY NumberFacts
  <1>3. ASSUME NEW s \in Streams, Connect(c, s)
        PROVE  ServerInv' /\ \A d \in Conn : Deserved(d)
    <2> DEFINE h == Head(s)
               r == Tail(s)
               l == [NoSocket EXCEPT !.peer = "open", !.inq = h, !.todo = r, !.asked = 1]
    <2>1. s \in Seq(Seq(Word)) /\ s # <<>>
      BY BoostServerAssumption
    <2>2. h \in Seq(Word) /\ r \in Seq(Seq(Word))
      BY <2>1, HeadTailProperties
    <2>3. /\ net[c].peer = "none" /\ conn[c] = NoConnection
          /\ net' = [net EXCEPT ![c] = l] /\ backlog' = Append(backlog, c)
          /\ UNCHANGED <<queue, accepting, conn, mPrognosisPerZodiac>>
      BY <1>3 DEF Connect
    <2> HIDE DEF h, r
    <2>4. l \in Socket /\ l.peer = "open"
      BY <2>2, NothingFacts DEF Socket
    <2> HIDE DEF l
    <2> QED BY <2>3, <2>4, SocketStep
  <1>4. ASSUME SendNext(c)
        PROVE  ServerInv' /\ \A d \in Conn : Deserved(d)
    <2> DEFINE h == k.inq \o Head(k.todo)
               r == Tail(k.todo)
               m == k.asked + 1
               l == [k EXCEPT !.inq = h, !.todo = r, !.asked = m]
    <2>1. /\ k.peer = "open" /\ k.todo # <<>>
          /\ UNCHANGED <<queue, accepting, conn, mPrognosisPerZodiac, backlog>>
      BY <1>4 DEF SendNext
    <2>2. Head(k.todo) \in Seq(Word) /\ r \in Seq(Seq(Word)) /\ m \in Nat
      BY <1>1, <2>1, HeadTailProperties
    <2>3. h \in Seq(Word)
      BY <1>1, <2>2, ConcatProperties
    <2>4. net' = [net EXCEPT ![c] = l]
      BY <1>4, TypeFacts DEF SendNext
    <2> HIDE DEF h, r, m
    <2>5. l \in Socket /\ l.peer = "open"
      BY <1>1, <2>1, <2>2, <2>3 DEF Socket
    <2> HIDE DEF l
    <2> QED BY <2>1, <2>4, <2>5, SocketStep
  <1>5. ASSUME ClientRecv(c)
        PROVE  ServerInv' /\ \A d \in Conn : Deserved(d)
    <2> DEFINE l == [k EXCEPT !.unread = 0]
    <2>1. /\ k.peer = "open" /\ net' = [net EXCEPT ![c] = l]
          /\ UNCHANGED <<queue, accepting, conn, mPrognosisPerZodiac, backlog>>
      BY <1>5, TypeFacts DEF ClientRecv
    <2>2. l \in Socket /\ l.peer = "open"
      BY <1>1, <1>2, <2>1 DEF Socket
    <2> HIDE DEF l
    <2> QED BY <2>1, <2>2, SocketStep
  <1>6. ASSUME NEW arrives \in BOOLEAN, ClientClose(c, arrives)
        PROVE  ServerInv' /\ \A d \in Conn : Deserved(d)
    <2> DEFINE n == IF arrives /\ k.unread = 0 THEN Len(k.inq) ELSE 0
               h == First(k.inq, n)
               e == After(k.inq, n)
               r == <<e>> \o k.todo
               p == IF k.unread = 0 THEN "fin" ELSE "rst"
               l == [k EXCEPT !.inq = h, !.todo = r, !.peer = p, !.unread = 0]
    <2>1. n \in 0 .. Len(k.inq)
      BY <1>1, LenProperties
    <2>2. /\ k.peer = "open"
          /\ UNCHANGED <<queue, accepting, conn, mPrognosisPerZodiac, backlog>>
      BY <1>6 DEF ClientClose
    <2>3. net' = [net EXCEPT ![c] = l]
      BY <1>6, TypeFacts DEF ClientClose
    <2> HIDE DEF n
    <2>4. h \in Seq(Word) /\ e \in Seq(Word)
      BY <1>1, <2>1, CutFacts
    <2> HIDE DEF h, e
    <2>5. <<e>> \in Seq(Seq(Word))
      BY <2>4
    <2>6. r \in Seq(Seq(Word)) /\ p \in {"fin", "rst"}
      BY <1>1, <2>5, ConcatProperties
    <2> HIDE DEF r, p
    <2>7. l \in Socket /\ l.peer = p
      BY <1>1, <1>2, <2>4, <2>6 DEF Socket
    <2> HIDE DEF l
    <2> QED BY <2>2, <2>3, <2>6, <2>7, SocketStep
  <1> QED BY <1>3, <1>4, <1>5, <1>6 DEF Client

-----------------------------------------------------------------------------
LEMMA InitInv == Init => ServerInv
  <1> SUFFICES ASSUME Init PROVE ServerInv
    OBVIOUS
  <1>1. /\ queue = <<>> /\ accepting = "pending" /\ backlog = <<>>
        /\ conn = [c \in Conn |-> NoConnection] /\ net = [c \in Conn |-> NoSocket]
        /\ mPrognosisPerZodiac = [z \in Zodiac |-> NONE]
    BY DEF Init
  <1>2. TypeOK
    BY <1>1, NothingFacts DEF TypeOK, ErrorCode
  <1>3. \A c \in Conn : InStep(c)
    BY <1>1, NothingFacts DEF InStep, Holds, Over
  <1>4. \A c \in Conn : Sound(conn[c], net[c].peer)
    BY <1>1, NothingFacts
  <1>5. AcceptInv
    BY <1>1 DEF AcceptInv, Holds, Over
  <1>6. BacklogInv /\ Distinct(queue)
    BY <1>1 DEF BacklogInv, Holds, Distinct
  <1> QED BY <1>2, <1>3, <1>4, <1>5, <1>6 DEF ServerInv

\* A step keeps the invariant, and no client is dropped by it for nothing.
LEMMA NextInv ==
    ASSUME ServerInv, Next
    PROVE  ServerInv' /\ \A d \in Conn : Deserved(d)
  <1>1. CASE handleAccept
    BY <1>1, HandleAcceptInv
  <1>2. ASSUME NEW c \in Conn, handleReadRequest(c)
        PROVE  ServerInv' /\ \A d \in Conn : Deserved(d)
    BY <1>2, ReadRequestInv
  <1>3. ASSUME NEW c \in Conn, handleReadPrognosis(c)
        PROVE  ServerInv' /\ \A d \in Conn : Deserved(d)
    BY <1>3, ReadPrognosisInv
  <1>4. ASSUME NEW c \in Conn, handleWriteResponse(c)
        PROVE  ServerInv' /\ \A d \in Conn : Deserved(d)
    BY <1>4, WriteResponseInv
  <1>5. ASSUME NEW c \in Conn, handleDeadline(c)
        PROVE  ServerInv' /\ \A d \in Conn : Deserved(d)
    BY <1>5, DeadlineInv
  <1>6. CASE async_accept
    BY <1>6, AsyncAcceptInv
  <1>7. CASE Tick
    BY <1>7, TickInv
  <1>8. ASSUME NEW c \in Conn, async_read_until(c)
        PROVE  ServerInv' /\ \A d \in Conn : Deserved(d)
    BY <1>8, AsyncReadInv
  <1>9. ASSUME NEW c \in Conn, async_write(c)
        PROVE  ServerInv' /\ \A d \in Conn : Deserved(d)
    BY <1>9, AsyncWriteInv
  <1>10. ASSUME NEW c \in Conn, TimerExpires(c)
         PROVE  ServerInv' /\ \A d \in Conn : Deserved(d)
    BY <1>10, TimerInv
  <1>11. ASSUME NEW c \in Conn, Client(c)
         PROVE  ServerInv' /\ \A d \in Conn : Deserved(d)
    BY <1>11, ClientInv
  <1> QED BY <1>1, <1>2, <1>3, <1>4, <1>5, <1>6, <1>7, <1>8, <1>9, <1>10, <1>11
          DEF Next, RunOne, Reactor

LEMMA StutterInv ==
    ASSUME ServerInv, UNCHANGED vars
    PROVE  ServerInv'
  <1>1. UNCHANGED <<queue, accepting, conn, mPrognosisPerZodiac, net, backlog>>
    BY DEF vars
  <1>2. TypeOK'
    BY <1>1, TypeFacts DEF TypeOK, Handlers
  <1> QED BY <1>1, <1>2 DEF ServerInv, InStep, AcceptInv, BacklogInv

\* The invariant that the proofs below rest on.
THEOREM ServerInvariant == Spec => []ServerInv
  <1>1. ServerInv /\ [Next]_vars => ServerInv'
    BY NextInv, StutterInv
  <1> QED BY <1>1, InitInv, PTL DEF Spec

\* Every variable has its type: what the clients say, whatever it is, puts
\* nothing but words into buffers and prognoses.
THEOREM TypeCorrect == Spec => []TypeOK
  <1>1. ServerInv => TypeOK
    BY DEF ServerInv
  <1> QED BY <1>1, ServerInvariant, PTL

\* No open connection is forgotten by the handlers that keep it alive, none of
\* them is called twice, and handleAccept always starts another accept.
THEOREM NoHandlerIsLost == Spec => []HandlersOutstanding
  <1>1. ServerInv => HandlersOutstanding
    <2> SUFFICES ASSUME ServerInv PROVE HandlersOutstanding
      OBVIOUS
    <2>1. queue \in Seq(Handlers) /\ Distinct(queue) /\ \A c \in Conn : InStep(c) /\ Kept(conn[c])
      BY TypeFacts DEF ServerInv, Sound
    <2>2. ObjectsKept
      BY <2>1, ObjectsAreKept
    <2>3. accepting # "none" /\ Times(ACCEPT) = Queued(accepting)
      BY <2>1, TimesOnce DEF ServerInv, AcceptInv
    <2> QED BY <2>2, <2>3 DEF HandlersOutstanding
  <1> QED BY <1>1, ServerInvariant, PTL

\* A client that is still there is dropped only after its timer expired or for a
\* line that is no request: never because handleDeadline took a new expiry for
\* an expiry, nor because of what other clients do.
THEOREM NoClientIsDroppedForNothing == Spec => DropsAreDeserved
  <1> DEFINE Drop(c) ==
        conn[c].open /\ ~conn'[c].open /\ net[c].peer = "open" =>
            \/ conn[c].wait = "success"
            \/ /\ Handling(c, "handleReadRequest")
               /\ \A type \in {STAR_REQUEST_TYPE, CLIENT_REQUEST_TYPE} :
                     ~IsRequest(type, getline(conn[c].buf))
  <1>1. ServerInv /\ [Next]_vars => [\A c \in Conn : Drop(c)]_vars
    <2> SUFFICES ASSUME ServerInv, Next
                 PROVE  \A c \in Conn : Drop(c)
      OBVIOUS
    <2>1. \A c \in Conn : Deserved(c)
      BY NextInv
    <2> QED BY <2>1 DEF Deserved, NoRequest
  <1>2. Spec => [][\A c \in Conn : Drop(c)]_vars
    BY <1>1, ServerInvariant, PTL DEF Spec
  <1> QED BY <1>2 DEF DropsAreDeserved

-----------------------------------------------------------------------------
\* The first line of a stream is that of what the stream begins with.
LEMMA LineInside ==
    ASSUME NEW S, NEW a \in Seq(S), NEW b \in Seq(S), NEW n, IsLine(a, n)
    PROVE  /\ n \in 1 .. Len(Join(a, b)) /\ IsLine(Join(a, b), n)
           /\ First(Join(a, b), n) = First(a, n)
           /\ After(Join(a, b), n) = Join(After(a, n), b)
           /\ Join(a, b) \in Seq(S)
  <1> DEFINE f == First(a, n)
             r == After(a, n)
             p == Join(a, b)
             q == Join(r, b)
  <1>1. /\ Len(a) \in Nat /\ n \in 1 .. Len(a) /\ a[n] = DELIMITER
        /\ \A i \in 1 .. n - 1 : a[i] # DELIMITER
    BY LenProperties DEF IsLine
  <1>2. n \in 0 .. Len(a)
    BY <1>1
  <1>3. f \in Seq(S) /\ Len(f) = n /\ r \in Seq(S) /\ Join(f, r) = a
    BY <1>2, CutFacts, CutAndJoin DEF Join
  <1>4. /\ Len(a) \in 0 .. Len(p)
        /\ \A i \in 1 .. Len(a) : i \in 1 .. Len(p) /\ p[i] = a[i]
    BY JoinAndCut DEF Join
  <1> HIDE DEF f, r
  <1>5. q \in Seq(S) /\ p \in Seq(S)
    BY <1>3, JoinType
  <1>6. Join(Join(f, r), b) = Join(f, q)
    BY <1>3, JoinAssociative
  <1> HIDE DEF q
  <1>7. p = Join(f, q)
    BY <1>3, <1>6
  <1>8. First(Join(f, q), Len(f)) = f /\ After(Join(f, q), Len(f)) = q
    BY <1>3, <1>5, JoinAndCut DEF Join
  <1> HIDE DEF p
  <1>9. IsLine(p, n)
    <2>1. n \in 1 .. Len(p) /\ p[n] = DELIMITER
      BY <1>1, <1>4
    <2>2. \A i \in 1 .. n - 1 : i \in 1 .. Len(a)
      BY <1>1
    <2> QED BY <1>1, <1>4, <2>1, <2>2 DEF IsLine
  <1>10. n \in 1 .. Len(p)
    BY <1>1, <1>4
  <1>11. First(p, n) = f /\ After(p, n) = q
    BY <1>3, <1>7, <1>8
  <1> QED BY <1>5, <1>9, <1>10, <1>11 DEF f, r, p, q

\* What begins a stream with at most one line, or one request, has no more.
LEMMA NoFurtherBefore ==
    ASSUME NEW a \in Seq(Word), NEW b \in Seq(Word), NoFurtherLine(Join(a, b))
    PROVE  NoFurtherLine(a)
  <1>1. /\ Len(a) \in Nat /\ Len(b) \in Nat /\ Len(Join(a, b)) = Len(a) + Len(b)
    BY LenProperties, ConcatProperties DEF Join
  <1>2. \A i \in 1 .. Len(a) : Join(a, b)[i] = a[i]
    BY JoinAndCut DEF Join
  <1> QED BY <1>1, <1>2 DEF NoFurtherLine

LEMMA OneRequestBefore ==
    ASSUME NEW a \in Seq(Word), NEW b \in Seq(Word), OneRequest(Join(a, b))
    PROVE  OneRequest(a)
  <1> DEFINE p == Join(a, b)
  <1>1. /\ Len(a) \in Nat /\ Len(b) \in Nat /\ Len(p) = Len(a) + Len(b)
    BY LenProperties, ConcatProperties DEF Join
  <1> SUFFICES ASSUME NEW n \in 1 .. Len(a), IsLine(a, n)
               PROVE  \/ n = Len(a)
                      \/ /\ IsRequest(STAR_REQUEST_TYPE, First(a, n))
                         /\ NoFurtherLine(After(a, n))
    BY DEF OneRequest
  <1>2. /\ n \in 1 .. Len(p) /\ IsLine(p, n) /\ First(p, n) = First(a, n)
        /\ After(p, n) = Join(After(a, n), b)
    BY LineInside
  <1> HIDE DEF p
  <1>3. \/ n = Len(p)
        \/ IsRequest(STAR_REQUEST_TYPE, First(p, n)) /\ NoFurtherLine(After(p, n))
    BY <1>2 DEF OneRequest, p
  <1>4. CASE n = Len(p)
    BY <1>1, <1>4
  <1>5. CASE IsRequest(STAR_REQUEST_TYPE, First(p, n)) /\ NoFurtherLine(After(p, n))
    <2>1. n \in 0 .. Len(a)
      BY <1>1
    <2>2. After(a, n) \in Seq(Word)
      BY <2>1, CutFacts
    <2>3. NoFurtherLine(After(a, n))
      BY <1>2, <1>5, <2>2, NoFurtherBefore
    <2> QED BY <1>2, <1>5, <2>3
  <1> QED BY <1>3, <1>4, <1>5

\* A line in which no further line follows is all that there is.
LEMMA NothingBehind ==
    ASSUME NEW S, NEW p \in Seq(S), NEW n, IsLine(p, n), NoFurtherLine(p) \/ n = Len(p)
    PROVE  After(p, n) = <<>>
  <1>1. Len(p) \in Nat /\ n \in 1 .. Len(p) /\ p[n] = DELIMITER
    BY LenProperties DEF IsLine
  <1>2. n = Len(p)
    BY <1>1 DEF NoFurtherLine
  <1>3. n \in 0 .. Len(p)
    BY <1>1
  <1>4. After(p, n) \in Seq(S) /\ Len(After(p, n)) = 0
    BY <1>1, <1>2, <1>3, CutFacts
  <1> QED BY <1>4, EmptySeq

\* Nothing but nothing is joined to nothing.
LEMMA JoinNothing ==
    ASSUME NEW S, NEW a \in Seq(S), NEW b \in Seq(S), Join(a, b) = <<>>
    PROVE  a = <<>> /\ b = <<>>
  <1>1. /\ Len(a) \in Nat /\ Len(b) \in Nat /\ Len(Join(a, b)) = Len(a) + Len(b)
    BY LenProperties, ConcatProperties DEF Join
  <1>2. Len(Join(a, b)) = 0
    OBVIOUS
  <1> HIDE DEF Join
  <1>3. Len(a) = 0 /\ Len(b) = 0
    BY <1>1, <1>2
  <1> QED BY <1>3, EmptySeq

\* A request that is a line has a type, a known sign and at least the delimiter.
LEMMA RequestIsLong ==
    ASSUME NEW l \in Seq(Word), IsLine(l, Len(l)), NEW type, IsRequest(type, l)
    PROVE  Len(l) > 2 /\ l[1] = type /\ l[2] \in Zodiac
  <1> DEFINE n == Len(l)
  <1>1. n \in Nat /\ l # <<>> /\ l[n] = DELIMITER
    BY LenProperties DEF IsLine
  <1>2. l[1] = type /\ FindZodiac(Tail(l))
    BY DEF IsRequest, StartsWith
  <1>3. l[2] \in Zodiac
    BY <1>1, <1>2, ZodiacFacts
  <1>4. n > 1
    <2> DEFINE m == Len(Tail(l))
    <2>1. Tail(l) # <<>>
      BY <1>2 DEF FindZodiac
    <2>2. Tail(l) \in Seq(Word) /\ m = n - 1
      BY <1>1, HeadTailProperties
    <2>3. m # 0 /\ m \in Nat
      BY <2>1, <2>2, EmptySeq, LenProperties
    <2> HIDE DEF m, n
    <2> QED BY <1>1, <2>2, <2>3
  <1>5. n # 2
    <2>1. DELIMITER \notin Zodiac
      BY BoostServerAssumption
    <2> HIDE DEF n
    <2> QED BY <1>1, <1>3, <2>1
  <1> HIDE DEF n
  <1>6. n > 2
    BY <1>1, <1>4, <1>5
  <1> QED BY <1>2, <1>3, <1>6 DEF n

\* Both modules speak of the same protocol.
LEMMA SameProtocol ==
    /\ \A s, n : /\ Service!IsLine(s, n) = IsLine(s, n) /\ Service!First(s, n) = First(s, n)
                 /\ Service!After(s, n) = After(s, n)
    /\ \A type, line :
          Len(line) \in Nat /\ Len(line) > 2 /\ line[1] = type /\ line[2] \in Zodiac
              => Service!IsRequest(type, line)
    /\ Service!STAR_REQUEST_TYPE = STAR_REQUEST_TYPE
    /\ Service!CLIENT_REQUEST_TYPE = CLIENT_REQUEST_TYPE
    /\ Service!STAR_REPLY_SUCCESS = STAR_RESPONSE_SUCCESS
    /\ Service!CLIENT_REPLY_FAILURE = UNKNOWN_PROGNOSIS
  <1>1. /\ \A s, n : /\ Service!IsLine(s, n) = IsLine(s, n) /\ Service!First(s, n) = First(s, n)
                     /\ Service!After(s, n) = After(s, n)
    BY DEF Service!IsLine, IsLine, Service!First, First, Service!After, After,
           Service!DELIMITER, DELIMITER
  <1>2. ASSUME NEW type, NEW line, Len(line) \in Nat, Len(line) > 2, line[1] = type,
               line[2] \in Zodiac
        PROVE  Service!IsRequest(type, line)
    <2>1. Len(line) > 1
      BY <1>2
    <2> QED BY <1>2, <2>1 DEF Service!IsRequest, Service!HasType, Service!find_zodiac
  <1>3. /\ Service!STAR_REQUEST_TYPE = STAR_REQUEST_TYPE
        /\ Service!CLIENT_REQUEST_TYPE = CLIENT_REQUEST_TYPE
        /\ Service!STAR_REPLY_SUCCESS = STAR_RESPONSE_SUCCESS
        /\ Service!CLIENT_REPLY_FAILURE = UNKNOWN_PROGNOSIS
    BY DEF Service!STAR_REQUEST_TYPE, STAR_REQUEST_TYPE,
           Service!CLIENT_REQUEST_TYPE, CLIENT_REQUEST_TYPE, Service!DELIMITER, DELIMITER,
           Service!STAR_REPLY_SUCCESS, STAR_RESPONSE_SUCCESS, STAR_REPLY_SUCCESS,
           Service!CLIENT_REPLY_FAILURE, UNKNOWN_PROGNOSIS, CLIENT_REPLY_FAILURE
  <1> QED BY <1>1, <1>2, <1>3

-----------------------------------------------------------------------------
\* What a Connection object and its socket stand for in the service: what was
\* heard of the client and is not served, with what it has still to say, the
\* sign that a star announced, and what the client is owed or was sent.
Heard(s, k) == Join(IF s.open /\ s.op # "handleWriteResponse" THEN s.buf ELSE <<>>, k.inq)

UnservedOf(s, k) == Join(Heard(s, k), Together(k.todo))

SignOf(s) == IF s.open THEN s.zodiac ELSE NONE

Replies(s) == s.open /\ s.op = "handleWriteResponse"

OwedOf(s, k) == Join(k.sent, IF Replies(s) THEN s.buf ELSE <<>>)

\* The client, if it is there, waits for a line.
Waits(k) == k.peer = "open" => Delimiters(k.sent) < k.asked

\* What is heard of a client is one request, or the prognosis that it announced.
Polite(s, k) ==
    IF SignOf(s) # NONE
    THEN NoFurtherLine(Heard(s, k)) /\ Waits(k)
    ELSE OneRequest(Heard(s, k)) /\ (Heard(s, k) # <<>> => Waits(k))

\* A reply that is being written is all that there is to a request, and a client
\* that is there has received it when it received as many lines as it asked for.
Answered(s, k) ==
    Replies(s) /\ s.buf # <<>> =>
        /\ Heard(s, k) = <<>> /\ s.buf[Len(s.buf)] = DELIMITER /\ s.ec # "success"
        /\ k.peer = "open" => Delimiters(OwedOf(s, k)) <= k.asked

\* A sign is announced while a prognosis is read, and nothing of a connection
\* outlives its object and its socket.
Settled(s, k) ==
    /\ s.open => k.peer # "none" /\ (s.op # "handleReadPrognosis" => s.zodiac = NONE)
    /\ ~s.open => k.sent = <<>>
    /\ k.peer = "none" => k = NoSocket
    /\ k.peer = "open" => \A i \in 1 .. Len(k.todo) : OneRequest(k.todo[i])

Conversation(s, k) == Polite(s, k) /\ Answered(s, k) /\ Settled(s, k)

\* A prognosis is a line without its delimiter.
Undivided(z) == mPrognosisPerZodiac[z] # NONE => ~HasLine(mPrognosisPerZodiac[z])

\* What the refinement needs beyond ServerInv.
ServiceInv ==
    /\ \A z \in Zodiac : Undivided(z)
    /\ \A c \in Conn : Conversation(conn[c], net[c])

ServiceStep == Service!Next \/ UNCHANGED Service!serviceVars

-----------------------------------------------------------------------------
\* The service's variables, by objects and sockets.
LEMMA Views ==
    ASSUME NEW c
    PROVE  /\ Unserved(c) = UnservedOf(conn[c], net[c]) /\ Owed(c) = OwedOf(conn[c], net[c])
           /\ Announced(c) = SignOf(conn[c])
           /\ Unserved(c)' = UnservedOf(conn'[c], net'[c]) /\ Owed(c)' = OwedOf(conn'[c], net'[c])
           /\ Announced(c)' = SignOf(conn'[c])
  BY Zenon DEF Unserved, Owed, Announced, UnservedOf, OwedOf, SignOf, Heard, Replies, Join,
               Reading, Writing

SameView(t, l, s, k) ==
    UnservedOf(t, l) = UnservedOf(s, k) /\ OwedOf(t, l) = OwedOf(s, k) /\ SignOf(t) = SignOf(s)

\* A step of one connection, which leaves its object t and its socket l.
Moves(c, t, l) ==
    /\ conn'[c] = t /\ net'[c] = l
    /\ \A d \in Conn : d # c => conn'[d] = conn[d] /\ net'[d] = net[d]

LEMMA OthersSeen ==
    ASSUME NEW c \in Conn, NEW t, NEW l, Moves(c, t, l)
    PROVE  /\ Unserved(c)' = UnservedOf(t, l) /\ Owed(c)' = OwedOf(t, l) /\ Announced(c)' = SignOf(t)
           /\ \A d \in Conn : d # c => /\ Unserved(d)' = Unserved(d) /\ Owed(d)' = Owed(d)
                                       /\ Announced(d)' = Announced(d)
  <1>1. ASSUME NEW d \in Conn, d # c
        PROVE  /\ Unserved(d)' = Unserved(d) /\ Owed(d)' = Owed(d)
               /\ Announced(d)' = Announced(d)
    <2>1. conn'[d] = conn[d] /\ net'[d] = net[d]
      BY <1>1, Zenon DEF Moves
    <2> QED BY <2>1, Views, Zenon
  <1>2. conn'[c] = t /\ net'[c] = l
    BY Zenon DEF Moves
  <1>3. Unserved(c)' = UnservedOf(t, l) /\ Owed(c)' = OwedOf(t, l) /\ Announced(c)' = SignOf(t)
    BY <1>2, Views, Zenon
  <1> QED BY <1>1, <1>3

\* It keeps the invariant.
LEMMA OneKeeps ==
    ASSUME ServiceInv, NEW c \in Conn, NEW t, NEW l, Moves(c, t, l), Conversation(t, l),
           \A z \in Zodiac : Undivided(z)'
    PROVE  ServiceInv'
  <1>1. ASSUME NEW d \in Conn
        PROVE  Conversation(conn'[d], net'[d])
    <2>1. CASE d = c
      BY <2>1, Zenon DEF Moves
    <2>2. CASE d # c
      <3>1. conn'[d] = conn[d] /\ net'[d] = net[d]
        BY <2>2, Zenon DEF Moves
      <3>2. Conversation(conn[d], net[d])
        BY DEF ServiceInv
      <3> QED BY <3>1, <3>2, Zenon
    <2> QED BY <2>1, <2>2
  <1>2. \A d \in Conn : Conversation(conn[d], net[d])'
    BY <1>1, Zenon DEF Conversation, Polite, Answered, Settled
  <1> QED BY <1>2 DEF ServiceInv

LEMMA StoreKept ==
    ASSUME UNCHANGED mPrognosisPerZodiac, ServiceInv
    PROVE  /\ \A z \in Zodiac : Undivided(z)'
           /\ \A z \in Zodiac : Prognosis(z)' = Prognosis(z)
  BY DEF Prognosis, Undivided, ServiceInv

\* A step of one connection that the service does not see.
LEMMA OneUnseen ==
    ASSUME ServiceInv, NEW c \in Conn, NEW t, NEW l, Moves(c, t, l), Conversation(t, l),
           SameView(t, l, conn[c], net[c]), UNCHANGED mPrognosisPerZodiac
    PROVE  ServiceInv' /\ ServiceStep
  <1>1. ServiceInv'
    BY StoreKept, OneKeeps
  <1>2. \A d \in Conn : /\ Unserved(d)' = Unserved(d) /\ Owed(d)' = Owed(d)
                        /\ Announced(d)' = Announced(d)
    BY OthersSeen, Views, Zenon DEF SameView
  <1>3. \A z \in Zodiac : Prognosis(z)' = Prognosis(z)
    BY StoreKept
  <1>4. UNCHANGED Service!serviceVars
    BY <1>2, <1>3, Zenon DEF Service!serviceVars
  <1> QED BY <1>1, <1>4 DEF ServiceStep

\* A closed object without a socket is an empty connection.
LEMMA ClosedView ==
    ASSUME NEW s, s.open = FALSE
    PROVE  /\ UnservedOf(s, NoSocket) = <<>> /\ OwedOf(s, NoSocket) = <<>> /\ SignOf(s) = NONE
           /\ Conversation(s, NoSocket)
  <1>1. /\ NoSocket.inq = <<>> /\ NoSocket.todo = <<>> /\ NoSocket.sent = <<>>
        /\ NoSocket.peer = "none"
    BY DEF NoSocket
  <1>2. Join(<<>>, <<>>) = <<>>
    BY DEF Join
  <1>3. ~Replies(s) /\ SignOf(s) = NONE
    BY DEF Replies, SignOf
  <1>4. Heard(s, NoSocket) = <<>>
    BY <1>1, <1>2 DEF Heard
  <1>5. UnservedOf(s, NoSocket) = <<>>
    BY <1>1, <1>2, <1>4, TogetherEmpty DEF UnservedOf
  <1>6. OwedOf(s, NoSocket) = <<>>
    BY <1>1, <1>2, <1>3 DEF OwedOf
  <1>7. OneRequest(<<>>)
    BY DEF OneRequest
  <1>8. Conversation(s, NoSocket)
    BY <1>1, <1>3, <1>4, <1>7 DEF Conversation, Polite, Answered, Settled
  <1> QED BY <1>3, <1>5, <1>6, <1>8

\* A connection is dropped.
LEMMA DropSeen ==
    ASSUME ServiceInv, NEW c \in Conn, NEW t, Moves(c, t, NoSocket), t.open = FALSE,
           UNCHANGED mPrognosisPerZodiac
    PROVE  ServiceInv' /\ ServiceStep
  <1>1. ServiceInv'
    BY StoreKept, ClosedView, OneKeeps
  <1>2. /\ Unserved(c)' = <<>> /\ Owed(c)' = <<>> /\ Announced(c)' = NONE
        /\ \A d \in Conn : d # c => /\ Unserved(d)' = Unserved(d) /\ Owed(d)' = Owed(d)
                                    /\ Announced(d)' = Announced(d)
    BY OthersSeen, ClosedView
  <1>3. \A d \in Conn : /\ Unserved(d)' = IF d \in {c} THEN <<>> ELSE Unserved(d)
                        /\ Announced(d)' = IF d \in {c} THEN NONE ELSE Announced(d)
                        /\ Owed(d)' = IF d \in {c} THEN <<>> ELSE Owed(d)
    BY <1>2
  <1>4. \A z \in Zodiac : Prognosis(z)' = Prognosis(z)
    BY StoreKept
  <1>5. Service!Drop({c})
    BY <1>3, <1>4, Zenon DEF Service!Drop
  <1>6. {c} \in SUBSET Conn
    OBVIOUS
  <1> QED BY <1>1, <1>5, <1>6 DEF ServiceStep, Service!Next

-----------------------------------------------------------------------------
\* How the handlers of c leave its object and its socket.
LEMMA HandledFacts ==
    ASSUME ServerInv, NEW c \in Conn, NEW t \in Connection, Handled(c, t)
    PROVE  /\ t.open => Moves(c, t, net[c])
           /\ ~t.open => \E u : u.open = FALSE /\ Moves(c, u, NoSocket)
  <1> DEFINE u == IF Released(t) THEN NoConnection ELSE t
  <1>1. /\ conn' = [conn EXCEPT ![c] = u]
        /\ net' = [net EXCEPT ![c] = IF t.open THEN @ ELSE NoSocket]
    BY DEF Handled, Becomes
  <1>2. t.open \in BOOLEAN /\ (t.open => u = t) /\ (~t.open => u.open = FALSE)
    BY Fields, NothingFacts DEF Released
  <1> HIDE DEF u
  <1>3. Moves(c, u, IF t.open THEN net[c] ELSE NoSocket)
    BY <1>1, TypeFacts DEF Moves
  <1> QED BY <1>2, <1>3

LEMMA ClosedSeen ==
    ASSUME ServerInv, ServiceInv, NEW c \in Conn, NEW t \in Connection, Handled(c, t), ~t.open,
           UNCHANGED mPrognosisPerZodiac
    PROVE  ServiceInv' /\ ServiceStep
  <1>1. PICK u : u.open = FALSE /\ Moves(c, u, NoSocket)
    BY HandledFacts
  <1> QED BY <1>1, DropSeen

\* A handler goes on with what it does only if all is well.
LEMMA UnlessOpen ==
    ASSUME NEW s \in Connection, NEW t, Unless(s, t).open
    PROVE  s.open /\ s.ec = "success" /\ Unless(s, t) = t
  <1> DEFINE r == IoCalled(s)
             u == stop(r)
  <1>1. LooksLike(r, s.open, "none", "none", s.wait, s.buf, s.zodiac)
    BY CalledFacts
  <1> HIDE DEF r
  <1>2. LooksLike(u, FALSE, r.op, Cancelled(r.ec), Cancelled(r.wait), r.buf, r.zodiac)
    BY <1>1, StopFacts DEF LooksLike
  <1> HIDE DEF u
  <1>3. Unless(s, t) = IF ~s.open THEN r ELSE IF s.ec # "success" THEN u ELSE t
    BY DEF Unless, u, r
  <1> QED BY <1>1, <1>2, <1>3 DEF LooksLike

\* What is heard of a client is in the buffer and on its way; the first line of
\* the buffer is the first that the service has to serve.
LEMMA HeardTypes ==
    ASSUME NEW s \in Connection, NEW k \in Socket
    PROVE  /\ s.buf \in Seq(Word) /\ k.inq \in Seq(Word) /\ k.sent \in Seq(Word)
           /\ k.todo \in Seq(Seq(Word)) /\ Together(k.todo) \in Seq(Word) /\ k.asked \in Nat
           /\ Heard(s, k) \in Seq(Word) /\ <<>> \in Seq(Word)
  <1>1. s.buf \in Seq(Word) /\ k.inq \in Seq(Word) /\ k.sent \in Seq(Word)
        /\ k.todo \in Seq(Seq(Word)) /\ k.asked \in Nat
    BY Fields, SocketFields
  <1>2. <<>> \in Seq(Word)
    OBVIOUS
  <1>3. Together(k.todo) \in Seq(Word)
    BY <1>1, TogetherTypes
  <1>4. Heard(s, k) \in Seq(Word)
    BY <1>1, <1>2, JoinType DEF Heard
  <1> QED BY <1>1, <1>2, <1>3, <1>4

LEMMA LineHeard ==
    ASSUME NEW s \in Connection, NEW k \in Socket, s.open, s.op \in Reads, HasLine(s.buf)
    PROVE  LET l == getline(s.buf)
               n == LineLength(s.buf)
               r == Join(Remainder(s.buf), k.inq)
           IN  /\ l \in Seq(Word) /\ IsLine(l, Len(l)) /\ Len(l) = n
               /\ Remainder(s.buf) \in Seq(Word) /\ r \in Seq(Word)
               /\ IsLine(Heard(s, k), n) /\ n \in 1 .. Len(Heard(s, k))
               /\ First(Heard(s, k), n) = l /\ After(Heard(s, k), n) = r
               /\ n \in 1 .. Len(UnservedOf(s, k)) /\ IsLine(UnservedOf(s, k), n)
               /\ First(UnservedOf(s, k), n) = l
               /\ After(UnservedOf(s, k), n) = Join(r, Together(k.todo))
               /\ Len(l) > 2 => UnservedOf(s, k)[2] = l[2]
  <1> DEFINE b == s.buf
             l == getline(b)
             n == LineLength(b)
             e == Remainder(b)
             r == Join(e, k.inq)
             p == Heard(s, k)
             o == Together(k.todo)
             u == Join(p, o)
  <1>1. b \in Seq(Word) /\ k.inq \in Seq(Word) /\ o \in Seq(Word)
    BY HeardTypes
  <1>2. /\ IsLine(b, n) /\ l \in Seq(Word) /\ Len(l) = n /\ IsLine(l, Len(l)) /\ e \in Seq(Word)
        /\ n \in 1 .. Len(b)
    BY <1>1, LineFacts
  <1>3. l = First(b, n) /\ e = After(b, n)
    BY DEF getline, Remainder
  <1>4. p = Join(b, k.inq)
    BY DEF Heard, Reads
  <1>5. UnservedOf(s, k) = u
    BY DEF UnservedOf
  <1>6. r \in Seq(Word)
    BY <1>1, <1>2, JoinType
  <1> HIDE DEF b, l, n, e, p, o
  <1>7. /\ n \in 1 .. Len(p) /\ IsLine(p, n) /\ First(p, n) = l /\ After(p, n) = r /\ p \in Seq(Word)
    BY <1>1, <1>2, <1>3, <1>4, LineInside
  <1> HIDE DEF r
  <1>8. /\ n \in 1 .. Len(u) /\ IsLine(u, n) /\ First(u, n) = l /\ After(u, n) = Join(r, o)
        /\ u \in Seq(Word)
    BY <1>1, <1>7, LineInside
  <1> HIDE DEF u
  <1>9. ASSUME Len(l) > 2
        PROVE  u[2] = l[2]
    <2>1. Len(u) \in Nat
      BY <1>8, LenProperties
    <2>2. n \in 0 .. Len(u) /\ 2 \in 1 .. n
      BY <1>2, <1>8, <1>9, <2>1
    <2>3. First(u, n)[2] = u[2]
      BY <1>8, <2>2, CutFacts
    <2> QED BY <1>8, <2>3
  <1> QED BY <1>2, <1>5, <1>6, <1>7, <1>8, <1>9 DEF b, l, n, e, r, p, o

-----------------------------------------------------------------------------
\* What becomes of a connection whose first line was served: the object is t.
LEMMA ReadOn ==
    ASSUME NEW s \in Connection, NEW k \in Socket, NEW t \in Connection,
           t.open, t.op = "handleReadPrognosis", s.open, s.op \in Reads, HasLine(s.buf),
           t.buf = Remainder(s.buf)
    PROVE  /\ Heard(t, k) = Join(Remainder(s.buf), k.inq)
           /\ UnservedOf(t, k) = Join(Join(Remainder(s.buf), k.inq), Together(k.todo))
           /\ OwedOf(t, k) = OwedOf(s, k)
  <1>1. Heard(t, k) = Join(Remainder(s.buf), k.inq)
    BY DEF Heard
  <1>2. OwedOf(t, k) = OwedOf(s, k)
    BY DEF OwedOf, Replies, Reads
  <1> QED BY <1>1, <1>2 DEF UnservedOf

\* A star announces its sign.
LEMMA AnnounceSeen ==
    ASSUME ServerInv, ServiceInv, NEW c \in Conn, NEW t \in Connection, Moves(c, t, net[c]),
           UNCHANGED mPrognosisPerZodiac,
           conn[c].open, conn[c].op = "handleReadRequest", HasLine(conn[c].buf),
           IsRequest(STAR_REQUEST_TYPE, getline(conn[c].buf)),
           t.open = TRUE, t.op = "handleReadPrognosis", t.buf = Remainder(conn[c].buf),
           t.zodiac = getline(conn[c].buf)[2]
    PROVE  ServiceInv' /\ ServiceStep
  <1> DEFINE s == conn[c]
             k == net[c]
             l == getline(s.buf)
             n == LineLength(s.buf)
             p == Heard(s, k)
             r == Join(Remainder(s.buf), k.inq)
  <1>1. s \in Connection /\ k \in Socket /\ s.op \in Reads
    BY TypeFacts DEF Reads
  <1>2. Conversation(s, k)
    BY DEF ServiceInv
  <1>3. /\ l \in Seq(Word) /\ IsLine(l, Len(l)) /\ r \in Seq(Word) /\ p \in Seq(Word)
        /\ IsLine(p, n) /\ n \in 1 .. Len(p) /\ First(p, n) = l /\ After(p, n) = r
    BY <1>1, LineHeard, HeardTypes, Zenon
  <1>4. /\ n \in 1 .. Len(UnservedOf(s, k)) /\ IsLine(UnservedOf(s, k), n)
        /\ First(UnservedOf(s, k), n) = l
        /\ After(UnservedOf(s, k), n) = Join(r, Together(k.todo))
        /\ Len(l) > 2 => UnservedOf(s, k)[2] = l[2]
    BY <1>1, LineHeard, Zenon
  <1>5. Len(l) > 2 /\ l[1] = STAR_REQUEST_TYPE /\ l[2] \in Zodiac
    BY <1>3, RequestIsLong
  <1>6. /\ Heard(t, k) = r /\ UnservedOf(t, k) = Join(r, Together(k.todo))
        /\ OwedOf(t, k) = OwedOf(s, k)
    BY <1>1, ReadOn
  <1>7. s.zodiac = NONE /\ SignOf(s) = NONE /\ SignOf(t) = l[2] /\ l[2] # NONE
    BY <1>2, <1>5, BoostServerAssumption DEF Conversation, Settled, SignOf
  <1>8. OneRequest(p) /\ Waits(k) /\ NoFurtherLine(r)
    <2>1. OneRequest(p) /\ (p # <<>> => Waits(k))
      BY <1>2, <1>7 DEF Conversation, Polite
    <2> HIDE DEF p, n, l, r
    <2>2. p # <<>>
      BY <1>3 DEF IsLine
    <2>3. n = Len(p) \/ NoFurtherLine(After(p, n))
      BY <1>3, <2>1 DEF OneRequest
    <2>4. n = Len(p) => NoFurtherLine(After(p, n))
      <3>1. n = Len(p) => After(p, n) = <<>>
        BY <1>3, NothingBehind
      <3>2. NoFurtherLine(<<>>)
        BY DEF NoFurtherLine
      <3> QED BY <3>1, <3>2
    <2> QED BY <1>3, <2>1, <2>2, <2>3, <2>4
  <1> HIDE DEF p, n, l, r
  <1>9. Conversation(t, k)
    <2>1. Polite(t, k)
      BY <1>6, <1>7, <1>8 DEF Polite
    <2>2. Answered(t, k)
      BY DEF Answered, Replies
    <2>3. Settled(t, k)
      BY <1>2 DEF Conversation, Settled
    <2> QED BY <2>1, <2>2, <2>3 DEF Conversation
  <1>10. ServiceInv'
    BY <1>9, StoreKept, OneKeeps
  <1>11. /\ Unserved(c) = UnservedOf(s, k) /\ Announced(c) = NONE
         /\ Unserved(c)' = After(Unserved(c), n) /\ Owed(c)' = Owed(c) /\ Announced(c)' = l[2]
         /\ \A d \in Conn : d # c => /\ Unserved(d)' = Unserved(d) /\ Owed(d)' = Owed(d)
                                     /\ Announced(d)' = Announced(d)
    <2>1. /\ Unserved(c)' = UnservedOf(t, k) /\ Owed(c)' = OwedOf(t, k) /\ Announced(c)' = SignOf(t)
          /\ \A d \in Conn : d # c => /\ Unserved(d)' = Unserved(d) /\ Owed(d)' = Owed(d)
                                      /\ Announced(d)' = Announced(d)
      BY OthersSeen
    <2> QED BY <1>4, <1>6, <1>7, <2>1, Views, Zenon
  <1>12. \A z \in Zodiac : Prognosis(z)' = Prognosis(z)
    BY StoreKept
  <1>13. Service!IsRequest(STAR_REQUEST_TYPE, First(UnservedOf(s, k), n))
    BY <1>3, <1>4, <1>5, LenProperties, SameProtocol
  <1>14. Service!Announce(c, n)
    BY <1>4, <1>5, <1>11, <1>12, <1>13, SameProtocol DEF Service!Announce, Service!Consume
  <1>15. Service!Next
    BY <1>4, <1>11, <1>14 DEF Service!Next, Service!Serve
  <1> QED BY <1>10, <1>15 DEF ServiceStep

\* What becomes of a connection whose line was all that was heard, and is
\* answered with a: the object is t.
LEMMA ReplySeen ==
    ASSUME NEW s \in Connection, NEW k \in Socket, NEW t \in Connection, Conversation(s, k),
           s.open, s.op \in Reads, Waits(k), k.inq = <<>>, NEW a \in Seq(Word), IsLine(a, Len(a)),
           t.open = TRUE, t.op = "handleWriteResponse", t.ec = "pending", t.zodiac = NONE,
           t.buf = a
    PROVE  /\ Conversation(t, k) /\ SignOf(t) = NONE
           /\ UnservedOf(t, k) = Join(<<>>, Together(k.todo))
           /\ OwedOf(t, k) = Join(OwedOf(s, k), a)
  <1>1. /\ k.sent \in Seq(Word) /\ Together(k.todo) \in Seq(Word) /\ k.asked \in Nat
        /\ <<>> \in Seq(Word)
    BY HeardTypes
  <1>2. Join(<<>>, <<>>) = <<>> /\ Join(k.sent, <<>>) = k.sent
    BY <1>1, JoinEmpty
  <1>3. Heard(t, k) = <<>>
    BY <1>2 DEF Heard
  <1>4. UnservedOf(t, k) = Join(<<>>, Together(k.todo))
    BY <1>3 DEF UnservedOf
  <1>5. OwedOf(s, k) = k.sent /\ OwedOf(t, k) = Join(k.sent, a) /\ SignOf(t) = NONE
    BY <1>2 DEF OwedOf, Replies, Reads, SignOf
  <1>6. a # <<>> /\ a[Len(a)] = DELIMITER
    BY DEF IsLine
  <1>7. k.peer = "open" => Delimiters(Join(k.sent, a)) <= k.asked
    <2>1. /\ Delimiters(k.sent) \in Nat
          /\ Delimiters(Join(k.sent, a)) = Delimiters(k.sent) + 1
      BY <1>1, <1>6, DelimitersFacts DEF Join
    <2> QED BY <1>1, <2>1 DEF Waits
  <1>8. Polite(t, k)
    <2>1. OneRequest(<<>>)
      BY DEF OneRequest
    <2> QED BY <1>3, <1>5, <2>1 DEF Polite
  <1>9. Answered(t, k)
    BY <1>3, <1>5, <1>6, <1>7 DEF Answered
  <1>10. Settled(t, k)
    BY DEF Conversation, Settled
  <1> QED BY <1>4, <1>5, <1>8, <1>9, <1>10 DEF Conversation

\* What getPrognosis returns is a line, and what the service replies.
LEMMA PrognosisSeen ==
    ASSUME ServerInv, ServiceInv, NEW z \in Zodiac
    PROVE  /\ getPrognosis(z) \in Seq(Word) /\ IsLine(getPrognosis(z), Len(getPrognosis(z)))
           /\ getPrognosis(z) = IF Prognosis(z) = <<>> THEN UNKNOWN_PROGNOSIS ELSE Prognosis(z)
  <1> DEFINE m == mPrognosisPerZodiac[z]
             a == Append(m, DELIMITER)
             n == Len(m) + 1
  <1>1. m \in Seq(Word) \cup {NONE} /\ (m # NONE => ~HasLine(m)) /\ DELIMITER \in Word
    BY TypeFacts DEF ServiceInv, Undivided, Word
  <1>2. getPrognosis(z) \in Seq(Word)
    BY TypeFacts, PrognosisFacts
  <1>3. Prognosis(z) = (IF m = NONE THEN <<>> ELSE a)
        /\ getPrognosis(z) = (IF m = NONE THEN UNKNOWN_PROGNOSIS ELSE a)
    BY DEF Prognosis, getPrognosis
  <1> HIDE DEF m
  <1>4. CASE m = NONE
    <2>1. Len(UNKNOWN_PROGNOSIS) = 2 /\ UNKNOWN_PROGNOSIS[2] = DELIMITER
          /\ UNKNOWN_PROGNOSIS[1] # DELIMITER
      BY DEF UNKNOWN_PROGNOSIS, CLIENT_REPLY_FAILURE, DELIMITER
    <2>2. IsLine(UNKNOWN_PROGNOSIS, Len(UNKNOWN_PROGNOSIS))
      BY <2>1 DEF IsLine
    <2> QED BY <1>2, <1>3, <1>4, <2>2
  <1>5. CASE m # NONE
    <2>1. /\ Len(m) \in Nat /\ m \in Seq(Word) /\ a \in Seq(Word) /\ a # <<>> /\ Len(a) = n
          /\ \A i \in 1 .. Len(m) : a[i] = m[i]
          /\ a[n] = DELIMITER
      BY <1>1, <1>5, AppendProperties, LenProperties
    <2> HIDE DEF a
    <2>2. \A i \in 1 .. Len(m) : m[i] # DELIMITER
      BY <1>1, <1>5 DEF HasLine
    <2>3. IsLine(a, Len(a))
      BY <2>1, <2>2 DEF IsLine
    <2> QED BY <1>2, <1>3, <1>5, <2>1, <2>3
  <1> QED BY <1>4, <1>5

\* A client asks for the prognosis of a sign.
LEMMA AskSeen ==
    ASSUME ServerInv, ServiceInv, NEW c \in Conn, NEW t \in Connection, Moves(c, t, net[c]),
           UNCHANGED mPrognosisPerZodiac,
           conn[c].open, conn[c].op = "handleReadRequest", HasLine(conn[c].buf),
           ~IsRequest(STAR_REQUEST_TYPE, getline(conn[c].buf)),
           IsRequest(CLIENT_REQUEST_TYPE, getline(conn[c].buf)),
           t.open = TRUE, t.op = "handleWriteResponse", t.ec = "pending",
           t.zodiac = conn[c].zodiac,
           t.buf = Join(Remainder(conn[c].buf), getPrognosis(getline(conn[c].buf)[2]))
    PROVE  ServiceInv' /\ ServiceStep
  <1> DEFINE s == conn[c]
             k == net[c]
             l == getline(s.buf)
             n == LineLength(s.buf)
             p == Heard(s, k)
             r == Join(Remainder(s.buf), k.inq)
             a == getPrognosis(l[2])
  <1>1. s \in Connection /\ k \in Socket /\ s.op \in Reads
    BY TypeFacts DEF Reads
  <1>2. Conversation(s, k)
    BY DEF ServiceInv
  <1>3. /\ l \in Seq(Word) /\ IsLine(l, Len(l)) /\ r \in Seq(Word) /\ p \in Seq(Word)
        /\ IsLine(p, n) /\ n \in 1 .. Len(p) /\ First(p, n) = l /\ After(p, n) = r
        /\ Remainder(s.buf) \in Seq(Word) /\ k.inq \in Seq(Word)
    BY <1>1, LineHeard, HeardTypes, Zenon
  <1>4. /\ n \in 1 .. Len(UnservedOf(s, k)) /\ IsLine(UnservedOf(s, k), n)
        /\ First(UnservedOf(s, k), n) = l
        /\ After(UnservedOf(s, k), n) = Join(r, Together(k.todo))
        /\ Len(l) > 2 => UnservedOf(s, k)[2] = l[2]
    BY <1>1, LineHeard, Zenon
  <1>5. Len(l) > 2 /\ l[1] = CLIENT_REQUEST_TYPE /\ l[2] \in Zodiac
    BY <1>3, RequestIsLong
  <1>6. s.zodiac = NONE /\ SignOf(s) = NONE
    BY <1>2 DEF Conversation, Settled, SignOf
  <1>7. Waits(k) /\ r = <<>>
    <2>1. OneRequest(p) /\ (p # <<>> => Waits(k))
      BY <1>2, <1>6 DEF Conversation, Polite
    <2>2. ~IsRequest(STAR_REQUEST_TYPE, l)
      OBVIOUS
    <2> HIDE DEF p, n, l, r
    <2>3. p # <<>>
      BY <1>3 DEF IsLine
    <2>4. n = Len(p)
      BY <1>3, <2>1, <2>2 DEF OneRequest
    <2>5. After(p, n) = <<>>
      BY <1>3, <2>4, NothingBehind
    <2> QED BY <1>3, <2>1, <2>3, <2>5
  <1>8. Remainder(s.buf) = <<>> /\ k.inq = <<>>
    BY <1>3, <1>7, JoinNothing
  <1>9. /\ a \in Seq(Word) /\ IsLine(a, Len(a))
        /\ a = IF Prognosis(l[2]) = <<>> THEN UNKNOWN_PROGNOSIS ELSE Prognosis(l[2])
    BY <1>5, PrognosisSeen
  <1>10. t.buf = a
    BY <1>8, <1>9, JoinEmpty
  <1> HIDE DEF p, n, l, r, a
  <1>11. /\ Conversation(t, k) /\ SignOf(t) = NONE
         /\ UnservedOf(t, k) = Join(<<>>, Together(k.todo))
         /\ OwedOf(t, k) = Join(OwedOf(s, k), a)
    <2>1. t.zodiac = NONE /\ Waits(k) /\ k.inq = <<>> /\ a \in Seq(Word) /\ IsLine(a, Len(a))
      BY <1>6, <1>7, <1>8, <1>9
    <2>2. s.open /\ k \in Socket /\ s \in Connection /\ s.op \in Reads /\ Conversation(s, k)
      BY <1>1, <1>2
    <2> HIDE DEF s, k
    <2> QED BY <1>10, <2>1, <2>2, ReplySeen
  <1>12. ServiceInv'
    BY <1>11, StoreKept, OneKeeps
  <1>13. /\ Unserved(c) = UnservedOf(s, k) /\ Announced(c) = NONE /\ Announced(c)' = NONE
         /\ Unserved(c)' = After(Unserved(c), n) /\ Owed(c)' = Owed(c) \o a
         /\ \A d \in Conn : d # c => /\ Unserved(d)' = Unserved(d) /\ Owed(d)' = Owed(d)
                                     /\ Announced(d)' = Announced(d)
    <2>1. /\ Unserved(c)' = UnservedOf(t, k) /\ Owed(c)' = OwedOf(t, k) /\ Announced(c)' = SignOf(t)
          /\ \A d \in Conn : d # c => /\ Unserved(d)' = Unserved(d) /\ Owed(d)' = Owed(d)
                                      /\ Announced(d)' = Announced(d)
      BY OthersSeen
    <2>2. Owed(c)' = Join(Owed(c), a)
      BY <1>11, <2>1, Views, Zenon
    <2>3. Owed(c)' = Owed(c) \o a
      BY <2>2, Zenon DEF Join
    <2> QED BY <1>4, <1>6, <1>7, <1>11, <2>1, <2>3, Views, Zenon
  <1>14. \A z \in Zodiac : Prognosis(z)' = Prognosis(z)
    BY StoreKept
  <1>15. Service!IsRequest(CLIENT_REQUEST_TYPE, First(UnservedOf(s, k), n))
    BY <1>3, <1>4, <1>5, LenProperties, SameProtocol
  <1>16. Service!Reply(l[2]) = a
    BY <1>5, <1>9, SameProtocol DEF Service!Reply
  <1>17. Service!Ask(c, n)
    BY <1>4, <1>5, <1>13, <1>14, <1>15, <1>16, SameProtocol DEF Service!Ask, Service!Consume
  <1>18. Service!Next
    BY <1>4, <1>13, <1>17 DEF Service!Next, Service!Serve
  <1> QED BY <1>12, <1>18 DEF ServiceStep

\* A line is stored without its delimiter.
LEMMA StoredLine ==
    ASSUME NEW buf \in Seq(Word), HasLine(buf)
    PROVE  LET q == First(buf, LineLength(buf) - 1)
           IN  q \in Seq(Word) /\ ~HasLine(q) /\ Append(q, DELIMITER) = getline(buf)
  <1> DEFINE n == LineLength(buf)
             l == getline(buf)
             m == n - 1
             q == First(buf, m)
             a == Append(q, DELIMITER)
  <1>1. /\ n \in 1 .. Len(buf) /\ IsLine(buf, n) /\ l \in Seq(Word) /\ Len(l) = n
        /\ \A i \in 1 .. n : l[i] = buf[i]
    BY LineFacts
  <1>2. Len(buf) \in Nat /\ DELIMITER \in Word
    BY LenProperties DEF Word
  <1> HIDE DEF n, l
  <1>3. m \in 0 .. Len(buf) /\ m \in Nat /\ m + 1 = n
    BY <1>1, <1>2
  <1> HIDE DEF m
  <1>4. /\ q \in Seq(Word) /\ Len(q) = m /\ \A i \in 1 .. m : q[i] = buf[i]
    BY <1>3, CutFacts
  <1> HIDE DEF q
  <1>5. /\ a \in Seq(Word) /\ Len(a) = m + 1 /\ a[m + 1] = DELIMITER
        /\ \A i \in 1 .. m : a[i] = q[i]
    BY <1>2, <1>4, AppendProperties
  <1> HIDE DEF a
  <1>6. buf[n] = DELIMITER /\ \A i \in 1 .. n - 1 : buf[i] # DELIMITER
    BY <1>1 DEF IsLine
  <1>7. ~HasLine(q)
    BY <1>3, <1>4, <1>6 DEF HasLine
  <1>8. \A i \in 1 .. n : a[i] = l[i]
    <2> SUFFICES ASSUME NEW i \in 1 .. n PROVE a[i] = l[i]
      OBVIOUS
    <2>1. CASE i = n
      BY <1>1, <1>3, <1>5, <1>6, <2>1
    <2>2. CASE i # n
      <3>1. i \in 1 .. m
        BY <1>3, <2>2
      <3> QED BY <1>1, <1>4, <1>5, <3>1
    <2> QED BY <2>1, <2>2
  <1>9. a = l
    BY <1>1, <1>3, <1>5, <1>8, SeqEqual
  <1> QED BY <1>4, <1>7, <1>9 DEF a, l, n, m, q

\* A star says what it announced.
LEMMA PredictSeen ==
    ASSUME ServerInv, ServiceInv, NEW c \in Conn, NEW t \in Connection, Moves(c, t, net[c]),
           mPrognosisPerZodiac' =
               [mPrognosisPerZodiac EXCEPT ![conn[c].zodiac] =
                    First(conn[c].buf, LineLength(conn[c].buf) - 1)],
           conn[c].open, conn[c].op = "handleReadPrognosis", HasLine(conn[c].buf),
           t.open = TRUE, t.op = "handleWriteResponse", t.ec = "pending", t.zodiac = NONE,
           t.buf = Join(Remainder(conn[c].buf), STAR_RESPONSE_SUCCESS)
    PROVE  ServiceInv' /\ ServiceStep
  <1> DEFINE s == conn[c]
             k == net[c]
             l == getline(s.buf)
             n == LineLength(s.buf)
             p == Heard(s, k)
             r == Join(Remainder(s.buf), k.inq)
             q == First(s.buf, n - 1)
             z == s.zodiac
             a == STAR_RESPONSE_SUCCESS
  <1>1. s \in Connection /\ k \in Socket /\ s.op \in Reads /\ s.buf \in Seq(Word)
    BY TypeFacts, Fields DEF Reads
  <1>2. Conversation(s, k) /\ z \in Zodiac
    BY DEF ServiceInv, ServerInv, Sound
  <1>3. /\ l \in Seq(Word) /\ IsLine(l, Len(l)) /\ r \in Seq(Word) /\ p \in Seq(Word)
        /\ IsLine(p, n) /\ n \in 1 .. Len(p) /\ First(p, n) = l /\ After(p, n) = r
        /\ Remainder(s.buf) \in Seq(Word) /\ k.inq \in Seq(Word)
    BY <1>1, LineHeard, HeardTypes, Zenon
  <1>4. /\ n \in 1 .. Len(UnservedOf(s, k)) /\ IsLine(UnservedOf(s, k), n)
        /\ First(UnservedOf(s, k), n) = l
        /\ After(UnservedOf(s, k), n) = Join(r, Together(k.todo))
    BY <1>1, LineHeard, Zenon
  <1>5. q \in Seq(Word) /\ ~HasLine(q) /\ Append(q, DELIMITER) = l
    BY <1>1, StoredLine, Zenon
  <1>6. SignOf(s) = z /\ z # NONE
    BY <1>2, BoostServerAssumption DEF SignOf
  <1>7. Waits(k) /\ r = <<>>
    <2>1. NoFurtherLine(p) /\ Waits(k)
      BY <1>2, <1>6 DEF Conversation, Polite
    <2> HIDE DEF p, n, l, r
    <2>2. After(p, n) = <<>>
      BY <1>3, <2>1, NothingBehind
    <2> QED BY <1>3, <2>1, <2>2
  <1>8. Remainder(s.buf) = <<>> /\ k.inq = <<>>
    BY <1>3, <1>7, JoinNothing
  <1>9. a \in Seq(Word) /\ IsLine(a, Len(a))
    <2>1. Len(a) = 2 /\ a[2] = DELIMITER /\ a[1] # DELIMITER
      BY DEF STAR_RESPONSE_SUCCESS, STAR_REPLY_SUCCESS, DELIMITER
    <2> HIDE DEF a
    <2>2. IsLine(a, Len(a))
      BY <2>1 DEF IsLine
    <2> QED BY <2>2, ReplyFacts DEF a
  <1>10. t.buf = a
    BY <1>8, <1>9, JoinEmpty
  <1>11. ASSUME NEW y \in Zodiac
         PROVE  Undivided(y)' /\ Prognosis(y)' = IF y = z THEN l ELSE Prognosis(y)
    <2>1. mPrognosisPerZodiac \in [Zodiac -> Seq(Word) \cup {NONE}] /\ Undivided(y)
      BY TypeFacts DEF ServiceInv
    <2>2. mPrognosisPerZodiac' = [mPrognosisPerZodiac EXCEPT ![z] = q]
      OBVIOUS
    <2> HIDE DEF q, l, z
    <2>3. mPrognosisPerZodiac'[y] = IF y = z THEN q ELSE mPrognosisPerZodiac[y]
      BY <2>1, <2>2
    <2>4. q # NONE
      BY <1>5, BoostServerAssumption
    <2>5. CASE y = z
      BY <1>5, <2>3, <2>4, <2>5 DEF Undivided, Prognosis
    <2>6. CASE y # z
      BY <2>1, <2>3, <2>6 DEF Undivided, Prognosis
    <2> QED BY <2>5, <2>6
  <1> HIDE DEF p, n, l, r, a, q, z
  <1>12. /\ Conversation(t, k) /\ SignOf(t) = NONE
         /\ UnservedOf(t, k) = Join(<<>>, Together(k.todo))
         /\ OwedOf(t, k) = Join(OwedOf(s, k), a)
    BY <1>1, <1>2, <1>7, <1>8, <1>9, <1>10, ReplySeen
  <1>13. ServiceInv'
    BY <1>11, <1>12, OneKeeps
  <1>14. /\ Unserved(c) = UnservedOf(s, k) /\ Announced(c) = z /\ Announced(c)' = NONE
         /\ Unserved(c)' = After(Unserved(c), n) /\ Owed(c)' = Owed(c) \o a
         /\ \A d \in Conn : d # c => /\ Unserved(d)' = Unserved(d) /\ Owed(d)' = Owed(d)
                                     /\ Announced(d)' = Announced(d)
    <2>1. /\ Unserved(c)' = UnservedOf(t, k) /\ Owed(c)' = OwedOf(t, k) /\ Announced(c)' = SignOf(t)
          /\ \A d \in Conn : d # c => /\ Unserved(d)' = Unserved(d) /\ Owed(d)' = Owed(d)
                                      /\ Announced(d)' = Announced(d)
      BY OthersSeen
    <2>2. Owed(c)' = Join(Owed(c), a)
      BY <1>12, <2>1, Views, Zenon
    <2>3. Owed(c)' = Owed(c) \o a
      BY <2>2, Zenon DEF Join
    <2> QED BY <1>4, <1>6, <1>7, <1>12, <2>1, <2>3, Views, Zenon
  <1>15. a = Service!STAR_REPLY_SUCCESS
    BY SameProtocol DEF a
  <1>16. Service!Predict(c, n)
    BY <1>2, <1>4, <1>6, <1>11, <1>14, <1>15, SameProtocol DEF Service!Predict, Service!Consume
  <1>17. Service!Next
    BY <1>4, <1>14, <1>16 DEF Service!Next, Service!Serve
  <1> QED BY <1>13, <1>17 DEF ServiceStep

-----------------------------------------------------------------------------
\* A reply goes behind what the buffer holds, and is written.
LEMMA RespondSeen ==
    ASSUME NEW u \in Connection, NEW a \in Seq(Word)
    PROVE  LET t == Respond(u, a)
           IN  /\ t \in Connection /\ t.open = u.open /\ t.op = "handleWriteResponse"
               /\ t.ec = "pending" /\ t.zodiac = u.zodiac /\ t.buf = Join(u.buf, a)
  <1> DEFINE b == u.buf \o a
             v == [u EXCEPT !.buf = b]
             t == Respond(u, a)
  <1>1. b \in Seq(Word)
    BY Fields, ConcatProperties
  <1>2. t = async(expires_after(v, WriteResponseTimeout), "handleWriteResponse")
    BY DEF Respond
  <1>3. b = Join(u.buf, a)
    BY DEF Join
  <1> HIDE DEF b, t
  <1>4. LooksLike(v, u.open, u.op, u.ec, u.wait, b, u.zodiac)
    BY <1>1 DEF LooksLike, Connection
  <1> HIDE DEF v
  <1>5. v \in Connection /\ "handleWriteResponse" \in Handler /\ WriteResponseTimeout \in Nat
    BY <1>4, NumberFacts, HandlerFacts DEF LooksLike
  <1>6. LooksLike(t, v.open, "handleWriteResponse", "pending", Cancelled(v.wait), v.buf, v.zodiac)
    BY <1>2, <1>5, AsyncFacts
  <1> QED BY <1>3, <1>4, <1>6 DEF LooksLike, t

\* What handleReadRequest makes of a line.
LEMMA RequestSeen ==
    ASSUME ServerInv, NEW s \in Connection, NEW peer, Sound(s, peer), s.open,
           s.op = "handleReadRequest", s.ec = "success", Request(IoCalled(s)).open
    PROVE  LET t == Request(IoCalled(s))
               l == getline(s.buf)
               e == Remainder(s.buf)
           IN  /\ t \in Connection /\ t.open = TRUE
               /\ \/ /\ IsRequest(STAR_REQUEST_TYPE, l)
                     /\ t.op = "handleReadPrognosis" /\ t.buf = e /\ t.zodiac = l[2]
                  \/ /\ ~IsRequest(STAR_REQUEST_TYPE, l) /\ IsRequest(CLIENT_REQUEST_TYPE, l)
                     /\ t.op = "handleWriteResponse" /\ t.ec = "pending" /\ t.zodiac = s.zodiac
                     /\ t.buf = Join(e, getPrognosis(l[2]))
  <1> DEFINE r == IoCalled(s)
             l == getline(s.buf)
             e == Remainder(s.buf)
             t == Request(r)
             u == [r EXCEPT !.buf = e]
             v == [u EXCEPT !.zodiac = l[2]]
  <1>1. LooksLike(r, s.open, "none", "none", s.wait, s.buf, s.zodiac) /\ s.open = TRUE
    BY CalledFacts, Fields
  <1>2. HasLine(s.buf) /\ s.buf \in Seq(Word)
    BY Fields DEF Sound, Reads
  <1>3. l \in Seq(Word) /\ e \in Seq(Word) /\ IsLine(l, Len(l))
    BY <1>2, LineFacts
  <1>4. t \in Connection /\ t.open = TRUE
    <2>1. t \in Connection
      BY TypeFacts, RequestFacts DEF IoOutcome
    <2> QED BY <2>1, Fields
  <1>5. t = CASE IsRequest(STAR_REQUEST_TYPE, l) -> AwaitPrognosis(u, l[2])
              [] IsRequest(CLIENT_REQUEST_TYPE, l) -> Respond(u, getPrognosis(l[2]))
              [] OTHER -> stop(u)
    <2>1. r.buf = s.buf
      BY <1>1 DEF LooksLike
    <2> HIDE DEF r
    <2> QED BY <2>1 DEF Request
  <1> HIDE DEF l, e, r, t
  <1>6. LooksLike(u, TRUE, "none", "none", s.wait, e, s.zodiac)
    BY <1>1, <1>3 DEF LooksLike, Connection
  <1> HIDE DEF u
  <1>7. ASSUME NEW type, IsRequest(type, l)
        PROVE  l[2] \in Zodiac /\ l[1] = type
    BY <1>3, <1>7, RequestIsLong
  <1>8. CASE IsRequest(STAR_REQUEST_TYPE, l)
    <2>1. l[2] \in Zodiac /\ ~IsRequest(CLIENT_REQUEST_TYPE, l)
      <3>1. l[2] \in Zodiac /\ l[1] = STAR_REQUEST_TYPE
        BY <1>7, <1>8
      <3>2. IsRequest(CLIENT_REQUEST_TYPE, l) => l[1] = CLIENT_REQUEST_TYPE
        BY <1>7
      <3> QED BY <3>1, <3>2 DEF STAR_REQUEST_TYPE, CLIENT_REQUEST_TYPE
    <2>2. t = AwaitPrognosis(u, l[2])
      BY <1>5, <1>8, <2>1
    <2>3. v \in Connection /\ v.zodiac = l[2] /\ v.buf = e
      BY <1>6, <2>1 DEF LooksLike, Connection
    <2>4. t = async(expires_after(v, ReadPrognosisTimeout), "handleReadPrognosis")
      BY <2>2 DEF AwaitPrognosis
    <2> HIDE DEF v
    <2>5. LooksLike(t, v.open, "handleReadPrognosis", "pending", Cancelled(v.wait), v.buf, v.zodiac)
      BY <2>3, <2>4, AsyncFacts, NumberFacts, HandlerFacts
    <2> QED BY <1>4, <1>8, <2>3, <2>5 DEF LooksLike, t, l, e, r
  <1>9. CASE ~IsRequest(STAR_REQUEST_TYPE, l) /\ IsRequest(CLIENT_REQUEST_TYPE, l)
    <2> DEFINE a == getPrognosis(l[2])
    <2>1. a \in Seq(Word)
      BY <1>7, <1>9, TypeFacts, PrognosisFacts
    <2>2. t = Respond(u, a)
      BY <1>5, <1>9
    <2> HIDE DEF a
    <2>3. u \in Connection /\ u.buf = e /\ u.zodiac = s.zodiac
      BY <1>6 DEF LooksLike
    <2>4. /\ t.op = "handleWriteResponse" /\ t.ec = "pending" /\ t.zodiac = u.zodiac
          /\ t.buf = Join(u.buf, a)
      BY <2>1, <2>2, <2>3, RespondSeen
    <2> QED BY <1>4, <1>9, <2>3, <2>4 DEF t, l, e, r, a
  <1>10. CASE ~IsRequest(STAR_REQUEST_TYPE, l) /\ ~IsRequest(CLIENT_REQUEST_TYPE, l)
    <2>1. t = stop(u)
      BY <1>5, <1>10
    <2>2. u \in Connection
      BY <1>6 DEF LooksLike
    <2>3. t.open = FALSE
      BY <2>1, <2>2, StopFacts DEF LooksLike
    <2> QED BY <1>4, <2>3
  <1> QED BY <1>8, <1>9, <1>10

LEMMA HandleReadRequestSeen ==
    ASSUME ServerInv, ServiceInv, NEW c \in Conn, handleReadRequest(c)
    PROVE  ServiceInv' /\ ServiceStep
  <1> DEFINE s == conn[c]
             peer == net[c].peer
             r == Request(IoCalled(s))
             t == Unless(s, r)
  <1>1. /\ s.op = "handleReadRequest" /\ Handled(c, t) /\ UNCHANGED mPrognosisPerZodiac
    BY DEF handleReadRequest, Handling
  <1>2. s \in Connection /\ Sound(s, peer)
        /\ mPrognosisPerZodiac \in [Zodiac -> Seq(Word) \cup {NONE}]
    BY TypeFacts DEF ServerInv
  <1>3. t \in Connection
    <2>1. s.open /\ s.ec = "success" => IoOutcome(s, r, peer)
      BY <1>1, <1>2, RequestFacts
    <2> HIDE DEF r
    <2>2. IoOutcome(s, t, peer)
      BY <1>2, <2>1, UnlessFacts
    <2> QED BY <2>2 DEF IoOutcome
  <1>4. CASE ~t.open
    <2> HIDE DEF t
    <2> QED BY <1>1, <1>3, <1>4, ClosedSeen
  <1>5. CASE t.open
    <2>1. s.open /\ s.ec = "success" /\ t = r
      BY <1>2, <1>5, UnlessOpen
    <2>2. HasLine(s.buf)
      BY <1>1, <1>2, <2>1 DEF Sound, Reads
    <2>3. Moves(c, t, net[c])
      <3> HIDE DEF t
      <3> QED BY <1>1, <1>3, <1>5, HandledFacts
    <2>4. /\ t.open = TRUE
          /\ \/ /\ IsRequest(STAR_REQUEST_TYPE, getline(s.buf))
                /\ t.op = "handleReadPrognosis" /\ t.buf = Remainder(s.buf)
                /\ t.zodiac = getline(s.buf)[2]
             \/ /\ ~IsRequest(STAR_REQUEST_TYPE, getline(s.buf))
                /\ IsRequest(CLIENT_REQUEST_TYPE, getline(s.buf))
                /\ t.op = "handleWriteResponse" /\ t.ec = "pending" /\ t.zodiac = s.zodiac
                /\ t.buf = Join(Remainder(s.buf), getPrognosis(getline(s.buf)[2]))
      <3>1. r.open
        BY <1>5, <2>1
      <3>2. /\ r.open = TRUE
            /\ \/ /\ IsRequest(STAR_REQUEST_TYPE, getline(s.buf))
                  /\ r.op = "handleReadPrognosis" /\ r.buf = Remainder(s.buf)
                  /\ r.zodiac = getline(s.buf)[2]
               \/ /\ ~IsRequest(STAR_REQUEST_TYPE, getline(s.buf))
                  /\ IsRequest(CLIENT_REQUEST_TYPE, getline(s.buf))
                  /\ r.op = "handleWriteResponse" /\ r.ec = "pending" /\ r.zodiac = s.zodiac
                  /\ r.buf = Join(Remainder(s.buf), getPrognosis(getline(s.buf)[2]))
        BY <1>1, <1>2, <2>1, <3>1, RequestSeen
      <3> HIDE DEF r, t
      <3> QED BY <2>1, <3>2, Zenon
    <2> HIDE DEF t
    <2> QED BY <1>1, <1>3, <2>1, <2>2, <2>3, <2>4, AnnounceSeen, AskSeen
  <1> QED BY <1>4, <1>5

LEMMA HandleReadPrognosisSeen ==
    ASSUME ServerInv, ServiceInv, NEW c \in Conn, handleReadPrognosis(c)
    PROVE  ServiceInv' /\ ServiceStep
  <1> DEFINE s == conn[c]
             peer == net[c].peer
             e == Remainder(s.buf)
             a == STAR_RESPONSE_SUCCESS
             v == IoCalled(s)
             u == [v EXCEPT !.buf = e, !.zodiac = NONE]
             r == Respond(u, a)
             t == Unless(s, r)
             q == First(s.buf, LineLength(s.buf) - 1)
  <1>1. /\ Ready(<<"io", c>>) /\ s.op = "handleReadPrognosis" /\ Handled(c, t)
        /\ mPrognosisPerZodiac' =
             IF s.open /\ s.ec = "success"
             THEN [mPrognosisPerZodiac EXCEPT ![s.zodiac] = q] ELSE mPrognosisPerZodiac
    BY DEF handleReadPrognosis, Handling
  <1>2. s \in Connection /\ Sound(s, peer) /\ s.buf \in Seq(Word) /\ a \in Seq(Word)
    BY TypeFacts, Fields, ReplyFacts DEF ServerInv
  <1> HIDE DEF q, a
  <1>3. ASSUME s.open, s.ec = "success"
        PROVE  /\ HasLine(s.buf) /\ r \in Connection /\ r.open = TRUE
               /\ r.op = "handleWriteResponse" /\ r.ec = "pending" /\ r.zodiac = NONE
               /\ r.buf = Join(e, a)
    <2>1. HasLine(s.buf)
      BY <1>1, <1>2, <1>3 DEF Sound, Reads
    <2>2. e \in Seq(Word)
      BY <1>2, <2>1, LineFacts
    <2>3. LooksLike(v, s.open, "none", "none", s.wait, s.buf, s.zodiac) /\ s.open = TRUE
      BY <1>2, <1>3, CalledFacts, Fields
    <2> HIDE DEF v, e
    <2>4. u \in Connection /\ u.open = TRUE /\ u.buf = e /\ u.zodiac = NONE
      BY <2>2, <2>3 DEF LooksLike, Connection
    <2> HIDE DEF u
    <2> QED BY <1>2, <2>1, <2>4, RespondSeen
  <1> HIDE DEF r
  <1>4. t \in Connection
    <2>1. LooksLike(v, s.open, "none", "none", s.wait, s.buf, s.zodiac)
      BY <1>2, CalledFacts
    <2> HIDE DEF v
    <2>2. v \in Connection /\ stop(v) \in Connection
      BY <2>1, StopFacts DEF LooksLike
    <2>3. t = IF ~s.open THEN v ELSE IF s.ec # "success" THEN stop(v) ELSE r
      BY DEF Unless, v
    <2> QED BY <1>3, <2>2, <2>3
  <1>5. CASE ~t.open
    <2>1. ~(s.open /\ s.ec = "success")
      <3>1. s.open /\ s.ec = "success" => t = r
        BY DEF Unless
      <3> HIDE DEF t
      <3> QED BY <1>3, <1>5, <3>1
    <2>2. UNCHANGED mPrognosisPerZodiac
      BY <1>1, <2>1
    <2> HIDE DEF t
    <2> QED BY <1>1, <1>4, <1>5, <2>2, ClosedSeen
  <1>6. CASE t.open
    <2>1. s.open /\ s.ec = "success" /\ t = r
      BY <1>2, <1>6, UnlessOpen
    <2>2. Moves(c, t, net[c])
      <3> HIDE DEF t
      <3> QED BY <1>1, <1>4, <1>6, HandledFacts
    <2>3. mPrognosisPerZodiac' = [mPrognosisPerZodiac EXCEPT ![s.zodiac] = q]
      BY <1>1, <2>1
    <2> HIDE DEF t
    <2> QED BY <1>1, <1>3, <1>4, <2>1, <2>2, <2>3, PredictSeen DEF q, a
  <1> QED BY <1>5, <1>6

-----------------------------------------------------------------------------
\* What a conversation depends on.
LEMMA ObjectSame ==
    ASSUME NEW s, NEW t, NEW k, Conversation(s, k), t.open = s.open, t.op = s.op, t.buf = s.buf,
           t.zodiac = s.zodiac, t.ec = "success" => s.ec = "success"
    PROVE  Conversation(t, k) /\ SameView(t, k, s, k)
  <1>1. Heard(t, k) = Heard(s, k)
    BY Zenon DEF Heard
  <1>2. (Replies(t) <=> Replies(s)) /\ SignOf(t) = SignOf(s)
    BY Zenon DEF Replies, SignOf
  <1>3. OwedOf(t, k) = OwedOf(s, k)
    BY <1>2, Zenon DEF OwedOf
  <1>4. UnservedOf(t, k) = UnservedOf(s, k)
    BY <1>1, Zenon DEF UnservedOf
  <1>5. Polite(t, k) /\ Answered(t, k) /\ Settled(t, k)
    BY <1>1, <1>2, <1>3, Zenon DEF Conversation, Polite, Answered, Settled
  <1> QED BY <1>2, <1>3, <1>4, <1>5 DEF Conversation, SameView

\* A connection begins to read with nothing in its buffer and nothing to write.
LEMMA ReadingBegins ==
    ASSUME NEW s, NEW t, NEW k, Conversation(s, k), k.peer # "none", SignOf(s) = NONE,
           ~s.open \/ (s.op = "handleWriteResponse" /\ s.buf = <<>>),
           t.open = TRUE, t.op = "handleReadRequest", t.buf = <<>>, t.zodiac = NONE
    PROVE  Conversation(t, k) /\ SameView(t, k, s, k)
  <1>1. Heard(t, k) = Heard(s, k)
    BY Zenon DEF Heard
  <1>2. ~Replies(t) /\ SignOf(t) = NONE
    BY DEF Replies, SignOf
  <1>3. OwedOf(t, k) = OwedOf(s, k)
    BY <1>2, Zenon DEF OwedOf, Replies
  <1>4. UnservedOf(t, k) = UnservedOf(s, k)
    BY <1>1, Zenon DEF UnservedOf
  <1>5. Polite(t, k)
    BY <1>1, <1>2 DEF Conversation, Polite
  <1>6. Answered(t, k) /\ Settled(t, k)
    BY <1>2 DEF Conversation, Answered, Settled
  <1> QED BY <1>2, <1>3, <1>4, <1>5, <1>6 DEF Conversation, SameView

\* A step that the service does not see.
LEMMA AllUnseen ==
    ASSUME ServiceInv, UNCHANGED mPrognosisPerZodiac,
           \A c \in Conn : /\ Conversation(conn'[c], net'[c])
                           /\ SameView(conn'[c], net'[c], conn[c], net[c])
    PROVE  ServiceInv' /\ ServiceStep
  <1>1. \A c \in Conn : Conversation(conn[c], net[c])'
    BY Zenon DEF Conversation, Polite, Answered, Settled
  <1>2. ServiceInv'
    BY <1>1, StoreKept DEF ServiceInv
  <1>3. \A c \in Conn : /\ Unserved(c)' = Unserved(c) /\ Owed(c)' = Owed(c)
                        /\ Announced(c)' = Announced(c)
    BY Views, Zenon DEF SameView
  <1>4. \A z \in Zodiac : Prognosis(z)' = Prognosis(z)
    BY StoreKept
  <1>5. UNCHANGED Service!serviceVars
    BY <1>3, <1>4, Zenon DEF Service!serviceVars
  <1> QED BY <1>2, <1>5 DEF ServiceStep

LEMMA NothingSeen ==
    ASSUME ServiceInv, UNCHANGED <<conn, net, mPrognosisPerZodiac>>
    PROVE  ServiceInv' /\ ServiceStep
  <1>1. \A c \in Conn : /\ Conversation(conn'[c], net'[c])
                        /\ SameView(conn'[c], net'[c], conn[c], net[c])
    BY DEF ServiceInv, SameView
  <1> QED BY <1>1, AllUnseen

\* A reply that was written as a whole is followed by another request.
LEMMA HandleWriteResponseSeen ==
    ASSUME ServerInv, ServiceInv, NEW c \in Conn, handleWriteResponse(c)
    PROVE  ServiceInv' /\ ServiceStep
  <1> DEFINE s == conn[c]
             k == net[c]
             v == IoCalled(s)
             r == startReadRequest(v)
             t == Unless(s, r)
  <1>1. /\ s.op = "handleWriteResponse" /\ Handled(c, t) /\ UNCHANGED mPrognosisPerZodiac
    BY DEF handleWriteResponse, Handling
  <1>2. s \in Connection /\ Conversation(s, k)
    BY TypeFacts DEF ServiceInv
  <1>3. LooksLike(v, s.open, "none", "none", s.wait, s.buf, s.zodiac)
    BY <1>2, CalledFacts
  <1>4. LooksLike(r, s.open, "handleReadRequest", "pending", Cancelled(s.wait), s.buf, s.zodiac)
    <2>1. r = async(expires_after(v, ReadRequestTimeout), "handleReadRequest")
      BY DEF startReadRequest
    <2> HIDE DEF v, r
    <2>2. v \in Connection
      BY <1>3 DEF LooksLike
    <2>3. LooksLike(r, v.open, "handleReadRequest", "pending", Cancelled(v.wait), v.buf, v.zodiac)
      BY <2>1, <2>2, AsyncFacts, NumberFacts, HandlerFacts
    <2> QED BY <1>3, <2>3 DEF LooksLike
  <1>5. t \in Connection
    <2>1. t = IF ~s.open THEN v ELSE IF s.ec # "success" THEN stop(v) ELSE r
      BY DEF Unless
    <2> HIDE DEF t, v, r
    <2>2. v \in Connection /\ stop(v) \in Connection /\ r \in Connection
      BY <1>3, <1>4, StopFacts DEF LooksLike
    <2> QED BY <2>1, <2>2
  <1> HIDE DEF v, r
  <1>6. CASE ~t.open
    <2> HIDE DEF t
    <2> QED BY <1>1, <1>5, <1>6, ClosedSeen
  <1>7. CASE t.open
    <2>1. s.open /\ s.ec = "success" /\ t = r
      BY <1>2, <1>7, UnlessOpen
    <2> HIDE DEF t
    <2>2. Moves(c, t, k)
      BY <1>1, <1>5, <1>7, HandledFacts
    <2>3. s.buf = <<>> /\ s.zodiac = NONE /\ k.peer # "none" /\ SignOf(s) = NONE
      BY <1>1, <1>2, <2>1 DEF Conversation, Answered, Replies, Settled, SignOf
    <2>4. t.open = TRUE /\ t.op = "handleReadRequest" /\ t.buf = <<>> /\ t.zodiac = NONE
      BY <1>2, <1>4, <2>1, <2>3, Fields DEF LooksLike
    <2>5. Conversation(t, k) /\ SameView(t, k, s, k)
      BY <1>1, <1>2, <2>3, <2>4, ReadingBegins
    <2> QED BY <1>1, <2>2, <2>5, OneUnseen
  <1> QED BY <1>6, <1>7

\* The timer's handler closes a connection, or waits again.
LEMMA HandleDeadlineSeen ==
    ASSUME ServerInv, ServiceInv, NEW c \in Conn, handleDeadline(c)
    PROVE  ServiceInv' /\ ServiceStep
  <1> DEFINE s == conn[c]
             k == net[c]
             v == WaitCalled(s)
             t == DeadlineCalled(s)
  <1>1. /\ Ready(<<"deadline", c>>) /\ Handled(c, t) /\ UNCHANGED mPrognosisPerZodiac
    BY DEF handleDeadline, DeadlineCalled
  <1>2. s \in Connection /\ Conversation(s, k) /\ Sound(s, k.peer) /\ Over(s.wait)
    BY <1>1, TypeFacts, ReadyFacts DEF ServiceInv, ServerInv
  <1>3. t \in Connection
    BY <1>2, DeadlineFacts DEF WaitOutcome
  <1>4. LooksLike(v, s.open, s.op, s.ec, "none", s.buf, s.zodiac)
    BY <1>2, CalledFacts
  <1>5. CASE ~t.open
    <2> HIDE DEF t
    <2> QED BY <1>1, <1>3, <1>5, ClosedSeen
  <1>6. CASE t.open
    <2> HIDE DEF v
    <2>1. LooksLike(stop(v), FALSE, v.op, Cancelled(v.ec), Cancelled(v.wait), v.buf, v.zodiac)
      BY <1>4, StopFacts DEF LooksLike
    <2>2. t = IF ~s.open THEN v ELSE IF s.wait = "aborted" THEN async_wait(v) ELSE stop(v)
      BY DEF DeadlineCalled, startWaitDeadline, v
    <2> HIDE DEF t
    <2>3. t = async_wait(v) /\ v \in Connection
      BY <1>4, <1>6, <2>1, <2>2 DEF LooksLike
    <2>4. LooksLike(t, v.open, v.op, v.ec, "pending", v.buf, v.zodiac)
      BY <2>3, WaitFacts
    <2>5. t.open = s.open /\ t.op = s.op /\ t.ec = s.ec /\ t.buf = s.buf /\ t.zodiac = s.zodiac
      BY <1>4, <2>4 DEF LooksLike
    <2>6. Conversation(t, k) /\ SameView(t, k, s, k)
      BY <1>2, <2>5, ObjectSame
    <2>7. Moves(c, t, k)
      BY <1>1, <1>3, <1>6, HandledFacts
    <2> QED BY <1>1, <2>6, <2>7, OneUnseen
  <1> QED BY <1>5, <1>6

\* A connection that is accepted is as empty as it was.
LEMMA HandleAcceptSeen ==
    ASSUME ServerInv, ServiceInv, handleAccept
    PROVE  ServiceInv' /\ ServiceStep
  <1>1. UNCHANGED <<mPrognosisPerZodiac, net>>
    BY DEF handleAccept
  <1>2. CASE accepting # "success"
    <2>1. conn' = conn
      BY <1>2 DEF handleAccept
    <2> QED BY <1>1, <2>1, NothingSeen
  <1>3. CASE accepting = "success"
    <2> DEFINE c == Head(backlog)
               t == start(NoConnection)
               k == net[c]
    <2>1. backlog # <<>> /\ Distinct(backlog)
      BY <1>3 DEF ServerInv, AcceptInv, BacklogInv
    <2>2. c \in Conn /\ Holds(backlog, c)
      BY <2>1, TypeFacts, Popped
    <2>3. conn[c] = NoConnection /\ k.peer # "none"
      BY <2>2 DEF ServerInv, BacklogInv
    <2>4. Becomes(c, t, Tail(queue), NoConnection)
      BY <1>3, <2>3 DEF handleAccept
    <2> HIDE DEF c, t
    <2>5. /\ LooksLike(t, TRUE, "handleReadRequest", "pending", "pending", <<>>, NONE)
          /\ ~Released(t)
      BY StartFacts DEF t
    <2>6. conn' = [conn EXCEPT ![c] = t]
      BY <2>4, <2>5 DEF Becomes
    <2>7. Moves(c, t, k)
      BY <1>1, <2>2, <2>6, TypeFacts DEF Moves
    <2>8. Conversation(NoConnection, k) /\ NoConnection.open = FALSE
      BY <2>2, <2>3, NothingFacts DEF ServiceInv
    <2>9. SignOf(NoConnection) = NONE
      BY <2>8 DEF SignOf
    <2>10. Conversation(t, k) /\ SameView(t, k, NoConnection, k)
      BY <2>3, <2>5, <2>8, <2>9, ReadingBegins DEF LooksLike
    <2> QED BY <1>1, <2>2, <2>3, <2>7, <2>10, OneUnseen
  <1> QED BY <1>2, <1>3

LEMMA TickSeen ==
    ASSUME ServerInv, ServiceInv, Tick
    PROVE  ServiceInv' /\ ServiceStep
  <1>1. /\ conn' = [c \in Conn |-> Sooner(conn[c])]
        /\ UNCHANGED <<mPrognosisPerZodiac, net>>
    BY DEF Tick
  <1>2. ASSUME NEW s \in Connection
        PROVE  LooksLike(Sooner(s), s.open, s.op, s.ec, s.wait, s.buf, s.zodiac)
    BY DEF LooksLike, Sooner, Connection
  <1>3. ASSUME NEW c \in Conn
        PROVE  /\ Conversation(conn'[c], net'[c])
               /\ SameView(conn'[c], net'[c], conn[c], net[c])
    <2> DEFINE s == conn[c]
               t == Sooner(s)
    <2>1. s \in Connection /\ Conversation(s, net[c])
      BY TypeFacts DEF ServiceInv
    <2>2. conn'[c] = t /\ net'[c] = net[c]
      BY <1>1
    <2>3. LooksLike(t, s.open, s.op, s.ec, s.wait, s.buf, s.zodiac)
      BY <1>2, <2>1
    <2> HIDE DEF t
    <2>4. Conversation(t, net[c]) /\ SameView(t, net[c], s, net[c])
      BY <2>1, <2>3, ObjectSame DEF LooksLike
    <2> QED BY <2>2, <2>4
  <1> QED BY <1>1, <1>3, AllUnseen

-----------------------------------------------------------------------------
\* A step of the operation or of the timer of an open connection.
LEMMA OpenMoves ==
    ASSUME ServerInv, NEW c \in Conn, NEW t, NEW l, t.open = TRUE,
           Becomes(c, t, queue, NoConnection), net' = [net EXCEPT ![c] = l]
    PROVE  Moves(c, t, l)
  <1>1. conn' = [conn EXCEPT ![c] = t]
    BY DEF Becomes, Released
  <1> QED BY <1>1, TypeFacts DEF Moves

LEMMA TimerExpiresSeen ==
    ASSUME ServerInv, ServiceInv, NEW c \in Conn, TimerExpires(c)
    PROVE  ServiceInv' /\ ServiceStep
  <1> DEFINE s == conn[c]
             t == [s EXCEPT !.wait = "success"]
             k == net[c]
  <1>1. s \in Connection /\ Sound(s, k.peer) /\ Conversation(s, k)
    BY TypeFacts DEF ServerInv, ServiceInv
  <1>2. /\ s.wait = "pending" /\ Becomes(c, t, queue, NoConnection)
        /\ net' = [net EXCEPT ![c] = k] /\ UNCHANGED mPrognosisPerZodiac
    BY TypeFacts DEF TimerExpires
  <1>3. s.open = TRUE
    BY <1>1, <1>2, Fields DEF Sound, Kept
  <1>4. LooksLike(t, s.open, s.op, s.ec, "success", s.buf, s.zodiac)
    BY <1>1 DEF LooksLike, Connection, ErrorCode
  <1> HIDE DEF t, k
  <1>5. Moves(c, t, k)
    BY <1>2, <1>3, <1>4, OpenMoves DEF LooksLike
  <1>6. Conversation(t, k) /\ SameView(t, k, s, k)
    BY <1>1, <1>4, ObjectSame DEF LooksLike
  <1> QED BY <1>2, <1>5, <1>6, OneUnseen DEF k

\* An operation fails because the client has left.
LEMMA EndedSeen ==
    ASSUME ServerInv, ServiceInv, NEW c \in Conn, conn[c].ec = "pending",
           NEW ec \in {"eof", "failed"}, Completes(c, ec), UNCHANGED mPrognosisPerZodiac
    PROVE  ServiceInv' /\ ServiceStep
  <1> DEFINE s == conn[c]
             t == [s EXCEPT !.ec = ec]
             k == net[c]
  <1>1. s \in Connection /\ Sound(s, k.peer) /\ Conversation(s, k)
    BY TypeFacts DEF ServerInv, ServiceInv
  <1>2. Becomes(c, t, queue, NoConnection) /\ net' = [net EXCEPT ![c] = k]
    BY TypeFacts DEF Completes
  <1>3. s.open = TRUE
    BY <1>1, Fields DEF Sound, Kept
  <1>4. LooksLike(t, s.open, s.op, ec, s.wait, s.buf, s.zodiac)
    BY <1>1 DEF LooksLike, Connection, ErrorCode
  <1> HIDE DEF t, k
  <1>5. Moves(c, t, k)
    BY <1>2, <1>3, <1>4, OpenMoves DEF LooksLike
  <1>6. Conversation(t, k) /\ SameView(t, k, s, k)
    BY <1>1, <1>4, ObjectSame DEF LooksLike
  <1> QED BY <1>2, <1>5, <1>6, OneUnseen DEF k

\* What is read into the buffer was heard before.
LEMMA ReadSame ==
    ASSUME NEW s, NEW k, NEW t, NEW l, Conversation(s, k), s.open, s.op \in Reads,
           s.buf \in Seq(Word), k.inq \in Seq(Word), NEW n \in 0 .. Len(k.inq),
           t.open = s.open, t.op = s.op, t.zodiac = s.zodiac,
           t.buf = Join(s.buf, First(k.inq, n)), l.inq = After(k.inq, n),
           l.sent = k.sent, l.peer = k.peer, l.todo = k.todo, l.asked = k.asked
    PROVE  Conversation(t, l) /\ SameView(t, l, s, k)
  <1>1. Heard(t, l) = Heard(s, k)
    <2> DEFINE f == First(k.inq, n)
               e == After(k.inq, n)
    <2>1. f \in Seq(Word) /\ e \in Seq(Word)
      BY CutFacts
    <2>2. Join(f, e) = k.inq
      BY CutAndJoin DEF Join
    <2>3. Join(t.buf, l.inq) = Join(Join(s.buf, f), e)
      OBVIOUS
    <2> HIDE DEF f, e
    <2>4. Join(Join(s.buf, f), e) = Join(s.buf, Join(f, e))
      BY <2>1, JoinAssociative
    <2> QED BY <2>2, <2>3, <2>4 DEF Heard, Reads
  <1>2. ~Replies(t) /\ ~Replies(s) /\ SignOf(t) = SignOf(s)
    BY DEF Replies, SignOf, Reads
  <1>3. OwedOf(t, l) = OwedOf(s, k) /\ UnservedOf(t, l) = UnservedOf(s, k)
    BY <1>1, <1>2, Zenon DEF OwedOf, UnservedOf
  <1>4. Waits(l) <=> Waits(k)
    BY DEF Waits
  <1>5. Polite(t, l)
    BY <1>1, <1>2, <1>4 DEF Conversation, Polite
  <1>6. Answered(t, l)
    BY <1>2 DEF Answered
  <1>7. Settled(t, l)
    BY DEF Conversation, Settled
  <1> QED BY <1>2, <1>3, <1>5, <1>6, <1>7 DEF Conversation, SameView

LEMMA AsyncReadSeen ==
    ASSUME ServerInv, ServiceInv, NEW c \in Conn, async_read_until(c)
    PROVE  ServiceInv' /\ ServiceStep
  <1> DEFINE s == conn[c]
             k == net[c]
  <1>1. s.op \in Reads /\ s.ec = "pending" /\ UNCHANGED mPrognosisPerZodiac
    BY DEF async_read_until, Pending, Reads
  <1>2. s \in Connection /\ k \in Socket /\ Sound(s, k.peer) /\ Conversation(s, k)
    BY TypeFacts DEF ServerInv, ServiceInv
  <1>3. s.buf \in Seq(Word) /\ k.inq \in Seq(Word) /\ s.open = TRUE
    BY <1>1, <1>2, Fields, SocketFields DEF Sound, Kept
  <1>4. ASSUME NEW n \in ReadSize(s.buf, k.inq),
               net' = [net EXCEPT ![c].inq = After(@, n)],
               Becomes(c, [s EXCEPT !.buf = s.buf \o First(k.inq, n),
                                    !.ec = IF HasLine(s.buf \o First(k.inq, n)) THEN "success" ELSE @],
                       queue, NoConnection)
        PROVE  ServiceInv' /\ ServiceStep
    <2> DEFINE b == Join(s.buf, First(k.inq, n))
               ec == IF HasLine(b) THEN "success" ELSE s.ec
               e == After(k.inq, n)
               t == [s EXCEPT !.buf = b, !.ec = ec]
               l == [k EXCEPT !.inq = e]
    <2>1. n \in 0 .. Len(k.inq)
      BY <1>3, LenProperties DEF ReadSize
    <2>2. First(k.inq, n) \in Seq(Word) /\ e \in Seq(Word)
      BY <1>3, <2>1, CutFacts
    <2>3. b \in Seq(Word) /\ ec \in {"success", "pending"}
      BY <1>1, <1>3, <2>2, JoinType
    <2>4. net' = [net EXCEPT ![c] = l] /\ Becomes(c, t, queue, NoConnection)
      BY <1>4, TypeFacts DEF Join
    <2> HIDE DEF b, ec, e
    <2>5. LooksLike(t, s.open, s.op, ec, s.wait, b, s.zodiac)
      BY <1>2, <2>3 DEF LooksLike, Connection, ErrorCode
    <2>6. /\ l.inq = e /\ l.sent = k.sent /\ l.peer = k.peer /\ l.todo = k.todo
          /\ l.asked = k.asked
      BY <1>2, <2>2 DEF Socket
    <2> HIDE DEF t, l
    <2>7. Moves(c, t, l)
      BY <1>3, <2>4, <2>5, OpenMoves DEF LooksLike
    <2>8. Conversation(t, l) /\ SameView(t, l, s, k)
      BY <1>1, <1>2, <1>3, <2>1, <2>5, <2>6, ReadSame DEF LooksLike, b, e
    <2> QED BY <1>1, <2>7, <2>8, OneUnseen
  <1>5. ASSUME NEW ec \in {"eof", "failed"}, Completes(c, ec)
        PROVE  ServiceInv' /\ ServiceStep
    BY <1>1, <1>5, EndedSeen
  <1> QED BY <1>4, <1>5 DEF async_read_until

\* What is written of a reply was owed to the client, and is still.
LEMMA WriteSame ==
    ASSUME NEW s, NEW k, NEW t, NEW l, Conversation(s, k), s.open, s.op = "handleWriteResponse",
           s.buf \in Seq(Word), k.sent \in Seq(Word), NEW n \in 1 .. Len(s.buf),
           t.open = s.open, t.op = s.op, t.zodiac = s.zodiac, t.buf = After(s.buf, n),
           t.ec = "success" => n = Len(s.buf), l.sent = Join(k.sent, First(s.buf, n)),
           l.inq = k.inq, l.todo = k.todo, l.asked = k.asked,
           l.peer = k.peer \/ l.peer \in {"fin", "rst"}
    PROVE  Conversation(t, l) /\ SameView(t, l, s, k)
  <1> DEFINE f == First(s.buf, n)
             e == After(s.buf, n)
  <1>1. Len(s.buf) \in Nat /\ n \in 0 .. Len(s.buf) /\ s.buf # <<>>
    <2>1. Len(s.buf) \in Nat
      BY LenProperties
    <2>2. s.buf # <<>>
      OBVIOUS
    <2> QED BY <2>1, <2>2
  <1>2. /\ f \in Seq(Word) /\ e \in Seq(Word) /\ Len(e) = Len(s.buf) - n
        /\ \A j \in 1 .. Len(s.buf) - n : e[j] = s.buf[n + j]
    BY <1>1, CutFacts
  <1>3. Join(f, e) = s.buf
    BY <1>1, CutAndJoin DEF Join
  <1>4. Replies(s) /\ Replies(t) /\ SignOf(t) = SignOf(s)
    BY DEF Replies, SignOf
  <1>5. Heard(s, k) = <<>> /\ s.buf[Len(s.buf)] = DELIMITER
        /\ (k.peer = "open" => Delimiters(OwedOf(s, k)) <= k.asked)
    BY <1>1, <1>4 DEF Conversation, Answered
  <1>6. Heard(t, l) = Heard(s, k)
    BY DEF Heard
  <1>7. UnservedOf(t, l) = UnservedOf(s, k)
    BY <1>6, Zenon DEF UnservedOf
  <1> HIDE DEF f, e
  <1>8. OwedOf(t, l) = OwedOf(s, k)
    <2>1. OwedOf(t, l) = Join(Join(k.sent, f), e) /\ OwedOf(s, k) = Join(k.sent, s.buf)
      BY <1>4 DEF OwedOf, f, e
    <2>2. Join(Join(k.sent, f), e) = Join(k.sent, Join(f, e))
      BY <1>2, JoinAssociative
    <2> QED BY <1>3, <2>1, <2>2, Zenon
  <1>9. s.zodiac = NONE /\ SignOf(t) = NONE
    BY <1>4 DEF Conversation, Settled, SignOf
  <1>10. Polite(t, l)
    <2>1. OneRequest(<<>>)
      BY DEF OneRequest
    <2> QED BY <1>5, <1>6, <1>9, <2>1 DEF Polite
  <1>11. Answered(t, l)
    <2> SUFFICES ASSUME t.buf # <<>> PROVE t.buf[Len(t.buf)] = DELIMITER /\ t.ec # "success"
      BY <1>5, <1>6, <1>8 DEF Answered
    <2>1. t.buf = e /\ Len(e) # 0
      BY <1>2, EmptySeq DEF e
    <2>2. n # Len(s.buf) /\ Len(e) \in 1 .. Len(s.buf) - n /\ n + Len(e) = Len(s.buf)
      BY <1>1, <1>2, <2>1
    <2>3. e[Len(e)] = s.buf[n + Len(e)]
      BY <1>2, <2>2
    <2> QED BY <1>5, <2>1, <2>2, <2>3
  <1>12. Settled(t, l)
    BY <1>9, SMTT(30) DEF Conversation, Settled
  <1> QED BY <1>4, <1>7, <1>8, <1>10, <1>11, <1>12 DEF Conversation, SameView

LEMMA AsyncWriteSeen ==
    ASSUME ServerInv, ServiceInv, NEW c \in Conn, async_write(c)
    PROVE  ServiceInv' /\ ServiceStep
  <1> DEFINE s == conn[c]
             k == net[c]
             b == s.buf
             n == IF k.peer = "fin" THEN Len(b) ELSE MIN(Len(b), SNDBUF - k.unread)
             e == After(b, n)
             f == First(b, n)
             ec == IF n = Len(b) THEN "success" ELSE s.ec
             t == [s EXCEPT !.buf = e, !.ec = ec]
  <1>1. s.op = "handleWriteResponse" /\ s.ec = "pending" /\ UNCHANGED mPrognosisPerZodiac
    BY DEF async_write, Pending
  <1>2. s \in Connection /\ k \in Socket /\ Sound(s, k.peer) /\ Conversation(s, k)
    BY TypeFacts DEF ServerInv, ServiceInv
  <1>3. /\ b \in Seq(Word) /\ k.sent \in Seq(Word) /\ k.unread \in 0 .. SNDBUF /\ SNDBUF \in Nat
        /\ s.open = TRUE
    BY <1>1, <1>2, Fields, SocketFields, NumberFacts DEF Sound, Kept
  <1>4. Len(b) \in Nat
    BY <1>3, LenProperties
  <1>5. n \in 0 .. Len(b)
    <2>1. MIN(Len(b), SNDBUF - k.unread) \in 0 .. Len(b)
      BY <1>3, <1>4, SMTT(30) DEF MIN
    <2> QED BY <1>4, <2>1
  <1>6. \/ k.peer = "rst" /\ Completes(c, "failed")
        \/ /\ n > 0 /\ Becomes(c, t, queue, NoConnection)
           /\ \/ /\ k.peer = "open"
                 /\ net' = [net EXCEPT ![c].sent = @ \o f, ![c].unread = @ + n]
              \/ /\ k.peer = "fin"
                 /\ \E p \in {"fin", "rst"} : net' = [net EXCEPT ![c].sent = @ \o b, ![c].peer = p]
    BY DEF async_write
  <1>7. k.peer = "fin" => f = b
    BY <1>3, SubSeqFull DEF First
  <1> HIDE DEF n
  <1>8. e \in Seq(Word)
    BY <1>3, <1>5, CutFacts
  <1>9. ec \in {"success", "pending"} /\ (ec = "success" => n = Len(b))
    BY <1>1
  <1> HIDE DEF e, f, ec
  <1>10. LooksLike(t, s.open, s.op, ec, s.wait, e, s.zodiac)
    BY <1>2, <1>8, <1>9 DEF LooksLike, Connection, ErrorCode
  <1> HIDE DEF t
  <1>11. ASSUME n > 0, Becomes(c, t, queue, NoConnection), NEW l, net' = [net EXCEPT ![c] = l],
                l.sent = Join(k.sent, f), l.inq = k.inq, l.todo = k.todo, l.asked = k.asked,
                l.peer = k.peer \/ l.peer \in {"fin", "rst"}
         PROVE  ServiceInv' /\ ServiceStep
    <2>1. n \in 1 .. Len(b)
      BY <1>4, <1>5, <1>11
    <2>2. Moves(c, t, l)
      BY <1>3, <1>10, <1>11, OpenMoves DEF LooksLike
    <2>3. Conversation(t, l) /\ SameView(t, l, s, k)
      BY <1>1, <1>2, <1>3, <1>9, <1>10, <1>11, <2>1, WriteSame DEF LooksLike, e, f
    <2> QED BY <1>1, <2>2, <2>3, OneUnseen
  <1>12. CASE /\ n > 0 /\ Becomes(c, t, queue, NoConnection) /\ k.peer = "open"
              /\ net' = [net EXCEPT ![c].sent = @ \o f, ![c].unread = @ + n]
    <2> DEFINE g == k.sent \o f
               m == k.unread + n
               l == [k EXCEPT !.sent = g, !.unread = m]
    <2>1. net' = [net EXCEPT ![c] = l]
      BY <1>12, TypeFacts
    <2> HIDE DEF g, m
    <2>2. /\ l.sent = g /\ l.inq = k.inq /\ l.todo = k.todo /\ l.asked = k.asked
          /\ l.peer = k.peer
      BY <1>2 DEF Socket
    <2> HIDE DEF l
    <2> QED BY <1>11, <1>12, <2>1, <2>2 DEF g, Join
  <1>13. ASSUME n > 0, Becomes(c, t, queue, NoConnection), k.peer = "fin", NEW p \in {"fin", "rst"},
                net' = [net EXCEPT ![c].sent = @ \o b, ![c].peer = p]
         PROVE  ServiceInv' /\ ServiceStep
    <2> DEFINE g == k.sent \o b
               l == [k EXCEPT !.sent = g, !.peer = p]
    <2>1. net' = [net EXCEPT ![c] = l]
      BY <1>13, TypeFacts
    <2> HIDE DEF g
    <2>2. /\ l.sent = g /\ l.inq = k.inq /\ l.todo = k.todo /\ l.asked = k.asked
          /\ l.peer = p
      BY <1>2 DEF Socket
    <2> HIDE DEF l
    <2>3. l.sent = Join(k.sent, f)
      BY <1>7, <1>13, <2>2 DEF g, Join
    <2> QED BY <1>11, <1>13, <2>1, <2>2, <2>3
  <1>14. CASE Completes(c, "failed")
    BY <1>1, <1>14, EndedSeen
  <1> QED BY <1>6, <1>12, <1>13, <1>14

LEMMA AsyncAcceptSeen ==
    ASSUME ServiceInv, async_accept
    PROVE  ServiceInv' /\ ServiceStep
  BY NothingSeen DEF async_accept

-----------------------------------------------------------------------------
\* A step of a client, which changes its socket.
LEMMA ClientMoves ==
    ASSUME ServerInv, NEW c \in Conn, NEW l, net' = [net EXCEPT ![c] = l], UNCHANGED conn
    PROVE  Moves(c, conn[c], l)
  BY TypeFacts DEF Moves

\* The pieces of a stream by the first one.
LEMMA TogetherHead ==
    ASSUME NEW s \in Seq(Seq(Word)), s # <<>>
    PROVE  /\ Head(s) \in Seq(Word) /\ Tail(s) \in Seq(Seq(Word)) /\ 1 \in 1 .. Len(s)
           /\ Head(s) = s[1]
           /\ \A i \in 1 .. Len(Tail(s)) : i + 1 \in 1 .. Len(s) /\ Tail(s)[i] = s[i + 1]
           /\ Together(s) = Join(Head(s), Together(Tail(s)))
  <1> DEFINE t == Tail(s)
             h == Head(s)
  <1>1. /\ t \in Seq(Seq(Word)) /\ Len(t) = Len(s) - 1 /\ h \in Seq(Word)
        /\ Len(s) \in Nat \ {0}
        /\ \A i \in 1 .. Len(t) : t[i] = s[i + 1]
    BY HeadTailProperties, EmptySeq
  <1>2. h = s[1]
    OBVIOUS
  <1> HIDE DEF t, h
  <1>3. Len(s) = Len(t) + 1 /\ 1 \in 1 .. Len(s)
    BY <1>1
  <1>4. \A i \in 1 .. Len(t) : i + 1 \in 1 .. Len(s)
    BY <1>1
  <1>5. s[1] = h /\ \A i \in 1 .. Len(t) : s[i + 1] = t[i]
    BY <1>1, <1>2
  <1>6. Together(s) = h \o Together(t)
    BY <1>1, <1>3, <1>5, TogetherFirst, Zenon
  <1> QED BY <1>1, <1>2, <1>3, <1>4, <1>6 DEF t, h, Join

\* A client connects and says the first piece of what it has to say.
LEMMA ConnectSeen ==
    ASSUME ClientsWait, ServerInv, ServiceInv, NEW c \in Conn, NEW s \in Streams, Connect(c, s)
    PROVE  ServiceInv' /\ ServiceStep
  <1> DEFINE h == Head(s)
             r == Tail(s)
             l == [NoSocket EXCEPT !.peer = "open", !.inq = h, !.todo = r, !.asked = 1]
             o == NoConnection
  <1>1. /\ net[c].peer = "none" /\ conn[c] = o /\ net' = [net EXCEPT ![c] = l]
        /\ UNCHANGED <<conn, mPrognosisPerZodiac>>
    BY DEF Connect
  <1>2. s \in Seq(Seq(Word)) /\ s # <<>>
    BY BoostServerAssumption
  <1>3. /\ h \in Seq(Word) /\ r \in Seq(Seq(Word)) /\ 1 \in 1 .. Len(s) /\ h = s[1]
        /\ \A i \in 1 .. Len(r) : i + 1 \in 1 .. Len(s) /\ r[i] = s[i + 1]
        /\ Together(s) = Join(h, Together(r))
    BY <1>2, TogetherHead
  <1>4. OneRequest(h) /\ \A i \in 1 .. Len(r) : OneRequest(r[i])
    BY <1>3 DEF ClientsWait
  <1> HIDE DEF h, r
  <1>5. /\ l.peer = "open" /\ l.inq = h /\ l.todo = r /\ l.asked = 1 /\ l.sent = <<>>
    BY DEF NoSocket
  <1>6. net[c] = NoSocket
    BY <1>1 DEF ServiceInv, Conversation, Settled
  <1>7. o.open = FALSE
    BY NothingFacts
  <1> HIDE DEF l, o
  <1>8. Join(<<>>, <<>>) = <<>> /\ Join(<<>>, h) = h
    BY <1>3, JoinEmpty DEF Join
  <1>9. Heard(o, l) = h /\ OwedOf(o, l) = <<>> /\ SignOf(o) = NONE /\ ~Replies(o)
    BY <1>5, <1>7, <1>8 DEF Heard, OwedOf, SignOf, Replies
  <1>10. UnservedOf(o, l) = Together(s)
    BY <1>3, <1>5, <1>9 DEF UnservedOf
  <1>11. Conversation(o, l)
    <2>1. Waits(l)
      BY <1>5, DelimitersEmpty DEF Waits
    <2>2. Polite(o, l)
      BY <1>4, <1>9, <2>1 DEF Polite
    <2>3. Answered(o, l)
      BY <1>9 DEF Answered
    <2>4. Settled(o, l)
      BY <1>4, <1>5, <1>7 DEF Settled
    <2> QED BY <2>2, <2>3, <2>4 DEF Conversation
  <1>12. Moves(c, o, l)
    BY <1>1, ClientMoves
  <1>13. ServiceInv'
    BY <1>1, <1>11, <1>12, StoreKept, OneKeeps
  <1>14. /\ Unserved(c) = <<>> /\ Owed(c) = <<>> /\ Announced(c) = NONE
         /\ Unserved(c)' = Together(s) /\ Owed(c)' = <<>> /\ Announced(c)' = NONE
         /\ \A d \in Conn : d # c => /\ Unserved(d)' = Unserved(d) /\ Owed(d)' = Owed(d)
                                     /\ Announced(d)' = Announced(d)
    <2>1. /\ UnservedOf(o, NoSocket) = <<>> /\ OwedOf(o, NoSocket) = <<>> /\ SignOf(o) = NONE
      BY <1>7, ClosedView
    <2>2. /\ Unserved(c) = UnservedOf(o, NoSocket) /\ Owed(c) = OwedOf(o, NoSocket)
          /\ Announced(c) = SignOf(o)
      BY <1>1, <1>6, Views, Zenon
    <2>3. /\ Unserved(c)' = UnservedOf(o, l) /\ Owed(c)' = OwedOf(o, l) /\ Announced(c)' = SignOf(o)
          /\ \A d \in Conn : d # c => /\ Unserved(d)' = Unserved(d) /\ Owed(d)' = Owed(d)
                                      /\ Announced(d)' = Announced(d)
      BY <1>12, OthersSeen
    <2> QED BY <1>9, <1>10, <2>1, <2>2, <2>3
  <1>15. \A z \in Zodiac : Prognosis(z)' = Prognosis(z)
    BY <1>1, StoreKept
  <1>16. Service!Open(c, Together(s))
    BY <1>14, <1>15 DEF Service!Open
  <1>17. Service!Next
    BY <1>16 DEF Service!Next
  <1> QED BY <1>13, <1>17 DEF ServiceStep

\* Only the client's own bookkeeping changes.
LEMMA SocketSame ==
    ASSUME NEW s, NEW k, NEW l, Conversation(s, k), l.inq = k.inq, l.sent = k.sent,
           l.peer = k.peer, l.todo = k.todo, l.asked = k.asked, k.peer # "none"
    PROVE  Conversation(s, l) /\ SameView(s, l, s, k)
  <1>1. Heard(s, l) = Heard(s, k)
    BY Zenon DEF Heard
  <1>2. OwedOf(s, l) = OwedOf(s, k) /\ UnservedOf(s, l) = UnservedOf(s, k)
    BY <1>1, Zenon DEF OwedOf, UnservedOf
  <1>3. Waits(l) <=> Waits(k)
    BY Zenon DEF Waits
  <1>4. Polite(s, l) /\ Answered(s, l) /\ Settled(s, l)
    BY <1>1, <1>2, <1>3, Zenon DEF Conversation, Polite, Answered, Settled
  <1> QED BY <1>2, <1>4 DEF Conversation, SameView

\* A client that sends the next piece has received all replies, and the server
\* has served all that it heard.
LEMMA NextPiece ==
    ASSUME NEW s \in Connection, NEW k \in Socket, Conversation(s, k), k.peer = "open",
           k.todo # <<>>, Delimiters(k.sent) = k.asked,
           NEW l, l.inq = Join(k.inq, Head(k.todo)), l.todo = Tail(k.todo), l.sent = k.sent,
           l.peer = k.peer, l.asked = k.asked + 1
    PROVE  Conversation(s, l) /\ SameView(s, l, s, k)
  <1> DEFINE x == IF s.open /\ s.op # "handleWriteResponse" THEN s.buf ELSE <<>>
             h == Head(k.todo)
             r == Tail(k.todo)
  <1>1. /\ s.buf \in Seq(Word) /\ k.inq \in Seq(Word) /\ k.sent \in Seq(Word)
        /\ k.todo \in Seq(Seq(Word)) /\ <<>> \in Seq(Word) /\ k.asked \in Nat
    BY HeardTypes
  <1>2. /\ h \in Seq(Word) /\ r \in Seq(Seq(Word)) /\ 1 \in 1 .. Len(k.todo) /\ h = k.todo[1]
        /\ \A i \in 1 .. Len(r) : i + 1 \in 1 .. Len(k.todo) /\ r[i] = k.todo[i + 1]
        /\ Together(k.todo) = Join(h, Together(r))
    BY <1>1, TogetherHead
  <1>3. x \in Seq(Word)
    BY <1>1
  <1>4. Heard(s, k) = Join(x, k.inq) /\ Heard(s, l) = Join(x, Join(k.inq, h)) /\ l.todo = r
    BY DEF Heard
  <1>5. OneRequest(h) /\ \A i \in 1 .. Len(r) : OneRequest(r[i])
    BY <1>2 DEF Conversation, Settled
  <1> HIDE DEF x, h, r
  <1>6. ~Waits(k)
    BY <1>1 DEF Waits
  <1>7. SignOf(s) = NONE /\ Heard(s, k) = <<>>
    BY <1>6 DEF Conversation, Polite
  <1>8. x = <<>> /\ k.inq = <<>>
    BY <1>1, <1>3, <1>4, <1>7, JoinNothing
  <1>9. Join(<<>>, h) = h
    BY <1>2, JoinEmpty
  <1>10. Heard(s, l) = h
    BY <1>4, <1>8, <1>9
  <1>11. UnservedOf(s, l) = UnservedOf(s, k)
    <2>1. Together(k.todo) \in Seq(Word)
      BY HeardTypes
    <2>2. Join(<<>>, Together(k.todo)) = Together(k.todo)
      BY <2>1, JoinEmpty
    <2> QED BY <1>2, <1>4, <1>7, <1>10, <2>2 DEF UnservedOf
  <1>12. OwedOf(s, l) = OwedOf(s, k)
    BY DEF OwedOf
  <1>13. ~(Replies(s) /\ s.buf # <<>>)
    <2> SUFFICES ASSUME Replies(s), s.buf # <<>> PROVE FALSE
      OBVIOUS
    <2>1. s.buf[Len(s.buf)] = DELIMITER /\ Delimiters(Join(k.sent, s.buf)) <= k.asked
      BY DEF Conversation, Answered, OwedOf
    <2>2. /\ Delimiters(Join(k.sent, s.buf)) \in Nat
          /\ Delimiters(Join(k.sent, s.buf)) >= Delimiters(k.sent) + 1
      BY <1>1, <2>1, DelimitersFacts DEF Join
    <2> QED BY <1>1, <2>1, <2>2
  <1>14. Waits(l)
    BY <1>1 DEF Waits
  <1>15. Polite(s, l)
    BY <1>5, <1>7, <1>10, <1>14 DEF Polite
  <1>16. Answered(s, l)
    BY <1>13 DEF Answered
  <1>17. Settled(s, l)
    BY <1>4, <1>5 DEF Conversation, Settled
  <1> QED BY <1>11, <1>12, <1>15, <1>16, <1>17 DEF Conversation, SameView

LEMMA SendNextSeen ==
    ASSUME ServerInv, ServiceInv, NEW c \in Conn, SendNext(c)
    PROVE  ServiceInv' /\ ServiceStep
  <1> DEFINE k == net[c]
             h == k.inq \o Head(k.todo)
             r == Tail(k.todo)
             m == k.asked + 1
             l == [k EXCEPT !.inq = h, !.todo = r, !.asked = m]
  <1>1. /\ k.peer = "open" /\ k.todo # <<>> /\ Delimiters(k.sent) = k.asked
        /\ UNCHANGED <<conn, mPrognosisPerZodiac>>
    BY DEF SendNext
  <1>2. k \in Socket /\ conn[c] \in Connection /\ Conversation(conn[c], k)
    BY TypeFacts DEF ServiceInv
  <1>3. net' = [net EXCEPT ![c] = l]
    BY TypeFacts DEF SendNext
  <1> HIDE DEF h, r, m
  <1>4. l.inq = h /\ l.todo = r /\ l.asked = m /\ l.sent = k.sent /\ l.peer = k.peer
    BY <1>2 DEF Socket
  <1> HIDE DEF l
  <1>5. Moves(c, conn[c], l)
    BY <1>1, <1>3, ClientMoves
  <1>6. Conversation(conn[c], l) /\ SameView(conn[c], l, conn[c], k)
    BY <1>1, <1>2, <1>4, NextPiece DEF h, r, m, Join
  <1> QED BY <1>1, <1>5, <1>6, OneUnseen

LEMMA ClientRecvSeen ==
    ASSUME ServerInv, ServiceInv, NEW c \in Conn, ClientRecv(c)
    PROVE  ServiceInv' /\ ServiceStep
  <1> DEFINE k == net[c]
             l == [k EXCEPT !.unread = 0]
  <1>1. k.peer = "open" /\ net' = [net EXCEPT ![c] = l] /\ UNCHANGED <<conn, mPrognosisPerZodiac>>
    BY TypeFacts DEF ClientRecv
  <1>2. k \in Socket /\ Conversation(conn[c], k)
    BY TypeFacts DEF ServiceInv
  <1>3. /\ l.inq = k.inq /\ l.todo = k.todo /\ l.asked = k.asked /\ l.sent = k.sent
        /\ l.peer = k.peer
    BY <1>2 DEF Socket
  <1> HIDE DEF l
  <1>4. Moves(c, conn[c], l)
    BY <1>1, ClientMoves
  <1>5. Conversation(conn[c], l) /\ SameView(conn[c], l, conn[c], k)
    BY <1>1, <1>2, <1>3, SocketSame
  <1> QED BY <1>1, <1>4, <1>5, OneUnseen

\* What a client did not get through before it left, it still had to say.
LEMMA LastPiece ==
    ASSUME NEW s \in Connection, NEW k \in Socket, Conversation(s, k), k.peer = "open",
           NEW n \in 0 .. Len(k.inq),
           NEW l, l.inq = First(k.inq, n), l.todo = <<After(k.inq, n)>> \o k.todo,
           l.sent = k.sent, l.peer \in {"fin", "rst"}
    PROVE  Conversation(s, l) /\ SameView(s, l, s, k)
  <1> DEFINE x == IF s.open /\ s.op # "handleWriteResponse" THEN s.buf ELSE <<>>
             f == First(k.inq, n)
             e == After(k.inq, n)
             o == Together(k.todo)
             p == Join(x, f)
  <1>1. /\ s.buf \in Seq(Word) /\ k.inq \in Seq(Word) /\ k.todo \in Seq(Seq(Word))
        /\ <<>> \in Seq(Word) /\ o \in Seq(Word)
    BY HeardTypes
  <1>2. f \in Seq(Word) /\ e \in Seq(Word)
    BY <1>1, CutFacts
  <1>3. x \in Seq(Word)
    BY <1>1
  <1>4. Heard(s, k) = Join(x, k.inq) /\ Heard(s, l) = p
    BY DEF Heard
  <1>5. Join(x, k.inq) = Join(p, e)
    BY <1>1, <1>3, Recut DEF Join
  <1>6. Together(l.todo) = Join(e, o) /\ l.todo = <<e>> \o k.todo
    <2> HIDE DEF e
    <2>1. /\ <<e>> \in Seq(Seq(Word)) /\ Len(<<e>>) = 1 /\ <<e>>[1] = e
      BY <1>2
    <2>2. l.todo = <<e>> \o k.todo
      BY DEF e
    <2>3. Len(k.todo) \in Nat
      BY <1>1, LenProperties
    <2>4. /\ l.todo \in Seq(Seq(Word)) /\ Len(l.todo) = Len(<<e>>) + Len(k.todo)
          /\ \A i \in 1 .. Len(<<e>>) + Len(k.todo) :
                l.todo[i] = IF i <= Len(<<e>>) THEN <<e>>[i] ELSE k.todo[i - Len(<<e>>)]
      BY <1>1, <2>1, <2>2, ConcatProperties
    <2>5. Len(l.todo) = Len(k.todo) + 1 /\ l.todo[1] = e
          /\ \A i \in 1 .. Len(k.todo) : l.todo[i + 1] = k.todo[i]
      BY <2>1, <2>3, <2>4, SMTT(30)
    <2>6. Together(l.todo) = e \o o
      BY <1>1, <1>2, <2>4, <2>5, TogetherFirst
    <2> QED BY <2>2, <2>6 DEF Join
  <1> HIDE DEF x, f, e, o
  <1>7. p \in Seq(Word)
    BY <1>2, <1>3, JoinType
  <1> HIDE DEF p
  <1>8. UnservedOf(s, l) = UnservedOf(s, k)
    <2>1. UnservedOf(s, l) = Join(p, Join(e, o)) /\ UnservedOf(s, k) = Join(Join(p, e), o)
      BY <1>4, <1>5, <1>6 DEF UnservedOf, o
    <2>2. Join(Join(p, e), o) = Join(p, Join(e, o))
      BY <1>1, <1>2, <1>7, JoinAssociative
    <2> QED BY <2>1, <2>2
  <1>9. OwedOf(s, l) = OwedOf(s, k)
    BY DEF OwedOf
  <1>10. Waits(l)
    BY DEF Waits
  <1>11. Polite(s, l)
    <2>1. CASE SignOf(s) # NONE
      <3>1. NoFurtherLine(Join(p, e))
        BY <1>4, <1>5, <2>1 DEF Conversation, Polite
      <3>2. NoFurtherLine(p)
        BY <1>2, <1>7, <3>1, NoFurtherBefore
      <3> QED BY <1>4, <1>10, <2>1, <3>2 DEF Polite
    <2>2. CASE SignOf(s) = NONE
      <3>1. OneRequest(Join(p, e))
        BY <1>4, <1>5, <2>2 DEF Conversation, Polite
      <3>2. OneRequest(p)
        BY <1>2, <1>7, <3>1, OneRequestBefore
      <3> QED BY <1>4, <1>10, <2>2, <3>2 DEF Polite
    <2> QED BY <2>1, <2>2
  <1>12. Answered(s, l)
    <2>1. Heard(s, k) = <<>> => Heard(s, l) = <<>>
      BY <1>2, <1>4, <1>5, <1>7, JoinNothing
    <2> QED BY <2>1 DEF Conversation, Answered
  <1>13. Settled(s, l)
    BY DEF Conversation, Settled
  <1> QED BY <1>8, <1>9, <1>11, <1>12, <1>13 DEF Conversation, SameView

LEMMA ClientCloseSeen ==
    ASSUME ServerInv, ServiceInv, NEW c \in Conn, NEW arrives \in BOOLEAN, ClientClose(c, arrives)
    PROVE  ServiceInv' /\ ServiceStep
  <1> DEFINE k == net[c]
             n == IF arrives /\ k.unread = 0 THEN Len(k.inq) ELSE 0
             h == First(k.inq, n)
             r == <<After(k.inq, n)>> \o k.todo
             p == IF k.unread = 0 THEN "fin" ELSE "rst"
             l == [k EXCEPT !.inq = h, !.todo = r, !.peer = p, !.unread = 0]
  <1>1. k.peer = "open" /\ UNCHANGED <<conn, mPrognosisPerZodiac>>
    BY DEF ClientClose
  <1>2. k \in Socket /\ conn[c] \in Connection /\ Conversation(conn[c], k)
    BY TypeFacts DEF ServiceInv
  <1>3. n \in 0 .. Len(k.inq)
    BY <1>2, SocketFields, LenProperties
  <1>4. net' = [net EXCEPT ![c] = l]
    BY TypeFacts DEF ClientClose
  <1>5. p \in {"fin", "rst"}
    OBVIOUS
  <1> HIDE DEF h, r, p
  <1>6. l.inq = h /\ l.todo = r /\ l.sent = k.sent /\ l.peer = p
    BY <1>2 DEF Socket
  <1> HIDE DEF l, n
  <1>7. Moves(c, conn[c], l)
    BY <1>1, <1>4, ClientMoves
  <1>8. Conversation(conn[c], l) /\ SameView(conn[c], l, conn[c], k)
    BY <1>1, <1>2, <1>3, <1>5, <1>6, LastPiece DEF h, r
  <1> QED BY <1>1, <1>7, <1>8, OneUnseen

\* Every step is a step of the service, or one that it does not see.
LEMMA StepSeen ==
    ASSUME ClientsWait, ServerInv, ServiceInv, Next
    PROVE  ServiceInv' /\ ServiceStep
  <1>1. CASE handleAccept
    BY <1>1, HandleAcceptSeen
  <1>2. ASSUME NEW c \in Conn, handleReadRequest(c)
        PROVE  ServiceInv' /\ ServiceStep
    BY <1>2, HandleReadRequestSeen
  <1>3. ASSUME NEW c \in Conn, handleReadPrognosis(c)
        PROVE  ServiceInv' /\ ServiceStep
    BY <1>3, HandleReadPrognosisSeen
  <1>4. ASSUME NEW c \in Conn, handleWriteResponse(c)
        PROVE  ServiceInv' /\ ServiceStep
    BY <1>4, HandleWriteResponseSeen
  <1>5. ASSUME NEW c \in Conn, handleDeadline(c)
        PROVE  ServiceInv' /\ ServiceStep
    BY <1>5, HandleDeadlineSeen
  <1>6. CASE async_accept
    BY <1>6, AsyncAcceptSeen
  <1>7. CASE Tick
    BY <1>7, TickSeen
  <1>8. ASSUME NEW c \in Conn, async_read_until(c)
        PROVE  ServiceInv' /\ ServiceStep
    BY <1>8, AsyncReadSeen
  <1>9. ASSUME NEW c \in Conn, async_write(c)
        PROVE  ServiceInv' /\ ServiceStep
    BY <1>9, AsyncWriteSeen
  <1>10. ASSUME NEW c \in Conn, TimerExpires(c)
         PROVE  ServiceInv' /\ ServiceStep
    BY <1>10, TimerExpiresSeen
  <1>11. ASSUME NEW c \in Conn, Client(c)
         PROVE  ServiceInv' /\ ServiceStep
    BY <1>11, ConnectSeen, SendNextSeen, ClientRecvSeen, ClientCloseSeen DEF Client
  <1> QED BY <1>1, <1>2, <1>3, <1>4, <1>5, <1>6, <1>7, <1>8, <1>9, <1>10, <1>11
          DEF Next, RunOne, Reactor

LEMMA StutterSeen ==
    ASSUME ServiceInv, UNCHANGED vars
    PROVE  ServiceInv' /\ ServiceStep
  BY NothingSeen DEF vars

LEMMA InitSeen ==
    ASSUME Init
    PROVE  ServiceInv /\ Service!Init
  <1>1. /\ \A c \in Conn : conn[c] = NoConnection /\ net[c] = NoSocket
        /\ \A z \in Zodiac : mPrognosisPerZodiac[z] = NONE
    BY DEF Init
  <1>2. NoConnection.open = FALSE
    BY NothingFacts
  <1>3. ServiceInv
    BY <1>1, <1>2, ClosedView DEF ServiceInv, Undivided
  <1>4. \A c \in Conn : Unserved(c) = <<>> /\ Owed(c) = <<>> /\ Announced(c) = NONE
    <2> TAKE c \in Conn
    <2>1. /\ Unserved(c) = UnservedOf(NoConnection, NoSocket)
          /\ Owed(c) = OwedOf(NoConnection, NoSocket) /\ Announced(c) = SignOf(NoConnection)
      BY <1>1, Views, Zenon
    <2> QED BY <1>2, <2>1, ClosedView
  <1>5. \A z \in Zodiac : Prognosis(z) = <<>>
    BY <1>1 DEF Prognosis
  <1> QED BY <1>3, <1>4, <1>5, Zenon DEF Service!Init

\* The invariant of the refinement, for clients that wait for their replies: what
\* the server has heard of a client is a single request, or the prognosis that
\* was announced, and a reply that is written is the only thing in its buffer.
THEOREM ServiceInvariant == ClientsWait /\ Spec => [](ServerInv /\ ServiceInv)
  <1> DEFINE Inv == ClientsWait /\ ServerInv /\ ServiceInv
  <1>1. ClientsWait /\ Init => Inv
    BY InitInv, InitSeen
  <1>2. Inv /\ [Next]_vars => Inv'
    <2> SUFFICES ASSUME Inv, [Next]_vars PROVE Inv'
      OBVIOUS
    <2>1. ServerInv'
      BY NextInv, StutterInv
    <2>2. ServiceInv'
      BY StepSeen, StutterSeen
    <2> QED BY <2>1, <2>2 DEF ClientsWait
  <1>3. Inv => ServerInv /\ ServiceInv
    OBVIOUS
  <1> HIDE DEF Inv
  <1> QED BY <1>1, <1>2, <1>3, PTL DEF Spec

\* To clients that wait for the reply to one request before they send the next,
\* the server serves what the Unix server promises: in their order, each once,
\* and to the client that sent it, whatever is lost, delayed or times out.
THEOREM ServesAsPromised == ClientsWait /\ Spec => ImplementsService
  <1>1. Init => Service!Init
    BY InitSeen
  <1>2. ClientsWait /\ ServerInv /\ ServiceInv /\ [Next]_vars =>
            [Service!Next]_Service!serviceVars
    <2> SUFFICES ASSUME ClientsWait, ServerInv, ServiceInv, [Next]_vars
                 PROVE  Service!Next \/ UNCHANGED Service!serviceVars
      OBVIOUS
    <2> QED BY StepSeen, StutterSeen DEF ServiceStep
  <1>3. ClientsWait /\ [Next]_vars => ClientsWait'
    BY DEF ClientsWait
  <1> QED BY <1>1, <1>2, <1>3, ServiceInvariant, PTL DEF Spec, ImplementsService, Service!Spec

=============================================================================
