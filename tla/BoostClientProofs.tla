--------------------------- MODULE BoostClientProofs ---------------------------
(***************************************************************************)
(* The safety of the Boost client for every set of signs and any number of *)
(* humans and of threads: no handler is called for an object that is gone, *)
(* and no success is reported that the server did not confirm.             *)
(***************************************************************************)
EXTENDS BoostClient, AsioProofs

Handlers == {"io", "deadline"} \X Conn

Writes == {"handleWriteRequest", "handleWritePrognosis"}

Lines == {UNKNOWN_PROGNOSIS, STAR_RESPONSE_SUCCESS, STAR_RESPONSE_FAILURE, Other}
         \cup {Value(z) : z \in Zodiac}

-----------------------------------------------------------------------------
\* What is outstanding for an object.  An object that connects has no timer yet;
\* one that is open has an operation and a wait; after stop nothing is awaited
\* that is yet to happen.
Sound(s) ==
    /\ s.op = "none" <=> s.ec = "none"
    /\ s.open => s.op # "handleConnect" /\ s.op # "none" /\ s.wait # "none"
    /\ s.op = "handleConnect" => s.wait = "none"
    /\ ~s.open /\ s.op # "handleConnect" => s.ec # "pending" /\ s.wait # "pending"

\* The socket of an object is there exactly while it is connected.
Linked(s, k) ==
    k.peer # "none" <=> s.open \/ (s.op = "handleConnect" /\ s.ec = "success")

\* How far the conversation of object c has come: nothing is said before the
\* request is written, what was read and what is on its way are the reply, and
\* behind a reply there is nothing to answer, but perhaps a prognosis that came
\* when the star was denied already.
Unsaid(s) == s.op = "handleConnect" \/ (s.op = "handleWriteRequest" /\ s.ec = "pending")

PrognosisSent(c, s, k) ==
    /\ c \in Star /\ k.out = Value(SignOf[c])
    /\ s.op = "handleReadResponse" \/ (s.op = "handleWritePrognosis" /\ s.ec # "pending")

Talks(c, s, k) ==
    /\ Unsaid(s) => k.in = <<>> /\ k.out = <<>> /\ k.reply = <<>>
    /\ s.op \in Writes => k.in = k.reply /\ (s.ec # "pending" => s.buf = <<>>)
    /\ s.op = "handleWritePrognosis" => c \in Star /\ (s.ec = "pending" => s.buf = Value(SignOf[c]))
    /\ s.op = "handleReadResponse" => s.buf \o k.in = k.reply /\ (s.ec = "success" => HasLine(s.buf))
    /\ k.reply # <<>> => k.reply \in Lines /\ (k.out = <<>> \/ PrognosisSent(c, s, k))

ObjectInv(c, s, k) ==
    /\ Sound(s) /\ Linked(s, k)
    /\ s.open \/ s.op = "handleConnect" => Talks(c, s, k)

-----------------------------------------------------------------------------
\* The callback of c can have counted it, and nothing changes its reply.
Finished(c) == conn[c].op = "none" /\ Confirmed(c)

Polling == pc \in {"spawn", "join", "unwind"}

Counts == {c \in IF Polling THEN Human ELSE Conn : Finished(c)}

\* Where the main thread is, and what that says of threads and objects.
PhaseInv ==
    /\ pc = "exit" <=> verdict # "none"
    /\ waiting + active <= Cardinality(Human)
    /\ pc # "join" => active = 0
    /\ pc = "run" => ~stopped
    /\ mode # "multi" => ~Polling
    /\ Polling => \A c \in Star : conn[c] = NoObject /\ Finished(c)
    /\ pc = "run" /\ mode = "multi" => \A c \in Human : conn[c] = NoObject /\ net[c] = NoSocket

CountInv ==
    /\ counter <= Cardinality(Counts)
    /\ mode = "multi" /\ verdict = "EXIT_SUCCESS" => \A c \in Conn : Finished(c)

StoreInv == \A z \in Zodiac : store[z] \in Lines

\* The inductive invariant.
ClientInv ==
    /\ TypeOK
    /\ Distinct(queue)
    /\ \A c \in Conn : InStep(c) /\ ObjectInv(c, conn[c], net[c])
    /\ PhaseInv /\ CountInv /\ StoreInv

-----------------------------------------------------------------------------
LEMMA NumberFacts ==
    /\ WriteRequestTimeout \in Nat /\ WritePrognosisTimeout \in Nat /\ ReadResponseTimeout \in Nat
    /\ IsFiniteSet(Star) /\ IsFiniteSet(Human) /\ IsFiniteSet(Conn)
    /\ Cardinality(Star) \in Nat /\ Cardinality(Human) \in Nat
  <1>1. IsFiniteSet(Star) /\ IsFiniteSet(Human) /\ Conn = Star \cup Human
    BY BoostClientAssumption
  <1>2. IsFiniteSet(Conn)
    BY <1>1, FS_Union
  <1>3. Cardinality(Star) \in Nat /\ Cardinality(Human) \in Nat
    BY <1>1, FS_CardinalityType
  <1> QED BY <1>1, <1>2, <1>3, BoostClientAssumption

LEMMA HandlerFacts ==
    /\ "handleConnect" \in Handler /\ "handleWriteRequest" \in Handler
    /\ "handleWritePrognosis" \in Handler /\ "handleReadResponse" \in Handler
  BY DEF Handler

\* Whoever is not a star is a human, and each has a sign.
LEMMA WhoFacts ==
    ASSUME NEW c \in Conn
    PROVE  /\ SignOf[c] \in Zodiac /\ (c \in Star <=> c \notin Human)
  BY BoostClientAssumption

\* A line of one word.
LEMMA ShortLine ==
    ASSUME NEW w \in Word, w # DELIMITER
    PROVE  /\ <<w, DELIMITER>> \in Seq(Word) /\ <<w, DELIMITER>> # <<>>
           /\ IsLine(<<w, DELIMITER>>, Len(<<w, DELIMITER>>))
  <1> DEFINE d == DELIMITER
             l == <<w, d>>
  <1>1. d \in Word
    BY DEF Word
  <1> HIDE DEF d
  <1>2. l \in Seq(Word) /\ l # <<>> /\ Len(l) = 2 /\ l[1] = w /\ l[2] = d
    BY <1>1
  <1> HIDE DEF l
  <1>3. IsLine(l, Len(l))
    BY <1>2 DEF IsLine, d
  <1> QED BY <1>2, <1>3 DEF l, d

\* What the server may say is a line of words.
LEMMA LinesFacts ==
    ASSUME NEW l \in Lines
    PROVE  l \in Seq(Word) /\ l # <<>> /\ IsLine(l, Len(l))
  <1>1. CASE l = UNKNOWN_PROGNOSIS
    <2> DEFINE w == "OUT OF LUCK!"
    <2>1. l = <<w, DELIMITER>> /\ l[1] \in Word /\ w # DELIMITER
      BY <1>1 DEF UNKNOWN_PROGNOSIS, CLIENT_REPLY_FAILURE, Word, DELIMITER
    <2> HIDE DEF w
    <2>2. w \in Word
      BY <2>1
    <2> QED BY <2>1, <2>2, ShortLine
  <1>2. CASE l = STAR_RESPONSE_SUCCESS
    <2> DEFINE w == "THANKS!"
    <2>1. l = <<w, DELIMITER>> /\ l[1] \in Word /\ w # DELIMITER
      BY <1>2 DEF STAR_RESPONSE_SUCCESS, STAR_REPLY_SUCCESS, Word, DELIMITER
    <2> HIDE DEF w
    <2>2. w \in Word
      BY <2>1
    <2> QED BY <2>1, <2>2, ShortLine
  <1>3. CASE l = STAR_RESPONSE_FAILURE
    <2> DEFINE w == "DENIED!"
    <2>1. l = <<w, DELIMITER>> /\ l[1] \in Word /\ w # DELIMITER
      BY <1>3 DEF STAR_RESPONSE_FAILURE, STAR_REPLY_FAILURE, Word, DELIMITER
    <2> HIDE DEF w
    <2>2. w \in Word
      BY <2>1
    <2> QED BY <2>1, <2>2, ShortLine
  <1>4. CASE l = Other
    <2>1. "other" \in Word /\ "other" # DELIMITER
      BY DEF Word, DELIMITER
    <2> QED BY <1>4, <2>1, ShortLine DEF Other
  <1>5. ASSUME NEW z \in Zodiac, l = Value(z)
        PROVE  l \in Seq(Word) /\ l # <<>> /\ IsLine(l, Len(l))
    <2> DEFINE d == DELIMITER
               v == "value"
    <2>1. z \in Word /\ v \in Word /\ d \in Word /\ z # DELIMITER /\ v # DELIMITER
      BY BoostClientAssumption DEF Word, DELIMITER
    <2>2. l = <<z, v, d>>
      BY <1>5 DEF Value
    <2>3. d = DELIMITER
      OBVIOUS
    <2> HIDE DEF d, v
    <2>4. l \in Seq(Word) /\ l # <<>> /\ Len(l) = 3 /\ l[1] = z /\ l[2] = v /\ l[3] = d
      BY <2>1, <2>2
    <2>5. \A i \in 1 .. Len(l) - 1 : l[i] # DELIMITER
      <3>1. \A i \in 1 .. Len(l) - 1 : i = 1 \/ i = 2
        BY <2>4
      <3> QED BY <2>1, <2>4, <3>1
    <2> QED BY <2>3, <2>4, <2>5 DEF IsLine
  <1> QED BY <1>1, <1>2, <1>3, <1>4, <1>5 DEF Lines

LEMMA RequestFacts ==
    ASSUME NEW c \in Conn
    PROVE  /\ Request(c) \in Seq(Word) /\ Len(Request(c)) = 3
           /\ Value(SignOf[c]) \in Seq(Word) /\ Len(Value(SignOf[c])) = 3
           /\ Value(SignOf[c]) \in Lines
  <1> DEFINE d == DELIMITER
             v == "value"
             a == IF c \in Star THEN STAR_REQUEST_TYPE ELSE CLIENT_REQUEST_TYPE
             z == SignOf[c]
  <1>1. z \in Zodiac
    BY WhoFacts
  <1>2. z \in Word /\ a \in Word /\ d \in Word /\ v \in Word
    BY <1>1 DEF Word
  <1>3. Request(c) = <<a, z, d>> /\ Value(z) = <<z, v, d>>
    BY DEF Request, Value
  <1>4. Value(z) \in Lines
    BY <1>1 DEF Lines
  <1> HIDE DEF a, d, v, z
  <1> QED BY <1>2, <1>3, <1>4 DEF z

-----------------------------------------------------------------------------
\* The fields of an object and of a socket.
LEMMA Fields ==
    ASSUME NEW s \in Object
    PROVE  /\ s.open \in BOOLEAN /\ s.op \in Handler \cup {"none"} /\ s.ec \in ErrorCode
           /\ s.left \in Nat /\ s.wait \in ErrorCode /\ s.buf \in Seq(Word)
  BY DEF Object

LEMMA SocketFields ==
    ASSUME NEW k \in Socket
    PROVE  /\ k.in \in Seq(Word) /\ k.out \in Seq(Word) /\ k.reply \in Seq(Word)
           /\ k.peer \in {"none", "open", "fin"}
  BY DEF Socket

LooksLike(t, open, op, ec, wait, buf) ==
    /\ t \in Object
    /\ t.open = open /\ t.op = op /\ t.ec = ec /\ t.wait = wait /\ t.buf = buf

LEMMA NothingFacts ==
    /\ LooksLike(NoObject, FALSE, "none", "none", "none", <<>>)
    /\ NoSocket \in Socket /\ NoSocket.in = <<>> /\ NoSocket.out = <<>>
    /\ NoSocket.reply = <<>> /\ NoSocket.peer = "none"
  <1>1. LooksLike(NoObject, FALSE, "none", "none", "none", <<>>)
    BY DEF NoObject, Object, ErrorCode, LooksLike
  <1>2. NoSocket \in Socket
    BY DEF NoSocket, Socket
  <1> QED BY <1>1, <1>2 DEF NoSocket

\* The constructors begin to connect.
LEMMA NewFacts ==
    ASSUME NEW c \in Conn
    PROVE  LooksLike(New(c), FALSE, "handleConnect", "pending", "none", Request(c))
  <1> DEFINE a == Request(c)
             s == [NoObject EXCEPT !.buf = a]
  <1>1. a \in Seq(Word)
    BY RequestFacts
  <1> HIDE DEF a
  <1>2. LooksLike(s, FALSE, "none", "none", "none", a)
    BY <1>1, NothingFacts DEF LooksLike, Object
  <1> HIDE DEF s
  <1>3. LooksLike(async(s, "handleConnect"), FALSE, "handleConnect", "pending", "none", a)
    BY <1>2, HandlerFacts DEF LooksLike, async, Object, ErrorCode
  <1> QED BY <1>3 DEF New, s, a

LEMMA CalledFacts ==
    ASSUME NEW s \in Object
    PROVE  /\ LooksLike(IoCalled(s), s.open, "none", "none", s.wait, s.buf)
           /\ LooksLike(WaitCalled(s), s.open, s.op, s.ec, "none", s.buf)
  <1>1. LooksLike(IoCalled(s), s.open, "none", "none", s.wait, s.buf)
    BY DEF LooksLike, IoCalled, Object, ErrorCode
  <1>2. LooksLike(WaitCalled(s), s.open, s.op, s.ec, "none", s.buf)
    BY DEF LooksLike, WaitCalled, Object, ErrorCode
  <1> QED BY <1>1, <1>2

LEMMA StopFacts ==
    ASSUME NEW s \in Object
    PROVE  LooksLike(stop(s), FALSE, s.op, Cancelled(s.ec), Cancelled(s.wait), s.buf)
  BY DEF LooksLike, stop, cancel, close, Cancelled, Object, ErrorCode

\* A new operation is started with a new expiry.
LEMMA AsyncFacts ==
    ASSUME NEW s \in Object, NEW h \in Handler, NEW n \in Nat
    PROVE  LooksLike(async(expires_after(s, n), h), s.open, h, "pending", Cancelled(s.wait), s.buf)
  BY DEF LooksLike, async, expires_after, cancel, Cancelled, Object, ErrorCode

LEMMA WaitFacts ==
    ASSUME NEW s \in Object
    PROVE  LooksLike(async_wait(s), s.open, s.op, s.ec, "pending", s.buf)
  BY DEF LooksLike, async_wait, Object, ErrorCode

LEMMA CancelledFacts ==
    ASSUME NEW ec
    PROVE  /\ GoesOn(ec, Cancelled(ec)) /\ Cancelled(ec) # "pending"
           /\ Cancelled(ec) = "none" <=> ec = "none"
  BY DEF GoesOn, Cancelled

-----------------------------------------------------------------------------
\* The socket of an object that a handler changes from s to t.
LeftSocket(s, t, k) == [k EXCEPT !.peer = IF s.open /\ ~t.open THEN "none" ELSE @]

LEMMA LeftFacts ==
    ASSUME NEW s, NEW t, NEW k \in Socket
    PROVE  /\ LeftSocket(s, t, k) \in Socket
           /\ LeftSocket(s, t, k).in = k.in /\ LeftSocket(s, t, k).out = k.out
           /\ LeftSocket(s, t, k).reply = k.reply
           /\ LeftSocket(s, t, k).peer = IF s.open /\ ~t.open THEN "none" ELSE k.peer
  BY DEF LeftSocket, Socket

\* What a handler of an operation leaves.
IoOutcome(c, s, t, k) ==
    /\ t \in Object /\ t.ec \in {"none", "pending"}
    /\ GoesOn(s.wait, t.wait)
    /\ ObjectInv(c, t, LeftSocket(s, t, k))

\* The object was stopped by the handler or before, or it could not connect.
LEMMA Closed ==
    ASSUME NEW c, NEW s \in Object, NEW k \in Socket, ObjectInv(c, s, k),
           ~(s.op = "handleConnect" /\ s.ec = "success"), s.ec # "pending",
           NEW t \in Object, t.open = FALSE, t.op = "none", t.ec = "none",
           t.wait = Cancelled(s.wait) \/ (~s.open /\ t.wait = s.wait)
    PROVE  IoOutcome(c, s, t, k)
  <1> DEFINE j == LeftSocket(s, t, k)
  <1>1. j.peer = IF s.open /\ ~t.open THEN "none" ELSE k.peer
    BY LeftFacts
  <1> HIDE DEF j
  <1>2. j.peer = "none"
    BY <1>1 DEF ObjectInv, Linked
  <1>3. t.wait # "pending" /\ GoesOn(s.wait, t.wait)
    <2>1. ~s.open => s.wait # "pending"
      BY DEF ObjectInv, Sound
    <2> QED BY <2>1, CancelledFacts DEF GoesOn
  <1>4. ObjectInv(c, t, j)
    BY <1>2, <1>3 DEF ObjectInv, Sound, Linked
  <1> QED BY <1>3, <1>4 DEF IoOutcome, j

LEMMA CalledIsClosed ==
    ASSUME NEW c, NEW s \in Object, NEW k \in Socket, ObjectInv(c, s, k), s.open = FALSE,
           ~(s.op = "handleConnect" /\ s.ec = "success"), s.ec # "pending"
    PROVE  IoOutcome(c, s, IoCalled(s), k)
  <1> DEFINE t == IoCalled(s)
  <1>1. LooksLike(t, s.open, "none", "none", s.wait, s.buf)
    BY CalledFacts
  <1> HIDE DEF t
  <1>2. IoOutcome(c, s, t, k)
    BY <1>1, Closed DEF LooksLike
  <1> QED BY <1>2 DEF t

LEMMA StopIsClosed ==
    ASSUME NEW c, NEW s \in Object, NEW k \in Socket, ObjectInv(c, s, k), s.open = TRUE,
           s.ec # "pending"
    PROVE  IoOutcome(c, s, stop(IoCalled(s)), k)
  <1> DEFINE r == IoCalled(s)
             t == stop(r)
  <1>1. LooksLike(r, s.open, "none", "none", s.wait, s.buf)
    BY CalledFacts
  <1> HIDE DEF r
  <1>2. LooksLike(t, FALSE, r.op, Cancelled(r.ec), Cancelled(r.wait), r.buf)
    BY <1>1, StopFacts DEF LooksLike
  <1> HIDE DEF t
  <1>3. /\ t \in Object /\ t.open = FALSE /\ t.op = "none" /\ t.ec = "none"
        /\ t.wait = Cancelled(s.wait)
    BY <1>1, <1>2 DEF LooksLike, Cancelled
  <1>4. s.op # "handleConnect"
    BY DEF ObjectInv, Sound
  <1>5. IoOutcome(c, s, t, k)
    BY <1>3, <1>4, Closed
  <1> QED BY <1>5 DEF t, r

\* An object that stays open goes on with another operation.
LEMMA Continues ==
    ASSUME NEW c, NEW s \in Object, NEW k \in Socket, NEW t \in Object, k.peer # "none",
           t.open = TRUE, t.op \in Handler, t.op # "handleConnect", t.ec = "pending",
           t.wait # "none", GoesOn(s.wait, t.wait), Talks(c, t, k)
    PROVE  IoOutcome(c, s, t, k)
  <1> DEFINE j == LeftSocket(s, t, k)
  <1>1. j.in = k.in /\ j.out = k.out /\ j.reply = k.reply /\ j.peer = k.peer
    BY LeftFacts
  <1> HIDE DEF j
  <1>2. Talks(c, t, j)
    BY <1>1 DEF Talks, PrognosisSent
  <1>3. Sound(t) /\ Linked(t, j)
    BY <1>1 DEF Sound, Linked, Handler
  <1> QED BY <1>2, <1>3 DEF IoOutcome, ObjectInv, j

LEMMA ConnectFacts ==
    ASSUME NEW c, NEW s \in Object, NEW k \in Socket, ObjectInv(c, s, k),
           s.op = "handleConnect", s.ec # "pending"
    PROVE  IoOutcome(c, s, handleConnect(s), k)
  <1>1. s.open = FALSE /\ s.wait = "none" /\ Talks(c, s, k)
    BY Fields DEF ObjectInv, Sound
  <1>2. CASE s.ec # "success"
    BY <1>1, <1>2, CalledIsClosed DEF handleConnect
  <1>3. CASE s.ec = "success"
    <2> DEFINE r == IoCalled(s)
               u == [r EXCEPT !.open = TRUE]
               v == async(expires_after(u, WriteRequestTimeout), "handleWriteRequest")
               t == async_wait(v)
    <2>1. handleConnect(s) = t
      BY <1>3 DEF handleConnect, startWaitDeadline
    <2>2. LooksLike(r, s.open, "none", "none", s.wait, s.buf)
      BY CalledFacts
    <2> HIDE DEF r
    <2>3. LooksLike(u, TRUE, "none", "none", s.wait, s.buf)
      BY <2>2 DEF LooksLike, Object
    <2> HIDE DEF u
    <2>4. LooksLike(v, u.open, "handleWriteRequest", "pending", Cancelled(u.wait), u.buf)
      <3>1. u \in Object /\ WriteRequestTimeout \in Nat /\ "handleWriteRequest" \in Handler
        BY <2>3, NumberFacts, HandlerFacts DEF LooksLike
      <3> QED BY <3>1, AsyncFacts
    <2> HIDE DEF v
    <2>5. LooksLike(t, v.open, v.op, v.ec, "pending", v.buf)
      BY <2>4, WaitFacts DEF LooksLike
    <2> HIDE DEF t
    <2>6. LooksLike(t, TRUE, "handleWriteRequest", "pending", "pending", s.buf)
      BY <2>3, <2>4, <2>5 DEF LooksLike
    <2>7. k.in = <<>> /\ k.out = <<>> /\ k.reply = <<>> /\ k.peer # "none"
      BY <1>1, <1>3 DEF Talks, Unsaid, ObjectInv, Linked
    <2>8. Talks(c, t, k)
      BY <2>6, <2>7 DEF Talks, Unsaid, LooksLike
    <2>9. GoesOn(s.wait, t.wait) /\ t.op \in Handler /\ t.op # "handleConnect"
      BY <1>1, <2>6, HandlerFacts DEF GoesOn, LooksLike
    <2> QED BY <2>1, <2>6, <2>7, <2>8, <2>9, Continues DEF LooksLike
  <1> QED BY <1>2, <1>3

LEMMA UnlessFacts ==
    ASSUME NEW c, NEW s \in Object, NEW k \in Socket, ObjectInv(c, s, k),
           s.op # "handleConnect", s.ec # "pending", NEW t,
           s.open /\ s.ec = "success" => IoOutcome(c, s, t, k)
    PROVE  IoOutcome(c, s, Unless(s, t), k)
  <1>1. s.open \in BOOLEAN
    BY Fields
  <1>2. CASE s.open = FALSE
    BY <1>2, CalledIsClosed DEF Unless
  <1>3. CASE s.open = TRUE /\ s.ec # "success"
    BY <1>3, StopIsClosed DEF Unless
  <1>4. CASE s.open = TRUE /\ s.ec = "success"
    BY <1>4 DEF Unless
  <1> QED BY <1>1, <1>2, <1>3, <1>4

\* What was written is on its way, and the object reads the answer.
LEMMA ReadResponseFacts ==
    ASSUME NEW c, NEW s \in Object, NEW k \in Socket, ObjectInv(c, s, k),
           s.op \in Writes, s.ec = "success", s.open
    PROVE  IoOutcome(c, s, ReadResponse(s), k)
  <1> DEFINE r == IoCalled(s)
             t == async(expires_after(r, ReadResponseTimeout), "handleReadResponse")
  <1>1. /\ s.open = TRUE /\ s.wait # "none" /\ Talks(c, s, k) /\ k.peer # "none"
    BY Fields DEF ObjectInv, Sound, Linked
  <1>2. LooksLike(r, s.open, "none", "none", s.wait, s.buf)
    BY CalledFacts
  <1> HIDE DEF r
  <1>3. LooksLike(t, r.open, "handleReadResponse", "pending", Cancelled(r.wait), r.buf)
    <2>1. r \in Object /\ ReadResponseTimeout \in Nat /\ "handleReadResponse" \in Handler
      BY <1>2, NumberFacts, HandlerFacts DEF LooksLike
    <2> QED BY <2>1, AsyncFacts
  <1>4. ReadResponse(s) = t
    BY DEF ReadResponse, r
  <1> HIDE DEF t
  <1>5. LooksLike(t, TRUE, "handleReadResponse", "pending", Cancelled(s.wait), s.buf)
    BY <1>1, <1>2, <1>3 DEF LooksLike
  <1>6. s.buf = <<>> /\ k.in = k.reply
    BY <1>1 DEF Talks
  <1>7. t.buf \o k.in = k.reply
    <2>1. k.reply \in Seq(Word)
      BY SocketFields
    <2>2. <<>> \o k.reply = k.reply
      BY <2>1, ConcatEmptySeq
    <2> QED BY <1>5, <1>6, <2>2 DEF LooksLike
  <1>8. Talks(c, t, k)
    BY <1>1, <1>5, <1>7 DEF Talks, Unsaid, PrognosisSent, LooksLike, Writes
  <1>9. GoesOn(s.wait, t.wait) /\ t.wait # "none" /\ t.op \in Handler
    BY <1>1, <1>5, CancelledFacts, HandlerFacts DEF LooksLike
  <1> QED BY <1>1, <1>4, <1>5, <1>8, <1>9, Continues DEF LooksLike

LEMMA WritePrognosisFacts ==
    ASSUME NEW c \in Star, c \in Conn, NEW s \in Object, NEW k \in Socket, ObjectInv(c, s, k),
           s.op = "handleWriteRequest", s.ec = "success", s.open
    PROVE  IoOutcome(c, s, WritePrognosis(s, SignOf[c]), k)
  <1> DEFINE r == IoCalled(s)
             a == Value(SignOf[c])
             u == [r EXCEPT !.buf = a]
             t == async(expires_after(u, WritePrognosisTimeout), "handleWritePrognosis")
  <1>1. /\ s.open = TRUE /\ s.wait # "none" /\ Talks(c, s, k) /\ k.peer # "none"
    BY Fields DEF ObjectInv, Sound, Linked
  <1>2. LooksLike(r, s.open, "none", "none", s.wait, s.buf) /\ a \in Seq(Word)
    BY CalledFacts, RequestFacts
  <1>3. WritePrognosis(s, SignOf[c]) = t
    BY DEF WritePrognosis
  <1> HIDE DEF r, a
  <1>4. LooksLike(u, TRUE, "none", "none", s.wait, a)
    BY <1>1, <1>2 DEF LooksLike, Object
  <1> HIDE DEF u
  <1>5. LooksLike(t, u.open, "handleWritePrognosis", "pending", Cancelled(u.wait), u.buf)
    <2>1. u \in Object /\ WritePrognosisTimeout \in Nat /\ "handleWritePrognosis" \in Handler
      BY <1>4, NumberFacts, HandlerFacts DEF LooksLike
    <2> QED BY <2>1, AsyncFacts
  <1> HIDE DEF t
  <1>6. LooksLike(t, TRUE, "handleWritePrognosis", "pending", Cancelled(s.wait), a)
    BY <1>4, <1>5 DEF LooksLike
  <1>7. Talks(c, t, k)
    BY <1>1, <1>6 DEF Talks, Unsaid, PrognosisSent, LooksLike, Writes, a
  <1>8. GoesOn(s.wait, t.wait) /\ t.wait # "none" /\ t.op \in Handler
    BY <1>1, <1>6, CancelledFacts, HandlerFacts DEF LooksLike
  <1> QED BY <1>1, <1>3, <1>6, <1>7, <1>8, Continues DEF LooksLike

\* The reply that the callback is given is the one that the server sent.
LEMMA CallbackFacts ==
    ASSUME NEW c, NEW s \in Object, NEW k \in Socket, ObjectInv(c, s, k),
           s.op = "handleReadResponse", s.ec = "success", s.open
    PROVE  getline(s.buf) = k.reply /\ k.reply # <<>>
  <1>1. /\ s.buf \o k.in = k.reply /\ HasLine(s.buf)
        /\ k.reply # <<>> => k.reply \in Lines
    BY DEF ObjectInv, Talks
  <1>2. s.buf \in Seq(Word) /\ k.in \in Seq(Word)
    BY Fields, SocketFields
  <1>3. PICK i \in 1 .. Len(s.buf) : s.buf[i] = DELIMITER
    BY <1>1 DEF HasLine
  <1>4. k.reply # <<>>
    <2>1. Len(s.buf) \in Nat /\ Len(k.in) \in Nat /\ Len(s.buf \o k.in) = Len(s.buf) + Len(k.in)
      BY <1>2, LenProperties, ConcatProperties
    <2>2. Len(k.reply) = Len(s.buf) + Len(k.in)
      BY <1>1, <2>1, Zenon
    <2>3. Len(s.buf) > 0
      BY <1>3, <2>1
    <2>4. Len(k.reply) # 0
      <3> DEFINE m == Len(s.buf)
                 n == Len(k.in)
      <3>1. m \in Nat /\ n \in Nat /\ m > 0 /\ Len(k.reply) = m + n
        BY <2>1, <2>2, <2>3, Zenon
      <3> HIDE DEF m, n
      <3>2. m + n # 0
        BY <3>1
      <3> QED BY <3>1, <3>2, Zenon
    <2> QED BY <2>4
  <1>5. IsLine(s.buf \o k.in, Len(s.buf \o k.in))
    BY <1>1, <1>4, LinesFacts
  <1>6. k.in = <<>>
    BY <1>2, <1>3, <1>5, PartOfLine
  <1>7. s.buf = k.reply
    <2>1. s.buf \o <<>> = s.buf
      BY <1>2, ConcatEmptySeq
    <2> QED BY <1>1, <1>6, <2>1
  <1>8. IsLine(s.buf, Len(s.buf))
    BY <1>1, <1>5, <1>7
  <1>9. getline(s.buf) = s.buf
    BY <1>2, <1>8, SingleLineFacts
  <1> QED BY <1>4, <1>7, <1>9

WaitOutcome(c, s, t, k) ==
    /\ t \in Object /\ t.wait \in {"none", "pending"}
    /\ GoesOn(s.ec, t.ec)
    /\ ObjectInv(c, t, LeftSocket(s, t, k))

LEMMA DeadlineFacts ==
    ASSUME NEW c, NEW s \in Object, NEW k \in Socket, ObjectInv(c, s, k), Over(s.wait)
    PROVE  WaitOutcome(c, s, handleDeadline(s), k)
  <1> DEFINE r == WaitCalled(s)
             t == handleDeadline(s)
             j == LeftSocket(s, t, k)
  <1>1. LooksLike(r, s.open, s.op, s.ec, "none", s.buf)
    BY CalledFacts
  <1>2. s.open \in BOOLEAN /\ s.op # "handleConnect" /\ Sound(s) /\ Linked(s, k)
    BY Fields DEF ObjectInv, Sound, Over
  <1>3. /\ j.in = k.in /\ j.out = k.out /\ j.reply = k.reply
        /\ j.peer = IF s.open /\ ~t.open THEN "none" ELSE k.peer
    BY LeftFacts
  <1>4. /\ ~s.open => t = r
        /\ s.open /\ s.wait = "aborted" => t = async_wait(r)
        /\ s.open /\ s.wait # "aborted" => t = stop(r)
    BY <1>2 DEF handleDeadline, startWaitDeadline
  <1> HIDE DEF r, t, j
  <1>5. CASE s.open = FALSE
    <2>1. LooksLike(t, FALSE, s.op, s.ec, "none", s.buf)
      BY <1>1, <1>4, <1>5
    <2>2. ObjectInv(c, t, j)
      BY <1>2, <1>3, <1>5, <2>1 DEF LooksLike, ObjectInv, Sound, Linked
    <2> QED BY <2>1, <2>2 DEF WaitOutcome, LooksLike, GoesOn, t, j
  <1>6. CASE s.open = TRUE /\ s.wait = "aborted"
    <2>1. LooksLike(t, r.open, r.op, r.ec, "pending", r.buf)
      BY <1>1, <1>4, <1>6, WaitFacts DEF LooksLike
    <2>2. LooksLike(t, TRUE, s.op, s.ec, "pending", s.buf)
      BY <1>1, <1>6, <2>1 DEF LooksLike
    <2>3. Talks(c, s, k)
      BY <1>6 DEF ObjectInv
    <2>4. Talks(c, t, j)
      BY <1>3, <2>2, <2>3 DEF Talks, Unsaid, PrognosisSent, LooksLike
    <2>5. Sound(t) /\ Linked(t, j)
      BY <1>2, <1>3, <1>6, <2>2 DEF LooksLike, Sound, Linked
    <2> QED BY <2>2, <2>4, <2>5 DEF WaitOutcome, ObjectInv, LooksLike, GoesOn, t, j
  <1>7. CASE s.open = TRUE /\ s.wait # "aborted"
    <2>1. LooksLike(t, FALSE, r.op, Cancelled(r.ec), Cancelled(r.wait), r.buf)
      BY <1>1, <1>4, <1>7, StopFacts DEF LooksLike
    <2>2. LooksLike(t, FALSE, s.op, Cancelled(s.ec), "none", s.buf)
      BY <1>1, <2>1 DEF LooksLike, Cancelled
    <2>3. Sound(t) /\ Linked(t, j)
      BY <1>2, <1>3, <1>7, <2>2, CancelledFacts DEF LooksLike, Sound, Linked
    <2>4. ObjectInv(c, t, j) /\ GoesOn(s.ec, t.ec)
      BY <1>2, <2>2, <2>3, CancelledFacts DEF ObjectInv, LooksLike
    <2> QED BY <2>2, <2>4 DEF WaitOutcome, LooksLike, t, j
  <1> QED BY <1>2, <1>5, <1>6, <1>7

-----------------------------------------------------------------------------
\* The parts of the invariant that are about types.
LEMMA TypeFacts ==
    ASSUME ClientInv
    PROVE  /\ mode \in Modes /\ pc \in {"run", "spawn", "join", "unwind", "exit"}
           /\ verdict \in {"none", "EXIT_SUCCESS", "EXIT_FAILURE"}
           /\ counter \in Nat /\ stopped \in BOOLEAN
           /\ waiting \in 0 .. Cardinality(Human) /\ active \in 0 .. Cardinality(Human)
           /\ queue \in Seq(Handlers) /\ conn \in [Conn -> Object] /\ net \in [Conn -> Socket]
           /\ store \in [Zodiac -> Seq(Word)]
  BY DEF ClientInv, TypeOK, Handlers

LEMMA HandlersFacts ==
    \A c \in Conn : <<"io", c>> \in Handlers /\ <<"deadline", c>> \in Handlers
  BY DEF Handlers

LEMMA CountFacts ==
    ASSUME NEW T \in SUBSET Conn, NEW S \in SUBSET T
    PROVE  /\ IsFiniteSet(T) /\ Cardinality(S) \in Nat /\ Cardinality(T) \in Nat
           /\ Cardinality(S) <= Cardinality(T)
           /\ \A c \in T : c \notin S => Cardinality(S) + 1 <= Cardinality(T)
  <1>1. IsFiniteSet(T)
    BY NumberFacts, FS_Subset
  <1>2. IsFiniteSet(S) /\ Cardinality(S) <= Cardinality(T)
    BY <1>1, FS_Subset
  <1>3. Cardinality(S) \in Nat /\ Cardinality(T) \in Nat
    BY <1>1, <1>2, FS_CardinalityType
  <1>4. ASSUME NEW c \in T, c \notin S
        PROVE  Cardinality(S) + 1 <= Cardinality(T)
    <2>1. Cardinality(S \cup {c}) = Cardinality(S) + 1
      BY <1>2, <1>4, FS_AddElement
    <2>2. S \cup {c} \in SUBSET T
      OBVIOUS
    <2>3. Cardinality(S \cup {c}) <= Cardinality(T)
      BY <1>1, <2>2, FS_Subset
    <2> QED BY <2>1, <2>3
  <1> QED BY <1>1, <1>2, <1>3, <1>4

\* When nobody is forgotten and only who is new is counted, the count stays true.
LEMMA CountKept ==
    ASSUME ClientInv, UNCHANGED <<mode, pc, verdict>>,
           \A d \in Conn : Finished(d) => Finished(d)',
           \/ counter' = counter
           \/ /\ counter' = counter + 1
              /\ \E c \in Conn : (Polling => c \in Human) /\ ~Finished(c) /\ Finished(c)'
    PROVE  CountInv' /\ counter' \in Nat
  <1> DEFINE A == Counts
             B == Counts'
  <1>1. counter \in Nat /\ counter <= Cardinality(A)
    BY TypeFacts DEF ClientInv, CountInv
  <1>2. Human \subseteq Conn
    BY BoostClientAssumption
  <1>3. A \in SUBSET B /\ B \in SUBSET Conn
    BY <1>2 DEF Counts, Polling
  <1>4. ASSUME NEW c \in Conn, Polling => c \in Human, ~Finished(c), Finished(c)'
        PROVE  c \in B /\ c \notin A
    BY <1>4 DEF Counts, Polling
  <1> HIDE DEF A, B
  <1>5. counter' <= Cardinality(B) /\ counter' \in Nat
    <2>1. /\ Cardinality(A) \in Nat /\ Cardinality(B) \in Nat /\ Cardinality(A) <= Cardinality(B)
          /\ \A c \in B : c \notin A => Cardinality(A) + 1 <= Cardinality(B)
      BY <1>3, CountFacts
    <2>2. CASE counter' = counter
      BY <1>1, <2>1, <2>2
    <2>3. CASE /\ counter' = counter + 1
               /\ \E c \in Conn : (Polling => c \in Human) /\ ~Finished(c) /\ Finished(c)'
      <3>1. Cardinality(A) + 1 <= Cardinality(B)
        BY <1>4, <2>1, <2>3
      <3> QED BY <1>1, <2>1, <2>3, <3>1
    <2> QED BY <2>2, <2>3
  <1>6. (mode = "multi" /\ verdict = "EXIT_SUCCESS" => \A c \in Conn : Finished(c))'
    BY DEF ClientInv, CountInv
  <1> QED BY <1>5, <1>6 DEF CountInv, B

\* A step of one object and its socket keeps the invariant.
LEMMA ObjectStep ==
    ASSUME ClientInv, NEW c \in Conn, NEW t \in Object, NEW k \in Socket,
           QueueFollows(Handlers, c), ObjectInv(c, t, k), conn[c].op # "none" \/ conn[c].wait # "none",
           conn' = [conn EXCEPT ![c] = IF Released(t) THEN NoObject ELSE t],
           net' = [net EXCEPT ![c] = k], UNCHANGED <<mode, thread, store>>,
           conn[c].op = "none" => t.op = "none" /\ k.reply = net[c].reply,
           \/ counter' = counter
           \/ counter' = counter + 1 /\ conn[c].op # "none" /\ t.op = "none" /\ Confirmed(c)'
    PROVE  ClientInv'
  <1> DEFINE u == IF Released(t) THEN NoObject ELSE t
  <1>1. u \in Object /\ u.op = t.op /\ ObjectInv(c, u, k)
    <2>1. CASE Released(t)
      <3>1. t.op = "none" /\ ~t.open /\ k.peer = "none"
        BY <2>1 DEF Released, ObjectInv, Linked
      <3>2. LooksLike(u, FALSE, "none", "none", "none", <<>>)
        BY <2>1, NothingFacts
      <3> HIDE DEF u
      <3>3. ObjectInv(c, u, k)
        BY <3>1, <3>2 DEF LooksLike, ObjectInv, Sound, Linked
      <3> QED BY <3>1, <3>2, <3>3 DEF LooksLike
    <2>2. CASE ~Released(t)
      BY <2>2
    <2> QED BY <2>1, <2>2
  <1> HIDE DEF u
  <1>2. /\ conn' \in [Conn -> Object] /\ conn'[c] = u
        /\ \A d \in Conn : d # c => conn'[d] = conn[d]
    BY <1>1, TypeFacts DEF u
  <1>3. /\ net' \in [Conn -> Socket] /\ net'[c] = k
        /\ \A d \in Conn : d # c => net'[d] = net[d]
    BY TypeFacts
  <1>4. UNCHANGED <<mode, pc, verdict, stopped, waiting, active, store>>
    BY DEF thread
  <1>5. \A d \in Conn : InStep(d)' /\ ObjectInv(d, conn'[d], net'[d])
    BY <1>1, <1>2, <1>3 DEF ClientInv, QueueFollows
  <1>6. \A d \in Conn : Finished(d) => Finished(d)'
    <2> SUFFICES ASSUME NEW d \in Conn, Finished(d)
                 PROVE  Finished(d)'
      OBVIOUS
    <2>1. conn'[d].op = "none" /\ net'[d].reply = net[d].reply
      BY <1>1, <1>2, <1>3 DEF Finished
    <2>2. Confirmed(d)'
      BY <1>4, <2>1 DEF Finished, Confirmed
    <2> QED BY <2>1, <2>2 DEF Finished
  <1>7. conn[c] # NoObject
    BY NothingFacts DEF LooksLike
  <1>8. Polling => c \in Human
    BY <1>7, BoostClientAssumption DEF ClientInv, PhaseInv
  <1>9. CountInv' /\ counter' \in Nat
    <2>1. CASE counter' = counter
      BY <1>4, <1>6, <2>1, CountKept
    <2>2. CASE counter' = counter + 1 /\ conn[c].op # "none" /\ t.op = "none" /\ Confirmed(c)'
      <3>1. ~Finished(c) /\ Finished(c)'
        BY <1>1, <1>2, <2>2 DEF Finished
      <3> QED BY <1>4, <1>6, <1>8, <2>2, <3>1, CountKept
    <2> QED BY <2>1, <2>2
  <1>10. TypeOK' /\ StoreInv' /\ Distinct(queue')
    BY <1>2, <1>3, <1>4, <1>9, TypeFacts DEF ClientInv, TypeOK, StoreInv, QueueFollows, Handlers
  <1>11. PhaseInv'
    <2>1. Polling => \A d \in Star : conn'[d] = NoObject /\ Finished(d)'
      BY <1>2, <1>6, <1>7, BoostClientAssumption DEF ClientInv, PhaseInv
    <2>2. pc = "run" /\ mode = "multi" => \A d \in Human : conn'[d] = NoObject /\ net'[d] = NoSocket
      BY <1>2, <1>3, <1>7, BoostClientAssumption DEF ClientInv, PhaseInv
    <2> QED BY <1>4, <2>1, <2>2 DEF ClientInv, PhaseInv, Polling
  <1> QED BY <1>5, <1>9, <1>10, <1>11 DEF ClientInv

-----------------------------------------------------------------------------
\* A strand takes a handler of its object from somewhere in the queue.
LEMMA HandledFacts ==
    ASSUME ClientInv, NEW c \in Conn, NEW x \in {"io", "deadline"}, NEW t, Handled(<<x, c>>, t)
    PROVE  /\ \E q : Leaves(q, <<x, c>>, Handlers) /\ Becomes(c, t, q, NoObject)
           /\ conn' = [conn EXCEPT ![c] = IF Released(t) THEN NoObject ELSE t]
           /\ net' = [net EXCEPT ![c] = LeftSocket(conn[c], t, net[c])]
           /\ UNCHANGED <<mode, thread, store>>
           /\ x = "io" => Over(conn[c].ec)
           /\ x = "deadline" => Over(conn[c].wait)
  <1> DEFINE h == <<x, c>>
  <1>1. h[2] = c
    OBVIOUS
  <1>2. PICK i \in 1 .. Len(queue) : Callable(h, i) /\ Becomes(h[2], t, Without(i), NoObject)
    BY DEF Handled
  <1>3. queue[i] = h
    BY <1>2 DEF Callable
  <1>4. Leaves(Without(i), h, Handlers)
    <2>1. queue \in Seq(Handlers) /\ Distinct(queue)
      BY TypeFacts DEF ClientInv
    <2> HIDE DEF h
    <2> QED BY <1>3, <2>1, SomeTaken DEF Without
  <1>5. Becomes(c, t, Without(i), NoObject)
    BY <1>1, <1>2
  <1>6. net' = [net EXCEPT ![c] = LeftSocket(conn[c], t, net[c])] /\ UNCHANGED <<mode, thread, store>>
    BY <1>1, TypeFacts DEF Handled, LeftSocket
  <1>7. Holds(queue, h)
    BY <1>3 DEF Holds
  <1>8. (x = "io" => Over(conn[c].ec)) /\ (x = "deadline" => Over(conn[c].wait))
    BY <1>7 DEF ClientInv, InStep
  <1> HIDE DEF h
  <1> QED BY <1>4, <1>5, <1>6, <1>8 DEF Becomes, h

LEMMA IoHandled ==
    ASSUME ClientInv, NEW c \in Conn, NEW t, IoOutcome(c, conn[c], t, net[c]),
           Handled(<<"io", c>>, t),
           counter' = counter \/ (counter' = counter + 1 /\ t.op = "none" /\ Confirmed(c)')
    PROVE  ClientInv'
  <1> DEFINE k == LeftSocket(conn[c], t, net[c])
  <1>1. /\ \E q : Leaves(q, <<"io", c>>, Handlers) /\ Becomes(c, t, q, NoObject)
        /\ conn' = [conn EXCEPT ![c] = IF Released(t) THEN NoObject ELSE t]
        /\ net' = [net EXCEPT ![c] = k]
        /\ UNCHANGED <<mode, thread, store>> /\ Over(conn[c].ec)
    BY HandledFacts
  <1>2. /\ t \in Object /\ t.ec \in {"none", "pending"} /\ GoesOn(conn[c].wait, t.wait)
        /\ ObjectInv(c, t, k)
    BY DEF IoOutcome
  <1>3. k \in Socket
    BY TypeFacts, LeftFacts
  <1> HIDE DEF k
  <1>4. Released(t) => t.ec = "none"
    BY <1>2 DEF Released, ObjectInv, Sound
  <1>5. conn[c].op # "none"
    BY <1>1 DEF ClientInv, ObjectInv, Sound, Over
  <1>6. QueueFollows(Handlers, c)
    <2>1. InStep(c) /\ NoObject.ec = "none" /\ NoObject.wait = "none"
      BY NothingFacts DEF ClientInv, LooksLike
    <2>2. PICK q : Leaves(q, <<"io", c>>, Handlers) /\ Becomes(c, t, q, NoObject)
      BY <1>1
    <2> QED BY <1>2, <1>4, <2>1, <2>2, TypeFacts, HandlersFacts, IoHandledFacts
  <1> QED BY <1>1, <1>2, <1>3, <1>5, <1>6, ObjectStep

LEMMA WaitHandled ==
    ASSUME ClientInv, NEW c \in Conn, NEW t, WaitOutcome(c, conn[c], t, net[c]),
           Handled(<<"deadline", c>>, t), UNCHANGED counter, conn[c].op = "none" => t.op = "none"
    PROVE  ClientInv'
  <1> DEFINE k == LeftSocket(conn[c], t, net[c])
  <1>1. /\ \E q : Leaves(q, <<"deadline", c>>, Handlers) /\ Becomes(c, t, q, NoObject)
        /\ conn' = [conn EXCEPT ![c] = IF Released(t) THEN NoObject ELSE t]
        /\ net' = [net EXCEPT ![c] = k]
        /\ UNCHANGED <<mode, thread, store>> /\ Over(conn[c].wait)
    BY HandledFacts
  <1>2. /\ t \in Object /\ t.wait \in {"none", "pending"} /\ GoesOn(conn[c].ec, t.ec)
        /\ ObjectInv(c, t, k)
    BY DEF WaitOutcome
  <1>3. k \in Socket /\ k.reply = net[c].reply
    BY TypeFacts, LeftFacts
  <1> HIDE DEF k
  <1>4. Released(t) => t.ec = "none"
    BY <1>2 DEF Released, ObjectInv, Sound
  <1>5. conn[c].wait # "none"
    BY <1>1 DEF Over
  <1>6. QueueFollows(Handlers, c)
    <2>1. InStep(c) /\ NoObject.ec = "none" /\ NoObject.wait = "none"
      BY NothingFacts DEF ClientInv, LooksLike
    <2>2. PICK q : Leaves(q, <<"deadline", c>>, Handlers) /\ Becomes(c, t, q, NoObject)
      BY <1>1
    <2> QED BY <1>2, <1>4, <2>1, <2>2, TypeFacts, HandlersFacts, WaitHandledFacts
  <1> QED BY <1>1, <1>2, <1>3, <1>5, <1>6, ObjectStep

LEMMA RunHandlerInv ==
    ASSUME ClientInv, NEW c \in Conn, RunHandler(c)
    PROVE  ClientInv'
  <1> DEFINE s == conn[c]
             k == net[c]
  <1>1. s \in Object /\ k \in Socket /\ ObjectInv(c, s, k)
    BY TypeFacts DEF ClientInv
  <1>2. ASSUME NEW t, Handled(<<"io", c>>, t)
        PROVE  s.ec # "pending" /\ s.ec # "none"
    BY <1>2, HandledFacts DEF Over
  <1>3. CASE /\ s.op = "handleConnect" /\ Handled(<<"io", c>>, handleConnect(s)) /\ UNCHANGED counter
    <2>1. IoOutcome(c, s, handleConnect(s), k)
      BY <1>1, <1>2, <1>3, ConnectFacts
    <2> QED BY <1>3, <2>1, IoHandled
  <1>4. CASE /\ s.op = "handleWriteRequest" /\ Handled(<<"io", c>>, handleWriteRequest(c, s))
             /\ UNCHANGED counter
    <2> DEFINE t == IF c \in Star THEN WritePrognosis(s, SignOf[c]) ELSE ReadResponse(s)
    <2>1. s.open /\ s.ec = "success" => IoOutcome(c, s, t, k)
      <3>1. c \in Star /\ s.open /\ s.ec = "success" => IoOutcome(c, s, WritePrognosis(s, SignOf[c]), k)
        BY <1>1, <1>4, WritePrognosisFacts
      <3>2. s.open /\ s.ec = "success" => IoOutcome(c, s, ReadResponse(s), k)
        BY <1>1, <1>4, ReadResponseFacts DEF Writes
      <3> QED BY <3>1, <3>2
    <2>2. handleWriteRequest(c, s) = Unless(s, t) /\ s.ec # "pending" /\ s.op # "handleConnect"
      BY <1>2, <1>4 DEF handleWriteRequest
    <2> HIDE DEF t
    <2>3. IoOutcome(c, s, handleWriteRequest(c, s), k)
      BY <1>1, <2>1, <2>2, UnlessFacts
    <2> QED BY <1>4, <2>3, IoHandled
  <1>5. CASE /\ s.op = "handleWritePrognosis" /\ Handled(<<"io", c>>, handleWritePrognosis(s))
             /\ UNCHANGED counter
    <2> DEFINE t == ReadResponse(s)
    <2>1. s.open /\ s.ec = "success" => IoOutcome(c, s, t, k)
      BY <1>1, <1>5, ReadResponseFacts DEF Writes
    <2>2. handleWritePrognosis(s) = Unless(s, t) /\ s.ec # "pending" /\ s.op # "handleConnect"
      BY <1>2, <1>5 DEF handleWritePrognosis
    <2> HIDE DEF t
    <2>3. IoOutcome(c, s, handleWritePrognosis(s), k)
      BY <1>1, <2>1, <2>2, UnlessFacts
    <2> QED BY <1>5, <2>3, IoHandled
  <1>6. CASE /\ s.op = "handleReadResponse" /\ Handled(<<"io", c>>, handleReadResponse(s)) /\ Counted(c)
    <2> DEFINE t == handleReadResponse(s)
    <2>1. IoOutcome(c, s, t, k)
      <3>1. s.open = FALSE => IoOutcome(c, s, IoCalled(s), k)
        BY <1>1, <1>2, <1>6, CalledIsClosed
      <3>2. s.open = TRUE => IoOutcome(c, s, stop(IoCalled(s)), k)
        BY <1>1, <1>2, <1>6, StopIsClosed
      <3>3. s.open \in BOOLEAN
        BY <1>1, Fields
      <3> QED BY <3>1, <3>2, <3>3 DEF handleReadResponse
    <2>2. t.op = "none"
      <3> DEFINE r == IoCalled(s)
      <3>1. LooksLike(r, s.open, "none", "none", s.wait, s.buf)
        BY <1>1, CalledFacts
      <3>2. t = IF s.open THEN stop(r) ELSE r
        BY DEF handleReadResponse
      <3> HIDE DEF r, t
      <3>3. LooksLike(stop(r), FALSE, r.op, Cancelled(r.ec), Cancelled(r.wait), r.buf)
        BY <3>1, StopFacts DEF LooksLike
      <3> QED BY <3>1, <3>2, <3>3 DEF LooksLike
    <2> HIDE DEF t
    <2>3. Handled(<<"io", c>>, t)
      BY <1>6 DEF t
    <2>4. /\ net'[c].reply = k.reply /\ mode' = mode
      <3>1. net' = [net EXCEPT ![c] = LeftSocket(s, t, k)] /\ UNCHANGED <<mode, thread, store>>
        BY <2>3, HandledFacts
      <3>2. LeftSocket(s, t, k).reply = k.reply
        BY <1>1, LeftFacts
      <3> QED BY <3>1, <3>2, TypeFacts
    <2>5. counter' = counter \/ (counter' = counter + 1 /\ Confirmed(c)')
      <3>1. CASE s.open /\ s.ec = "success" /\ mOnWorkDoneCb(c, getline(s.buf))
        <4>1. mOnWorkDoneCb(c, k.reply) /\ k.reply # <<>>
          BY <1>1, <1>6, <3>1, CallbackFacts
        <4>2. Confirmed(c)'
          BY <2>4, <4>1 DEF mOnWorkDoneCb, Confirmed
        <4> QED BY <1>6, <3>1, <4>2 DEF Counted
      <3>2. CASE ~(s.open /\ s.ec = "success" /\ mOnWorkDoneCb(c, getline(s.buf)))
        BY <1>6, <3>2 DEF Counted
      <3> QED BY <3>1, <3>2
    <2> QED BY <2>1, <2>2, <2>3, <2>5, IoHandled
  <1>7. CASE Handled(<<"deadline", c>>, handleDeadline(s)) /\ UNCHANGED counter
    <2> DEFINE t == handleDeadline(s)
    <2>1. Over(s.wait) /\ Handled(<<"deadline", c>>, t)
      BY <1>7, HandledFacts
    <2> HIDE DEF t
    <2>2. WaitOutcome(c, s, t, k)
      BY <1>1, <2>1, DeadlineFacts DEF t
    <2>3. s.op = "none" => t.op = "none"
      <3>1. s.op = "none" => ~s.open
        BY <1>1 DEF ObjectInv, Sound
      <3>2. ~s.open => t = WaitCalled(s)
        BY DEF handleDeadline, t
      <3>3. LooksLike(WaitCalled(s), s.open, s.op, s.ec, "none", s.buf)
        BY <1>1, CalledFacts
      <3> QED BY <3>1, <3>2, <3>3 DEF LooksLike
    <2> QED BY <1>7, <2>1, <2>2, <2>3, WaitHandled
  <1> QED BY <1>3, <1>4, <1>5, <1>6, <1>7 DEF RunHandler

-----------------------------------------------------------------------------
\* A step of an operation or of a timer, outside the handlers.
LEMMA IoStepInv ==
    ASSUME ClientInv, NEW c \in Conn, NEW t \in Object, NEW k \in Socket, IoStep(c, t, k),
           conn[c].ec = "pending" \/ conn[c].wait = "pending", t.op = conn[c].op,
           GoesOn(conn[c].ec, t.ec), GoesOn(conn[c].wait, t.wait), ObjectInv(c, t, k),
           conn[c].op = "none" => k.reply = net[c].reply
    PROVE  ClientInv'
  <1>1. /\ Becomes(c, t, queue, NoObject) /\ net' = [net EXCEPT ![c] = k]
        /\ UNCHANGED <<mode, thread, counter, store>>
        /\ conn' = [conn EXCEPT ![c] = IF Released(t) THEN NoObject ELSE t]
    BY DEF IoStep, Becomes
  <1>2. Released(t) => t.ec = "none"
    BY DEF Released, ObjectInv, Sound
  <1>3. conn[c].op # "none" \/ conn[c].wait # "none"
    BY DEF ClientInv, ObjectInv, Sound
  <1>4. QueueFollows(Handlers, c)
    <2>1. InStep(c) /\ Distinct(queue) /\ NoObject.ec = "none" /\ NoObject.wait = "none"
      BY NothingFacts DEF ClientInv, LooksLike
    <2> QED BY <1>1, <1>2, <2>1, TypeFacts, HandlersFacts, CompletedFacts
  <1> QED BY <1>1, <1>3, <1>4, ObjectStep

\* An operation of c comes to an end, or a read goes on.
LEMMA OperationInv ==
    ASSUME ClientInv, NEW c \in Conn, conn[c].ec = "pending", NEW ec \in ErrorCode \ {"none"},
           NEW b \in Seq(Word), NEW k \in Socket,
           IoStep(c, [conn[c] EXCEPT !.buf = b, !.ec = ec], k),
           \A t \in Object : LooksLike(t, conn[c].open, conn[c].op, ec, conn[c].wait, b) =>
               Linked(t, k) /\ Talks(c, t, k)
    PROVE  ClientInv'
  <1> DEFINE s == conn[c]
             t == [s EXCEPT !.buf = b, !.ec = ec]
  <1>1. s \in Object /\ ObjectInv(c, s, net[c])
    BY TypeFacts DEF ClientInv
  <1>2. LooksLike(t, s.open, s.op, ec, s.wait, b)
    BY <1>1 DEF LooksLike, Object
  <1>3. IoStep(c, t, k)
    OBVIOUS
  <1> HIDE DEF t
  <1>4. s.op # "none"
    BY <1>1 DEF ObjectInv, Sound
  <1>5. ObjectInv(c, t, k)
    <2>1. Sound(t)
      BY <1>1, <1>2, <1>4 DEF ObjectInv, Sound, LooksLike
    <2>2. t \in Object
      BY <1>2 DEF LooksLike
    <2> QED BY <1>2, <2>1, <2>2 DEF ObjectInv
  <1>6. GoesOn(s.ec, t.ec) /\ GoesOn(s.wait, t.wait) /\ t.op = s.op /\ t \in Object
    BY <1>2 DEF GoesOn, LooksLike
  <1> QED BY <1>3, <1>4, <1>5, <1>6, IoStepInv

\* The same when only how the operation stands changes.
LEMMA EndedInv ==
    ASSUME ClientInv, NEW c \in Conn, conn[c].ec = "pending", NEW ec \in ErrorCode \ {"none"},
           NEW k \in Socket, IoStep(c, [conn[c] EXCEPT !.ec = ec], k),
           \A t \in Object : LooksLike(t, conn[c].open, conn[c].op, ec, conn[c].wait, conn[c].buf) =>
               Linked(t, k) /\ Talks(c, t, k)
    PROVE  ClientInv'
  <1> DEFINE s == conn[c]
             b == s.buf
  <1>1. s \in Object /\ b \in Seq(Word)
    BY TypeFacts, Fields
  <1>2. [s EXCEPT !.ec = ec] = [s EXCEPT !.buf = b, !.ec = ec]
    BY <1>1 DEF Object
  <1>3. IoStep(c, [s EXCEPT !.buf = b, !.ec = ec], k)
    BY <1>2
  <1> HIDE DEF b
  <1>4. \A t \in Object : LooksLike(t, s.open, s.op, ec, s.wait, b) => Linked(t, k) /\ Talks(c, t, k)
    BY DEF b
  <1> QED BY <1>1, <1>3, <1>4, OperationInv

LEMMA AsyncConnectInv ==
    ASSUME ClientInv, NEW c \in Conn, async_connect(c)
    PROVE  ClientInv'
  <1> DEFINE s == conn[c]
             k == [NoSocket EXCEPT !.peer = "open"]
  <1>1. s.op = "handleConnect" /\ s.ec = "pending"
    BY DEF async_connect, Pending
  <1>2. /\ s \in Object /\ net[c] \in Socket /\ s.open = FALSE
        /\ Talks(c, s, net[c]) /\ net[c].peer = "none"
    BY <1>1, TypeFacts, Fields DEF ClientInv, ObjectInv, Sound, Linked
  <1>3. k \in Socket /\ k.in = <<>> /\ k.out = <<>> /\ k.reply = <<>> /\ k.peer = "open"
    BY NothingFacts DEF Socket
  <1>4. "success" \in ErrorCode \ {"none"} /\ "failed" \in ErrorCode \ {"none"}
    BY DEF ErrorCode
  <1>5. CASE IoStep(c, [s EXCEPT !.ec = "success"], k)
    <2>1. ASSUME NEW t \in Object, LooksLike(t, s.open, s.op, "success", s.wait, s.buf)
          PROVE  Linked(t, k) /\ Talks(c, t, k)
      <3> HIDE DEF k
      <3> QED BY <1>1, <1>3, <2>1 DEF LooksLike, Linked, Talks, Unsaid, Writes
    <2> HIDE DEF k
    <2> QED BY <1>1, <1>3, <1>4, <1>5, <2>1, EndedInv
  <1>6. CASE IoStep(c, [s EXCEPT !.ec = "failed"], net[c])
    <2>1. ASSUME NEW t \in Object, LooksLike(t, s.open, s.op, "failed", s.wait, s.buf)
          PROVE  Linked(t, net[c]) /\ Talks(c, t, net[c])
      BY <1>1, <1>2, <2>1 DEF LooksLike, Linked, Talks, Unsaid, Writes
    <2> QED BY <1>1, <1>2, <1>4, <1>6, <2>1, EndedInv
  <1> QED BY <1>5, <1>6 DEF async_connect

LEMMA AsyncWriteInv ==
    ASSUME ClientInv, NEW c \in Conn, async_write(c)
    PROVE  ClientInv'
  <1> DEFINE s == conn[c]
             k == net[c]
             e == k.out \o s.buf
             l == [k EXCEPT !.out = e]
  <1>1. s.op \in Writes /\ s.ec = "pending"
    BY DEF async_write, Pending, Writes
  <1>2. /\ s \in Object /\ k \in Socket /\ s.open /\ Linked(s, k) /\ Talks(c, s, k)
        /\ s.buf \in Seq(Word) /\ k.out \in Seq(Word) /\ <<>> \in Seq(Word)
    BY <1>1, TypeFacts, Fields, SocketFields DEF ClientInv, ObjectInv, Sound, Writes
  <1>3. "success" \in ErrorCode \ {"none"} /\ "failed" \in ErrorCode \ {"none"}
    BY DEF ErrorCode
  <1>4. CASE IoStep(c, [s EXCEPT !.ec = "success", !.buf = <<>>], [k EXCEPT !.out = @ \o s.buf])
    <2> DEFINE b == <<>>
    <2>1. e \in Seq(Word)
      BY <1>2, ConcatProperties
    <2>2. k.reply # <<>> => e = <<>> \/ (c \in Star /\ e = Value(SignOf[c]) /\ s.op = "handleWritePrognosis")
      <3>1. ASSUME k.reply # <<>>
            PROVE  s.op = "handleWritePrognosis" /\ c \in Star /\ k.out = <<>> /\ s.buf = Value(SignOf[c])
        BY <1>1, <1>2, <3>1 DEF Talks, Unsaid, PrognosisSent, Writes
      <3>2. <<>> \o s.buf = s.buf
        BY <1>2, ConcatEmptySeq
      <3> QED BY <3>1, <3>2
    <2>3. IoStep(c, [s EXCEPT !.buf = b, !.ec = "success"], l)
      <3>1. [s EXCEPT !.ec = "success", !.buf = b] = [s EXCEPT !.buf = b, !.ec = "success"]
        <4> HIDE DEF b
        <4> QED BY <1>2 DEF Object
      <3> QED BY <1>4, <3>1, Zenon
    <2> HIDE DEF e, b
    <2>4. l \in Socket /\ l.in = k.in /\ l.out = e /\ l.reply = k.reply /\ l.peer = k.peer
      BY <1>2, <2>1 DEF Socket
    <2> HIDE DEF l
    <2>5. ASSUME NEW t \in Object, LooksLike(t, s.open, s.op, "success", s.wait, b)
          PROVE  Linked(t, l) /\ Talks(c, t, l)
      <3>1. Linked(t, l)
        BY <1>1, <1>2, <2>4, <2>5 DEF LooksLike, Linked, Writes
      <3>2. Talks(c, t, l)
        BY <1>1, <1>2, <2>2, <2>4, <2>5 DEF LooksLike, Talks, Unsaid, PrognosisSent, Writes, b
      <3> QED BY <3>1, <3>2
    <2>6. b \in Seq(Word)
      BY <1>2 DEF b
    <2> QED BY <1>1, <1>3, <2>3, <2>4, <2>5, <2>6, OperationInv
  <1>5. ASSUME NEW ec \in {"success", "failed"}, IoStep(c, [s EXCEPT !.ec = ec, !.buf = <<>>], k)
        PROVE  ClientInv'
    <2> DEFINE b == <<>>
    <2>1. IoStep(c, [s EXCEPT !.buf = b, !.ec = ec], k)
      <3>1. [s EXCEPT !.ec = ec, !.buf = b] = [s EXCEPT !.buf = b, !.ec = ec]
        <4> HIDE DEF b
        <4> QED BY <1>2 DEF Object
      <3> QED BY <1>5, <3>1, Zenon
    <2>2. b \in Seq(Word) /\ b = <<>>
      BY <1>2
    <2> HIDE DEF b
    <2>3. ASSUME NEW t \in Object, LooksLike(t, s.open, s.op, ec, s.wait, b)
          PROVE  Linked(t, k) /\ Talks(c, t, k)
      <3>1. Linked(t, k)
        BY <1>1, <1>2, <2>3 DEF LooksLike, Linked, Writes
      <3>2. Talks(c, t, k)
        BY <1>1, <1>2, <2>2, <2>3 DEF LooksLike, Talks, Unsaid, PrognosisSent, Writes
      <3> QED BY <3>1, <3>2
    <2> QED BY <1>1, <1>2, <1>3, <2>1, <2>2, <2>3, OperationInv
  <1> QED BY <1>4, <1>5 DEF async_write

\* What has arrived goes behind what was read before.
LEMMA AsyncReadInv ==
    ASSUME ClientInv, NEW c \in Conn, async_read_until(c)
    PROVE  ClientInv'
  <1> DEFINE s == conn[c]
             k == net[c]
  <1>1. s.op = "handleReadResponse" /\ s.ec = "pending"
    BY DEF async_read_until, Pending
  <1>2. /\ s \in Object /\ k \in Socket /\ s.open /\ Linked(s, k) /\ Talks(c, s, k)
        /\ s.buf \in Seq(Word) /\ k.in \in Seq(Word)
    BY <1>1, TypeFacts, Fields, SocketFields DEF ClientInv, ObjectInv, Sound
  <1>3. ASSUME NEW n \in 1 .. Len(k.in),
               IoStep(c, [s EXCEPT !.buf = s.buf \o First(k.in, n),
                                   !.ec = IF HasLine(s.buf \o First(k.in, n)) THEN "success" ELSE @],
                      [k EXCEPT !.in = After(@, n)])
        PROVE  ClientInv'
    <2> DEFINE b == s.buf \o First(k.in, n)
               e == After(k.in, n)
               ec == IF HasLine(b) THEN "success" ELSE s.ec
               l == [k EXCEPT !.in = e]
    <2>1. n \in 0 .. Len(k.in)
      BY <1>2, LenProperties
    <2>2. First(k.in, n) \in Seq(Word) /\ e \in Seq(Word)
      BY <1>2, <2>1, CutFacts
    <2>3. /\ b \in Seq(Word) /\ ec \in ErrorCode \ {"none"} /\ (ec = "success" => HasLine(b))
      BY <1>1, <1>2, <2>2, ConcatProperties DEF ErrorCode
    <2>4. b \o e = k.reply
      <3>1. b \o e = s.buf \o k.in
        BY <1>2, <2>1, Recut
      <3>2. s.buf \o k.in = k.reply
        BY <1>1, <1>2 DEF Talks
      <3> QED BY <3>1, <3>2, Zenon
    <2>5. IoStep(c, [s EXCEPT !.buf = b, !.ec = ec], l)
      BY <1>3, Zenon
    <2> HIDE DEF b, e, ec
    <2>6. l \in Socket /\ l.in = e /\ l.out = k.out /\ l.reply = k.reply /\ l.peer = k.peer
      BY <1>2, <2>2 DEF Socket
    <2> HIDE DEF l
    <2>7. ASSUME NEW t \in Object, LooksLike(t, s.open, s.op, ec, s.wait, b)
          PROVE  Linked(t, l) /\ Talks(c, t, l)
      <3>1. Linked(t, l)
        BY <1>1, <1>2, <2>6, <2>7 DEF LooksLike, Linked
      <3>2. t.buf \o l.in = l.reply /\ (t.ec = "success" => HasLine(t.buf))
        BY <2>3, <2>4, <2>6, <2>7 DEF LooksLike
      <3>3. Talks(c, t, l)
        BY <1>1, <1>2, <2>6, <2>7, <3>2 DEF LooksLike, Talks, Unsaid, PrognosisSent, Writes
      <3> QED BY <3>1, <3>3
    <2> QED BY <1>1, <2>3, <2>5, <2>6, <2>7, OperationInv
  <1>4. ASSUME NEW ec \in {"eof", "failed"}, IoStep(c, [s EXCEPT !.ec = ec], k)
        PROVE  ClientInv'
    <2>1. ec \in ErrorCode \ {"none"}
      BY DEF ErrorCode
    <2>2. ASSUME NEW t \in Object, LooksLike(t, s.open, s.op, ec, s.wait, s.buf)
          PROVE  Linked(t, k) /\ Talks(c, t, k)
      BY <1>1, <1>2, <2>2 DEF LooksLike, Linked, Talks, Unsaid, PrognosisSent, Writes
    <2> QED BY <1>1, <1>2, <1>4, <2>1, <2>2, EndedInv
  <1> QED BY <1>3, <1>4 DEF async_read_until

LEMMA TimerInv ==
    ASSUME ClientInv, NEW c \in Conn, TimerExpires(c)
    PROVE  ClientInv'
  <1> DEFINE s == conn[c]
             t == [s EXCEPT !.wait = "success"]
             k == net[c]
  <1>1. s.wait = "pending" /\ IoStep(c, t, k)
    BY DEF TimerExpires
  <1>2. s \in Object /\ k \in Socket /\ ObjectInv(c, s, k)
    BY TypeFacts DEF ClientInv
  <1>3. LooksLike(t, s.open, s.op, s.ec, "success", s.buf)
    BY <1>2 DEF LooksLike, Object, ErrorCode
  <1> HIDE DEF t
  <1>4. ObjectInv(c, t, k)
    <2>1. s.open /\ s.op # "handleConnect" /\ Talks(c, s, k)
      BY <1>1, <1>2 DEF ObjectInv, Sound
    <2>2. Sound(t) /\ Linked(t, k)
      BY <1>2, <1>3, <2>1 DEF ObjectInv, Sound, Linked, LooksLike
    <2>3. Talks(c, t, k)
      BY <1>3, <2>1 DEF LooksLike, Talks, Unsaid, PrognosisSent
    <2> QED BY <2>2, <2>3 DEF ObjectInv
  <1>5. t \in Object /\ t.op = s.op /\ GoesOn(s.ec, t.ec) /\ GoesOn(s.wait, t.wait)
    BY <1>1, <1>3 DEF LooksLike, GoesOn
  <1> QED BY <1>1, <1>2, <1>4, <1>5, IoStepInv

\* A step that leaves the program as it is, and what the objects have outstanding.
LEMMA OutsideStep ==
    ASSUME ClientInv, UNCHANGED <<mode, thread, counter, queue>>,
           conn' \in [Conn -> Object], net' \in [Conn -> Socket], store' \in [Zodiac -> Seq(Word)],
           StoreInv',
           \A d \in Conn : /\ conn'[d].op = conn[d].op /\ conn'[d].ec = conn[d].ec
                           /\ conn'[d].wait = conn[d].wait
                           /\ ObjectInv(d, conn'[d], net'[d])
                           /\ conn[d] = NoObject => conn'[d] = NoObject
                           /\ net[d].peer # "open" => net'[d] = net[d]
    PROVE  ClientInv'
  <1>1. UNCHANGED <<mode, pc, verdict, stopped, waiting, active, counter, queue>>
    BY DEF thread
  <1>2. \A d \in Conn : InStep(d)'
    BY <1>1 DEF ClientInv, InStep
  <1>3. \A d \in Conn : Finished(d) => Finished(d)'
    <2> SUFFICES ASSUME NEW d \in Conn, Finished(d)
                 PROVE  Finished(d)'
      OBVIOUS
    <2>1. net[d].peer = "none"
      BY DEF ClientInv, ObjectInv, Linked, Sound, Finished
    <2>2. net'[d] = net[d] /\ conn'[d].op = "none"
      BY <2>1 DEF Finished
    <2> QED BY <1>1, <2>2 DEF Finished, Confirmed
  <1>4. CountInv'
    BY <1>1, <1>3, CountKept
  <1>5. TypeOK'
    BY <1>1, TypeFacts DEF TypeOK, Handlers
  <1>6. PhaseInv'
    <2>1. Polling => \A d \in Star : conn'[d] = NoObject /\ Finished(d)'
      BY <1>3, BoostClientAssumption DEF ClientInv, PhaseInv
    <2>2. pc = "run" /\ mode = "multi" => \A d \in Human : conn'[d] = NoObject /\ net'[d] = NoSocket
      <3>1. \A d \in Human : net[d] = NoSocket => net[d].peer # "open"
        BY NothingFacts
      <3> QED BY <3>1, BoostClientAssumption DEF ClientInv, PhaseInv
    <2> QED BY <1>1, <2>1, <2>2 DEF ClientInv, PhaseInv, Polling
  <1>7. Distinct(queue')
    BY <1>1 DEF ClientInv
  <1> QED BY <1>2, <1>4, <1>5, <1>6, <1>7 DEF ClientInv

LEMMA TickInv ==
    ASSUME ClientInv, Tick
    PROVE  ClientInv'
  <1>1. /\ conn' = [c \in Conn |-> Sooner(conn[c])]
        /\ UNCHANGED <<mode, thread, counter, queue, net, store>>
    BY DEF Tick
  <1>2. ASSUME NEW s \in Object
        PROVE  LooksLike(Sooner(s), s.open, s.op, s.ec, s.wait, s.buf)
    BY DEF LooksLike, Sooner, Object
  <1>3. Sooner(NoObject) = NoObject
    <2>1. ASSUME NEW s \in Object, s.left = 0
          PROVE  Sooner(s) = s
      BY <2>1 DEF Sooner, Object
    <2>2. NoObject.left = 0 /\ NoObject \in Object
      BY NothingFacts DEF NoObject, LooksLike
    <2> QED BY <2>1, <2>2
  <1>4. ASSUME NEW d \in Conn
        PROVE  /\ conn'[d] \in Object
               /\ conn'[d].op = conn[d].op /\ conn'[d].ec = conn[d].ec
               /\ conn'[d].wait = conn[d].wait
               /\ ObjectInv(d, conn'[d], net'[d])
               /\ conn[d] = NoObject => conn'[d] = NoObject
    <2> DEFINE s == conn[d]
               t == conn'[d]
    <2>1. s \in Object /\ ObjectInv(d, s, net[d]) /\ t = Sooner(s) /\ net'[d] = net[d]
      BY <1>1, TypeFacts DEF ClientInv
    <2>2. LooksLike(t, s.open, s.op, s.ec, s.wait, s.buf)
      BY <1>2, <2>1
    <2>3. conn[d] = NoObject => conn'[d] = NoObject
      BY <1>3, <2>1
    <2> HIDE DEF s, t
    <2>4. ObjectInv(d, t, net[d])
      BY <2>1, <2>2 DEF LooksLike, ObjectInv, Sound, Linked, Talks, Unsaid, PrognosisSent
    <2> QED BY <2>1, <2>2, <2>3, <2>4 DEF LooksLike, s, t
  <1>5. conn' \in [Conn -> Object] /\ net' \in [Conn -> Socket] /\ store' \in [Zodiac -> Seq(Word)]
    BY <1>1, <1>4, TypeFacts
  <1>6. StoreInv'
    BY <1>1 DEF ClientInv, StoreInv
  <1> QED BY <1>1, <1>4, <1>5, <1>6, OutsideStep

-----------------------------------------------------------------------------
\* The server answers an object once.
LEMMA ReplyInv ==
    ASSUME ClientInv, NEW c \in Conn, NEW line \in Lines, net[c].peer = "open",
           net[c].out # <<>>, net[c].reply = <<>>, Reply(c, line),
           UNCHANGED <<mode, thread, counter, queue, conn>>,
           store' \in [Zodiac -> Seq(Word)], StoreInv'
    PROVE  ClientInv'
  <1> DEFINE s == conn[c]
             k == net[c]
             e == <<>>
             l == net'[c]
  <1>1. /\ s \in Object /\ k \in Socket /\ Sound(s) /\ Linked(s, k) /\ Talks(c, s, k)
        /\ s.buf \in Seq(Word) /\ k.in \in Seq(Word) /\ line \in Seq(Word)
    BY TypeFacts, Fields, SocketFields, LinesFacts DEF ClientInv, ObjectInv, Linked
  <1>2. e \in Seq(Word) /\ e = <<>>
    OBVIOUS
  <1>3. net' = [net EXCEPT ![c].in = line, ![c].reply = line, ![c].out = e]
    BY DEF Reply
  <1> HIDE DEF e
  <1>4. /\ net' \in [Conn -> Socket]
        /\ l.in = line /\ l.reply = line /\ l.out = e /\ l.peer = k.peer
        /\ \A d \in Conn : d # c => net'[d] = net[d]
    BY <1>1, <1>2, <1>3, TypeFacts DEF Socket
  <1>5. s.op = "handleReadResponse" => s.buf \o l.in = l.reply
    <2> SUFFICES ASSUME s.op = "handleReadResponse"
                 PROVE  s.buf \o line = line
      BY <1>4
    <2>1. s.buf \o k.in = <<>>
      BY <1>1 DEF Talks
    <2>2. s.buf = <<>>
      BY <1>1, <2>1, ConcatEmptySeq
    <2> QED BY <1>1, <2>2, ConcatEmptySeq
  <1>6. ObjectInv(c, s, l)
    <2> HIDE DEF l
    <2>1. ~Unsaid(s)
      BY <1>1 DEF Talks
    <2>2. Talks(c, s, l)
      BY <1>1, <1>2, <1>4, <1>5, <2>1 DEF Talks
    <2> QED BY <1>1, <1>4, <2>2 DEF ObjectInv, Linked
  <1>7. ASSUME NEW d \in Conn
        PROVE  /\ ObjectInv(d, conn'[d], net'[d])
               /\ net[d].peer # "open" => net'[d] = net[d]
    BY <1>4, <1>6 DEF ClientInv
  <1>8. conn' \in [Conn -> Object] /\ conn' = conn
    BY TypeFacts
  <1> QED BY <1>4, <1>7, <1>8, OutsideStep

LEMMA AnswerInv ==
    ASSUME ClientInv, NEW c \in Conn, Answer(c)
    PROVE  ClientInv'
  <1> DEFINE k == net[c]
             z == SignOf[c]
             q == Request(c)
             v == Value(z)
  <1>1. /\ k \in Socket /\ Talks(c, conn[c], k) /\ store \in [Zodiac -> Seq(Word)]
        /\ \A y \in Zodiac : store[y] \in Lines
    BY TypeFacts DEF Answer, ClientInv, ObjectInv, Linked, StoreInv
  <1>2. /\ z \in Zodiac /\ q \in Seq(Word) /\ Len(q) = 3 /\ v \in Seq(Word) /\ Len(v) = 3
        /\ v \in Lines
    BY WhoFacts, RequestFacts
  <1>3. k.peer = "open" /\ UNCHANGED <<mode, thread, counter, queue, conn>>
    BY DEF Answer
  <1>4. k.reply # <<>> => k.out = <<>> \/ (c \in Star /\ k.out = v)
    BY <1>1 DEF Talks, PrognosisSent
  <1>5. CASE c \in Human /\ k.out = q /\ Reply(c, store[z]) /\ UNCHANGED store
    <2>1. q # <<>> /\ c \notin Star
      <3>1. c \notin Star
        BY <1>5, WhoFacts
      <3> HIDE DEF q, v, z
      <3>2. Len(q) # 0
        BY <1>2
      <3> QED BY <3>1, <3>2
    <2>2. k.out # <<>> /\ k.reply = <<>>
      BY <1>4, <1>5, <2>1
    <2>3. StoreInv' /\ store[z] \in Lines /\ store' \in [Zodiac -> Seq(Word)]
      BY <1>1, <1>2, <1>5 DEF StoreInv
    <2> QED BY <1>3, <1>5, <2>2, <2>3, ReplyInv
  <1>6. CASE /\ c \in Star /\ k.out = q \o v /\ Reply(c, STAR_RESPONSE_SUCCESS)
             /\ store' = [store EXCEPT ![z] = v]
    <2>1. q \o v # <<>> /\ q \o v # v
      <3> HIDE DEF q, v
      <3>1. Len(q \o v) = Len(q) + Len(v)
        BY <1>2, ConcatProperties
      <3>2. Len(q \o v) = 6
        BY <1>2, <3>1
      <3> QED BY <1>2, <3>2
    <2>2. k.out # <<>> /\ k.reply = <<>>
      BY <1>4, <1>6, <2>1
    <2>3. store' \in [Zodiac -> Seq(Word)] /\ StoreInv'
      <3> HIDE DEF v
      <3> QED BY <1>1, <1>2, <1>6 DEF StoreInv
    <2>4. STAR_RESPONSE_SUCCESS \in Lines
      BY DEF Lines
    <2> QED BY <1>3, <1>6, <2>2, <2>3, <2>4, ReplyInv
  <1> QED BY <1>5, <1>6 DEF Answer

LEMMA DenyInv ==
    ASSUME ClientInv, NEW c \in Conn, Deny(c)
    PROVE  ClientInv'
  <1>1. store' \in [Zodiac -> Seq(Word)] /\ StoreInv'
    BY TypeFacts DEF Deny, ClientInv, StoreInv
  <1>2. STAR_RESPONSE_FAILURE \in Lines
    BY DEF Lines
  <1>3. /\ net[c].peer = "open" /\ net[c].out # <<>> /\ net[c].reply = <<>>
        /\ Reply(c, STAR_RESPONSE_FAILURE) /\ UNCHANGED <<mode, thread, counter, queue, conn>>
    BY DEF Deny
  <1> QED BY <1>1, <1>2, <1>3, ReplyInv

LEMMA ServerDropsInv ==
    ASSUME ClientInv, NEW c \in Conn, ServerDrops(c)
    PROVE  ClientInv'
  <1> DEFINE l == net'[c]
             k == net[c]
  <1>1. /\ k.peer = "open" /\ net' = [net EXCEPT ![c].peer = "fin"]
        /\ UNCHANGED <<mode, thread, counter, queue, conn, store>>
    BY DEF ServerDrops
  <1>2. k \in Socket /\ ObjectInv(c, conn[c], k)
    BY TypeFacts DEF ClientInv
  <1>3. /\ net' \in [Conn -> Socket]
        /\ l.in = k.in /\ l.reply = k.reply /\ l.out = k.out /\ l.peer = "fin"
        /\ \A d \in Conn : d # c => net'[d] = net[d]
    BY <1>1, <1>2, TypeFacts DEF Socket
  <1>4. ObjectInv(c, conn[c], l)
    <2> HIDE DEF l
    <2> QED BY <1>1, <1>2, <1>3 DEF ObjectInv, Linked, Talks, PrognosisSent
  <1>5. ASSUME NEW d \in Conn
        PROVE  /\ ObjectInv(d, conn'[d], net'[d])
               /\ net[d].peer # "open" => net'[d] = net[d]
    BY <1>1, <1>3, <1>4 DEF ClientInv
  <1>6. /\ conn' \in [Conn -> Object] /\ conn' = conn /\ store' \in [Zodiac -> Seq(Word)]
        /\ StoreInv'
    BY <1>1, TypeFacts DEF ClientInv, StoreInv
  <1> QED BY <1>1, <1>3, <1>5, <1>6, OutsideStep

LEMMA RivalInv ==
    ASSUME ClientInv, NEW z \in Zodiac, Rival(z)
    PROVE  ClientInv'
  <1> DEFINE o == Other
  <1>1. store' = [store EXCEPT ![z] = o] /\ UNCHANGED <<mode, thread, counter, queue, conn, net>>
    BY DEF Rival
  <1>2. o \in Lines /\ o \in Seq(Word)
    <2>1. o \in Lines
      BY DEF Lines
    <2> QED BY <2>1, LinesFacts
  <1> HIDE DEF o
  <1>3. store' \in [Zodiac -> Seq(Word)] /\ StoreInv'
    BY <1>1, <1>2, TypeFacts DEF ClientInv, StoreInv
  <1>4. /\ conn' \in [Conn -> Object] /\ conn' = conn /\ net' \in [Conn -> Socket] /\ net' = net
        /\ \A d \in Conn : ObjectInv(d, conn'[d], net'[d])
    BY <1>1, TypeFacts DEF ClientInv
  <1> QED BY <1>1, <1>3, <1>4, OutsideStep

-----------------------------------------------------------------------------
\* Where as many are counted as there can be, all are.
LEMMA AllCounted ==
    ASSUME NEW T \in SUBSET Conn, NEW S \in SUBSET T, NEW n \in Nat,
           n <= Cardinality(S), n = Cardinality(T)
    PROVE  S = T
  <1>1. Cardinality(S) \in Nat /\ \A c \in T : c \notin S => Cardinality(S) + 1 <= Cardinality(T)
    BY CountFacts
  <1>2. \A c \in T : c \in S
    BY <1>1
  <1> QED BY <1>2

\* main returns.
LEMMA ExitInv ==
    ASSUME ClientInv, pc # "exit", active = 0, NEW code \in {"EXIT_SUCCESS", "EXIT_FAILURE"},
           Exit(code), stopped' \in BOOLEAN,
           mode = "multi" /\ code = "EXIT_SUCCESS" => \A c \in Conn : Finished(c),
           UNCHANGED <<mode, counter, waiting, active, queue, conn, net, store>>
    PROVE  ClientInv'
  <1>1. pc' = "exit" /\ verdict' = code
    BY DEF Exit
  <1>2. TypeOK' /\ StoreInv' /\ Distinct(queue')
    BY <1>1, TypeFacts DEF ClientInv, TypeOK, StoreInv, Handlers
  <1>3. \A d \in Conn : InStep(d)' /\ ObjectInv(d, conn'[d], net'[d])
    BY DEF ClientInv, InStep
  <1>4. PhaseInv'
    BY <1>1 DEF ClientInv, PhaseInv, Polling
  <1>5. \A d \in Conn : Finished(d)' = Finished(d)
    BY DEF Finished, Confirmed
  <1>6. CountInv'
    <2> DEFINE A == Counts
               B == Counts'
    <2>1. counter \in Nat /\ counter <= Cardinality(A)
      BY TypeFacts DEF ClientInv, CountInv
    <2>2. A \in SUBSET B /\ B \in SUBSET Conn
      BY <1>1, <1>5, BoostClientAssumption DEF Counts, Polling
    <2> HIDE DEF A, B
    <2>3. Cardinality(A) \in Nat /\ Cardinality(B) \in Nat /\ Cardinality(A) <= Cardinality(B)
      BY <2>2, CountFacts
    <2>4. counter' <= Cardinality(B)
      BY <2>1, <2>3
    <2> QED BY <1>1, <1>5, <2>4 DEF CountInv, B
  <1> QED BY <1>2, <1>3, <1>4, <1>6 DEF ClientInv

\* While one thread runs the handlers, run returns when nothing is outstanding.
LEMMA RunReturned ==
    ASSUME ClientInv, pc = "run", Returns
    PROVE  \A c \in Conn : conn[c].op = "none" /\ conn[c].wait = "none" /\ conn[c].open = FALSE
  <1>1. stopped = FALSE
    BY TypeFacts DEF ClientInv, PhaseInv
  <1>2. \A c \in Conn : conn[c].op = "none" /\ conn[c].wait = "none"
    BY <1>1 DEF Returns, Outstanding
  <1>3. \A c \in Conn : ~conn[c].open
    BY <1>2 DEF ClientInv, ObjectInv, Sound
  <1>4. \A c \in Conn : conn[c].open \in BOOLEAN
    BY TypeFacts, Fields
  <1> QED BY <1>2, <1>3, <1>4

LEMMA RunOneObjectInv ==
    ASSUME ClientInv, RunOneObject
    PROVE  ClientInv'
  <1>1. pc # "exit" /\ active = 0
    BY DEF RunOneObject, ClientInv, PhaseInv
  <1>2. /\ mode # "multi" /\ stopped' \in BOOLEAN /\ Exit("EXIT_SUCCESS")
        /\ UNCHANGED <<mode, counter, waiting, active, queue, conn, net, store>>
    BY DEF RunOneObject
  <1> QED BY <1>1, <1>2, ExitInv

\* When zodiacCounter has counted every star, all were thanked.
LEMMA StarsDone ==
    ASSUME ClientInv, mode = "multi", pc = "run", counter = Cardinality(Star)
    PROVE  \A c \in Star : Finished(c)
  <1>1. \A c \in Human : net[c].reply = <<>>
    BY NothingFacts DEF ClientInv, PhaseInv
  <1>2. \A c \in Human : ~Finished(c)
    BY <1>1, WhoFacts, BoostClientAssumption DEF Finished, Confirmed
  <1>3. Counts \in SUBSET Star /\ Star \in SUBSET Conn
    BY <1>2, BoostClientAssumption DEF Counts, Polling
  <1>4. counter \in Nat /\ counter <= Cardinality(Counts)
    BY TypeFacts DEF ClientInv, CountInv
  <1>5. Counts = Star
    BY <1>3, <1>4, AllCounted
  <1> QED BY <1>5 DEF Counts

\* The humans that are created begin to connect; the others are gone.
LEMMA CreateFacts ==
    ASSUME NEW objects \in SUBSET Conn
    PROVE  /\ Create(objects) \in [Conn -> Object]
           /\ \A c \in Conn : /\ c \in objects => Create(objects)[c] = New(c)
                              /\ c \notin objects => Create(objects)[c] = NoObject
  <1>1. \A c \in Conn : New(c) \in Object /\ NoObject \in Object
    BY NewFacts, NothingFacts DEF LooksLike
  <1> QED BY <1>1 DEF Create

\* An object that was just constructed, and one that is not there.
LEMMA FreshInv ==
    ASSUME NEW c \in Conn, NEW k \in Socket
    PROVE  /\ k = NoSocket => ObjectInv(c, New(c), k)
           /\ k.peer = "none" => ObjectInv(c, NoObject, k)
           /\ New(c).ec = "pending" /\ New(c).wait = "none" /\ New(c).op = "handleConnect"
           /\ NoObject.ec = "none" /\ NoObject.wait = "none" /\ NoObject.op = "none"
  <1> DEFINE s == New(c)
             o == NoObject
  <1>1. LooksLike(s, FALSE, "handleConnect", "pending", "none", Request(c))
    BY NewFacts
  <1>2. LooksLike(o, FALSE, "none", "none", "none", <<>>)
    BY NothingFacts
  <1> HIDE DEF s, o
  <1>3. k = NoSocket => ObjectInv(c, s, k)
    <2> SUFFICES ASSUME k.in = <<>>, k.out = <<>>, k.reply = <<>>, k.peer = "none"
                 PROVE  ObjectInv(c, s, k)
      BY NothingFacts
    <2> QED BY <1>1 DEF LooksLike, ObjectInv, Sound, Linked, Talks, Writes
  <1>4. k.peer = "none" => ObjectInv(c, o, k)
    BY <1>2 DEF LooksLike, ObjectInv, Sound, Linked
  <1> QED BY <1>1, <1>2, <1>3, <1>4 DEF LooksLike, s, o

\* SetAllZodiacs destroys the stars when they have nothing outstanding, and the
\* humans begin with a socket each that nobody has used.
LEMMA SetAllZodiacsInv ==
    ASSUME ClientInv, SetAllZodiacs
    PROVE  ClientInv'
  <1>1. /\ mode = "multi" /\ pc = "run" /\ Returns /\ stopped' = FALSE
        /\ UNCHANGED <<mode, waiting, active, queue, net, store>>
    BY DEF SetAllZodiacs
  <1>2. active = 0 /\ verdict = "none"
    BY <1>1 DEF ClientInv, PhaseInv
  <1>3. CASE Exit("EXIT_FAILURE") /\ UNCHANGED <<conn, counter>>
    <2>1. pc # "exit" /\ stopped' \in BOOLEAN
      BY <1>1
    <2> QED BY <1>1, <1>2, <1>3, <2>1, ExitInv
  <1>4. CASE counter = Cardinality(Star) /\ CreateHumans
    <2>1. conn' = Create(Human) /\ counter' = 0 /\ pc' = "spawn" /\ verdict' = verdict
      BY <1>4 DEF CreateHumans
    <2>2. Human \in SUBSET Conn /\ Star \in SUBSET Conn /\ \A c \in Conn : c \in Star <=> c \notin Human
      BY BoostClientAssumption
    <2>3. /\ conn' \in [Conn -> Object]
          /\ \A c \in Conn : /\ c \in Human => conn'[c] = New(c)
                             /\ c \in Star => conn'[c] = NoObject
      BY <2>1, <2>2, CreateFacts
    <2>4. \A c \in Conn : conn[c].op = "none" /\ conn[c].wait = "none" /\ conn[c].open = FALSE
      BY <1>1, RunReturned
    <2>5. \A c \in Conn : net[c] \in Socket /\ net[c].peer = "none"
      BY <2>4, TypeFacts DEF ClientInv, ObjectInv, Linked
    <2>6. \A c \in Human : net[c] = NoSocket
      BY <1>1 DEF ClientInv, PhaseInv
    <2>7. \A c \in Conn : ObjectInv(c, conn'[c], net'[c])
      BY <1>1, <2>2, <2>3, <2>5, <2>6, FreshInv
    <2>8. \A c \in Conn : InStep(c)'
      <3> SUFFICES ASSUME NEW c \in Conn
                   PROVE  InStep(c)'
        OBVIOUS
      <3>1. conn[c].ec = "none" /\ conn[c].wait = "none"
        BY <2>4 DEF ClientInv, ObjectInv, Sound
      <3>2. ~Over(conn'[c].ec) /\ ~Over(conn'[c].wait)
        BY <2>2, <2>3, <2>5, FreshInv DEF Over
      <3>3. InStep(c) /\ queue' = queue
        BY <1>1 DEF ClientInv
      <3> QED BY <3>1, <3>2, <3>3 DEF InStep, Over
    <2>9. \A c \in Star : conn'[c] = NoObject /\ Finished(c)'
      <3> SUFFICES ASSUME NEW c \in Star
                   PROVE  conn'[c] = NoObject /\ Finished(c)'
        OBVIOUS
      <3>1. Confirmed(c)
        BY <1>1, <1>4, StarsDone DEF Finished
      <3>2. Confirmed(c)'
        BY <1>1, <3>1 DEF Confirmed
      <3>3. conn'[c] = NoObject /\ NoObject.op = "none"
        BY <2>2, <2>3, <2>5, FreshInv
      <3> QED BY <3>2, <3>3 DEF Finished
    <2>10. TypeOK' /\ StoreInv' /\ Distinct(queue')
      BY <1>1, <2>1, <2>3, TypeFacts DEF ClientInv, TypeOK, StoreInv, Handlers
    <2>11. PhaseInv'
      BY <1>1, <1>2, <2>1, <2>9 DEF ClientInv, PhaseInv, Polling
    <2>12. CountInv'
      <3> DEFINE B == Counts'
      <3>1. B \in SUBSET Conn
        BY <2>2 DEF Counts
      <3> HIDE DEF B
      <3>2. Cardinality(B) \in Nat
        BY <3>1, CountFacts
      <3>3. counter' <= Cardinality(B)
        BY <2>1, <3>2
      <3> QED BY <1>2, <2>1, <3>3 DEF CountInv, B
    <2> QED BY <2>7, <2>8, <2>10, <2>11, <2>12 DEF ClientInv
  <1> QED BY <1>3, <1>4 DEF SetAllZodiacs

\* A step of the threads alone.
LEMMA ThreadStep ==
    ASSUME ClientInv, UNCHANGED <<mode, verdict, counter, queue, conn, net, store>>,
           pc' = pc \/ (Polling /\ Polling'), pc' \in {"run", "spawn", "join", "unwind", "exit"},
           stopped' \in BOOLEAN, waiting' \in Nat, active' \in Nat,
           waiting' + active' <= Cardinality(Human), pc' # "join" => active' = 0,
           pc' = "run" => ~stopped'
    PROVE  ClientInv'
  <1>1. Polling' = Polling
    BY DEF Polling
  <1>2. \A d \in Conn : Finished(d)' = Finished(d)
    BY DEF Finished, Confirmed
  <1>3. Counts' = Counts
    BY <1>1, <1>2, BoostClientAssumption DEF Counts
  <1>4. CountInv'
    BY <1>2, <1>3 DEF ClientInv, CountInv
  <1>5. waiting' \in 0 .. Cardinality(Human) /\ active' \in 0 .. Cardinality(Human)
    BY NumberFacts
  <1>6. TypeOK' /\ StoreInv' /\ Distinct(queue')
    BY <1>5, TypeFacts DEF ClientInv, TypeOK, StoreInv, Handlers
  <1>7. \A d \in Conn : InStep(d)' /\ ObjectInv(d, conn'[d], net'[d])
    BY DEF ClientInv, InStep
  <1>8. PhaseInv'
    <2>1. Polling' => \A c \in Star : conn'[c] = NoObject /\ Finished(c)'
      BY <1>1, <1>2, BoostClientAssumption DEF ClientInv, PhaseInv
    <2> QED BY <1>1, <2>1 DEF ClientInv, PhaseInv, Polling
  <1> QED BY <1>4, <1>6, <1>7, <1>8 DEF ClientInv

LEMMA ThreadFacts ==
    ASSUME ClientInv
    PROVE  /\ waiting \in Nat /\ active \in Nat /\ Cardinality(Human) \in Nat
           /\ waiting + active <= Cardinality(Human) /\ (pc # "join" => active = 0)
           /\ stopped \in BOOLEAN
  BY TypeFacts, NumberFacts DEF ClientInv, PhaseInv

LEMMA SpawnThreadInv ==
    ASSUME ClientInv, SpawnThread
    PROVE  ClientInv'
  <1>1. /\ pc = "spawn" /\ waiting < Cardinality(Human)
        /\ \/ waiting' = waiting + 1 /\ pc' = pc
           \/ waiting' = waiting /\ pc' = "unwind"
        /\ UNCHANGED <<mode, verdict, counter, stopped, active, queue, conn, net, store>>
    BY DEF SpawnThread
  <1>2. waiting' \in Nat /\ active' \in Nat /\ waiting' + active' <= Cardinality(Human) /\ active' = 0
    BY <1>1, ThreadFacts
  <1>3. /\ (pc' = pc \/ (Polling /\ Polling')) /\ pc' \in {"run", "spawn", "join", "unwind", "exit"}
        /\ pc' # "run" /\ stopped' \in BOOLEAN
    BY <1>1, ThreadFacts DEF Polling
  <1> QED BY <1>1, <1>2, <1>3, ThreadStep

LEMMA SetValueInv ==
    ASSUME ClientInv, SetValue
    PROVE  ClientInv'
  <1>1. /\ pc = "spawn" /\ pc' = "join"
        /\ UNCHANGED <<mode, verdict, counter, stopped, waiting, active, queue, conn, net, store>>
    BY DEF SetValue
  <1>2. waiting' \in Nat /\ active' \in Nat /\ waiting' + active' <= Cardinality(Human)
    BY <1>1, ThreadFacts
  <1>3. /\ (pc' = pc \/ (Polling /\ Polling')) /\ pc' \in {"run", "spawn", "join", "unwind", "exit"}
        /\ pc' = "join" /\ stopped' \in BOOLEAN
    BY <1>1, ThreadFacts DEF Polling
  <1> QED BY <1>1, <1>2, <1>3, ThreadStep

LEMMA ThreadRunsInv ==
    ASSUME ClientInv, ThreadRuns
    PROVE  ClientInv'
  <1>1. /\ waiting > 0 /\ pc = "join" /\ waiting' = waiting - 1 /\ active' = active + 1
        /\ UNCHANGED <<mode, pc, verdict, counter, stopped, queue, conn, net, store>>
    BY DEF ThreadRuns
  <1>2. waiting' \in Nat /\ active' \in Nat /\ waiting' + active' <= Cardinality(Human)
    BY <1>1, ThreadFacts
  <1>3. pc' = "join" /\ stopped' \in BOOLEAN
    BY <1>1, ThreadFacts
  <1> QED BY <1>1, <1>2, <1>3, ThreadStep

LEMMA ThreadReturnsInv ==
    ASSUME ClientInv, ThreadReturns
    PROVE  ClientInv'
  <1>1. /\ active > 0 /\ active' = active - 1 /\ stopped' = TRUE
        /\ UNCHANGED <<mode, pc, verdict, counter, waiting, queue, conn, net, store>>
    BY DEF ThreadReturns
  <1>2. waiting' \in Nat /\ active' \in Nat /\ waiting' + active' <= Cardinality(Human)
    BY <1>1, ThreadFacts
  <1>3. pc' = "join" /\ stopped' \in BOOLEAN
    BY <1>1, ThreadFacts
  <1> QED BY <1>1, <1>2, <1>3, ThreadStep

\* When humanCounter has counted every human, each had the prognosis of its sign.
LEMMA JoinThreadsInv ==
    ASSUME ClientInv, JoinThreads
    PROVE  ClientInv'
  <1>1. /\ pc \in {"join", "unwind"} /\ waiting + active = 0
        /\ UNCHANGED <<mode, counter, stopped, waiting, active, queue, conn, net, store>>
    BY DEF JoinThreads
  <1>2. pc # "exit" /\ active = 0 /\ stopped' \in BOOLEAN
    BY <1>1, ThreadFacts
  <1>3. CASE Exit("EXIT_FAILURE")
    BY <1>1, <1>2, <1>3, ExitInv
  <1>4. CASE Exit("EXIT_SUCCESS") /\ counter = Cardinality(Human)
    <2>1. Counts \in SUBSET Human /\ Human \in SUBSET Conn
      BY <1>1, BoostClientAssumption DEF Counts, Polling
    <2>2. counter \in Nat /\ counter <= Cardinality(Counts)
      BY TypeFacts DEF ClientInv, CountInv
    <2>3. Counts = Human
      BY <1>4, <2>1, <2>2, AllCounted
    <2>4. \A c \in Human : Finished(c)
      BY <2>3 DEF Counts
    <2>5. \A c \in Star : Finished(c)
      BY <1>1 DEF ClientInv, PhaseInv, Polling
    <2>6. \A c \in Conn : Finished(c)
      BY <2>4, <2>5, BoostClientAssumption
    <2> QED BY <1>1, <1>2, <1>4, <2>6, ExitInv
  <1> QED BY <1>3, <1>4 DEF JoinThreads, Verdict

-----------------------------------------------------------------------------
LEMMA InitInv ==
    ASSUME Init
    PROVE  ClientInv
  <1> DEFINE u == UNKNOWN_PROGNOSIS
             e == NoSocket
  <1>1. u \in Lines /\ u \in Seq(Word)
    <2>1. u \in Lines
      BY DEF Lines
    <2> QED BY <2>1, LinesFacts
  <1>2. e \in Socket /\ e = NoSocket /\ e.peer = "none"
    BY NothingFacts
  <1>3. /\ mode \in Modes /\ pc = "run" /\ verdict = "none" /\ counter = 0
        /\ stopped = FALSE /\ waiting = 0 /\ active = 0 /\ queue = <<>>
        /\ net = [c \in Conn |-> e] /\ store = [z \in Zodiac |-> u]
    BY DEF Init
  <1> HIDE DEF u, e
  <1>4. PICK objects \in SUBSET Conn : conn = Create(objects) /\ (mode = "multi" => objects = Star)
    BY BoostClientAssumption DEF Init
  <1>5. /\ conn \in [Conn -> Object]
        /\ \A c \in Conn : conn[c] = New(c) \/ conn[c] = NoObject
        /\ mode = "multi" => \A c \in Human : conn[c] = NoObject
    BY <1>4, CreateFacts, BoostClientAssumption
  <1>6. net \in [Conn -> Socket] /\ \A c \in Conn : net[c] = NoSocket
    BY <1>2, <1>3
  <1>7. queue \in Seq(Handlers) /\ Len(queue) = 0
    BY <1>3
  <1>8. Distinct(queue)
    BY <1>7 DEF Distinct
  <1>9. \A c \in Conn : InStep(c) /\ ObjectInv(c, conn[c], net[c])
    <2> SUFFICES ASSUME NEW c \in Conn
                 PROVE  InStep(c) /\ ObjectInv(c, conn[c], net[c])
      OBVIOUS
    <2>1. NoSocket \in Socket /\ NoSocket.peer = "none"
      BY NothingFacts
    <2>2. /\ ObjectInv(c, conn[c], net[c])
          /\ conn[c].ec \in {"none", "pending"} /\ conn[c].wait = "none"
      BY <1>5, <1>6, <2>1, FreshInv
    <2>3. \A h : ~Holds(queue, h)
      BY <1>7 DEF Holds
    <2> QED BY <2>2, <2>3 DEF InStep, Over
  <1>10. PhaseInv
    BY <1>3, <1>5, <1>6, NumberFacts, BoostClientAssumption DEF PhaseInv, Polling
  <1>11. CountInv
    <2>1. Counts \in SUBSET Conn
      BY BoostClientAssumption DEF Counts
    <2>2. Cardinality(Counts) \in Nat
      BY <2>1, CountFacts
    <2> QED BY <1>3, <2>2 DEF CountInv
  <1>12. StoreInv /\ store \in [Zodiac -> Seq(Word)]
    BY <1>1, <1>3 DEF StoreInv
  <1>13. TypeOK
    <2>1. waiting \in 0 .. Cardinality(Human) /\ active \in 0 .. Cardinality(Human) /\ counter \in Nat
      BY <1>3, NumberFacts
    <2>2. queue \in Seq({"io", "deadline"} \X Conn)
      BY <1>7 DEF Handlers
    <2>3. /\ mode \in Modes /\ pc \in {"run", "spawn", "join", "unwind", "exit"}
          /\ verdict \in {"none", "EXIT_SUCCESS", "EXIT_FAILURE"} /\ stopped \in BOOLEAN
      BY <1>3
    <2> QED BY <1>5, <1>6, <1>12, <2>1, <2>2, <2>3 DEF TypeOK
  <1> QED BY <1>8, <1>9, <1>10, <1>11, <1>12, <1>13 DEF ClientInv

LEMMA NextInv ==
    ASSUME ClientInv, [Next]_vars
    PROVE  ClientInv'
  <1>1. CASE Main
    BY <1>1, RunOneObjectInv, SetAllZodiacsInv, SpawnThreadInv, SetValueInv, JoinThreadsInv DEF Main
  <1>2. CASE ThreadRuns
    BY <1>2, ThreadRunsInv
  <1>3. CASE ThreadReturns
    BY <1>3, ThreadReturnsInv
  <1>4. CASE Tick
    BY <1>4, TickInv
  <1>5. ASSUME NEW c \in Conn, RunHandler(c)
        PROVE  ClientInv'
    BY <1>5, RunHandlerInv
  <1>6. ASSUME NEW c \in Conn, Reactor(c)
        PROVE  ClientInv'
    BY <1>6, AsyncConnectInv, AsyncWriteInv, AsyncReadInv, TimerInv DEF Reactor
  <1>7. ASSUME NEW c \in Conn, Answer(c) \/ Deny(c) \/ ServerDrops(c)
        PROVE  ClientInv'
    BY <1>7, AnswerInv, DenyInv, ServerDropsInv
  <1>8. ASSUME NEW z \in Zodiac, Rival(z)
        PROVE  ClientInv'
    BY <1>8, RivalInv
  <1>9. CASE Ended \/ UNCHANGED vars
    <2>1. UNCHANGED <<mode, pc, verdict, counter, stopped, waiting, active, queue, conn, net, store>>
      BY <1>9 DEF Ended, vars
    <2>2. \A d \in Conn : Finished(d)' = Finished(d)
      BY <2>1 DEF Finished, Confirmed
    <2>3. Counts' = Counts /\ Polling' = Polling
      BY <2>1, <2>2, BoostClientAssumption DEF Counts, Polling
    <2>4. TypeOK' /\ StoreInv' /\ Distinct(queue')
      BY <2>1 DEF ClientInv, TypeOK, StoreInv
    <2>5. \A d \in Conn : InStep(d)' /\ ObjectInv(d, conn'[d], net'[d])
      BY <2>1 DEF ClientInv, InStep
    <2>6. PhaseInv' /\ CountInv'
      BY <2>1, <2>2, <2>3, BoostClientAssumption DEF ClientInv, PhaseInv, CountInv
    <2> QED BY <2>4, <2>5, <2>6 DEF ClientInv
  <1> QED BY <1>1, <1>2, <1>3, <1>4, <1>5, <1>6, <1>7, <1>8, <1>9 DEF Next

\* The inductive invariant: every object in each state of its conversation, the
\* strands' handlers, the phases of the main thread and the counts.
THEOREM ClientInvariant == Spec => []ClientInv
  <1>1. Init => ClientInv
    BY InitInv
  <1>2. ClientInv /\ [Next]_vars => ClientInv'
    BY NextInv
  <1> QED BY <1>1, <1>2, PTL DEF Spec

\* Every variable has its type: in particular there are never more threads than
\* ParallelRun was told to create.
THEOREM TypeCorrect == Spec => []TypeOK
  <1>1. ClientInv => TypeOK
    BY DEF ClientInv
  <1> QED BY <1>1, ClientInvariant, PTL

\* No handler is called for a Star or a Human that was destroyed: while some
\* thread runs handlers, whatever is outstanding belongs to an object of the
\* phase that the program is in.
THEOREM HandlersFindTheirObject == Spec => []NoDangling
  <1>1. ASSUME ClientInv
        PROVE  NoDangling
    <2> SUFFICES ASSUME NEW c \in Conn, Running, Outstanding(c)
                 PROVE  Alive(c)
      BY DEF NoDangling
    <2>1. conn[c] # NoObject
      BY NothingFacts DEF Outstanding, LooksLike
    <2>2. active \in Nat /\ (pc # "join" => active = 0)
      BY <1>1, ThreadFacts
    <2>3. pc \in {"run", "join"}
      BY <2>2 DEF Running
    <2>4. /\ mode # "multi" => pc = "run"
          /\ mode = "multi" /\ pc = "run" => c \in Star
          /\ mode = "multi" /\ pc = "join" => c \in Human
      BY <1>1, <2>1, <2>3, BoostClientAssumption DEF ClientInv, PhaseInv, Polling
    <2>5. c \in Star <=> c \notin Human
      BY WhoFacts
    <2>6. CASE mode # "multi"
      BY <2>4, <2>6 DEF Alive
    <2>7. CASE mode = "multi" /\ c \in Star
      BY <2>3, <2>4, <2>5, <2>7 DEF Alive
    <2>8. CASE mode = "multi" /\ c \in Human
      BY <2>3, <2>4, <2>5, <2>8 DEF Alive
    <2> QED BY <2>5, <2>6, <2>7, <2>8
  <1> QED BY <1>1, ClientInvariant, PTL

\* The callbacks count no object twice and none for a wrong reply, and "multi"
\* reports success only when the server thanked every star and told each human
\* the prognosis that was set for its sign.
THEOREM SuccessIsEarned == Spec => []VerdictIsTrue
  <1>1. ASSUME ClientInv
        PROVE  VerdictIsTrue
    <2> DEFINE objects == IF pc \in {"spawn", "join", "unwind"} THEN Human ELSE Conn
               A == Counts
               B == {c \in objects : Confirmed(c)}
    <2>1. counter \in Nat /\ counter <= Cardinality(A)
      BY <1>1, TypeFacts DEF ClientInv, CountInv
    <2>2. A \in SUBSET B /\ B \in SUBSET Conn
      BY BoostClientAssumption DEF Counts, Polling, Finished
    <2>3. (mode = "multi" /\ verdict = "EXIT_SUCCESS") => \A c \in Conn : Confirmed(c)
      BY <1>1 DEF ClientInv, CountInv, Finished
    <2> HIDE DEF A, B
    <2>4. Cardinality(A) \in Nat /\ Cardinality(B) \in Nat /\ Cardinality(A) <= Cardinality(B)
      BY <2>2, CountFacts
    <2>5. counter <= Cardinality(B)
      BY <2>1, <2>4
    <2> QED BY <2>3, <2>5 DEF VerdictIsTrue, B
  <1> QED BY <1>1, ClientInvariant, PTL

=============================================================================
