--------------------------- MODULE UnixProxyProofs ---------------------------
(***************************************************************************)
(* The proxy's access control holds for every number of children and       *)
(* clients, every buffer length, every set of streams and every failure.   *)
(***************************************************************************)
EXTENDS UnixProxy, SequenceTheorems, FunctionTheorems, FiniteSetTheorems, TLAPS

\* What a child's state says about its buffer: while the request is received
\* it has no delimiter yet, and what is about to be sent to the server is one
\* whole line of the permitted type.
Screened(s) ==
    /\ s.state = "RECV_REQUEST" => \A i \in 1 .. Len(s.buf) : s.buf[i] # DELIMITER
    /\ s.state = "SEND_REQUEST" =>
          IsLine(s.buf, Len(s.buf)) /\ s.buf[1] = CLIENT_REQUEST_TYPE

\* The inductive invariant.
ProxyInv ==
    /\ TypeOK
    /\ \A k \in Child : Screened(child[k])
    /\ AccessControl

\* A struct that a child may have, and a stream that the server may be sent.
GoodChild(s) ==
    /\ s \in ProxyState
    /\ s.con = NONE <=> s.state \in {"NEW", "ACCEPT", "DEAD"}
    /\ Len(s.buf) <= ASTROLOG_BUF_LEN
    /\ Screened(s)

GoodStream(s) ==
    /\ s \in Seq(Word)
    /\ s = <<>> \/ s[Len(s)] = DELIMITER
    /\ \A i \in 1 .. Len(s) : StartsLine(s, i) => s[i] = CLIENT_REQUEST_TYPE

-----------------------------------------------------------------------------
\* The part of the assumption that arithmetic on buffers needs.
LEMMA BufferLength == ASTROLOG_BUF_LEN \in Nat /\ ASTROLOG_BUF_LEN > 2
  BY ProxyAssumption

\* Cutting a stream keeps its words and its length.
LEMMA CutFacts ==
    ASSUME NEW s \in Seq(Word), NEW n \in 0 .. Len(s)
    PROVE  /\ First(s, n) \in Seq(Word) /\ Len(First(s, n)) = n
           /\ \A i \in 1 .. n : First(s, n)[i] = s[i]
           /\ After(s, n) \in Seq(Word) /\ Len(After(s, n)) = Len(s) - n
           /\ \A i \in 1 .. Len(s) - n : After(s, n)[i] = s[n + i]
  <1>1. Len(s) \in Nat /\ \A i \in 1 .. Len(s) : s[i] \in Word
    BY ElementOfSeq, LenProperties
  <1>2. /\ SubSeq(s, 1, n) \in Seq(Word) /\ Len(SubSeq(s, 1, n)) = IF 1 <= n THEN n - 1 + 1 ELSE 0
        /\ \A i \in 1 .. n - 1 + 1 : SubSeq(s, 1, n)[i] = s[1 + i - 1]
    <2>1. \A i \in 1 .. n : s[i] \in Word
      BY <1>1
    <2> QED BY <1>1, <2>1, SubSeqProperties
  <1>3. /\ SubSeq(s, n + 1, Len(s)) \in Seq(Word)
        /\ Len(SubSeq(s, n + 1, Len(s))) =
              IF n + 1 <= Len(s) THEN Len(s) - (n + 1) + 1 ELSE 0
        /\ \A i \in 1 .. Len(s) - (n + 1) + 1 : SubSeq(s, n + 1, Len(s))[i] = s[n + 1 + i - 1]
    <2>1. \A i \in n + 1 .. Len(s) : s[i] \in Word
      BY <1>1
    <2> QED BY <1>1, <2>1, SubSeqProperties
  <1>4. /\ First(s, n) \in Seq(Word) /\ Len(First(s, n)) = n
        /\ \A i \in 1 .. n : First(s, n)[i] = s[i]
    BY <1>1, <1>2 DEF First
  <1>5. /\ After(s, n) \in Seq(Word) /\ Len(After(s, n)) = Len(s) - n
        /\ \A i \in 1 .. Len(s) - n : After(s, n)[i] = s[n + i]
    BY <1>1, <1>3 DEF After
  <1> QED BY <1>4, <1>5

\* Sending one whole line of the permitted type keeps the stream good.
LEMMA SendLine ==
    ASSUME NEW s, GoodStream(s), NEW t \in Seq(Word),
           IsLine(t, Len(t)), t[1] = CLIENT_REQUEST_TYPE
    PROVE  GoodStream(s \o t)
  <1>1. /\ s \o t \in Seq(Word)
        /\ Len(s \o t) = Len(s) + Len(t)
        /\ \A i \in 1 .. Len(s) + Len(t) :
              (s \o t)[i] = IF i <= Len(s) THEN s[i] ELSE t[i - Len(s)]
    BY ConcatProperties, Zenon DEF GoodStream
  <1>2. Len(s) \in Nat /\ Len(t) \in Nat /\ Len(t) >= 1 /\ s \in Seq(Word)
    BY LenProperties DEF GoodStream, IsLine
  <1>3. t[Len(t)] = DELIMITER /\ \A i \in 1 .. Len(t) - 1 : t[i] # DELIMITER
    BY DEF IsLine
  <1> DEFINE u == s \o t
  <1>4. u[Len(u)] = DELIMITER
    BY <1>1, <1>2, <1>3
  <1>5. ASSUME NEW i \in 1 .. Len(u), StartsLine(u, i)
        PROVE  u[i] = CLIENT_REQUEST_TYPE
    <2> HIDE DEF u
    <2>0. Len(u) = Len(s) + Len(t) /\ \A j \in 1 .. Len(s) + Len(t) :
              u[j] = IF j <= Len(s) THEN s[j] ELSE t[j - Len(s)]
      BY <1>1 DEF u
    <2>1. CASE i <= Len(s)
      <3>1. StartsLine(s, i) /\ i \in 1 .. Len(s)
        BY <1>2, <1>5, <2>0, <2>1 DEF StartsLine
      <3> QED BY <1>2, <2>0, <2>1, <3>1 DEF GoodStream
    <2>2. CASE i > Len(s)
      <3>1. CASE i = Len(s) + 1
        BY <1>2, <2>0, <3>1
      <3>2. CASE i > Len(s) + 1
        <4>0. i - 1 \in 1 .. Len(s) + Len(t) /\ i - 1 - Len(s) \in 1 .. Len(t) - 1
          BY <1>2, <2>0, <3>2
        <4>1. u[i - 1] = t[i - 1 - Len(s)] /\ i - 1 - Len(s) \in 1 .. Len(t) - 1
          BY <1>2, <2>0, <3>2, <4>0
        <4> QED BY <1>2, <1>3, <1>5, <3>2, <4>1 DEF StartsLine
      <3> QED BY <1>2, <2>2, <3>1, <3>2
    <2> QED BY <1>2, <2>0, <2>1, <2>2
  <1> QED BY <1>1, <1>4, <1>5 DEF GoodStream

\* What is left when the server took a line off a good stream is good.
LEMMA TakeLine ==
    ASSUME NEW s, GoodStream(s), NEW n, IsLine(s, n)
    PROVE  GoodStream(After(s, n))
  <1>1. s \in Seq(Word) /\ Len(s) \in Nat /\ n \in 1 .. Len(s) /\ s[n] = DELIMITER
    BY LenProperties DEF GoodStream, IsLine
  <1> DEFINE u == After(s, n)
  <1>2. u \in Seq(Word) /\ Len(u) = Len(s) - n /\ \A i \in 1 .. Len(u) : u[i] = s[n + i]
    <2>1. n \in 0 .. Len(s)
      BY <1>1
    <2> QED BY <1>1, <2>1, CutFacts, Zenon
  <1> HIDE DEF u
  <1>3. u = <<>> \/ u[Len(u)] = DELIMITER
    <2>1. CASE Len(u) = 0
      BY <1>2, <2>1, EmptySeq
    <2>2. CASE Len(u) > 0
      BY <1>1, <1>2, <2>2, EmptySeq DEF GoodStream
    <2> QED BY <1>1, <1>2, <2>1, <2>2
  <1>4. ASSUME NEW i \in 1 .. Len(u), StartsLine(u, i)
        PROVE  u[i] = CLIENT_REQUEST_TYPE
    <2>1. n + i \in 1 .. Len(s)
      BY <1>1, <1>2
    <2>2. StartsLine(s, n + i)
      <3>1. CASE i = 1
        BY <1>1, <3>1 DEF StartsLine
      <3>2. CASE i > 1
        <4>0. i - 1 \in 1 .. Len(u) /\ n + (i - 1) = (n + i) - 1 /\ i # 1
          BY <1>1, <1>2, <3>2
        <4>1. u[i - 1] = s[(n + i) - 1] /\ u[i - 1] = DELIMITER
          BY <1>2, <1>4, <4>0, Zenon DEF StartsLine
        <4> QED BY <4>1, Zenon DEF StartsLine
      <3> QED BY <1>1, <1>2, <3>1, <3>2
    <2> QED BY <1>2, <2>1, <2>2 DEF GoodStream
  <1> QED BY <1>2, <1>3, <1>4 DEF GoodStream, u

-----------------------------------------------------------------------------
\* What the server was sent is a good stream.
LEMMA StreamFacts == ProxyInv => GoodStream(up)
  BY DEF ProxyInv, TypeOK, AccessControl, GoodStream

\* Every child has a good struct.
LEMMA ChildFacts == ProxyInv => \A k \in Child : GoodChild(child[k])
  BY DEF ProxyInv, TypeOK, GoodChild, In

\* The invariant after a step of child k, from what the step leaves behind.
LEMMA BecomeInv ==
    ASSUME ProxyInv, NEW k \in Child, NEW s, GoodChild(s), Become(k, s),
           parent' \in {"fork", "wait", "kill", "exit"}, GoodStream(up'), down' \in Seq(Word),
           link' \in {"open", "hung", "fin", "rst"}, net' \in [Client -> Socket], backlog' \in Seq(Client)
    PROVE  ProxyInv'
  <1>1. /\ child' = [child EXCEPT ![k] = s] /\ child \in [Child -> ProxyState]
        /\ \A j \in Child : GoodChild(child[j])
    BY ChildFacts DEF Become, ProxyInv, TypeOK
  <1>2. \A j \in Child : GoodChild(child'[j])
    BY <1>1
  <1>3. child' \in [Child -> ProxyState]
    BY <1>1 DEF GoodChild
  <1>4. /\ \A j \in Child : child'[j].con = NONE <=> child'[j].state \in {"NEW", "ACCEPT", "DEAD"}
        /\ \A j \in Child : Len(child'[j].buf) <= ASTROLOG_BUF_LEN
        /\ \A j \in Child : Screened(child'[j])
    BY <1>2 DEF GoodChild
  <1>5. TypeOK'
    BY <1>3, <1>4 DEF TypeOK, In, GoodStream
  <1>6. AccessControl'
    BY DEF AccessControl, GoodStream, StartsLine
  <1> QED BY <1>4, <1>5, <1>6 DEF ProxyInv, Screened

\* A reset struct is good in the states that hold no line.
LEMMA GotoFacts ==
    ASSUME NEW s, GoodChild(s), s.con # NONE,
           NEW q \in {"SEND_DENIED", "RECV_REPLY", "SEND_REPLY",
                      "CLIENT_ERROR", "ASTROLOG_ERROR", "SUCCESS"}
    PROVE  GoodChild([s EXCEPT !.state = q])
  <1> DEFINE t == [s EXCEPT !.state = q]
  <1>1. /\ t \in ProxyState /\ t.state = q /\ t.con = s.con /\ t.buf = s.buf
    BY DEF GoodChild, ProxyState
  <1> HIDE DEF t
  <1>2. GoodChild(t)
    BY <1>1 DEF GoodChild, Screened
  <1> QED BY <1>2 DEF t

\* The empty buffer.
LEMMA EmptyFacts == <<>> \in Seq(Word) /\ Len(<<>>) = 0 /\ Len(<<>>) <= ASTROLOG_BUF_LEN
  BY EmptySeq, BufferLength

\* The structs of a child that ended, that accepts, and that has just accepted.
LEMMA DeadFacts ==
    /\ GoodChild([state |-> "DEAD", con |-> NONE, buf |-> <<>>])
    /\ GoodChild([state |-> "ACCEPT", con |-> NONE, buf |-> <<>>])
    /\ \A c \in Client : GoodChild([state |-> "RECV_REQUEST", con |-> c, buf |-> <<>>])
  <1> DEFINE e == <<>>
  <1>1. e \in Seq(Word) /\ Len(e) = 0 /\ Len(e) <= ASTROLOG_BUF_LEN
    BY EmptyFacts
  <1> HIDE DEF e
  <1>2. ASSUME NEW q \in {"DEAD", "ACCEPT"}
        PROVE  GoodChild([state |-> q, con |-> NONE, buf |-> e])
    BY <1>1 DEF GoodChild, Screened, ProxyState
  <1>3. ASSUME NEW c \in Client
        PROVE  GoodChild([state |-> "RECV_REQUEST", con |-> c, buf |-> e])
    BY <1>1, ProxyAssumption DEF GoodChild, Screened, ProxyState
  <1> QED BY <1>2, <1>3 DEF e

\* A connection that is not there.
LEMMA NoSocketFacts == NoSocket \in Socket
  <1> DEFINE e == <<>>
  <1>1. e \in Seq(Word)
    BY EmptyFacts
  <1> HIDE DEF e
  <1>2. [said |-> e, inq |-> e, got |-> e, peer |-> "none"] \in Socket
    BY <1>1 DEF Socket
  <1> QED BY <1>2 DEF NoSocket, e

\* The process of a child ends, and the rest is as it was.
LEMMA DieInv ==
    ASSUME ProxyInv, NEW k \in Child, Die(k), UNCHANGED <<parent, upstream, backlog>>
    PROVE  ProxyInv'
  <1>1. net' \in [Client -> Socket]
    <2>1. net' = [c \in Client |-> IF c = child[k].con THEN NoSocket ELSE net[c]]
      BY DEF Die
    <2>2. net \in [Client -> Socket]
      BY DEF ProxyInv, TypeOK
    <2> QED BY <2>1, <2>2, NoSocketFacts
  <1>2. /\ parent' \in {"fork", "wait", "kill", "exit"} /\ GoodStream(up')
        /\ down' \in Seq(Word) /\ link' \in {"open", "hung", "fin", "rst"}
        /\ backlog' \in Seq(Client)
    BY StreamFacts DEF ProxyInv, TypeOK, upstream
  <1>3. Become(k, [state |-> "DEAD", con |-> NONE, buf |-> <<>>])
    BY DEF Die
  <1> QED BY <1>1, <1>2, <1>3, DeadFacts, BecomeInv

-----------------------------------------------------------------------------
\* A word of a stream of client c, and the rest of the stream.
LEMMA ReadSocket ==
    ASSUME ProxyInv, NEW c \in Client, NEW n \in 0 .. Len(net[c].inq)
    PROVE  [net EXCEPT ![c].inq = After(@, n)] \in [Client -> Socket]
  <1>1. net \in [Client -> Socket] /\ net[c].inq \in Seq(Word)
    BY DEF ProxyInv, TypeOK, Socket
  <1>2. After(net[c].inq, n) \in Seq(Word)
    BY <1>1, CutFacts
  <1>3. \A q \in Seq(Word) : [net EXCEPT ![c].inq = q] \in [Client -> Socket]
    BY <1>1 DEF Socket
  <1> QED BY <1>2, <1>3

\* A buffer grows by one chunk.
LEMMA GrownFacts ==
    ASSUME NEW s, GoodChild(s), NEW chunk \in Seq(Word),
           Len(chunk) <= ASTROLOG_BUF_LEN - Len(s.buf)
    PROVE  /\ s.buf \in Seq(Word) /\ s.buf \o chunk \in Seq(Word)
           /\ Len(s.buf \o chunk) = Len(s.buf) + Len(chunk)
           /\ Len(s.buf \o chunk) <= ASTROLOG_BUF_LEN
           /\ Len(s.buf) \in Nat /\ Len(chunk) \in Nat
           /\ \A i \in 1 .. Len(s.buf) + Len(chunk) :
                 (s.buf \o chunk)[i] = IF i <= Len(s.buf) THEN s.buf[i] ELSE chunk[i - Len(s.buf)]
  <1>1. s.buf \in Seq(Word)
    BY DEF GoodChild, ProxyState
  <1>2. Len(s.buf) \in Nat /\ Len(chunk) \in Nat
    BY <1>1, LenProperties
  <1>3. /\ s.buf \o chunk \in Seq(Word)
        /\ Len(s.buf \o chunk) = Len(s.buf) + Len(chunk)
        /\ \A i \in 1 .. Len(s.buf) + Len(chunk) :
              (s.buf \o chunk)[i] = IF i <= Len(s.buf) THEN s.buf[i] ELSE chunk[i - Len(s.buf)]
    BY <1>1, ConcatProperties, Zenon
  <1>4. \A x, y \in Nat : y <= ASTROLOG_BUF_LEN - x => x + y <= ASTROLOG_BUF_LEN
    BY BufferLength
  <1> QED BY <1>1, <1>2, <1>3, <1>4, Zenon

\* A request whose delimiter has come is one line.
LEMMA WholeLine ==
    ASSUME NEW s, GoodChild(s), s.state = "RECV_REQUEST", NEW chunk \in Seq(Word),
           Len(chunk) <= ASTROLOG_BUF_LEN - Len(s.buf), IsLine(chunk, Len(chunk))
    PROVE  IsLine(s.buf \o chunk, Len(s.buf \o chunk))
  <1> DEFINE b == s.buf
             u == s.buf \o chunk
  <1>1. /\ Len(u) = Len(b) + Len(chunk) /\ Len(b) \in Nat /\ Len(chunk) \in Nat
        /\ \A i \in 1 .. Len(b) + Len(chunk) :
              u[i] = IF i <= Len(b) THEN b[i] ELSE chunk[i - Len(b)]
    BY GrownFacts
  <1>2. \A i \in 1 .. Len(b) : b[i] # DELIMITER
    BY DEF GoodChild, Screened
  <1>3. /\ 1 <= Len(chunk) /\ chunk[Len(chunk)] = DELIMITER
        /\ \A i \in 1 .. Len(chunk) - 1 : chunk[i] # DELIMITER
    BY <1>1 DEF IsLine
  <1> HIDE DEF b, u
  <1>4. u[Len(u)] = DELIMITER
    BY <1>1, <1>3
  <1>5. ASSUME NEW i \in 1 .. Len(u) - 1 PROVE u[i] # DELIMITER
    <2>1. CASE i <= Len(b)
      BY <1>1, <1>2, <2>1
    <2>2. CASE i > Len(b)
      <3>1. i - Len(b) \in 1 .. Len(chunk) - 1 /\ u[i] = chunk[i - Len(b)]
        BY <1>1, <2>2
      <3> QED BY <1>3, <3>1
    <2> QED BY <1>1, <2>1, <2>2
  <1>6. Len(u) \in 1 .. Len(u)
    BY <1>1, <1>3
  <1>7. IsLine(u, Len(u))
    BY <1>4, <1>5, <1>6 DEF IsLine
  <1> QED BY <1>7 DEF u

\* The proxy's own reply fits in a buffer.
LEMMA DeniedFacts == STAR_REPLY_FAILURE \in Seq(Word) /\ Len(STAR_REPLY_FAILURE) <= ASTROLOG_BUF_LEN
  <1>1. STAR_REPLY_FAILURE[1] \in Word /\ DELIMITER \in Word
    BY DEF Word
  <1>2. "DENIED!" \in Word
    BY <1>1 DEF STAR_REPLY_FAILURE
  <1>3. \A a, b \in Word : <<a, b>> \in Seq(Word) /\ Len(<<a, b>>) = 2
    OBVIOUS
  <1>4. STAR_REPLY_FAILURE \in Seq(Word) /\ Len(STAR_REPLY_FAILURE) = 2
    BY <1>1, <1>2, <1>3 DEF STAR_REPLY_FAILURE
  <1> QED BY <1>4, BufferLength

\* A struct with a new state and buffer is good if the buffer suits the state.
LEMMA ChangedFacts ==
    ASSUME NEW s, GoodChild(s), s.con # NONE, NEW buf \in Seq(Word),
           Len(buf) <= ASTROLOG_BUF_LEN,
           NEW q \in {"RECV_REQUEST", "SEND_DENIED", "SEND_REQUEST", "RECV_REPLY", "SEND_REPLY"},
           q = "RECV_REQUEST" => \A i \in 1 .. Len(buf) : buf[i] # DELIMITER,
           q = "SEND_REQUEST" => IsLine(buf, Len(buf)) /\ buf[1] = CLIENT_REQUEST_TYPE
    PROVE  GoodChild([s EXCEPT !.buf = buf, !.state = q])
  <1> DEFINE t == [s EXCEPT !.buf = buf, !.state = q]
  <1>1. t \in ProxyState /\ t.state = q /\ t.con = s.con /\ t.buf = buf
    BY DEF GoodChild, ProxyState
  <1> HIDE DEF t
  <1>2. GoodChild(t)
    BY <1>1 DEF GoodChild, Screened
  <1> QED BY <1>2 DEF t

\* recv_line leaves a good struct, if what follows a whole line does.
LEMMA CollectedFacts ==
    ASSUME NEW s, GoodChild(s), s.con # NONE, s.state \in {"RECV_REQUEST", "RECV_REPLY"},
           NEW chunk \in Seq(Word), Len(chunk) <= ASTROLOG_BUF_LEN - Len(s.buf),
           NEW failure \in {"CLIENT_ERROR", "ASTROLOG_ERROR"}, NEW done,
           IsLine(chunk, Len(chunk)) =>
               GoodChild([s EXCEPT !.buf = done.buf, !.state = done.state])
    PROVE  GoodChild(Collected(s, chunk, failure, done))
  <1> DEFINE r == recv_line(s.buf, chunk, ASTROLOG_BUF_LEN)
             u == s.buf \o chunk
  <1>1. CASE r = "more"
    <2>1. \A i \in 1 .. Len(chunk) : chunk[i] # DELIMITER
      BY <1>1 DEF recv_line
    <2>2. /\ u \in Seq(Word) /\ Len(u) <= ASTROLOG_BUF_LEN
          /\ Len(u) = Len(s.buf) + Len(chunk) /\ Len(s.buf) \in Nat /\ Len(chunk) \in Nat
          /\ \A i \in 1 .. Len(s.buf) + Len(chunk) :
                u[i] = IF i <= Len(s.buf) THEN s.buf[i] ELSE chunk[i - Len(s.buf)]
      BY GrownFacts
    <2>3. s.state = "RECV_REQUEST" => \A i \in 1 .. Len(u) : u[i] # DELIMITER
      <3> HIDE DEF u
      <3> SUFFICES ASSUME s.state = "RECV_REQUEST", NEW i \in 1 .. Len(u)
                   PROVE  u[i] # DELIMITER
        OBVIOUS
      <3>1. CASE i <= Len(s.buf)
        <4>1. s.buf[i] # DELIMITER
          BY <2>2, <3>1 DEF GoodChild, Screened
        <4> QED BY <2>2, <3>1, <4>1
      <3>2. CASE i > Len(s.buf)
        <4>1. i - Len(s.buf) \in 1 .. Len(chunk) /\ u[i] = chunk[i - Len(s.buf)]
          BY <2>2, <3>2
        <4> QED BY <2>1, <4>1
      <3> QED BY <2>2, <3>1, <3>2
    <2>4. Collected(s, chunk, failure, done) = [s EXCEPT !.buf = u]
      BY <1>1 DEF Collected
    <2> DEFINE t == [s EXCEPT !.buf = u]
    <2> HIDE DEF u
    <2>5. t \in ProxyState /\ t.state = s.state /\ t.con = s.con /\ t.buf = u
      BY <2>2 DEF GoodChild, ProxyState
    <2> HIDE DEF t
    <2>6. GoodChild(t)
      BY <2>2, <2>3, <2>5 DEF GoodChild, Screened
    <2> QED BY <2>4, <2>6 DEF t
  <1>2. CASE r = "error"
    <2>1. Collected(s, chunk, failure, done) = [s EXCEPT !.state = failure]
      BY <1>2 DEF Collected
    <2>2. GoodChild([s EXCEPT !.state = failure])
      BY GotoFacts
    <2> QED BY <2>1, <2>2, Zenon
  <1>3. CASE r = "line"
    <2>1. IsLine(chunk, Len(chunk))
      BY <1>3 DEF recv_line
    <2>2. Collected(s, chunk, failure, done) = [s EXCEPT !.buf = done.buf, !.state = done.state]
      BY <1>3 DEF Collected
    <2> QED BY <2>1, <2>2
  <1>4. r \in {"more", "error", "line"}
    BY DEF recv_line
  <1> QED BY <1>1, <1>2, <1>3, <1>4

-----------------------------------------------------------------------------
\* What the invariant says about the variables that a child's step leaves alone.
LEMMA RestFacts ==
    ASSUME ProxyInv
    PROVE  /\ parent \in {"fork", "wait", "kill", "exit"} /\ GoodStream(up)
           /\ down \in Seq(Word) /\ link \in {"open", "hung", "fin", "rst"}
           /\ net \in [Client -> Socket] /\ backlog \in Seq(Client)
  BY StreamFacts DEF ProxyInv, TypeOK

\* A child in the loop of process_new_connection holds a client.
LEMMA HoldsClient ==
    ASSUME ProxyInv, NEW k \in Child, ~In(k, {"NEW", "ACCEPT", "DEAD"})
    PROVE  /\ GoodChild(child[k]) /\ child[k].con # NONE /\ child[k].con \in Client
           /\ net[child[k].con] \in Socket
  <1>1. GoodChild(child[k]) /\ child[k].con # NONE
    BY ChildFacts DEF GoodChild, In
  <1>2. child[k].con \in Client
    BY <1>1 DEF GoodChild, ProxyState
  <1> QED BY <1>1, <1>2, RestFacts

\* accept takes a client off the queue or ends the process.
LEMMA AcceptInv ==
    ASSUME ProxyInv, NEW k \in Child, accept(k)
    PROVE  ProxyInv'
  <1>1. CASE Die(k) /\ UNCHANGED backlog
    BY <1>1, DieInv DEF accept
  <1>2. CASE /\ backlog # <<>>
             /\ backlog' = Tail(backlog)
             /\ Become(k, [state |-> "RECV_REQUEST", con |-> Head(backlog), buf |-> <<>>])
             /\ UNCHANGED net
    <2>1. Head(backlog) \in Client /\ backlog' \in Seq(Client)
      BY <1>2, RestFacts, HeadTailProperties
    <2>2. GoodChild([state |-> "RECV_REQUEST", con |-> Head(backlog), buf |-> <<>>])
      BY <2>1, DeadFacts
    <2>3. UNCHANGED <<parent, up, down, link, net>>
      BY <1>2 DEF accept, upstream
    <2> QED BY <1>2, <2>1, <2>2, <2>3, RestFacts, BecomeInv
  <1> QED BY <1>1, <1>2 DEF accept

\* After a connection the child accepts the next or ends.
LEMMA DisconnectInv ==
    ASSUME ProxyInv, NEW k \in Child, Disconnect(k)
    PROVE  ProxyInv'
  <1>1. CASE Die(k)
    BY <1>1, DieInv DEF Disconnect
  <1>2. CASE /\ In(k, {"CLIENT_ERROR", "SUCCESS"})
             /\ Become(k, [state |-> "ACCEPT", con |-> NONE, buf |-> <<>>])
             /\ net' = [net EXCEPT ![child[k].con] = NoSocket]
    <2>1. net' \in [Client -> Socket]
      BY <1>2, RestFacts, NoSocketFacts
    <2>2. UNCHANGED <<parent, up, down, link, backlog>>
      BY DEF Disconnect, upstream
    <2> QED BY <1>2, <2>1, <2>2, DeadFacts, RestFacts, BecomeInv
  <1> QED BY <1>1, <1>2 DEF Disconnect

\* A chunk of at most the room that is left.
LEMMA ChunkFacts ==
    ASSUME NEW q \in Seq(Word), NEW s, GoodChild(s),
           NEW n \in 1 .. MIN(Len(q), ASTROLOG_BUF_LEN - Len(s.buf))
    PROVE  /\ n \in 0 .. Len(q)
           /\ First(q, n) \in Seq(Word) /\ After(q, n) \in Seq(Word)
           /\ Len(First(q, n)) <= ASTROLOG_BUF_LEN - Len(s.buf)
  <1>1. Len(q) \in Nat /\ Len(s.buf) \in Nat
    BY LenProperties DEF GoodChild, ProxyState
  <1>2. n \in 0 .. Len(q) /\ n <= ASTROLOG_BUF_LEN - Len(s.buf)
    BY <1>1, BufferLength DEF MIN
  <1> QED BY <1>2, CutFacts

\* handle_recv_request: nothing but whole ordinary requests become SEND_REQUEST.
LEMMA RecvRequestInv ==
    ASSUME ProxyInv, NEW k \in Child, handle_recv_request(k)
    PROVE  ProxyInv'
  <1> DEFINE s == child[k]
             c == s.con
  <1>1. /\ s.state = "RECV_REQUEST" /\ GoodChild(s) /\ c # NONE /\ c \in Client
        /\ net[c].inq \in Seq(Word)
    BY HoldsClient DEF handle_recv_request, In, Socket
  <1>2. UNCHANGED <<parent, up, down, link, backlog>>
    BY DEF handle_recv_request, upstream
  <1>3. ASSUME NEW n \in 1 .. MIN(Len(net[c].inq), ASTROLOG_BUF_LEN - Len(s.buf)),
               NEW chunk, chunk = First(net[c].inq, n),
               net' = [net EXCEPT ![c].inq = After(@, n)],
               Become(k, Collected(s, chunk, "CLIENT_ERROR", Filtered(s.buf \o chunk)))
        PROVE  ProxyInv'
    <2> DEFINE line == s.buf \o chunk
    <2> HIDE DEF s
    <2>1. /\ chunk \in Seq(Word) /\ Len(chunk) <= ASTROLOG_BUF_LEN - Len(s.buf)
          /\ n \in 0 .. Len(net[c].inq)
      BY <1>1, <1>3, ChunkFacts
    <2>2. line \in Seq(Word) /\ Len(line) <= ASTROLOG_BUF_LEN
      BY <1>1, <2>1, GrownFacts
    <2>3. ASSUME IsLine(chunk, Len(chunk))
          PROVE  GoodChild([s EXCEPT !.buf = Filtered(line).buf, !.state = Filtered(line).state])
      <3>1. IsLine(line, Len(line))
        BY <1>1, <2>1, <2>3, WholeLine
      <3> HIDE DEF line
      <3>2. CASE HasType(CLIENT_REQUEST_TYPE, line)
        <4>1. Filtered(line) = [state |-> "SEND_REQUEST", buf |-> line]
          BY <3>2 DEF Filtered
        <4>2. Filtered(line).buf = line /\ Filtered(line).state = "SEND_REQUEST"
          BY <4>1
        <4>3. line[1] = CLIENT_REQUEST_TYPE
          BY <3>2 DEF HasType
        <4>4. GoodChild([s EXCEPT !.buf = line, !.state = "SEND_REQUEST"])
          BY <1>1, <2>2, <3>1, <4>3, ChangedFacts
        <4> QED BY <4>2, <4>4
      <3>3. CASE ~HasType(CLIENT_REQUEST_TYPE, line)
        <4>1. Filtered(line) = [state |-> "SEND_DENIED", buf |-> STAR_REPLY_FAILURE]
          BY <3>3 DEF Filtered
        <4>2. Filtered(line).buf = STAR_REPLY_FAILURE /\ Filtered(line).state = "SEND_DENIED"
          BY <4>1
        <4>3. GoodChild([s EXCEPT !.buf = STAR_REPLY_FAILURE, !.state = "SEND_DENIED"])
          BY <1>1, DeniedFacts, ChangedFacts
        <4> QED BY <4>2, <4>3
      <3> QED BY <3>2, <3>3
    <2>4. GoodChild(Collected(s, chunk, "CLIENT_ERROR", Filtered(line)))
      BY <1>1, <2>1, <2>3, CollectedFacts
    <2>5. net' \in [Client -> Socket]
      BY <1>1, <1>3, <2>1, ReadSocket
    <2> QED BY <1>2, <1>3, <2>4, <2>5, RestFacts, BecomeInv
  <1>4. ASSUME NEW q \in {"SUCCESS", "CLIENT_ERROR"}, Goto(k, q), UNCHANGED net
        PROVE  ProxyInv'
    <2>1. GoodChild([s EXCEPT !.state = q])
      <3> HIDE DEF s
      <3> QED BY <1>1, GotoFacts
    <2>2. Become(k, [s EXCEPT !.state = q])
      BY <1>4 DEF Goto
    <2> QED BY <1>2, <1>4, <2>1, <2>2, RestFacts, BecomeInv
  <1> QED BY <1>3, <1>4 DEF handle_recv_request

\* A struct after its line was sent: an empty buffer, and the next line awaited.
LEMMA EmptiedFacts ==
    ASSUME NEW s, GoodChild(s), s.con # NONE, NEW q \in {"RECV_REQUEST", "RECV_REPLY"}
    PROVE  GoodChild([s EXCEPT !.state = q, !.buf = <<>>])
  <1> DEFINE e == <<>>
             t == [s EXCEPT !.state = q, !.buf = e]
  <1>1. e \in Seq(Word) /\ Len(e) = 0 /\ Len(e) <= ASTROLOG_BUF_LEN
    BY EmptyFacts
  <1> HIDE DEF e
  <1>2. t \in ProxyState /\ t.state = q /\ t.con = s.con /\ t.buf = e
    BY <1>1 DEF GoodChild, ProxyState
  <1> HIDE DEF t
  <1>3. GoodChild(t)
    BY <1>1, <1>2 DEF GoodChild, Screened
  <1> QED BY <1>3 DEF t, e

\* handle_send_request: a whole line is appended to what the server was sent.
LEMMA SendRequestInv ==
    ASSUME ProxyInv, NEW k \in Child, handle_send_request(k)
    PROVE  ProxyInv'
  <1>1. /\ child[k].state = "SEND_REQUEST" /\ GoodChild(child[k]) /\ child[k].con # NONE
        /\ child[k].buf \in Seq(Word)
    BY HoldsClient DEF handle_send_request, In, GoodChild, ProxyState
  <1>2. UNCHANGED <<parent, down, backlog>>
    BY DEF handle_send_request
  <1>3. CASE Die(k) /\ UNCHANGED <<up, link>>
    BY <1>2, <1>3, DieInv DEF upstream
  <1>4. CASE /\ \/ Connected /\ up' = up \o child[k].buf /\ link' = link
                \/ link = "fin" /\ up' = up /\ link' \in {"fin", "rst"}
                \/ link = "rst" /\ up' = up /\ link' = link
             /\ Become(k, [child[k] EXCEPT !.state = "RECV_REPLY", !.buf = <<>>])
             /\ UNCHANGED net
    <2>1. GoodStream(up \o child[k].buf)
      BY <1>1, RestFacts, SendLine DEF GoodChild, Screened
    <2>2. GoodStream(up') /\ link' \in {"open", "hung", "fin", "rst"}
      BY <1>4, <2>1, RestFacts
    <2>3. GoodChild([child[k] EXCEPT !.state = "RECV_REPLY", !.buf = <<>>])
      BY <1>1, EmptiedFacts
    <2>4. /\ parent' \in {"fork", "wait", "kill", "exit"} /\ down' \in Seq(Word)
          /\ net' \in [Client -> Socket] /\ backlog' \in Seq(Client)
      BY <1>2, <1>4, RestFacts
    <2>5. Become(k, [child[k] EXCEPT !.state = "RECV_REPLY", !.buf = <<>>])
      BY <1>4
    <2> QED BY <2>2, <2>3, <2>4, <2>5, BecomeInv
  <1> QED BY <1>3, <1>4 DEF handle_send_request

\* handle_recv_reply: whoever's reply it is, buf has room for it.
LEMMA RecvReplyInv ==
    ASSUME ProxyInv, NEW k \in Child, handle_recv_reply(k)
    PROVE  ProxyInv'
  <1> DEFINE s == child[k]
  <1>1. s.state = "RECV_REPLY" /\ GoodChild(s) /\ s.con # NONE
    BY HoldsClient DEF handle_recv_reply, In
  <1>2. UNCHANGED <<parent, up, link, net, backlog>>
    BY DEF handle_recv_reply
  <1>3. ASSUME NEW n \in 1 .. MIN(Len(down), ASTROLOG_BUF_LEN - Len(s.buf)),
               NEW chunk, chunk = First(down, n), down' = After(down, n),
               Become(k, Collected(s, chunk, "ASTROLOG_ERROR",
                                   [state |-> "SEND_REPLY", buf |-> s.buf \o chunk]))
        PROVE  ProxyInv'
    <2> DEFINE line == s.buf \o chunk
               done == [state |-> "SEND_REPLY", buf |-> line]
    <2> HIDE DEF s
    <2>1. /\ chunk \in Seq(Word) /\ Len(chunk) <= ASTROLOG_BUF_LEN - Len(s.buf)
          /\ down' \in Seq(Word)
      BY <1>1, <1>3, RestFacts, ChunkFacts
    <2>2. line \in Seq(Word) /\ Len(line) <= ASTROLOG_BUF_LEN
      BY <1>1, <2>1, GrownFacts
    <2>3. GoodChild([s EXCEPT !.buf = done.buf, !.state = done.state])
      <3> HIDE DEF line
      <3>1. done.buf = line /\ done.state = "SEND_REPLY"
        OBVIOUS
      <3>2. GoodChild([s EXCEPT !.buf = line, !.state = "SEND_REPLY"])
        BY <1>1, <2>2, ChangedFacts
      <3> QED BY <3>1, <3>2
    <2>4. GoodChild(Collected(s, chunk, "ASTROLOG_ERROR", done))
      <3> HIDE DEF done
      <3> QED BY <1>1, <2>1, <2>3, CollectedFacts
    <2> QED BY <1>2, <1>3, <2>1, <2>4, RestFacts, BecomeInv
  <1>4. CASE Goto(k, "ASTROLOG_ERROR") /\ UNCHANGED down
    <2>1. GoodChild([s EXCEPT !.state = "ASTROLOG_ERROR"])
      <3> HIDE DEF s
      <3> QED BY <1>1, GotoFacts
    <2>2. Become(k, [s EXCEPT !.state = "ASTROLOG_ERROR"])
      BY <1>4 DEF Goto
    <2> QED BY <1>2, <1>4, <2>1, <2>2, RestFacts, BecomeInv
  <1> QED BY <1>3, <1>4 DEF handle_recv_reply, RecvReply

\* handle_send_reply, to a client that is there, has left or was reset.
LEMMA SendReplyInv ==
    ASSUME ProxyInv, NEW k \in Child, handle_send_reply(k)
    PROVE  ProxyInv'
  <1> DEFINE s == child[k]
             c == s.con
  <1>1. /\ GoodChild(s) /\ c # NONE /\ c \in Client /\ s.buf \in Seq(Word)
        /\ net[c] \in Socket
    BY HoldsClient DEF handle_send_reply, In, GoodChild, ProxyState
  <1>2. UNCHANGED <<parent, up, down, link, backlog>>
    BY DEF handle_send_reply, upstream
  <1>3. CASE Die(k)
    BY <1>2, <1>3, DieInv DEF upstream
  <1>4. CASE Goto(k, "CLIENT_ERROR") /\ UNCHANGED net
    <2>1. GoodChild([s EXCEPT !.state = "CLIENT_ERROR"])
      <3> HIDE DEF s
      <3> QED BY <1>1, GotoFacts
    <2>2. Become(k, [s EXCEPT !.state = "CLIENT_ERROR"])
      BY <1>4 DEF Goto
    <2> QED BY <1>2, <1>4, <2>1, <2>2, RestFacts, BecomeInv
  <1>5. ASSUME NEW p \in {"open", "fin", "rst"},
               net' = [net EXCEPT ![c].got = @ \o s.buf, ![c].peer = p],
               Become(k, [s EXCEPT !.state = "RECV_REQUEST", !.buf = <<>>])
        PROVE  ProxyInv'
    <2>1. GoodChild([s EXCEPT !.state = "RECV_REQUEST", !.buf = <<>>])
      <3> HIDE DEF s
      <3> QED BY <1>1, EmptiedFacts
    <2>2. net[c].got \o s.buf \in Seq(Word)
      <3>1. net[c].got \in Seq(Word)
        BY <1>1 DEF Socket
      <3> QED BY <1>1, <3>1, ConcatProperties, Zenon
    <2>3. \A q \in Seq(Word) : [net EXCEPT ![c].got = q, ![c].peer = p] \in [Client -> Socket]
      BY <1>1, RestFacts DEF Socket
    <2>4. net' = [net EXCEPT ![c].got = net[c].got \o s.buf, ![c].peer = p]
      BY <1>5, Zenon
    <2>5. net' \in [Client -> Socket]
      BY <2>2, <2>3, <2>4, Zenon
    <2> QED BY <1>2, <1>5, <2>1, <2>5, RestFacts, BecomeInv
  <1> QED BY <1>3, <1>4, <1>5 DEF handle_send_reply

-----------------------------------------------------------------------------
\* The invariant after a step that no child takes.
LEMMA OthersInv ==
    ASSUME ProxyInv, child' = child,
           parent' \in {"fork", "wait", "kill", "exit"}, GoodStream(up'), down' \in Seq(Word),
           link' \in {"open", "hung", "fin", "rst"}, net' \in [Client -> Socket], backlog' \in Seq(Client)
    PROVE  ProxyInv'
  <1>1. TypeOK'
    BY DEF ProxyInv, TypeOK, In, GoodStream
  <1>2. AccessControl'
    BY DEF AccessControl, GoodStream, StartsLine
  <1> QED BY <1>1, <1>2 DEF ProxyInv, Screened

\* Nothing was sent.
LEMMA EmptyStream == GoodStream(<<>>)
  BY EmptySeq DEF GoodStream

\* The parent: fork, wait, kill and exit.
LEMMA MainInv ==
    ASSUME ProxyInv, main
    PROVE  ProxyInv'
  <1>1. CASE ForkFailed \/ wait
    <2>1. child' = child /\ parent' = "kill" /\ UNCHANGED <<up, down, link, net, backlog>>
      BY <1>1 DEF ForkFailed, wait, upstream
    <2> QED BY <2>1, RestFacts, OthersInv
  <1>2. CASE Exit
    <2>1. /\ child' = child /\ parent' = "exit" /\ up' = <<>> /\ down' = <<>>
          /\ link' = "fin" /\ backlog' = <<>>
          /\ net' = [c \in Client |-> NoSocket]
      BY <1>2 DEF Exit
    <2>2. GoodStream(up') /\ down' \in Seq(Word) /\ backlog' \in Seq(Client)
      BY <2>1, EmptyStream, EmptySeq
    <2>3. net' \in [Client -> Socket]
      BY <2>1, NoSocketFacts
    <2> QED BY <2>1, <2>2, <2>3, OthersInv
  <1>3. ASSUME NEW k \in Child, Fork(k)
        PROVE  ProxyInv'
    <2> DEFINE s == child[k]
               t == [s EXCEPT !.state = "ACCEPT"]
    <2>1. s.state = "NEW" /\ GoodChild(s)
      BY <1>3, ChildFacts DEF Fork, In
    <2>2. /\ Become(k, t) /\ parent' \in {"wait", "fork"}
          /\ UNCHANGED <<up, down, link, net, backlog>>
      BY <1>3 DEF Fork, Goto, upstream
    <2> HIDE DEF s
    <2>3. t \in ProxyState /\ t.state = "ACCEPT" /\ t.con = s.con /\ t.buf = s.buf
      BY <2>1 DEF GoodChild, ProxyState
    <2> HIDE DEF t
    <2>4. GoodChild(t)
      BY <2>1, <2>3 DEF GoodChild, Screened
    <2> QED BY <2>2, <2>4, RestFacts, BecomeInv
  <1>4. ASSUME NEW k \in Child, kill_children_procs(k)
        PROVE  ProxyInv'
    BY <1>4, DieInv DEF kill_children_procs
  <1> QED BY <1>1, <1>2, <1>3, <1>4 DEF main

\* The server answers a line, closes the connection or hangs behind the line.
LEMMA AstrologInv ==
    ASSUME ProxyInv, Astrolog
    PROVE  ProxyInv'
  <1>1. CASE AstrologClosed
    <2>1. /\ child' = child /\ up' = <<>> /\ link' \in {"fin", "rst"}
          /\ UNCHANGED <<parent, down, net, backlog>>
      BY <1>1 DEF AstrologClosed
    <2> QED BY <2>1, RestFacts, EmptyStream, OthersInv
  <1>2. ASSUME NEW n \in 1 .. Len(up), Answer(n)
        PROVE  ProxyInv'
    <2>1. child' = child /\ IsLine(up, n) /\ UNCHANGED <<parent, net, backlog>>
      BY <1>2 DEF Answer
    <2>2. GoodStream(After(up, n))
      BY <2>1, RestFacts, TakeLine
    <2>3. CASE AnswerLine(n)
      <3>0. /\ find_zodiac(First(up, n)) /\ up' = After(up, n)
            /\ down' = down \o Horoscope[up[2]] /\ link' = link
        BY <2>3 DEF AnswerLine, Understood
      <3>1. up \in Seq(Word) /\ Len(up) \in Nat /\ n \in 0 .. Len(up)
        BY RestFacts, LenProperties DEF GoodStream
      <3>2. Len(First(up, n)) = n /\ \A i \in 1 .. n : First(up, n)[i] = up[i]
        BY <3>1, CutFacts
      <3>3. up[2] \in Zodiac
        BY <3>0, <3>1, <3>2 DEF find_zodiac
      <3>4. Horoscope[up[2]] \in Seq(Word)
        BY <3>3, ProxyAssumption
      <3>5. down' \in Seq(Word)
        BY <3>0, <3>4, RestFacts, ConcatProperties, Zenon
      <3> QED BY <2>1, <2>2, <3>0, <3>5, RestFacts, OthersInv
    <2>4. CASE DropLink(n)
      BY <2>1, <2>4, RestFacts, EmptyStream, OthersInv DEF DropLink
    <2>5. CASE HangOnLine(n)
      BY <2>1, <2>2, <2>5, RestFacts, OthersInv DEF HangOnLine
    <2> QED BY <1>2, <2>3, <2>4, <2>5 DEF Answer
  <1>3. CASE AstrologHangs
    <2>1. /\ child' = child /\ link' = "hung"
          /\ UNCHANGED <<parent, up, down, net, backlog>>
      BY <1>3 DEF AstrologHangs
    <2> QED BY <2>1, RestFacts, OthersInv
  <1> QED BY <1>1, <1>2, <1>3 DEF Astrolog

\* Clients come and go.
LEMMA ClientsInv ==
    ASSUME ProxyInv, Clients
    PROVE  ProxyInv'
  <1>1. ASSUME NEW c \in Client, NEW s \in Streams, Connect(c, s)
        PROVE  ProxyInv'
    <2> DEFINE e == <<>>
    <2>1. s \in Seq(Word) /\ e \in Seq(Word)
      BY ProxyAssumption, EmptyFacts
    <2>2. /\ net' = [net EXCEPT ![c] = [said |-> s, inq |-> s, got |-> e, peer |-> "open"]]
          /\ backlog' = Append(backlog, c) /\ child' = child
          /\ UNCHANGED <<parent, up, down, link>>
      BY <1>1 DEF Connect, upstream
    <2> HIDE DEF e
    <2>3. [said |-> s, inq |-> s, got |-> e, peer |-> "open"] \in Socket
      BY <2>1 DEF Socket
    <2>4. net' \in [Client -> Socket]
      BY <2>2, <2>3, RestFacts
    <2>5. backlog' \in Seq(Client)
      BY <2>2, RestFacts
    <2> QED BY <2>2, <2>4, <2>5, RestFacts, OthersInv
  <1>2. ASSUME NEW c \in Client, NEW n \in 0 .. Len(net[c].inq), ClientClose(c, n)
        PROVE  ProxyInv'
    <2>1. /\ net' = [net EXCEPT ![c].peer = "fin", ![c].inq = First(@, n)]
          /\ child' = child /\ UNCHANGED <<parent, up, down, link, backlog>>
      BY <1>2 DEF ClientClose, upstream
    <2>2. net \in [Client -> Socket] /\ net[c].inq \in Seq(Word)
      BY RestFacts DEF Socket
    <2>3. First(net[c].inq, n) \in Seq(Word)
      BY <2>2, CutFacts
    <2>4. \A q \in Seq(Word) : [net EXCEPT ![c].peer = "fin", ![c].inq = q] \in [Client -> Socket]
      BY <2>2 DEF Socket
    <2>5. net' = [net EXCEPT ![c].peer = "fin", ![c].inq = First(net[c].inq, n)]
      BY <2>1, <2>2
    <2>6. net' \in [Client -> Socket]
      BY <2>3, <2>4, <2>5, Zenon
    <2> QED BY <2>1, <2>6, RestFacts, OthersInv
  <1> QED BY <1>1, <1>2 DEF Clients

\* The invariant holds before the first fork.
LEMMA InitInv == Init => ProxyInv
  <1> SUFFICES ASSUME Init PROVE ProxyInv
    OBVIOUS
  <1> DEFINE e == <<>>
             s == [state |-> "NEW", con |-> NONE, buf |-> e]
  <1>1. e \in Seq(Word) /\ Len(e) <= ASTROLOG_BUF_LEN /\ e \in Seq(Client)
    BY EmptyFacts, EmptySeq
  <1>2. /\ parent = "fork" /\ child = [k \in Child |-> s] /\ up = e /\ down = e
        /\ link = "open" /\ net = [c \in Client |-> NoSocket] /\ backlog = e
    BY DEF Init
  <1>3. GoodStream(up)
    BY <1>2, EmptyStream
  <1> HIDE DEF e
  <1>4. s \in ProxyState /\ s.state = "NEW" /\ s.con = NONE /\ s.buf = e
    BY <1>1 DEF ProxyState
  <1> HIDE DEF s
  <1>5. TypeOK
    BY <1>1, <1>2, <1>4, NoSocketFacts DEF TypeOK, In
  <1>6. \A k \in Child : Screened(child[k])
    BY <1>2, <1>4 DEF Screened
  <1>7. AccessControl
    BY <1>3 DEF AccessControl, GoodStream
  <1> QED BY <1>5, <1>6, <1>7 DEF ProxyInv

\* Every step keeps the invariant.
LEMMA NextInv == ProxyInv /\ [Next]_vars => ProxyInv'
  <1> SUFFICES ASSUME ProxyInv, [Next]_vars PROVE ProxyInv'
    OBVIOUS
  <1>1. CASE UNCHANGED vars
    <2>1. child' = child /\ UNCHANGED <<parent, up, down, link, net, backlog>>
      BY <1>1 DEF vars, upstream
    <2> QED BY <2>1, RestFacts, OthersInv
  <1>2. CASE main
    BY <1>2, MainInv
  <1>3. CASE Astrolog
    BY <1>3, AstrologInv
  <1>4. CASE Clients
    BY <1>4, ClientsInv
  <1>5. ASSUME NEW k \in Child, proxy_child(k)
        PROVE  ProxyInv'
    BY <1>5, AcceptInv, RecvRequestInv, SendRequestInv, RecvReplyInv, SendReplyInv,
       DisconnectInv DEF proxy_child
  <1> QED BY <1>1, <1>2, <1>3, <1>4, <1>5 DEF Next, Ended

-----------------------------------------------------------------------------
\* Where the lines of a stream end.
Ends(s) == {i \in 1 .. Len(s) : s[i] = DELIMITER}

\* The ends of a stream can be counted.
LEMMA EndsFinite ==
    ASSUME NEW s \in Seq(Word)
    PROVE  IsFiniteSet(Ends(s)) /\ Delimiters(s) = Cardinality(Ends(s)) /\ Delimiters(s) \in Nat
  <1>1. Len(s) \in Int /\ 1 \in Int
    BY LenProperties
  <1>2. IsFiniteSet(1 .. Len(s))
    BY <1>1, FS_Interval
  <1>3. Ends(s) \in SUBSET (1 .. Len(s))
    BY DEF Ends
  <1>4. IsFiniteSet(Ends(s))
    BY <1>2, <1>3, FS_Subset
  <1>5. Delimiters(s) = Cardinality(Ends(s))
    BY DEF Delimiters, Ends
  <1>6. Cardinality(Ends(s)) \in Nat
    BY <1>4, FS_CardinalityType
  <1> QED BY <1>4, <1>5, <1>6

\* What is appended to a stream brings its own delimiters and no others.
LEMMA DelimitersAdd ==
    ASSUME NEW s \in Seq(Word), NEW t \in Seq(Word)
    PROVE  Delimiters(s \o t) = Delimiters(s) + Delimiters(t)
  <1> DEFINE u == s \o t
             C == {Len(s) + i : i \in Ends(t)}
             f == [i \in Ends(t) |-> Len(s) + i]
  <1>1. /\ u \in Seq(Word) /\ Len(u) = Len(s) + Len(t)
        /\ Len(s) \in Nat /\ Len(t) \in Nat
        /\ \A i \in 1 .. Len(s) + Len(t) : u[i] = IF i <= Len(s) THEN s[i] ELSE t[i - Len(s)]
    BY ConcatProperties, LenProperties
  <1> HIDE DEF u
  <1>2. \A i \in Ends(t) : i \in Nat /\ i >= 1 /\ i <= Len(t) /\ t[i] = DELIMITER
    BY <1>1 DEF Ends
  <1>3. Ends(u) = Ends(s) \cup C
    <2>1. ASSUME NEW i \in Ends(u) PROVE i \in Ends(s) \cup C
      <3>1. i \in 1 .. Len(s) + Len(t) /\ u[i] = DELIMITER
        BY <1>1 DEF Ends
      <3>2. CASE i <= Len(s)
        BY <1>1, <3>1, <3>2 DEF Ends
      <3>3. CASE i > Len(s)
        <4>0. i - Len(s) \in 1 .. Len(t) /\ i = Len(s) + (i - Len(s))
          BY <1>1, <3>1, <3>3
        <4>1. t[i - Len(s)] = DELIMITER
          BY <1>1, <3>1, <3>3
        <4>2. i - Len(s) \in Ends(t)
          BY <4>0, <4>1 DEF Ends
        <4> QED BY <4>0, <4>2, Zenon
      <3> QED BY <1>1, <3>1, <3>2, <3>3
    <2>2. ASSUME NEW i \in Ends(s) PROVE i \in Ends(u)
      BY <1>1 DEF Ends
    <2>3. ASSUME NEW j \in Ends(t) PROVE Len(s) + j \in Ends(u)
      <3>1. Len(s) + j \in 1 .. Len(s) + Len(t) /\ ~(Len(s) + j <= Len(s)) /\ (Len(s) + j) - Len(s) = j
        BY <1>1, <1>2
      <3>2. u[Len(s) + j] = t[j]
        BY <1>1, <3>1
      <3> QED BY <1>1, <1>2, <3>1, <3>2 DEF Ends
    <2> QED BY <2>1, <2>2, <2>3
  <1>4. Ends(s) \cap C = {}
    <2>1. \A i \in Ends(s) : i \in Nat /\ i <= Len(s)
      BY <1>1 DEF Ends
    <2>2. \A j \in Ends(t) : Len(s) + j \in Nat /\ Len(s) + j > Len(s)
      BY <1>1, <1>2
    <2> QED BY <1>1, <2>1, <2>2
  <1>5. f \in Bijection(Ends(t), C)
    <2>1. f \in [Ends(t) -> C]
      OBVIOUS
    <2>2. \A a, b \in Ends(t) : f[a] = f[b] => a = b
      BY <1>1, <1>2
    <2>3. \A x \in C : \E a \in Ends(t) : f[a] = x
      OBVIOUS
    <2> HIDE DEF f, C
    <2> QED BY <2>1, <2>2, <2>3, Fun_IsBij
  <1>6. ExistsBijection(Ends(t), C)
    <2> HIDE DEF f, C
    <2> QED BY <1>5 DEF ExistsBijection
  <1> HIDE DEF C, f
  <1>7. IsFiniteSet(C) /\ Cardinality(C) = Cardinality(Ends(t))
    BY <1>6, EndsFinite, FS_Bijection
  <1>8. Cardinality(Ends(s) \cup C) = Cardinality(Ends(s)) + Cardinality(C) - Cardinality({})
    BY <1>4, <1>7, EndsFinite, FS_Union
  <1>9. Cardinality(Ends(u)) = Delimiters(s) + Delimiters(t)
    BY <1>3, <1>7, <1>8, EndsFinite, FS_EmptySet
  <1> QED BY <1>1, <1>9, EndsFinite DEF u

\* A whole line has one delimiter, and a part of one that has not ended none.
LEMMA DelimitersOfLine ==
    ASSUME NEW s \in Seq(Word), IsLine(s, Len(s))
    PROVE  Delimiters(s) = 1
  <1>1. Len(s) \in Nat /\ Len(s) \in 1 .. Len(s) /\ s[Len(s)] = DELIMITER
    BY LenProperties DEF IsLine
  <1>2. \A i \in 1 .. Len(s) : i # Len(s) => s[i] # DELIMITER
    <2>1. \A i \in 1 .. Len(s) : i # Len(s) => i \in 1 .. Len(s) - 1
      BY <1>1
    <2> QED BY <2>1 DEF IsLine
  <1>3. Ends(s) = {Len(s)}
    BY <1>1, <1>2 DEF Ends
  <1> QED BY <1>3, EndsFinite, FS_Singleton

LEMMA DelimitersOfPart ==
    ASSUME NEW s \in Seq(Word), \A i \in 1 .. Len(s) : s[i] # DELIMITER
    PROVE  Delimiters(s) = 0
  <1>1. Ends(s) = {}
    BY DEF Ends
  <1> QED BY <1>1, EndsFinite, FS_EmptySet

\* Cutting a stream loses no delimiter.
LEMMA DelimitersCut ==
    ASSUME NEW s \in Seq(Word), NEW n \in 0 .. Len(s)
    PROVE  Delimiters(s) = Delimiters(First(s, n)) + Delimiters(After(s, n))
  <1> DEFINE a == First(s, n)
             b == After(s, n)
             u == a \o b
  <1>1. /\ a \in Seq(Word) /\ Len(a) = n /\ (\A i \in 1 .. n : a[i] = s[i])
        /\ b \in Seq(Word) /\ Len(b) = Len(s) - n /\ (\A i \in 1 .. Len(s) - n : b[i] = s[n + i])
    BY CutFacts
  <1>2. Len(s) \in Nat
    BY LenProperties
  <1> HIDE DEF a, b
  <1>3. /\ u \in Seq(Word) /\ Len(u) = Len(a) + Len(b)
        /\ \A i \in 1 .. Len(a) + Len(b) : u[i] = IF i <= Len(a) THEN a[i] ELSE b[i - Len(a)]
    BY <1>1, ConcatProperties
  <1> HIDE DEF u
  <1>4. \A i \in 1 .. Len(s) : u[i] = s[i]
    <2> SUFFICES ASSUME NEW i \in 1 .. Len(s) PROVE u[i] = s[i]
      OBVIOUS
    <2>1. i \in 1 .. Len(a) + Len(b)
      BY <1>1, <1>2
    <2>2. CASE i <= n
      BY <1>1, <1>2, <1>3, <2>1, <2>2
    <2>3. CASE i > n
      <3>1. i - n \in 1 .. Len(s) - n /\ n + (i - n) = i
        BY <1>2, <2>3
      <3>2. u[i] = b[i - n] /\ b[i - n] = s[n + (i - n)]
        BY <1>1, <1>2, <1>3, <2>1, <2>3, <3>1
      <3> QED BY <3>1, <3>2
    <2> QED BY <1>2, <2>2, <2>3
  <1>5. Len(u) = Len(s)
    BY <1>1, <1>2, <1>3
  <1>6. Ends(u) = Ends(s)
    BY <1>4, <1>5 DEF Ends
  <1>7. Delimiters(u) = Delimiters(s)
    BY <1>3, <1>6, EndsFinite
  <1> QED BY <1>1, <1>7, DelimitersAdd DEF u, a, b

-----------------------------------------------------------------------------
\* The children that wait for a reply, and the children that saw the
\* connection fail or ended: with one of those the count is off for good.
Waiting == {k \in Child : In(k, {"RECV_REPLY"})}

Broken(s) == s.state \in {"ASTROLOG_ERROR", "DEAD"}

\* The invariant in these words.
LEMMA MatchMeans ==
    RepliesMatchWaiters <=>
        ((\A k \in Child : ~Broken(child[k])) =>
            /\ UnderWay <= Cardinality(Waiting)
            /\ link = "open" => UnderWay = Cardinality(Waiting))
  BY DEF RepliesMatchWaiters, Waiters, Waiting, Broken, In

\* The same after a step.
LEMMA MatchMeansNext ==
    RepliesMatchWaiters' <=>
        ((\A k \in Child : ~Broken(child'[k])) =>
            /\ UnderWay' <= Cardinality({k \in Child : child'[k].state = "RECV_REPLY"})
            /\ link' = "open" =>
                  UnderWay' = Cardinality({k \in Child : child'[k].state = "RECV_REPLY"}))
  BY DEF RepliesMatchWaiters, Waiters, Broken, In

\* The waiting children can be counted.
LEMMA WaitingFinite == IsFiniteSet(Waiting) /\ Cardinality(Waiting) \in Nat
  <1>1. IsFiniteSet(Child)
    BY ProxyAssumption
  <1>2. Waiting \in SUBSET Child
    BY DEF Waiting
  <1>3. IsFiniteSet(Waiting)
    BY <1>1, <1>2, FS_Subset
  <1> QED BY <1>3, FS_CardinalityType

\* Nothing has no delimiter.
LEMMA NoDelimiters == Delimiters(<<>>) = 0
  <1>1. <<>> \in Seq(Word) /\ Len(<<>>) = 0
    BY EmptySeq
  <1>2. \A i \in 1 .. Len(<<>>) : FALSE
    BY <1>1
  <1>3. Ends(<<>>) = {}
    BY <1>2 DEF Ends
  <1> QED BY <1>1, <1>3, EndsFinite, FS_EmptySet

\* What is on its way can be counted.
LEMMA UnderWayFacts ==
    ASSUME ProxyInv
    PROVE  /\ up \in Seq(Word) /\ down \in Seq(Word) /\ UnderWay \in Nat
           /\ Delimiters(up) \in Nat /\ Delimiters(down) \in Nat
  <1>1. up \in Seq(Word) /\ down \in Seq(Word)
    BY DEF ProxyInv, TypeOK
  <1>2. Delimiters(up) \in Nat /\ Delimiters(down) \in Nat
    BY <1>1, EndsFinite
  <1> QED BY <1>1, <1>2 DEF UnderWay

\* A step in which no child starts or stops to wait, and as many replies are on
\* their way as before.
LEMMA SameCountStep ==
    ASSUME ProxyInv, RepliesMatchWaiters, link' = "open" => link = "open",
           UnderWay' = UnderWay, NEW k \in Child, NEW s, Become(k, s),
           s.state = "RECV_REPLY" <=> child[k].state = "RECV_REPLY",
           Broken(child[k]) => Broken(s)
    PROVE  RepliesMatchWaiters'
  <1>1. child' = [child EXCEPT ![k] = s] /\ child \in [Child -> ProxyState]
    BY DEF Become, ProxyInv, TypeOK
  <1>2. child'[k] = s /\ \A j \in Child : j # k => child'[j] = child[j]
    BY <1>1
  <1>3. {j \in Child : child'[j].state = "RECV_REPLY"} = Waiting
    BY <1>2 DEF Waiting, In
  <1>4. (\A j \in Child : ~Broken(child'[j])) => (\A j \in Child : ~Broken(child[j]))
    BY <1>2
  <1> QED BY <1>3, <1>4, MatchMeans, MatchMeansNext, Zenon

\* The same for a step in which nothing is sent to the server or by it.
LEMMA QuietStep ==
    ASSUME ProxyInv, RepliesMatchWaiters, link' = link,
           UNCHANGED <<up, down>>, NEW k \in Child, NEW s, Become(k, s),
           s.state # "RECV_REPLY", child[k].state # "RECV_REPLY", ~Broken(child[k])
    PROVE  RepliesMatchWaiters'
  <1>1. UnderWay' = UnderWay
    BY DEF UnderWay
  <1> QED BY <1>1, SameCountStep

\* A step that no child takes, with as many replies on their way as before, or
\* fewer if the server does not serve any more.
LEMMA EvenStep ==
    ASSUME ProxyInv, RepliesMatchWaiters, child' = child,
           link' = "open" => link = "open" /\ UnderWay' = UnderWay,
           UnderWay \in Nat, UnderWay' \in Nat, UnderWay' <= UnderWay
    PROVE  RepliesMatchWaiters'
  <1> DEFINE m == Cardinality(Waiting)
  <1>1. {j \in Child : child'[j].state = "RECV_REPLY"} = Waiting
    BY DEF Waiting, In
  <1>2. m \in Nat
    BY WaitingFinite
  <1>3. (\A k \in Child : ~Broken(child[k])) =>
            UnderWay <= m /\ (link = "open" => UnderWay = m)
    BY MatchMeans
  <1> HIDE DEF m
  <1>4. (\A k \in Child : ~Broken(child'[k])) =>
            UnderWay' <= m /\ (link' = "open" => UnderWay' = m)
    BY <1>2, <1>3
  <1> QED BY <1>1, <1>4, MatchMeansNext, Zenon DEF m

\* A step that no child takes and in which nothing is sent.
LEMMA IdleStep ==
    ASSUME ProxyInv, RepliesMatchWaiters, link' = "open" => link = "open",
           UNCHANGED <<up, down, child>>
    PROVE  RepliesMatchWaiters'
  <1>1. UnderWay' = UnderWay
    BY DEF UnderWay
  <1>2. UnderWay \in Nat
    BY UnderWayFacts
  <1> QED BY <1>1, <1>2, EvenStep

\* A step that closes the connection to the server, with fewer replies on their way.
LEMMA ClosingStep ==
    ASSUME ProxyInv, RepliesMatchWaiters, child' = child, link' # "open",
           up' = <<>>, down' = down \/ down' = <<>>
    PROVE  RepliesMatchWaiters'
  <1>1. Delimiters(up') = 0 /\ Delimiters(<<>>) = 0
    BY NoDelimiters
  <1>2. Delimiters(down') \in {0, Delimiters(down)}
    BY <1>1
  <1>3. UnderWay' = Delimiters(up') + Delimiters(down')
    BY DEF UnderWay
  <1>4. UnderWay' \in Nat /\ UnderWay' <= UnderWay
    BY <1>1, <1>2, <1>3, UnderWayFacts DEF UnderWay
  <1> QED BY <1>4, UnderWayFacts, EvenStep

\* A step in which a child gives up on the server, or ends.
LEMMA BreakingStep ==
    ASSUME ProxyInv, NEW k \in Child, NEW s, Become(k, s), Broken(s)
    PROVE  RepliesMatchWaiters'
  <1>1. child' = [child EXCEPT ![k] = s] /\ child \in [Child -> ProxyState]
    BY DEF Become, ProxyInv, TypeOK
  <1>2. Broken(child'[k])
    BY <1>1
  <1> QED BY <1>2, MatchMeansNext

\* The process of a child ends.
LEMMA DieMatch ==
    ASSUME ProxyInv, NEW k \in Child, Die(k)
    PROVE  RepliesMatchWaiters'
  <1> DEFINE s == [state |-> "DEAD", con |-> NONE, buf |-> <<>>]
  <1>1. Become(k, s) /\ Broken(s)
    BY DEF Die, Broken
  <1> HIDE DEF s
  <1> QED BY <1>1, BreakingStep

\* One child more waits, for the one reply more that is asked for; if the request
\* could not be sent, for none.
LEMMA AskingStep ==
    ASSUME ProxyInv, RepliesMatchWaiters, NEW k \in Child, NEW s, Become(k, s),
           s.state = "RECV_REPLY", child[k].state \notin {"RECV_REPLY", "ASTROLOG_ERROR", "DEAD"},
           UnderWay \in Nat, UnderWay' \in {UnderWay, UnderWay + 1},
           link' = "open" => link = "open" /\ UnderWay' = UnderWay + 1
    PROVE  RepliesMatchWaiters'
  <1> DEFINE m == Cardinality(Waiting)
             b == \A j \in Child : ~Broken(child[j])
  <1>1. child' = [child EXCEPT ![k] = s] /\ child \in [Child -> ProxyState]
    BY DEF Become, ProxyInv, TypeOK
  <1>2. child'[k] = s /\ \A j \in Child : j # k => child'[j] = child[j]
    BY <1>1
  <1>3. {j \in Child : child'[j].state = "RECV_REPLY"} = Waiting \cup {k} /\ k \notin Waiting
    BY <1>2 DEF Waiting, In
  <1>4. Cardinality(Waiting \cup {k}) = m + 1 /\ m \in Nat
    BY <1>3, WaitingFinite, FS_AddElement
  <1>5. (\A j \in Child : ~Broken(child'[j])) => b
    BY <1>2 DEF Broken
  <1>6. b => UnderWay <= m /\ (link = "open" => UnderWay = m)
    BY MatchMeans
  <1> HIDE DEF m, b
  <1>7. b => UnderWay' <= m + 1 /\ (link' = "open" => UnderWay' = m + 1)
    BY <1>4, <1>6
  <1> QED BY <1>3, <1>4, <1>5, <1>7, MatchMeansNext, Zenon

\* One child less waits, and one reply less is on its way.
LEMMA TakingStep ==
    ASSUME ProxyInv, RepliesMatchWaiters, link' = "open" => link = "open",
           NEW k \in Child, NEW s, Become(k, s),
           s.state # "RECV_REPLY", child[k].state = "RECV_REPLY",
           UnderWay \in Nat, UnderWay' = UnderWay - 1
    PROVE  RepliesMatchWaiters'
  <1> DEFINE m == Cardinality(Waiting)
             b == \A j \in Child : ~Broken(child[j])
  <1>1. child' = [child EXCEPT ![k] = s] /\ child \in [Child -> ProxyState]
    BY DEF Become, ProxyInv, TypeOK
  <1>2. child'[k] = s /\ \A j \in Child : j # k => child'[j] = child[j]
    BY <1>1
  <1>3. {j \in Child : child'[j].state = "RECV_REPLY"} = Waiting \ {k} /\ k \in Waiting
    BY <1>2 DEF Waiting, In
  <1>4. Cardinality(Waiting \ {k}) = m - 1 /\ m \in Nat
    BY <1>3, WaitingFinite, FS_RemoveElement
  <1>5. (\A j \in Child : ~Broken(child'[j])) => b
    BY <1>2 DEF Broken
  <1>6. b => UnderWay <= m /\ (link = "open" => UnderWay = m)
    BY MatchMeans
  <1> HIDE DEF m, b
  <1>7. b => UnderWay' <= m - 1 /\ (link' = "open" => UnderWay' = m - 1)
    BY <1>4, <1>6
  <1> QED BY <1>3, <1>4, <1>5, <1>7, MatchMeansNext, Zenon

\* The state of a struct after an assignment to it.
LEMMA StateAfter ==
    ASSUME NEW s \in ProxyState, NEW q, NEW b
    PROVE  /\ [s EXCEPT !.state = q].state = q
           /\ [s EXCEPT !.state = q, !.buf = b].state = q
           /\ [s EXCEPT !.buf = b].state = s.state
           /\ [s EXCEPT !.buf = b, !.state = q].state = q
  BY DEF ProxyState

\* accept: the child begins to serve a client, or ends.
LEMMA AcceptMatch ==
    ASSUME ProxyInv, RepliesMatchWaiters, NEW k \in Child, accept(k)
    PROVE  RepliesMatchWaiters'
  <1> DEFINE s == [state |-> "RECV_REQUEST", con |-> Head(backlog), buf |-> <<>>]
  <1>1. CASE Die(k)
    BY <1>1, DieMatch
  <1>2. CASE Become(k, s)
    <2>1. s.state = "RECV_REQUEST"
      OBVIOUS
    <2>2. child[k].state = "ACCEPT" /\ UNCHANGED <<up, down>> /\ link' = link
      BY DEF accept, In, upstream
    <2>3. ~Broken(child[k])
      BY <2>2 DEF Broken
    <2> HIDE DEF s
    <2> QED BY <1>2, <2>1, <2>2, <2>3, QuietStep
  <1> QED BY <1>1, <1>2 DEF accept

\* After a connection the child accepts the next or ends.
LEMMA DisconnectMatch ==
    ASSUME ProxyInv, RepliesMatchWaiters, NEW k \in Child, Disconnect(k)
    PROVE  RepliesMatchWaiters'
  <1> DEFINE s == [state |-> "ACCEPT", con |-> NONE, buf |-> <<>>]
  <1>1. CASE Die(k)
    BY <1>1, DieMatch
  <1>2. CASE In(k, {"CLIENT_ERROR", "SUCCESS"}) /\ Become(k, s)
    <2>1. s.state = "ACCEPT"
      OBVIOUS
    <2>2. /\ child[k].state \in {"CLIENT_ERROR", "SUCCESS"}
          /\ UNCHANGED <<up, down>> /\ link' = link
      BY <1>2 DEF Disconnect, In, upstream
    <2>3. ~Broken(child[k])
      BY <2>2 DEF Broken
    <2> HIDE DEF s
    <2> QED BY <1>2, <2>1, <2>2, <2>3, QuietStep
  <1> QED BY <1>1, <1>2 DEF Disconnect

\* What recv_line makes of a struct: it stays, fails, or is done.
LEMMA CollectedState ==
    ASSUME NEW s \in ProxyState, NEW chunk, NEW failure, NEW done
    PROVE  LET r == recv_line(s.buf, chunk, ASTROLOG_BUF_LEN)
               t == Collected(s, chunk, failure, done) IN
           /\ r \in {"more", "error", "line"}
           /\ r = "more" => t.state = s.state /\ \A i \in 1 .. Len(chunk) : chunk[i] # DELIMITER
           /\ r = "error" => t.state = failure
           /\ r = "line" => t.state = done.state /\ IsLine(chunk, Len(chunk))
  <1> DEFINE r == recv_line(s.buf, chunk, ASTROLOG_BUF_LEN)
             t == Collected(s, chunk, failure, done)
  <1>0. r \in {"more", "error", "line"}
    BY DEF recv_line
  <1>1. ASSUME r = "more"
        PROVE  t.state = s.state /\ \A i \in 1 .. Len(chunk) : chunk[i] # DELIMITER
    <2>1. \A i \in 1 .. Len(chunk) : chunk[i] # DELIMITER
      BY <1>1 DEF recv_line
    <2>2. t = [s EXCEPT !.buf = s.buf \o chunk]
      BY <1>1 DEF Collected
    <2>3. t.state = s.state
      BY <2>2, StateAfter
    <2> QED BY <2>1, <2>3
  <1>2. ASSUME r = "error" PROVE t.state = failure
    <2>1. t = [s EXCEPT !.state = failure]
      BY <1>2 DEF Collected
    <2> QED BY <2>1, StateAfter
  <1>3. ASSUME r = "line" PROVE t.state = done.state /\ IsLine(chunk, Len(chunk))
    <2>1. IsLine(chunk, Len(chunk))
      BY <1>3 DEF recv_line
    <2>2. t = [s EXCEPT !.buf = done.buf, !.state = done.state]
      BY <1>3 DEF Collected
    <2>3. t.state = done.state
      BY <2>2, StateAfter
    <2> QED BY <2>1, <2>3
  <1> QED BY <1>0, <1>1, <1>2, <1>3

\* handle_recv_request has nothing to do with the server.
LEMMA RecvRequestMatch ==
    ASSUME ProxyInv, RepliesMatchWaiters, NEW k \in Child, handle_recv_request(k)
    PROVE  RepliesMatchWaiters'
  <1> DEFINE s == child[k]
             c == s.con
  <1>1. s \in ProxyState /\ s.state = "RECV_REQUEST" /\ ~Broken(s)
    BY DEF handle_recv_request, In, ProxyInv, TypeOK, Broken
  <1>2. UNCHANGED <<up, down>> /\ link' = link
    BY DEF handle_recv_request, upstream
  <1>3. ASSUME NEW chunk,
               Become(k, Collected(s, chunk, "CLIENT_ERROR", Filtered(s.buf \o chunk)))
        PROVE  RepliesMatchWaiters'
    <2> DEFINE done == Filtered(s.buf \o chunk)
               t == Collected(s, chunk, "CLIENT_ERROR", done)
    <2>1. done.state \in {"SEND_REQUEST", "SEND_DENIED"}
      BY DEF Filtered
    <2> HIDE DEF s, done
    <2>2. t.state \in {s.state, "CLIENT_ERROR", done.state}
      BY <1>1, CollectedState
    <2> HIDE DEF t
    <2>3. t.state # "RECV_REPLY"
      BY <1>1, <2>1, <2>2
    <2>4. Become(k, t)
      BY <1>3 DEF t, done
    <2> QED BY <1>1, <1>2, <2>3, <2>4, QuietStep DEF s
  <1>4. ASSUME NEW q \in {"SUCCESS", "CLIENT_ERROR"}, Goto(k, q)
        PROVE  RepliesMatchWaiters'
    <2> DEFINE t == [s EXCEPT !.state = q]
    <2>1. Become(k, t)
      BY <1>4 DEF Goto
    <2>2. t.state = q
      BY <1>1, StateAfter
    <2> HIDE DEF t
    <2> QED BY <1>1, <1>2, <2>1, <2>2, QuietStep
  <1> QED BY <1>3, <1>4 DEF handle_recv_request

\* handle_send_request: one line more and one child more that waits for its
\* reply, if the connection is there to send it on.
LEMMA SendRequestMatch ==
    ASSUME ProxyInv, RepliesMatchWaiters, NEW k \in Child, handle_send_request(k)
    PROVE  RepliesMatchWaiters'
  <1> DEFINE s == child[k]
             t == [s EXCEPT !.state = "RECV_REPLY", !.buf = <<>>]
  <1>1. /\ s \in ProxyState /\ s.state = "SEND_REQUEST"
        /\ s.buf \in Seq(Word) /\ IsLine(s.buf, Len(s.buf))
    BY DEF handle_send_request, In, ProxyInv, TypeOK, Screened, ProxyState
  <1>2. CASE Die(k)
    BY <1>2, DieMatch
  <1>3. CASE up' = up /\ link' # "open" /\ Become(k, t)
    <2>1. t.state = "RECV_REPLY"
      BY <1>1, StateAfter
    <2>2. UnderWay' = UnderWay
      BY <1>3 DEF handle_send_request, UnderWay
    <2> HIDE DEF t
    <2> QED BY <1>1, <1>3, <2>1, <2>2, UnderWayFacts, AskingStep
  <1>4. CASE link' = link /\ up' = up \o s.buf /\ Become(k, t)
    <2>1. t.state = "RECV_REPLY"
      BY <1>1, StateAfter
    <2>2. down' = down
      BY DEF handle_send_request
    <2>3. Delimiters(up') = Delimiters(up) + 1
      <3> HIDE DEF s
      <3>1. Delimiters(up \o s.buf) = Delimiters(up) + Delimiters(s.buf)
        BY <1>1, UnderWayFacts, DelimitersAdd
      <3>2. Delimiters(s.buf) = 1
        BY <1>1, DelimitersOfLine
      <3> QED BY <1>4, <3>1, <3>2
    <2>4. UnderWay' = Delimiters(up') + Delimiters(down)
      BY <2>2 DEF UnderWay
    <2>5. UnderWay' = UnderWay + 1
      BY <2>3, <2>4, UnderWayFacts DEF UnderWay
    <2> HIDE DEF t
    <2> QED BY <1>1, <1>4, <2>1, <2>5, UnderWayFacts, AskingStep
  <1> QED BY <1>2, <1>3, <1>4 DEF handle_send_request, Connected

\* handle_recv_reply: part of a reply, a reply, or something that is not one.
LEMMA RecvReplyMatch ==
    ASSUME ProxyInv, RepliesMatchWaiters, NEW k \in Child, handle_recv_reply(k)
    PROVE  RepliesMatchWaiters'
  <1> DEFINE s == child[k]
  <1>1. GoodChild(s) /\ s \in ProxyState /\ s.state = "RECV_REPLY" /\ ~Broken(s)
    BY ChildFacts DEF handle_recv_reply, In, ProxyInv, TypeOK, Broken
  <1>2. up' = up /\ link' = link
    BY DEF handle_recv_reply
  <1>3. ASSUME NEW n \in 1 .. MIN(Len(down), ASTROLOG_BUF_LEN - Len(s.buf)),
               NEW chunk, chunk = First(down, n), down' = After(down, n),
               Become(k, Collected(s, chunk, "ASTROLOG_ERROR",
                                   [state |-> "SEND_REPLY", buf |-> s.buf \o chunk]))
        PROVE  RepliesMatchWaiters'
    <2> DEFINE done == [state |-> "SEND_REPLY", buf |-> s.buf \o chunk]
               r == recv_line(s.buf, chunk, ASTROLOG_BUF_LEN)
               t == Collected(s, chunk, "ASTROLOG_ERROR", done)
    <2>0. Become(k, t)
      BY <1>3
    <2>1. done.state = "SEND_REPLY"
      OBVIOUS
    <2> HIDE DEF s, done
    <2>2. /\ r \in {"more", "error", "line"}
          /\ r = "more" => t.state = s.state /\ \A i \in 1 .. Len(chunk) : chunk[i] # DELIMITER
          /\ r = "error" => t.state = "ASTROLOG_ERROR"
          /\ r = "line" => t.state = done.state /\ IsLine(chunk, Len(chunk))
      BY <1>1, CollectedState
    <2>3. chunk \in Seq(Word) /\ down' \in Seq(Word) /\ n \in 0 .. Len(down)
      BY <1>1, <1>3, UnderWayFacts, ChunkFacts
    <2>4. Delimiters(down) = Delimiters(chunk) + Delimiters(down')
      BY <1>3, <2>3, UnderWayFacts, DelimitersCut
    <2>5. Delimiters(down') \in Nat
      BY <2>3, EndsFinite
    <2>6. UnderWay' = Delimiters(up) + Delimiters(down')
      BY <1>2 DEF UnderWay
    <2> HIDE DEF r, t
    <2>7. CASE r = "more"
      <3>1. Delimiters(chunk) = 0
        BY <2>2, <2>3, <2>7, DelimitersOfPart
      <3>2. UnderWay' = UnderWay
        BY <2>4, <2>5, <2>6, <3>1, UnderWayFacts DEF UnderWay
      <3>3. t.state = "RECV_REPLY" /\ ~Broken(t)
        BY <1>1, <2>2, <2>7 DEF Broken
      <3> QED BY <1>1, <1>2, <2>0, <3>2, <3>3, SameCountStep DEF s
    <2>8. CASE r = "error"
      <3>1. Broken(t)
        BY <2>2, <2>8 DEF Broken
      <3> QED BY <2>0, <3>1, BreakingStep
    <2>9. CASE r = "line"
      <3>1. Delimiters(chunk) = 1
        BY <2>2, <2>3, <2>9, DelimitersOfLine
      <3>2. UnderWay' = UnderWay - 1
        BY <2>4, <2>5, <2>6, <3>1, UnderWayFacts DEF UnderWay
      <3>3. t.state # "RECV_REPLY"
        BY <2>1, <2>2, <2>9
      <3> QED BY <1>1, <1>2, <2>0, <3>2, <3>3, UnderWayFacts, TakingStep DEF s
    <2> QED BY <2>2, <2>7, <2>8, <2>9
  <1>4. CASE Goto(k, "ASTROLOG_ERROR")
    <2> DEFINE t == [s EXCEPT !.state = "ASTROLOG_ERROR"]
    <2>1. Become(k, t)
      BY <1>4 DEF Goto
    <2>2. t.state = "ASTROLOG_ERROR"
      BY <1>1, StateAfter
    <2> HIDE DEF t
    <2> QED BY <2>1, <2>2, BreakingStep DEF Broken
  <1> QED BY <1>3, <1>4 DEF handle_recv_reply, RecvReply

\* handle_send_reply has nothing to do with the server.
LEMMA SendReplyMatch ==
    ASSUME ProxyInv, RepliesMatchWaiters, NEW k \in Child, handle_send_reply(k)
    PROVE  RepliesMatchWaiters'
  <1> DEFINE s == child[k]
  <1>1. s \in ProxyState /\ s.state \in {"SEND_DENIED", "SEND_REPLY"} /\ ~Broken(s)
    BY DEF handle_send_reply, In, ProxyInv, TypeOK, Broken
  <1>2. UNCHANGED <<up, down>> /\ link' = link
    BY DEF handle_send_reply, upstream
  <1>3. CASE Die(k)
    BY <1>3, DieMatch
  <1>4. CASE Goto(k, "CLIENT_ERROR")
    <2> DEFINE t == [s EXCEPT !.state = "CLIENT_ERROR"]
    <2>1. Become(k, t)
      BY <1>4 DEF Goto
    <2>2. t.state = "CLIENT_ERROR"
      BY <1>1, StateAfter
    <2> HIDE DEF t
    <2> QED BY <1>1, <1>2, <2>1, <2>2, QuietStep
  <1>5. CASE Become(k, [s EXCEPT !.state = "RECV_REQUEST", !.buf = <<>>])
    <2> DEFINE t == [s EXCEPT !.state = "RECV_REQUEST", !.buf = <<>>]
    <2>1. t.state = "RECV_REQUEST"
      BY <1>1, StateAfter
    <2>2. Become(k, t)
      BY <1>5
    <2> HIDE DEF t
    <2> QED BY <1>1, <1>2, <2>1, <2>2, QuietStep
  <1> QED BY <1>3, <1>4, <1>5 DEF handle_send_reply

\* main: a child that is forked does not wait, one that is killed has ended, and
\* the last process closes the connection.
LEMMA MainMatch ==
    ASSUME ProxyInv, RepliesMatchWaiters, main
    PROVE  RepliesMatchWaiters'
  <1>1. CASE ForkFailed \/ wait
    <2>1. UNCHANGED <<up, down, child>> /\ link' = link
      BY <1>1 DEF ForkFailed, wait, upstream
    <2> QED BY <2>1, IdleStep
  <1>2. CASE Exit
    <2>1. link' # "open" /\ up' = <<>> /\ down' = <<>> /\ child' = child
      BY <1>2 DEF Exit
    <2> QED BY <2>1, ClosingStep
  <1>3. ASSUME NEW k \in Child, Fork(k)
        PROVE  RepliesMatchWaiters'
    <2> DEFINE t == [child[k] EXCEPT !.state = "ACCEPT"]
    <2>1. child[k] \in ProxyState /\ child[k].state = "NEW" /\ ~Broken(child[k])
      BY <1>3 DEF Fork, In, ProxyInv, TypeOK, Broken
    <2>2. Become(k, t) /\ UNCHANGED <<up, down>> /\ link' = link
      BY <1>3 DEF Fork, Goto, upstream
    <2>3. t.state = "ACCEPT"
      BY <2>1, StateAfter
    <2> HIDE DEF t
    <2> QED BY <2>1, <2>2, <2>3, QuietStep
  <1>4. ASSUME NEW k \in Child, kill_children_procs(k)
        PROVE  RepliesMatchWaiters'
    BY <1>4, DieMatch DEF kill_children_procs
  <1> QED BY <1>1, <1>2, <1>3, <1>4 DEF main

\* The server: a line taken is a line sent, or the connection is gone or hung.
LEMMA AstrologMatch ==
    ASSUME ProxyInv, RepliesMatchWaiters, Astrolog
    PROVE  RepliesMatchWaiters'
  <1>1. CASE AstrologClosed
    <2>1. link' # "open" /\ up' = <<>> /\ down' = down /\ child' = child
      BY <1>1 DEF AstrologClosed
    <2> QED BY <2>1, ClosingStep
  <1>2. ASSUME NEW n \in 1 .. Len(up), Answer(n)
        PROVE  RepliesMatchWaiters'
    <2>1. child' = child /\ IsLine(up, n)
      BY <1>2 DEF Answer
    <2> DEFINE a == First(up, n)
    <2>2. up \in Seq(Word) /\ down \in Seq(Word) /\ Len(up) \in Nat /\ n \in 0 .. Len(up)
      BY UnderWayFacts, LenProperties
    <2>3. /\ a \in Seq(Word) /\ Len(a) = n /\ (\A i \in 1 .. n : a[i] = up[i])
          /\ After(up, n) \in Seq(Word)
      BY <2>2, CutFacts
    <2>4. Delimiters(up) = 1 + Delimiters(After(up, n)) /\ Delimiters(After(up, n)) \in Nat
      <3>1. Delimiters(up) = Delimiters(a) + Delimiters(After(up, n))
        BY <2>2, DelimitersCut DEF a
      <3> HIDE DEF a
      <3>2. IsLine(a, Len(a))
        <4>1. n \in 1 .. Len(a) /\ \A i \in 1 .. n - 1 : i \in 1 .. n
          BY <2>2, <2>3
        <4>2. n \in 1 .. n
          BY <2>2
        <4>3. a[n] = DELIMITER /\ \A i \in 1 .. n - 1 : a[i] # DELIMITER
          BY <2>1, <2>3, <4>1, <4>2 DEF IsLine
        <4> QED BY <2>3, <4>1, <4>3 DEF IsLine
      <3>3. Delimiters(a) = 1
        BY <2>3, <3>2, DelimitersOfLine
      <3>4. Delimiters(After(up, n)) \in Nat
        BY <2>3, EndsFinite
      <3> QED BY <3>1, <3>3, <3>4
    <2>5. UnderWay' = Delimiters(up') + Delimiters(down')
      BY DEF UnderWay
    <2>6. CASE AnswerLine(n)
      <3>1. /\ find_zodiac(a) /\ up' = After(up, n)
            /\ down' = down \o Horoscope[up[2]] /\ link' = link
        BY <2>6 DEF AnswerLine, Understood
      <3>2. up[2] \in Zodiac
        BY <2>2, <2>3, <3>1 DEF find_zodiac
      <3> DEFINE h == Horoscope[up[2]]
      <3>3. h \in Seq(Word) /\ IsLine(h, Len(h))
        BY <3>2, ProxyAssumption
      <3>4. down' = down \o h
        BY <3>1
      <3> HIDE DEF h
      <3>5. Delimiters(h) = 1
        BY <3>3, DelimitersOfLine
      <3>6. Delimiters(down') = Delimiters(down) + 1
        BY <2>2, <3>3, <3>4, <3>5, DelimitersAdd
      <3>7. UnderWay' = UnderWay
        BY <2>4, <2>5, <3>1, <3>6, UnderWayFacts DEF UnderWay
      <3> QED BY <2>1, <3>1, <3>7, UnderWayFacts, EvenStep
    <2>7. CASE DropLink(n)
      <3>1. link' # "open" /\ up' = <<>> /\ down' = down
        BY <2>7 DEF DropLink
      <3> QED BY <2>1, <3>1, ClosingStep
    <2>8. CASE HangOnLine(n)
      <3>1. link' = "hung" /\ up' = After(up, n) /\ down' = down
        BY <2>8 DEF HangOnLine
      <3>2. UnderWay' \in Nat /\ UnderWay' <= UnderWay
        BY <2>4, <2>5, <3>1, UnderWayFacts DEF UnderWay
      <3> QED BY <2>1, <3>1, <3>2, UnderWayFacts, EvenStep
    <2> QED BY <1>2, <2>6, <2>7, <2>8 DEF Answer
  <1>3. CASE AstrologHangs
    <2>1. UNCHANGED <<up, down, child>> /\ link' # "open"
      BY <1>3 DEF AstrologHangs
    <2> QED BY <2>1, IdleStep
  <1> QED BY <1>1, <1>2, <1>3 DEF Astrolog

\* Every step keeps the count.
LEMMA NextMatch == ProxyInv /\ RepliesMatchWaiters /\ [Next]_vars => RepliesMatchWaiters'
  <1> SUFFICES ASSUME ProxyInv, RepliesMatchWaiters, [Next]_vars PROVE RepliesMatchWaiters'
    OBVIOUS
  <1>1. CASE UNCHANGED vars
    <2>1. UNCHANGED <<up, down, child>> /\ link' = link
      BY <1>1 DEF vars, upstream
    <2> QED BY <2>1, IdleStep
  <1>2. CASE main
    BY <1>2, MainMatch
  <1>3. CASE Astrolog
    BY <1>3, AstrologMatch
  <1>4. CASE Clients
    <2>1. UNCHANGED <<up, down, child>> /\ link' = link
      BY <1>4 DEF Clients, Connect, ClientClose, upstream
    <2> QED BY <2>1, IdleStep
  <1>5. ASSUME NEW k \in Child, proxy_child(k)
        PROVE  RepliesMatchWaiters'
    BY <1>5, AcceptMatch, RecvRequestMatch, SendRequestMatch, RecvReplyMatch, SendReplyMatch,
       DisconnectMatch DEF proxy_child
  <1> QED BY <1>1, <1>2, <1>3, <1>4, <1>5 DEF Next, Ended

\* Before the first fork nothing is asked and nobody waits.
LEMMA InitMatch == Init => RepliesMatchWaiters
  <1> SUFFICES ASSUME Init PROVE RepliesMatchWaiters
    OBVIOUS
  <1>1. up = <<>> /\ down = <<>> /\ \A k \in Child : child[k].state = "NEW"
    BY DEF Init
  <1>2. Waiting = {}
    BY <1>1 DEF Waiting, In
  <1>3. Delimiters(<<>>) = 0
    BY NoDelimiters
  <1>4. UnderWay = 0
    BY <1>1, <1>3 DEF UnderWay
  <1> QED BY <1>2, <1>4, MatchMeans, FS_EmptySet

-----------------------------------------------------------------------------
\* The invariant of the proxy holds throughout, whatever the children, the
\* clients and the server do and whichever of the calls fail.
THEOREM ProxyInvariant == Spec => []ProxyInv
  BY InitInv, NextInv, PTL DEF Spec

\* Every child holds a client exactly while it serves one, and never more than
\* a buffer of its bytes: recv_line cannot overflow proxy_state.buf.
THEOREM TypeCorrect == Spec => []TypeOK
  <1>1. ProxyInv => TypeOK
    BY DEF ProxyInv
  <1> QED BY <1>1, ProxyInvariant, PTL

\* No star's request reaches the server through the proxy: handle_recv_request
\* and recv_line let pass nothing but whole lines of the permitted type.
THEOREM StarsStayOut == Spec => []AccessControl
  <1>1. ProxyInv => AccessControl
    BY DEF ProxyInv
  <1> QED BY <1>1, ProxyInvariant, PTL

\* No reply is left over and, while the server serves, none is missing: although
\* every child writes its request to, and reads from, the one connection that
\* was made before the fork, there are never more replies on their way than
\* children in RECV_REPLY until one of them has failed, and as many as long as the
\* connection is up and the server does not hang.  Who reads whose reply is another
\* matter, and not settled by the count.
THEOREM NoReplyLeftOver == Spec => []RepliesMatchWaiters
  BY InitMatch, NextMatch, ProxyInvariant, PTL DEF Spec

=============================================================================
