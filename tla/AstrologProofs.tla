---------------------------- MODULE AstrologProofs ----------------------------
(***************************************************************************)
(* The server's event loop is safe for every number of connections, every  *)
(* buffer length, every set of streams and every pattern of failures.      *)
(***************************************************************************)
EXTENDS Astrolog, SequenceTheorems, TLAPS

\* The server works on events or on expired connections, never on both, and
\* has none of either while it waits.
OneBatch ==
    /\ events = {} \/ expired = {}
    /\ pc = "wait" => events = {} /\ expired = {}

\* The inductive invariant: the checked invariants that depend on one another,
\* and what makes an event's struct one that no other pointer frees.
ServerInv ==
    /\ TypeOK
    /\ BuffersFit
    /\ EventsAlive
    /\ EpollMatchesOp
    /\ ParkedReaderDrained
    /\ OneBatch

-----------------------------------------------------------------------------
\* The part of the assumption that arithmetic on buffers needs.
LEMMA BufferLength == ASTROLOG_BUF_LEN \in Nat /\ ASTROLOG_BUF_LEN > 2
  BY AstrologAssumption

\* Cutting a stream keeps its words and its length.
LEMMA CutFacts ==
    ASSUME NEW S, NEW s \in Seq(S), NEW n \in 0 .. Len(s)
    PROVE  /\ First(s, n) \in Seq(S) /\ Len(First(s, n)) = n
           /\ \A i \in 1 .. n : First(s, n)[i] = s[i]
           /\ After(s, n) \in Seq(S) /\ Len(After(s, n)) = Len(s) - n
  <1>1. Len(s) \in Nat /\ \A i \in 1 .. Len(s) : s[i] \in S
    BY ElementOfSeq, LenProperties
  <1>2. /\ SubSeq(s, 1, n) \in Seq(S) /\ Len(SubSeq(s, 1, n)) = IF 1 <= n THEN n - 1 + 1 ELSE 0
        /\ \A i \in 1 .. n - 1 + 1 : SubSeq(s, 1, n)[i] = s[1 + i - 1]
    <2>1. \A i \in 1 .. n : s[i] \in S
      BY <1>1
    <2> QED BY <1>1, <2>1, SubSeqProperties
  <1>3. /\ SubSeq(s, n + 1, Len(s)) \in Seq(S)
        /\ Len(SubSeq(s, n + 1, Len(s))) =
              IF n + 1 <= Len(s) THEN Len(s) - (n + 1) + 1 ELSE 0
    <2>1. \A i \in n + 1 .. Len(s) : s[i] \in S
      BY <1>1
    <2> QED BY <1>1, <2>1, SubSeqProperties
  <1> QED BY <1>1, <1>2, <1>3 DEF First, After

\* What buffered_recv_until_delim works on is at most one buffer of words.
LEMMA BufferedFacts ==
    ASSUME TypeOK, BuffersFit, NEW c \in Conn
    PROVE  /\ Buffered(c) \in Seq(Word) /\ Len(Buffered(c)) <= ASTROLOG_BUF_LEN
           /\ LeftInSocket(c) \in Seq(Word)
  <1>1. /\ ss[c].interm \in Seq(Word) /\ net[c].inq \in Seq(Word)
        /\ Len(ss[c].interm) <= ASTROLOG_BUF_LEN
    BY DEF TypeOK, ServerState, Socket, BuffersFit, Fits
  <1>2. MIN(ASTROLOG_BUF_LEN, Len(net[c].inq)) \in 0 .. Len(net[c].inq)
    BY <1>1, AstrologAssumption, LenProperties DEF MIN
  <1>3. MIN(ASTROLOG_BUF_LEN, Len(net[c].inq)) <= ASTROLOG_BUF_LEN
    BY <1>1, AstrologAssumption, LenProperties DEF MIN
  <1> QED BY <1>1, <1>2, <1>3, CutFacts DEF Buffered, LeftInSocket

\* A read moves at least one word, and never more than buf has room for.
LEMMA ReceivedFacts ==
    ASSUME TypeOK, BuffersFit, NEW c \in Conn, NEW n,
           ss[c].state \in {"RECV_FIRST_LINE", "RECV_H"},
           ChunkSize(Buffered(c), Rem(ss[c]), n)
    PROVE  /\ Received(c, n) \in ServerState
           /\ Received(c, n).state = ss[c].state
           /\ Received(c, n).op = "READ"
           /\ Received(c, n).zodiac_ix = ss[c].zodiac_ix
           /\ Len(Received(c, n).interm) <= ASTROLOG_BUF_LEN
           /\ Len(Received(c, n).buf) \in 1 .. ASTROLOG_BUF_LEN
           /\ \A i \in 1 .. Len(Received(c, n).buf) : Received(c, n).buf[i] \in Word
  <1> DEFINE d == Buffered(c)
  <1>1. d \in Seq(Word) /\ Len(d) \in Nat /\ Len(d) <= ASTROLOG_BUF_LEN
    BY BufferedFacts, LenProperties
  <1>2. /\ ss[c] \in ServerState /\ ss[c].buf \in Seq(Word) /\ Len(ss[c].buf) \in Nat
        /\ ss[c].op = "READ"
        /\ Rem(ss[c]) = ASTROLOG_BUF_LEN - Len(ss[c].buf) /\ Rem(ss[c]) > 0
    BY LenProperties DEF TypeOK, ServerState, BuffersFit, Fits, Rem
  <1>3. n \in 1 .. Len(d) /\ n <= Rem(ss[c])
    BY <1>1, <1>2, AstrologAssumption DEF ChunkSize, MIN
  <1> HIDE DEF d
  <1>4. /\ First(d, n) \in Seq(Word) /\ Len(First(d, n)) = n
        /\ After(d, n) \in Seq(Word) /\ Len(After(d, n)) = Len(d) - n
    BY <1>1, <1>3, CutFacts
  <1>5. /\ ss[c].buf \o First(d, n) \in Seq(Word)
        /\ Len(ss[c].buf \o First(d, n)) = Len(ss[c].buf) + Len(First(d, n))
    BY <1>2, <1>4, ConcatProperties, Zenon
  <1>6. Received(c, n) = [ss[c] EXCEPT !.buf = ss[c].buf \o First(d, n), !.interm = After(d, n)]
    BY DEF Received, d
  <1>7. /\ Received(c, n) \in ServerState
        /\ Received(c, n).buf = ss[c].buf \o First(d, n)
        /\ Received(c, n).interm = After(d, n)
        /\ Received(c, n).state = ss[c].state
        /\ Received(c, n).op = ss[c].op
        /\ Received(c, n).zodiac_ix = ss[c].zodiac_ix
    BY <1>2, <1>4, <1>5, <1>6 DEF ServerState
  <1>8. \A i \in 1 .. Len(ss[c].buf \o First(d, n)) : (ss[c].buf \o First(d, n))[i] \in Word
    BY <1>5, ElementOfSeq
  <1>9. /\ Len(After(d, n)) <= ASTROLOG_BUF_LEN
        /\ Len(ss[c].buf \o First(d, n)) \in 1 .. ASTROLOG_BUF_LEN
    <2>1. Len(After(d, n)) = Len(d) - n /\ n \in Nat /\ 1 <= n
      BY <1>1, <1>3, <1>4
    <2>2. Len(ss[c].buf \o First(d, n)) = Len(ss[c].buf) + n
      BY <1>4, <1>5, Zenon
    <2>3. n <= ASTROLOG_BUF_LEN - Len(ss[c].buf)
      BY <1>2, <1>3
    <2>4. Len(ss[c].buf) \in Nat /\ Len(d) \in Nat /\ Len(d) <= ASTROLOG_BUF_LEN
      BY <1>1, <1>2, Zenon
    <2>5. \A x, y, z \in Nat :
             x <= ASTROLOG_BUF_LEN /\ 1 <= z /\ z <= ASTROLOG_BUF_LEN - y =>
                 x - z <= ASTROLOG_BUF_LEN /\ y + z \in 1 .. ASTROLOG_BUF_LEN
      BY BufferLength
    <2> QED BY <2>1, <2>2, <2>3, <2>4, <2>5, Zenon
  <1> QED BY <1>2, <1>7, <1>8, <1>9, Zenon

\* The replies are words, and fit in buf.
LEMMA ReplyFacts ==
    /\ STAR_REPLY_SUCCESS \in Seq(Word) /\ Len(STAR_REPLY_SUCCESS) = 2
    /\ CLIENT_REPLY_FAILURE \in Seq(Word) /\ Len(CLIENT_REPLY_FAILURE) = 2
    /\ STAR_REPLY_SUCCESS # <<>> /\ CLIENT_REPLY_FAILURE # <<>>
  <1>1. /\ STAR_REPLY_SUCCESS[1] \in Word /\ CLIENT_REPLY_FAILURE[1] \in Word
        /\ DELIMITER \in Word
    BY DEF Word
  <1>2. "THANKS!" \in Word /\ "OUT OF LUCK!" \in Word
    BY <1>1 DEF STAR_REPLY_SUCCESS, CLIENT_REPLY_FAILURE
  <1>3. \A a, b \in Word : <<a, b>> \in Seq(Word) /\ Len(<<a, b>>) = 2
    OBVIOUS
  <1> QED BY <1>1, <1>2, <1>3 DEF STAR_REPLY_SUCCESS, CLIENT_REPLY_FAILURE

\* A row of the table, up to its first delimiter, fits in buf.
LEMMA PrognosisFacts ==
    ASSUME TypeOK, NEW z \in Zodiac
    PROVE  Prognosis(z) \in Seq(Word) /\ Len(Prognosis(z)) <= ASTROLOG_BUF_LEN
  <1> DEFINE row == zodiac_prognosises[z]
  <1>1. row \in [1 .. ASTROLOG_BUF_LEN -> Word]
    BY DEF TypeOK
  <1>2. row \in Seq(Word) /\ Len(row) = ASTROLOG_BUF_LEN
    BY <1>1, IsASeq, AstrologAssumption
  <1>3. CASE \E n \in 1 .. ASTROLOG_BUF_LEN : Row(z, n)
    <2> DEFINE m == CHOOSE n \in 1 .. ASTROLOG_BUF_LEN : Row(z, n)
    <2>1. m \in 1 .. ASTROLOG_BUF_LEN
      BY <1>3
    <2>2. Prognosis(z) = First(row, m)
      BY <1>3 DEF Prognosis
    <2> HIDE DEF m, row
    <2>3. m \in 0 .. Len(row) /\ m <= ASTROLOG_BUF_LEN
      BY <1>2, <2>1, AstrologAssumption
    <2> QED BY <1>2, <2>2, <2>3, CutFacts
  <1>4. CASE ~\E n \in 1 .. ASTROLOG_BUF_LEN : Row(z, n)
    BY <1>4, AstrologAssumption DEF Prognosis
  <1> QED BY <1>3, <1>4

\* What a handler leaves behind is a struct that fits its buffers.
GoodStruct(s) == s \in ServerState /\ Fits(s) /\ s.state # "FREED"

\* STATE_ERROR makes no demands on the buffers.
LEMMA FailedFacts ==
    ASSUME NEW s \in ServerState,
           Len(s.interm) <= ASTROLOG_BUF_LEN, Len(s.buf) <= ASTROLOG_BUF_LEN
    PROVE  GoodStruct(Failed(s))
  BY DEF GoodStruct, Failed, Fits, ServerState

\* Both time-outs are natural numbers.
LEMMA TimeoutFacts == \A o : update_ts(o) \in Nat
  BY AstrologAssumption DEF update_ts

\* parse_star_first_line: an emptied buffer and a known sign, or an error.
LEMMA ParseStarFacts ==
    ASSUME NEW s \in ServerState,
           Len(s.interm) <= ASTROLOG_BUF_LEN, Len(s.buf) <= ASTROLOG_BUF_LEN
    PROVE  GoodStruct(parse_star_first_line(s))
  <1>1. CASE find_zodiac(s.buf)
    <2> DEFINE t == parse_star_first_line(s)
    <2>1. s.buf[2] \in Zodiac /\ s.buf[2] # NONE
      BY <1>1, AstrologAssumption DEF find_zodiac
    <2>2. t = [s EXCEPT !.buf = <<>>, !.zodiac_ix = s.buf[2], !.state = "RECV_H",
                        !.op = "READ", !.ttl = update_ts("READ")]
      BY <1>1 DEF parse_star_first_line
    <2> DEFINE e == <<>>
               z == s.buf[2]
    <2> HIDE DEF t
    <2>e. e \in Seq(Word) /\ z \in Zodiac /\ z # NONE
      BY <2>1
    <2>t. t = [s EXCEPT !.buf = e, !.zodiac_ix = z, !.state = "RECV_H",
                        !.op = "READ", !.ttl = update_ts("READ")]
      BY <2>2
    <2> HIDE DEF e, z
    <2>3. /\ t \in ServerState /\ t.interm = s.interm /\ t.buf = e
          /\ t.zodiac_ix # NONE /\ t.op = "READ" /\ t.state = "RECV_H"
      BY <2>e, <2>t, TimeoutFacts DEF ServerState
    <2>4. Len(t.buf) = 0
      BY <2>3 DEF e
    <2>5. GoodStruct(t)
      BY <2>3, <2>4, AstrologAssumption DEF GoodStruct, Fits, Rem
    <2> QED BY <2>5 DEF t
  <1>2. CASE ~find_zodiac(s.buf)
    BY <1>2, FailedFacts DEF parse_star_first_line
  <1> QED BY <1>1, <1>2

\* parse_client_first_line: a reply that fits and is not empty, or an error.
LEMMA ParseClientFacts ==
    ASSUME TypeOK, NEW s \in ServerState,
           Len(s.interm) <= ASTROLOG_BUF_LEN, Len(s.buf) <= ASTROLOG_BUF_LEN
    PROVE  GoodStruct(parse_client_first_line(s))
  <1>1. CASE find_zodiac(s.buf)
    <2> DEFINE t == parse_client_first_line(s)
               b == IF Prognosis(s.buf[2]) = <<>> THEN CLIENT_REPLY_FAILURE
                    ELSE Prognosis(s.buf[2])
    <2>1. b \in Seq(Word) /\ b # <<>> /\ Len(b) <= ASTROLOG_BUF_LEN
      <3>1. s.buf[2] \in Zodiac
        BY <1>1 DEF find_zodiac
      <3>2. Prognosis(s.buf[2]) \in Seq(Word) /\ Len(Prognosis(s.buf[2])) <= ASTROLOG_BUF_LEN
        BY <3>1, PrognosisFacts
      <3>3. CLIENT_REPLY_FAILURE # <<>>
        BY ReplyFacts
      <3>4. CASE Prognosis(s.buf[2]) = <<>>
        <4>1. b = CLIENT_REPLY_FAILURE
          BY <3>4
        <4>2. 2 <= ASTROLOG_BUF_LEN
          BY AstrologAssumption
        <4> HIDE DEF b
        <4> QED BY <3>3, <4>1, <4>2, ReplyFacts
      <3>5. CASE Prognosis(s.buf[2]) # <<>>
        <4>1. b = Prognosis(s.buf[2])
          BY <3>5
        <4> HIDE DEF b
        <4> QED BY <3>2, <3>5, <4>1
      <3> QED BY <3>4, <3>5
    <2>2. t = [s EXCEPT !.buf = b, !.state = "SEND_H", !.op = "WRITE",
                        !.ttl = update_ts("WRITE")]
      BY <1>1 DEF parse_client_first_line
    <2> HIDE DEF t, b
    <2>3. /\ t \in ServerState /\ t.interm = s.interm /\ t.buf = b
          /\ t.op = "WRITE" /\ t.state = "SEND_H"
      BY <2>1, <2>2, TimeoutFacts DEF ServerState
    <2>4. GoodStruct(t)
      BY <2>1, <2>3 DEF GoodStruct, Fits
    <2> QED BY <2>4 DEF t
  <1>2. CASE ~find_zodiac(s.buf)
    BY <1>2, FailedFacts DEF parse_client_first_line
  <1> QED BY <1>1, <1>2

\* handle_first_line leaves a good struct, whatever was received.
LEMMA FirstLineFacts ==
    ASSUME TypeOK, NEW s \in ServerState,
           s.state = "RECV_FIRST_LINE", s.op = "READ",
           Len(s.interm) <= ASTROLOG_BUF_LEN, Len(s.buf) <= ASTROLOG_BUF_LEN
    PROVE  GoodStruct(FirstLine(s))
  <1>1. CASE ~LineEnds(s) /\ Rem(s) > 0
    <2>1. GoodStruct(s)
      BY <1>1 DEF GoodStruct, Fits
    <2>2. FirstLine(s) = s
      BY <1>1 DEF FirstLine
    <2> QED BY <2>1, <2>2
  <1>2. CASE LineEnds(s) /\ HasType(STAR_REQUEST_TYPE, s.buf)
    <2>1. ~HasType(CLIENT_REQUEST_TYPE, s.buf)
      BY <1>2 DEF HasType, STAR_REQUEST_TYPE, CLIENT_REQUEST_TYPE
    <2>2. FirstLine(s) = parse_star_first_line(s)
      BY <1>2, <2>1 DEF FirstLine
    <2> QED BY <2>2, ParseStarFacts
  <1>3. CASE LineEnds(s) /\ HasType(CLIENT_REQUEST_TYPE, s.buf)
    <2>1. ~HasType(STAR_REQUEST_TYPE, s.buf)
      BY <1>3 DEF HasType, STAR_REQUEST_TYPE, CLIENT_REQUEST_TYPE
    <2>2. FirstLine(s) = parse_client_first_line(s)
      BY <1>3, <2>1 DEF FirstLine
    <2> QED BY <2>2, ParseClientFacts
  <1>4. CASE /\ ~(~LineEnds(s) /\ Rem(s) > 0)
             /\ ~(LineEnds(s) /\ HasType(STAR_REQUEST_TYPE, s.buf))
             /\ ~(LineEnds(s) /\ HasType(CLIENT_REQUEST_TYPE, s.buf))
    <2>1. FirstLine(s) = Failed(s)
      BY <1>4 DEF FirstLine
    <2> QED BY <2>1, FailedFacts
  <1> QED BY <1>1, <1>2, <1>3, <1>4


-----------------------------------------------------------------------------
\* An iteration of update_state's loop that leaves a good struct behind keeps
\* the invariant: the loop test is what drains interm_buf before a read waits.
LEMMA IteratedInv ==
    ASSUME ServerInv, NEW c \in Conn, NEW s, GoodStruct(s), pc = "update", c = cur,
           Iterated(c, s), net' \in [Conn -> Socket],
           zodiac_prognosises' \in [Zodiac -> [1 .. ASTROLOG_BUF_LEN -> Word]]
    PROVE  ServerInv'
  <1>1. /\ TypeOK /\ BuffersFit /\ EventsAlive /\ EpollMatchesOp /\ ParkedReaderDrained
        /\ OneBatch
    BY DEF ServerInv
  <1>2. s \in ServerState /\ Fits(s) /\ s.state # "FREED"
    BY DEF GoodStruct
  <1>3. /\ ss' = [ss EXCEPT ![c] = s] /\ ss \in [Conn -> ServerState]
        /\ pc' \in {"update", "finish"}
        /\ s.op = "READ" /\ s.interm # <<>> => pc' = "update"
        /\ events' = events /\ expired' = expired /\ cur' = cur /\ init_op' = init_op
        /\ heap' = heap /\ epoll' = epoll /\ backlog' = backlog /\ wait_left' = wait_left
    BY <1>1 DEF Iterated, TypeOK
  <1>4. ss' \in [Conn -> ServerState] /\ ss'[c] = s /\ \A d \in Conn : d # c => ss'[d] = ss[d]
    BY <1>2, <1>3
  <1>5. TypeOK'
    BY <1>1, <1>3, <1>4 DEF TypeOK
  <1>6. BuffersFit'
    <2> SUFFICES ASSUME NEW d \in Conn PROVE Fits(ss[d])'
      BY DEF BuffersFit
    <2> QED BY <1>1, <1>2, <1>4 DEF BuffersFit, Fits, Rem
  <1>7. EventsAlive'
    BY <1>1, <1>2, <1>3, <1>4 DEF EventsAlive
  <1>8. EpollMatchesOp'
    BY <1>1, <1>3, <1>4 DEF EpollMatchesOp, InUpdate
  <1>9. ParkedReaderDrained'
    <2>1. heap \subseteq Conn
      BY <1>1 DEF TypeOK
    <2> QED BY <1>1, <1>3, <1>4, <2>1 DEF ParkedReaderDrained
  <1> QED BY <1>1, <1>3, <1>5, <1>6, <1>7, <1>8, <1>9 DEF ServerInv, OneBatch

\* The struct that update_state works on is allocated and fits its buffers.
LEMMA UpdatingFacts ==
    ASSUME ServerInv, NEW c \in Conn, pc \in {"update", "finish"}, c = cur
    PROVE  /\ TypeOK /\ BuffersFit /\ c \in heap
           /\ GoodStruct(ss[c])
           /\ ss[c].interm \in Seq(Word) /\ ss[c].buf \in Seq(Word)
           /\ Len(ss[c].interm) \in Nat /\ Len(ss[c].buf) \in Nat
           /\ Len(ss[c].interm) <= ASTROLOG_BUF_LEN /\ Len(ss[c].buf) <= ASTROLOG_BUF_LEN
           /\ net[c] \in Socket
  <1>1. TypeOK /\ BuffersFit /\ EventsAlive
    BY DEF ServerInv
  <1>2. ss[c] \in ServerState /\ Fits(ss[c]) /\ net[c] \in Socket
    BY <1>1 DEF TypeOK, BuffersFit
  <1>3. c \in heap /\ ss[c].state # "FREED"
    BY <1>1 DEF EventsAlive
  <1>4. ss[c].interm \in Seq(Word) /\ ss[c].buf \in Seq(Word)
    BY <1>2 DEF ServerState
  <1>5. Len(ss[c].interm) \in Nat /\ Len(ss[c].buf) \in Nat
    BY <1>4, LenProperties
  <1> QED BY <1>1, <1>2, <1>3, <1>4, <1>5 DEF GoodStruct, Fits

\* A read leaves words in the socket.
LEMMA ReadSocket ==
    ASSUME TypeOK, BuffersFit, NEW c \in Conn,
           net' = [net EXCEPT ![c].inq = LeftInSocket(c)]
    PROVE  net' \in [Conn -> Socket]
  <1>1. LeftInSocket(c) \in Seq(Word) /\ net \in [Conn -> Socket]
    BY BufferedFacts DEF TypeOK
  <1>2. [net[c] EXCEPT !.inq = LeftInSocket(c)] \in Socket
    BY <1>1 DEF Socket
  <1> QED BY <1>1, <1>2

\* handle_first_line.
LEMMA HandleFirstLineInv ==
    ASSUME ServerInv, NEW c \in Conn, handle_first_line(c)
    PROVE  ServerInv'
  <1>1. /\ pc = "update" /\ c = cur /\ ss[c].state = "RECV_FIRST_LINE"
        /\ zodiac_prognosises' = zodiac_prognosises
    BY DEF handle_first_line, Handling
  <1>2. /\ TypeOK /\ BuffersFit /\ GoodStruct(ss[c]) /\ ss[c] \in ServerState
        /\ Len(ss[c].interm) <= ASTROLOG_BUF_LEN /\ Len(ss[c].buf) <= ASTROLOG_BUF_LEN
    BY <1>1, UpdatingFacts DEF GoodStruct
  <1>3. /\ zodiac_prognosises' \in [Zodiac -> [1 .. ASTROLOG_BUF_LEN -> Word]]
        /\ net \in [Conn -> Socket]
    BY <1>1, <1>2 DEF TypeOK
  <1>4. CASE RecvFailed(c) /\ Iterated(c, Failed(ss[c])) /\ UNCHANGED net
    BY <1>1, <1>2, <1>3, <1>4, FailedFacts, IteratedInv
  <1>5. CASE /\ Iterated(c, [ss[c] EXCEPT !.state = IF ss[c].buf = <<>> THEN "SUCCESS"
                                                   ELSE "ERROR"])
             /\ UNCHANGED net
    <2> DEFINE s == [ss[c] EXCEPT !.state = IF ss[c].buf = <<>> THEN "SUCCESS" ELSE "ERROR"]
    <2>1. GoodStruct(s)
      BY <1>2 DEF GoodStruct, Fits, ServerState
    <2>2. Iterated(c, s) /\ net' \in [Conn -> Socket]
      BY <1>3, <1>5
    <2> HIDE DEF s
    <2> QED BY <1>1, <1>3, <2>1, <2>2, IteratedInv
  <1>6. CASE \E n \in 1 .. ASTROLOG_BUF_LEN :
                /\ ChunkSize(Buffered(c), Rem(ss[c]), n)
                /\ net' = [net EXCEPT ![c].inq = LeftInSocket(c)]
                /\ Iterated(c, FirstLine(Received(c, n)))
    <2>1. PICK n \in 1 .. ASTROLOG_BUF_LEN :
                /\ ChunkSize(Buffered(c), Rem(ss[c]), n)
                /\ net' = [net EXCEPT ![c].inq = LeftInSocket(c)]
                /\ Iterated(c, FirstLine(Received(c, n)))
      BY <1>6
    <2> DEFINE s == Received(c, n)
    <2>2. /\ s \in ServerState /\ s.state = "RECV_FIRST_LINE" /\ s.op = "READ"
          /\ Len(s.interm) <= ASTROLOG_BUF_LEN /\ Len(s.buf) \in 1 .. ASTROLOG_BUF_LEN
      BY <1>1, <1>2, <2>1, ReceivedFacts
    <2> HIDE DEF s
    <2>3. Len(s.buf) <= ASTROLOG_BUF_LEN
      BY <2>2, AstrologAssumption
    <2>4. GoodStruct(FirstLine(s))
      BY <1>2, <2>2, <2>3, FirstLineFacts
    <2>5. Iterated(c, FirstLine(s))
      BY <2>1 DEF s
    <2>6. net' \in [Conn -> Socket]
      BY <1>2, <2>1, ReadSocket
    <2> QED BY <1>1, <1>3, <2>4, <2>5, <2>6, IteratedInv
  <1> QED BY <1>4, <1>5, <1>6 DEF handle_first_line

\* handle_recv_h: the row that is overwritten stays a row.
LEMMA HandleRecvHInv ==
    ASSUME ServerInv, NEW c \in Conn, handle_recv_h(c)
    PROVE  ServerInv'
  <1>1. pc = "update" /\ c = cur /\ ss[c].state = "RECV_H"
    BY DEF handle_recv_h, Handling
  <1>2. /\ TypeOK /\ BuffersFit /\ GoodStruct(ss[c]) /\ ss[c] \in ServerState
        /\ Len(ss[c].interm) <= ASTROLOG_BUF_LEN /\ Len(ss[c].buf) <= ASTROLOG_BUF_LEN
    BY <1>1, UpdatingFacts DEF GoodStruct
  <1>3. /\ zodiac_prognosises \in [Zodiac -> [1 .. ASTROLOG_BUF_LEN -> Word]]
        /\ net \in [Conn -> Socket]
    BY <1>2 DEF TypeOK
  <1>4. CASE Iterated(c, Failed(ss[c])) /\ UNCHANGED <<net, zodiac_prognosises>>
    BY <1>1, <1>2, <1>3, <1>4, FailedFacts, IteratedInv
  <1>5. CASE \E n \in 1 .. ASTROLOG_BUF_LEN :
                LET s == Received(c, n) IN
                /\ ChunkSize(Buffered(c), Rem(ss[c]), n)
                /\ net' = [net EXCEPT ![c].inq = LeftInSocket(c)]
                /\ \/ /\ LineEnds(s)
                      /\ zodiac_prognosises' =
                            [zodiac_prognosises EXCEPT ![s.zodiac_ix] = Overwritten(@, s.buf)]
                      /\ Iterated(c, [s EXCEPT !.buf = STAR_REPLY_SUCCESS, !.zodiac_ix = NONE,
                                               !.state = "SEND_THANKS", !.op = "WRITE",
                                               !.ttl = update_ts("WRITE")])
                   \/ /\ ~LineEnds(s)
                      /\ Iterated(c, IF Rem(s) = 0 THEN Failed(s) ELSE s)
                      /\ UNCHANGED zodiac_prognosises
    <2> SUFFICES ASSUME NEW n \in 1 .. ASTROLOG_BUF_LEN, NEW s, s = Received(c, n),
                        ChunkSize(Buffered(c), Rem(ss[c]), n),
                        net' = [net EXCEPT ![c].inq = LeftInSocket(c)],
                        \/ /\ LineEnds(s)
                           /\ zodiac_prognosises' =
                                 [zodiac_prognosises EXCEPT ![s.zodiac_ix] =
                                                               Overwritten(@, s.buf)]
                           /\ Iterated(c, [s EXCEPT !.buf = STAR_REPLY_SUCCESS,
                                                    !.zodiac_ix = NONE,
                                                    !.state = "SEND_THANKS", !.op = "WRITE",
                                                    !.ttl = update_ts("WRITE")])
                        \/ /\ ~LineEnds(s)
                           /\ Iterated(c, IF Rem(s) = 0 THEN Failed(s) ELSE s)
                           /\ UNCHANGED zodiac_prognosises
                 PROVE  ServerInv'
      BY <1>5
    <2>1. /\ s \in ServerState /\ s.state = "RECV_H" /\ s.op = "READ"
          /\ Len(s.interm) <= ASTROLOG_BUF_LEN /\ Len(s.buf) \in 1 .. ASTROLOG_BUF_LEN
          /\ s.zodiac_ix = ss[c].zodiac_ix
          /\ \A i \in 1 .. Len(s.buf) : s.buf[i] \in Word
      BY <1>1, <1>2, ReceivedFacts
    <2>2. Len(s.buf) <= ASTROLOG_BUF_LEN
      BY <2>1, AstrologAssumption
    <2>3. net' \in [Conn -> Socket]
      BY <1>2, ReadSocket
    <2>4. s.zodiac_ix \in Zodiac /\ s.zodiac_ix # NONE
      BY <1>1, <1>2, <2>1 DEF GoodStruct, Fits, ServerState
    <2>5. CASE /\ zodiac_prognosises' =
                     [zodiac_prognosises EXCEPT ![s.zodiac_ix] = Overwritten(@, s.buf)]
               /\ Iterated(c, [s EXCEPT !.buf = STAR_REPLY_SUCCESS, !.zodiac_ix = NONE,
                                        !.state = "SEND_THANKS", !.op = "WRITE",
                                        !.ttl = update_ts("WRITE")])
      <3> DEFINE t == [s EXCEPT !.buf = STAR_REPLY_SUCCESS, !.zodiac_ix = NONE,
                                !.state = "SEND_THANKS", !.op = "WRITE",
                                !.ttl = update_ts("WRITE")]
                 row == zodiac_prognosises[s.zodiac_ix]
      <3>1. /\ t \in ServerState /\ t.interm = s.interm /\ t.buf = STAR_REPLY_SUCCESS
            /\ t.op = "WRITE" /\ t.state = "SEND_THANKS"
        BY <2>1, ReplyFacts, TimeoutFacts DEF ServerState
      <3>2. Iterated(c, t)
        BY <2>5
      <3>3. row \in [1 .. ASTROLOG_BUF_LEN -> Word]
        BY <1>3, <2>4
      <3>4. Overwritten(row, s.buf) \in [1 .. ASTROLOG_BUF_LEN -> Word]
        BY <2>1, <3>3, AstrologAssumption DEF Overwritten
      <3>5. zodiac_prognosises' = [zodiac_prognosises EXCEPT ![s.zodiac_ix] =
                                                                Overwritten(row, s.buf)]
        BY <1>3, <2>4, <2>5
      <3> HIDE DEF t, row
      <3>6. GoodStruct(t)
        BY <2>1, <3>1, ReplyFacts, AstrologAssumption DEF GoodStruct, Fits
      <3>7. zodiac_prognosises' \in [Zodiac -> [1 .. ASTROLOG_BUF_LEN -> Word]]
        BY <1>3, <3>4, <3>5
      <3> QED BY <1>1, <2>3, <3>2, <3>6, <3>7, IteratedInv
    <2>6. CASE Iterated(c, IF Rem(s) = 0 THEN Failed(s) ELSE s) /\ UNCHANGED zodiac_prognosises
      <3> DEFINE t == IF Rem(s) = 0 THEN Failed(s) ELSE s
      <3>1. GoodStruct(t)
        <4>1. CASE Rem(s) = 0
          BY <2>1, <2>2, <4>1, FailedFacts
        <4>2. CASE Rem(s) # 0
          <5>1. Rem(s) > 0
            BY <2>1, <2>2, <4>2, BufferLength DEF Rem
          <5>2. GoodStruct(s)
            <6> HIDE DEF t
            <6> QED BY <2>1, <2>2, <2>4, <5>1 DEF GoodStruct, Fits
          <5> QED BY <4>2, <5>2
        <4> QED BY <4>1, <4>2
      <3>2. Iterated(c, t)
        BY <2>6
      <3> HIDE DEF t
      <3>3. zodiac_prognosises' \in [Zodiac -> [1 .. ASTROLOG_BUF_LEN -> Word]]
        BY <1>3, <2>6, Zenon
      <3> QED BY <1>1, <2>3, <3>1, <3>2, <3>3, IteratedInv
    <2> QED BY <2>5, <2>6
  <1> QED BY <1>4, <1>5 DEF handle_recv_h

\* send takes no more than there is room for, and what it left unsent
\* is what handle_send_reply keeps.
LEMMA SendFacts ==
    ASSUME ServerInv, NEW c \in Conn, pc = "update", c = cur,
           ss[c].state \in {"SEND_THANKS", "SEND_H"}
    PROVE  /\ SendSize(c) \in 0 .. Len(ss[c].buf)
           /\ net[c].peer # "fin" => SendSize(c) <= SNDBUF - net[c].unread
           /\ First(ss[c].buf, SendSize(c)) \in Seq(Word)
           /\ GoodStruct(Sent(c))
  <1>1. /\ GoodStruct(ss[c]) /\ ss[c].buf \in Seq(Word) /\ Len(ss[c].buf) \in Nat
        /\ ss[c] \in ServerState
        /\ Len(ss[c].interm) <= ASTROLOG_BUF_LEN /\ Len(ss[c].buf) <= ASTROLOG_BUF_LEN
        /\ net[c] \in Socket
    BY UpdatingFacts DEF GoodStruct
  <1>2. net[c].unread \in 0 .. SNDBUF /\ SNDBUF \in Nat
    BY <1>1, AstrologAssumption DEF Socket
  <1>3. /\ SendSize(c) \in 0 .. Len(ss[c].buf)
        /\ net[c].peer # "fin" => SendSize(c) <= SNDBUF - net[c].unread
    BY <1>1, <1>2 DEF SendSize, MIN
  <1> DEFINE rest == After(ss[c].buf, SendSize(c))
  <1>4. /\ First(ss[c].buf, SendSize(c)) \in Seq(Word)
        /\ rest \in Seq(Word) /\ Len(rest) = Len(ss[c].buf) - SendSize(c)
    BY <1>1, <1>3, CutFacts
  <1>5. GoodStruct(Sent(c))
    <2>1. CASE rest = <<>>
      <3> DEFINE e == <<>>
                 t == [ss[c] EXCEPT !.buf = e, !.state = "RECV_FIRST_LINE", !.op = "READ",
                                    !.ttl = update_ts("READ")]
      <3>1. Sent(c) = t
        BY <2>1 DEF Sent
      <3>2. e \in Seq(Word) /\ Len(e) = 0
        OBVIOUS
      <3> HIDE DEF e
      <3>3. /\ t \in ServerState /\ t.interm = ss[c].interm /\ t.buf = e
            /\ t.op = "READ" /\ t.state = "RECV_FIRST_LINE"
        BY <1>1, <3>2, TimeoutFacts DEF ServerState
      <3> HIDE DEF t
      <3>4. GoodStruct(t)
        BY <1>1, <3>2, <3>3, AstrologAssumption DEF GoodStruct, Fits, Rem
      <3> QED BY <3>1, <3>4
    <2>2. CASE rest # <<>>
      <3> DEFINE t == [ss[c] EXCEPT !.buf = rest]
      <3>1. Sent(c) = t
        BY <2>2 DEF Sent
      <3> HIDE DEF rest
      <3>2. Len(rest) <= ASTROLOG_BUF_LEN
        BY <1>1, <1>3, <1>4, AstrologAssumption
      <3>3. /\ t \in ServerState /\ t.interm = ss[c].interm /\ t.buf = rest
            /\ t.op = ss[c].op /\ t.state = ss[c].state
        BY <1>1, <1>4 DEF ServerState
      <3> HIDE DEF t
      <3>4. GoodStruct(t)
        BY <1>1, <2>2, <3>2, <3>3 DEF GoodStruct, Fits
      <3> QED BY <3>1, <3>4
    <2> QED BY <2>1, <2>2
  <1> QED BY <1>3, <1>4, <1>5

\* remove_server_state leaves the other connections as they are.
LEMMA RemovedFacts ==
    ASSUME TypeOK, BuffersFit, NEW C, remove_server_state(C)
    PROVE  /\ heap' = heap \ C
           /\ epoll' \in [Conn -> {"none", "IN", "OUT"}]
           /\ ss' \in [Conn -> ServerState] /\ net' \in [Conn -> Socket]
           /\ BuffersFit'
           /\ \A c \in Conn \cap C : ss'[c].state = "FREED" /\ epoll'[c] = "none"
           /\ \A c \in Conn \ C : ss'[c] = ss[c] /\ epoll'[c] = epoll[c]
  <1>1. Freed \in ServerState /\ NoSocket \in Socket /\ Freed.state = "FREED"
    BY AstrologAssumption DEF Freed, NoSocket, ServerState, Socket
  <1>2. Fits(Freed)
    BY AstrologAssumption DEF Freed, Fits
  <1>3. /\ heap' = heap \ C
        /\ epoll' = [c \in Conn |-> IF c \in C THEN "none" ELSE epoll[c]]
        /\ ss' = [c \in Conn |-> IF c \in C THEN Freed ELSE ss[c]]
        /\ net' = [c \in Conn |-> IF c \in C THEN NoSocket ELSE net[c]]
    BY DEF remove_server_state
  <1>4. /\ epoll \in [Conn -> {"none", "IN", "OUT"}] /\ ss \in [Conn -> ServerState]
        /\ net \in [Conn -> Socket]
    BY DEF TypeOK
  <1>5. BuffersFit'
    <2> SUFFICES ASSUME NEW c \in Conn PROVE Fits(ss[c])'
      BY DEF BuffersFit
    <2>1. ss'[c] = Freed \/ ss'[c] = ss[c]
      BY <1>3
    <2>2. Fits(ss'[c])
      BY <1>2, <2>1 DEF BuffersFit
    <2> QED BY <2>2 DEF Fits, Rem
  <1> QED BY <1>1, <1>3, <1>4, <1>5

\* A connection that could not be set up leaves nothing behind, pushed or not.
LEMMA UndoneFacts ==
    ASSUME TypeOK, NEW c \in Conn, Undone(c), net' = [net EXCEPT ![c] = NoSocket]
    PROVE  remove_server_state({c})
  <1>1. /\ epoll \in [Conn -> {"none", "IN", "OUT"}] /\ ss \in [Conn -> ServerState]
        /\ net \in [Conn -> Socket]
    BY DEF TypeOK
  <1>2. heap' = heap \ {c}
    BY DEF Undone
  <1>3. epoll' = [d \in Conn |-> IF d \in {c} THEN "none" ELSE epoll[d]]
    BY <1>1 DEF Undone
  <1>4. ss' = [d \in Conn |-> IF d \in {c} THEN Freed ELSE ss[d]]
    BY <1>1 DEF Undone
  <1>5. net' = [d \in Conn |-> IF d \in {c} THEN NoSocket ELSE net[d]]
    BY <1>1
  <1> QED BY <1>2, <1>3, <1>4, <1>5 DEF remove_server_state

\* SIGPIPE leaves no connection behind.
LEMMA KilledInv ==
    ASSUME ServerInv, Killed, zodiac_prognosises' = zodiac_prognosises
    PROVE  ServerInv'
  <1>1. TypeOK /\ BuffersFit
    BY DEF ServerInv
  <1>2. /\ pc' = "killed" /\ events' = {} /\ expired' = {} /\ backlog' = <<>>
        /\ wait_left' = wait_left /\ cur' = cur /\ init_op' = init_op
        /\ remove_server_state(Conn)
    BY DEF Killed
  <1>3. /\ heap' = {} /\ epoll' \in [Conn -> {"none", "IN", "OUT"}]
        /\ ss' \in [Conn -> ServerState] /\ net' \in [Conn -> Socket] /\ BuffersFit'
        /\ \A c \in Conn : ss'[c].state = "FREED" /\ epoll'[c] = "none"
    BY <1>1, <1>2, RemovedFacts DEF TypeOK
  <1> QED BY <1>1, <1>2, <1>3
       DEF ServerInv, OneBatch, TypeOK, EventsAlive, EpollMatchesOp, ParkedReaderDrained

\* handle_send_reply, with a client that reads, left or was reset.
LEMMA HandleSendReplyInv ==
    ASSUME ServerInv, NEW c \in Conn, handle_send_reply(c)
    PROVE  ServerInv'
  <1>1. /\ pc = "update" /\ c = cur /\ ss[c].state \in {"SEND_THANKS", "SEND_H"}
        /\ zodiac_prognosises' = zodiac_prognosises
    BY DEF handle_send_reply, Handling
  <1>2. /\ TypeOK /\ ss[c] \in ServerState /\ net[c] \in Socket
        /\ Len(ss[c].interm) <= ASTROLOG_BUF_LEN /\ Len(ss[c].buf) <= ASTROLOG_BUF_LEN
    BY <1>1, UpdatingFacts DEF GoodStruct
  <1>3. /\ zodiac_prognosises' \in [Zodiac -> [1 .. ASTROLOG_BUF_LEN -> Word]]
        /\ net \in [Conn -> Socket]
    BY <1>1, <1>2 DEF TypeOK
  <1> DEFINE out == net[c].sent \o First(ss[c].buf, SendSize(c))
  <1>4. out \in Seq(Word)
    <2>1. net[c].sent \in Seq(Word) /\ First(ss[c].buf, SendSize(c)) \in Seq(Word)
      BY <1>1, <1>2, SendFacts DEF Socket
    <2> QED BY <2>1, ConcatProperties, Zenon
  <1>5. CASE Killed
    BY <1>1, <1>5, KilledInv
  <1>6. CASE Iterated(c, Failed(ss[c])) /\ UNCHANGED net
    BY <1>1, <1>2, <1>3, <1>6, FailedFacts, IteratedInv
  <1>7. CASE /\ net[c].peer = "open" /\ Iterated(c, Sent(c))
             /\ net' = [net EXCEPT ![c].sent = @ \o First(ss[c].buf, SendSize(c)),
                                   ![c].unread = @ + SendSize(c)]
    <2> DEFINE u == net[c].unread + SendSize(c)
    <2>1. u \in 0 .. SNDBUF
      <3>1. /\ SendSize(c) \in 0 .. Len(ss[c].buf) /\ SendSize(c) <= SNDBUF - net[c].unread
            /\ Len(ss[c].buf) \in Nat
        BY <1>1, <1>7, SendFacts, UpdatingFacts
      <3>2. net[c].unread \in 0 .. SNDBUF /\ SNDBUF \in Nat
        BY <1>2, AstrologAssumption DEF Socket
      <3> QED BY <3>1, <3>2
    <2>2. net' = [net EXCEPT ![c] = [net[c] EXCEPT !.sent = out, !.unread = u]]
      BY <1>3, <1>7, Zenon
    <2> HIDE DEF out, u
    <2>3. [net[c] EXCEPT !.sent = out, !.unread = u] \in Socket
      BY <1>2, <1>4, <2>1 DEF Socket
    <2>4. net' \in [Conn -> Socket]
      BY <1>3, <2>2, <2>3
    <2> QED BY <1>1, <1>3, <1>7, <2>4, SendFacts, IteratedInv
  <1>8. CASE /\ Iterated(c, Sent(c))
             /\ \E p \in {"fin", "rst"} :
                   net' = [net EXCEPT ![c].sent = @ \o First(ss[c].buf, SendSize(c)),
                                      ![c].peer = p]
    <2>1. PICK p \in {"fin", "rst"} :
                   net' = [net EXCEPT ![c].sent = @ \o First(ss[c].buf, SendSize(c)),
                                      ![c].peer = p]
      BY <1>8
    <2>2. net' = [net EXCEPT ![c] = [net[c] EXCEPT !.sent = out, !.peer = p]]
      BY <1>3, <2>1, Zenon
    <2> HIDE DEF out
    <2>3. [net[c] EXCEPT !.sent = out, !.peer = p] \in Socket
      BY <1>2, <1>4, <2>1 DEF Socket
    <2>4. net' \in [Conn -> Socket]
      BY <1>3, <2>2, <2>3
    <2> QED BY <1>1, <1>3, <1>8, <2>4, SendFacts, IteratedInv
  <1> QED BY <1>5, <1>6, <1>7, <1>8 DEF handle_send_reply

\* An iteration of update_state that handles nothing.
LEMMA NothingToHandleInv ==
    ASSUME ServerInv, NEW c \in Conn, NothingToHandle(c)
    PROVE  ServerInv'
  <1>1. /\ pc = "update" /\ c = cur /\ Iterated(c, ss[c])
        /\ net' = net /\ zodiac_prognosises' = zodiac_prognosises
    BY DEF NothingToHandle, Handling
  <1>2. GoodStruct(ss[c]) /\ TypeOK
    BY <1>1, UpdatingFacts
  <1> QED BY <1>1, <1>2, IteratedInv DEF TypeOK

\* update_state's end: a struct is freed only when no event points to it, and
\* the registration follows the operation that the struct waits for.
LEMMA FinishInv ==
    ASSUME ServerInv, NEW c \in Conn, Finish(c)
    PROVE  ServerInv'
  <1>1. /\ TypeOK /\ BuffersFit /\ EventsAlive /\ EpollMatchesOp /\ ParkedReaderDrained
        /\ OneBatch
    BY DEF ServerInv
  <1>2. /\ pc = "finish" /\ c = cur /\ cur' = NONE /\ init_op' = "READ"
        /\ wait_left' = wait_left /\ events' = events /\ expired' = expired
        /\ zodiac_prognosises' = zodiac_prognosises /\ backlog' = backlog
    BY DEF Finish
  <1>3. c \in heap /\ c \notin events /\ c \notin expired /\ c # LISTEN
    BY <1>1, <1>2, AstrologAssumption DEF EventsAlive
  <1>4. CASE remove_server_state({c}) /\ pc' = "run"
    <2>1. /\ heap' = heap \ {c} /\ epoll' \in [Conn -> {"none", "IN", "OUT"}]
          /\ ss' \in [Conn -> ServerState] /\ net' \in [Conn -> Socket] /\ BuffersFit'
          /\ ss'[c].state = "FREED" /\ epoll'[c] = "none"
          /\ \A d \in Conn : d # c => ss'[d] = ss[d] /\ epoll'[d] = epoll[d]
      BY <1>1, <1>4, RemovedFacts
    <2>2. TypeOK'
      BY <1>1, <1>2, <1>4, <2>1 DEF TypeOK
    <2>3. EventsAlive'
      BY <1>1, <1>2, <1>3, <1>4, <2>1 DEF EventsAlive
    <2>4. EpollMatchesOp'
      BY <1>1, <1>2, <1>4, <2>1 DEF EpollMatchesOp, InUpdate
    <2>5. ParkedReaderDrained'
      BY <1>1, <1>2, <1>4, <2>1 DEF ParkedReaderDrained, TypeOK
    <2> QED BY <1>1, <1>2, <1>4, <2>1, <2>2, <2>3, <2>4, <2>5 DEF ServerInv, OneBatch
  <1>5. CASE /\ UNCHANGED <<heap, ss, net>>
             /\ epoll' = [epoll EXCEPT ![c] = Registration(c)]
             /\ pc' = "run"
    <2>1. epoll[c] = IF init_op = "READ" THEN "IN" ELSE "OUT"
      BY <1>1, <1>2, <1>3 DEF EpollMatchesOp, InUpdate
    <2>2. /\ ss[c].op \in {"READ", "WRITE"} /\ init_op \in {"READ", "WRITE"}
          /\ epoll \in [Conn -> {"none", "IN", "OUT"}]
      BY <1>1 DEF TypeOK, ServerState
    <2>3. /\ epoll'[c] = IF ss[c].op = "READ" THEN "IN" ELSE "OUT"
          /\ epoll' \in [Conn -> {"none", "IN", "OUT"}]
          /\ \A d \in Conn : d # c => epoll'[d] = epoll[d]
      BY <1>5, <2>1, <2>2 DEF Registration
    <2>4. TypeOK'
      BY <1>1, <1>2, <1>5, <2>3 DEF TypeOK
    <2>5. EventsAlive'
      BY <1>1, <1>2, <1>5 DEF EventsAlive
    <2>6. EpollMatchesOp'
      <3>1. ~\E d \in Conn : InUpdate(d)'
        BY <1>5 DEF InUpdate
      <3>2. \A d \in Conn : InUpdate(d) <=> d = c
        BY <1>2 DEF InUpdate
      <3>3. heap' = heap /\ ss' = ss /\ pc = "finish" /\ pc' = "run"
        BY <1>2, <1>5
      <3> QED BY <1>1, <1>3, <2>3, <3>1, <3>2, <3>3 DEF EpollMatchesOp
    <2> QED BY <1>1, <1>2, <1>5, <2>4, <2>5, <2>6
         DEF ServerInv, OneBatch, BuffersFit, ParkedReaderDrained
  <1>6. CASE UNCHANGED <<heap, ss, net, epoll>> /\ pc' = "free"
    BY <1>1, <1>2, <1>6
       DEF ServerInv, OneBatch, TypeOK, BuffersFit, EventsAlive, EpollMatchesOp, ParkedReaderDrained
  <1> QED BY <1>4, <1>5, <1>6 DEF Finish

\* The loop of main and the clean-up after it.
LEMMA LoopInv ==
    ASSUME ServerInv,
           epoll_wait \/ EventsReported \/ WaitTimedOut \/ WaitFailed \/ Exit
    PROVE  ServerInv'
  <1>1. /\ TypeOK /\ BuffersFit /\ EventsAlive /\ EpollMatchesOp /\ ParkedReaderDrained
        /\ OneBatch
    BY DEF ServerInv
  <1>2. CASE epoll_wait
    <2>1. wait_left' \in Nat \cup {-1}
      <3>1. CASE heap = {}
        BY <1>2, <3>1 DEF epoll_wait, min_timeout
      <3>2. CASE heap # {}
        <4>1. PICK c \in Top : wait_left' = (ss[c].ttl \div MS) * MS
          BY <1>2, <3>2 DEF epoll_wait, min_timeout
        <4>2. ss[c].ttl \in Nat /\ MS \in Nat \ {0}
          BY <1>1, AstrologAssumption DEF Top, TypeOK, ServerState
        <4>3. ss[c].ttl \div MS \in Nat
          BY <4>2
        <4>4. \A a, b \in Nat : a * b \in Nat
          OBVIOUS
        <4> QED BY <4>1, <4>2, <4>3, <4>4
      <3> QED BY <3>1, <3>2
    <2> QED BY <1>1, <1>2, <2>1
         DEF epoll_wait, server, ServerInv, OneBatch, TypeOK, BuffersFit, EventsAlive, EpollMatchesOp,
             InUpdate, ParkedReaderDrained
  <1>3. CASE EventsReported
    <2>1. events' \subseteq heap \cup {LISTEN} /\ (LISTEN \in events' => backlog # <<>>)
      BY <1>1, <1>3, AstrologAssumption DEF EventsReported, Ready, TypeOK
    <2> QED BY <1>1, <1>3, <2>1
         DEF EventsReported, server, ServerInv, OneBatch, TypeOK, BuffersFit, EventsAlive,
             EpollMatchesOp, InUpdate, ParkedReaderDrained
  <1>4. CASE WaitTimedOut
    <2>1. expired' \subseteq heap
      BY <1>4 DEF WaitTimedOut, Expired
    <2> QED BY <1>1, <1>4, <2>1
         DEF WaitTimedOut, server, ServerInv, OneBatch, TypeOK, BuffersFit, EventsAlive,
             EpollMatchesOp, InUpdate, ParkedReaderDrained
  <1>5. CASE WaitFailed
    BY <1>1, <1>5
       DEF WaitFailed, server, ServerInv, OneBatch, TypeOK, BuffersFit, EventsAlive,
           EpollMatchesOp, InUpdate, ParkedReaderDrained
  <1>6. CASE Exit
    <2>1. net' \in [Conn -> Socket]
      BY <1>6, AstrologAssumption DEF Exit, NoSocket, Socket
    <2> QED BY <1>1, <1>6, <2>1
         DEF Exit, server, ServerInv, OneBatch, TypeOK, BuffersFit, EventsAlive,
             EpollMatchesOp, InUpdate, ParkedReaderDrained
  <1> QED BY <1>2, <1>3, <1>4, <1>5, <1>6

\* process_new_connection: accepted, rejected or failed.
LEMMA NewConnectionInv ==
    ASSUME ServerInv, process_new_connection
    PROVE  ServerInv'
  <1>1. /\ TypeOK /\ BuffersFit /\ EventsAlive /\ EpollMatchesOp /\ ParkedReaderDrained
        /\ OneBatch
    BY DEF ServerInv
  <1>2. /\ pc = "run" /\ LISTEN \in events /\ events' = events \ {LISTEN}
        /\ wait_left' = wait_left /\ expired' = expired /\ cur' = cur /\ init_op' = init_op
    BY DEF process_new_connection
  <1>3. backlog # <<>> /\ backlog \in Seq(Conn)
    BY <1>1, <1>2 DEF EventsAlive, TypeOK
  <1>4. Head(backlog) \in Conn /\ Tail(backlog) \in Seq(Conn)
    BY <1>3, HeadTailProperties
  <1>5. CASE pc' = "free" /\ UNCHANGED <<server, net, backlog>>
    BY <1>1, <1>2, <1>5
       DEF server, ServerInv, OneBatch, TypeOK, BuffersFit, EventsAlive, EpollMatchesOp,
           ParkedReaderDrained
  <1> DEFINE c == Head(backlog)
  <1>6. CASE /\ heap' = heap \cup {c} /\ epoll' = [epoll EXCEPT ![c] = "IN"]
             /\ ss' = [ss EXCEPT ![c] = Created] /\ UNCHANGED <<pc, net>>
             /\ backlog' = Tail(backlog) /\ UNCHANGED zodiac_prognosises
    <2>1. c \in Conn
      BY <1>4
    <2> HIDE DEF c
    <2>2. /\ Created \in ServerState /\ Created.state = "RECV_FIRST_LINE"
          /\ Created.op = "READ" /\ Created.interm = <<>> /\ Created.buf = <<>>
      <3>1. /\ Freed \in ServerState /\ Freed.op = "READ"
            /\ Freed.interm = <<>> /\ Freed.buf = <<>>
        BY DEF Freed, ServerState
      <3> QED BY <3>1, AstrologAssumption DEF Created, ServerState
    <2>3. Fits(Created)
      <3>1. Len(Created.interm) = 0 /\ Len(Created.buf) = 0
        BY <2>2
      <3> QED BY <2>2, <3>1, AstrologAssumption DEF Fits, Rem
    <2>4. /\ ss' \in [Conn -> ServerState] /\ ss'[c] = Created
          /\ epoll' \in [Conn -> {"none", "IN", "OUT"}] /\ epoll'[c] = "IN"
          /\ \A d \in Conn : d # c => ss'[d] = ss[d] /\ epoll'[d] = epoll[d]
      BY <1>1, <1>6, <2>1, <2>2 DEF TypeOK
    <2>5. TypeOK'
      BY <1>1, <1>2, <1>4, <1>6, <2>1, <2>4 DEF TypeOK
    <2>6. BuffersFit'
      <3> SUFFICES ASSUME NEW d \in Conn PROVE Fits(ss[d])'
        BY DEF BuffersFit
      <3>1. Fits(ss'[d])
        BY <1>1, <2>3, <2>4 DEF BuffersFit
      <3> QED BY <3>1 DEF Fits, Rem
    <2>7. EventsAlive'
      BY <1>1, <1>2, <1>6, <2>1, <2>2, <2>4 DEF EventsAlive
    <2>8. EpollMatchesOp'
      BY <1>1, <1>2, <1>6, <2>1, <2>2, <2>4 DEF EpollMatchesOp, InUpdate
    <2>9. ParkedReaderDrained'
      BY <1>1, <1>2, <1>6, <2>1, <2>2, <2>4 DEF ParkedReaderDrained, TypeOK
    <2> QED BY <1>1, <1>2, <1>6, <2>5, <2>6, <2>7, <2>8, <2>9 DEF ServerInv, OneBatch
  <1>7. CASE /\ net' = [net EXCEPT ![c] = NoSocket] /\ UNCHANGED <<heap, epoll, ss>>
             /\ pc' \in {pc, "free"}
             /\ backlog' = Tail(backlog) /\ UNCHANGED zodiac_prognosises
    <2>1. net' \in [Conn -> Socket]
      <3>1. NoSocket \in Socket
        BY AstrologAssumption DEF NoSocket, Socket
      <3> QED BY <1>1, <1>7, <3>1 DEF TypeOK
    <2> HIDE DEF c
    <2> QED BY <1>1, <1>2, <1>4, <1>7, <2>1
         DEF ServerInv, OneBatch, TypeOK, BuffersFit, EventsAlive, EpollMatchesOp, InUpdate,
             ParkedReaderDrained
  <1>8. CASE /\ Undone(c) /\ net' = [net EXCEPT ![c] = NoSocket] /\ pc' = "free"
             /\ backlog' = Tail(backlog) /\ UNCHANGED zodiac_prognosises
    <2>1. c \in Conn
      BY <1>4
    <2> HIDE DEF c
    <2>2. /\ heap' = heap \ {c} /\ epoll' \in [Conn -> {"none", "IN", "OUT"}]
          /\ ss' \in [Conn -> ServerState] /\ net' \in [Conn -> Socket] /\ BuffersFit'
          /\ ss'[c].state = "FREED" /\ epoll'[c] = "none"
          /\ \A d \in Conn : d # c => ss'[d] = ss[d] /\ epoll'[d] = epoll[d]
      <3>1. remove_server_state({c})
        BY <1>1, <1>8, <2>1, UndoneFacts
      <3> QED BY <1>1, <2>1, <3>1, RemovedFacts
    <2>3. TypeOK' /\ OneBatch'
      BY <1>1, <1>2, <1>4, <1>8, <2>2 DEF TypeOK, OneBatch
    <2>4. EventsAlive' /\ EpollMatchesOp'
      BY <1>1, <1>2, <1>8, <2>1, <2>2 DEF EventsAlive, EpollMatchesOp
    <2>5. ParkedReaderDrained'
      BY <1>1, <1>2, <1>8, <2>1, <2>2 DEF ParkedReaderDrained, TypeOK
    <2> QED BY <2>2, <2>3, <2>4, <2>5 DEF ServerInv
  <1> QED BY <1>5, <1>6, <1>7, <1>8
       DEF process_new_connection, create_server_state, Rejected, SetupFailed

\* The first step of update_state, for an event or for an expired connection.
LEMMA StartUpdateInv ==
    ASSUME ServerInv, NEW c \in Conn, discard_expired_connections(c) \/ Dispatch(c)
    PROVE  ServerInv'
  <1>1. /\ TypeOK /\ BuffersFit /\ EventsAlive /\ EpollMatchesOp /\ ParkedReaderDrained
        /\ OneBatch
    BY DEF ServerInv
  <1>2. ss[c] \in ServerState /\ ss \in [Conn -> ServerState] /\ ss[c].op \in {"READ", "WRITE"}
    BY <1>1 DEF TypeOK, ServerState
  <1>3. c # LISTEN
    BY AstrologAssumption
  <1>4. CASE Dispatch(c)
    BY <1>1, <1>2, <1>3, <1>4
       DEF Dispatch, server, ServerInv, OneBatch, TypeOK, BuffersFit, EventsAlive, EpollMatchesOp,
           InUpdate, ParkedReaderDrained
  <1>5. CASE discard_expired_connections(c)
    <2>1. /\ pc = "run" /\ c \in expired /\ expired' = expired \ {c}
          /\ ss' = [ss EXCEPT ![c] = Failed(ss[c])]
          /\ pc' = "update" /\ cur' = c /\ init_op' = ss[c].op
          /\ wait_left' = wait_left /\ events' = events /\ heap' = heap /\ epoll' = epoll
          /\ zodiac_prognosises' = zodiac_prognosises /\ net' = net /\ backlog' = backlog
      BY <1>2, <1>5 DEF discard_expired_connections, Failed
    <2>2. c \in heap /\ events \ {LISTEN} \subseteq heap /\ expired \subseteq heap
      BY <1>1, <2>1 DEF EventsAlive
    <2>3. events = {}
      BY <1>1, <2>1 DEF OneBatch
    <2>4. /\ Failed(ss[c]) \in ServerState /\ Fits(Failed(ss[c]))
          /\ Failed(ss[c]).state # "FREED" /\ Failed(ss[c]).op = ss[c].op
          /\ Failed(ss[c]).interm = ss[c].interm
      <3>1. Len(ss[c].interm) <= ASTROLOG_BUF_LEN /\ Len(ss[c].buf) <= ASTROLOG_BUF_LEN
        BY <1>1 DEF BuffersFit, Fits
      <3>2. GoodStruct(Failed(ss[c]))
        BY <1>2, <3>1, FailedFacts
      <3> QED BY <1>2, <3>2 DEF Failed, GoodStruct, ServerState
    <2>5. /\ ss' \in [Conn -> ServerState] /\ ss'[c] = Failed(ss[c])
          /\ \A d \in Conn : d # c => ss'[d] = ss[d]
      BY <1>2, <2>1, <2>4
    <2>6. TypeOK'
      BY <1>1, <1>2, <2>1, <2>5 DEF TypeOK
    <2>7. BuffersFit'
      <3> SUFFICES ASSUME NEW d \in Conn PROVE Fits(ss[d])'
        BY DEF BuffersFit
      <3>1. Fits(ss'[d])
        BY <1>1, <2>4, <2>5 DEF BuffersFit
      <3> QED BY <3>1 DEF Fits, Rem
    <2>8. EventsAlive'
      BY <1>1, <2>1, <2>2, <2>3, <2>4, <2>5 DEF EventsAlive
    <2>9. EpollMatchesOp'
      BY <1>1, <2>1, <2>2, <2>4, <2>5 DEF EpollMatchesOp, InUpdate
    <2>10. ParkedReaderDrained'
      BY <1>1, <2>1, <2>4, <2>5 DEF ParkedReaderDrained, TypeOK
    <2> QED BY <2>1, <2>3, <2>6, <2>7, <2>8, <2>9, <2>10 DEF ServerInv, OneBatch
  <1> QED BY <1>4, <1>5

\* The clean-up of main frees each struct of the heap.
LEMMA FreeHeapElemInv ==
    ASSUME ServerInv, NEW c \in Conn, FreeHeapElem(c)
    PROVE  ServerInv'
  <1>1. /\ TypeOK /\ BuffersFit /\ EventsAlive /\ EpollMatchesOp /\ ParkedReaderDrained
        /\ OneBatch
    BY DEF ServerInv
  <1>2. /\ pc = "free" /\ pc' = pc /\ wait_left' = wait_left /\ events' = events
        /\ expired' = expired /\ cur' = cur /\ init_op' = init_op /\ backlog' = backlog
        /\ zodiac_prognosises' = zodiac_prognosises /\ remove_server_state({c})
    BY DEF FreeHeapElem, process
  <1>3. /\ heap' = heap \ {c} /\ epoll' \in [Conn -> {"none", "IN", "OUT"}]
        /\ ss' \in [Conn -> ServerState] /\ net' \in [Conn -> Socket] /\ BuffersFit'
        /\ ss'[c].state = "FREED" /\ epoll'[c] = "none"
        /\ \A d \in Conn : d # c => ss'[d] = ss[d] /\ epoll'[d] = epoll[d]
    BY <1>1, <1>2, RemovedFacts
  <1>4. TypeOK' /\ OneBatch'
    BY <1>1, <1>2, <1>3 DEF TypeOK, OneBatch
  <1>5. EventsAlive' /\ EpollMatchesOp'
    BY <1>1, <1>2, <1>3 DEF EventsAlive, EpollMatchesOp
  <1>6. ParkedReaderDrained'
    BY <1>1, <1>2, <1>3 DEF ParkedReaderDrained, TypeOK
  <1> QED BY <1>3, <1>4, <1>5, <1>6 DEF ServerInv

\* Whatever the clients do, the server's own state is its own.
LEMMA ClientInv ==
    ASSUME ServerInv, NEW c \in Conn, Client(c)
    PROVE  ServerInv'
  <1>1. /\ TypeOK /\ BuffersFit /\ EventsAlive /\ EpollMatchesOp /\ ParkedReaderDrained
        /\ OneBatch
    BY DEF ServerInv
  <1>2. /\ net \in [Conn -> Socket] /\ net[c] \in Socket /\ backlog \in Seq(Conn)
        /\ net[c].inq \in Seq(Word) /\ net[c].todo \in Seq(Word) /\ SNDBUF \in Nat
    BY <1>1, AstrologAssumption DEF TypeOK, Socket
  <1>3. UNCHANGED <<process, server>>
    BY DEF Client, Connect, ClientSend, ClientRecv, ClientClose
  <1>4. /\ net' \in [Conn -> Socket] /\ backlog' \in Seq(Conn)
        /\ backlog # <<>> => backlog' # <<>>
    <2>1. ASSUME NEW s \in Streams, Connect(c, s)
          PROVE  <1>4!:
      <3>1. [NoSocket EXCEPT !.peer = "open", !.todo = s] \in Socket
        <4>1. s \in Seq(Word) /\ NoSocket \in Socket
          BY AstrologAssumption DEF NoSocket, Socket
        <4> QED BY <4>1 DEF Socket
      <3>2. net' \in [Conn -> Socket]
        BY <1>2, <2>1, <3>1 DEF Connect
      <3>3. backlog' = Append(backlog, c)
        BY <2>1 DEF Connect
      <3> QED BY <1>2, <3>2, <3>3, AppendProperties
    <2>2. ASSUME NEW n \in 1 .. Len(net[c].todo), ClientSend(c, n)
          PROVE  <1>4!:
      <3> DEFINE in == net[c].inq \o First(net[c].todo, n)
                 left == After(net[c].todo, n)
      <3>1. n \in 0 .. Len(net[c].todo)
        BY <1>2, LenProperties
      <3>2. First(net[c].todo, n) \in Seq(Word) /\ left \in Seq(Word)
        BY <1>2, <3>1, CutFacts
      <3>3. in \in Seq(Word)
        BY <1>2, <3>2, ConcatProperties, Zenon
      <3>4. net' = [net EXCEPT ![c] = [net[c] EXCEPT !.inq = in, !.todo = left]]
        BY <1>2, <2>2, Zenon DEF ClientSend
      <3> HIDE DEF in, left
      <3>5. [net[c] EXCEPT !.inq = in, !.todo = left] \in Socket
        BY <1>2, <3>2, <3>3 DEF Socket
      <3> QED BY <1>2, <2>2, <3>4, <3>5 DEF ClientSend
    <2>3. CASE ClientRecv(c)
      <3>1. [net[c] EXCEPT !.unread = 0] \in Socket
        <4>1. \A u \in 0 .. SNDBUF : [net[c] EXCEPT !.unread = u] \in Socket
          BY <1>2 DEF Socket
        <4> QED BY <1>2, <4>1
      <3> QED BY <1>2, <2>3, <3>1 DEF ClientRecv
    <2>4. CASE ClientClose(c)
      <3>1. PICK p \in {"fin", "rst", "abort"} :
                net' = [net EXCEPT ![c].peer = p, ![c].unread = 0]
        BY <2>4 DEF ClientClose
      <3>2. net' = [net EXCEPT ![c] = [net[c] EXCEPT !.peer = p, !.unread = 0]]
        BY <1>2, <3>1, Zenon
      <3>3. [net[c] EXCEPT !.peer = p, !.unread = 0] \in Socket
        <4>1. \A u \in 0 .. SNDBUF : [net[c] EXCEPT !.peer = p, !.unread = u] \in Socket
          BY <1>2, <3>1 DEF Socket
        <4>2. 0 \in 0 .. SNDBUF
          BY <1>2
        <4> QED BY <4>1, <4>2, Zenon
      <3> QED BY <1>2, <2>4, <3>2, <3>3 DEF ClientClose
    <2> QED BY <2>1, <2>2, <2>3, <2>4 DEF Client
  <1> QED BY <1>1, <1>3, <1>4
       DEF process, server, ServerInv, OneBatch, TypeOK, BuffersFit, EventsAlive,
           EpollMatchesOp, InUpdate, ParkedReaderDrained

\* Time changes only the deadlines.
LEMMA TickInv ==
    ASSUME ServerInv, Tick
    PROVE  ServerInv'
  <1>1. /\ TypeOK /\ BuffersFit /\ EventsAlive /\ EpollMatchesOp /\ ParkedReaderDrained
        /\ OneBatch
    BY DEF ServerInv
  <1>2. /\ ss' = [c \in Conn |-> [ss[c] EXCEPT !.ttl = Before(ss[c].ttl)]]
        /\ wait_left' = Before(wait_left) /\ pc' = pc /\ events' = events
        /\ expired' = expired /\ cur' = cur /\ init_op' = init_op /\ heap' = heap
        /\ epoll' = epoll /\ zodiac_prognosises' = zodiac_prognosises /\ net' = net
        /\ backlog' = backlog
    BY DEF Tick
  <1>3. wait_left' \in Nat \cup {-1}
    BY <1>1, <1>2 DEF TypeOK, Before
  <1>4. ASSUME NEW c \in Conn
        PROVE  /\ ss'[c] \in ServerState /\ ss'[c].interm = ss[c].interm
               /\ ss'[c].buf = ss[c].buf /\ ss'[c].state = ss[c].state
               /\ ss'[c].op = ss[c].op /\ ss'[c].zodiac_ix = ss[c].zodiac_ix
    <2>1. ss[c] \in ServerState /\ ss[c].ttl \in Nat
      BY <1>1 DEF TypeOK, ServerState
    <2>2. Before(ss[c].ttl) \in Nat
      BY <2>1 DEF Before
    <2> DEFINE t == Before(ss[c].ttl)
    <2>3. ss'[c] = [ss[c] EXCEPT !.ttl = t]
      BY <1>2
    <2> HIDE DEF t
    <2>4. t \in Nat
      BY <2>2 DEF t
    <2> QED BY <2>1, <2>3, <2>4 DEF ServerState
  <1>5. ss' \in [Conn -> ServerState]
    BY <1>2, <1>4
  <1>6. TypeOK'
    BY <1>1, <1>2, <1>3, <1>5 DEF TypeOK
  <1>7. BuffersFit'
    BY <1>1, <1>4 DEF BuffersFit, Fits, Rem
  <1>8. EventsAlive' /\ OneBatch'
    BY <1>1, <1>2, <1>4 DEF EventsAlive, OneBatch
  <1>9. EpollMatchesOp'
    BY <1>1, <1>2, <1>4 DEF EpollMatchesOp, InUpdate
  <1>10. ParkedReaderDrained'
    BY <1>1, <1>2, <1>4 DEF ParkedReaderDrained, TypeOK
  <1> QED BY <1>6, <1>7, <1>8, <1>9, <1>10 DEF ServerInv

\* The invariant holds when the loop begins.
LEMMA InitInv == Init => ServerInv
  <1> SUFFICES ASSUME Init PROVE ServerInv
    OBVIOUS
  <1>1. Freed \in ServerState /\ NoSocket \in Socket /\ Freed.state = "FREED"
    BY AstrologAssumption DEF Freed, NoSocket, ServerState, Socket
  <1>2. Fits(Freed)
    BY AstrologAssumption DEF Freed, Fits
  <1>3. NUL \in Word
    BY DEF Word
  <1>4. TypeOK
    BY <1>1, <1>3 DEF Init, TypeOK
  <1>5. BuffersFit
    BY <1>2 DEF Init, BuffersFit
  <1>6. EventsAlive /\ EpollMatchesOp /\ ParkedReaderDrained /\ OneBatch
    BY <1>1 DEF Init, EventsAlive, EpollMatchesOp, ParkedReaderDrained, OneBatch
  <1> QED BY <1>4, <1>5, <1>6 DEF ServerInv

\* Every step keeps the invariant.
LEMMA NextInv == ServerInv /\ [Next]_vars => ServerInv'
  <1> SUFFICES ASSUME ServerInv, [Next]_vars PROVE ServerInv'
    OBVIOUS
  <1>1. CASE epoll_wait \/ EventsReported \/ WaitTimedOut \/ WaitFailed \/ Exit
    BY <1>1, LoopInv
  <1>2. CASE process_new_connection
    BY <1>2, NewConnectionInv
  <1>3. ASSUME NEW c \in Conn,
               \/ discard_expired_connections(c) \/ Dispatch(c)
               \/ update_state(c) \/ FreeHeapElem(c)
        PROVE  ServerInv'
    BY <1>3, StartUpdateInv, HandleFirstLineInv, HandleRecvHInv, HandleSendReplyInv,
       NothingToHandleInv, FinishInv, FreeHeapElemInv DEF update_state
  <1>4. ASSUME NEW c \in Conn, Client(c) PROVE ServerInv'
    BY <1>4, ClientInv
  <1>5. CASE Tick
    BY <1>5, TickInv
  <1>6. CASE UNCHANGED vars
    BY <1>6
       DEF vars, process, server, ServerInv, OneBatch, TypeOK, BuffersFit, EventsAlive,
           EpollMatchesOp, InUpdate, ParkedReaderDrained
  <1> QED BY <1>1, <1>2, <1>3, <1>4, <1>5, <1>6 DEF Next, Server, Ended

-----------------------------------------------------------------------------
\* The event loop keeps its invariant for every number of connections, every
\* buffer length, capacity and time-out, whatever the clients send and whichever
\* system calls fail.
THEOREM ServerInvariant == Spec => []ServerInv
  BY InitInv, NextInv, PTL DEF Spec

\* Type correctness of the server, of its sockets and of the table.
THEOREM TypeCorrect == Spec => []TypeOK
  <1>1. ServerInv => TypeOK
    BY DEF ServerInv
  <1> QED BY <1>1, ServerInvariant, PTL

\* No event, no entry of the list of expired connections and no running
\* update_state ever points to a freed struct.
THEOREM EventsPointToLiveStructs == Spec => []EventsAlive
  <1>1. ServerInv => EventsAlive
    BY DEF ServerInv
  <1> QED BY <1>1, ServerInvariant, PTL

\* No handler overflows a buffer, reads with no room left or sends nothing.
THEOREM BuffersNeverOverflow == Spec => []BuffersFit
  <1>1. ServerInv => BuffersFit
    BY DEF ServerInv
  <1> QED BY <1>1, ServerInvariant, PTL

\* The registration with epoll is the one the connection's next operation needs.
THEOREM RegistrationMatches == Spec => []EpollMatchesOp
  <1>1. ServerInv => EpollMatchesOp
    BY DEF ServerInv
  <1> QED BY <1>1, ServerInvariant, PTL

\* No connection is left to wait with received input that epoll cannot see.
THEOREM WaitingReadersDrained == Spec => []ParkedReaderDrained
  <1>1. ServerInv => ParkedReaderDrained
    BY DEF ServerInv
  <1> QED BY <1>1, ServerInvariant, PTL

-----------------------------------------------------------------------------
\* Cutting a time to whole milliseconds never lengthens it.
LEMMA RoundedDown ==
    ASSUME NEW t \in Nat, NEW m \in Nat \ {0}
    PROVE  (t \div m) * m \in Nat /\ (t \div m) * m <= t
  BY Z3

\* A call of epoll_wait begins with a time-out that no deadline undercuts.
LEMMA TimeoutInv ==
    ASSUME ServerInv, epoll_wait
    PROVE  NoOversleep'
  <1> SUFFICES ASSUME NEW c \in heap PROVE 0 <= wait_left' /\ wait_left' <= ss[c].ttl
    BY DEF NoOversleep, epoll_wait, server
  <1>1. \A d \in heap : ss[d].ttl \in Nat
    BY DEF ServerInv, TypeOK, ServerState
  <1>2. PICK d \in Top : wait_left' = (ss[d].ttl \div MS) * MS
    BY DEF epoll_wait, min_timeout
  <1>3. d \in heap /\ ss[d].ttl <= ss[c].ttl
    BY <1>2 DEF Top
  <1>4. (ss[d].ttl \div MS) * MS \in Nat /\ (ss[d].ttl \div MS) * MS <= ss[d].ttl
    BY <1>1, <1>3, RoundedDown, AstrologAssumption
  <1> HIDE DEF Top
  <1> QED BY <1>1, <1>2, <1>3, <1>4

\* The clock brings the end of the wait and the deadlines closer alike.
LEMMA TickKeepsTimeout ==
    ASSUME ServerInv, NoOversleep, Tick
    PROVE  NoOversleep'
  <1> SUFFICES ASSUME pc = "wait", NEW c \in heap
               PROVE  0 <= wait_left' /\ wait_left' <= ss'[c].ttl
    BY DEF NoOversleep, Tick
  <1>1. c \in Conn /\ ss[c] \in ServerState /\ ss[c].ttl \in Nat /\ wait_left \in Int
    BY DEF ServerInv, TypeOK, ServerState
  <1>2. 0 <= wait_left /\ wait_left <= ss[c].ttl
    BY DEF NoOversleep
  <1>3. ss'[c].ttl = Before(ss[c].ttl) /\ wait_left' = Before(wait_left)
    BY <1>1 DEF Tick, ServerState
  <1> QED BY <1>1, <1>2, <1>3 DEF Before

\* Nothing but epoll_wait begins a wait, and nothing but the clock touches a
\* deadline, or the heap, during one.
LEMMA NextKeepsTimeout == ServerInv /\ NoOversleep /\ [Next]_vars => NoOversleep'
  <1> SUFFICES ASSUME ServerInv, NoOversleep, [Next]_vars PROVE NoOversleep'
    OBVIOUS
  <1>1. CASE epoll_wait
    BY <1>1, TimeoutInv
  <1>2. CASE Tick
    BY <1>2, TickKeepsTimeout
  <1>3. CASE EventsReported \/ WaitTimedOut \/ WaitFailed \/ Exit
    BY <1>3 DEF EventsReported, WaitTimedOut, WaitFailed, Exit, NoOversleep
  <1>4. CASE process_new_connection
    BY <1>4 DEF process_new_connection, create_server_state, Rejected, SetupFailed, NoOversleep
  <1>5. ASSUME NEW c \in Conn, discard_expired_connections(c) \/ Dispatch(c) \/ FreeHeapElem(c)
        PROVE  NoOversleep'
    BY <1>5 DEF discard_expired_connections, Dispatch, FreeHeapElem, process, NoOversleep
  <1>6. ASSUME NEW c \in Conn, update_state(c) PROVE NoOversleep'
    <2>1. CASE Finish(c)
      BY <2>1 DEF Finish, NoOversleep
    <2>2. CASE handle_first_line(c) \/ handle_recv_h(c) \/ handle_send_reply(c)
               \/ NothingToHandle(c)
      <3>1. pc' # "wait"
        BY <2>2 DEF handle_first_line, handle_recv_h, handle_send_reply, NothingToHandle,
                    Iterated, Killed
      <3> QED BY <3>1 DEF NoOversleep
    <2> QED BY <1>6, <2>1, <2>2 DEF update_state
  <1>7. ASSUME NEW c \in Conn, Client(c) PROVE NoOversleep'
    BY <1>7 DEF Client, Connect, ClientSend, ClientRecv, ClientClose, process, server, NoOversleep
  <1>8. CASE UNCHANGED vars
    BY <1>8 DEF vars, process, server, NoOversleep
  <1> QED BY <1>1, <1>2, <1>3, <1>4, <1>5, <1>6, <1>7, <1>8 DEF Next, Server, Ended

\* The server never sleeps past a deadline, whatever the time-outs and however
\* coarse the clock of epoll_wait.
THEOREM WakesInTime == Spec => []NoOversleep
  <1>1. Init => NoOversleep
    BY DEF Init, NoOversleep
  <1> QED BY <1>1, NextKeepsTimeout, ServerInvariant, PTL DEF Spec

-----------------------------------------------------------------------------
\* Who waits for accept4 has connected and has no struct yet, and each of them
\* waits once.
Waits(c) == \E i \in 1 .. Len(backlog) : backlog[i] = c

BacklogInv ==
    /\ \A i, j \in 1 .. Len(backlog) : backlog[i] = backlog[j] => i = j
    /\ \A c \in Conn : Waits(c) => c \notin heap
    /\ \A c \in Conn : Waits(c) \/ c \in heap => net[c].peer # "none"

\* What update_state is about to do for its connection can be done at once.
HasWork(s, k) ==
    /\ s.state \in {"RECV_FIRST_LINE", "RECV_H"} =>
          s.interm # <<>> \/ k.inq # <<>> \/ k.peer # "open"
    /\ s.state \in {"SEND_THANKS", "SEND_H"} => k.unread < SNDBUF \/ k.peer # "open"

\* zodiac_ix is set only while a prognosis is awaited.
SignInv(s) ==
    s.state \in {"RECV_FIRST_LINE", "SEND_THANKS", "SEND_H"} => s.zodiac_ix = NONE

Deserved(s, k) ==
    s.state \in {"ERROR", "SUCCESS"} /\ k.peer = "open" => s.ttl = 0 \/ IsBadLine(s)

Ending == pc \in {"free", "exit", "killed"}

\* What ServerInv is extended by for the reasons of a disconnection.
ReasonInv ==
    /\ BacklogInv
    /\ EventsStayReady
    /\ pc = "update" => HasWork(ss[cur], net[cur])
    /\ ~Ending => \A c \in expired : ss[c].ttl = 0
    /\ \A c \in Conn : SignInv(ss[c]) /\ (c \in heap => Deserved(ss[c], net[c]))

\* The types that the steps below need.
LEMMA LoopTypes ==
    ASSUME ServerInv
    PROVE  /\ heap \subseteq Conn /\ expired \subseteq Conn /\ events \subseteq Conn \cup {LISTEN}
           /\ ss \in [Conn -> ServerState] /\ net \in [Conn -> Socket]
           /\ epoll \in [Conn -> {"none", "IN", "OUT"}]
           /\ backlog \in Seq(Conn) /\ LISTEN \notin Conn /\ cur \in Conn \cup {NONE}
  BY AstrologAssumption DEF ServerInv, TypeOK

\* An iteration for c that left struct s and socket k: it stops, or goes on with
\* what interm_buf holds.
LEMMA IteratedReason ==
    ASSUME ServerInv, ReasonInv, NEW c \in Conn, pc = "update", c = cur,
           NEW s \in ServerState, NEW k \in Socket, Iterated(c, s), net' = [net EXCEPT ![c] = k],
           k.peer # "none", Fits(s), SignInv(s), Deserved(s, k)
    PROVE  ReasonInv'
  <1>1. /\ ss' = [ss EXCEPT ![c] = s] /\ pc' \in {"update", "finish"}
        /\ pc' = "update" => s.op = "READ" /\ s.interm # <<>>
        /\ UNCHANGED <<events, expired, cur, heap, epoll, backlog>>
    BY DEF Iterated
  <1>2. c \in heap /\ c \notin events /\ c \notin expired
    BY DEF ServerInv, EventsAlive
  <1>3. /\ ss'[c] = s /\ net'[c] = k
        /\ \A d \in Conn : d # c => ss'[d] = ss[d] /\ net'[d] = net[d]
    BY <1>1, LoopTypes
  <1>4. BacklogInv'
    BY <1>1, <1>3 DEF ReasonInv, BacklogInv, Waits
  <1>5. EventsStayReady'
    <2> SUFFICES ASSUME NEW d \in events \ {LISTEN}
                 PROVE  IsReady(d)'
      BY <1>1 DEF EventsStayReady
    <2>1. d \in Conn /\ d # c
      BY <1>2, LoopTypes
    <2>2. IsReady(d)
      BY DEF ReasonInv, EventsStayReady
    <2> QED BY <1>1, <1>3, <2>1, <2>2 DEF IsReady
  <1>6. pc' = "update" => HasWork(ss'[cur'], net'[cur'])
    BY <1>1, <1>3 DEF HasWork, Fits
  <1>7. \A d \in expired' : ss'[d].ttl = 0
    BY <1>1, <1>2, <1>3, LoopTypes DEF ReasonInv, Ending
  <1>8. \A d \in Conn : SignInv(ss'[d]) /\ (d \in heap' => Deserved(ss'[d], net'[d]))
    BY <1>1, <1>3 DEF ReasonInv
  <1> QED BY <1>4, <1>5, <1>6, <1>7, <1>8 DEF ReasonInv

\* Freed structs and connections that are gone give no reason to complain.
LEMMA RemovedReason ==
    ASSUME ServerInv, ReasonInv, NEW c \in heap, remove_server_state({c}),
           UNCHANGED <<events, expired, backlog>>,
           \/ Ending /\ Ending'
           \/ pc' = "run" /\ pc = "finish" /\ c = cur
    PROVE  ReasonInv'
  <1>1. /\ heap' = heap \ {c} /\ ss'[c] = Freed /\ c \in Conn
        /\ \A d \in Conn : d # c => ss'[d] = ss[d] /\ net'[d] = net[d] /\ epoll'[d] = epoll[d]
    BY LoopTypes DEF remove_server_state
  <1>2. BacklogInv'
    <2>1. ~Waits(c)
      BY <1>1 DEF ReasonInv, BacklogInv
    <2> QED BY <1>1, <2>1, LoopTypes DEF ReasonInv, BacklogInv, Waits
  <1>3. ~Ending' => c \notin events /\ c \notin expired /\ ~Ending
    BY DEF ServerInv, EventsAlive, Ending
  <1>4. EventsStayReady'
    <2> SUFFICES ASSUME ~Ending', NEW d \in events \ {LISTEN}
                 PROVE  IsReady(d)'
      BY DEF EventsStayReady, Ending
    <2>1. d \in Conn /\ d # c
      BY <1>3, LoopTypes
    <2>2. IsReady(d)
      BY <1>3 DEF ReasonInv, EventsStayReady, Ending
    <2> QED BY <1>1, <2>1, <2>2 DEF IsReady
  <1>5. pc' # "update"
    BY DEF Ending
  <1>6. ~Ending' => \A d \in expired' : ss'[d].ttl = 0
    BY <1>1, <1>3, LoopTypes DEF ReasonInv
  <1>7. SignInv(Freed)
    BY DEF SignInv, Freed
  <1>8. \A d \in Conn : SignInv(ss'[d]) /\ (d \in heap' => Deserved(ss'[d], net'[d]))
    BY <1>1, <1>7 DEF ReasonInv
  <1> QED BY <1>2, <1>4, <1>5, <1>6, <1>8 DEF ReasonInv

\* A step of the loop or of Finish that changes no struct and no socket.
LEMMA LoopReason ==
    ASSUME ServerInv, ReasonInv, ~Ending \/ Ending', pc' # "update",
           UNCHANGED <<heap, ss, net, backlog>>,
           ~Ending' => /\ \A d \in events' \ {LISTEN} : d \in Conn /\ IsReady(d)'
                       /\ \A d \in expired' : ss[d].ttl = 0
    PROVE  ReasonInv'
  <1>1. BacklogInv'
    BY DEF ReasonInv, BacklogInv, Waits
  <1>2. EventsStayReady'
    BY DEF EventsStayReady, Ending
  <1> QED BY <1>1, <1>2 DEF ReasonInv

\* epoll_wait reports what is ready, and the clock what has expired.
LEMMA BatchReason ==
    ASSUME ServerInv, ReasonInv,
           epoll_wait \/ EventsReported \/ WaitTimedOut \/ WaitFailed
    PROVE  ReasonInv'
  <1>1. UNCHANGED <<heap, epoll, ss, net, backlog>> /\ ~Ending /\ pc' # "update"
    BY DEF epoll_wait, EventsReported, WaitTimedOut, WaitFailed, server, Ending
  <1>2. CASE epoll_wait
    BY <1>1, <1>2, LoopReason DEF epoll_wait
  <1>3. CASE EventsReported
    <2>1. events' \subseteq Ready /\ expired' = expired
      BY <1>3 DEF EventsReported
    <2>2. \A d \in events' \ {LISTEN} : d \in Conn /\ IsReady(d)
      BY <2>1, LoopTypes DEF Ready
    <2>3. \A d \in events' \ {LISTEN} : d \in Conn /\ IsReady(d)'
      BY <1>1, <2>2 DEF IsReady
    <2>4. \A d \in expired' : ss[d].ttl = 0
      BY <1>1, <2>1 DEF ReasonInv
    <2> QED BY <1>1, <2>3, <2>4, LoopReason
  <1>4. CASE WaitTimedOut
    <2>1. events' = {} /\ \A d \in expired' : ss[d].ttl = 0
      BY <1>4 DEF WaitTimedOut, Expired, ServerInv, OneBatch
    <2> QED BY <1>1, <2>1, LoopReason
  <1>5. CASE WaitFailed
    <2>1. Ending'
      BY <1>5 DEF WaitFailed, Ending
    <2> QED BY <1>1, <2>1, LoopReason
  <1> QED BY <1>2, <1>3, <1>4, <1>5

\* Nothing is left.
LEMMA EndReason ==
    ASSUME ServerInv, ReasonInv, Exit \/ Killed
    PROVE  ReasonInv'
  <1>1. heap' = {} /\ backlog' = <<>> /\ Ending' /\ pc' # "update"
    BY LoopTypes DEF Exit, Killed, remove_server_state, server, Ending
  <1>2. Len(backlog') = 0
    BY <1>1
  <1>3. BacklogInv'
    BY <1>1, <1>2 DEF BacklogInv, Waits
  <1>4. EventsStayReady'
    BY <1>1 DEF EventsStayReady, Ending
  <1>5. \A d \in Conn : SignInv(ss'[d])
    <2>1. SignInv(Freed)
      BY DEF SignInv, Freed
    <2>2. \A d \in Conn : ss'[d] = ss[d] \/ ss'[d] = Freed
      BY DEF Exit, Killed, remove_server_state, server
    <2> QED BY <2>1, <2>2 DEF ReasonInv
  <1> QED BY <1>1, <1>3, <1>4, <1>5 DEF ReasonInv

\* The first in the backlog leaves it for good.
LEMMA AcceptFacts ==
    ASSUME ServerInv, BacklogInv, backlog # <<>>
    PROVE  /\ Head(backlog) \in Conn /\ Waits(Head(backlog))
           /\ Len(Tail(backlog)) = Len(backlog) - 1 /\ Len(backlog) \in Nat \ {0}
           /\ \A i \in 1 .. Len(Tail(backlog)) : Tail(backlog)[i] = backlog[i + 1]
           /\ \A i \in 1 .. Len(Tail(backlog)) : Tail(backlog)[i] # Head(backlog)
  <1>1. backlog \in Seq(Conn)
    BY LoopTypes
  <1>2. /\ Head(backlog) \in Conn /\ Head(backlog) = backlog[1]
        /\ Len(Tail(backlog)) = Len(backlog) - 1
        /\ \A i \in 1 .. Len(Tail(backlog)) : Tail(backlog)[i] = backlog[i + 1]
        /\ Len(backlog) \in Nat \ {0}
    BY <1>1
  <1>3. Waits(Head(backlog))
    BY <1>2 DEF Waits
  <1>4. \A i \in 1 .. Len(Tail(backlog)) : Tail(backlog)[i] # Head(backlog)
    BY <1>2 DEF BacklogInv
  <1> QED BY <1>2, <1>3, <1>4

LEMMA NewConnectionReason ==
    ASSUME ServerInv, ReasonInv, process_new_connection
    PROVE  ReasonInv'
  <1>1. /\ pc = "run" /\ LISTEN \in events /\ events' = events \ {LISTEN}
        /\ expired' = expired /\ cur' = cur
    BY DEF process_new_connection
  <1>2. backlog # <<>> /\ BacklogInv
    BY <1>1 DEF ServerInv, EventsAlive, ReasonInv
  <1>3. CASE pc' = "free" /\ UNCHANGED <<server, net, backlog>>
    BY <1>1, <1>3, LoopReason DEF server, Ending
  <1> DEFINE c == Head(backlog)
             r == Tail(backlog)
  <1>4. /\ c \in Conn /\ Waits(c) /\ c \notin heap
        /\ Len(r) = Len(backlog) - 1 /\ Len(backlog) \in Nat \ {0}
        /\ \A i \in 1 .. Len(r) : r[i] = backlog[i + 1]
        /\ \A i \in 1 .. Len(r) : r[i] # c
    BY <1>2, AcceptFacts DEF BacklogInv
  <1>5. c \notin events /\ c \notin expired
    BY <1>1, <1>4, LoopTypes DEF ServerInv, EventsAlive
  <1> HIDE DEF c, r
  <1>6. ASSUME backlog' = r, pc' \in {"run", "free"}, heap' \subseteq heap \cup {c},
               c \in heap' => net'[c].peer # "none",
               \A d \in Conn : d # c => ss'[d] = ss[d] /\ epoll'[d] = epoll[d] /\ net'[d] = net[d],
               SignInv(ss'[c]), c \in heap' => Deserved(ss'[c], net'[c])
        PROVE  ReasonInv'
    <2>1. \A d \in Conn : Waits(d)' => Waits(d) /\ d # c
      BY <1>4, <1>6 DEF Waits
    <2>2. \A i, j \in 1 .. Len(r) : r[i] = r[j] => i = j
      <3> SUFFICES ASSUME NEW i \in 1 .. Len(r), NEW j \in 1 .. Len(r), r[i] = r[j]
                   PROVE  i = j
        OBVIOUS
      <3>1. i + 1 \in 1 .. Len(backlog) /\ j + 1 \in 1 .. Len(backlog)
        BY <1>4
      <3>2. backlog[i + 1] = backlog[j + 1]
        BY <1>4
      <3>3. i + 1 = j + 1
        BY <1>2, <3>1, <3>2 DEF BacklogInv
      <3> QED BY <3>3
    <2>3. BacklogInv'
      <3>1. \A d \in Conn : Waits(d)' => d \notin heap'
        BY <1>2, <1>6, <2>1 DEF BacklogInv
      <3>2. \A d \in Conn : Waits(d)' \/ d \in heap' => net'[d].peer # "none"
        BY <1>2, <1>6, <2>1 DEF BacklogInv
      <3> QED BY <1>6, <2>2, <3>1, <3>2 DEF BacklogInv
    <2>4. EventsStayReady'
      <3> SUFFICES ASSUME NEW d \in events \ {LISTEN}
                   PROVE  IsReady(d)'
        BY <1>1 DEF EventsStayReady
      <3>1. d \in Conn /\ d # c
        BY <1>5, LoopTypes
      <3>2. IsReady(d)
        BY <1>1 DEF ReasonInv, EventsStayReady
      <3> QED BY <1>6, <3>1, <3>2 DEF IsReady
    <2>5. \A d \in expired' : ss'[d].ttl = 0
      BY <1>1, <1>5, <1>6, LoopTypes DEF ReasonInv, Ending
    <2>6. \A d \in Conn : SignInv(ss'[d]) /\ (d \in heap' => Deserved(ss'[d], net'[d]))
      BY <1>6 DEF ReasonInv
    <2> QED BY <1>6, <2>3, <2>4, <2>5, <2>6 DEF ReasonInv
  <1>7. CASE create_server_state(c) /\ backlog' = r
    <2>1. Created.state = "RECV_FIRST_LINE" /\ Created.zodiac_ix = NONE
      BY DEF Created, Freed
    <2>2. /\ ss'[c] = Created /\ net' = net /\ heap' = heap \cup {c} /\ pc' = "run"
          /\ \A d \in Conn : d # c => ss'[d] = ss[d] /\ epoll'[d] = epoll[d]
      BY <1>1, <1>4, <1>7, LoopTypes DEF create_server_state
    <2>3. net'[c].peer # "none"
      BY <1>2, <1>4, <2>2 DEF BacklogInv
    <2>4. SignInv(ss'[c]) /\ Deserved(ss'[c], net'[c])
      BY <2>1, <2>2 DEF SignInv, Deserved
    <2> QED BY <1>6, <1>7, <2>2, <2>3, <2>4
  <1>8. CASE (Rejected(c) \/ SetupFailed(c)) /\ backlog' = r
    <2>1. /\ pc' \in {"run", "free"} /\ heap' = heap
          /\ \A d \in Conn : d # c => net'[d] = net[d]
      <3>1. (heap \cup {c}) \ {c} = heap
        BY <1>4
      <3>2. heap' = heap
        BY <1>8, <3>1 DEF Rejected, SetupFailed, Undone
      <3>3. pc' \in {"run", "free"} /\ net' = [net EXCEPT ![c] = NoSocket]
        BY <1>1, <1>8 DEF Rejected, SetupFailed
      <3> QED BY <1>4, <3>2, <3>3, LoopTypes
    <2>2. \A d \in Conn : d # c => ss'[d] = ss[d] /\ epoll'[d] = epoll[d]
      BY <1>8, LoopTypes DEF Rejected, SetupFailed, Undone
    <2>3. SignInv(ss'[c])
      <3>1. ss'[c] \in {ss[c], Freed}
        BY <1>4, <1>8, LoopTypes DEF Rejected, SetupFailed, Undone
      <3>2. SignInv(ss[c]) /\ SignInv(Freed)
        BY <1>4 DEF ReasonInv, SignInv, Freed
      <3> QED BY <3>1, <3>2
    <2> QED BY <1>4, <1>6, <1>8, <2>1, <2>2, <2>3
  <1> QED BY <1>3, <1>7, <1>8 DEF process_new_connection, c, r

\* update_state begins: its event is still true, or the deadline has passed.
LEMMA DispatchReason ==
    ASSUME ServerInv, ReasonInv, NEW c \in Conn, Dispatch(c)
    PROVE  ReasonInv'
  <1>1. /\ pc = "run" /\ c \in events /\ events' = events \ {c} /\ pc' = "update" /\ cur' = c
        /\ UNCHANGED <<expired, heap, epoll, ss, net, backlog>>
    BY DEF Dispatch, server
  <1>2. IsReady(c) /\ c \in heap
    BY <1>1, LoopTypes DEF ReasonInv, EventsStayReady, ServerInv, EventsAlive
  <1>3. epoll[c] = IF ss[c].op = "READ" THEN "IN" ELSE "OUT"
    BY <1>1, <1>2 DEF ServerInv, EpollMatchesOp, InUpdate
  <1>4. Fits(ss[c])
    BY DEF ServerInv, BuffersFit
  <1>5. HasWork(ss[c], net[c])
    BY <1>2, <1>3, <1>4 DEF HasWork, IsReady, Fits
  <1>6. BacklogInv'
    BY <1>1 DEF ReasonInv, BacklogInv, Waits
  <1>7. EventsStayReady'
    <2>1. \A d \in events' \ {LISTEN} : IsReady(d)
      BY <1>1 DEF ReasonInv, EventsStayReady
    <2>2. \A d \in events' \ {LISTEN} : IsReady(d)'
      BY <1>1, <2>1 DEF IsReady
    <2> QED BY <2>2 DEF EventsStayReady
  <1> QED BY <1>1, <1>5, <1>6, <1>7 DEF ReasonInv, Ending

LEMMA DiscardReason ==
    ASSUME ServerInv, ReasonInv, NEW c \in Conn, discard_expired_connections(c)
    PROVE  ReasonInv'
  <1> DEFINE s == ss'[c]
  <1>1. /\ pc = "run" /\ c \in expired /\ expired' = expired \ {c} /\ pc' = "update" /\ cur' = c
        /\ UNCHANGED <<events, heap, epoll, net, backlog>>
        /\ ss' = [ss EXCEPT ![c].state = "ERROR"]
    BY DEF discard_expired_connections
  <1>2. ss[c].ttl = 0
    BY <1>1 DEF ReasonInv, Ending
  <1>3. /\ s.state = "ERROR" /\ s.ttl = 0
        /\ \A d \in Conn : d # c => ss'[d] = ss[d]
    BY <1>1, <1>2, LoopTypes DEF ServerState
  <1> HIDE DEF s
  <1>4. SignInv(s) /\ Deserved(s, net[c]) /\ HasWork(s, net[c])
    BY <1>3 DEF SignInv, Deserved, HasWork
  <1>5. BacklogInv'
    BY <1>1 DEF ReasonInv, BacklogInv, Waits
  <1>6. EventsStayReady'
    <2>1. events' = {}
      BY <1>1 DEF ServerInv, OneBatch
    <2> QED BY <2>1 DEF EventsStayReady
  <1>7. \A d \in expired' : ss'[d].ttl = 0
    BY <1>1, <1>3, LoopTypes DEF ReasonInv, Ending
  <1>8. \A d \in Conn : SignInv(ss'[d]) /\ (d \in heap' => Deserved(ss'[d], net'[d]))
    BY <1>1, <1>3, <1>4 DEF ReasonInv, s
  <1> QED BY <1>1, <1>4, <1>5, <1>6, <1>7, <1>8 DEF ReasonInv, s

LEMMA FinishReason ==
    ASSUME ServerInv, ReasonInv, NEW c \in Conn, Finish(c)
    PROVE  ReasonInv'
  <1>1. /\ pc = "finish" /\ c = cur /\ UNCHANGED <<events, expired, backlog>>
        /\ pc' \in {"run", "free"}
    BY DEF Finish
  <1>2. c \in heap /\ c \notin events /\ ~Ending
    BY <1>1 DEF ServerInv, EventsAlive, Ending
  <1>3. CASE remove_server_state({c}) /\ pc' = "run"
    BY <1>1, <1>2, <1>3, RemovedReason
  <1>4. CASE /\ epoll' = [epoll EXCEPT ![c] = Registration(c)] \/ UNCHANGED epoll
             /\ UNCHANGED <<heap, ss, net>>
    <2>1. \A d \in Conn : d # c => epoll'[d] = epoll[d]
      BY <1>4, LoopTypes
    <2>2. \A d \in events' \ {LISTEN} : d \in Conn /\ d # c /\ IsReady(d)
      BY <1>1, <1>2, LoopTypes DEF ReasonInv, EventsStayReady, Ending
    <2>3. \A d \in events' \ {LISTEN} : d \in Conn /\ IsReady(d)'
      BY <1>4, <2>1, <2>2 DEF IsReady
    <2>4. \A d \in expired' : ss[d].ttl = 0
      BY <1>1, <1>2 DEF ReasonInv
    <2> QED BY <1>1, <1>2, <1>4, <2>3, <2>4, LoopReason
  <1> QED BY <1>3, <1>4 DEF Finish

\* Nothing that a client does to its socket takes away what epoll reported.
StillReady(k, l) ==
    /\ l.peer # "none"
    /\ l.peer = "open" => /\ k.peer = "open"
                          /\ k.inq # <<>> => l.inq # <<>>
                          /\ k.unread < SNDBUF => l.unread < SNDBUF

LEMMA SocketReason ==
    ASSUME ServerInv, ReasonInv, NEW c \in Conn, UNCHANGED <<process, server, backlog>>,
           \A d \in Conn : d # c => net'[d] = net[d], StillReady(net[c], net'[c])
    PROVE  ReasonInv'
  <1>1. UNCHANGED <<pc, events, expired, cur, heap, epoll, ss, backlog>>
    BY DEF process, server
  <1>2. BacklogInv'
    BY <1>1 DEF ReasonInv, BacklogInv, Waits, StillReady
  <1>3. \A d \in Conn : IsReady(d) => IsReady(d)'
    BY <1>1 DEF IsReady, StillReady
  <1>4. EventsStayReady'
    BY <1>1, <1>3, LoopTypes DEF ReasonInv, EventsStayReady
  <1>5. pc' = "update" => HasWork(ss'[cur'], net'[cur'])
    <2> SUFFICES ASSUME pc = "update"
                 PROVE  HasWork(ss[cur], net'[cur])
      BY <1>1
    <2>1. HasWork(ss[cur], net[cur]) /\ cur \in Conn
      BY LoopTypes DEF ReasonInv, ServerInv, EventsAlive
    <2> QED BY <2>1 DEF HasWork, StillReady
  <1>6. \A d \in Conn : SignInv(ss'[d]) /\ (d \in heap' => Deserved(ss'[d], net'[d]))
    BY <1>1 DEF ReasonInv, Deserved, StillReady
  <1> QED BY <1>1, <1>2, <1>4, <1>5, <1>6 DEF ReasonInv, Ending

LEMMA ConnectReason ==
    ASSUME ServerInv, ReasonInv, NEW c \in Conn, NEW s, Connect(c, s)
    PROVE  ReasonInv'
  <1> DEFINE k == [NoSocket EXCEPT !.peer = "open", !.todo = s]
             n == Len(backlog)
  <1>1. /\ UNCHANGED <<pc, events, expired, cur, heap, epoll, ss>>
        /\ net[c].peer = "none" /\ backlog' = Append(backlog, c)
        /\ net' = [net EXCEPT ![c] = k]
    BY DEF Connect, process, server
  <1>2. k.peer = "open"
    BY DEF NoSocket
  <1> HIDE DEF k
  <1>3. net'[c] = k /\ \A d \in Conn : d # c => net'[d] = net[d]
    BY <1>1, LoopTypes
  <1>4. ~Waits(c) /\ c \notin heap
    BY <1>1 DEF ReasonInv, BacklogInv
  <1>5. /\ n \in Nat /\ Len(backlog') = n + 1 /\ backlog'[n + 1] = c
        /\ \A i \in 1 .. n : backlog'[i] = backlog[i]
    BY <1>1, LoopTypes
  <1> HIDE DEF n
  <1>6. \A i \in 1 .. Len(backlog') : i = n + 1 \/ i \in 1 .. n
    BY <1>5
  <1>7. \A i \in 1 .. n : backlog[i] # c
    BY <1>4 DEF Waits, n
  <1>8. BacklogInv'
    <2>1. \A i, j \in 1 .. Len(backlog') : backlog'[i] = backlog'[j] => i = j
      <3>1. \A i, j \in 1 .. n : backlog[i] = backlog[j] => i = j
        BY DEF ReasonInv, BacklogInv, n
      <3> QED BY <1>5, <1>6, <1>7, <3>1
    <2>2. \A d \in Conn : Waits(d)' => Waits(d) \/ d = c
      <3>1. \A i \in 1 .. Len(backlog') : backlog'[i] = c \/ \E j \in 1 .. n : backlog[j] = backlog'[i]
        BY <1>5, <1>6
      <3> QED BY <3>1 DEF Waits, n
    <2>3. \A d \in Conn : Waits(d)' => d \notin heap'
      BY <1>1, <1>4, <2>2 DEF ReasonInv, BacklogInv
    <2>4. \A d \in Conn : Waits(d)' \/ d \in heap' => net'[d].peer # "none"
      BY <1>1, <1>2, <1>3, <1>4, <2>2 DEF ReasonInv, BacklogInv
    <2> QED BY <2>1, <2>3, <2>4 DEF BacklogInv
  <1>9. EventsStayReady'
    <2> SUFFICES ASSUME ~Ending, NEW d \in events \ {LISTEN}
                 PROVE  IsReady(d)'
      BY <1>1 DEF EventsStayReady, Ending
    <2>1. d \in Conn /\ d # c
      BY <1>4, LoopTypes DEF ServerInv, EventsAlive, Ending
    <2>2. IsReady(d)
      BY DEF ReasonInv, EventsStayReady, Ending
    <2> QED BY <1>1, <1>3, <2>1, <2>2 DEF IsReady
  <1>10. pc = "update" => cur \in Conn /\ cur # c
    BY <1>4, LoopTypes DEF ServerInv, EventsAlive
  <1>11. pc' = "update" => HasWork(ss'[cur'], net'[cur'])
    BY <1>1, <1>3, <1>10 DEF ReasonInv
  <1>12. \A d \in Conn : SignInv(ss'[d]) /\ (d \in heap' => Deserved(ss'[d], net'[d]))
    BY <1>1, <1>3, <1>4 DEF ReasonInv
  <1> QED BY <1>1, <1>8, <1>9, <1>11, <1>12 DEF ReasonInv, Ending

LEMMA ClientReason ==
    ASSUME ServerInv, ReasonInv, NEW c \in Conn, Client(c)
    PROVE  ReasonInv'
  <1>1. net[c] \in Socket /\ net \in [Conn -> Socket] /\ SNDBUF \in Nat \ {0}
    BY LoopTypes, AstrologAssumption
  <1>2. ASSUME NEW s \in Streams, Connect(c, s)
        PROVE  ReasonInv'
    BY <1>2, ConnectReason
  <1>3. ASSUME NEW n \in 1 .. Len(net[c].todo), ClientSend(c, n)
        PROVE  ReasonInv'
    <2> DEFINE f == First(net[c].todo, n)
               a == After(net[c].todo, n)
               q == net[c].inq \o f
    <2>1. /\ net[c].peer = "open" /\ UNCHANGED <<process, server, backlog>>
          /\ net' = [net EXCEPT ![c].inq = q, ![c].todo = a]
      BY <1>3, Zenon DEF ClientSend
    <2>2. /\ net[c].inq \in Seq(Word) /\ net[c].todo \in Seq(Word) /\ n \in 0 .. Len(net[c].todo)
      BY <1>1, <1>3, LenProperties DEF Socket
    <2>3. f \in Seq(Word)
      BY <2>2, CutFacts
    <2> HIDE DEF f, a
    <2>4. net[c].inq # <<>> => q # <<>>
      BY <2>2, <2>3, ConcatEmptySeq
    <2> HIDE DEF q
    <2>5. /\ net'[c].inq = q /\ net'[c].peer = "open" /\ net'[c].unread = net[c].unread
          /\ \A d \in Conn : d # c => net'[d] = net[d]
      BY <1>1, <2>1 DEF Socket
    <2>6. StillReady(net[c], net'[c])
      BY <2>1, <2>4, <2>5 DEF StillReady
    <2> QED BY <2>1, <2>5, <2>6, SocketReason
  <1>4. CASE ClientRecv(c)
    <2>1. /\ net[c].peer = "open" /\ UNCHANGED <<process, server, backlog>>
          /\ net' = [net EXCEPT ![c].unread = 0]
      BY <1>4 DEF ClientRecv
    <2>2. /\ net'[c].inq = net[c].inq /\ net'[c].peer = "open" /\ net'[c].unread = 0
          /\ \A d \in Conn : d # c => net'[d] = net[d]
      BY <1>1, <2>1 DEF Socket
    <2>3. StillReady(net[c], net'[c])
      BY <1>1, <2>1, <2>2 DEF StillReady
    <2> QED BY <2>1, <2>2, <2>3, SocketReason
  <1>5. CASE ClientClose(c)
    <2>1. PICK p \in {"fin", "rst", "abort"} :
                net' = [net EXCEPT ![c].peer = p, ![c].unread = 0]
      BY <1>5 DEF ClientClose
    <2>2. net'[c].peer = p /\ \A d \in Conn : d # c => net'[d] = net[d]
      BY <1>1, <2>1 DEF Socket
    <2>3. StillReady(net[c], net'[c])
      BY <2>2 DEF StillReady
    <2>4. UNCHANGED <<process, server, backlog>>
      BY <1>5 DEF ClientClose
    <2> QED BY <2>2, <2>3, <2>4, SocketReason
  <1> QED BY <1>2, <1>3, <1>4, <1>5 DEF Client

\* A deadline that has passed stays passed.
LEMMA TickReason ==
    ASSUME ServerInv, ReasonInv, Tick
    PROVE  ReasonInv'
  <1>1. /\ UNCHANGED <<pc, events, expired, cur, heap, epoll, net, backlog>>
        /\ ss' = [c \in Conn |-> [ss[c] EXCEPT !.ttl = Before(@)]]
    BY DEF Tick
  <1>2. ASSUME NEW d \in Conn
        PROVE  /\ ss'[d].state = ss[d].state /\ ss'[d].interm = ss[d].interm
               /\ ss'[d].buf = ss[d].buf /\ ss'[d].zodiac_ix = ss[d].zodiac_ix
               /\ ss'[d].op = ss[d].op /\ (ss[d].ttl = 0 => ss'[d].ttl = 0)
    <2>1. ss[d] \in ServerState /\ ss'[d] = [ss[d] EXCEPT !.ttl = Before(ss[d].ttl)]
      BY <1>1, LoopTypes
    <2>2. ss[d].ttl = 0 => Before(ss[d].ttl) = 0
      BY DEF Before
    <2> QED BY <2>1, <2>2 DEF ServerState
  <1>3. BacklogInv'
    BY <1>1 DEF ReasonInv, BacklogInv, Waits
  <1>4. EventsStayReady'
    BY <1>1 DEF ReasonInv, EventsStayReady, IsReady
  <1>5. pc' = "update" => HasWork(ss'[cur'], net'[cur'])
    <2> SUFFICES ASSUME pc = "update"
                 PROVE  HasWork(ss'[cur], net[cur])
      BY <1>1
    <2>1. HasWork(ss[cur], net[cur]) /\ cur \in Conn
      BY LoopTypes DEF ReasonInv, ServerInv, EventsAlive
    <2> QED BY <1>2, <2>1 DEF HasWork
  <1>6. ~Ending' => \A d \in expired' : ss'[d].ttl = 0
    BY <1>1, <1>2, LoopTypes DEF ReasonInv, Ending
  <1>7. ASSUME NEW d \in Conn
        PROVE  SignInv(ss'[d]) /\ (d \in heap' => Deserved(ss'[d], net'[d]))
    <2>1. SignInv(ss'[d])
      BY <1>2 DEF ReasonInv, SignInv
    <2>2. IsBadLine(ss[d]) => IsBadLine(ss'[d])
      BY <1>2 DEF IsBadLine, Rem, LineEnds
    <2>3. d \in heap' => Deserved(ss'[d], net'[d])
      BY <1>1, <1>2, <2>2 DEF ReasonInv, Deserved
    <2> QED BY <2>1, <2>3
  <1> QED BY <1>3, <1>4, <1>5, <1>6, <1>7 DEF ReasonInv

-----------------------------------------------------------------------------
\* No read is tried too early.
LEMMA ReadFindsData ==
    ASSUME ServerInv, ReasonInv, NEW c \in Conn, pc = "update", c = cur,
           ss[c].state \in {"RECV_FIRST_LINE", "RECV_H"}, Buffered(c) = <<>>
    PROVE  net[c].peer # "open"
  <1> SUFFICES ASSUME ss[c].interm = <<>>, net[c].inq # <<>>
               PROVE  FALSE
    BY DEF ReasonInv, HasWork, Buffered
  <1> DEFINE q == net[c].inq
             n == MIN(ASTROLOG_BUF_LEN, Len(q))
  <1>1. q \in Seq(Word) /\ q # <<>>
    BY LoopTypes DEF Socket
  <1>2. Len(q) \in Nat /\ Len(q) # 0
    BY <1>1
  <1>3. n \in 0 .. Len(q) /\ n > 0
    BY <1>2, BufferLength DEF MIN
  <1>4. Len(First(q, n)) = n
    BY <1>1, <1>3, CutFacts
  <1>5. First(q, n) = <<>>
    BY DEF Buffered
  <1> QED BY <1>3, <1>4, <1>5

\* Giving up a struct changes nothing that its line is judged by.
LEMMA FailedIsDeserved ==
    ASSUME NEW s \in ServerState, NEW k, k.peer # "open" \/ IsBadLine(s)
    PROVE  SignInv(Failed(s)) /\ Deserved(Failed(s), k)
  <1> DEFINE t == Failed(s)
  <1>1. /\ t.state = "ERROR" /\ t.op = s.op /\ t.buf = s.buf /\ t.zodiac_ix = s.zodiac_ix
    BY DEF Failed, ServerState
  <1> HIDE DEF t
  <1>2. IsBadLine(s) => IsBadLine(t)
    BY <1>1 DEF IsBadLine, Rem, LineEnds
  <1>3. SignInv(t) /\ Deserved(t, k)
    BY <1>1, <1>2 DEF SignInv, Deserved
  <1> QED BY <1>3 DEF t

\* A first line is given up only when it is bad.
LEMMA FirstLineReason ==
    ASSUME NEW s \in ServerState, NEW k, s.state = "RECV_FIRST_LINE", s.op = "READ",
           s.zodiac_ix = NONE, Len(s.buf) \in 1 .. ASTROLOG_BUF_LEN
    PROVE  SignInv(FirstLine(s)) /\ Deserved(FirstLine(s), k)
  <1> DEFINE t == FirstLine(s)
  <1>1. s.buf # <<>> /\ Rem(s) \in Nat
    BY BufferLength DEF Rem
  <1>2. CASE ~LineEnds(s) /\ Rem(s) > 0
    <2>1. t = s
      BY <1>2 DEF FirstLine
    <2> HIDE DEF t
    <2> QED BY <2>1 DEF SignInv, Deserved, t
  <1>3. CASE LineEnds(s) /\ HasType(STAR_REQUEST_TYPE, s.buf)
    <2>1. t = parse_star_first_line(s)
      BY <1>3 DEF FirstLine, HasType, STAR_REQUEST_TYPE, CLIENT_REQUEST_TYPE
    <2>2. CASE find_zodiac(s.buf)
      <3>1. t.state = "RECV_H"
        BY <2>1, <2>2 DEF parse_star_first_line, ServerState
      <3> HIDE DEF t
      <3> QED BY <3>1 DEF SignInv, Deserved, t
    <2>3. CASE ~find_zodiac(s.buf)
      <3>1. IsBadLine(s)
        BY <1>1, <1>3, <2>3 DEF IsBadLine
      <3>2. t = Failed(s)
        BY <2>1, <2>3 DEF parse_star_first_line
      <3> HIDE DEF t
      <3> QED BY <3>1, <3>2, FailedIsDeserved DEF t
    <2> QED BY <2>2, <2>3
  <1>4. CASE LineEnds(s) /\ HasType(CLIENT_REQUEST_TYPE, s.buf)
    <2>1. t = parse_client_first_line(s)
      BY <1>4 DEF FirstLine, HasType, STAR_REQUEST_TYPE, CLIENT_REQUEST_TYPE
    <2>2. CASE find_zodiac(s.buf)
      <3>1. t.state = "SEND_H" /\ t.zodiac_ix = s.zodiac_ix
        BY <2>1, <2>2 DEF parse_client_first_line, ServerState
      <3> HIDE DEF t
      <3> QED BY <3>1 DEF SignInv, Deserved, t
    <2>3. CASE ~find_zodiac(s.buf)
      <3>1. IsBadLine(s)
        BY <1>1, <1>4, <2>3 DEF IsBadLine
      <3>2. t = Failed(s)
        BY <2>1, <2>3 DEF parse_client_first_line
      <3> HIDE DEF t
      <3> QED BY <3>1, <3>2, FailedIsDeserved DEF t
    <2> QED BY <2>2, <2>3
  <1>5. CASE /\ ~(~LineEnds(s) /\ Rem(s) > 0)
             /\ ~(LineEnds(s) /\ HasType(STAR_REQUEST_TYPE, s.buf))
             /\ ~(LineEnds(s) /\ HasType(CLIENT_REQUEST_TYPE, s.buf))
    <2>1. IsBadLine(s)
      BY <1>1, <1>5 DEF IsBadLine
    <2>2. t = Failed(s)
      BY <1>5 DEF FirstLine
    <2> HIDE DEF t
    <2> QED BY <2>1, <2>2, FailedIsDeserved DEF t
  <1> QED BY <1>2, <1>3, <1>4, <1>5

\* The struct and the socket of the connection that update_state works on.
LEMMA UpdatingReason ==
    ASSUME ServerInv, ReasonInv, NEW c \in Conn, pc = "update", c = cur
    PROVE  /\ TypeOK /\ BuffersFit /\ c \in heap
           /\ ss[c] \in ServerState /\ net[c] \in Socket /\ net \in [Conn -> Socket]
           /\ Fits(ss[c]) /\ SignInv(ss[c]) /\ Deserved(ss[c], net[c])
           /\ HasWork(ss[c], net[c]) /\ net[c].peer # "none"
           /\ Len(ss[c].interm) <= ASTROLOG_BUF_LEN /\ Len(ss[c].buf) <= ASTROLOG_BUF_LEN
           /\ net = [net EXCEPT ![c] = net[c]]
  <1>1. /\ TypeOK /\ BuffersFit /\ c \in heap /\ GoodStruct(ss[c]) /\ net[c] \in Socket
        /\ Len(ss[c].interm) <= ASTROLOG_BUF_LEN /\ Len(ss[c].buf) <= ASTROLOG_BUF_LEN
    BY UpdatingFacts
  <1>2. SignInv(ss[c]) /\ Deserved(ss[c], net[c]) /\ HasWork(ss[c], net[c])
    BY <1>1 DEF ReasonInv
  <1>3. net[c].peer # "none"
    BY <1>1 DEF ReasonInv, BacklogInv
  <1>4. net = [net EXCEPT ![c] = net[c]] /\ net \in [Conn -> Socket]
    BY LoopTypes
  <1> QED BY <1>1, <1>2, <1>3, <1>4 DEF GoodStruct

\* A handler gives up.
LEMMA FailedReason ==
    ASSUME ServerInv, ReasonInv, NEW c \in Conn, pc = "update", c = cur,
           Iterated(c, Failed(ss[c])), UNCHANGED net, net[c].peer # "open"
    PROVE  ReasonInv'
  <1> DEFINE t == Failed(ss[c])
             k == net[c]
  <1>1. k \in Socket /\ k.peer # "none" /\ net' = [net EXCEPT ![c] = k]
    BY UpdatingReason
  <1>2. t \in ServerState /\ Fits(t)
    BY UpdatingReason, FailedFacts DEF GoodStruct
  <1>3. SignInv(t) /\ Deserved(t, k)
    BY UpdatingReason, FailedIsDeserved
  <1>4. Iterated(c, t)
    OBVIOUS
  <1> HIDE DEF t, k
  <1> QED BY <1>1, <1>2, <1>3, <1>4, IteratedReason

\* The socket after a read.
LEMMA ReadReason ==
    ASSUME ServerInv, ReasonInv, NEW c \in Conn, pc = "update", c = cur, NEW t, Iterated(c, t),
           net' = [net EXCEPT ![c].inq = LeftInSocket(c)],
           GoodStruct(t), SignInv(t), Deserved(t, net[c])
    PROVE  ReasonInv'
  <1> DEFINE q == LeftInSocket(c)
             k == [net[c] EXCEPT !.inq = q]
  <1>1. /\ TypeOK /\ BuffersFit /\ net[c] \in Socket /\ net[c].peer # "none"
        /\ net \in [Conn -> Socket]
    BY UpdatingReason
  <1>2. q \in Seq(Word)
    BY <1>1, BufferedFacts
  <1>3. net' = [net EXCEPT ![c] = k]
    BY <1>1
  <1> HIDE DEF q
  <1>4. k \in Socket /\ k.peer = net[c].peer
    BY <1>1, <1>2 DEF Socket
  <1> HIDE DEF k
  <1>5. Deserved(t, k)
    BY <1>4 DEF Deserved
  <1>6. t \in ServerState /\ Fits(t) /\ k.peer # "none"
    BY <1>1, <1>4 DEF GoodStruct
  <1> QED BY <1>3, <1>4, <1>5, <1>6, IteratedReason

LEMMA HandleFirstLineReason ==
    ASSUME ServerInv, ReasonInv, NEW c \in Conn, handle_first_line(c)
    PROVE  ReasonInv'
  <1>1. pc = "update" /\ c = cur /\ ss[c].state = "RECV_FIRST_LINE"
    BY DEF handle_first_line, Handling
  <1>2. /\ TypeOK /\ BuffersFit /\ ss[c] \in ServerState /\ net[c] \in Socket /\ Fits(ss[c])
        /\ SignInv(ss[c]) /\ net[c].peer # "none" /\ net = [net EXCEPT ![c] = net[c]]
        /\ Len(ss[c].interm) <= ASTROLOG_BUF_LEN /\ Len(ss[c].buf) <= ASTROLOG_BUF_LEN
    BY <1>1, UpdatingReason
  <1>3. CASE RecvFailed(c) /\ Iterated(c, Failed(ss[c])) /\ UNCHANGED net
    <2>1. net[c].peer # "open"
      BY <1>1, <1>3, ReadFindsData DEF RecvFailed
    <2> QED BY <1>1, <1>3, <2>1, FailedReason
  <1>4. CASE /\ RecvEnded(c) /\ UNCHANGED net
             /\ Iterated(c, [ss[c] EXCEPT !.state = IF ss[c].buf = <<>> THEN "SUCCESS"
                                                   ELSE "ERROR"])
    <2> DEFINE a == IF ss[c].buf = <<>> THEN "SUCCESS" ELSE "ERROR"
               t == [ss[c] EXCEPT !.state = a]
               k == net[c]
    <2>1. a \in {"SUCCESS", "ERROR"} /\ k.peer # "open"
      BY <1>4 DEF RecvEnded
    <2>2. Iterated(c, t) /\ net' = [net EXCEPT ![c] = k]
      BY <1>2, <1>4
    <2> HIDE DEF a, k
    <2>3. t \in ServerState /\ t.state = a /\ t.interm = ss[c].interm /\ t.buf = ss[c].buf
      BY <1>2, <2>1 DEF ServerState
    <2> HIDE DEF t
    <2>4. Fits(t) /\ SignInv(t) /\ Deserved(t, k)
      BY <1>2, <2>1, <2>3 DEF Fits, SignInv, Deserved
    <2>5. k \in Socket /\ k.peer # "none"
      BY <1>2 DEF k
    <2> QED BY <1>1, <2>2, <2>3, <2>4, <2>5, IteratedReason
  <1>5. ASSUME NEW n \in 1 .. ASTROLOG_BUF_LEN,
               ChunkSize(Buffered(c), Rem(ss[c]), n),
               net' = [net EXCEPT ![c].inq = LeftInSocket(c)],
               Iterated(c, FirstLine(Received(c, n)))
        PROVE  ReasonInv'
    <2> DEFINE s == Received(c, n)
               t == FirstLine(s)
    <2>1. /\ s \in ServerState /\ s.state = "RECV_FIRST_LINE" /\ s.op = "READ"
          /\ s.zodiac_ix = ss[c].zodiac_ix /\ Len(s.interm) <= ASTROLOG_BUF_LEN
          /\ Len(s.buf) \in 1 .. ASTROLOG_BUF_LEN
      BY <1>1, <1>2, <1>5, ReceivedFacts
    <2>2. s.zodiac_ix = NONE
      BY <1>1, <1>2, <2>1 DEF SignInv
    <2>3. Iterated(c, t)
      BY <1>5
    <2> HIDE DEF s
    <2>4. Len(s.buf) <= ASTROLOG_BUF_LEN
      BY <2>1, BufferLength
    <2>5. GoodStruct(t)
      BY <1>2, <2>1, <2>4, FirstLineFacts
    <2>6. SignInv(t) /\ Deserved(t, net[c])
      BY <2>1, <2>2, FirstLineReason
    <2> HIDE DEF t
    <2> QED BY <1>1, <1>5, <2>3, <2>5, <2>6, ReadReason
  <1> QED BY <1>3, <1>4, <1>5 DEF handle_first_line

\* What an iteration leaves is a good struct because the invariant is kept.
LEMMA LeftIsGood ==
    ASSUME ServerInv, ServerInv', NEW c \in Conn, pc = "update", c = cur, NEW t, Iterated(c, t)
    PROVE  GoodStruct(t)
  <1>1. ss'[c] = t
    BY LoopTypes DEF Iterated
  <1>2. ss'[c] \in ServerState
    BY DEF ServerInv, TypeOK
  <1>3. Fits(ss'[c])
    <2>1. Fits(ss[c])'
      BY DEF ServerInv, BuffersFit
    <2> QED BY <2>1 DEF Fits, Rem
  <1>4. cur' = cur /\ pc' \in {"update", "finish"}
    BY DEF Iterated
  <1>5. ss'[c].state # "FREED"
    BY <1>4 DEF ServerInv, EventsAlive
  <1> QED BY <1>1, <1>2, <1>3, <1>5 DEF GoodStruct

LEMMA HandleRecvHReason ==
    ASSUME ServerInv, ReasonInv, NEW c \in Conn, handle_recv_h(c)
    PROVE  ReasonInv'
  <1>1. pc = "update" /\ c = cur /\ ss[c].state = "RECV_H" /\ ServerInv'
    BY HandleRecvHInv DEF handle_recv_h, Handling
  <1>2. TypeOK /\ BuffersFit /\ ss[c] \in ServerState /\ Fits(ss[c])
    BY <1>1, UpdatingReason
  <1>3. CASE (RecvFailed(c) \/ RecvEnded(c)) /\ Iterated(c, Failed(ss[c])) /\ UNCHANGED net
    <2>1. net[c].peer # "open"
      BY <1>1, <1>3, ReadFindsData DEF RecvFailed, RecvEnded
    <2> QED BY <1>1, <1>3, <2>1, FailedReason
  <1>4. ASSUME NEW n \in 1 .. ASTROLOG_BUF_LEN, ChunkSize(Buffered(c), Rem(ss[c]), n)
        PROVE  /\ Received(c, n) \in ServerState /\ Received(c, n).state = "RECV_H"
               /\ Received(c, n).op = "READ"
    BY <1>1, <1>2, <1>4, ReceivedFacts
  <1>5. ASSUME NEW n \in 1 .. ASTROLOG_BUF_LEN,
               ChunkSize(Buffered(c), Rem(ss[c]), n),
               net' = [net EXCEPT ![c].inq = LeftInSocket(c)],
               Iterated(c, [Received(c, n) EXCEPT
                               !.buf = STAR_REPLY_SUCCESS, !.zodiac_ix = NONE,
                               !.state = "SEND_THANKS", !.op = "WRITE",
                               !.ttl = update_ts("WRITE")])
        PROVE  ReasonInv'
    <2> DEFINE s == Received(c, n)
               t == [s EXCEPT !.buf = STAR_REPLY_SUCCESS, !.zodiac_ix = NONE,
                              !.state = "SEND_THANKS", !.op = "WRITE",
                              !.ttl = update_ts("WRITE")]
    <2>1. s \in ServerState
      BY <1>4, <1>5
    <2>2. Iterated(c, t)
      BY <1>5
    <2> HIDE DEF s
    <2>3. t.state = "SEND_THANKS" /\ t.zodiac_ix = NONE
      BY <2>1 DEF ServerState
    <2> HIDE DEF t
    <2>4. GoodStruct(t)
      BY <1>1, <2>2, LeftIsGood
    <2>5. SignInv(t) /\ Deserved(t, net[c])
      BY <2>3 DEF SignInv, Deserved
    <2> QED BY <1>1, <1>5, <2>2, <2>4, <2>5, ReadReason
  <1>6. ASSUME NEW n \in 1 .. ASTROLOG_BUF_LEN,
               ChunkSize(Buffered(c), Rem(ss[c]), n),
               net' = [net EXCEPT ![c].inq = LeftInSocket(c)],
               Iterated(c, IF Rem(Received(c, n)) = 0 THEN Failed(Received(c, n))
                           ELSE Received(c, n))
        PROVE  ReasonInv'
    <2> DEFINE s == Received(c, n)
               t == IF Rem(s) = 0 THEN Failed(s) ELSE s
    <2>1. s \in ServerState /\ s.state = "RECV_H" /\ s.op = "READ"
      BY <1>4, <1>6
    <2>2. Iterated(c, t)
      BY <1>6
    <2> HIDE DEF s
    <2>3. SignInv(t) /\ Deserved(t, net[c])
      <3>1. CASE Rem(s) = 0
        <4>1. IsBadLine(s)
          BY <2>1, <3>1 DEF IsBadLine
        <4>2. t = Failed(s)
          BY <3>1
        <4> HIDE DEF t
        <4> QED BY <2>1, <4>1, <4>2, FailedIsDeserved
      <3>2. CASE Rem(s) # 0
        <4>1. t = s
          BY <3>2
        <4> HIDE DEF t
        <4> QED BY <2>1, <4>1 DEF SignInv, Deserved
      <3> QED BY <3>1, <3>2
    <2> HIDE DEF t
    <2>4. GoodStruct(t)
      BY <1>1, <2>2, LeftIsGood
    <2> QED BY <1>1, <1>6, <2>2, <2>3, <2>4, ReadReason
  <1> QED BY <1>3, <1>5, <1>6 DEF handle_recv_h

\* No reply is sent too early.
LEMMA HandleSendReplyReason ==
    ASSUME ServerInv, ReasonInv, NEW c \in Conn, handle_send_reply(c)
    PROVE  ReasonInv'
  <1>1. pc = "update" /\ c = cur /\ ss[c].state \in {"SEND_THANKS", "SEND_H"} /\ ServerInv'
    BY HandleSendReplyInv DEF handle_send_reply, Handling
  <1>2. /\ TypeOK /\ BuffersFit /\ ss[c] \in ServerState /\ Fits(ss[c]) /\ SignInv(ss[c])
        /\ HasWork(ss[c], net[c]) /\ net[c] \in Socket /\ net \in [Conn -> Socket]
    BY <1>1, UpdatingReason
  <1>3. CASE Killed
    BY <1>3, EndReason
  <1>4. CASE /\ net[c].peer = "abort" \/ (net[c].peer = "open" /\ net[c].unread = SNDBUF)
             /\ Iterated(c, Failed(ss[c])) /\ UNCHANGED net
    <2>1. ~(net[c].unread < SNDBUF) \/ net[c].peer = "abort"
      BY <1>4, AstrologAssumption
    <2>2. net[c].peer # "open"
      BY <1>1, <1>2, <1>4, <2>1 DEF HasWork
    <2> QED BY <1>1, <1>4, <2>2, FailedReason
  <1> DEFINE t == Sent(c)
  <1>5. SignInv(t) /\ \A k : Deserved(t, k)
    <2> DEFINE rest == After(ss[c].buf, SendSize(c))
    <2>1. /\ t.zodiac_ix = ss[c].zodiac_ix
          /\ t.state = "RECV_FIRST_LINE" \/ t.state = ss[c].state
      <3> HIDE DEF rest
      <3> QED BY <1>2 DEF Sent, rest, ServerState
    <2>2. ss[c].zodiac_ix = NONE
      BY <1>1, <1>2 DEF SignInv
    <2> HIDE DEF t
    <2> QED BY <1>1, <2>1, <2>2 DEF SignInv, Deserved
  <1>6. ASSUME NEW k \in Socket, k.peer # "none", net' = [net EXCEPT ![c] = k], Iterated(c, t)
        PROVE  ReasonInv'
    <2>1. GoodStruct(t)
      BY <1>1, <1>6, LeftIsGood
    <2> HIDE DEF t
    <2>2. t \in ServerState /\ Fits(t) /\ Deserved(t, k) /\ SignInv(t)
      BY <1>5, <2>1 DEF GoodStruct
    <2> QED BY <1>1, <1>6, <2>2, IteratedReason
  <1>7. net'[c] \in Socket
    BY <1>1 DEF ServerInv, TypeOK
  <1>8. CASE /\ net[c].peer = "open" /\ Iterated(c, t)
             /\ net' = [net EXCEPT ![c].sent = @ \o First(ss[c].buf, SendSize(c)),
                                   ![c].unread = @ + SendSize(c)]
    <2> DEFINE a == net[c].sent \o First(ss[c].buf, SendSize(c))
               b == net[c].unread + SendSize(c)
               k == [net[c] EXCEPT !.sent = a, !.unread = b]
    <2>1. net' = [net EXCEPT ![c] = k]
      BY <1>2, <1>8, Zenon
    <2>2. k.peer = "open"
      <3> HIDE DEF a, b
      <3> QED BY <1>2, <1>8 DEF Socket
    <2>3. net'[c] = k
      BY <1>2, <2>1
    <2> HIDE DEF k
    <2> QED BY <1>6, <1>7, <1>8, <2>1, <2>2, <2>3
  <1>9. ASSUME Iterated(c, t), NEW p \in {"fin", "rst"},
               net' = [net EXCEPT ![c].sent = @ \o First(ss[c].buf, SendSize(c)),
                                  ![c].peer = p]
        PROVE  ReasonInv'
    <2> DEFINE a == net[c].sent \o First(ss[c].buf, SendSize(c))
               k == [net[c] EXCEPT !.sent = a, !.peer = p]
    <2>1. net' = [net EXCEPT ![c] = k]
      BY <1>2, <1>9, Zenon
    <2>2. k.peer = p
      <3> HIDE DEF a
      <3> QED BY <1>2 DEF Socket
    <2>3. net'[c] = k
      BY <1>2, <2>1
    <2> HIDE DEF k
    <2> QED BY <1>6, <1>7, <1>9, <2>1, <2>2, <2>3
  <1> QED BY <1>3, <1>4, <1>8, <1>9 DEF handle_send_reply

LEMMA NothingToHandleReason ==
    ASSUME ServerInv, ReasonInv, NEW c \in Conn, NothingToHandle(c)
    PROVE  ReasonInv'
  <1> DEFINE s == ss[c]
             k == net[c]
  <1>1. pc = "update" /\ c = cur /\ Iterated(c, s) /\ net' = net
    BY DEF NothingToHandle, Handling
  <1>2. /\ s \in ServerState /\ k \in Socket /\ Fits(s) /\ SignInv(s) /\ Deserved(s, k)
        /\ k.peer # "none" /\ net' = [net EXCEPT ![c] = k]
    BY <1>1, UpdatingReason
  <1> HIDE DEF s, k
  <1> QED BY <1>1, <1>2, IteratedReason

LEMMA NextReason == ServerInv /\ ReasonInv /\ [Next]_vars => ReasonInv'
  <1> SUFFICES ASSUME ServerInv, ReasonInv, [Next]_vars PROVE ReasonInv'
    OBVIOUS
  <1>1. CASE epoll_wait \/ EventsReported \/ WaitTimedOut \/ WaitFailed
    BY <1>1, BatchReason
  <1>2. CASE Exit
    BY <1>2, EndReason
  <1>3. CASE process_new_connection
    BY <1>3, NewConnectionReason
  <1>4. ASSUME NEW c \in Conn, discard_expired_connections(c) \/ Dispatch(c) \/ update_state(c)
        PROVE  ReasonInv'
    BY <1>4, DiscardReason, DispatchReason, HandleFirstLineReason, HandleRecvHReason,
       HandleSendReplyReason, NothingToHandleReason, FinishReason DEF update_state
  <1>5. ASSUME NEW c \in Conn, FreeHeapElem(c) PROVE ReasonInv'
    <2>1. /\ c \in heap /\ remove_server_state({c}) /\ UNCHANGED <<events, expired, backlog>>
          /\ Ending /\ Ending'
      BY <1>5 DEF FreeHeapElem, process, Ending
    <2> QED BY <2>1, RemovedReason
  <1>6. ASSUME NEW c \in Conn, Client(c) PROVE ReasonInv'
    BY <1>6, ClientReason
  <1>7. CASE Tick
    BY <1>7, TickReason
  <1>8. CASE UNCHANGED vars
    <2>1. UNCHANGED <<pc, events, expired, cur, heap, epoll, ss, net, backlog>>
      BY <1>8 DEF vars, process, server
    <2>2. BacklogInv' /\ EventsStayReady'
      BY <2>1 DEF ReasonInv, BacklogInv, Waits, EventsStayReady, IsReady
    <2> QED BY <2>1, <2>2 DEF ReasonInv, Ending
  <1> QED BY <1>1, <1>2, <1>3, <1>4, <1>5, <1>6, <1>7, <1>8 DEF Next, Server, Ended

LEMMA InitReason == Init => ReasonInv
  <1> SUFFICES ASSUME Init PROVE ReasonInv
    OBVIOUS
  <1>1. /\ pc = "run" /\ events = {} /\ expired = {} /\ heap = {} /\ backlog = <<>>
        /\ ss = [c \in Conn |-> Freed]
    BY DEF Init
  <1>2. Len(backlog) = 0
    BY <1>1
  <1>3. BacklogInv
    BY <1>1, <1>2 DEF BacklogInv, Waits
  <1>4. SignInv(Freed)
    BY DEF SignInv, Freed
  <1> QED BY <1>1, <1>3, <1>4 DEF ReasonInv, EventsStayReady

\* Both invariants together.
THEOREM ReasonInvariant == Spec => [](ServerInv /\ ReasonInv)
  BY InitInv, NextInv, InitReason, NextReason, PTL DEF Spec

\* What epoll_wait reported about a connection is still true when its turn in
\* the batch comes: no handler of another event and no client undoes it.
THEOREM ReportsStayTrue == Spec => []EventsStayReady
  <1>1. ReasonInv => EventsStayReady
    BY DEF ReasonInv
  <1> QED BY <1>1, ReasonInvariant, PTL

\* A connection whose client is still there is given up only for a bad line or
\* an expired deadline, never because a read or a write was tried too early.
THEOREM NoErrorWithoutReason == Spec => []ErrorsAreDeserved
  <1>1. ServerInv /\ ReasonInv => ErrorsAreDeserved
    BY LoopTypes DEF ReasonInv, ErrorsAreDeserved, Deserved
  <1> QED BY <1>1, ReasonInvariant, PTL

-----------------------------------------------------------------------------
\* A stream is what it is cut into.
LEMMA CutAndJoin ==
    ASSUME NEW S, NEW s \in Seq(S), NEW n \in 0 .. Len(s)
    PROVE  First(s, n) \o After(s, n) = s
  <1>1. Len(s) \in Nat
    BY LenProperties
  <1>2. 1 \in 1 .. Len(s) + 1 /\ n \in 1 - 1 .. Len(s) /\ Len(s) \in n .. Len(s)
    BY <1>1
  <1>3. SubSeq(s, 1, n) \o SubSeq(s, n + 1, Len(s)) = SubSeq(s, 1, Len(s))
    BY <1>2, ConcatAdjacentSubSeq
  <1> QED BY <1>3, SubSeqFull DEF First, After

\* Cutting a concatenation where it was joined gives its parts.
LEMMA JoinAndCut ==
    ASSUME NEW S, NEW s \in Seq(S), NEW t \in Seq(S)
    PROVE  /\ First(s \o t, Len(s)) = s /\ After(s \o t, Len(s)) = t
           /\ Len(s) \in 0 .. Len(s \o t)
           /\ \A i \in 1 .. Len(s) : i \in 1 .. Len(s \o t) /\ (s \o t)[i] = s[i]
  <1> DEFINE u == s \o t
             n == Len(s)
  <1>1. /\ n \in Nat /\ Len(t) \in Nat /\ u \in Seq(S) /\ Len(u) = n + Len(t)
        /\ \A i \in 1 .. n + Len(t) : u[i] = IF i <= n THEN s[i] ELSE t[i - n]
    BY LenProperties, ConcatProperties
  <1> HIDE DEF u
  <1>2. n \in 0 .. Len(u)
    BY <1>1
  <1>3. /\ First(u, n) \in Seq(S) /\ Len(First(u, n)) = n
        /\ \A i \in 1 .. n : First(u, n)[i] = u[i]
    BY <1>1, <1>2, CutFacts
  <1>4. \A i \in 1 .. n : u[i] = s[i] /\ i \in 1 .. Len(u)
    BY <1>1
  <1>5. First(u, n) = s
    BY <1>3, <1>4, SeqEqual
  <1>6. After(u, n) \in Seq(S)
    BY <1>1, <1>2, CutFacts
  <1>7. s \o After(u, n) = s \o t
    BY <1>1, <1>2, <1>5, CutAndJoin DEF u
  <1>8. After(u, n) = t
    BY <1>6, <1>7, ConcatSimplifications
  <1> QED BY <1>2, <1>4, <1>5, <1>8 DEF u

\* Concatenation, as an operator whose definition the steps below need not see.
Join(s, t) == s \o t

LEMMA JoinType == \A S : \A s, t \in Seq(S) : Join(s, t) \in Seq(S)
  BY ConcatProperties DEF Join

LEMMA JoinAssociative ==
    \A S : \A s, t, u \in Seq(S) : Join(Join(s, t), u) = Join(s, Join(t, u))
  BY ConcatAssociative DEF Join

\* Words that move from one piece to the next.
LEMMA MovedAlong ==
    ASSUME NEW S, NEW x \in Seq(S), NEW q \in Seq(S), NEW f \in Seq(S), NEW r \in Seq(S)
    PROVE  Join(Join(x, Join(q, f)), r) = Join(Join(x, q), Join(f, r))
  <1>1. Join(x, q) \in Seq(S) /\ Join(q, f) \in Seq(S)
    BY JoinType
  <1>2. Join(x, Join(q, f)) = Join(Join(x, q), f)
    BY JoinAssociative
  <1>3. Join(Join(Join(x, q), f), r) = Join(Join(x, q), Join(f, r))
    BY <1>1, JoinAssociative
  <1> QED BY <1>2, <1>3

\* A stream has one first line.
LEMMA OneFirstLine ==
    ASSUME NEW S, NEW s \in Seq(S), NEW m, NEW n, IsLine(s, m), IsLine(s, n)
    PROVE  m = n
  <1>1. Len(s) \in Nat
    BY LenProperties
  <1> QED BY <1>1 DEF IsLine

\* The first line of a stream stays that when more follows.
LEMMA LineThenMore ==
    ASSUME NEW S, NEW s \in Seq(S), NEW t \in Seq(S), IsLine(s, Len(s))
    PROVE  IsLine(s \o t, Len(s))
  <1>1. Len(s) \in Nat
    BY LenProperties
  <1> QED BY <1>1, JoinAndCut DEF IsLine

-----------------------------------------------------------------------------
\* What a connection's struct and socket stand for in the service.
UnservedOf(s, k) ==
    Join(Join(Join(IF s.op = "READ" THEN s.buf ELSE <<>>, s.interm), k.inq), k.todo)

OwedOf(s, k) == Join(k.sent, IF s.op = "WRITE" THEN s.buf ELSE <<>>)

\* A struct that is read into holds less than a line.
PartialLine(s) ==
    s.state \in {"RECV_FIRST_LINE", "RECV_H"} =>
        \A i \in 1 .. Len(s.buf) : s.buf[i] # DELIMITER

\* What the refinement needs beyond ServerInv and ReasonInv: nothing of a
\* connection outlives its struct and its socket.
ServiceInv ==
    \A c \in Conn : /\ c \notin heap => ss[c] = Freed
                    /\ net[c].peer = "none" => net[c] = NoSocket
                    /\ PartialLine(ss[c])

\* The service's variables, before and after a step.
LEMMA ServiceView ==
    /\ Service!serviceVars =
          <<[z \in Zodiac |-> Prognosis(z)], [c \in Conn |-> UnservedOf(ss[c], net[c])],
            [c \in Conn |-> ss[c].zodiac_ix], [c \in Conn |-> OwedOf(ss[c], net[c])]>>
    /\ Service!serviceVars' =
          <<[z \in Zodiac |-> Prognosis(z)'], [c \in Conn |-> UnservedOf(ss'[c], net'[c])],
            [c \in Conn |-> ss'[c].zodiac_ix], [c \in Conn |-> OwedOf(ss'[c], net'[c])]>>
  BY Zenon DEF Service!serviceVars, Unserved, Owed, UnservedOf, OwedOf, Join

SameView(s, k, t, l) ==
    UnservedOf(s, k) = UnservedOf(t, l) /\ OwedOf(s, k) = OwedOf(t, l)
    /\ s.zodiac_ix = t.zodiac_ix

\* A step that the service cannot see.
LEMMA Unseen ==
    ASSUME zodiac_prognosises' = zodiac_prognosises,
           \A c \in Conn : SameView(ss'[c], net'[c], ss[c], net[c])
    PROVE  UNCHANGED Service!serviceVars
  <1>1. \A z \in Zodiac : Prognosis(z)' = Prognosis(z)
    BY DEF Prognosis, Row
  <1> QED BY <1>1, ServiceView, Zenon DEF SameView

\* A freed struct and a closed socket are an empty connection.
LEMMA EmptyView ==
    /\ UnservedOf(Freed, NoSocket) = <<>> /\ OwedOf(Freed, NoSocket) = <<>>
    /\ Freed.zodiac_ix = NONE
  BY DEF UnservedOf, OwedOf, Freed, NoSocket, Join

\* Freed structs and closed sockets are connections that were dropped.
LEMMA DroppedSeen ==
    ASSUME NEW C \in SUBSET Conn, zodiac_prognosises' = zodiac_prognosises,
           \A c \in C : ss'[c] = Freed /\ net'[c] = NoSocket,
           \A c \in Conn \ C : SameView(ss'[c], net'[c], ss[c], net[c])
    PROVE  Service!Next
  <1>1. \A z \in Zodiac : Prognosis(z)' = Prognosis(z)
    BY DEF Prognosis, Row
  <1>2. \A c \in Conn :
           /\ Unserved(c) = UnservedOf(ss[c], net[c]) /\ Owed(c) = OwedOf(ss[c], net[c])
           /\ Unserved(c)' = UnservedOf(ss'[c], net'[c]) /\ Owed(c)' = OwedOf(ss'[c], net'[c])
    BY Zenon DEF Unserved, Owed, UnservedOf, OwedOf, Join
  <1>3. \A c \in Conn :
           /\ Unserved(c)' = IF c \in C THEN <<>> ELSE Unserved(c)
           /\ ss'[c].zodiac_ix = IF c \in C THEN NONE ELSE ss[c].zodiac_ix
           /\ Owed(c)' = IF c \in C THEN <<>> ELSE Owed(c)
    BY <1>2, EmptyView DEF SameView
  <1>4. Service!Drop(C)
    BY <1>1, <1>3, Zenon DEF Service!Drop
  <1> QED BY <1>4 DEF Service!Next

-----------------------------------------------------------------------------
ServiceStep == Service!Next \/ UNCHANGED Service!serviceVars

\* Steps that leave structs, sockets and table alone.
LEMMA NothingSeen ==
    ASSUME ServiceInv, UNCHANGED <<heap, ss, net, zodiac_prognosises>>
    PROVE  ServiceInv' /\ ServiceStep
  <1>1. ServiceInv'
    BY DEF ServiceInv
  <1>2. \A c \in Conn : SameView(ss'[c], net'[c], ss[c], net[c])
    BY DEF SameView
  <1>3. zodiac_prognosises' = zodiac_prognosises
    OBVIOUS
  <1>4. UNCHANGED Service!serviceVars
    BY <1>2, <1>3, Unseen
  <1> QED BY <1>1, <1>4 DEF ServiceStep

\* One connection's struct becomes s and its socket k.
LEMMA OneChanged ==
    ASSUME ServerInv, NEW c \in Conn, NEW s, NEW k,
           ss' = [ss EXCEPT ![c] = s], net' = [net EXCEPT ![c] = k]
    PROVE  /\ ss'[c] = s /\ net'[c] = k
           /\ \A d \in Conn : d # c => ss'[d] = ss[d] /\ net'[d] = net[d]
           /\ \A d \in Conn : d # c => SameView(ss'[d], net'[d], ss[d], net[d])
  <1>1. /\ ss'[c] = s /\ net'[c] = k
        /\ \A d \in Conn : d # c => ss'[d] = ss[d] /\ net'[d] = net[d]
    BY LoopTypes
  <1> QED BY <1>1, Zenon DEF SameView

LEMMA OneKeeps ==
    ASSUME ServerInv, ServiceInv, NEW c \in heap, NEW s, NEW k,
           ss' = [ss EXCEPT ![c] = s], net' = [net EXCEPT ![c] = k], heap' = heap,
           k.peer # "none", PartialLine(s)
    PROVE  ServiceInv'
  <1>1. c \in Conn
    BY LoopTypes
  <1>2. /\ ss'[c] = s /\ net'[c] = k
        /\ \A d \in Conn : d # c => ss'[d] = ss[d] /\ net'[d] = net[d]
    BY <1>1, OneChanged
  <1> SUFFICES ASSUME NEW d \in Conn
               PROVE  /\ d \notin heap => ss'[d] = Freed
                      /\ net'[d].peer = "none" => net'[d] = NoSocket
                      /\ PartialLine(ss'[d])
    BY DEF ServiceInv, PartialLine
  <1>3. CASE d = c
    BY <1>2, <1>3
  <1>4. CASE d # c
    BY <1>2, <1>4 DEF ServiceInv
  <1> QED BY <1>3, <1>4

\* The same, when the service does not see the change.
LEMMA OneUnseen ==
    ASSUME ServerInv, ServiceInv, NEW c \in heap, NEW s, NEW k,
           ss' = [ss EXCEPT ![c] = s], net' = [net EXCEPT ![c] = k], heap' = heap,
           zodiac_prognosises' = zodiac_prognosises,
           k.peer # "none", PartialLine(s), SameView(s, k, ss[c], net[c])
    PROVE  ServiceInv' /\ ServiceStep
  <1>1. ServiceInv'
    BY OneKeeps
  <1>2. c \in Conn
    BY LoopTypes
  <1>3. \A d \in Conn : SameView(ss'[d], net'[d], ss[d], net[d])
    <2>1. /\ ss'[c] = s /\ net'[c] = k
          /\ \A d \in Conn : d # c => SameView(ss'[d], net'[d], ss[d], net[d])
      BY <1>2, OneChanged
    <2> QED BY <2>1, Zenon
  <1>4. UNCHANGED Service!serviceVars
    BY <1>3, Unseen
  <1> QED BY <1>1, <1>4 DEF ServiceStep

\* A struct that is given up looks the same to the service.
LEMMA StateSeen ==
    ASSUME NEW s \in ServerState, NEW k, NEW x \in {"ERROR", "SUCCESS"}
    PROVE  /\ SameView([s EXCEPT !.state = x], k, s, k)
           /\ PartialLine([s EXCEPT !.state = x])
  <1> DEFINE t == [s EXCEPT !.state = x]
  <1>1. /\ t.op = s.op /\ t.buf = s.buf /\ t.interm = s.interm /\ t.zodiac_ix = s.zodiac_ix
        /\ t.state = x
    BY DEF ServerState
  <1> HIDE DEF t
  <1>2. SameView(t, k, s, k)
    BY <1>1, Zenon DEF SameView, UnservedOf, OwedOf
  <1>3. PartialLine(t)
    BY <1>1 DEF PartialLine
  <1> QED BY <1>2, <1>3 DEF t

\* What is in the heap has a socket.
LEMMA HeapSocket ==
    ASSUME ServerInv, ReasonInv, NEW c \in heap
    PROVE  c \in Conn /\ net[c].peer # "none" /\ net[c] \in Socket /\ ss[c] \in ServerState
  BY LoopTypes DEF ReasonInv, BacklogInv

\* Connections that are dropped.
LEMMA Removed ==
    ASSUME ServerInv, ServiceInv, NEW C \in SUBSET Conn, remove_server_state(C),
           zodiac_prognosises' = zodiac_prognosises
    PROVE  ServiceInv' /\ ServiceStep
  <1>1. /\ heap' = heap \ C
        /\ \A c \in C : ss'[c] = Freed /\ net'[c] = NoSocket
        /\ \A c \in Conn \ C : ss'[c] = ss[c] /\ net'[c] = net[c]
    BY DEF remove_server_state
  <1>2. PartialLine(Freed)
    BY DEF PartialLine, Freed
  <1>3. \A c \in Conn : PartialLine(ss'[c])
    BY <1>1, <1>2 DEF ServiceInv
  <1>4. ServiceInv'
    <2> SUFFICES ASSUME NEW c \in Conn
                 PROVE  /\ c \notin heap' => ss'[c] = Freed
                        /\ net'[c].peer = "none" => net'[c] = NoSocket
      BY <1>3 DEF ServiceInv, PartialLine
    <2> QED BY <1>1 DEF ServiceInv
  <1>5. \A c \in Conn \ C : SameView(ss'[c], net'[c], ss[c], net[c])
    BY <1>1, Zenon DEF SameView
  <1>6. Service!Next
    BY <1>1, <1>5, DroppedSeen
  <1> QED BY <1>4, <1>6 DEF ServiceStep

-----------------------------------------------------------------------------
LEMMA ExitSeen ==
    ASSUME ServerInv, ServiceInv, Exit
    PROVE  ServiceInv' /\ ServiceStep
  <1>1. /\ heap = {} /\ UNCHANGED <<heap, ss, zodiac_prognosises>>
        /\ \A c \in Conn : net'[c] = NoSocket
    BY DEF Exit, server
  <1>2. \A c \in Conn : ss'[c] = Freed
    BY <1>1 DEF ServiceInv
  <1>3. ServiceInv'
    BY <1>1 DEF ServiceInv, PartialLine
  <1>4. Service!Next
    BY <1>1, <1>2, DroppedSeen
  <1> QED BY <1>3, <1>4 DEF ServiceStep

\* A connection that accept4 returned is as empty as it was.
LEMMA NewConnectionSeen ==
    ASSUME ServerInv, ReasonInv, ServiceInv, process_new_connection
    PROVE  ServiceInv' /\ ServiceStep
  <1>1. CASE UNCHANGED <<server, net, backlog>>
    BY <1>1, NothingSeen DEF server
  <1> DEFINE c == Head(backlog)
  <1>2. backlog # <<>> /\ BacklogInv
    BY DEF process_new_connection, ServerInv, EventsAlive, ReasonInv
  <1>3. c \in Conn /\ c \notin heap
    BY <1>2, AcceptFacts DEF BacklogInv
  <1> HIDE DEF c
  <1>4. ss[c] = Freed
    BY <1>3 DEF ServiceInv
  <1>5. CASE create_server_state(c) /\ UNCHANGED zodiac_prognosises
    <2>1. ss' = [ss EXCEPT ![c] = Created] /\ net' = net /\ heap' = heap \cup {c}
      BY <1>5 DEF create_server_state
    <2>2. /\ ss'[c] = Created
          /\ \A d \in Conn : d # c => ss'[d] = ss[d]
      BY <1>3, <2>1, LoopTypes
    <2>3. /\ Created.op = Freed.op /\ Created.buf = Freed.buf /\ Created.interm = Freed.interm
          /\ Created.zodiac_ix = Freed.zodiac_ix /\ Created.buf = <<>>
      BY DEF Created, Freed
    <2>4. SameView(Created, net[c], Freed, net[c])
      BY <2>3, Zenon DEF SameView, UnservedOf, OwedOf
    <2>5. PartialLine(Created)
      BY <2>3 DEF PartialLine
    <2>6. ServiceInv'
      <3> SUFFICES ASSUME NEW d \in Conn
                   PROVE  /\ d \notin heap' => ss'[d] = Freed
                          /\ net'[d].peer = "none" => net'[d] = NoSocket
                          /\ PartialLine(ss'[d])
        BY DEF ServiceInv, PartialLine
      <3> QED BY <2>1, <2>2, <2>5 DEF ServiceInv
    <2>7. \A d \in Conn : SameView(ss'[d], net'[d], ss[d], net[d])
      <3>1. \A d \in Conn : d # c => SameView(ss'[d], net'[d], ss[d], net[d])
        BY <2>1, <2>2, Zenon DEF SameView
      <3> QED BY <1>4, <2>1, <2>2, <2>4, <3>1, Zenon
    <2> QED BY <1>5, <2>6, <2>7, Unseen DEF ServiceStep
  <1>6. CASE (Rejected(c) \/ SetupFailed(c)) /\ UNCHANGED zodiac_prognosises
    <2>1. net' = [net EXCEPT ![c] = NoSocket] /\ ss' = ss /\ heap' = heap
      <3>1. (heap \cup {c}) \ {c} = heap
        BY <1>3
      <3>2. [ss EXCEPT ![c] = Freed] = ss
        BY <1>3, <1>4, LoopTypes
      <3> QED BY <1>6, <3>1, <3>2 DEF Rejected, SetupFailed, Undone
    <2>2. net'[c] = NoSocket /\ \A d \in Conn : d # c => net'[d] = net[d]
      BY <1>3, <2>1, LoopTypes
    <2>3. ServiceInv'
      <3> SUFFICES ASSUME NEW d \in Conn
                   PROVE  /\ d \notin heap' => ss'[d] = Freed
                          /\ net'[d].peer = "none" => net'[d] = NoSocket
                          /\ PartialLine(ss'[d])
        BY DEF ServiceInv, PartialLine
      <3> QED BY <2>1, <2>2 DEF ServiceInv
    <2>4. \A d \in Conn \ {c} : SameView(ss'[d], net'[d], ss[d], net[d])
      BY <2>1, <2>2, Zenon DEF SameView
    <2>5. {c} \in SUBSET Conn /\ \A d \in {c} : ss'[d] = Freed /\ net'[d] = NoSocket
      BY <1>3, <1>4, <2>1, <2>2
    <2>6. Service!Next
      BY <1>6, <2>4, <2>5, DroppedSeen
    <2> QED BY <2>3, <2>6 DEF ServiceStep
  <1> QED BY <1>1, <1>5, <1>6 DEF process_new_connection, c

\* A connection is opened with what its client has to say.
LEMMA ConnectSeen ==
    ASSUME ServerInv, ReasonInv, ServiceInv, NEW c \in Conn, NEW s \in Streams, Connect(c, s)
    PROVE  ServiceInv' /\ ServiceStep
  <1> DEFINE k == [NoSocket EXCEPT !.peer = "open", !.todo = s]
  <1>1. /\ net[c].peer = "none" /\ net' = [net EXCEPT ![c] = k]
        /\ UNCHANGED <<heap, ss, zodiac_prognosises>>
    BY DEF Connect, server
  <1>2. c \notin heap /\ ss[c] = Freed /\ net[c] = NoSocket
    BY <1>1 DEF ReasonInv, BacklogInv, ServiceInv
  <1>3. k.inq = <<>> /\ k.sent = <<>> /\ k.peer = "open" /\ k.todo = s
    BY DEF NoSocket
  <1> HIDE DEF k
  <1>4. net'[c] = k /\ \A d \in Conn : d # c => net'[d] = net[d]
    BY <1>1, LoopTypes
  <1>5. ServiceInv'
    <2> SUFFICES ASSUME NEW d \in Conn
                 PROVE  /\ d \notin heap' => ss'[d] = Freed
                        /\ net'[d].peer = "none" => net'[d] = NoSocket
                        /\ PartialLine(ss'[d])
      BY DEF ServiceInv, PartialLine
    <2> QED BY <1>1, <1>3, <1>4 DEF ServiceInv
  <1>6. s \in Seq(Word)
    BY AstrologAssumption
  <1>7. UnservedOf(Freed, k) = s /\ OwedOf(Freed, k) = <<>>
    <2>1. UnservedOf(Freed, k) = <<>> \o <<>> \o <<>> \o s /\ OwedOf(Freed, k) = <<>> \o <<>>
      BY <1>3 DEF UnservedOf, OwedOf, Freed, Join
    <2>2. <<>> \o <<>> = <<>>
      OBVIOUS
    <2> QED BY <1>6, <2>1, <2>2, ConcatEmptySeq
  <1>8. \A d \in Conn :
           /\ Unserved(d) = UnservedOf(ss[d], net[d]) /\ Owed(d) = OwedOf(ss[d], net[d])
           /\ Unserved(d)' = UnservedOf(ss'[d], net'[d]) /\ Owed(d)' = OwedOf(ss'[d], net'[d])
    BY Zenon DEF Unserved, Owed, UnservedOf, OwedOf, Join
  <1>9. /\ Unserved(c) = <<>> /\ ss[c].zodiac_ix = NONE /\ Owed(c) = <<>>
        /\ Unserved(c)' = s /\ Owed(c)' = <<>>
        /\ \A d \in Conn : d # c => Unserved(d)' = Unserved(d) /\ Owed(d)' = Owed(d)
    BY <1>1, <1>2, <1>4, <1>7, <1>8, EmptyView, Zenon
  <1>10. \A z \in Zodiac : Prognosis(z)' = Prognosis(z)
    BY <1>1 DEF Prognosis, Row
  <1>11. Service!Open(c, s)
    BY <1>1, <1>9, <1>10 DEF Service!Open
  <1> QED BY <1>5, <1>11 DEF ServiceStep, Service!Next

\* A socket changes in a way that the service does not see.
LEMMA SocketUnseen ==
    ASSUME ServerInv, ServiceInv, NEW c \in Conn, NEW k, net' = [net EXCEPT ![c] = k],
           UNCHANGED <<heap, ss, zodiac_prognosises>>,
           k.peer # "none", SameView(ss[c], k, ss[c], net[c])
    PROVE  ServiceInv' /\ ServiceStep
  <1>1. net'[c] = k /\ \A d \in Conn : d # c => net'[d] = net[d]
    BY LoopTypes
  <1>2. ServiceInv'
    <2> SUFFICES ASSUME NEW d \in Conn
                 PROVE  /\ d \notin heap' => ss'[d] = Freed
                        /\ net'[d].peer = "none" => net'[d] = NoSocket
                        /\ PartialLine(ss'[d])
      BY DEF ServiceInv, PartialLine
    <2> QED BY <1>1 DEF ServiceInv
  <1>3. \A d \in Conn : SameView(ss'[d], net'[d], ss[d], net[d])
    <2>1. \A d \in Conn : d # c => SameView(ss'[d], net'[d], ss[d], net[d])
      BY <1>1, Zenon DEF SameView
    <2>2. SameView(ss'[c], net'[c], ss[c], net[c])
      BY <1>1, Zenon
    <2> QED BY <2>1, <2>2, Zenon
  <1> QED BY <1>2, <1>3, Unseen DEF ServiceStep

\* The words of a connection that are still to be served.
LEMMA ViewTypes ==
    ASSUME NEW s \in ServerState, NEW k \in Socket
    PROVE  /\ (IF s.op = "READ" THEN s.buf ELSE <<>>) \in Seq(Word)
           /\ (IF s.op = "WRITE" THEN s.buf ELSE <<>>) \in Seq(Word)
           /\ s.interm \in Seq(Word) /\ s.buf \in Seq(Word)
           /\ k.inq \in Seq(Word) /\ k.todo \in Seq(Word) /\ k.sent \in Seq(Word)
  BY DEF ServerState, Socket

LEMMA ClientSendSeen ==
    ASSUME ServerInv, ServiceInv, NEW c \in Conn, NEW n, ClientSend(c, n)
    PROVE  ServiceInv' /\ ServiceStep
  <1> DEFINE f == First(net[c].todo, n)
             r == After(net[c].todo, n)
             q == net[c].inq \o f
             k == [net[c] EXCEPT !.inq = q, !.todo = r]
  <1>1. /\ net[c].peer = "open" /\ n \in 1 .. Len(net[c].todo)
        /\ UNCHANGED <<heap, ss, zodiac_prognosises>>
    BY DEF ClientSend, server
  <1>2. net' = [net EXCEPT ![c] = k]
    BY LoopTypes, Zenon DEF ClientSend
  <1>3. net[c] \in Socket /\ ss[c] \in ServerState
    BY LoopTypes
  <1> DEFINE a == IF ss[c].op = "READ" THEN ss[c].buf ELSE <<>>
             b == ss[c].interm
  <1>4. /\ a \in Seq(Word) /\ b \in Seq(Word) /\ net[c].inq \in Seq(Word)
        /\ net[c].todo \in Seq(Word)
    BY <1>3, ViewTypes
  <1>5. f \in Seq(Word) /\ r \in Seq(Word) /\ f \o r = net[c].todo
    <2>1. Len(net[c].todo) \in Nat
      BY <1>4, LenProperties
    <2>2. n \in 0 .. Len(net[c].todo)
      BY <1>1, <2>1
    <2> QED BY <1>4, <2>2, CutFacts, CutAndJoin
  <1> HIDE DEF f, r, a, b
  <1>6. Join(Join(Join(a, b), q), r) = Join(Join(Join(a, b), net[c].inq), net[c].todo)
    <2>1. Join(a, b) \in Seq(Word)
      BY <1>4, JoinType
    <2>2. q = Join(net[c].inq, f) /\ net[c].todo = Join(f, r)
      BY <1>5 DEF Join
    <2>3. net[c].inq \in Seq(Word) /\ f \in Seq(Word) /\ r \in Seq(Word)
      BY <1>4, <1>5
    <2> HIDE DEF q
    <2>4. Join(Join(Join(a, b), Join(net[c].inq, f)), r)
             = Join(Join(Join(a, b), net[c].inq), Join(f, r))
      BY <2>1, <2>3, MovedAlong
    <2> QED BY <2>2, <2>4, Zenon
  <1> HIDE DEF q
  <1>7. k.inq = q /\ k.todo = r /\ k.sent = net[c].sent /\ k.peer = net[c].peer
    BY <1>3 DEF Socket
  <1> HIDE DEF k
  <1>8. SameView(ss[c], k, ss[c], net[c])
    BY <1>6, <1>7, Zenon DEF SameView, UnservedOf, OwedOf, a, b
  <1>9. k.peer # "none"
    BY <1>1, <1>7
  <1> QED BY <1>1, <1>2, <1>8, <1>9, SocketUnseen

LEMMA ClientSeen ==
    ASSUME ServerInv, ReasonInv, ServiceInv, NEW c \in Conn, Client(c)
    PROVE  ServiceInv' /\ ServiceStep
  <1>1. net[c] \in Socket /\ ss[c] \in ServerState
    BY LoopTypes
  <1>2. CASE \E s \in Streams : Connect(c, s)
    BY <1>2, ConnectSeen
  <1>3. CASE \E n \in 1 .. Len(net[c].todo) : ClientSend(c, n)
    BY <1>3, ClientSendSeen
  <1>4. CASE ClientRecv(c) \/ ClientClose(c)
    <2>1. UNCHANGED <<heap, ss, zodiac_prognosises>>
      BY <1>4 DEF ClientRecv, ClientClose, server
    <2>2. PICK p \in {"open", "fin", "rst", "abort"} :
             net' = [net EXCEPT ![c] = [net[c] EXCEPT !.peer = p, !.unread = 0]]
      <3>1. CASE ClientRecv(c)
        <4>1. net' = [net EXCEPT ![c] = [net[c] EXCEPT !.unread = 0]] /\ net[c].peer = "open"
          BY <3>1, LoopTypes, Zenon DEF ClientRecv
        <4>2. [net[c] EXCEPT !.unread = 0] = [net[c] EXCEPT !.peer = "open", !.unread = 0]
          BY <1>1, <4>1 DEF Socket
        <4> QED BY <4>1, <4>2
      <3>2. CASE ClientClose(c)
        <4>1. PICK p \in {"fin", "rst", "abort"} :
                 net' = [net EXCEPT ![c].peer = p, ![c].unread = 0]
          BY <3>2 DEF ClientClose
        <4>2. net' = [net EXCEPT ![c] = [net[c] EXCEPT !.peer = p, !.unread = 0]]
          BY <4>1, LoopTypes, Zenon
        <4> QED BY <4>1, <4>2
      <3> QED BY <1>4, <3>1, <3>2
    <2> DEFINE k == [net[c] EXCEPT !.peer = p, !.unread = 0]
    <2>3. /\ k.inq = net[c].inq /\ k.todo = net[c].todo /\ k.sent = net[c].sent
          /\ k.peer # "none"
      BY <1>1 DEF Socket
    <2>4. net' = [net EXCEPT ![c] = k]
      BY <2>2
    <2> HIDE DEF k
    <2>5. SameView(ss[c], k, ss[c], net[c])
      BY <2>3, Zenon DEF SameView, UnservedOf, OwedOf
    <2> QED BY <2>1, <2>3, <2>4, <2>5, SocketUnseen
  <1> QED BY <1>2, <1>3, <1>4 DEF Client

\* The clock changes deadlines only.
LEMMA TickSeen ==
    ASSUME ServerInv, ServiceInv, Tick
    PROVE  ServiceInv' /\ ServiceStep
  <1>1. /\ ss' = [c \in Conn |-> [ss[c] EXCEPT !.ttl = Before(@)]]
        /\ UNCHANGED <<heap, net, zodiac_prognosises>>
    BY DEF Tick
  <1>2. \A c \in Conn : ss[c] \in ServerState
    BY LoopTypes
  <1>3. \A c \in Conn :
           /\ ss'[c].op = ss[c].op /\ ss'[c].buf = ss[c].buf /\ ss'[c].interm = ss[c].interm
           /\ ss'[c].zodiac_ix = ss[c].zodiac_ix /\ ss'[c].state = ss[c].state
    BY <1>1, <1>2 DEF ServerState
  <1>4. \A c \in Conn : ss[c] = Freed => ss'[c] = Freed
    <2>1. [Freed EXCEPT !.ttl = Before(@)] = Freed
      BY DEF Freed, Before
    <2> QED BY <1>1, <2>1
  <1>5. ServiceInv'
    BY <1>1, <1>3, <1>4 DEF ServiceInv, PartialLine
  <1>6. \A c \in Conn : SameView(ss'[c], net'[c], ss[c], net[c])
    BY <1>1, <1>3, Zenon DEF SameView, UnservedOf, OwedOf
  <1> QED BY <1>1, <1>5, <1>6, Unseen DEF ServiceStep

\* An expired connection is given up.
LEMMA DiscardSeen ==
    ASSUME ServerInv, ReasonInv, ServiceInv, NEW c \in Conn, discard_expired_connections(c)
    PROVE  ServiceInv' /\ ServiceStep
  <1>1. /\ c \in heap /\ heap' = heap /\ net' = net
        /\ zodiac_prognosises' = zodiac_prognosises
        /\ ss' = [ss EXCEPT ![c] = [ss[c] EXCEPT !.state = "ERROR"]]
    BY LoopTypes DEF discard_expired_connections, ServerInv, EventsAlive
  <1>2. /\ ss[c] \in ServerState /\ net[c].peer # "none"
        /\ net' = [net EXCEPT ![c] = net[c]]
    BY <1>1, HeapSocket, LoopTypes
  <1>3. /\ SameView([ss[c] EXCEPT !.state = "ERROR"], net[c], ss[c], net[c])
        /\ PartialLine([ss[c] EXCEPT !.state = "ERROR"])
    BY <1>2, StateSeen
  <1> QED BY <1>1, <1>2, <1>3, OneUnseen

-----------------------------------------------------------------------------
LEMMA JoinEmpty == \A S : \A s \in Seq(S) : Join(s, <<>>) = s /\ Join(<<>>, s) = s
  BY ConcatEmptySeq DEF Join

\* What the service finds when the first line of its input is buf.
LEMMA JoinCut ==
    ASSUME NEW S, NEW s \in Seq(S), NEW t \in Seq(S)
    PROVE  /\ First(Join(s, t), Len(s)) = s /\ After(Join(s, t), Len(s)) = t
           /\ Len(s) \in 0 .. Len(Join(s, t))
           /\ \A i \in 1 .. Len(s) : Join(s, t)[i] = s[i]
           /\ IsLine(s, Len(s)) => IsLine(Join(s, t), Len(s))
  BY JoinAndCut, LineThenMore DEF Join

\* What follows the words in buf.
Behind(s, k) == Join(Join(s.interm, k.inq), k.todo)

\* A read moves words towards buf, no further than the end of a line.
LEMMA ReceivedSeen ==
    ASSUME ServerInv, ServiceInv, NEW c \in Conn, NEW n, NEW s, NEW k,
           ss[c].state \in {"RECV_FIRST_LINE", "RECV_H"},
           ChunkSize(Buffered(c), Rem(ss[c]), n),
           s = Received(c, n), k = [net[c] EXCEPT !.inq = LeftInSocket(c)]
    PROVE  /\ SameView(s, k, ss[c], net[c])
           /\ s.buf \in Seq(Word) /\ Behind(s, k) \in Seq(Word)
           /\ UnservedOf(ss[c], net[c]) = Join(s.buf, Behind(s, k))
           /\ LineEnds(s) => IsLine(s.buf, Len(s.buf))
           /\ ~LineEnds(s) => PartialLine(s)
  <1> DEFINE d == Buffered(c)
             l == LeftInSocket(c)
             b == ss[c].buf
             f == First(d, n)
             a == After(d, n)
             r == net[c].todo
             q == net[c].inq
             i == ss[c].interm
  <1>1. TypeOK /\ BuffersFit
    BY DEF ServerInv
  <1>2. ss[c] \in ServerState /\ net[c] \in Socket /\ ss[c].op = "READ"
    BY <1>1 DEF TypeOK, BuffersFit, Fits
  <1>3. b \in Seq(Word) /\ i \in Seq(Word) /\ q \in Seq(Word) /\ r \in Seq(Word)
    BY <1>2, ViewTypes
  <1>4. d \in Seq(Word) /\ l \in Seq(Word)
    BY <1>1, BufferedFacts
  <1>5. Join(i, q) = Join(d, l)
    <2>1. CASE i # <<>>
      BY <2>1 DEF Buffered, LeftInSocket
    <2>2. CASE i = <<>>
      <3> DEFINE m == MIN(ASTROLOG_BUF_LEN, Len(q))
      <3>1. m \in 0 .. Len(q)
        <4>1. Len(q) \in Nat
          BY <1>3, LenProperties
        <4> QED BY <4>1, BufferLength DEF MIN
      <3>2. d = First(q, m) /\ l = After(q, m)
        BY <2>2 DEF Buffered, LeftInSocket
      <3> HIDE DEF m, d, l, q
      <3>3. Join(d, l) = q
        BY <1>3, <3>1, <3>2, CutAndJoin DEF Join
      <3> HIDE DEF i
      <3>4. Join(i, q) = q
        BY <1>3, <2>2, JoinEmpty
      <3> QED BY <3>3, <3>4
    <2> QED BY <2>1, <2>2
  <1>6. n \in 1 .. Len(d) /\ (\A j \in 1 .. n - 1 : d[j] # DELIMITER)
        /\ (d[n] = DELIMITER \/ n = MIN(Rem(ss[c]), Len(d)))
    <2>1. Len(d) \in Nat /\ Len(b) \in Nat /\ Len(b) <= ASTROLOG_BUF_LEN
      BY <1>1, <1>3, <1>4, LenProperties DEF BuffersFit, Fits
    <2>2. Rem(ss[c]) = ASTROLOG_BUF_LEN - Len(b)
      BY DEF Rem
    <2> HIDE DEF d, b
    <2>3. MIN(Rem(ss[c]), Len(d)) <= Len(d)
      BY <2>1, <2>2, BufferLength DEF MIN
    <2>4. MIN(Rem(ss[c]), Len(d)) \in Int
      BY <2>1, <2>2, BufferLength DEF MIN
    <2>5. /\ n \in 1 .. MIN(Rem(ss[c]), Len(d))
          /\ \A j \in 1 .. n - 1 : d[j] # DELIMITER
          /\ d[n] = DELIMITER \/ n = MIN(Rem(ss[c]), Len(d))
      BY DEF ChunkSize, d
    <2> QED BY <2>1, <2>3, <2>4, <2>5
  <1>7. /\ f \in Seq(Word) /\ a \in Seq(Word) /\ Join(f, a) = d /\ Len(f) = n
        /\ \A j \in 1 .. n : f[j] = d[j]
    <2>1. n \in 0 .. Len(d)
      BY <1>6
    <2> HIDE DEF d
    <2> QED BY <1>4, <2>1, CutFacts, CutAndJoin DEF Join
  <1>8. /\ s.buf = Join(b, f) /\ s.interm = a /\ s.op = "READ"
        /\ s.zodiac_ix = ss[c].zodiac_ix /\ s.state = ss[c].state
    <2> DEFINE x == b \o f
    <2>0. s = [ss[c] EXCEPT !.buf = x, !.interm = a]
      BY DEF Received
    <2>2. Join(b, f) = x
      BY DEF Join
    <2> HIDE DEF x, a
    <2>1. /\ s.buf = x /\ s.interm = a /\ s.op = ss[c].op
          /\ s.zodiac_ix = ss[c].zodiac_ix /\ s.state = ss[c].state
      BY <1>2, <2>0 DEF ServerState
    <2> QED BY <1>2, <2>1, <2>2
  <1>9. k.inq = l /\ k.todo = r /\ k.sent = net[c].sent
    BY <1>2 DEF Socket
  <1> HIDE DEF d, l, b, f, a, r, q, i
  <1>10. Join(Join(Join(Join(b, f), a), l), r) = Join(Join(Join(b, i), q), r)
    <2>1. Join(b, f) \in Seq(Word) /\ Join(a, l) \in Seq(Word)
      BY <1>3, <1>4, <1>7, JoinType
    <2>2. Join(Join(Join(b, f), a), l) = Join(Join(b, f), Join(a, l))
      BY <1>4, <1>7, <2>1, JoinAssociative
    <2>3. Join(Join(b, f), Join(a, l)) = Join(b, Join(f, Join(a, l)))
      BY <1>3, <1>7, <2>1, JoinAssociative
    <2>4. Join(f, Join(a, l)) = Join(d, l)
      BY <1>4, <1>7, JoinAssociative
    <2>5. Join(b, Join(i, q)) = Join(Join(b, i), q)
      BY <1>3, JoinAssociative
    <2> QED BY <1>5, <2>2, <2>3, <2>4, <2>5
  <1>11. SameView(s, k, ss[c], net[c])
    <2>1. UnservedOf(s, k) = Join(Join(Join(Join(b, f), a), l), r)
      BY <1>8, <1>9, Zenon DEF UnservedOf
    <2>2. UnservedOf(ss[c], net[c]) = Join(Join(Join(b, i), q), r)
      BY <1>2, Zenon DEF UnservedOf, b, i, q, r
    <2>3. OwedOf(s, k) = OwedOf(ss[c], net[c])
      BY <1>2, <1>8, <1>9, Zenon DEF OwedOf
    <2> QED BY <1>8, <1>10, <2>1, <2>2, <2>3, Zenon DEF SameView
  <1>12. /\ s.buf \in Seq(Word) /\ Behind(s, k) \in Seq(Word)
         /\ UnservedOf(ss[c], net[c]) = Join(s.buf, Behind(s, k))
    <2>1. s.buf \in Seq(Word) /\ Join(a, l) \in Seq(Word) /\ Join(Join(a, l), r) \in Seq(Word)
      BY <1>3, <1>4, <1>7, <1>8, JoinType
    <2>2. Behind(s, k) = Join(Join(a, l), r)
      BY <1>8, <1>9, Zenon DEF Behind
    <2>3. UnservedOf(s, k) = Join(Join(Join(s.buf, a), l), r)
      BY <1>8, <1>9, Zenon DEF UnservedOf
    <2> DEFINE w == s.buf
    <2>4. w \in Seq(Word)
      BY <2>1
    <2> HIDE DEF w
    <2>5. Join(Join(w, a), l) = Join(w, Join(a, l))
      BY <1>4, <1>7, <2>4, JoinAssociative
    <2>6. Join(Join(w, Join(a, l)), r) = Join(w, Join(Join(a, l), r))
      BY <1>3, <2>1, <2>4, JoinAssociative
    <2> QED BY <1>11, <2>1, <2>2, <2>3, <2>5, <2>6, Zenon DEF SameView, w
  <1>13. /\ Len(s.buf) = Len(b) + n /\ Len(b) \in Nat /\ n \in Nat /\ n >= 1
         /\ s.buf[Len(s.buf)] = d[n]
         /\ \A j \in 1 .. Len(s.buf) - 1 : s.buf[j] # DELIMITER
    <2>1. Len(d) \in Nat /\ Len(b) \in Nat
      BY <1>3, <1>4, LenProperties
    <2>2. /\ Len(Join(b, f)) = Len(b) + Len(f)
          /\ \A j \in 1 .. Len(b) + Len(f) :
                Join(b, f)[j] = IF j <= Len(b) THEN b[j] ELSE f[j - Len(b)]
      BY <1>3, <1>7, ConcatProperties DEF Join
    <2>3. \A j \in 1 .. Len(b) : b[j] # DELIMITER
      BY DEF ServiceInv, PartialLine, b
    <2> HIDE DEF Join
    <2>4. n \in Nat /\ n >= 1
      BY <1>6, <2>1
    <2>5. \A j \in 1 .. n : Join(b, f)[Len(b) + j] = d[j]
      <3> SUFFICES ASSUME NEW j \in 1 .. n PROVE Join(b, f)[Len(b) + j] = d[j]
        OBVIOUS
      <3>1. /\ Len(b) + j \in 1 .. Len(b) + Len(f) /\ ~(Len(b) + j <= Len(b))
            /\ Len(b) + j - Len(b) = j
        BY <1>7, <2>1, <2>4
      <3>2. Join(b, f)[Len(b) + j] = f[j]
        BY <2>2, <3>1
      <3> QED BY <1>7, <3>2
    <2>6. \A j \in 1 .. Len(b) + n - 1 : Join(b, f)[j] # DELIMITER
      <3> SUFFICES ASSUME NEW j \in 1 .. Len(b) + n - 1 PROVE Join(b, f)[j] # DELIMITER
        OBVIOUS
      <3>1. CASE j <= Len(b)
        <4>1. j \in 1 .. Len(b) + Len(f) /\ j \in 1 .. Len(b)
          BY <1>7, <2>1, <2>4, <3>1
        <4>2. Join(b, f)[j] = b[j]
          BY <2>2, <3>1, <4>1
        <4> QED BY <2>3, <4>1, <4>2
      <3>2. CASE j > Len(b)
        <4> DEFINE e == j - Len(b)
        <4>1. e \in 1 .. n - 1 /\ e \in 1 .. n /\ Len(b) + e = j
          BY <2>1, <2>4, <3>2
        <4> HIDE DEF e
        <4>2. Join(b, f)[Len(b) + e] = d[e]
          BY <2>5, <4>1
        <4> QED BY <1>6, <4>1, <4>2
      <3> QED BY <2>1, <2>4, <3>1, <3>2
    <2>7. Join(b, f)[Len(b) + n] = d[n]
      <3>1. n \in 1 .. n
        BY <2>4
      <3> QED BY <2>5, <3>1
    <2> QED BY <1>7, <1>8, <2>1, <2>2, <2>4, <2>6, <2>7
  <1>14. LineEnds(s) => IsLine(s.buf, Len(s.buf))
    BY <1>13 DEF LineEnds, IsLine
  <1>15. ~LineEnds(s) => PartialLine(s)
    BY <1>13 DEF LineEnds, PartialLine
  <1> QED BY <1>11, <1>12, <1>14, <1>15

\* A line has been read: n words of it in this step, and all of it is in s.buf.
HasLine(c, n, s, k) ==
    /\ ss[c].state \in {"RECV_FIRST_LINE", "RECV_H"}
    /\ ChunkSize(Buffered(c), Rem(ss[c]), n)
    /\ s = Received(c, n) /\ k = [net[c] EXCEPT !.inq = LeftInSocket(c)]
    /\ LineEnds(s)

\* It is the first line that the service has to serve.
LEMMA LineSeen ==
    ASSUME ServerInv, ServiceInv, NEW c \in Conn, NEW n, NEW s, NEW k, HasLine(c, n, s, k)
    PROVE  /\ Len(s.buf) \in 1 .. Len(Unserved(c)) /\ IsLine(Unserved(c), Len(s.buf))
           /\ First(Unserved(c), Len(s.buf)) = s.buf
           /\ After(Unserved(c), Len(s.buf)) = Behind(s, k)
           /\ find_zodiac(s.buf) => Unserved(c)[2] = s.buf[2]
           /\ Behind(s, k) \in Seq(Word) /\ s.buf \in Seq(Word)
           /\ IsLine(s.buf, Len(s.buf))
           /\ OwedOf(s, k) = OwedOf(ss[c], net[c])
  <1>1. /\ s.buf \in Seq(Word) /\ Behind(s, k) \in Seq(Word)
        /\ UnservedOf(ss[c], net[c]) = Join(s.buf, Behind(s, k))
        /\ IsLine(s.buf, Len(s.buf)) /\ SameView(s, k, ss[c], net[c])
    BY ReceivedSeen DEF HasLine
  <1>2. Unserved(c) = UnservedOf(ss[c], net[c])
    BY Zenon DEF Unserved, UnservedOf, Join
  <1> DEFINE m == Len(s.buf)
             u == Unserved(c)
  <1>3. /\ First(u, m) = s.buf /\ After(u, m) = Behind(s, k) /\ IsLine(u, m)
        /\ \A i \in 1 .. m : u[i] = s.buf[i]
    BY <1>1, <1>2, JoinCut
  <1>4. m \in 1 .. Len(u)
    BY <1>3 DEF IsLine
  <1>5. find_zodiac(s.buf) => u[2] = s.buf[2]
    <2>1. m \in Nat
      BY <1>1, LenProperties
    <2>2. find_zodiac(s.buf) => 2 \in 1 .. m
      BY <2>1 DEF find_zodiac
    <2> QED BY <1>3, <2>2
  <1> QED BY <1>1, <1>3, <1>4, <1>5 DEF SameView

LEMMA Views ==
    \A d \in Conn :
        /\ Unserved(d) = UnservedOf(ss[d], net[d]) /\ Owed(d) = OwedOf(ss[d], net[d])
        /\ Unserved(d)' = UnservedOf(ss'[d], net'[d]) /\ Owed(d)' = OwedOf(ss'[d], net'[d])
  BY Zenon DEF Unserved, Owed, UnservedOf, OwedOf, Join

\* What a step at connection c does to the service's variables.
LEMMA OneSeen ==
    ASSUME ServerInv, NEW c \in Conn, NEW s, NEW k,
           ss' = [ss EXCEPT ![c] = s], net' = [net EXCEPT ![c] = k]
    PROVE  /\ Unserved(c)' = UnservedOf(s, k) /\ Owed(c)' = OwedOf(s, k)
           /\ ss'[c].zodiac_ix = s.zodiac_ix
           /\ \A d \in Conn : d # c => /\ Unserved(d)' = Unserved(d) /\ Owed(d)' = Owed(d)
                                       /\ ss'[d].zodiac_ix = ss[d].zodiac_ix
  <1>1. /\ ss'[c] = s /\ net'[c] = k
        /\ \A d \in Conn : d # c => ss'[d] = ss[d] /\ net'[d] = net[d]
    BY OneChanged
  <1> QED BY <1>1, Views, Zenon

\* Both modules speak of the same protocol.
LEMMA SameProtocol ==
    /\ \A s, n : /\ Service!IsLine(s, n) = IsLine(s, n) /\ Service!First(s, n) = First(s, n)
                 /\ Service!After(s, n) = After(s, n)
    /\ \A type, line : Service!IsRequest(type, line) <=> HasType(type, line) /\ find_zodiac(line)
    /\ Service!STAR_REQUEST_TYPE = STAR_REQUEST_TYPE
    /\ Service!CLIENT_REQUEST_TYPE = CLIENT_REQUEST_TYPE
    /\ Service!STAR_REPLY_SUCCESS = STAR_REPLY_SUCCESS
    /\ Service!CLIENT_REPLY_FAILURE = CLIENT_REPLY_FAILURE
  BY DEF Service!IsLine, IsLine, Service!First, First, Service!After, After, Service!IsRequest,
         Service!HasType, HasType, Service!find_zodiac, find_zodiac,
         Service!STAR_REQUEST_TYPE, STAR_REQUEST_TYPE,
         Service!CLIENT_REQUEST_TYPE, CLIENT_REQUEST_TYPE,
         Service!STAR_REPLY_SUCCESS, STAR_REPLY_SUCCESS, Service!DELIMITER, DELIMITER,
         Service!CLIENT_REPLY_FAILURE, CLIENT_REPLY_FAILURE

LEMMA LineFacts ==
    ASSUME ServerInv, ReasonInv, ServiceInv, NEW c \in heap, NEW n, NEW s, NEW k,
           HasLine(c, n, s, k)
    PROVE  /\ c \in Conn /\ ss[c] \in ServerState
           /\ s \in ServerState /\ s.op = "READ" /\ s.zodiac_ix = ss[c].zodiac_ix
           /\ k.peer = net[c].peer /\ k.peer # "none"
           /\ k.inq \in Seq(Word) /\ k.todo \in Seq(Word) /\ k.sent \in Seq(Word)
           /\ s.interm \in Seq(Word)
           /\ \A i \in 1 .. Len(s.buf) : s.buf[i] \in Word
           /\ Len(s.buf) <= ASTROLOG_BUF_LEN
  <1>1. c \in Conn /\ net[c].peer # "none" /\ net[c] \in Socket /\ ss[c] \in ServerState
    BY HeapSocket
  <1>2. /\ s \in ServerState /\ s.op = "READ" /\ s.zodiac_ix = ss[c].zodiac_ix
        /\ \A i \in 1 .. Len(s.buf) : s.buf[i] \in Word
        /\ Len(s.buf) \in 1 .. ASTROLOG_BUF_LEN
    BY <1>1, ReceivedFacts DEF HasLine, ServerInv
  <1>3. LeftInSocket(c) \in Seq(Word)
    BY <1>1, BufferedFacts DEF ServerInv
  <1>4. k \in Socket /\ k.peer = net[c].peer
    BY <1>1, <1>3 DEF HasLine, Socket
  <1> QED BY <1>1, <1>2, <1>4, ViewTypes, BufferLength

\* A star announces a sign.
LEMMA AnnounceSeen ==
    ASSUME ServerInv, ReasonInv, ServiceInv, NEW c \in heap, NEW n, NEW s, NEW k,
           HasLine(c, n, s, k), ss[c].state = "RECV_FIRST_LINE",
           HasType(STAR_REQUEST_TYPE, s.buf), find_zodiac(s.buf),
           ss' = [ss EXCEPT ![c] = parse_star_first_line(s)], net' = [net EXCEPT ![c] = k],
           UNCHANGED <<heap, zodiac_prognosises>>
    PROVE  ServiceInv' /\ ServiceStep
  <1> DEFINE t == parse_star_first_line(s)
             m == Len(s.buf)
  <1>1. /\ c \in Conn /\ k.inq \in Seq(Word) /\ k.todo \in Seq(Word) /\ s.interm \in Seq(Word)
        /\ k.peer # "none"
    BY LineFacts
  <1>2. s \in ServerState /\ s.op = "READ" /\ s.zodiac_ix = ss[c].zodiac_ix
    BY LineFacts
  <1>3. /\ t.buf = <<>> /\ t.interm = s.interm /\ t.op = "READ" /\ t.zodiac_ix = s.buf[2]
        /\ t.state = "RECV_H"
    BY <1>2 DEF parse_star_first_line, ServerState
  <1>4. /\ m \in 1 .. Len(Unserved(c)) /\ IsLine(Unserved(c), m)
        /\ First(Unserved(c), m) = s.buf /\ After(Unserved(c), m) = Behind(s, k)
        /\ Unserved(c)[2] = s.buf[2] /\ OwedOf(s, k) = OwedOf(ss[c], net[c])
    BY <1>1, LineSeen
  <1> HIDE DEF t, m
  <1>6. UnservedOf(t, k) = Behind(s, k)
    <2>1. UnservedOf(t, k) = Join(Join(Join(<<>>, s.interm), k.inq), k.todo)
      BY <1>3, Zenon DEF UnservedOf
    <2>2. Join(<<>>, s.interm) = s.interm
      BY <1>1, JoinEmpty
    <2> QED BY <2>1, <2>2, Zenon DEF Behind
  <1>7. OwedOf(t, k) = OwedOf(ss[c], net[c])
    BY <1>2, <1>3, <1>4, Zenon DEF OwedOf
  <1>8. ss[c].zodiac_ix = NONE
    BY <1>1 DEF ReasonInv, SignInv
  <1>9. PartialLine(t)
    BY <1>3 DEF PartialLine
  <1>10. ServiceInv'
    BY <1>1, <1>9, OneKeeps DEF t
  <1>11. /\ Unserved(c)' = After(Unserved(c), m) /\ Owed(c)' = Owed(c)
         /\ ss'[c].zodiac_ix = s.buf[2]
         /\ \A d \in Conn : d # c => /\ Unserved(d)' = Unserved(d) /\ Owed(d)' = Owed(d)
                                     /\ ss'[d].zodiac_ix = ss[d].zodiac_ix
    <2>1. /\ Unserved(c)' = UnservedOf(t, k) /\ Owed(c)' = OwedOf(t, k)
          /\ ss'[c].zodiac_ix = t.zodiac_ix
          /\ \A d \in Conn : d # c => /\ Unserved(d)' = Unserved(d) /\ Owed(d)' = Owed(d)
                                      /\ ss'[d].zodiac_ix = ss[d].zodiac_ix
      BY <1>1, OneSeen DEF t
    <2> QED BY <1>1, <1>3, <1>4, <1>6, <1>7, <2>1, Views, Zenon
  <1>12. \A z \in Zodiac : Prognosis(z)' = Prognosis(z)
    BY DEF Prognosis, Row
  <1>13. Service!Announce(c, m)
    BY <1>1, <1>4, <1>8, <1>11, <1>12, SameProtocol DEF Service!Announce, Service!Consume
  <1>14. Service!Next
    BY <1>1, <1>4, <1>13 DEF Service!Next, Service!Serve
  <1> QED BY <1>10, <1>14 DEF ServiceStep
\* A client asks for the prognosis of a sign.
LEMMA AskSeen ==
    ASSUME ServerInv, ReasonInv, ServiceInv, NEW c \in heap, NEW n, NEW s, NEW k,
           HasLine(c, n, s, k), ss[c].state = "RECV_FIRST_LINE",
           HasType(CLIENT_REQUEST_TYPE, s.buf), find_zodiac(s.buf),
           ss' = [ss EXCEPT ![c] = parse_client_first_line(s)], net' = [net EXCEPT ![c] = k],
           UNCHANGED <<heap, zodiac_prognosises>>
    PROVE  ServiceInv' /\ ServiceStep
  <1> DEFINE t == parse_client_first_line(s)
             m == Len(s.buf)
  <1>1. /\ c \in Conn /\ k.inq \in Seq(Word) /\ k.todo \in Seq(Word) /\ s.interm \in Seq(Word)
        /\ k.peer # "none"
    BY LineFacts
  <1>2. s \in ServerState /\ s.op = "READ" /\ s.zodiac_ix = ss[c].zodiac_ix
    BY LineFacts
  <1> DEFINE p == IF Prognosis(s.buf[2]) = <<>> THEN CLIENT_REPLY_FAILURE
                  ELSE Prognosis(s.buf[2])
  <1>3. /\ t.buf = p /\ t.interm = s.interm /\ t.op = "WRITE" /\ t.zodiac_ix = s.zodiac_ix
        /\ t.state = "SEND_H"
    <2>1. t = [s EXCEPT !.buf = p, !.state = "SEND_H", !.op = "WRITE",
                        !.ttl = update_ts("WRITE")]
      BY DEF parse_client_first_line
    <2> HIDE DEF t, p
    <2> QED BY <1>2, <2>1 DEF ServerState
  <1>4. /\ m \in 1 .. Len(Unserved(c)) /\ IsLine(Unserved(c), m)
        /\ First(Unserved(c), m) = s.buf /\ After(Unserved(c), m) = Behind(s, k)
        /\ Unserved(c)[2] = s.buf[2] /\ OwedOf(s, k) = OwedOf(ss[c], net[c])
    BY <1>1, LineSeen
  <1> HIDE DEF t, m, p
  <1>6. UnservedOf(t, k) = Behind(s, k)
    <2>1. UnservedOf(t, k) = Join(Join(Join(<<>>, s.interm), k.inq), k.todo)
      BY <1>3, Zenon DEF UnservedOf
    <2>2. Join(<<>>, s.interm) = s.interm
      BY <1>1, JoinEmpty
    <2> QED BY <2>1, <2>2, Zenon DEF Behind
  <1>7. OwedOf(t, k) = Join(OwedOf(ss[c], net[c]), p)
    <2>1. OwedOf(t, k) = Join(k.sent, p) /\ OwedOf(s, k) = Join(k.sent, <<>>)
      BY <1>2, <1>3, Zenon DEF OwedOf
    <2>2. Join(k.sent, <<>>) = k.sent
      BY LineFacts, JoinEmpty
    <2> QED BY <1>4, <2>1, <2>2, Zenon
  <1>8. ss[c].zodiac_ix = NONE
    BY <1>1 DEF ReasonInv, SignInv
  <1>9. PartialLine(t)
    BY <1>3 DEF PartialLine
  <1>10. ServiceInv'
    BY <1>1, <1>9, OneKeeps DEF t
  <1>11. /\ Unserved(c)' = After(Unserved(c), m) /\ Owed(c)' = Owed(c) \o p
         /\ ss'[c].zodiac_ix = NONE
         /\ \A d \in Conn : d # c => /\ Unserved(d)' = Unserved(d) /\ Owed(d)' = Owed(d)
                                     /\ ss'[d].zodiac_ix = ss[d].zodiac_ix
    <2>1. /\ Unserved(c)' = UnservedOf(t, k) /\ Owed(c)' = OwedOf(t, k)
          /\ ss'[c].zodiac_ix = t.zodiac_ix
          /\ \A d \in Conn : d # c => /\ Unserved(d)' = Unserved(d) /\ Owed(d)' = Owed(d)
                                      /\ ss'[d].zodiac_ix = ss[d].zodiac_ix
      BY <1>1, OneSeen DEF t
    <2>2. Owed(c)' = Owed(c) \o p
      BY <1>1, <1>7, <2>1, Views DEF Join
    <2> QED BY <1>2, <1>3, <1>4, <1>6, <1>8, <2>1, <2>2, Zenon
  <1>12. \A z \in Zodiac : Prognosis(z)' = Prognosis(z)
    BY DEF Prognosis, Row
  <1>13. Service!Ask(c, m)
    <2>1. s.buf[2] \in Zodiac
      BY DEF find_zodiac
    <2>2. Service!Reply(s.buf[2]) = p
      BY <2>1, SameProtocol DEF Service!Reply, p
    <2> QED BY <1>1, <1>4, <1>8, <1>11, <1>12, <2>2, SameProtocol
            DEF Service!Ask, Service!Consume
  <1>14. Service!Next
    BY <1>1, <1>4, <1>13 DEF Service!Next, Service!Serve
  <1> QED BY <1>10, <1>14 DEF ServiceStep

\* A row that a line was copied over is that line, up to its first delimiter.
LEMMA OverwrittenRow ==
    ASSUME NEW row \in [1 .. ASTROLOG_BUF_LEN -> Word], NEW line \in Seq(Word),
           IsLine(line, Len(line)), Len(line) <= ASTROLOG_BUF_LEN
    PROVE  LET new == Overwritten(row, line) IN
           /\ Len(line) \in 1 .. ASTROLOG_BUF_LEN
           /\ \A n : IsLine(new, n) <=> n = Len(line)
           /\ First(new, Len(line)) = line
  <1> DEFINE new == Overwritten(row, line)
             m == Len(line)
  <1>1. m \in Nat /\ \A i \in 1 .. m : line[i] \in Word
    BY LenProperties, ElementOfSeq
  <1>2. m \in 1 .. ASTROLOG_BUF_LEN
    BY <1>1, BufferLength DEF IsLine
  <1>3. \A i \in 1 .. ASTROLOG_BUF_LEN : new[i] \in Word /\ (i <= m => new[i] = line[i])
    BY <1>1, BufferLength DEF Overwritten
  <1>4. new = [i \in 1 .. ASTROLOG_BUF_LEN |-> new[i]]
    BY DEF Overwritten
  <1> HIDE DEF new
  <1>5. new \in Seq(Word) /\ Len(new) = ASTROLOG_BUF_LEN
    <2>1. new \in [1 .. ASTROLOG_BUF_LEN -> Word]
      BY <1>3, <1>4
    <2> QED BY <2>1, IsASeq, BufferLength
  <1>6. /\ First(new, m) \in Seq(Word) /\ Len(First(new, m)) = m
        /\ \A i \in 1 .. m : First(new, m)[i] = new[i]
    <2>1. m \in 0 .. Len(new)
      BY <1>2, <1>5, BufferLength
    <2> QED BY <1>5, <2>1, CutFacts
  <1>7. First(new, m) = line
    <2>1. \A i \in 1 .. m : First(new, m)[i] = line[i]
      BY <1>2, <1>3, <1>6, BufferLength
    <2> QED BY <1>6, <2>1, SeqEqual
  <1>8. IsLine(new, m)
    <2>1. line[m] = DELIMITER /\ \A i \in 1 .. m - 1 : line[i] # DELIMITER
      BY DEF IsLine
    <2> QED BY <1>2, <1>3, <1>5, <2>1, BufferLength DEF IsLine
  <1>9. \A n : IsLine(new, n) <=> n = m
    BY <1>5, <1>8, OneFirstLine
  <1> QED BY <1>2, <1>7, <1>9 DEF new

\* The table after a prognosis was stored.
LEMMA StoredFacts ==
    ASSUME TypeOK, NEW z \in Zodiac, NEW line \in Seq(Word),
           IsLine(line, Len(line)), Len(line) <= ASTROLOG_BUF_LEN,
           zodiac_prognosises' = [zodiac_prognosises EXCEPT ![z] = Overwritten(@, line)]
    PROVE  \A x \in Zodiac : Prognosis(x)' = IF x = z THEN line ELSE Prognosis(x)
  <1> DEFINE new == Overwritten(zodiac_prognosises[z], line)
             m == Len(line)
  <1>1. zodiac_prognosises \in [Zodiac -> [1 .. ASTROLOG_BUF_LEN -> Word]]
    BY DEF TypeOK
  <1>2. /\ m \in 1 .. ASTROLOG_BUF_LEN
        /\ \A n : IsLine(new, n) <=> n = m
        /\ First(new, m) = line
    BY <1>1, OverwrittenRow
  <1>3. zodiac_prognosises'[z] = new
    BY <1>1
  <1> HIDE DEF new, m
  <1>4. ASSUME NEW x \in Zodiac, x # z PROVE Prognosis(x)' = Prognosis(x)
    <2>1. zodiac_prognosises'[x] = zodiac_prognosises[x]
      BY <1>1, <1>4
    <2>2. \A n : Row(x, n)' <=> Row(x, n)
      BY <2>1 DEF Row
    <2>3. First(zodiac_prognosises'[x], CHOOSE n \in 1 .. ASTROLOG_BUF_LEN : Row(x, n)') =
             First(zodiac_prognosises[x], CHOOSE n \in 1 .. ASTROLOG_BUF_LEN : Row(x, n))
      BY <2>1, <2>2
    <2> QED BY <2>2, <2>3 DEF Prognosis
  <1>5. Prognosis(z)' = line
    <2>1. \A n : IsLine(zodiac_prognosises'[z], n) <=> n = m
      BY <1>2, <1>3
    <2>2. (CHOOSE n \in 1 .. ASTROLOG_BUF_LEN : IsLine(zodiac_prognosises'[z], n)) = m
      BY <1>2, <2>1
    <2>3. \E n \in 1 .. ASTROLOG_BUF_LEN : IsLine(zodiac_prognosises'[z], n)
      BY <1>2, <2>1
    <2>4. Prognosis(z)' = First(zodiac_prognosises'[z], m)
      BY <2>2, <2>3, Zenon DEF Prognosis, Row
    <2> QED BY <1>2, <1>3, <2>4
  <1> QED BY <1>4, <1>5

\* A star's prognosis is stored, and the star is thanked.
LEMMA PredictSeen ==
    ASSUME ServerInv, ReasonInv, ServiceInv, NEW c \in heap, NEW n, NEW s, NEW k, NEW t,
           HasLine(c, n, s, k), ss[c].state = "RECV_H",
           ss' = [ss EXCEPT ![c] = t], net' = [net EXCEPT ![c] = k], heap' = heap,
           t.buf = STAR_REPLY_SUCCESS, t.interm = s.interm, t.op = "WRITE",
           t.zodiac_ix = NONE, t.state = "SEND_THANKS",
           \A x \in Zodiac : Prognosis(x)' = IF x = s.zodiac_ix THEN s.buf ELSE Prognosis(x)
    PROVE  ServiceInv' /\ ServiceStep
  <1> DEFINE m == Len(s.buf)
             z == s.zodiac_ix
             p == STAR_REPLY_SUCCESS
  <1>1. /\ c \in Conn /\ k.inq \in Seq(Word) /\ k.todo \in Seq(Word) /\ s.interm \in Seq(Word)
        /\ k.peer # "none"
    BY LineFacts
  <1>2. s \in ServerState /\ s.op = "READ" /\ z = ss[c].zodiac_ix
    BY LineFacts
  <1>3. /\ t.buf = p /\ t.interm = s.interm /\ t.op = "WRITE" /\ t.zodiac_ix = NONE
        /\ t.state = "SEND_THANKS"
    OBVIOUS
  <1>4. /\ m \in 1 .. Len(Unserved(c)) /\ IsLine(Unserved(c), m)
        /\ First(Unserved(c), m) = s.buf /\ After(Unserved(c), m) = Behind(s, k)
        /\ OwedOf(s, k) = OwedOf(ss[c], net[c])
        /\ s.buf \in Seq(Word) /\ IsLine(s.buf, m)
    BY <1>1, LineSeen
  <1>5. z \in Zodiac /\ z # NONE
    BY <1>1, <1>2 DEF ServerInv, BuffersFit, Fits, ServerState
  <1>6. \A x \in Zodiac : Prognosis(x)' = IF x = z THEN s.buf ELSE Prognosis(x)
    OBVIOUS
  <1> HIDE DEF m, z, p
  <1>7. UnservedOf(t, k) = Behind(s, k)
    <2>1. UnservedOf(t, k) = Join(Join(Join(<<>>, s.interm), k.inq), k.todo)
      BY <1>3, Zenon DEF UnservedOf
    <2>2. Join(<<>>, s.interm) = s.interm
      BY <1>1, JoinEmpty
    <2> QED BY <2>1, <2>2, Zenon DEF Behind
  <1>8. OwedOf(t, k) = Join(OwedOf(ss[c], net[c]), p)
    <2>1. OwedOf(t, k) = Join(k.sent, p) /\ OwedOf(s, k) = Join(k.sent, <<>>)
      BY <1>2, <1>3, Zenon DEF OwedOf
    <2>2. Join(k.sent, <<>>) = k.sent
      BY LineFacts, JoinEmpty
    <2> QED BY <1>4, <2>1, <2>2, Zenon
  <1>9. PartialLine(t)
    BY <1>3 DEF PartialLine
  <1>10. ServiceInv'
    BY <1>1, <1>9, OneKeeps
  <1>11. /\ Unserved(c)' = After(Unserved(c), m) /\ Owed(c)' = Owed(c) \o p
         /\ ss'[c].zodiac_ix = NONE
         /\ \A d \in Conn : d # c => /\ Unserved(d)' = Unserved(d) /\ Owed(d)' = Owed(d)
                                     /\ ss'[d].zodiac_ix = ss[d].zodiac_ix
    <2>1. /\ Unserved(c)' = UnservedOf(t, k) /\ Owed(c)' = OwedOf(t, k)
          /\ ss'[c].zodiac_ix = t.zodiac_ix
          /\ \A d \in Conn : d # c => /\ Unserved(d)' = Unserved(d) /\ Owed(d)' = Owed(d)
                                      /\ ss'[d].zodiac_ix = ss[d].zodiac_ix
      BY <1>1, OneSeen
    <2>2. Owed(c)' = Owed(c) \o p
      BY <1>1, <1>8, <2>1, Views DEF Join
    <2> QED BY <1>3, <1>4, <1>7, <2>1, <2>2, Zenon
  <1>12. Service!Predict(c, m)
    <2>1. p = Service!STAR_REPLY_SUCCESS
      BY SameProtocol DEF p
    <2> QED BY <1>1, <1>2, <1>4, <1>5, <1>6, <1>11, <2>1, SameProtocol
            DEF Service!Predict, Service!Consume
  <1>13. Service!Next
    BY <1>1, <1>4, <1>12 DEF Service!Next, Service!Serve
  <1> QED BY <1>10, <1>13 DEF ServiceStep

-----------------------------------------------------------------------------
\* A connection is given up after a step that the service does not see.
LEMMA GivenUpSeen ==
    ASSUME ServerInv, ServiceInv, NEW c \in heap, NEW s \in ServerState, NEW k,
           NEW x \in {"ERROR", "SUCCESS"},
           ss' = [ss EXCEPT ![c] = [s EXCEPT !.state = x]], net' = [net EXCEPT ![c] = k],
           heap' = heap, zodiac_prognosises' = zodiac_prognosises,
           k.peer # "none", SameView(s, k, ss[c], net[c])
    PROVE  ServiceInv' /\ ServiceStep
  <1> DEFINE t == [s EXCEPT !.state = x]
  <1>1. SameView(t, k, s, k) /\ PartialLine(t)
    BY StateSeen
  <1>2. ss' = [ss EXCEPT ![c] = t]
    OBVIOUS
  <1> HIDE DEF t
  <1>3. SameView(t, k, ss[c], net[c])
    BY <1>1, Zenon DEF SameView
  <1> QED BY <1>1, <1>2, <1>3, OneUnseen

\* The connection that update_state works on.
LEMMA AtWork ==
    ASSUME ServerInv, ReasonInv, NEW c \in Conn, pc \in {"update", "finish"}, c = cur
    PROVE  /\ c \in heap /\ ss[c] \in ServerState /\ net[c] \in Socket /\ net[c].peer # "none"
           /\ net = [net EXCEPT ![c] = net[c]] /\ SameView(ss[c], net[c], ss[c], net[c])
  <1>1. c \in heap
    BY UpdatingFacts
  <1>2. net = [net EXCEPT ![c] = net[c]]
    BY LoopTypes
  <1>3. SameView(ss[c], net[c], ss[c], net[c])
    BY DEF SameView
  <1> QED BY <1>1, <1>2, <1>3, HeapSocket

\* A read that handed out n words.
HasRead(c, n, s, k) ==
    /\ ss[c].state \in {"RECV_FIRST_LINE", "RECV_H"}
    /\ ChunkSize(Buffered(c), Rem(ss[c]), n)
    /\ s = Received(c, n) /\ k = [net[c] EXCEPT !.inq = LeftInSocket(c)]
    /\ net' = [net EXCEPT ![c].inq = LeftInSocket(c)]

LEMMA ReadStep ==
    ASSUME ServerInv, ReasonInv, ServiceInv, NEW c \in Conn, pc = "update", c = cur,
           NEW n, NEW s, NEW k, HasRead(c, n, s, k)
    PROVE  /\ net' = [net EXCEPT ![c] = k] /\ k.peer # "none"
           /\ SameView(s, k, ss[c], net[c])
           /\ s \in ServerState /\ s.state = ss[c].state /\ s.op = "READ"
           /\ s.zodiac_ix = ss[c].zodiac_ix
           /\ LineEnds(s) => HasLine(c, n, s, k)
           /\ ~LineEnds(s) => PartialLine(s)
  <1>1. net[c] \in Socket /\ net[c].peer # "none" /\ TypeOK /\ BuffersFit
    BY AtWork DEF ServerInv
  <1>2. k.peer = net[c].peer
    BY <1>1 DEF Socket, HasRead
  <1>3. net' = [net EXCEPT ![c] = k]
    BY LoopTypes, Zenon DEF HasRead
  <1>4. SameView(s, k, ss[c], net[c]) /\ (~LineEnds(s) => PartialLine(s))
    BY ReceivedSeen DEF HasRead
  <1>5. /\ s \in ServerState /\ s.state = ss[c].state /\ s.op = "READ"
        /\ s.zodiac_ix = ss[c].zodiac_ix
    BY <1>1, ReceivedFacts DEF HasRead
  <1>6. LineEnds(s) => HasLine(c, n, s, k)
    BY Zenon DEF HasLine, HasRead
  <1> QED BY <1>1, <1>2, <1>3, <1>4, <1>5, <1>6

LEMMA HandleFirstLineSeen ==
    ASSUME ServerInv, ReasonInv, ServiceInv, NEW c \in Conn, handle_first_line(c)
    PROVE  ServiceInv' /\ ServiceStep
  <1>1. /\ pc = "update" /\ c = cur /\ ss[c].state = "RECV_FIRST_LINE"
        /\ zodiac_prognosises' = zodiac_prognosises
    BY DEF handle_first_line, Handling
  <1>2. /\ c \in heap /\ ss[c] \in ServerState /\ net[c].peer # "none"
        /\ net = [net EXCEPT ![c] = net[c]] /\ SameView(ss[c], net[c], ss[c], net[c])
    BY <1>1, AtWork
  <1>3. CASE Iterated(c, Failed(ss[c])) /\ UNCHANGED net
    BY <1>1, <1>2, <1>3, GivenUpSeen DEF Iterated, Failed
  <1>4. CASE /\ Iterated(c, [ss[c] EXCEPT !.state = IF ss[c].buf = <<>> THEN "SUCCESS"
                                                   ELSE "ERROR"])
             /\ UNCHANGED net
    <2> DEFINE x == IF ss[c].buf = <<>> THEN "SUCCESS" ELSE "ERROR"
    <2>1. x \in {"ERROR", "SUCCESS"}
      OBVIOUS
    <2>2. Iterated(c, [ss[c] EXCEPT !.state = x]) /\ UNCHANGED net
      BY <1>4
    <2> HIDE DEF x
    <2> QED BY <1>1, <1>2, <2>1, <2>2, GivenUpSeen DEF Iterated
  <1>5. ASSUME NEW n \in 1 .. ASTROLOG_BUF_LEN,
               ChunkSize(Buffered(c), Rem(ss[c]), n),
               net' = [net EXCEPT ![c].inq = LeftInSocket(c)],
               Iterated(c, FirstLine(Received(c, n)))
        PROVE  ServiceInv' /\ ServiceStep
    <2> DEFINE s == Received(c, n)
               k == [net[c] EXCEPT !.inq = LeftInSocket(c)]
    <2>0. HasRead(c, n, s, k) /\ s = Received(c, n)
      BY <1>1, <1>5, Zenon DEF HasRead
    <2> HIDE DEF s, k
    <2>1. /\ net' = [net EXCEPT ![c] = k] /\ k.peer # "none"
          /\ SameView(s, k, ss[c], net[c]) /\ s \in ServerState
          /\ LineEnds(s) => HasLine(c, n, s, k)
          /\ ~LineEnds(s) => PartialLine(s)
      BY <1>1, <2>0, ReadStep
    <2>2. ss' = [ss EXCEPT ![c] = FirstLine(s)] /\ heap' = heap
      BY <1>5, <2>0 DEF Iterated
    <2>3. CASE FirstLine(s) = s /\ ~LineEnds(s)
      BY <1>1, <1>2, <2>1, <2>2, <2>3, OneUnseen
    <2>4. CASE FirstLine(s) = Failed(s)
      <3>1. ss' = [ss EXCEPT ![c] = [s EXCEPT !.state = "ERROR"]]
        BY <2>2, <2>4 DEF Failed
      <3> QED BY <1>1, <1>2, <2>1, <2>2, <3>1, GivenUpSeen
    <2>5. CASE /\ LineEnds(s) /\ HasType(STAR_REQUEST_TYPE, s.buf) /\ find_zodiac(s.buf)
               /\ FirstLine(s) = parse_star_first_line(s)
      BY <1>1, <1>2, <2>1, <2>2, <2>5, AnnounceSeen
    <2>6. CASE /\ LineEnds(s) /\ HasType(CLIENT_REQUEST_TYPE, s.buf) /\ find_zodiac(s.buf)
               /\ FirstLine(s) = parse_client_first_line(s)
      BY <1>1, <1>2, <2>1, <2>2, <2>6, AskSeen
    <2>7. \/ FirstLine(s) = s /\ ~LineEnds(s)
          \/ FirstLine(s) = Failed(s)
          \/ /\ LineEnds(s) /\ HasType(STAR_REQUEST_TYPE, s.buf) /\ find_zodiac(s.buf)
             /\ FirstLine(s) = parse_star_first_line(s)
          \/ /\ LineEnds(s) /\ HasType(CLIENT_REQUEST_TYPE, s.buf) /\ find_zodiac(s.buf)
             /\ FirstLine(s) = parse_client_first_line(s)
      <3>1. HasType(STAR_REQUEST_TYPE, s.buf) => ~HasType(CLIENT_REQUEST_TYPE, s.buf)
        BY DEF HasType, STAR_REQUEST_TYPE, CLIENT_REQUEST_TYPE
      <3>2. /\ ~find_zodiac(s.buf) => parse_star_first_line(s) = Failed(s)
            /\ ~find_zodiac(s.buf) => parse_client_first_line(s) = Failed(s)
        BY Zenon DEF parse_star_first_line, parse_client_first_line
      <3>3. CASE ~LineEnds(s) /\ Rem(s) > 0
        BY <3>3 DEF FirstLine
      <3>4. CASE LineEnds(s) /\ HasType(STAR_REQUEST_TYPE, s.buf)
        <4>1. FirstLine(s) = parse_star_first_line(s)
          BY <3>1, <3>4 DEF FirstLine
        <4> QED BY <3>2, <3>4, <4>1
      <3>5. CASE LineEnds(s) /\ HasType(CLIENT_REQUEST_TYPE, s.buf)
        <4>1. FirstLine(s) = parse_client_first_line(s)
          BY <3>1, <3>5 DEF FirstLine
        <4> QED BY <3>2, <3>5, <4>1
      <3> QED BY <3>3, <3>4, <3>5 DEF FirstLine
    <2> QED BY <2>3, <2>4, <2>5, <2>6, <2>7
  <1> QED BY <1>3, <1>4, <1>5 DEF handle_first_line

LEMMA HandleRecvHSeen ==
    ASSUME ServerInv, ReasonInv, ServiceInv, NEW c \in Conn, handle_recv_h(c)
    PROVE  ServiceInv' /\ ServiceStep
  <1>1. pc = "update" /\ c = cur /\ ss[c].state = "RECV_H"
    BY DEF handle_recv_h, Handling
  <1>2. /\ c \in heap /\ ss[c] \in ServerState /\ net[c].peer # "none"
        /\ net = [net EXCEPT ![c] = net[c]] /\ SameView(ss[c], net[c], ss[c], net[c])
    BY <1>1, AtWork
  <1>3. CASE Iterated(c, Failed(ss[c])) /\ UNCHANGED <<net, zodiac_prognosises>>
    BY <1>1, <1>2, <1>3, GivenUpSeen DEF Iterated, Failed
  <1>4. ASSUME NEW n \in 1 .. ASTROLOG_BUF_LEN,
               ChunkSize(Buffered(c), Rem(ss[c]), n),
               net' = [net EXCEPT ![c].inq = LeftInSocket(c)],
               LET s == Received(c, n) IN
               \/ /\ LineEnds(s)
                  /\ zodiac_prognosises' =
                        [zodiac_prognosises EXCEPT ![s.zodiac_ix] = Overwritten(@, s.buf)]
                  /\ Iterated(c, [s EXCEPT !.buf = STAR_REPLY_SUCCESS, !.zodiac_ix = NONE,
                                           !.state = "SEND_THANKS", !.op = "WRITE",
                                           !.ttl = update_ts("WRITE")])
               \/ /\ ~LineEnds(s)
                  /\ Iterated(c, IF Rem(s) = 0 THEN Failed(s) ELSE s)
                  /\ UNCHANGED zodiac_prognosises
        PROVE  ServiceInv' /\ ServiceStep
    <2> DEFINE s == Received(c, n)
               k == [net[c] EXCEPT !.inq = LeftInSocket(c)]
               t == [s EXCEPT !.buf = STAR_REPLY_SUCCESS, !.zodiac_ix = NONE,
                              !.state = "SEND_THANKS", !.op = "WRITE",
                              !.ttl = update_ts("WRITE")]
    <2>0. HasRead(c, n, s, k) /\ s = Received(c, n)
      BY <1>1, <1>4, Zenon DEF HasRead
    <2> HIDE DEF s, k
    <2>1. /\ net' = [net EXCEPT ![c] = k] /\ k.peer # "none"
          /\ SameView(s, k, ss[c], net[c])
          /\ s \in ServerState /\ s.zodiac_ix = ss[c].zodiac_ix
          /\ LineEnds(s) => HasLine(c, n, s, k)
          /\ ~LineEnds(s) => PartialLine(s)
      BY <1>1, <2>0, ReadStep
    <2>2. \/ /\ LineEnds(s)
             /\ zodiac_prognosises' =
                   [zodiac_prognosises EXCEPT ![s.zodiac_ix] = Overwritten(@, s.buf)]
             /\ ss' = [ss EXCEPT ![c] = t] /\ heap' = heap
          \/ /\ ~LineEnds(s) /\ ss' = [ss EXCEPT ![c] = IF Rem(s) = 0 THEN Failed(s) ELSE s]
             /\ heap' = heap /\ zodiac_prognosises' = zodiac_prognosises
      BY <1>4, <2>0 DEF Iterated
    <2>3. CASE /\ ~LineEnds(s) /\ ss' = [ss EXCEPT ![c] = IF Rem(s) = 0 THEN Failed(s) ELSE s]
               /\ heap' = heap /\ zodiac_prognosises' = zodiac_prognosises
      <3>1. CASE Rem(s) = 0
        <4>1. ss' = [ss EXCEPT ![c] = [s EXCEPT !.state = "ERROR"]]
          BY <2>3, <3>1 DEF Failed
        <4> QED BY <1>2, <2>1, <2>3, <4>1, GivenUpSeen
      <3>2. CASE Rem(s) # 0
        <4>1. ss' = [ss EXCEPT ![c] = s]
          BY <2>3, <3>2
        <4> QED BY <1>2, <2>1, <2>3, <4>1, OneUnseen
      <3> QED BY <3>1, <3>2
    <2>4. CASE /\ LineEnds(s)
               /\ zodiac_prognosises' =
                     [zodiac_prognosises EXCEPT ![s.zodiac_ix] = Overwritten(@, s.buf)]
               /\ ss' = [ss EXCEPT ![c] = t] /\ heap' = heap
      <3>1. HasLine(c, n, s, k)
        BY <2>1, <2>4
      <3>2. /\ t.buf = STAR_REPLY_SUCCESS /\ t.interm = s.interm /\ t.op = "WRITE"
            /\ t.zodiac_ix = NONE /\ t.state = "SEND_THANKS"
        BY <2>1 DEF ServerState
      <3> HIDE DEF t
      <3>3. s.zodiac_ix \in Zodiac
        BY <1>1, <1>2, <2>1 DEF ServerInv, BuffersFit, Fits, ServerState
      <3>4. s.buf \in Seq(Word) /\ IsLine(s.buf, Len(s.buf))
        BY <3>1, LineSeen
      <3>5. Len(s.buf) <= ASTROLOG_BUF_LEN
        BY <1>2, <3>1, LineFacts
      <3>6. \A x \in Zodiac : Prognosis(x)' = IF x = s.zodiac_ix THEN s.buf ELSE Prognosis(x)
        BY <2>4, <3>3, <3>4, <3>5, StoredFacts DEF ServerInv
      <3>7. ss' = [ss EXCEPT ![c] = t] /\ heap' = heap
        BY <2>4
      <3> QED BY <1>1, <1>2, <2>1, <3>1, <3>2, <3>6, <3>7, PredictSeen
    <2> QED BY <2>2, <2>3, <2>4
  <1> QED BY <1>3, <1>4 DEF handle_recv_h

\* What was sent is owed still, and the service does not see how much it was.
LEMMA SentSeen ==
    ASSUME ServerInv, NEW c \in Conn, pc = "update", c = cur,
           ss[c].state \in {"SEND_THANKS", "SEND_H"}, NEW k,
           k.inq = net[c].inq, k.todo = net[c].todo,
           k.sent = net[c].sent \o First(ss[c].buf, SendSize(c))
    PROVE  SameView(Sent(c), k, ss[c], net[c]) /\ PartialLine(Sent(c))
  <1> DEFINE b == ss[c].buf
             m == SendSize(c)
             f == First(b, m)
             r == After(b, m)
             s == Sent(c)
             old == ss[c]
  <1>1. old \in ServerState /\ net[c] \in Socket /\ old.op = "WRITE"
    BY LoopTypes DEF ServerInv, BuffersFit, Fits
  <1>2. b \in Seq(Word) /\ net[c].sent \in Seq(Word) /\ m \in 0 .. Len(b)
    BY <1>1, SendFacts, ViewTypes
  <1>3. k.sent = Join(net[c].sent, f)
    BY DEF Join
  <1>4. /\ s.interm = old.interm /\ s.zodiac_ix = old.zodiac_ix
        /\ \/ r = <<>> /\ s.buf = <<>> /\ s.op = "READ"
           \/ s.buf = r /\ s.op = "WRITE" /\ s.state = old.state
    <2>1. CASE r = <<>>
      <3>1. s = [old EXCEPT !.buf = <<>>, !.state = "RECV_FIRST_LINE", !.op = "READ",
                            !.ttl = update_ts("READ")]
        BY <2>1 DEF Sent
      <3> HIDE DEF s, r
      <3> QED BY <1>1, <2>1, <3>1 DEF ServerState
    <2>2. CASE r # <<>>
      <3>1. s = [old EXCEPT !.buf = r]
        BY <2>2 DEF Sent
      <3> HIDE DEF s, r
      <3> QED BY <1>1, <3>1 DEF ServerState
    <2> QED BY <2>1, <2>2
  <1> HIDE DEF m, s
  <1>5. f \in Seq(Word) /\ r \in Seq(Word) /\ Join(f, r) = b
    <2> HIDE DEF b
    <2> QED BY <1>2, CutFacts, CutAndJoin DEF Join
  <1> HIDE DEF f, r
  <1>6. PartialLine(s)
    <2>1. CASE s.buf = <<>>
      <3>1. Len(s.buf) = 0
        BY <2>1
      <3> QED BY <3>1 DEF PartialLine
    <2>2. CASE s.state = old.state
      BY <2>2 DEF PartialLine
    <2> QED BY <1>4, <2>1, <2>2
  <1> HIDE DEF old, b
  <1>7. OwedOf(s, k) = OwedOf(old, net[c])
    <2>1. OwedOf(old, net[c]) = Join(net[c].sent, b)
      BY <1>1, Zenon DEF OwedOf, b, old
    <2>2. Join(Join(net[c].sent, f), r) = Join(net[c].sent, b)
      BY <1>2, <1>5, JoinAssociative
    <2>3. CASE s.buf = r /\ s.op = "WRITE"
      BY <1>3, <2>1, <2>2, <2>3, Zenon DEF OwedOf
    <2>4. CASE r = <<>> /\ s.op = "READ"
      <3>1. OwedOf(s, k) = Join(Join(net[c].sent, f), <<>>)
        BY <1>3, <2>4, Zenon DEF OwedOf
      <3> QED BY <2>1, <2>2, <2>4, <3>1, Zenon
    <2> QED BY <1>4, <2>3, <2>4
  <1>8. UnservedOf(s, k) = UnservedOf(old, net[c])
    BY <1>1, <1>4, Zenon DEF UnservedOf
  <1>9. SameView(s, k, old, net[c])
    BY <1>4, <1>7, <1>8, Zenon DEF SameView
  <1> QED BY <1>6, <1>9 DEF s, old

LEMMA HandleSendReplySeen ==
    ASSUME ServerInv, ReasonInv, ServiceInv, NEW c \in Conn, handle_send_reply(c)
    PROVE  ServiceInv' /\ ServiceStep
  <1>1. /\ pc = "update" /\ c = cur /\ ss[c].state \in {"SEND_THANKS", "SEND_H"}
        /\ zodiac_prognosises' = zodiac_prognosises
    BY DEF handle_send_reply, Handling
  <1>2. /\ c \in heap /\ ss[c] \in ServerState /\ net[c] \in Socket /\ net[c].peer # "none"
        /\ net = [net EXCEPT ![c] = net[c]] /\ SameView(ss[c], net[c], ss[c], net[c])
    BY <1>1, AtWork
  <1>3. CASE Killed
    <2>1. remove_server_state(Conn) /\ Conn \in SUBSET Conn
      BY <1>3 DEF Killed
    <2> QED BY <1>1, <2>1, Removed
  <1>4. CASE Iterated(c, Failed(ss[c])) /\ UNCHANGED net
    BY <1>1, <1>2, <1>4, GivenUpSeen DEF Iterated, Failed
  <1>5. ASSUME NEW k, Iterated(c, Sent(c)), net' = [net EXCEPT ![c] = k], k.peer # "none",
               k.inq = net[c].inq, k.todo = net[c].todo,
               k.sent = net[c].sent \o First(ss[c].buf, SendSize(c))
        PROVE  ServiceInv' /\ ServiceStep
    <2>1. SameView(Sent(c), k, ss[c], net[c]) /\ PartialLine(Sent(c))
      BY <1>1, <1>5, SentSeen
    <2>2. ss' = [ss EXCEPT ![c] = Sent(c)] /\ heap' = heap
      BY <1>5 DEF Iterated
    <2> QED BY <1>1, <1>2, <1>5, <2>1, <2>2, OneUnseen
  <1> DEFINE x == net[c].sent \o First(ss[c].buf, SendSize(c))
             u == net[c].unread + SendSize(c)
  <1>6. CASE /\ Iterated(c, Sent(c))
             /\ net' = [net EXCEPT ![c].sent = @ \o First(ss[c].buf, SendSize(c)),
                                   ![c].unread = @ + SendSize(c)]
    <2> DEFINE k == [net[c] EXCEPT !.sent = x, !.unread = u]
    <2>1. net' = [net EXCEPT ![c] = k]
      BY <1>6, LoopTypes, Zenon
    <2> HIDE DEF x, u
    <2>2. /\ k.inq = net[c].inq /\ k.todo = net[c].todo /\ k.sent = x
          /\ k.peer = net[c].peer
      BY <1>2 DEF Socket
    <2> HIDE DEF k
    <2>3. Iterated(c, Sent(c)) /\ k.peer # "none"
      BY <1>2, <1>6, <2>2
    <2> QED BY <1>5, <2>1, <2>2, <2>3 DEF x
  <1>7. CASE /\ Iterated(c, Sent(c))
             /\ \E p \in {"fin", "rst"} :
                   net' = [net EXCEPT ![c].sent = @ \o First(ss[c].buf, SendSize(c)),
                                      ![c].peer = p]
    <2>0. PICK p \in {"fin", "rst"} :
             net' = [net EXCEPT ![c].sent = @ \o First(ss[c].buf, SendSize(c)), ![c].peer = p]
      BY <1>7
    <2> DEFINE k == [net[c] EXCEPT !.sent = x, !.peer = p]
    <2>1. net' = [net EXCEPT ![c] = k]
      BY <2>0, LoopTypes, Zenon
    <2> HIDE DEF x
    <2>2. /\ k.inq = net[c].inq /\ k.todo = net[c].todo /\ k.sent = x /\ k.peer = p
      BY <1>2 DEF Socket
    <2> HIDE DEF k
    <2>3. Iterated(c, Sent(c)) /\ k.peer # "none"
      BY <1>7, <2>2
    <2> QED BY <1>5, <2>1, <2>2, <2>3 DEF x
  <1> QED BY <1>3, <1>4, <1>6, <1>7 DEF handle_send_reply

LEMMA NothingToHandleSeen ==
    ASSUME ServerInv, ReasonInv, ServiceInv, NEW c \in Conn, NothingToHandle(c)
    PROVE  ServiceInv' /\ ServiceStep
  <1>1. /\ pc = "update" /\ c = cur /\ heap' = heap /\ ss' = [ss EXCEPT ![c] = ss[c]]
        /\ UNCHANGED <<net, zodiac_prognosises>>
    BY DEF NothingToHandle, Handling, Iterated
  <1>2. ss' = ss
    BY <1>1, LoopTypes
  <1> QED BY <1>1, <1>2, NothingSeen

LEMMA FinishSeen ==
    ASSUME ServerInv, ServiceInv, NEW c \in Conn, Finish(c)
    PROVE  ServiceInv' /\ ServiceStep
  <1>1. zodiac_prognosises' = zodiac_prognosises
    BY DEF Finish
  <1>2. CASE remove_server_state({c})
    BY <1>1, <1>2, Removed
  <1>3. CASE UNCHANGED <<heap, ss, net>>
    BY <1>1, <1>3, NothingSeen
  <1> QED BY <1>2, <1>3 DEF Finish

-----------------------------------------------------------------------------
LEMMA StepSeen ==
    ASSUME ServerInv, ReasonInv, ServiceInv, [Next]_vars
    PROVE  ServiceInv' /\ ServiceStep
  <1>1. CASE epoll_wait \/ EventsReported \/ WaitTimedOut \/ WaitFailed
    <2>1. UNCHANGED <<heap, ss, net, zodiac_prognosises>>
      BY <1>1 DEF epoll_wait, EventsReported, WaitTimedOut, WaitFailed, server
    <2> QED BY <2>1, NothingSeen
  <1>2. CASE Exit
    BY <1>2, ExitSeen
  <1>3. CASE process_new_connection
    BY <1>3, NewConnectionSeen
  <1>4. ASSUME NEW c \in Conn, Dispatch(c) PROVE ServiceInv' /\ ServiceStep
    <2>1. UNCHANGED <<heap, ss, net, zodiac_prognosises>>
      BY <1>4 DEF Dispatch, server
    <2> QED BY <2>1, NothingSeen
  <1>5. ASSUME NEW c \in Conn, update_state(c) PROVE ServiceInv' /\ ServiceStep
    BY <1>5, HandleFirstLineSeen, HandleRecvHSeen, HandleSendReplySeen, NothingToHandleSeen,
       FinishSeen DEF update_state
  <1>6. ASSUME NEW c \in Conn, FreeHeapElem(c) PROVE ServiceInv' /\ ServiceStep
    <2>1. remove_server_state({c}) /\ zodiac_prognosises' = zodiac_prognosises
      BY <1>6 DEF FreeHeapElem
    <2> QED BY <2>1, Removed
  <1>7. ASSUME NEW c \in Conn, discard_expired_connections(c) PROVE ServiceInv' /\ ServiceStep
    BY <1>7, DiscardSeen
  <1>8. ASSUME NEW c \in Conn, Client(c) PROVE ServiceInv' /\ ServiceStep
    BY <1>8, ClientSeen
  <1>9. CASE Tick
    BY <1>9, TickSeen
  <1>10. CASE UNCHANGED vars
    <2>1. UNCHANGED <<heap, ss, net, zodiac_prognosises>>
      BY <1>10 DEF vars, server
    <2> QED BY <2>1, NothingSeen
  <1> QED BY <1>1, <1>2, <1>3, <1>4, <1>5, <1>6, <1>7, <1>8, <1>9, <1>10
          DEF Next, Server, Ended

\* Nothing is stored and nobody is connected at first.
LEMMA InitService == Init => ServiceInv /\ Service!Init
  <1> SUFFICES ASSUME Init PROVE ServiceInv /\ Service!Init
    OBVIOUS
  <1>1. /\ ss = [c \in Conn |-> Freed] /\ net = [c \in Conn |-> NoSocket]
        /\ zodiac_prognosises = [z \in Zodiac |-> [i \in 1 .. ASTROLOG_BUF_LEN |-> NUL]]
    BY DEF Init
  <1>2. PartialLine(Freed)
    BY DEF PartialLine, Freed
  <1>3. ServiceInv
    BY <1>1, <1>2 DEF ServiceInv
  <1>4. \A z \in Zodiac : Prognosis(z) = <<>>
    <2> SUFFICES ASSUME NEW z \in Zodiac PROVE Prognosis(z) = <<>>
      OBVIOUS
    <2>1. ASSUME NEW n \in 1 .. ASTROLOG_BUF_LEN PROVE ~Row(z, n)
      <3>1. zodiac_prognosises[z][n] = NUL
        BY <1>1
      <3> QED BY <3>1 DEF Row, IsLine, NUL, DELIMITER
    <2> QED BY <2>1, Zenon DEF Prognosis
  <1>5. \A c \in Conn : Unserved(c) = <<>> /\ Owed(c) = <<>> /\ ss[c].zodiac_ix = NONE
    BY <1>1, EmptyView, Views, Zenon
  <1>6. Service!Init
    BY <1>4, <1>5, Zenon DEF Service!Init
  <1> QED BY <1>3, <1>6

\* The invariant behind the refinement.
THEOREM ServiceInvariant == Spec => [](ServerInv /\ ReasonInv /\ ServiceInv)
  <1>1. Init => ServerInv /\ ReasonInv /\ ServiceInv
    BY InitInv, InitReason, InitService
  <1>2. ServerInv /\ ReasonInv /\ ServiceInv /\ [Next]_vars => (ServerInv /\ ReasonInv /\ ServiceInv)'
    BY NextInv, NextReason, StepSeen
  <1> QED BY <1>1, <1>2, PTL DEF Spec

\* The server implements the service: however the streams of the clients are cut
\* into reads and writes, in whatever order the events come, and whichever
\* connections are opened, dropped or timed out meanwhile, serving a line is one
\* atomic step, the replies of a connection are those to its own lines in order,
\* byte for byte, and a horoscope is the whole last prognosis of its sign.
THEOREM ServesAsPromised == Spec => ImplementsService
  <1>1. Init => Service!Init
    BY InitService
  <1>2. ServerInv /\ ReasonInv /\ ServiceInv /\ [Next]_vars
           => [Service!Next]_Service!serviceVars
    BY StepSeen DEF ServiceStep
  <1> QED BY <1>1, <1>2, ServiceInvariant, PTL DEF Spec, ImplementsService, Service!Spec

=============================================================================
