--------------------------- MODULE UnixClientProofs ---------------------------
(***************************************************************************)
(* The client's safety for every number of children, rounds and signs,     *)
(* every length of the buffer and of the replies that fit into it, and     *)
(* every failure: the loops stay inside their arrays, no child is left     *)
(* behind, and client and server stay in step.                             *)
(***************************************************************************)
EXTENDS UnixClient, SequenceTheorems, TLAPS

\* One line of which a was received and b, not empty, is on its way; it fits.
OneLine(a, b) ==
    /\ b # <<>>
    /\ IsLine(a \o b, Len(a \o b))
    /\ Len(a \o b) <= ASTROLOG_BUF_LEN

\* Everything that a client says before it waits for the reply.
Asked(s) ==
    \E z \in Zodiac :
        s = IF mode = "star" THEN <<STAR_REQUEST_TYPE, z, DELIMITER, "number", DELIMITER>>
            ELSE <<CLIENT_REQUEST_TYPE, z, DELIMITER>>

\* A connection that is up: nothing is under way while the client has not asked,
\* then its request, then one reply.
InStep(p, s) ==
    /\ end = "server" => s.held = <<>>
    /\ CASE p.state = "SEND_PROGNOSIS" ->
              /\ s.in = <<>>
              /\ \E z \in Zodiac : s.out = <<STAR_REQUEST_TYPE, z, DELIMITER>>
         [] p.state = "RECV_REPLY" ->
              \/ p.buf = <<>> /\ s.in = <<>> /\ s.out # <<>> /\ Asked(s.held \o s.out)
              \/ s.held = <<>> /\ s.out = <<>> /\ OneLine(p.buf, s.in)
         [] OTHER -> s.in = <<>> /\ s.out = <<>> /\ s.held = <<>>

Lacks(s, w) == \A j \in 1 .. Len(s) : s[j] # w

\* What a process and its connection may be together.
Coupled(p, s) ==
    /\ p \in Process /\ s \in Socket
    /\ Len(p.buf) <= ASTROLOG_BUF_LEN
    /\ p.round \in 1 .. Rounds
    /\ p.state \in {"NEW", "CONNECT", "DEAD"} => s = NoSocket
    /\ p.state # "RECV_REPLY" => p.buf = <<>>
    /\ p.state = "SEND_PROGNOSIS" => mode = "star"
    /\ p.state # "DEAD" => p.code = "none"
    /\ IF mode = "star" /\ end = "proxy"
       THEN Lacks(s.held, CLIENT_REQUEST_TYPE) /\ Lacks(s.out, CLIENT_REQUEST_TYPE)
       ELSE s.peer = "open" => InStep(p, s)

\* The children that exist: the first i while they are forked, the first forked
\* afterwards, of which i are killed.
Family ==
    /\ parent = "none" <=> mode # "harmful"
    /\ parent = "fork" => \A k \in Proc : k > i => In(k, "NEW")
    /\ parent = "kill" => /\ i <= forked
                          /\ \A k \in Proc : /\ k > forked => In(k, "NEW")
                                             /\ k <= i => In(k, "DEAD")

\* The inductive invariant.
ClientInv ==
    /\ mode \in Modes /\ end \in Ends
    /\ parent \in {"none", "fork", "kill", "exit"}
    /\ i \in 0 .. CLIENT_CON_NUM /\ forked \in 0 .. CLIENT_CON_NUM
    /\ proc \in [Proc -> Process] /\ net \in [Proc -> Socket]
    /\ \A k \in Proc : Coupled(proc[k], net[k])
    /\ Family
    /\ NoOrphans

-----------------------------------------------------------------------------
\* The part of the assumption that arithmetic needs.
LEMMA NumberFacts ==
    /\ ASTROLOG_BUF_LEN \in Nat /\ ASTROLOG_BUF_LEN > 2
    /\ CLIENT_CON_NUM \in Nat \ {0} /\ RETRIES \in Nat \ {0}
    /\ Len(Names) \in Nat \ {0} /\ Rounds \in Nat \ {0}
  <1>1. /\ ASTROLOG_BUF_LEN \in Nat /\ ASTROLOG_BUF_LEN > 2
        /\ CLIENT_CON_NUM \in Nat \ {0} /\ RETRIES \in Nat \ {0}
    BY UnixClientAssumption
  <1>2. Len(Names) \in Nat \ {0}
    BY UnixClientAssumption, EmptySeq
  <1> QED BY <1>1, <1>2 DEF Rounds

\* Cutting a stream keeps its words, their order and their number.
LEMMA CutFacts ==
    ASSUME NEW S, NEW s \in Seq(S), NEW n \in 0 .. Len(s)
    PROVE  /\ First(s, n) \in Seq(S) /\ Len(First(s, n)) = n
           /\ \A j \in 1 .. n : First(s, n)[j] = s[j]
           /\ After(s, n) \in Seq(S) /\ Len(After(s, n)) = Len(s) - n
           /\ \A j \in 1 .. Len(s) - n : After(s, n)[j] = s[n + j]
  <1>1. Len(s) \in Nat /\ \A j \in 1 .. Len(s) : s[j] \in S
    BY ElementOfSeq, LenProperties
  <1>2. /\ SubSeq(s, 1, n) \in Seq(S)
        /\ Len(SubSeq(s, 1, n)) = IF 1 <= n THEN n - 1 + 1 ELSE 0
        /\ \A j \in 1 .. n - 1 + 1 : SubSeq(s, 1, n)[j] = s[1 + j - 1]
    <2>1. \A j \in 1 .. n : s[j] \in S
      BY <1>1
    <2> QED BY <1>1, <2>1, SubSeqProperties
  <1>3. /\ SubSeq(s, n + 1, Len(s)) \in Seq(S)
        /\ Len(SubSeq(s, n + 1, Len(s))) = IF n + 1 <= Len(s) THEN Len(s) - (n + 1) + 1 ELSE 0
        /\ \A j \in 1 .. Len(s) - (n + 1) + 1 : SubSeq(s, n + 1, Len(s))[j] = s[n + 1 + j - 1]
    <2>1. \A j \in n + 1 .. Len(s) : s[j] \in S
      BY <1>1
    <2> QED BY <1>1, <2>1, SubSeqProperties
  <1>4. First(s, n) \in Seq(S) /\ Len(First(s, n)) = n
    BY <1>1, <1>2 DEF First
  <1>5. \A j \in 1 .. n : First(s, n)[j] = s[j]
    BY <1>1, <1>2 DEF First
  <1>6. After(s, n) \in Seq(S) /\ Len(After(s, n)) = Len(s) - n
    BY <1>1, <1>3 DEF After
  <1>7. \A j \in 1 .. Len(s) - n : After(s, n)[j] = s[n + j]
    BY <1>1, <1>3 DEF After
  <1> QED BY <1>4, <1>5, <1>6, <1>7

\* What was received and what is on its way are together always the same.
LEMMA Recut ==
    ASSUME NEW S, NEW a \in Seq(S), NEW b \in Seq(S), NEW n \in 0 .. Len(b)
    PROVE  (a \o First(b, n)) \o After(b, n) = a \o b
  <1>1. Len(b) \in Nat
    BY LenProperties
  <1>2. SubSeq(b, 1, n) \o SubSeq(b, n + 1, Len(b)) = SubSeq(b, 1, Len(b))
    <2>1. 1 \in 1 .. Len(b) + 1 /\ n \in 1 - 1 .. Len(b) /\ Len(b) \in n .. Len(b)
      BY <1>1
    <2> QED BY <2>1, ConcatAdjacentSubSeq
  <1>3. First(b, n) \o After(b, n) = b
    BY <1>2, SubSeqFull DEF First, After
  <1>4. First(b, n) \in Seq(S) /\ After(b, n) \in Seq(S)
    BY CutFacts
  <1>5. (a \o First(b, n)) \o After(b, n) = a \o (First(b, n) \o After(b, n))
    <2>1. \A t, u \in Seq(S) : (a \o t) \o u = a \o (t \o u)
      BY ConcatAssociative
    <2> QED BY <1>4, <2>1
  <1> QED BY <1>3, <1>5

\* recv_line on a line that is on its way alone: wherever it is cut there is
\* either more to come, or the line is complete and nothing follows.
LEMMA RecvLineFacts ==
    ASSUME NEW a \in Seq(Word), NEW b \in Seq(Word), OneLine(a, b), NEW n \in 1 .. Len(b)
    PROVE  recv_line(a, First(b, n), ASTROLOG_BUF_LEN) = IF n < Len(b) THEN "more" ELSE "line"
  <1> DEFINE c == First(b, n)
             u == a \o b
  <1>1. /\ Len(a) \in Nat /\ Len(b) \in Nat /\ n \in Nat
        /\ u \in Seq(Word) /\ Len(u) = Len(a) + Len(b)
        /\ \A j \in 1 .. Len(a) + Len(b) : u[j] = IF j <= Len(a) THEN a[j] ELSE b[j - Len(a)]
    BY LenProperties, ConcatProperties
  <1>2. c \in Seq(Word) /\ Len(c) = n /\ \A j \in 1 .. n : c[j] = b[j]
    BY <1>1, CutFacts
  <1>3. u[Len(u)] = DELIMITER /\ \A j \in 1 .. Len(u) - 1 : u[j] # DELIMITER
    BY <1>1 DEF OneLine, IsLine
  <1>4. ASSUME NEW j \in 1 .. Len(b)
        PROVE  b[j] = DELIMITER <=> j = Len(b)
    <2>1. Len(a) + j \in 1 .. Len(u) /\ u[Len(a) + j] = b[j]
      BY <1>1
    <2> QED BY <1>1, <1>3, <2>1
  <1>5. CASE n < Len(b)
    <2>1. ~ \E j \in 1 .. Len(c) : c[j] = DELIMITER
      BY <1>1, <1>2, <1>4, <1>5
    <2>2. Len(a) + Len(c) # ASTROLOG_BUF_LEN
      BY <1>1, <1>2, <1>5, NumberFacts DEF OneLine
    <2> QED BY <1>5, <2>1, <2>2 DEF recv_line
  <1>6. CASE n = Len(b)
    <2>1. IsLine(c, Len(c))
      BY <1>1, <1>2, <1>4, <1>6 DEF IsLine
    <2>2. \E j \in 1 .. Len(c) : c[j] = DELIMITER
      BY <2>1 DEF IsLine
    <2> QED BY <1>1, <1>6, <2>1, <2>2 DEF recv_line
  <1> QED BY <1>1, <1>5, <1>6

\* Receiving less than the whole line keeps it one line.
LEMMA OneLineKept ==
    ASSUME NEW a \in Seq(Word), NEW b \in Seq(Word), OneLine(a, b), NEW n \in 1 .. Len(b),
           n < Len(b)
    PROVE  OneLine(a \o First(b, n), After(b, n))
  <1>1. n \in 0 .. Len(b) /\ Len(b) \in Nat
    BY LenProperties
  <1>2. (a \o First(b, n)) \o After(b, n) = a \o b
    BY <1>1, Recut
  <1>3. After(b, n) # <<>>
    BY <1>1, CutFacts, EmptySeq
  <1> QED BY <1>2, <1>3 DEF OneLine

-----------------------------------------------------------------------------
\* The words that the client and the other end put together are words.
LEMMA LineFacts ==
    /\ <<>> \in Seq(Word) /\ Len(<<>>) = 0
    /\ STAR_REPLY_SUCCESS \in Seq(Word) /\ STAR_REPLY_FAILURE \in Seq(Word)
    /\ \A z \in Zodiac : /\ <<STAR_REQUEST_TYPE, z, DELIMITER>> \in Seq(Word)
                         /\ <<CLIENT_REQUEST_TYPE, z, DELIMITER>> \in Seq(Word)
                         /\ Horoscope[z] \in Seq(Word)
    /\ <<"number", DELIMITER>> \in Seq(Word)
  <1>1. Zodiac \subseteq Word /\ DELIMITER \in Word /\ STAR_REQUEST_TYPE \in Word
        /\ CLIENT_REQUEST_TYPE \in Word /\ "number" \in Word
    BY DEF Word
  <1>2. STAR_REPLY_SUCCESS[1] \in Word /\ STAR_REPLY_FAILURE[1] \in Word
    BY DEF Word
  <1>3. /\ STAR_REPLY_SUCCESS = <<STAR_REPLY_SUCCESS[1], DELIMITER>>
        /\ STAR_REPLY_FAILURE = <<STAR_REPLY_FAILURE[1], DELIMITER>>
    BY DEF STAR_REPLY_SUCCESS, STAR_REPLY_FAILURE
  <1>4. \A x, y \in Word : <<x, y>> \in Seq(Word)
    OBVIOUS
  <1>5. \A x, y, z \in Word : <<x, y, z>> \in Seq(Word)
    OBVIOUS
  <1>6. STAR_REPLY_SUCCESS \in Seq(Word) /\ STAR_REPLY_FAILURE \in Seq(Word)
    BY <1>1, <1>2, <1>3, <1>4
  <1>7. \A z \in Zodiac : Horoscope[z] \in Seq(Word)
    BY UnixClientAssumption
  <1> QED BY <1>1, <1>4, <1>5, <1>6, <1>7, EmptySeq

\* A process that has ended, with no connection.
LEMMA DeadFacts ==
    ASSUME NEW code \in {"none", "EXIT_SUCCESS", "EXIT_FAILURE", "SIGPIPE", "SIGTERM"}
    PROVE  Coupled(Dead(code), NoSocket)
  <1>1. NoSocket \in Socket /\ Dead(code) \in Process
    BY LineFacts DEF NoSocket, Socket, Dead, Process
  <1>2. Len(Dead(code).buf) <= ASTROLOG_BUF_LEN /\ Dead(code).round \in 1 .. Rounds
    BY NumberFacts, LineFacts DEF Dead
  <1>3. Lacks(NoSocket.held, CLIENT_REQUEST_TYPE) /\ Lacks(NoSocket.out, CLIENT_REQUEST_TYPE)
    BY LineFacts DEF NoSocket, Lacks
  <1>4. NoSocket.peer # "open"
    BY DEF NoSocket
  <1> QED BY <1>1, <1>2, <1>3, <1>4 DEF Coupled, Dead

\* Before a process is forked, and when it begins.
LEMMA NewFacts ==
    /\ Coupled(NoProcess, NoSocket)
    /\ Coupled([NoProcess EXCEPT !.state = "CONNECT"], NoSocket)
  <1> DEFINE New(q) == [NoProcess EXCEPT !.state = q]
  <1>1. NoSocket \in Socket
    BY LineFacts DEF NoSocket, Socket
  <1>2. Lacks(NoSocket.held, CLIENT_REQUEST_TYPE) /\ Lacks(NoSocket.out, CLIENT_REQUEST_TYPE)
    BY LineFacts DEF NoSocket, Lacks
  <1>3. NoSocket.peer # "open"
    BY DEF NoSocket
  <1>4. NoProcess \in Process /\ New("CONNECT") \in Process
    BY LineFacts DEF NoProcess, Process
  <1>5. /\ Len(NoProcess.buf) <= ASTROLOG_BUF_LEN /\ NoProcess.round \in 1 .. Rounds
        /\ Len(New("CONNECT").buf) <= ASTROLOG_BUF_LEN /\ New("CONNECT").round \in 1 .. Rounds
    BY NumberFacts, LineFacts DEF NoProcess
  <1>6. /\ NoProcess.state = "NEW" /\ NoProcess.buf = <<>>
        /\ New("CONNECT").state = "CONNECT" /\ New("CONNECT").buf = <<>>
        /\ NoProcess.code = "none" /\ New("CONNECT").code = "none"
    BY DEF NoProcess
  <1> QED BY <1>1, <1>2, <1>3, <1>4, <1>5, <1>6 DEF Coupled

\* The invariant after a step of process k, which is one that runs.
LEMMA BecomeInv ==
    ASSUME ClientInv, NEW k \in Proc, NEW p, NEW s, Coupled(p, s), Become(k, p, s),
           ~In(k, "NEW"), ~In(k, "DEAD"), p.state # "NEW"
    PROVE  ClientInv'
  <1>1. UNCHANGED <<mode, end, parent, i, forked>>
    BY DEF Become, harmful
  <1>2. /\ proc \in [Proc -> Process] /\ net \in [Proc -> Socket]
        /\ proc' = [proc EXCEPT ![k] = p] /\ net' = [net EXCEPT ![k] = s]
        /\ p \in Process /\ s \in Socket
    BY DEF ClientInv, Become, Coupled
  <1>3. proc' \in [Proc -> Process] /\ net' \in [Proc -> Socket]
    BY <1>2
  <1>4. /\ \A j \in Proc : proc'[j] = IF j = k THEN p ELSE proc[j]
        /\ \A j \in Proc : net'[j] = IF j = k THEN s ELSE net[j]
    BY <1>2
  <1>6. ASSUME NEW j \in Proc
        PROVE  Coupled(proc[j], net[j])'
    <2>1. Coupled(proc[j], net[j])
      BY DEF ClientInv
    <2>2. Coupled(IF j = k THEN p ELSE proc[j], IF j = k THEN s ELSE net[j])
      BY <2>1
    <2> QED BY <1>1, <1>4, <2>2 DEF Coupled, InStep, Asked, Rounds
  <1>7. Family'
    BY <1>1, <1>4 DEF ClientInv, Family, In
  <1>8. NoOrphans'
    BY <1>1, <1>4 DEF ClientInv, NoOrphans, In
  <1> QED BY <1>1, <1>3, <1>6, <1>7, <1>8 DEF ClientInv

\* The invariant after a step of the other end of connection k.
LEMMA PeerInv ==
    ASSUME ClientInv, NEW k \in Proc, NEW s, Coupled(proc[k], s), Peer(k, s)
    PROVE  ClientInv'
  <1>1. UNCHANGED <<mode, end, parent, i, forked, proc>>
    BY DEF Peer, harmful
  <1>2. net \in [Proc -> Socket] /\ net' = [net EXCEPT ![k] = s] /\ s \in Socket
    BY DEF ClientInv, Peer, Coupled
  <1>3. net' \in [Proc -> Socket] /\ \A j \in Proc : net'[j] = IF j = k THEN s ELSE net[j]
    BY <1>2
  <1>4. ASSUME NEW j \in Proc
        PROVE  Coupled(proc[j], net[j])'
    <2>1. Coupled(proc[j], IF j = k THEN s ELSE net[j])
      BY DEF ClientInv
    <2> QED BY <1>1, <1>3, <2>1 DEF Coupled, InStep, Asked, Rounds
  <1>5. Family' /\ NoOrphans'
    BY <1>1 DEF ClientInv, Family, NoOrphans, In
  <1> QED BY <1>1, <1>3, <1>4, <1>5 DEF ClientInv

\* A process that runs ends.
LEMMA DieInv ==
    ASSUME ClientInv, NEW k \in Proc,
           NEW code \in {"none", "EXIT_SUCCESS", "EXIT_FAILURE", "SIGPIPE", "SIGTERM"},
           Die(k, code), ~In(k, "NEW"), ~In(k, "DEAD")
    PROVE  ClientInv'
  <1>1. Dead(code).state # "NEW"
    BY DEF Dead
  <1> QED BY <1>1, DeadFacts, BecomeInv DEF Die

\* connect.
LEMMA ConnectInv ==
    ASSUME ClientInv, NEW k \in Proc, connect(k)
    PROVE  ClientInv'
  <1> DEFINE p == [proc[k] EXCEPT !.state = "SEND_REQUEST"]
             s == [NoSocket EXCEPT !.peer = "open"]
  <1>1. In(k, "CONNECT") /\ ~In(k, "NEW") /\ ~In(k, "DEAD")
    BY DEF connect, In
  <1>2. Coupled(proc[k], net[k])
    BY DEF ClientInv
  <1>3. CASE Goto(k, "SEND_REQUEST", s)
    <2>1. p \in Process /\ p.state = "SEND_REQUEST" /\ p.buf = <<>> /\ p.round = proc[k].round /\ p.code = proc[k].code
      BY <1>1, <1>2 DEF Coupled, Process, In
    <2>2. s \in Socket /\ s.in = <<>> /\ s.out = <<>> /\ s.held = <<>>
      BY LineFacts DEF Socket, NoSocket
    <2>3. Lacks(s.held, CLIENT_REQUEST_TYPE) /\ Lacks(s.out, CLIENT_REQUEST_TYPE)
      BY <2>2, LineFacts DEF Lacks
    <2>4. Coupled(p, s)
      BY <1>1, <1>2, <2>1, <2>2, <2>3, LineFacts, NumberFacts DEF Coupled, InStep, In
    <2> QED BY <1>1, <1>3, <2>1, <2>4, BecomeInv DEF Goto
  <1>4. CASE Die(k, "EXIT_FAILURE")
    BY <1>1, <1>4, DieInv
  <1> QED BY <1>3, <1>4 DEF connect

\* send_all, from what it leaves when the other end is there.
LEMMA SendInv ==
    ASSUME ClientInv, NEW k \in Proc, NEW line, NEW next \in {"SEND_PROGNOSIS", "RECV_REPLY"},
           next = "SEND_PROGNOSIS" => mode = "star",
           In(k, "SEND_REQUEST") \/ In(k, "SEND_PROGNOSIS"),
           net[k].peer = "open" => Coupled([proc[k] EXCEPT !.state = next],
                                           [net[k] EXCEPT !.out = @ \o line]),
           send_all(k, line, next)
    PROVE  ClientInv'
  <1> DEFINE p == [proc[k] EXCEPT !.state = next]
  <1>1. ~In(k, "NEW") /\ ~In(k, "DEAD")
    BY DEF In
  <1>2. Coupled(proc[k], net[k])
    BY DEF ClientInv
  <1>3. p \in Process /\ p.state = next /\ p.buf = proc[k].buf /\ p.round = proc[k].round /\ p.code = proc[k].code
    BY <1>2 DEF Coupled, Process
  <1>4. p.state # "NEW"
    BY <1>3
  <1>5. CASE net[k].peer = "open" /\ Goto(k, next, [net[k] EXCEPT !.out = @ \o line])
    BY <1>1, <1>4, <1>5, BecomeInv DEF Goto
  <1>6. ASSUME NEW q \in {"fin", "rst"}, Goto(k, next, [net[k] EXCEPT !.peer = q])
        PROVE  ClientInv'
    <2> DEFINE s == [net[k] EXCEPT !.peer = q]
    <2>1. s \in Socket /\ s.out = net[k].out /\ s.held = net[k].held /\ s.peer # "open"
      BY <1>2 DEF Coupled, Socket
    <2>2. Coupled(p, s)
      BY <1>2, <1>3, <2>1 DEF Coupled, In
    <2> QED BY <1>1, <1>4, <1>6, <2>2, BecomeInv DEF Goto
  <1>7. ASSUME NEW code \in {"EXIT_FAILURE", "SIGPIPE"}, Die(k, code)
        PROVE  ClientInv'
    BY <1>1, <1>7, DieInv
  <1> QED BY <1>5, <1>6, <1>7 DEF send_all

\* What is sent behind other words brings no word that neither has.
LEMMA LacksConcat ==
    ASSUME NEW s \in Seq(Word), NEW t \in Seq(Word), NEW w, Lacks(s, w), Lacks(t, w)
    PROVE  s \o t \in Seq(Word) /\ Lacks(s \o t, w)
  <1>1. /\ Len(s) \in Nat /\ Len(t) \in Nat /\ s \o t \in Seq(Word)
        /\ Len(s \o t) = Len(s) + Len(t)
        /\ \A j \in 1 .. Len(s) + Len(t) :
              (s \o t)[j] = IF j <= Len(s) THEN s[j] ELSE t[j - Len(s)]
    BY LenProperties, ConcatProperties
  <1> QED BY <1>1 DEF Lacks

\* Neither does cutting.
LEMMA LacksCut ==
    ASSUME NEW s \in Seq(Word), NEW n \in 0 .. Len(s), NEW w, Lacks(s, w)
    PROVE  Lacks(First(s, n), w) /\ Lacks(After(s, n), w)
  <1> DEFINE a == First(s, n)
             b == After(s, n)
  <1>1. /\ Len(s) \in Nat /\ Len(a) = n /\ Len(b) = Len(s) - n
        /\ \A j \in 1 .. n : a[j] = s[j]
        /\ \A j \in 1 .. Len(s) - n : b[j] = s[n + j]
    BY CutFacts, LenProperties
  <1> HIDE DEF a, b
  <1>2. Lacks(a, w)
    BY <1>1 DEF Lacks
  <1>3. ASSUME NEW j \in 1 .. Len(b)
        PROVE  b[j] # w
    <2>1. n + j \in 1 .. Len(s) /\ b[j] = s[n + j]
      BY <1>1
    <2> QED BY <2>1 DEF Lacks
  <1>4. Lacks(b, w)
    BY <1>3 DEF Lacks
  <1> QED BY <1>2, <1>4 DEF a, b

\* The socket after words were sent.
LEMMA SentSocket ==
    ASSUME NEW s \in Socket, NEW line \in Seq(Word)
    PROVE  LET t == [s EXCEPT !.out = @ \o line] IN
           /\ t \in Socket /\ t.in = s.in /\ t.held = s.held /\ t.peer = s.peer
           /\ t.out = s.out \o line
  <1>1. s.out \o line \in Seq(Word)
    BY ConcatProperties DEF Socket
  <1> QED BY <1>1 DEF Socket

\* Both lines of a star.
LEMMA TwoLines ==
    ASSUME NEW z \in Zodiac
    PROVE  <<STAR_REQUEST_TYPE, z, DELIMITER>> \o <<"number", DELIMITER>>
              = <<STAR_REQUEST_TYPE, z, DELIMITER, "number", DELIMITER>>
  <1> DEFINE a == <<STAR_REQUEST_TYPE, z, DELIMITER>>
             b == <<"number", DELIMITER>>
             u == <<STAR_REQUEST_TYPE, z, DELIMITER, "number", DELIMITER>>
  <1>1. /\ a \in Seq(Word) /\ Len(a) = 3
        /\ b \in Seq(Word) /\ Len(b) = 2
        /\ u \in Seq(Word) /\ Len(u) = 5
    BY DEF Word
  <1>2. /\ a \o b \in Seq(Word) /\ Len(a \o b) = 5
        /\ \A j \in 1 .. 5 : (a \o b)[j] = IF j <= 3 THEN a[j] ELSE b[j - 3]
    BY <1>1, ConcatProperties
  <1>3. \A j \in 1 .. 5 : (a \o b)[j] = u[j]
    <2>1. /\ (a \o b)[1] = a[1] /\ (a \o b)[2] = a[2] /\ (a \o b)[3] = a[3]
          /\ (a \o b)[4] = b[1] /\ (a \o b)[5] = b[2]
      BY <1>2
    <2>2. /\ a[1] = u[1] /\ a[2] = u[2] /\ a[3] = u[3] /\ b[1] = u[4] /\ b[2] = u[5]
      OBVIOUS
    <2>3. \A j \in 1 .. 5 : j = 1 \/ j = 2 \/ j = 3 \/ j = 4 \/ j = 5
      OBVIOUS
    <2> QED BY <2>1, <2>2, <2>3
  <1> HIDE DEF a, b, u
  <1>4. a \o b = u
    BY <1>1, <1>2, <1>3, SeqEqual
  <1> QED BY <1>4 DEF a, b, u

\* The loop over the requests.
LEMMA SendRequestInv ==
    ASSUME ClientInv, NEW k \in Proc, SendRequest(k)
    PROVE  ClientInv'
  <1>1. In(k, "SEND_REQUEST") /\ Coupled(proc[k], net[k])
    BY DEF SendRequest, ClientInv
  <1>2. PICK z \in Sign(k) :
           IF mode = "star"
           THEN send_all(k, <<STAR_REQUEST_TYPE, z, DELIMITER>>, "SEND_PROGNOSIS")
           ELSE send_all(k, <<CLIENT_REQUEST_TYPE, z, DELIMITER>>, "RECV_REPLY")
    BY DEF SendRequest
  <1>3. z \in Zodiac
    <2>1. CASE mode = "harmful"
      BY <2>1 DEF Sign
    <2>2. CASE mode # "harmful"
      <3>1. Names \in Seq(Zodiac) /\ proc[k].round \in 1 .. Len(Names)
        BY <1>1, <2>2, UnixClientAssumption DEF Coupled, Rounds
      <3>2. Names[proc[k].round] \in Zodiac
        BY <3>1, ElementOfSeq
      <3> QED BY <2>2, <3>2 DEF Sign
    <2> QED BY <2>1, <2>2
  <1>4. /\ proc[k] \in Process /\ net[k] \in Socket /\ proc[k].buf = <<>>
        /\ net[k].out \in Seq(Word) /\ net[k].held \in Seq(Word)
    BY <1>1 DEF Coupled, In, Socket
  <1>5. CASE mode = "star"
    <2> DEFINE line == <<STAR_REQUEST_TYPE, z, DELIMITER>>
               p == [proc[k] EXCEPT !.state = "SEND_PROGNOSIS"]
               s == [net[k] EXCEPT !.out = @ \o line]
    <2>1. line \in Seq(Word)
      BY <1>3, LineFacts
    <2>2. s \in Socket /\ s.in = net[k].in /\ s.held = net[k].held /\ s.peer = net[k].peer
          /\ s.out = net[k].out \o line
      BY <1>4, <2>1, SentSocket
    <2>3. p \in Process /\ p.state = "SEND_PROGNOSIS" /\ p.buf = <<>>
          /\ p.round = proc[k].round /\ p.code = proc[k].code
      BY <1>4 DEF Process
    <2>4. ASSUME end = "proxy"
          PROVE  Lacks(s.held, CLIENT_REQUEST_TYPE) /\ Lacks(s.out, CLIENT_REQUEST_TYPE)
      <3>1. Lacks(line, CLIENT_REQUEST_TYPE)
        <4>1. z # CLIENT_REQUEST_TYPE
          BY <1>3, UnixClientAssumption
        <4>2. Len(line) = 3 /\ line[1] = STAR_REQUEST_TYPE /\ line[2] = z /\ line[3] = DELIMITER
          OBVIOUS
        <4>3. STAR_REQUEST_TYPE # CLIENT_REQUEST_TYPE /\ DELIMITER # CLIENT_REQUEST_TYPE
          BY DEF STAR_REQUEST_TYPE, CLIENT_REQUEST_TYPE, DELIMITER
        <4> HIDE DEF line
        <4> QED BY <4>1, <4>2, <4>3 DEF Lacks
      <3>2. Lacks(net[k].held, CLIENT_REQUEST_TYPE) /\ Lacks(net[k].out, CLIENT_REQUEST_TYPE)
        BY <1>1, <1>5, <2>4 DEF Coupled
      <3> QED BY <1>4, <2>1, <2>2, <3>1, <3>2, LacksConcat
    <2>5. ASSUME end # "proxy", s.peer = "open"
          PROVE  InStep(p, s)
      <3>1. net[k].in = <<>> /\ net[k].out = <<>> /\ net[k].held = <<>>
        BY <1>1, <2>2, <2>5 DEF Coupled, InStep, In
      <3>2. s.out = line
        BY <2>1, <2>2, <3>1, ConcatEmptySeq
      <3> QED BY <1>3, <2>2, <2>3, <3>1, <3>2 DEF InStep
    <2>6. Coupled(p, s)
      BY <1>1, <1>5, <2>2, <2>3, <2>4, <2>5, LineFacts, NumberFacts DEF Coupled, In
    <2>7. send_all(k, line, "SEND_PROGNOSIS")
      BY <1>2, <1>5
    <2> QED BY <1>1, <1>5, <2>6, <2>7, SendInv
  <1>6. CASE mode # "star"
    <2> DEFINE line == <<CLIENT_REQUEST_TYPE, z, DELIMITER>>
               p == [proc[k] EXCEPT !.state = "RECV_REPLY"]
               s == [net[k] EXCEPT !.out = @ \o line]
    <2>1. line \in Seq(Word)
      BY <1>3, LineFacts
    <2>2. s \in Socket /\ s.in = net[k].in /\ s.held = net[k].held /\ s.peer = net[k].peer
          /\ s.out = net[k].out \o line
      BY <1>4, <2>1, SentSocket
    <2>3. p \in Process /\ p.state = "RECV_REPLY" /\ p.buf = <<>> /\ p.round = proc[k].round /\ p.code = proc[k].code
      BY <1>4 DEF Process
    <2>4. ASSUME s.peer = "open"
          PROVE  InStep(p, s)
      <3>1. net[k].in = <<>> /\ net[k].out = <<>> /\ net[k].held = <<>>
        BY <1>1, <1>6, <2>2, <2>4 DEF Coupled, InStep, In
      <3>2. s.out = line /\ s.held \o s.out = line
        BY <2>1, <2>2, <3>1, ConcatEmptySeq
      <3>3. s.out # <<>>
        BY <3>2
      <3>4. Asked(s.held \o s.out)
        BY <1>3, <1>6, <3>2 DEF Asked
      <3> QED BY <2>2, <2>3, <3>1, <3>3, <3>4 DEF InStep
    <2>5. Coupled(p, s)
      BY <1>1, <1>6, <2>2, <2>3, <2>4, LineFacts, NumberFacts DEF Coupled, In
    <2>6. send_all(k, line, "RECV_REPLY")
      BY <1>2, <1>6
    <2> QED BY <1>1, <2>5, <2>6, SendInv
  <1> QED BY <1>5, <1>6

\* A star's second line.
LEMMA SendPrognosisInv ==
    ASSUME ClientInv, NEW k \in Proc, SendPrognosis(k)
    PROVE  ClientInv'
  <1> DEFINE line == <<"number", DELIMITER>>
             p == [proc[k] EXCEPT !.state = "RECV_REPLY"]
             s == [net[k] EXCEPT !.out = @ \o line]
  <1>1. In(k, "SEND_PROGNOSIS") /\ Coupled(proc[k], net[k]) /\ send_all(k, line, "RECV_REPLY")
    BY DEF SendPrognosis, ClientInv
  <1>2. /\ proc[k] \in Process /\ net[k] \in Socket /\ proc[k].buf = <<>> /\ mode = "star"
        /\ net[k].out \in Seq(Word) /\ net[k].held \in Seq(Word)
    BY <1>1 DEF Coupled, In, Socket
  <1>3. line \in Seq(Word)
    BY LineFacts
  <1>4. s \in Socket /\ s.in = net[k].in /\ s.held = net[k].held /\ s.peer = net[k].peer
        /\ s.out = net[k].out \o line
    BY <1>2, <1>3, SentSocket
  <1>5. p \in Process /\ p.state = "RECV_REPLY" /\ p.buf = <<>> /\ p.round = proc[k].round /\ p.code = proc[k].code
    BY <1>2 DEF Process
  <1>6. ASSUME end = "proxy"
        PROVE  Lacks(s.held, CLIENT_REQUEST_TYPE) /\ Lacks(s.out, CLIENT_REQUEST_TYPE)
    <2>1. Lacks(line, CLIENT_REQUEST_TYPE)
      BY DEF Lacks, CLIENT_REQUEST_TYPE, DELIMITER
    <2>2. Lacks(net[k].held, CLIENT_REQUEST_TYPE) /\ Lacks(net[k].out, CLIENT_REQUEST_TYPE)
      BY <1>1, <1>2, <1>6 DEF Coupled
    <2> QED BY <1>2, <1>3, <1>4, <2>1, <2>2, LacksConcat
  <1>7. ASSUME end # "proxy", s.peer = "open"
        PROVE  InStep(p, s)
    <2>1. PICK z \in Zodiac : net[k].out = <<STAR_REQUEST_TYPE, z, DELIMITER>>
      BY <1>1, <1>4, <1>7 DEF Coupled, InStep, In
    <2>2. net[k].in = <<>> /\ net[k].held = <<>>
      BY <1>1, <1>4, <1>7, UnixClientAssumption DEF Coupled, InStep, In, ClientInv
    <2>3. s.out = <<STAR_REQUEST_TYPE, z, DELIMITER, "number", DELIMITER>> /\ s.out # <<>>
      <3>1. <<STAR_REQUEST_TYPE, z, DELIMITER>> \o line
               = <<STAR_REQUEST_TYPE, z, DELIMITER, "number", DELIMITER>>
        BY TwoLines
      <3> QED BY <1>4, <2>1, <3>1
    <2>4. s.held \o s.out = s.out
      BY <1>4, <2>2, ConcatEmptySeq DEF Socket
    <2> QED BY <1>2, <1>4, <1>5, <2>2, <2>3, <2>4 DEF InStep, Asked
  <1>8. Coupled(p, s)
    BY <1>1, <1>2, <1>4, <1>5, <1>6, <1>7, LineFacts, NumberFacts DEF Coupled, In
  <1> QED BY <1>1, <1>8, SendInv

\* The next round of a loop, or its end.
LEMMA NextRoundFacts ==
    ASSUME NEW p \in Process, p.round \in 1 .. Rounds, p.buf = <<>>, p.code = "none",
           NEW s \in Socket,
           mode = "star" /\ end = "proxy" =>
              Lacks(s.held, CLIENT_REQUEST_TYPE) /\ Lacks(s.out, CLIENT_REQUEST_TYPE),
           s.peer = "open" /\ ~(mode = "star" /\ end = "proxy")
              => s.in = <<>> /\ s.out = <<>> /\ s.held = <<>>
    PROVE  /\ NextRound(p).state = "DEAD" <=> p.round = Rounds
           /\ NextRound(p).state # "NEW"
           /\ Coupled(NextRound(p), IF NextRound(p).state = "DEAD" THEN NoSocket ELSE s)
  <1>1. CASE p.round = Rounds
    <2>1. NextRound(p) = Dead("EXIT_SUCCESS") /\ Dead("EXIT_SUCCESS").state = "DEAD"
      BY <1>1 DEF NextRound, Dead
    <2> QED BY <1>1, <2>1, DeadFacts
  <1>2. CASE p.round # Rounds
    <2> DEFINE q == [p EXCEPT !.round = @ + 1, !.state = "SEND_REQUEST"]
    <2>1. NextRound(p) = q
      BY <1>2 DEF NextRound
    <2>2. p.round \in Nat /\ p.round + 1 \in 1 .. Rounds /\ p.round + 1 \in Nat
      BY <1>2, NumberFacts
    <2>3. q \in Process /\ q.state = "SEND_REQUEST" /\ q.round = p.round + 1 /\ q.buf = <<>>
          /\ q.code = "none"
      BY <2>2 DEF Process
    <2>4. Coupled(q, s)
      BY <2>2, <2>3, NumberFacts, LineFacts DEF Coupled, InStep
    <2> QED BY <1>2, <2>1, <2>3, <2>4
  <1> QED BY <1>1, <1>2

\* What recv may return fits into the buffer.
LEMMA RecvSizeFacts ==
    ASSUME ClientInv, NEW k \in Proc, NEW n \in 1 .. RecvSize(k)
    PROVE  /\ net[k].in \in Seq(Word) /\ proc[k].buf \in Seq(Word)
           /\ n \in 1 .. Len(net[k].in) /\ n \in 0 .. Len(net[k].in)
           /\ proc[k].buf \o First(net[k].in, n) \in Seq(Word)
           /\ Len(proc[k].buf \o First(net[k].in, n)) <= ASTROLOG_BUF_LEN
  <1>1. net[k].in \in Seq(Word) /\ proc[k].buf \in Seq(Word)
    BY DEF ClientInv, Socket, Process
  <1>2. Len(net[k].in) \in Nat /\ Len(proc[k].buf) \in Nat
    BY <1>1, LenProperties
  <1>3. n \in Nat /\ n >= 1 /\ n <= Len(net[k].in) /\ n <= ASTROLOG_BUF_LEN - Len(proc[k].buf)
    BY <1>2, NumberFacts DEF RecvSize, MIN
  <1>4. n \in 0 .. Len(net[k].in)
    BY <1>2, <1>3
  <1> DEFINE c == First(net[k].in, n)
  <1>5. c \in Seq(Word) /\ Len(c) = n
    BY <1>1, <1>4, CutFacts
  <1> HIDE DEF c
  <1>6. proc[k].buf \o c \in Seq(Word) /\ Len(proc[k].buf \o c) = Len(proc[k].buf) + Len(c)
    BY <1>1, <1>5, ConcatProperties
  <1>7. Len(proc[k].buf \o c) <= ASTROLOG_BUF_LEN
    BY <1>2, <1>3, <1>5, <1>6, NumberFacts
  <1>8. n \in 1 .. Len(net[k].in)
    BY <1>2, <1>3
  <1>9. /\ proc[k].buf \o First(net[k].in, n) \in Seq(Word)
        /\ Len(proc[k].buf \o First(net[k].in, n)) <= ASTROLOG_BUF_LEN
    BY <1>6, <1>7, Zenon DEF c
  <1> QED BY <1>1, <1>4, <1>8, <1>9

\* While the connection is up, and a reply is on its way, it is the only one.
LEMMA ReplyFacts ==
    ASSUME ClientInv, NEW k \in Proc, In(k, "RECV_REPLY"), net[k].peer = "open",
           ~(mode = "star" /\ end = "proxy"), net[k].in # <<>>
    PROVE  net[k].held = <<>> /\ net[k].out = <<>> /\ OneLine(proc[k].buf, net[k].in)
  <1>1. Coupled(proc[k], net[k])
    BY DEF ClientInv
  <1> QED BY <1>1 DEF Coupled, InStep, In

\* recv_line, and the end of a round.
LEMMA RecvReplyInv ==
    ASSUME ClientInv, NEW k \in Proc, RecvReply(k)
    PROVE  ClientInv'
  <1>1. In(k, "RECV_REPLY") /\ ~In(k, "NEW") /\ ~In(k, "DEAD") /\ Coupled(proc[k], net[k])
    BY DEF RecvReply, In, ClientInv
  <1>2. CASE Die(k, "EXIT_FAILURE")
    BY <1>1, <1>2, DieInv
  <1>3. ASSUME NEW n \in 1 .. RecvSize(k),
               LET chunk == First(net[k].in, n)
                   p == [proc[k] EXCEPT !.buf = @ \o chunk]
                   socket == [net[k] EXCEPT !.in = After(@, n)]
                   done == IF mode = "harmful" THEN [p EXCEPT !.state = "SLEEP", !.buf = <<>>]
                           ELSE NextRound([p EXCEPT !.buf = <<>>]) IN
               CASE recv_line(proc[k].buf, chunk, ASTROLOG_BUF_LEN) = "more" -> Become(k, p, socket)
                 [] recv_line(proc[k].buf, chunk, ASTROLOG_BUF_LEN) = "error" ->
                       Die(k, "EXIT_FAILURE")
                 [] OTHER -> Become(k, done, IF done.state = "DEAD" THEN NoSocket ELSE socket)
        PROVE  ClientInv'
    <2> DEFINE chunk == First(net[k].in, n)
               p == [proc[k] EXCEPT !.buf = @ \o chunk]
               s == [net[k] EXCEPT !.in = After(@, n)]
               got == recv_line(proc[k].buf, chunk, ASTROLOG_BUF_LEN)
               over == [proc[k] EXCEPT !.buf = <<>>]
               sleep == [proc[k] EXCEPT !.state = "SLEEP", !.buf = <<>>]
    <2>1. /\ net[k].in \in Seq(Word) /\ proc[k].buf \in Seq(Word)
          /\ n \in 1 .. Len(net[k].in) /\ n \in 0 .. Len(net[k].in)
          /\ proc[k].buf \o chunk \in Seq(Word) /\ Len(proc[k].buf \o chunk) <= ASTROLOG_BUF_LEN
      BY RecvSizeFacts
    <2>2. /\ p \in Process /\ p.state = "RECV_REPLY" /\ p.round = proc[k].round /\ p.code = proc[k].code
          /\ p.buf = proc[k].buf \o chunk
      BY <1>1, <2>1 DEF Coupled, In, Process
    <2>3. /\ After(net[k].in, n) \in Seq(Word)
          /\ Len(After(net[k].in, n)) = Len(net[k].in) - n
      BY <2>1, CutFacts
    <2>4. /\ s \in Socket /\ s.in = After(net[k].in, n) /\ s.out = net[k].out
          /\ s.held = net[k].held /\ s.peer = net[k].peer
      BY <1>1, <2>3 DEF Coupled, Socket
    <2>5. ASSUME s.peer = "open", ~(mode = "star" /\ end = "proxy")
          PROVE  /\ net[k].held = <<>> /\ net[k].out = <<>>
                 /\ OneLine(proc[k].buf, net[k].in)
                 /\ got = IF n < Len(net[k].in) THEN "more" ELSE "line"
      <3>1. net[k].in # <<>>
        BY <2>1, EmptySeq
      <3>2. /\ net[k].held = <<>> /\ net[k].out = <<>>
            /\ OneLine(proc[k].buf, net[k].in)
        BY <1>1, <2>4, <2>5, <3>1, ReplyFacts
      <3> QED BY <2>1, <3>2, RecvLineFacts
    <2>6. CASE got = "more"
      <3>1. Become(k, p, s)
        BY <1>3, <2>6
      <3>2. ASSUME s.peer = "open", ~(mode = "star" /\ end = "proxy")
            PROVE  InStep(p, s)
        <4>1. n < Len(net[k].in) /\ OneLine(proc[k].buf, net[k].in)
          BY <2>5, <2>6, <3>2
        <4>2. OneLine(p.buf, s.in)
          BY <2>1, <2>2, <2>4, <4>1, OneLineKept
        <4> QED BY <2>2, <2>4, <2>5, <3>2, <4>2 DEF InStep
      <3>3. Coupled(p, s)
        BY <1>1, <2>1, <2>2, <2>4, <3>2 DEF Coupled, In
      <3> QED BY <1>1, <2>2, <3>1, <3>3, BecomeInv
    <2>7. CASE got = "error"
      <3>1. Die(k, "EXIT_FAILURE")
        BY <1>3, <2>7
      <3> QED BY <1>1, <3>1, DieInv
    <2>8. CASE got # "more" /\ got # "error"
      <3>1. ASSUME s.peer = "open", ~(mode = "star" /\ end = "proxy")
            PROVE  s.in = <<>> /\ s.out = <<>> /\ s.held = <<>>
        <4>1. ~(n < Len(net[k].in))
          BY <2>5, <2>8, <3>1
        <4>2. Len(s.in) = 0
          BY <2>1, <2>3, <2>4, <4>1, LenProperties
        <4> QED BY <2>3, <2>4, <2>5, <3>1, <4>2, EmptySeq
      <3>2. mode = "star" /\ end = "proxy" =>
               Lacks(s.held, CLIENT_REQUEST_TYPE) /\ Lacks(s.out, CLIENT_REQUEST_TYPE)
        BY <1>1, <2>4 DEF Coupled
      <3>3. CASE mode = "harmful"
        <4>1. [p EXCEPT !.state = "SLEEP", !.buf = <<>>] = sleep
          BY <2>2, <1>1 DEF Coupled, Process
        <4>2. sleep \in Process /\ sleep.state = "SLEEP" /\ sleep.buf = <<>>
              /\ sleep.round = proc[k].round /\ sleep.code = proc[k].code /\ p.code = proc[k].code
          BY <1>1, LineFacts DEF Coupled, Process
        <4>3. Become(k, sleep, s)
          BY <1>3, <2>8, <3>3, <4>1, <4>2
        <4>4. Coupled(sleep, s)
          BY <1>1, <2>4, <3>1, <3>3, <4>2, LineFacts, NumberFacts DEF Coupled, InStep, In
        <4> QED BY <1>1, <4>2, <4>3, <4>4, BecomeInv
      <3>4. CASE mode # "harmful"
        <4>1. [p EXCEPT !.buf = <<>>] = over
          BY <2>2, <1>1 DEF Coupled, Process
        <4>2. over \in Process /\ over.round \in 1 .. Rounds /\ over.buf = <<>>
              /\ over.code = "none"
          BY <1>1, LineFacts DEF Coupled, Process, In
        <4>3. Become(k, NextRound(over), IF NextRound(over).state = "DEAD" THEN NoSocket ELSE s)
          BY <1>3, <2>8, <3>4, <4>1
        <4>4. /\ NextRound(over).state # "NEW"
              /\ Coupled(NextRound(over), IF NextRound(over).state = "DEAD" THEN NoSocket ELSE s)
          BY <2>4, <3>1, <3>2, <4>2, NextRoundFacts
        <4> QED BY <1>1, <4>3, <4>4, BecomeInv
      <3> QED BY <3>3, <3>4
    <2> QED BY <2>6, <2>7, <2>8
  <1> QED BY <1>2, <1>3 DEF RecvReply

\* A harmful child wakes up.
LEMMA WakeInv ==
    ASSUME ClientInv, NEW k \in Proc, Wake(k)
    PROVE  ClientInv'
  <1>1. In(k, "SLEEP") /\ ~In(k, "NEW") /\ ~In(k, "DEAD") /\ Coupled(proc[k], net[k])
    BY DEF Wake, In, ClientInv
  <1>2. Become(k, NextRound(proc[k]), IF proc[k].round = Rounds THEN NoSocket ELSE net[k])
    BY DEF Wake
  <1>3. /\ proc[k] \in Process /\ proc[k].round \in 1 .. Rounds /\ proc[k].buf = <<>>
        /\ proc[k].code = "none" /\ net[k] \in Socket
        /\ mode = "star" /\ end = "proxy" =>
              Lacks(net[k].held, CLIENT_REQUEST_TYPE) /\ Lacks(net[k].out, CLIENT_REQUEST_TYPE)
        /\ net[k].peer = "open" /\ ~(mode = "star" /\ end = "proxy")
              => net[k].in = <<>> /\ net[k].out = <<>> /\ net[k].held = <<>>
    BY <1>1 DEF Coupled, InStep, In
  <1>4. /\ NextRound(proc[k]).state = "DEAD" <=> proc[k].round = Rounds
        /\ NextRound(proc[k]).state # "NEW"
        /\ Coupled(NextRound(proc[k]),
                   IF NextRound(proc[k]).state = "DEAD" THEN NoSocket ELSE net[k])
    BY <1>3, NextRoundFacts
  <1>5. Coupled(NextRound(proc[k]), IF proc[k].round = Rounds THEN NoSocket ELSE net[k])
    BY <1>4
  <1> QED BY <1>1, <1>2, <1>4, <1>5, BecomeInv

-----------------------------------------------------------------------------
\* The request of an ordinary or a harmful client is one line, which fits.
LEMMA RequestIsLine ==
    ASSUME NEW z \in Zodiac
    PROVE  LET r == <<CLIENT_REQUEST_TYPE, z, DELIMITER>> IN
           /\ r \in Seq(Word) /\ Len(r) = 3 /\ IsLine(r, 3)
           /\ \A n \in 1 .. 3 : IsLine(r, n) => n = 3
           /\ r[1] = CLIENT_REQUEST_TYPE /\ r[2] = z
  <1> DEFINE r == <<CLIENT_REQUEST_TYPE, z, DELIMITER>>
  <1>1. r \in Seq(Word) /\ Len(r) = 3
    BY DEF Word
  <1>2. r[1] = CLIENT_REQUEST_TYPE /\ r[2] = z /\ r[3] = DELIMITER
    OBVIOUS
  <1>3. z # DELIMITER /\ CLIENT_REQUEST_TYPE # DELIMITER
    BY UnixClientAssumption DEF CLIENT_REQUEST_TYPE, DELIMITER
  <1> HIDE DEF r
  <1>4. \A j \in 1 .. 2 : r[j] # DELIMITER
    BY <1>2, <1>3
  <1>5. IsLine(r, 3) /\ \A n \in 1 .. 3 : IsLine(r, n) => n = 3
    BY <1>1, <1>2, <1>4 DEF IsLine
  <1> QED BY <1>1, <1>2, <1>5 DEF r

\* A star says two lines.
LEMMA StarSaysTwoLines ==
    ASSUME NEW z \in Zodiac
    PROVE  LET r == <<STAR_REQUEST_TYPE, z, DELIMITER, "number", DELIMITER>> IN
           /\ r \in Seq(Word) /\ Len(r) = 5 /\ r[1] = STAR_REQUEST_TYPE
           /\ \A n \in 1 .. 5 : IsLine(r, n) => n = 3
           /\ r[4] # DELIMITER /\ r[5] = DELIMITER
  <1> DEFINE r == <<STAR_REQUEST_TYPE, z, DELIMITER, "number", DELIMITER>>
  <1>1. r \in Seq(Word) /\ Len(r) = 5
    BY DEF Word
  <1>2. r[1] = STAR_REQUEST_TYPE /\ r[2] = z /\ r[3] = DELIMITER /\ r[4] = "number"
        /\ r[5] = DELIMITER
    OBVIOUS
  <1>3. z # DELIMITER /\ STAR_REQUEST_TYPE # DELIMITER /\ "number" # DELIMITER
    BY UnixClientAssumption DEF STAR_REQUEST_TYPE, DELIMITER
  <1> HIDE DEF r
  <1>4. \A n \in 1 .. 5 : IsLine(r, n) => n = 3
    <2> SUFFICES ASSUME NEW n \in 1 .. 5, IsLine(r, n)
                 PROVE  n = 3
      OBVIOUS
    <2>1. r[n] = DELIMITER /\ \A j \in 1 .. n - 1 : r[j] # DELIMITER
      BY DEF IsLine
    <2>2. n # 1 /\ n # 2
      BY <1>2, <1>3, <2>1
    <2>3. ~(n > 3)
      BY <1>2, <2>1
    <2> QED BY <2>2, <2>3
  <1> QED BY <1>1, <1>2, <1>3, <1>4 DEF r

\* Every reply is one line that fits into the client's buffer.
LEMMA RepliesAreLines ==
    ASSUME NEW r, r = STAR_REPLY_SUCCESS \/ \E z \in Zodiac : r = Horoscope[z]
    PROVE  r \in Seq(Word) /\ OneLine(<<>>, r)
  <1>1. r \in Seq(Word)
    BY LineFacts
  <1>2. <<>> \o r = r
    BY <1>1, ConcatEmptySeq
  <1>3. IsLine(r, Len(r)) /\ Len(r) <= ASTROLOG_BUF_LEN
    <2>1. CASE r = STAR_REPLY_SUCCESS
      <3>1. /\ Len(STAR_REPLY_SUCCESS) = 2 /\ STAR_REPLY_SUCCESS[1] # DELIMITER
            /\ STAR_REPLY_SUCCESS[2] = DELIMITER
        BY DEF STAR_REPLY_SUCCESS, DELIMITER
      <3> QED BY <2>1, <3>1, NumberFacts DEF IsLine
    <2>2. CASE \E z \in Zodiac : r = Horoscope[z]
      BY <2>2, UnixClientAssumption
    <2> QED BY <2>1, <2>2
  <1>4. r # <<>>
    BY <1>3, EmptySeq DEF IsLine
  <1> QED BY <1>1, <1>2, <1>3, <1>4 DEF OneLine

\* A reply to a client that waits for it, everything it said having been read.
LEMMA ReplySent ==
    ASSUME NEW p, NEW s, Coupled(p, s), ~(mode = "star" /\ end = "proxy"),
           p.state = "RECV_REPLY", p.buf = <<>>, s.in = <<>>,
           NEW n \in 0 .. Len(s.out), n = Len(s.out),
           NEW r, r = STAR_REPLY_SUCCESS \/ \E z \in Zodiac : r = Horoscope[z]
    PROVE  Coupled(p, [s EXCEPT !.out = After(@, n), !.held = <<>>, !.in = @ \o r])
  <1> DEFINE t == [s EXCEPT !.out = After(@, n), !.held = <<>>, !.in = @ \o r]
  <1>1. r \in Seq(Word) /\ OneLine(<<>>, r)
    BY RepliesAreLines
  <1>2. /\ t \in Socket /\ t.out = After(s.out, n) /\ t.held = <<>> /\ t.in = s.in \o r
        /\ t.peer = s.peer
    <2>1. s \in Socket /\ <<>> \in Seq(Word)
      BY LineFacts DEF Coupled
    <2>2. s.in \in Seq(Word) /\ s.out \in Seq(Word)
      BY <2>1 DEF Socket
    <2>3. After(s.out, n) \in Seq(Word) /\ s.in \o r \in Seq(Word)
      BY <1>1, <2>2, CutFacts, ConcatProperties
    <2> QED BY <2>1, <2>3 DEF Socket
  <1>3. t.in = r
    BY <1>1, <1>2, ConcatEmptySeq
  <1>4. t.out = <<>>
    <2>1. s.out \in Seq(Word)
      BY DEF Coupled, Socket
    <2>2. After(s.out, n) \in Seq(Word) /\ Len(After(s.out, n)) = Len(s.out) - n
      BY <2>1, CutFacts
    <2>3. Len(s.out) \in Nat
      BY <2>1, LenProperties
    <2>4. Len(After(s.out, n)) = 0
      BY <2>2, <2>3
    <2> QED BY <1>2, <2>2, <2>4, EmptySeq
  <1>5. InStep(p, t)
    BY <1>1, <1>2, <1>3, <1>4 DEF InStep
  <1> QED BY <1>2, <1>5 DEF Coupled

\* The server answers when it has all that the client said, and all of it.
LEMMA ServeInv ==
    ASSUME ClientInv, NEW k \in Proc, Serve(k)
    PROVE  ClientInv'
  <1> DEFINE s == net[k]
             p == proc[k]
             out == net[k].out
  <1>1. /\ end = "server" /\ s.peer = "open" /\ Coupled(p, s) /\ InStep(p, s)
        /\ s.held = <<>> /\ out \in Seq(Word) /\ s \in Socket
    BY DEF Serve, ClientInv, Coupled, InStep, Socket
  <1>2. PICK n \in 1 .. Len(out) :
          /\ IsLine(out, n)
          /\ \/ /\ HasType(CLIENT_REQUEST_TYPE, out) /\ find_zodiac(out)
                /\ Peer(k, [s EXCEPT !.out = After(@, n), !.in = @ \o Horoscope[out[2]]])
             \/ /\ HasType(STAR_REQUEST_TYPE, out) /\ find_zodiac(out)
                /\ \E m \in 1 .. Len(out) - n :
                      /\ IsLine(After(out, n), m)
                      /\ Peer(k, [s EXCEPT !.out = After(@, n + m),
                                           !.in = @ \o STAR_REPLY_SUCCESS])
    BY DEF Serve
  <1>3. out # <<>> /\ Len(out) \in Nat
    <2>1. Len(out) \in Nat
      BY <1>1, LenProperties
    <2>2. Len(out) # 0
      <3>1. IsLine(out, n)
        BY <1>2, Zenon
      <3> QED BY <2>1, <3>1 DEF IsLine
    <2> QED BY <2>1, <2>2, LineFacts
  <1>4. p.state = "SEND_PROGNOSIS" => FALSE
    <2> SUFFICES ASSUME p.state = "SEND_PROGNOSIS"
                 PROVE  FALSE
      OBVIOUS
    <2>1. PICK z \in Zodiac : out = <<STAR_REQUEST_TYPE, z, DELIMITER>>
      BY <1>1 DEF InStep
    <2>2. Len(out) = 3 /\ out[1] = STAR_REQUEST_TYPE /\ out[2] = z
      BY <2>1
    <2>3. z # DELIMITER /\ STAR_REQUEST_TYPE # DELIMITER
          /\ STAR_REQUEST_TYPE # CLIENT_REQUEST_TYPE
      BY UnixClientAssumption DEF STAR_REQUEST_TYPE, DELIMITER, CLIENT_REQUEST_TYPE
    <2>4. n = 3
      <3>1. n \in 1 .. 3 /\ out[n] = DELIMITER
        BY <1>2, <2>2 DEF IsLine
      <3>2. n # 1 /\ n # 2
        BY <2>2, <2>3, <3>1
      <3> QED BY <3>1, <3>2
    <2>5. ~HasType(CLIENT_REQUEST_TYPE, out)
      BY <2>2, <2>3 DEF HasType
    <2> QED BY <1>2, <2>2, <2>4, <2>5
  <1>5. p.state = "RECV_REPLY" /\ p.buf = <<>> /\ s.in = <<>> /\ Asked(out)
    <2>1. s.held \o s.out = out
      BY <1>1, ConcatEmptySeq
    <2> QED BY <1>1, <1>3, <1>4, <2>1 DEF InStep
  <1>6. CASE mode = "star"
    <2>1. PICK z \in Zodiac : out = <<STAR_REQUEST_TYPE, z, DELIMITER, "number", DELIMITER>>
      BY <1>5, <1>6 DEF Asked
    <2>2. /\ Len(out) = 5 /\ out[1] = STAR_REQUEST_TYPE
          /\ \A j \in 1 .. 5 : IsLine(out, j) => j = 3
          /\ out[4] # DELIMITER /\ out[5] = DELIMITER
      BY <2>1, StarSaysTwoLines
    <2>3. n = 3
      BY <1>2, <2>2
    <2>4. ~HasType(CLIENT_REQUEST_TYPE, out)
      BY <2>2 DEF HasType, STAR_REQUEST_TYPE, CLIENT_REQUEST_TYPE
    <2>5. PICK m \in 1 .. 2 :
             /\ IsLine(After(out, 3), m)
             /\ Peer(k, [s EXCEPT !.out = After(@, 3 + m), !.in = @ \o STAR_REPLY_SUCCESS])
      BY <1>2, <2>2, <2>3, <2>4
    <2>6. m = 2
      <3>1. After(out, 3)[1] = out[4]
        <4>1. 3 \in 0 .. Len(out) /\ 1 \in 1 .. Len(out) - 3
          BY <2>2
        <4>2. After(out, 3)[1] = out[3 + 1]
          BY <1>1, <4>1, CutFacts
        <4> QED BY <4>2
      <3> QED BY <2>2, <2>5, <3>1 DEF IsLine
    <2>7. [s EXCEPT !.out = After(@, 5), !.in = @ \o STAR_REPLY_SUCCESS]
             = [s EXCEPT !.out = After(@, 5), !.held = <<>>, !.in = @ \o STAR_REPLY_SUCCESS]
      BY <1>1 DEF Socket
    <2>8. Coupled(p, [s EXCEPT !.out = After(@, 5), !.held = <<>>, !.in = @ \o STAR_REPLY_SUCCESS])
      <3>1. ~(mode = "star" /\ end = "proxy") /\ 5 \in 0 .. Len(s.out) /\ 5 = Len(s.out)
        BY <1>1, <2>2
      <3> QED BY <1>1, <1>5, <3>1, ReplySent
    <2>9. Peer(k, [s EXCEPT !.out = After(@, 5), !.in = @ \o STAR_REPLY_SUCCESS])
      BY <2>5, <2>6
    <2> QED BY <2>7, <2>8, <2>9, PeerInv
  <1>7. CASE mode # "star"
    <2>1. PICK z \in Zodiac : out = <<CLIENT_REQUEST_TYPE, z, DELIMITER>>
      BY <1>5, <1>7 DEF Asked
    <2>2. /\ Len(out) = 3 /\ out[1] = CLIENT_REQUEST_TYPE /\ out[2] = z
          /\ \A j \in 1 .. 3 : IsLine(out, j) => j = 3
      BY <2>1, RequestIsLine
    <2>3. n = 3
      BY <1>2, <2>2
    <2>4. ~HasType(STAR_REQUEST_TYPE, out)
      BY <2>2 DEF HasType, STAR_REQUEST_TYPE, CLIENT_REQUEST_TYPE
    <2>5. Peer(k, [s EXCEPT !.out = After(@, 3), !.in = @ \o Horoscope[z]])
      BY <1>2, <2>2, <2>3, <2>4
    <2>6. [s EXCEPT !.out = After(@, 3), !.in = @ \o Horoscope[z]]
             = [s EXCEPT !.out = After(@, 3), !.held = <<>>, !.in = @ \o Horoscope[z]]
      BY <1>1 DEF Socket
    <2>7. Coupled(p, [s EXCEPT !.out = After(@, 3), !.held = <<>>, !.in = @ \o Horoscope[z]])
      <3>1. ~(mode = "star" /\ end = "proxy") /\ 3 \in 0 .. Len(s.out) /\ 3 = Len(s.out)
        BY <1>1, <2>2
      <3> QED BY <1>1, <1>5, <3>1, ReplySent
    <2> QED BY <2>5, <2>6, <2>7, PeerInv
  <1> QED BY <1>6, <1>7

\* The other end goes, and what was on its way to it is lost.
LEMMA ClosedInv ==
    ASSUME ClientInv, NEW k \in Proc, net[k].peer = "open",
           NEW q \in {"fin", "rst"}, Peer(k, Closed(k, q))
    PROVE  ClientInv'
  <1> DEFINE s == Closed(k, q)
  <1>1. Coupled(proc[k], net[k])
    BY DEF ClientInv
  <1>2. s \in Socket /\ s.out = <<>> /\ s.held = <<>> /\ s.peer # "open"
    BY <1>1, LineFacts DEF Coupled, Closed, Socket
  <1>3. Lacks(s.held, CLIENT_REQUEST_TYPE) /\ Lacks(s.out, CLIENT_REQUEST_TYPE)
    BY <1>2, LineFacts DEF Lacks
  <1>4. proc[k].state \notin {"NEW", "CONNECT", "DEAD"}
    BY <1>1 DEF Coupled, NoSocket
  <1>5. Coupled(proc[k], s)
    BY <1>1, <1>2, <1>3, <1>4 DEF Coupled
  <1> QED BY <1>5, PeerInv

\* A proxy reads the request as it comes, and answers when it is whole.
LEMMA FilterInv ==
    ASSUME ClientInv, NEW k \in Proc, Filter(k)
    PROVE  ClientInv'
  <1> DEFINE s == net[k]
             p == proc[k]
  <1>1. /\ end = "proxy" /\ s.peer = "open" /\ Coupled(p, s)
        /\ s.out \in Seq(Word) /\ s.held \in Seq(Word) /\ s.in \in Seq(Word) /\ s \in Socket
    BY DEF Filter, ClientInv, Coupled, Socket
  <1>2. PICK n \in 1 .. MIN(Len(s.out), ASTROLOG_BUF_LEN - Len(s.held)) :
          LET chunk == First(s.out, n)
              held == s.held \o chunk
              read == [s EXCEPT !.out = After(@, n), !.held = held]
              reply == IF HasType(CLIENT_REQUEST_TYPE, held) THEN Horoscope[held[2]]
                       ELSE STAR_REPLY_FAILURE IN
          CASE recv_line(s.held, chunk, ASTROLOG_BUF_LEN) = "more" -> Peer(k, read)
            [] recv_line(s.held, chunk, ASTROLOG_BUF_LEN) = "line" ->
                  Peer(k, [read EXCEPT !.held = <<>>, !.in = @ \o reply])
            [] OTHER -> \E q \in {"fin", "rst"} : Peer(k, Closed(k, q))
    BY DEF Filter
  <1> DEFINE chunk == First(s.out, n)
             held == s.held \o chunk
             got == recv_line(s.held, chunk, ASTROLOG_BUF_LEN)
             reply == IF HasType(CLIENT_REQUEST_TYPE, held) THEN Horoscope[held[2]]
                      ELSE STAR_REPLY_FAILURE
             read == [s EXCEPT !.out = After(@, n), !.held = held]
             done == [s EXCEPT !.out = After(@, n), !.held = <<>>, !.in = @ \o reply]
  <1>3. /\ Len(s.out) \in Nat /\ Len(s.held) \in Nat
        /\ n \in 1 .. Len(s.out) /\ n \in 0 .. Len(s.out)
    <2>1. Len(s.out) \in Nat /\ Len(s.held) \in Nat
      BY <1>1, LenProperties
    <2>2. n \in 1 .. MIN(Len(s.out), ASTROLOG_BUF_LEN - Len(s.held))
      OBVIOUS
    <2> QED BY <2>1, <2>2, NumberFacts DEF MIN
  <1>4. /\ chunk \in Seq(Word) /\ Len(chunk) = n
        /\ After(s.out, n) \in Seq(Word) /\ Len(After(s.out, n)) = Len(s.out) - n
    <2>1. s.out \in Seq(Word) /\ n \in 0 .. Len(s.out)
      BY <1>1, <1>3
    <2> HIDE DEF s
    <2> QED BY <2>1, CutFacts DEF chunk
  <1>5. held \in Seq(Word)
    BY <1>1, <1>4, ConcatProperties
  <1>6. /\ read \in Socket /\ read.out = After(s.out, n) /\ read.held = held
        /\ read.in = s.in /\ read.peer = s.peer
    BY <1>1, <1>4, <1>5 DEF Socket
  <1>7. [read EXCEPT !.held = <<>>, !.in = @ \o reply] = done
    BY <1>1, <1>6 DEF Socket
  <1>8. p.state \notin {"NEW", "CONNECT", "DEAD"}
    BY <1>1 DEF Coupled, NoSocket
  <1>9. got # "more" /\ got # "line" => ClientInv'
    <2> SUFFICES ASSUME got # "more" /\ got # "line"
                 PROVE  ClientInv'
      OBVIOUS
    <2>1. \E q \in {"fin", "rst"} : Peer(k, Closed(k, q))
      BY <1>2
    <2> QED BY <1>1, <2>1, ClosedInv
  <1>10. got = "more" => Peer(k, read)
    BY <1>2
  <1>11. got = "line" => Peer(k, done)
    <2> SUFFICES ASSUME got = "line"
                 PROVE  Peer(k, done)
      OBVIOUS
    <2>1. Peer(k, [read EXCEPT !.held = <<>>, !.in = @ \o reply])
      BY <1>2
    <2> QED BY <1>7, <2>1
  <1>12. CASE mode = "star"
    <2>1. Lacks(s.held, CLIENT_REQUEST_TYPE) /\ Lacks(s.out, CLIENT_REQUEST_TYPE)
      BY <1>1, <1>12 DEF Coupled
    <2>2. Lacks(chunk, CLIENT_REQUEST_TYPE) /\ Lacks(After(s.out, n), CLIENT_REQUEST_TYPE)
      BY <1>1, <1>3, <2>1, LacksCut
    <2>3. Lacks(held, CLIENT_REQUEST_TYPE)
      BY <1>1, <1>4, <2>1, <2>2, LacksConcat
    <2>4. CASE got = "more"
      <3>1. Coupled(p, read)
        BY <1>1, <1>6, <1>8, <1>12, <2>2, <2>3 DEF Coupled
      <3> QED BY <1>10, <2>4, <3>1, PeerInv
    <2>5. CASE got = "line"
      <3>1. ~HasType(CLIENT_REQUEST_TYPE, held)
        <4>1. Len(held) \in Nat
          BY <1>5, LenProperties
        <4> HIDE DEF held
        <4> QED BY <2>3, <4>1 DEF HasType, Lacks
      <3>2. reply \in Seq(Word)
        BY <3>1, LineFacts
      <3>3. s.in \o reply \in Seq(Word)
        BY <1>1, <3>2, ConcatProperties
      <3>4. done \in Socket /\ done.out = After(s.out, n) /\ done.held = <<>>
        BY <1>1, <1>4, <3>3, LineFacts DEF Socket
      <3>5. Lacks(<<>>, CLIENT_REQUEST_TYPE)
        BY LineFacts DEF Lacks
      <3>6. Coupled(p, done)
        BY <1>1, <1>8, <1>12, <2>2, <3>4, <3>5 DEF Coupled
      <3> QED BY <1>11, <2>5, <3>6, PeerInv
    <2> QED BY <1>9, <2>4, <2>5
  <1>13. CASE mode # "star"
    <2>1. InStep(p, s) /\ s.out # <<>>
      <3>1. s.out # <<>>
        BY <1>3, LineFacts
      <3> QED BY <1>1, <1>13, <3>1 DEF Coupled
    <2>2. p.state = "RECV_REPLY" /\ p.buf = <<>> /\ s.in = <<>> /\ Asked(s.held \o s.out)
      BY <1>1, <1>13, <2>1 DEF InStep, Coupled
    <2>3. PICK z \in Zodiac : s.held \o s.out = <<CLIENT_REQUEST_TYPE, z, DELIMITER>>
      BY <1>13, <2>2 DEF Asked
    <2>4. /\ Len(s.held \o s.out) = 3 /\ IsLine(s.held \o s.out, 3)
          /\ (s.held \o s.out)[1] = CLIENT_REQUEST_TYPE /\ (s.held \o s.out)[2] = z
      BY <2>3, RequestIsLine
    <2>5. OneLine(s.held, s.out)
      BY <2>1, <2>4, NumberFacts DEF OneLine
    <2>6. got = IF n < Len(s.out) THEN "more" ELSE "line"
      BY <1>1, <1>3, <2>5, RecvLineFacts
    <2>7. held \o After(s.out, n) = s.held \o s.out
      BY <1>1, <1>3, Recut
    <2>8. CASE n < Len(s.out)
      <3>1. After(s.out, n) # <<>>
        BY <1>3, <1>4, <2>8, LineFacts
      <3>2. Asked(read.held \o read.out)
        BY <1>6, <2>2, <2>7
      <3>3. InStep(p, read)
        BY <1>1, <1>6, <2>2, <3>1, <3>2 DEF InStep
      <3>4. Coupled(p, read)
        BY <1>1, <1>6, <1>13, <2>2, <3>3 DEF Coupled
      <3> QED BY <1>10, <2>6, <2>8, <3>4, PeerInv
    <2>9. CASE n = Len(s.out)
      <3>1. Len(After(s.out, n)) = 0
        BY <1>3, <1>4, <2>9
      <3>2. After(s.out, n) = <<>>
        BY <1>4, <3>1, EmptySeq
      <3>3. held = s.held \o s.out
        <4>1. held \o <<>> = held
          BY <1>5, ConcatEmptySeq
        <4> QED BY <2>7, <3>2, <4>1
      <3>4. HasType(CLIENT_REQUEST_TYPE, held) /\ held[2] = z
        <4> HIDE DEF held
        <4>1. Len(held) = 3 /\ held[1] = CLIENT_REQUEST_TYPE /\ held[2] = z
          BY <2>4, <3>3
        <4> QED BY <4>1 DEF HasType
      <3>5. reply = Horoscope[z]
        BY <3>4
      <3>6. Coupled(p, done)
        BY <1>1, <1>3, <1>13, <2>2, <2>9, <3>5, ReplySent
      <3>7. got = "line"
        BY <1>3, <2>6, <2>9
      <3> QED BY <1>11, <3>6, <3>7, PeerInv
    <2> QED BY <1>3, <2>8, <2>9
  <1> QED BY <1>12, <1>13

-----------------------------------------------------------------------------
\* What does not concern the processes leaves them as they were.
LEMMA NoProcStep ==
    ASSUME ClientInv, UNCHANGED <<mode, end, proc, net>>
    PROVE  \A k \in Proc : Coupled(proc[k], net[k])'
  <1> SUFFICES ASSUME NEW k \in Proc
               PROVE  Coupled(proc[k], net[k])'
    OBVIOUS
  <1>1. Coupled(proc[k], net[k])
    BY DEF ClientInv
  <1> QED BY <1>1 DEF Coupled, InStep, Asked, Rounds

\* What the parent's steps leave of the processes and their connections.
LEMMA ParentStep ==
    ASSUME ClientInv, UNCHANGED <<mode, end>>,
           NEW j \in Proc, NEW p, Coupled(p, NoSocket),
           \/ proc' = [proc EXCEPT ![j] = p] /\ net' = [net EXCEPT ![j] = NoSocket]
           \/ UNCHANGED <<proc, net>>
    PROVE  /\ proc' \in [Proc -> Process] /\ net' \in [Proc -> Socket]
           /\ \A k \in Proc : Coupled(proc[k], net[k])'
  <1>1. /\ proc \in [Proc -> Process] /\ net \in [Proc -> Socket]
        /\ p \in Process /\ NoSocket \in Socket
        /\ \A k \in Proc : Coupled(proc[k], net[k])
    BY DEF ClientInv, Coupled
  <1>2. CASE UNCHANGED <<proc, net>>
    BY <1>1, <1>2, NoProcStep
  <1>3. CASE proc' = [proc EXCEPT ![j] = p] /\ net' = [net EXCEPT ![j] = NoSocket]
    <2>1. proc' \in [Proc -> Process] /\ net' \in [Proc -> Socket]
      BY <1>1, <1>3
    <2>2. ASSUME NEW k \in Proc
          PROVE  Coupled(proc[k], net[k])'
      <3>1. Coupled(IF k = j THEN p ELSE proc[k], IF k = j THEN NoSocket ELSE net[k])
        BY <1>1
      <3>2. /\ proc'[k] = IF k = j THEN p ELSE proc[k]
            /\ net'[k] = IF k = j THEN NoSocket ELSE net[k]
        BY <1>1, <1>3
      <3> QED BY <3>1, <3>2 DEF Coupled, InStep, Asked, Rounds
    <2> QED BY <2>1, <2>2
  <1> QED BY <1>2, <1>3

\* fork: the child is the next of the array, and was not there before.
LEMMA ForkInv == ClientInv /\ Fork => ClientInv'
  <1> SUFFICES ASSUME ClientInv, Fork
               PROVE  ClientInv'
    OBVIOUS
  <1> DEFINE p == [NoProcess EXCEPT !.state = "CONNECT"]
  <1>1. /\ parent = "fork" /\ i \in Nat /\ i < CLIENT_CON_NUM /\ i' = i + 1
        /\ i + 1 \in Proc /\ CLIENT_CON_NUM \in Nat
        /\ proc' = [proc EXCEPT ![i + 1] = p] /\ net' = net
        /\ UNCHANGED <<mode, end, parent, forked>>
    BY NumberFacts DEF ClientInv, Fork, Proc
  <1>2. In(i + 1, "NEW") /\ net[i + 1] = NoSocket
    <2>1. In(i + 1, "NEW")
      BY <1>1 DEF ClientInv, Family
    <2> QED BY <1>1, <2>1 DEF ClientInv, Coupled, In
  <1>3. net' = [net EXCEPT ![i + 1] = NoSocket]
    BY <1>1, <1>2 DEF ClientInv
  <1>4. /\ proc' \in [Proc -> Process] /\ net' \in [Proc -> Socket]
        /\ \A k \in Proc : Coupled(proc[k], net[k])'
    BY <1>1, <1>3, NewFacts, ParentStep
  <1>5. \A k \in Proc : k > i + 1 => proc'[k] = proc[k] /\ k > i
    BY <1>1 DEF ClientInv, Proc
  <1>6. Family' /\ NoOrphans'
    BY <1>1, <1>5 DEF ClientInv, Family, NoOrphans, In
  <1>7. i' \in 0 .. CLIENT_CON_NUM
    BY <1>1
  <1> QED BY <1>1, <1>4, <1>6, <1>7 DEF ClientInv

\* The parent begins to kill the children, all of them or those there are.
LEMMA ToKillInv == ClientInv /\ (ForkFailed \/ WaitChild) => ClientInv'
  <1> SUFFICES ASSUME ClientInv, ForkFailed \/ WaitChild
               PROVE  ClientInv'
    OBVIOUS
  <1>1. /\ parent = "fork" /\ parent' = "kill" /\ forked' = i /\ i' = 0
        /\ UNCHANGED <<mode, end, proc, net>> /\ i \in 0 .. CLIENT_CON_NUM
        /\ CLIENT_CON_NUM \in Nat
    BY NumberFacts DEF ClientInv, ForkFailed, WaitChild, ToKill
  <1>2. \A k \in Proc : Coupled(proc[k], net[k])'
    BY <1>1, NoProcStep
  <1>3. \A k \in Proc : ~(k <= 0)
    BY <1>1 DEF Proc
  <1>4. Family' /\ NoOrphans'
    BY <1>1, <1>3 DEF ClientInv, Family, NoOrphans, In
  <1>5. i' \in 0 .. CLIENT_CON_NUM /\ forked' \in 0 .. CLIENT_CON_NUM
    BY <1>1
  <1> QED BY <1>1, <1>2, <1>4, <1>5 DEF ClientInv

\* One more child is killed, or all are.
LEMMA KillInv == ClientInv /\ kill_children_procs => ClientInv'
  <1> SUFFICES ASSUME ClientInv, kill_children_procs
               PROVE  ClientInv'
    OBVIOUS
  <1>1. /\ parent = "kill" /\ UNCHANGED <<mode, end, forked>> /\ CLIENT_CON_NUM \in Nat
        /\ i \in 0 .. CLIENT_CON_NUM /\ forked \in 0 .. CLIENT_CON_NUM /\ i <= forked
        /\ \A k \in Proc : (k > forked => In(k, "NEW")) /\ (k <= i => In(k, "DEAD"))
    BY NumberFacts DEF ClientInv, Family, kill_children_procs
  <1>2. CASE i < forked
    <2> DEFINE j == i + 1
               p == IF In(i + 1, "DEAD") THEN proc[i + 1] ELSE Dead("SIGTERM")
    <2>1. /\ proc' = [proc EXCEPT ![j] = p] /\ net' = [net EXCEPT ![j] = NoSocket]
          /\ i' = i + 1 /\ parent' = parent /\ j \in Proc /\ i' <= forked
      BY <1>1, <1>2 DEF kill_children_procs, Proc
    <2>2. Coupled(p, NoSocket) /\ p.state = "DEAD"
      <3>1. CASE In(j, "DEAD")
        BY <2>1, <3>1 DEF ClientInv, Coupled, In
      <3>2. CASE ~In(j, "DEAD")
        BY <3>2, DeadFacts DEF Dead
      <3> QED BY <3>1, <3>2
    <2>3. /\ proc' \in [Proc -> Process] /\ net' \in [Proc -> Socket]
          /\ \A k \in Proc : Coupled(proc[k], net[k])'
      BY <1>1, <2>1, <2>2, ParentStep
    <2>4. proc'[j].state = "DEAD" /\ \A k \in Proc : k # j => proc'[k] = proc[k]
      BY <2>1, <2>2 DEF ClientInv
    <2>5. ASSUME NEW k \in Proc
          PROVE  (k > forked' => In(k, "NEW")') /\ (k <= i' => In(k, "DEAD")')
      <3>1. k \in Nat /\ (k > forked => k # j) /\ (k <= i' /\ k # j => k <= i)
        BY <1>1, <1>2, <2>1 DEF Proc
      <3> QED BY <1>1, <2>1, <2>4, <3>1 DEF In
    <2>6. Family' /\ NoOrphans'
      BY <1>1, <2>1, <2>5 DEF ClientInv, Family, NoOrphans
    <2>7. i' \in 0 .. CLIENT_CON_NUM
      BY <1>1, <2>1
    <2> QED BY <1>1, <2>1, <2>3, <2>6, <2>7 DEF ClientInv
  <1>3. CASE ~(i < forked)
    <2>1. parent' = "exit" /\ UNCHANGED <<i, proc, net>> /\ i = forked
      BY <1>1, <1>3 DEF kill_children_procs
    <2>2. \A k \in Proc : Coupled(proc[k], net[k])'
      BY <1>1, <2>1, NoProcStep
    <2>3. \A k \in Proc : k <= forked \/ k > forked
      BY <1>1 DEF Proc
    <2>4. Family' /\ NoOrphans'
      BY <1>1, <2>1, <2>3 DEF ClientInv, Family, NoOrphans, In
    <2> QED BY <1>1, <2>1, <2>2, <2>4 DEF ClientInv
  <1> QED BY <1>2, <1>3

-----------------------------------------------------------------------------
\* The invariant holds at the start.
LEMMA InitInv == Init => ClientInv
  <1> SUFFICES ASSUME Init
               PROVE  ClientInv
    OBVIOUS
  <1>1. \A k \in Proc : /\ net[k] = NoSocket
                        /\ \/ proc[k] = NoProcess
                           \/ mode # "harmful" /\ proc[k] = [NoProcess EXCEPT !.state = "CONNECT"]
    BY DEF Init
  <1>2. \A k \in Proc : Coupled(proc[k], net[k])
    BY <1>1, NewFacts
  <1>3. \A k \in Proc : proc[k] \in Process /\ net[k] \in Socket
    BY <1>2 DEF Coupled
  <1>4. proc \in [Proc -> Process] /\ net \in [Proc -> Socket]
    BY <1>3 DEF Init
  <1>5. mode = "harmful" => \A k \in Proc : In(k, "NEW")
    BY <1>1 DEF In, NoProcess
  <1>6. /\ mode \in Modes /\ end \in Ends /\ i = 0 /\ forked = 0
        /\ parent = IF mode = "harmful" THEN "fork" ELSE "none"
    BY DEF Init
  <1>7. Family /\ NoOrphans
    BY <1>5, <1>6 DEF Family, NoOrphans
  <1>8. i \in 0 .. CLIENT_CON_NUM /\ forked \in 0 .. CLIENT_CON_NUM
    BY <1>6, NumberFacts
  <1> QED BY <1>2, <1>4, <1>6, <1>7, <1>8 DEF ClientInv

\* Every step keeps it.
LEMMA NextInv == ClientInv /\ [Next]_vars => ClientInv'
  <1> SUFFICES ASSUME ClientInv, [Next]_vars
               PROVE  ClientInv'
    OBVIOUS
  <1>1. CASE harmful_client
    BY <1>1, ForkInv, ToKillInv, KillInv DEF harmful_client
  <1>2. ASSUME NEW k \in Proc, client(k)
        PROVE  ClientInv'
    BY <1>2, ConnectInv, SendRequestInv, SendPrognosisInv, RecvReplyInv, WakeInv DEF client
  <1>3. ASSUME NEW k \in Proc, Serve(k) \/ Filter(k) \/ PeerEnds(k)
        PROVE  ClientInv'
    BY <1>3, ServeInv, FilterInv, ClosedInv DEF PeerEnds
  <1>4. CASE UNCHANGED vars
    <2>1. \A k \in Proc : Coupled(proc[k], net[k])'
      BY <1>4, NoProcStep DEF vars
    <2> QED BY <1>4, <2>1 DEF vars, ClientInv, Family, NoOrphans, In
  <1> QED BY <1>1, <1>2, <1>3, <1>4 DEF Next, Ended

\* ClientInv holds in every reachable state.
THEOREM ClientInvariant == Spec => []ClientInv
  BY InitInv, NextInv, PTL DEF Spec

\* No loop of harmful_client leaves the array of pids, and recv_line never writes
\* past the end of buf, whatever the other end sends and wherever it is cut.
THEOREM TypeCorrect == Spec => []TypeOK
  <1>1. ClientInv => TypeOK
    BY DEF ClientInv, TypeOK, Coupled
  <1> QED BY <1>1, ClientInvariant, PTL

\* When the harmful client exits every child that it ever forked has ended, for
\* every number of children and wherever in the loop a fork failed.
THEOREM NoChildLeftBehind == Spec => []NoOrphans
  <1>1. ClientInv => NoOrphans
    BY DEF ClientInv
  <1> QED BY <1>1, ClientInvariant, PTL

-----------------------------------------------------------------------------
\* A process that waits for its reply over a connection that is up and has
\* received a part of it does not fail.
LEMMA ReceivesInStep ==
    ASSUME ClientInv, NEW k \in Proc, RecvReply(k), ~(mode = "star" /\ end = "proxy"),
           net[k].peer = "open"
    PROVE  proc'[k].code # "EXIT_FAILURE"
  <1>1. In(k, "RECV_REPLY") /\ Coupled(proc[k], net[k]) /\ proc[k] \in Process
        /\ proc \in [Proc -> Process] /\ proc[k].code = "none"
    BY DEF RecvReply, ClientInv, Coupled, In
  <1>2. PICK n \in 1 .. RecvSize(k) :
               LET chunk == First(net[k].in, n)
                   p == [proc[k] EXCEPT !.buf = @ \o chunk]
                   socket == [net[k] EXCEPT !.in = After(@, n)]
                   done == IF mode = "harmful" THEN [p EXCEPT !.state = "SLEEP", !.buf = <<>>]
                           ELSE NextRound([p EXCEPT !.buf = <<>>]) IN
               CASE recv_line(proc[k].buf, chunk, ASTROLOG_BUF_LEN) = "more" -> Become(k, p, socket)
                 [] recv_line(proc[k].buf, chunk, ASTROLOG_BUF_LEN) = "error" ->
                       Die(k, "EXIT_FAILURE")
                 [] OTHER -> Become(k, done, IF done.state = "DEAD" THEN NoSocket ELSE socket)
    BY DEF RecvReply
  <1> DEFINE chunk == First(net[k].in, n)
             p == [proc[k] EXCEPT !.buf = @ \o chunk]
             s == [net[k] EXCEPT !.in = After(@, n)]
             got == recv_line(proc[k].buf, chunk, ASTROLOG_BUF_LEN)
             done == IF mode = "harmful" THEN [p EXCEPT !.state = "SLEEP", !.buf = <<>>]
                     ELSE NextRound([p EXCEPT !.buf = <<>>])
  <1>3. /\ net[k].in \in Seq(Word) /\ proc[k].buf \in Seq(Word) /\ n \in 1 .. Len(net[k].in)
    BY RecvSizeFacts
  <1>4. net[k].in # <<>>
    BY <1>3, LineFacts
  <1>5. OneLine(proc[k].buf, net[k].in)
    BY <1>1, <1>4, ReplyFacts
  <1>6. got = "more" \/ got = "line"
    BY <1>3, <1>5, RecvLineFacts
  <1>7. /\ p.code = "none" /\ [p EXCEPT !.state = "SLEEP", !.buf = <<>>].code = "none"
        /\ [p EXCEPT !.buf = <<>>].code = "none"
    BY <1>1 DEF Process
  <1>8. done.code # "EXIT_FAILURE"
    <2>1. ASSUME NEW q \in Process, q.code = "none"
          PROVE  NextRound(q).code # "EXIT_FAILURE"
      BY <2>1 DEF NextRound, Dead, Process
    <2>2. [p EXCEPT !.buf = <<>>] \in Process
      BY <1>1, LineFacts DEF Process
    <2> QED BY <1>7, <2>1, <2>2
  <1>9. CASE got = "more"
    <2>1. Become(k, p, s)
      BY <1>2, <1>9
    <2>2. proc'[k] = p
      BY <1>1, <2>1 DEF Become
    <2> QED BY <1>7, <2>2
  <1>10. CASE got = "line"
    <2>1. Become(k, done, IF done.state = "DEAD" THEN NoSocket ELSE s)
      BY <1>2, <1>10
    <2>2. proc'[k] = done
      BY <1>1, <2>1 DEF Become
    <2> QED BY <1>8, <2>2
  <1> QED BY <1>6, <1>9, <1>10

\* No client fails to read a reply over a connection that stays up: client and
\* server, or proxy, are in step for every number of signs and rounds, every
\* length of the replies that fit into the buffer, and every way to cut them.
THEOREM AlwaysInStep == Spec => RepliesInStep
  <1> DEFINE Step == \A k \in Proc :
                ~(mode = "star" /\ end = "proxy") /\ In(k, "RECV_REPLY") /\ net[k].peer = "open" =>
                    proc'[k].code # "EXIT_FAILURE"
  <1>1. ClientInv /\ [Next]_vars => [Step]_vars
    <2> SUFFICES ASSUME ClientInv, Next, NEW k \in Proc, ~(mode = "star" /\ end = "proxy"),
                        In(k, "RECV_REPLY"), net[k].peer = "open"
                 PROVE  proc'[k].code # "EXIT_FAILURE"
      OBVIOUS
    <2>1. proc \in [Proc -> Process] /\ proc[k].code = "none"
      BY DEF ClientInv, Coupled, In
    <2>2. ASSUME proc'[k] = proc[k]
          PROVE  proc'[k].code # "EXIT_FAILURE"
      BY <2>1, <2>2
    <2>3. CASE Fork
      <3>1. proc' = [proc EXCEPT ![i + 1] = [NoProcess EXCEPT !.state = "CONNECT"]]
        BY <2>3 DEF Fork
      <3>2. [NoProcess EXCEPT !.state = "CONNECT"].code = "none"
        BY DEF NoProcess
      <3> HIDE DEF NoProcess
      <3> QED BY <2>1, <3>1, <3>2
    <2>4. CASE ForkFailed \/ WaitChild
      BY <2>2, <2>4 DEF ForkFailed, WaitChild, ToKill
    <2>5. CASE kill_children_procs
      <3>1. CASE proc' = proc
        BY <2>2, <3>1
      <3>2. CASE proc' = [proc EXCEPT ![i + 1] = IF In(i + 1, "DEAD") THEN @ ELSE Dead("SIGTERM")]
        <4>1. proc'[k] = proc[k] \/ proc'[k] = Dead("SIGTERM")
          BY <2>1, <3>2
        <4> QED BY <2>2, <4>1 DEF Dead
      <3> QED BY <2>5, <3>1, <3>2 DEF kill_children_procs
    <2>6. ASSUME NEW j \in Proc, j # k, NEW p, NEW s, Become(j, p, s)
          PROVE  proc'[k].code # "EXIT_FAILURE"
      BY <2>1, <2>2, <2>6 DEF Become
    <2>7. ASSUME NEW j \in Proc, client(j)
          PROVE  proc'[k].code # "EXIT_FAILURE"
      <3>1. CASE j = k
        <4>1. RecvReply(k)
          BY <2>7, <3>1 DEF client, connect, SendRequest, SendPrognosis, Wake, In
        <4> QED BY <4>1, ReceivesInStep
      <3>2. CASE j # k
        <4>1. \E p, s : Become(j, p, s)
          BY <2>7 DEF client, connect, SendRequest, SendPrognosis, send_all, RecvReply, Wake,
                      Goto, Die
        <4> QED BY <2>6, <3>2, <4>1
      <3> QED BY <3>1, <3>2
    <2>8. ASSUME NEW j \in Proc, Serve(j) \/ Filter(j) \/ PeerEnds(j)
          PROVE  proc'[k].code # "EXIT_FAILURE"
      <3>1. proc' = proc
        BY <2>8 DEF Serve, Filter, PeerEnds, Peer
      <3> QED BY <2>2, <3>1
    <2>9. CASE Ended
      BY <2>2, <2>9 DEF Ended, vars
    <2> QED BY <2>3, <2>4, <2>5, <2>7, <2>8, <2>9 DEF Next, harmful_client
  <1> QED BY <1>1, ClientInvariant, PTL DEF Spec, RepliesInStep

=============================================================================
