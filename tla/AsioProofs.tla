------------------------------ MODULE AsioProofs ------------------------------
(***************************************************************************)
(* What the programs of boost_asio may rely on, whatever their handlers    *)
(* do: facts about the queue of ready handlers and about stream buffers.   *)
(***************************************************************************)
EXTENDS Asio, SequenceTheorems, FiniteSetTheorems, WellFoundedInduction, TLAPS

\* Membership and distinctness, for queues of handlers and of clients.
Holds(q, h) == \E i \in 1 .. Len(q) : q[i] = h

Distinct(q) == \A i, j \in 1 .. Len(q) : q[i] = q[j] => i = j

\* The operation or the wait is over, and its handler is yet to be called.
Over(ec) == ec \notin {"none", "pending"}

\* The queue holds the handlers of c exactly while they are to be called.
InStep(c) ==
    /\ Holds(queue, <<"io", c>>) <=> Over(conn[c].ec)
    /\ Holds(queue, <<"deadline", c>>) <=> Over(conn[c].wait)

\* An object that is open has something outstanding to keep it alive.
Kept(s) ==
    /\ s.open => s.op # "none" /\ s.wait # "none"
    /\ ~s.open => s.ec # "pending" /\ s.wait # "pending"
    /\ s.op = "none" <=> s.ec = "none"

-----------------------------------------------------------------------------
\* What becomes unused has no operation outstanding.
LEMMA KeptReleased ==
    ASSUME NEW s, Kept(s)
    PROVE  Released(s) => s.ec = "none"
  BY DEF Kept, Released

\* In a queue without duplicates a handler is counted once or not at all.
LEMMA TimesOnce ==
    ASSUME NEW S, queue \in Seq(S), Distinct(queue), NEW h, NEW ec,
           Holds(queue, h) <=> Over(ec)
    PROVE  Times(h) = Queued(ec)
  <1> DEFINE T == {i \in 1 .. Len(queue) : queue[i] = h}
  <1>1. CASE Holds(queue, h)
    <2>1. PICK i \in 1 .. Len(queue) : queue[i] = h
      BY <1>1 DEF Holds
    <2>2. T = {i}
      BY <2>1 DEF Distinct
    <2>3. Cardinality(T) = 1
      BY <2>2, FS_Singleton
    <2> QED BY <1>1, <2>3 DEF Times, Queued, Over
  <1>2. CASE ~Holds(queue, h)
    <2>1. T = {}
      BY <1>2 DEF Holds
    <2>2. Cardinality(T) = 0
      BY <2>1, FS_EmptySet
    <2> QED BY <1>2, <2>2 DEF Times, Queued, Over
  <1> QED BY <1>1, <1>2

\* What the programs promise about their objects, from the invariant by parts.
LEMMA ObjectsAreKept ==
    ASSUME NEW S, queue \in Seq(S), Distinct(queue),
           \A c \in Conn : InStep(c) /\ Kept(conn[c])
    PROVE  ObjectsKept
  <1> SUFFICES ASSUME NEW c \in Conn
               PROVE  /\ conn[c].open => conn[c].op # "none" /\ conn[c].wait # "none"
                      /\ ~conn[c].open => conn[c].ec # "pending" /\ conn[c].wait # "pending"
                      /\ conn[c].op = "none" <=> conn[c].ec = "none"
                      /\ Times(<<"io", c>>) = Queued(conn[c].ec)
                      /\ Times(<<"deadline", c>>) = Queued(conn[c].wait)
    BY DEF ObjectsKept
  <1>1. InStep(c) /\ Kept(conn[c])
    OBVIOUS
  <1>2. Times(<<"io", c>>) = Queued(conn[c].ec)
    BY <1>1, TimesOnce DEF InStep
  <1>3. Times(<<"deadline", c>>) = Queued(conn[c].wait)
    BY <1>1, TimesOnce DEF InStep
  <1> QED BY <1>1, <1>2, <1>3 DEF Kept

\* The thread takes a handler out of the queue.
LEMMA Popped ==
    ASSUME NEW S, NEW q \in Seq(S), q # <<>>, Distinct(q)
    PROVE  /\ Tail(q) \in Seq(S) /\ Distinct(Tail(q)) /\ Head(q) \in S
           /\ Holds(q, Head(q))
           /\ \A h : Holds(Tail(q), h) <=> Holds(q, h) /\ h # Head(q)
  <1> DEFINE r == Tail(q)
  <1>1. /\ r \in Seq(S) /\ Len(r) = Len(q) - 1 /\ Head(q) \in S
        /\ Len(q) \in Nat \ {0}
        /\ \A i \in 1 .. Len(r) : r[i] = q[i + 1]
    BY HeadTailProperties, EmptySeq
  <1>2. Head(q) = q[1]
    OBVIOUS
  <1> HIDE DEF r
  <1>3. \A i \in 1 .. Len(r) : i + 1 \in 1 .. Len(q)
    BY <1>1
  <1>4. Distinct(r)
    BY <1>1, <1>3 DEF Distinct
  <1>5. Holds(q, Head(q))
    BY <1>1, <1>2 DEF Holds
  <1>6. ASSUME NEW h
        PROVE  Holds(r, h) <=> Holds(q, h) /\ h # Head(q)
    <2>1. ASSUME Holds(r, h)
          PROVE  Holds(q, h) /\ h # Head(q)
      <3>1. PICK i \in 1 .. Len(r) : r[i] = h
        BY <2>1 DEF Holds
      <3>2. i + 1 \in 1 .. Len(q) /\ q[i + 1] = h /\ 1 \in 1 .. Len(q) /\ i + 1 # 1
        BY <1>1, <1>3, <3>1
      <3> QED BY <1>2, <3>2 DEF Holds, Distinct
    <2>2. ASSUME Holds(q, h), h # Head(q)
          PROVE  Holds(r, h)
      <3>1. PICK i \in 1 .. Len(q) : q[i] = h
        BY <2>2 DEF Holds
      <3>2. i # 1
        BY <1>2, <2>2, <3>1
      <3>3. i - 1 \in 1 .. Len(r) /\ (i - 1) + 1 = i
        BY <1>1, <3>2
      <3>4. r[i - 1] = h
        BY <1>1, <3>1, <3>3
      <3> QED BY <3>3, <3>4 DEF Holds
    <2> QED BY <2>1, <2>2
  <1> QED BY <1>1, <1>4, <1>5, <1>6 DEF r

\* A handler that the queue does not hold goes behind the others.
LEMMA Pushed ==
    ASSUME NEW S, NEW q \in Seq(S), Distinct(q), NEW e \in S, ~Holds(q, e)
    PROVE  /\ Append(q, e) \in Seq(S) /\ Distinct(Append(q, e)) /\ Append(q, e) # <<>>
           /\ \A h : Holds(Append(q, e), h) <=> Holds(q, h) \/ h = e
  <1> DEFINE r == Append(q, e)
  <1>1. /\ r \in Seq(S) /\ r # <<>> /\ Len(r) = Len(q) + 1 /\ Len(q) \in Nat
        /\ \A i \in 1 .. Len(q) : r[i] = q[i]
        /\ r[Len(q) + 1] = e
    BY AppendProperties, LenProperties
  <1> HIDE DEF r
  <1>2. Distinct(r)
    BY <1>1 DEF Distinct, Holds
  <1>3. \A h : Holds(r, h) <=> Holds(q, h) \/ h = e
    BY <1>1 DEF Holds
  <1> QED BY <1>1, <1>2, <1>3 DEF r

\* Up to two handlers are posted, that of the operation first.
ComesDue(was, is) == was = "pending" /\ is # "pending"

AppendIf(b, q, h) == IF b THEN Append(q, h) ELSE q

Behind(q, c, s, t) ==
    AppendIf(ComesDue(s.wait, t.wait),
             AppendIf(ComesDue(s.ec, t.ec), q, <<"io", c>>), <<"deadline", c>>)

LEMMA PostedFacts ==
    ASSUME NEW S, NEW q \in Seq(S), NEW c, NEW s, NEW t,
           <<"io", c>> \in S, <<"deadline", c>> \in S
    PROVE  q \o Posted(c, s, t) = Behind(q, c, s, t)
  <1> DEFINE e == <<"io", c>>
             d == <<"deadline", c>>
             a == s.ec = "pending" /\ t.ec # "pending"
             b == s.wait = "pending" /\ t.wait # "pending"
             p == IF a THEN Append(q, e) ELSE q
  <1>1. e \in S /\ d \in S
    OBVIOUS
  <1> HIDE DEF e, d
  <1>2. <<>> \in Seq(S) /\ <<e>> \in Seq(S) /\ <<d>> \in Seq(S)
    BY <1>1
  <1>3. Posted(c, s, t) = (IF a THEN <<e>> ELSE <<>>) \o (IF b THEN <<d>> ELSE <<>>)
    BY Zenon DEF Posted, e, d
  <1> HIDE DEF a, b
  <1>4. \A u, v \in Seq(S) : (q \o u) \o v = q \o (u \o v)
    BY ConcatAssociative
  <1>5. q \o Posted(c, s, t) = (q \o (IF a THEN <<e>> ELSE <<>>)) \o (IF b THEN <<d>> ELSE <<>>)
    <2>1. /\ (IF a THEN <<e>> ELSE <<>>) \in Seq(S)
          /\ (IF b THEN <<d>> ELSE <<>>) \in Seq(S)
      BY <1>2, Zenon
    <2> QED BY <1>3, <1>4, <2>1, Zenon
  <1>6. \A u \in Seq(S) : u \o <<>> = u
    BY ConcatEmptySeq
  <1>7. \A u \in Seq(S), x \in S : Append(u, x) = u \o <<x>> /\ Append(u, x) \in Seq(S)
    BY AppendIsConcat, AppendProperties
  <1>8. q \o (IF a THEN <<e>> ELSE <<>>) = p /\ p \in Seq(S)
    BY <1>1, <1>6, <1>7, Zenon
  <1> HIDE DEF p
  <1>9. p \o (IF b THEN <<d>> ELSE <<>>) = IF b THEN Append(p, d) ELSE p
    BY <1>1, <1>6, <1>7, <1>8, Zenon
  <1> QED BY <1>5, <1>8, <1>9, Zenon DEF a, b, d, e, p, AppendIf, ComesDue, Behind

\* What a step leaves of the queue, q, and how an operation or a wait whose
\* handler is h goes on: one that comes to an end is not forgotten.
Follows(h, q, was, is) ==
    /\ Holds(q, h) => was # "pending" /\ Over(is)
    /\ Over(is) => Holds(q, h) \/ was = "pending"
    /\ was = "pending" => is # "none"

\* The queue after object c has become t: it holds the handlers that q holds,
\* those of operations and waits that were over, and those that are over now.
LEMMA BecomesFacts ==
    ASSUME NEW S, NEW D, conn \in [Conn -> D], NEW c \in Conn, NEW t, NEW unused,
           NEW q \in Seq(S), Distinct(q), <<"io", c>> \in S, <<"deadline", c>> \in S,
           Becomes(c, t, q, unused),
           Follows(<<"io", c>>, q, conn[c].ec, t.ec),
           Follows(<<"deadline", c>>, q, conn[c].wait, t.wait),
           Released(t) => t.ec = "none", unused.ec = "none", unused.wait = "none"
    PROVE  /\ queue' \in Seq(S) /\ Distinct(queue') /\ InStep(c)'
           /\ \A h : h # <<"io", c>> /\ h # <<"deadline", c>> => (Holds(queue', h) <=> Holds(q, h))
           /\ \A d \in Conn : d # c => conn'[d] = conn[d]
  <1> DEFINE s == conn[c]
             io == <<"io", c>>
             dl == <<"deadline", c>>
             a == ComesDue(s.ec, t.ec)
             b == ComesDue(s.wait, t.wait)
             p == AppendIf(a, q, io)
             r == AppendIf(b, p, dl)
  <1>1. conn' = [conn EXCEPT ![c] = IF Released(t) THEN unused ELSE t] /\ queue' = q \o Posted(c, s, t)
    BY DEF Becomes
  <1>2. queue' = r
    <2>1. q \o Posted(c, s, t) = Behind(q, c, s, t)
      BY PostedFacts
    <2> QED BY <1>1, <2>1, Zenon DEF Behind
  <1>3. io # dl /\ io \in S /\ dl \in S
    OBVIOUS
  <1> HIDE DEF io, dl
  <1>4. /\ p \in Seq(S) /\ Distinct(p)
        /\ \A h : Holds(p, h) <=> Holds(q, h) \/ (a /\ h = io)
    <2>1. CASE a
      <3>1. ~Holds(q, io)
        BY <2>1 DEF io, ComesDue, Follows
      <3> QED BY <1>3, <2>1, <3>1, Pushed DEF AppendIf
    <2>2. CASE ~a
      BY <2>2 DEF AppendIf
    <2> QED BY <2>1, <2>2
  <1> HIDE DEF p
  <1>5. /\ r \in Seq(S) /\ Distinct(r)
        /\ \A h : Holds(r, h) <=> Holds(p, h) \/ (b /\ h = dl)
    <2>1. CASE b
      <3>1. ~Holds(p, dl)
        BY <1>3, <1>4, <2>1 DEF dl, ComesDue, Follows
      <3> QED BY <1>3, <1>4, <2>1, <3>1, Pushed DEF AppendIf
    <2>2. CASE ~b
      BY <1>4, <2>2 DEF AppendIf
    <2> QED BY <2>1, <2>2
  <1> HIDE DEF r
  <1>6. Holds(r, io) <=> Over(t.ec)
    <2>1. Holds(r, io) <=> Holds(q, io) \/ a
      BY <1>3, <1>4, <1>5
    <2> QED BY <2>1 DEF io, Over, ComesDue, Follows
  <1>7. Holds(r, dl) <=> Over(t.wait)
    <2>1. Holds(r, dl) <=> Holds(q, dl) \/ b
      BY <1>3, <1>4, <1>5
    <2> QED BY <2>1 DEF dl, Over, ComesDue, Follows
  <1>8. \A h : h # io /\ h # dl => (Holds(r, h) <=> Holds(q, h))
    BY <1>4, <1>5
  <1>9. /\ conn'[c] = IF Released(t) THEN unused ELSE t
        /\ \A d \in Conn : d # c => conn'[d] = conn[d]
    BY <1>1
  <1>10. InStep(c)'
    <2>1. Released(t) => t.ec = "none" /\ t.wait = "none"
      BY DEF Released
    <2>2. (Over(t.ec) <=> Over(conn'[c].ec)) /\ (Over(t.wait) <=> Over(conn'[c].wait))
      BY <1>9, <2>1 DEF Over
    <2> QED BY <1>2, <1>6, <1>7, <2>2 DEF InStep, io, dl
  <1> QED BY <1>1, <1>2, <1>5, <1>8, <1>9, <1>10 DEF io, dl

\* What a step of object c does to the queue: it is in step with c again, and
\* the handlers of the others stay.
QueueFollows(S, c) ==
    /\ queue' \in Seq(S) /\ Distinct(queue')
    /\ InStep(c)'
    /\ \A d \in Conn : d # c /\ InStep(d) => InStep(d)'
    /\ \A h : h # <<"io", c>> /\ h # <<"deadline", c>> => (Holds(queue', h) <=> Holds(queue, h))

\* An operation or a wait stays as it is, is started, or ends and is not forgotten.
GoesOn(was, is) ==
    is = was \/ (was = "none" /\ is = "pending") \/ (was = "pending" /\ is # "none")

\* Outside the handlers, operations and waits of c come to an end.
LEMMA CompletedFacts ==
    ASSUME NEW S, NEW D, conn \in [Conn -> D], NEW c \in Conn, NEW t, NEW unused,
           queue \in Seq(S), Distinct(queue), <<"io", c>> \in S, <<"deadline", c>> \in S,
           InStep(c), Becomes(c, t, queue, unused),
           GoesOn(conn[c].ec, t.ec), GoesOn(conn[c].wait, t.wait),
           Released(t) => t.ec = "none", unused.ec = "none", unused.wait = "none"
    PROVE  QueueFollows(S, c)
  <1>1. /\ Holds(queue, <<"io", c>>) <=> Over(conn[c].ec)
        /\ Holds(queue, <<"deadline", c>>) <=> Over(conn[c].wait)
    BY DEF InStep
  <1>2. /\ Follows(<<"io", c>>, queue, conn[c].ec, t.ec)
        /\ Follows(<<"deadline", c>>, queue, conn[c].wait, t.wait)
    BY <1>1 DEF Follows, Over, GoesOn
  <1>3. /\ queue' \in Seq(S) /\ Distinct(queue') /\ InStep(c)'
        /\ \A h : h # <<"io", c>> /\ h # <<"deadline", c>> => (Holds(queue', h) <=> Holds(queue, h))
        /\ \A d \in Conn : d # c => conn'[d] = conn[d]
    BY <1>2, BecomesFacts
  <1>4. \A d \in Conn : d # c /\ InStep(d) => InStep(d)'
    BY <1>3 DEF InStep
  <1> QED BY <1>3, <1>4 DEF QueueFollows

\* Cutting a stream keeps its words, their order and their number.
LEMMA CutFacts ==
    ASSUME NEW S, NEW s \in Seq(S), NEW n \in 0 .. Len(s)
    PROVE  /\ First(s, n) \in Seq(S) /\ Len(First(s, n)) = n
           /\ \A j \in 1 .. n : First(s, n)[j] = s[j]
           /\ After(s, n) \in Seq(S) /\ Len(After(s, n)) = Len(s) - n
           /\ \A j \in 1 .. Len(s) - n : After(s, n)[j] = s[n + j]
  <1>1. Len(s) \in Nat /\ \A j \in 1 .. Len(s) : s[j] \in S
    BY ElementOfSeq, LenProperties
  <1>2. /\ SubSeq(s, 1, n) \in Seq(S)
        /\ Len(SubSeq(s, 1, n)) = IF 1 <= n THEN n - 1 + 1 ELSE 0
        /\ \A j \in 1 .. n - 1 + 1 : SubSeq(s, 1, n)[j] = s[1 + j - 1]
    <2>1. \A j \in 1 .. n : s[j] \in S
      BY <1>1
    <2> QED BY <1>1, <2>1, SubSeqProperties
  <1>3. /\ SubSeq(s, n + 1, Len(s)) \in Seq(S)
        /\ Len(SubSeq(s, n + 1, Len(s))) = IF n + 1 <= Len(s) THEN Len(s) - (n + 1) + 1 ELSE 0
        /\ \A j \in 1 .. Len(s) - (n + 1) + 1 : SubSeq(s, n + 1, Len(s))[j] = s[n + 1 + j - 1]
    <2>1. \A j \in n + 1 .. Len(s) : s[j] \in S
      BY <1>1
    <2> QED BY <1>1, <2>1, SubSeqProperties
  <1>4. First(s, n) \in Seq(S) /\ Len(First(s, n)) = n
    BY <1>1, <1>2 DEF First
  <1>5. \A j \in 1 .. n : First(s, n)[j] = s[j]
    BY <1>1, <1>2 DEF First
  <1>6. After(s, n) \in Seq(S) /\ Len(After(s, n)) = Len(s) - n
    BY <1>1, <1>3 DEF After
  <1>7. \A j \in 1 .. Len(s) - n : After(s, n)[j] = s[n + j]
    BY <1>1, <1>3 DEF After
  <1> QED BY <1>4, <1>5, <1>6, <1>7

\* What is left of the queue, q, when the handler h was taken out to be called.
Leaves(q, h, S) ==
    /\ q \in Seq(S) /\ Distinct(q) /\ Holds(queue, h)
    /\ \A g : Holds(q, g) <=> Holds(queue, g) /\ g # h

\* A thread takes the first handler; with strands it may be one further behind.
LEMMA FirstTaken ==
    ASSUME NEW S, queue \in Seq(S), Distinct(queue), NEW h, Ready(h)
    PROVE  Leaves(Tail(queue), h, S)
  BY Popped DEF Ready, Leaves

LEMMA SomeTaken ==
    ASSUME NEW S, queue \in Seq(S), Distinct(queue), NEW i \in 1 .. Len(queue)
    PROVE  Leaves(First(queue, i - 1) \o After(queue, i), queue[i], S)
  <1> DEFINE n == Len(queue)
             a == First(queue, i - 1)
             b == After(queue, i)
             q == a \o b
  <1>1. n \in Nat /\ i - 1 \in 0 .. n /\ i \in 0 .. n /\ i \in 1 .. n
    BY LenProperties
  <1>2. /\ a \in Seq(S) /\ Len(a) = i - 1 /\ (\A j \in 1 .. i - 1 : a[j] = queue[j])
        /\ b \in Seq(S) /\ Len(b) = n - i /\ (\A j \in 1 .. n - i : b[j] = queue[i + j])
    BY <1>1, CutFacts
  <1> HIDE DEF a, b
  <1>3. /\ q \in Seq(S) /\ Len(q) = Len(a) + Len(b)
        /\ \A j \in 1 .. Len(a) + Len(b) : q[j] = IF j <= Len(a) THEN a[j] ELSE b[j - Len(a)]
    BY <1>2, ConcatProperties
  <1> HIDE DEF q, n
  <1>4. Len(q) = n - 1 /\ \A j \in 1 .. n - 1 : q[j] = IF j < i THEN queue[j] ELSE queue[j + 1]
    <2>1. Len(q) = n - 1
      BY <1>1, <1>2, <1>3
    <2>2. ASSUME NEW j \in 1 .. n - 1
          PROVE  q[j] = IF j < i THEN queue[j] ELSE queue[j + 1]
      <3>1. j \in 1 .. Len(a) + Len(b)
        BY <1>1, <1>2
      <3>2. CASE j < i
        BY <1>1, <1>2, <1>3, <3>1, <3>2
      <3>3. CASE ~(j < i)
        <4>1. ~(j <= Len(a)) /\ j - Len(a) \in 1 .. n - i /\ i + (j - Len(a)) = j + 1
          BY <1>1, <1>2, <3>3
        <4> QED BY <1>2, <1>3, <3>1, <3>3, <4>1
      <3> QED BY <3>2, <3>3
    <2> QED BY <2>1, <2>2
  <1> DEFINE At(j) == IF j < i THEN j ELSE j + 1
  <1>5. \A j \in 1 .. n - 1 : At(j) \in 1 .. n /\ At(j) # i /\ q[j] = queue[At(j)]
    BY <1>1, <1>4
  <1>6. \A j, k \in 1 .. n - 1 : At(j) = At(k) => j = k
    BY <1>1
  <1>7. \A m \in 1 .. n : m # i => \E j \in 1 .. n - 1 : At(j) = m
    <2> SUFFICES ASSUME NEW m \in 1 .. n, m # i
                 PROVE  \E j \in 1 .. n - 1 : At(j) = m
      OBVIOUS
    <2>1. CASE m < i
      <3>1. m \in 1 .. n - 1 /\ At(m) = m
        BY <1>1, <2>1
      <3> QED BY <3>1
    <2>2. CASE ~(m < i)
      <3>1. m - 1 \in 1 .. n - 1 /\ At(m - 1) = m
        BY <1>1, <2>2
      <3> QED BY <3>1
    <2> QED BY <2>1, <2>2
  <1> HIDE DEF At
  <1>8. Distinct(q)
    BY <1>4, <1>5, <1>6 DEF Distinct, n
  <1>9. \A g : Holds(q, g) <=> Holds(queue, g) /\ g # queue[i]
    <2>1. ASSUME NEW g, Holds(q, g)
          PROVE  Holds(queue, g) /\ g # queue[i]
      BY <1>1, <1>4, <1>5, <2>1 DEF Holds, Distinct, n
    <2>2. ASSUME NEW g, Holds(queue, g), g # queue[i]
          PROVE  Holds(q, g)
      <3>1. PICK m \in 1 .. n : queue[m] = g
        BY <2>2 DEF Holds, n
      <3>2. PICK j \in 1 .. n - 1 : At(j) = m
        BY <1>7, <2>2, <3>1
      <3>3. q[j] = g
        BY <1>5, <3>1, <3>2
      <3> QED BY <1>4, <3>3 DEF Holds
    <2> QED BY <2>1, <2>2
  <1>10. Holds(queue, queue[i])
    BY DEF Holds
  <1> QED BY <1>3, <1>8, <1>9, <1>10 DEF Leaves, q, a, b

\* The handler of c's operation was called: nothing, or a new operation, follows.
LEMMA IoHandledFacts ==
    ASSUME NEW S, NEW D, conn \in [Conn -> D], NEW c \in Conn, NEW t, NEW unused,
           <<"io", c>> \in S, <<"deadline", c>> \in S,
           InStep(c), NEW q, Leaves(q, <<"io", c>>, S), Becomes(c, t, q, unused),
           t.ec \in {"none", "pending"}, GoesOn(conn[c].wait, t.wait),
           Released(t) => t.ec = "none", unused.ec = "none", unused.wait = "none"
    PROVE  QueueFollows(S, c)
  <1>1. /\ q \in Seq(S) /\ Distinct(q) /\ Holds(queue, <<"io", c>>)
        /\ \A h : Holds(q, h) <=> Holds(queue, h) /\ h # <<"io", c>>
    BY DEF Leaves
  <1>2. /\ Over(conn[c].ec) /\ ~Holds(q, <<"io", c>>)
        /\ Holds(q, <<"deadline", c>>) <=> Over(conn[c].wait)
    BY <1>1 DEF InStep
  <1>3. /\ Follows(<<"io", c>>, q, conn[c].ec, t.ec)
        /\ Follows(<<"deadline", c>>, q, conn[c].wait, t.wait)
    BY <1>2 DEF Follows, Over, GoesOn
  <1>4. /\ queue' \in Seq(S) /\ Distinct(queue') /\ InStep(c)'
        /\ \A h : h # <<"io", c>> /\ h # <<"deadline", c>> => (Holds(queue', h) <=> Holds(q, h))
        /\ \A d \in Conn : d # c => conn'[d] = conn[d]
    BY <1>1, <1>3, BecomesFacts
  <1>5. \A d \in Conn : d # c /\ InStep(d) => InStep(d)'
    BY <1>1, <1>4 DEF InStep
  <1> QED BY <1>1, <1>4, <1>5 DEF QueueFollows

\* The handler of c's wait was called.
LEMMA WaitHandledFacts ==
    ASSUME NEW S, NEW D, conn \in [Conn -> D], NEW c \in Conn, NEW t, NEW unused,
           <<"io", c>> \in S, <<"deadline", c>> \in S,
           InStep(c), NEW q, Leaves(q, <<"deadline", c>>, S), Becomes(c, t, q, unused),
           t.wait \in {"none", "pending"}, GoesOn(conn[c].ec, t.ec),
           Released(t) => t.ec = "none", unused.ec = "none", unused.wait = "none"
    PROVE  QueueFollows(S, c)
  <1>1. /\ q \in Seq(S) /\ Distinct(q) /\ Holds(queue, <<"deadline", c>>)
        /\ \A h : Holds(q, h) <=> Holds(queue, h) /\ h # <<"deadline", c>>
    BY DEF Leaves
  <1>2. /\ Over(conn[c].wait) /\ ~Holds(q, <<"deadline", c>>)
        /\ Holds(q, <<"io", c>>) <=> Over(conn[c].ec)
    BY <1>1 DEF InStep
  <1>3. /\ Follows(<<"io", c>>, q, conn[c].ec, t.ec)
        /\ Follows(<<"deadline", c>>, q, conn[c].wait, t.wait)
    BY <1>2 DEF Follows, Over, GoesOn
  <1>4. /\ queue' \in Seq(S) /\ Distinct(queue') /\ InStep(c)'
        /\ \A h : h # <<"io", c>> /\ h # <<"deadline", c>> => (Holds(queue', h) <=> Holds(q, h))
        /\ \A d \in Conn : d # c => conn'[d] = conn[d]
    BY <1>1, <1>3, BecomesFacts
  <1>5. \A d \in Conn : d # c /\ InStep(d) => InStep(d)'
    BY <1>1, <1>4 DEF InStep
  <1> QED BY <1>1, <1>4, <1>5 DEF QueueFollows

\* Another handler, e, was called and starts the object c.
LEMMA StartedFacts ==
    ASSUME NEW S, NEW D, conn \in [Conn -> D], NEW c \in Conn, NEW t, NEW unused,
           queue \in Seq(S), Distinct(queue), <<"io", c>> \in S, <<"deadline", c>> \in S,
           NEW e, Ready(e), \A d \in Conn : e # <<"io", d>> /\ e # <<"deadline", d>>,
           InStep(c), Becomes(c, t, Tail(queue), unused),
           conn[c].ec = "none", conn[c].wait = "none", t.ec = "pending", t.wait = "pending",
           unused.ec = "none", unused.wait = "none"
    PROVE  /\ queue' \in Seq(S) /\ Distinct(queue') /\ ~Holds(queue', e)
           /\ \A d \in Conn : InStep(d) => InStep(d)'
  <1> DEFINE q == Tail(queue)
  <1>1. /\ q \in Seq(S) /\ Distinct(q)
        /\ \A h : Holds(q, h) <=> Holds(queue, h) /\ h # e
    BY Popped DEF Ready
  <1> HIDE DEF q
  <1>2. ~Holds(q, <<"io", c>>) /\ ~Holds(q, <<"deadline", c>>)
    BY <1>1 DEF InStep, Over
  <1>3. /\ Follows(<<"io", c>>, q, conn[c].ec, t.ec)
        /\ Follows(<<"deadline", c>>, q, conn[c].wait, t.wait)
    BY <1>2 DEF Follows, Over
  <1>4. Becomes(c, t, q, unused) /\ (Released(t) => t.ec = "none")
    BY DEF q, Released
  <1>5. /\ queue' \in Seq(S) /\ Distinct(queue') /\ InStep(c)'
        /\ \A h : h # <<"io", c>> /\ h # <<"deadline", c>> => (Holds(queue', h) <=> Holds(q, h))
        /\ \A d \in Conn : d # c => conn'[d] = conn[d]
    BY <1>1, <1>3, <1>4, BecomesFacts
  <1>6. \A d \in Conn : d # c /\ InStep(d) => InStep(d)'
    BY <1>1, <1>5 DEF InStep
  <1> QED BY <1>1, <1>5, <1>6

-----------------------------------------------------------------------------
\* A stream is what it is cut into.
LEMMA CutAndJoin ==
    ASSUME NEW S, NEW s \in Seq(S), NEW n \in 0 .. Len(s)
    PROVE  First(s, n) \o After(s, n) = s
  <1>1. Len(s) \in Nat
    BY LenProperties
  <1>2. 1 \in 1 .. Len(s) + 1 /\ n \in 1 - 1 .. Len(s) /\ Len(s) \in n .. Len(s)
    BY <1>1
  <1>3. SubSeq(s, 1, n) \o SubSeq(s, n + 1, Len(s)) = SubSeq(s, 1, Len(s))
    BY <1>2, ConcatAdjacentSubSeq
  <1> QED BY <1>3, SubSeqFull DEF First, After

\* Cutting a concatenation where it was joined gives its parts.
LEMMA JoinAndCut ==
    ASSUME NEW S, NEW s \in Seq(S), NEW t \in Seq(S)
    PROVE  /\ First(s \o t, Len(s)) = s /\ After(s \o t, Len(s)) = t
           /\ Len(s) \in 0 .. Len(s \o t)
           /\ \A i \in 1 .. Len(s) : i \in 1 .. Len(s \o t) /\ (s \o t)[i] = s[i]
  <1> DEFINE u == s \o t
             n == Len(s)
  <1>1. /\ n \in Nat /\ Len(t) \in Nat /\ u \in Seq(S) /\ Len(u) = n + Len(t)
        /\ \A i \in 1 .. n + Len(t) : u[i] = IF i <= n THEN s[i] ELSE t[i - n]
    BY LenProperties, ConcatProperties
  <1> HIDE DEF u
  <1>2. n \in 0 .. Len(u)
    BY <1>1
  <1>3. /\ First(u, n) \in Seq(S) /\ Len(First(u, n)) = n
        /\ \A i \in 1 .. n : First(u, n)[i] = u[i]
    BY <1>1, <1>2, CutFacts
  <1>4. \A i \in 1 .. n : u[i] = s[i] /\ i \in 1 .. Len(u)
    BY <1>1
  <1>5. First(u, n) = s
    BY <1>3, <1>4, SeqEqual
  <1>6. After(u, n) \in Seq(S)
    BY <1>1, <1>2, CutFacts
  <1>7. s \o After(u, n) = s \o t
    BY <1>1, <1>2, <1>5, CutAndJoin DEF u
  <1>8. After(u, n) = t
    BY <1>6, <1>7, ConcatSimplifications
  <1> QED BY <1>2, <1>4, <1>5, <1>8 DEF u

\* What was received and what is on its way are together always the same.
LEMMA Recut ==
    ASSUME NEW S, NEW a \in Seq(S), NEW b \in Seq(S), NEW n \in 0 .. Len(b)
    PROVE  (a \o First(b, n)) \o After(b, n) = a \o b
  <1>1. First(b, n) \o After(b, n) = b
    BY CutAndJoin
  <1>2. First(b, n) \in Seq(S) /\ After(b, n) \in Seq(S)
    BY CutFacts
  <1>3. (a \o First(b, n)) \o After(b, n) = a \o (First(b, n) \o After(b, n))
    <2>1. \A t, u \in Seq(S) : (a \o t) \o u = a \o (t \o u)
      BY ConcatAssociative
    <2> QED BY <1>2, <2>1
  <1> QED BY <1>1, <1>3

\* A non-empty set of naturals has a least member.
LEMMA LeastOf ==
    ASSUME NEW T, T \subseteq Nat, T # {}
    PROVE  \E x \in T : \A y \in T : x <= y
  <1> DEFINE R == OpToRel(<, Nat)
  <1>1. IsWellFoundedOn(R, Nat)
    BY NatLessThanWellFounded, Zenon
  <1>2. PICK x \in T : \A y \in T : ~ (<<y, x>> \in R)
    <2> HIDE DEF R
    <2> QED BY <1>1, WFMin, Zenon
  <1>3. \A y \in T : ~(y < x)
    BY <1>2, Zenon DEF OpToRel
  <1> QED BY <1>3

\* A buffer that holds a delimiter holds a first line, and getline takes it.
LEMMA LineFacts ==
    ASSUME NEW S, NEW buf \in Seq(S), HasLine(buf)
    PROVE  /\ LineLength(buf) \in 1 .. Len(buf) /\ IsLine(buf, LineLength(buf))
           /\ getline(buf) \in Seq(S) /\ Len(getline(buf)) = LineLength(buf)
           /\ IsLine(getline(buf), Len(getline(buf)))
           /\ \A i \in 1 .. LineLength(buf) : getline(buf)[i] = buf[i]
           /\ Remainder(buf) \in Seq(S)
  <1> DEFINE T == {i \in 1 .. Len(buf) : buf[i] = DELIMITER}
             n == LineLength(buf)
  <1>1. Len(buf) \in Nat
    BY LenProperties
  <1>2. PICK x \in T : \A y \in T : x <= y
    <2>1. T \subseteq Nat /\ T # {}
      BY <1>1 DEF HasLine
    <2> HIDE DEF T
    <2> QED BY <2>1, LeastOf
  <1>3. IsLine(buf, x) /\ x \in 1 .. Len(buf)
    BY <1>1, <1>2 DEF IsLine
  <1>4. n \in 1 .. Len(buf) /\ IsLine(buf, n)
    BY <1>3 DEF LineLength
  <1> HIDE DEF n
  <1>5. n \in 0 .. Len(buf)
    BY <1>1, <1>4
  <1>6. /\ First(buf, n) \in Seq(S) /\ Len(First(buf, n)) = n
        /\ \A j \in 1 .. n : First(buf, n)[j] = buf[j]
        /\ After(buf, n) \in Seq(S)
    BY <1>5, CutFacts
  <1>7. getline(buf) = First(buf, n) /\ Remainder(buf) = After(buf, n)
    BY DEF getline, Remainder, n
  <1>8. IsLine(getline(buf), Len(getline(buf)))
    BY <1>1, <1>4, <1>6, <1>7 DEF IsLine
  <1> QED BY <1>4, <1>6, <1>7, <1>8 DEF n

\* A buffer that holds one line and nothing else is taken as a whole.
LEMMA SingleLineFacts ==
    ASSUME NEW S, NEW buf \in Seq(S), IsLine(buf, Len(buf))
    PROVE  getline(buf) = buf /\ Remainder(buf) = <<>>
  <1>1. Len(buf) \in Nat
    BY LenProperties
  <1>2. \A n \in 1 .. Len(buf) : IsLine(buf, n) => n = Len(buf)
    BY <1>1 DEF IsLine
  <1>3. Len(buf) \in 1 .. Len(buf)
    BY DEF IsLine
  <1>4. LineLength(buf) = Len(buf)
    BY <1>2, <1>3 DEF LineLength
  <1>5. First(buf, Len(buf)) = buf
    BY SubSeqFull DEF First
  <1>6. After(buf, Len(buf)) = <<>>
    <2>1. Len(buf) \in 0 .. Len(buf)
      BY <1>1
    <2>2. After(buf, Len(buf)) \in Seq(S) /\ Len(After(buf, Len(buf))) = 0
      BY <1>1, <2>1, CutFacts
    <2> QED BY <2>2, EmptySeq
  <1> QED BY <1>4, <1>5, <1>6 DEF getline, Remainder

\* What ends in its only delimiter has none before its end.
LEMMA PartOfLine ==
    ASSUME NEW S, NEW a \in Seq(S), NEW b \in Seq(S), IsLine(a \o b, Len(a \o b))
    PROVE  /\ \A i \in 1 .. Len(a) : a[i] = DELIMITER => b = <<>> /\ i = Len(a)
           /\ \A i \in 1 .. Len(a) : a[i] = (a \o b)[i]
  <1>1. /\ Len(a) \in Nat /\ Len(b) \in Nat /\ Len(a \o b) = Len(a) + Len(b)
        /\ \A i \in 1 .. Len(a) + Len(b) : (a \o b)[i] = IF i <= Len(a) THEN a[i] ELSE b[i - Len(a)]
    BY ConcatProperties, LenProperties
  <1>2. \A i \in 1 .. Len(a) : a[i] = (a \o b)[i]
    BY <1>1
  <1>3. \A i \in 1 .. Len(a) : a[i] = DELIMITER => i = Len(a) + Len(b)
    BY <1>1, <1>2 DEF IsLine
  <1>4. \A i \in 1 .. Len(a) : a[i] = DELIMITER => Len(b) = 0 /\ i = Len(a)
    BY <1>1, <1>3
  <1> QED BY <1>2, <1>4, EmptySeq

\* The sign of a request follows its type.
LEMMA ZodiacFacts ==
    ASSUME NEW S, NEW l \in Seq(S), l # <<>>, FindZodiac(Tail(l))
    PROVE  l[2] \in Zodiac
  <1> DEFINE t == Tail(l)
             m == Len(t)
  <1>1. t # <<>> /\ t[1] \in Zodiac
    BY DEF FindZodiac
  <1>2. /\ t \in Seq(S) /\ m = Len(l) - 1
        /\ \A i \in 1 .. m : t[i] = l[i + 1]
    BY HeadTailProperties
  <1>3. m # 0 /\ m \in Nat
    BY <1>1, <1>2, EmptySeq, LenProperties
  <1>4. 1 \in 1 .. m
    <2> HIDE DEF m
    <2> QED BY <1>3
  <1>5. t[1] = l[1 + 1]
    BY <1>2, <1>4, Zenon
  <1>6. 1 + 1 = 2
    OBVIOUS
  <1> QED BY <1>1, <1>5, <1>6, Zenon

\* How often the delimiter occurs.
LEMMA DelimitersEmpty == Delimiters(<<>>) = 0
  <1>1. {i \in 1 .. Len(<<>>) : <<>>[i] = DELIMITER} = {}
    OBVIOUS
  <1> QED BY <1>1, FS_EmptySet DEF Delimiters

\* What ends with a delimiter adds one at least, and a line exactly one.
LEMMA DelimitersFacts ==
    ASSUME NEW S, NEW a \in Seq(S), NEW b \in Seq(S), b # <<>>, b[Len(b)] = DELIMITER
    PROVE  /\ Delimiters(a) \in Nat /\ Delimiters(a \o b) \in Nat
           /\ Delimiters(a \o b) >= Delimiters(a) + 1
           /\ IsLine(b, Len(b)) => Delimiters(a \o b) = Delimiters(a) + 1
  <1> DEFINE t == a \o b
             m == Len(a)
             n == Len(b)
             A == {i \in 1 .. m : a[i] = DELIMITER}
             B == {i \in 1 .. Len(t) : t[i] = DELIMITER}
             C == A \cup {m + n}
  <1>1. /\ Len(t) = m + n /\ m \in Nat /\ n \in Nat \ {0}
        /\ \A i \in 1 .. m + n : t[i] = IF i <= m THEN a[i] ELSE b[i - m]
    BY ConcatProperties, LenProperties, EmptySeq
  <1> HIDE DEF t
  <1>2. IsFiniteSet(A) /\ Cardinality(A) \in Nat
    <2>1. A \in SUBSET (1 .. m)
      OBVIOUS
    <2>2. IsFiniteSet(1 .. m)
      BY <1>1, FS_Interval
    <2> HIDE DEF A
    <2> QED BY <2>1, <2>2, FS_Subset, FS_CardinalityType
  <1>3. IsFiniteSet(B) /\ Cardinality(B) \in Nat
    <2>1. B \in SUBSET (1 .. Len(t))
      OBVIOUS
    <2>2. IsFiniteSet(1 .. Len(t))
      BY <1>1, FS_Interval
    <2> HIDE DEF B
    <2> QED BY <2>1, <2>2, FS_Subset, FS_CardinalityType
  <1>4. m + n \notin A
    BY <1>1
  <1>5. C \subseteq B
    <2>1. m + n \in 1 .. m + n /\ ~(m + n <= m) /\ (m + n) - m = n
      BY <1>1
    <2>2. t[m + n] = DELIMITER
      BY <1>1, <2>1
    <2>3. \A i \in A : i \in 1 .. m + n /\ t[i] = DELIMITER
      BY <1>1
    <2> QED BY <1>1, <2>1, <2>2, <2>3
  <1>6. ASSUME IsLine(b, Len(b))
        PROVE  B \subseteq C
    <2> SUFFICES ASSUME NEW i \in B PROVE i \in C
      OBVIOUS
    <2>1. i \in 1 .. m + n /\ t[i] = DELIMITER
      BY <1>1
    <2>2. CASE i <= m
      BY <1>1, <2>1, <2>2
    <2>3. CASE ~(i <= m)
      <3>1. i - m \in 1 .. n /\ b[i - m] = DELIMITER
        BY <1>1, <2>1, <2>3
      <3>2. i - m = n
        <4>1. \A j \in 1 .. n - 1 : b[j] # DELIMITER
          BY <1>6 DEF IsLine
        <4>2. i - m \notin 1 .. n - 1
          BY <3>1, <4>1
        <4> QED BY <1>1, <3>1, <4>2
      <3> QED BY <1>1, <2>1, <3>2
    <2> QED BY <2>2, <2>3
  <1> HIDE DEF A, B
  <1>7. IsFiniteSet(C) /\ Cardinality(C) = Cardinality(A) + 1
    BY <1>2, <1>4, FS_AddElement
  <1> HIDE DEF C
  <1>8. Cardinality(C) <= Cardinality(B)
    BY <1>3, <1>5, FS_Subset
  <1>9. IsLine(b, Len(b)) => C = B
    BY <1>5, <1>6
  <1>10. Delimiters(a) = Cardinality(A) /\ Delimiters(t) = Cardinality(B)
    BY DEF Delimiters, A, B
  <1>11. Cardinality(B) >= Cardinality(A) + 1
    BY <1>2, <1>3, <1>7, <1>8
  <1> QED BY <1>2, <1>3, <1>7, <1>9, <1>10, <1>11 DEF t

-----------------------------------------------------------------------------
\* Together is defined by recursion over the pieces: f[i] is the first i of them,
\* one behind the other.
Upto(s, n, f) ==
    f = [i \in 0 .. n |-> IF i = 0 THEN <<>> ELSE f[i - 1] \o s[i]]

LEMMA UptoFacts ==
    ASSUME NEW s, NEW n \in Nat, NEW f, Upto(s, n, f)
    PROVE  /\ f[0] = <<>> /\ DOMAIN f = 0 .. n
           /\ \A i \in 1 .. n : f[i] = f[i - 1] \o s[i]
  <1> DEFINE g == [i \in 0 .. n |-> IF i = 0 THEN <<>> ELSE f[i - 1] \o s[i]]
  <1>1. g[0] = <<>> /\ DOMAIN g = 0 .. n
    OBVIOUS
  <1>2. ASSUME NEW i \in 1 .. n
        PROVE  g[i] = f[i - 1] \o s[i]
    <2>1. i \in 0 .. n /\ i # 0
      OBVIOUS
    <2> QED BY <2>1, Zenon
  <1>3. f = g
    BY Zenon DEF Upto
  <1> HIDE DEF g
  <1> QED BY <1>1, <1>2, <1>3, Zenon

\* There is one such function, for there is no least argument at which two differ.
LEMMA UptoUnique ==
    ASSUME NEW s, NEW n \in Nat, NEW f, NEW g, Upto(s, n, f), Upto(s, n, g)
    PROVE  f = g
  <1> DEFINE T == {i \in 0 .. n : f[i] # g[i]}
  <1>1. /\ f[0] = <<>> /\ g[0] = <<>>
        /\ \A i \in 1 .. n : f[i] = f[i - 1] \o s[i]
        /\ \A i \in 1 .. n : g[i] = g[i - 1] \o s[i]
    BY UptoFacts
  <1>2. T = {}
    <2> SUFFICES ASSUME T # {} PROVE FALSE
      OBVIOUS
    <2>1. T \subseteq Nat
      OBVIOUS
    <2>2. PICK x \in T : \A y \in T : x <= y
      <3> HIDE DEF T
      <3> QED BY <2>1, LeastOf
    <2>3. x # 0 /\ x \in 0 .. n
      BY <1>1
    <2>4. x \in 1 .. n /\ x - 1 \in 0 .. n /\ x - 1 \notin T
      BY <2>2, <2>3
    <2>5. f[x - 1] = g[x - 1]
      BY <2>4
    <2>6. f[x] = g[x]
      BY <1>1, <2>4, <2>5, Zenon
    <2> QED BY <2>6
  <1>3. \A i \in 0 .. n : f[i] = g[i]
    BY <1>2
  <1>4. /\ f = [i \in 0 .. n |-> IF i = 0 THEN <<>> ELSE f[i - 1] \o s[i]]
        /\ g = [i \in 0 .. n |-> IF i = 0 THEN <<>> ELSE g[i - 1] \o s[i]]
    BY Zenon DEF Upto
  <1>5. f = [i \in 0 .. n |-> f[i]] /\ g = [i \in 0 .. n |-> g[i]]
    BY <1>4
  <1> QED BY <1>3, <1>5

\* How one more reply is put behind those of f.
Longer(s, n, f) ==
    [i \in 0 .. n |-> IF i < n THEN f[i] ELSE IF n = 0 THEN <<>> ELSE f[n - 1] \o s[n]]

LEMMA UptoLonger ==
    ASSUME NEW s, NEW n \in Nat, NEW f, n # 0 => Upto(s, n - 1, f)
    PROVE  Upto(s, n, Longer(s, n, f))
  <1> DEFINE g == Longer(s, n, f)
             E(i) == IF i = 0 THEN <<>> ELSE g[i - 1] \o s[i]
  <1>1. \A i \in 0 .. n : i < n => g[i] = f[i]
    BY DEF Longer
  <1>2. n \in 0 .. n /\ g[n] = IF n = 0 THEN <<>> ELSE f[n - 1] \o s[n]
    <2>1. n \in 0 .. n /\ ~(n < n)
      OBVIOUS
    <2> QED BY <2>1, Zenon DEF Longer
  <1>3. g = [i \in 0 .. n |-> g[i]]
    BY DEF Longer
  <1> HIDE DEF g
  <1>4. ASSUME NEW i \in 0 .. n
        PROVE  g[i] = E(i)
    <2>1. CASE i = 0
      <3>1. CASE n = 0
        BY <1>2, <2>1, <3>1
      <3>2. CASE n # 0
        <4>1. f[0] = <<>>
          <5>1. n - 1 \in Nat /\ Upto(s, n - 1, f)
            BY <3>2
          <5> QED BY <5>1, UptoFacts
        <4> QED BY <1>1, <2>1, <3>2, <4>1
      <3> QED BY <3>1, <3>2
    <2>2. CASE i # 0 /\ i < n
      <3>1. n # 0 /\ n - 1 \in Nat /\ i \in 1 .. n - 1 /\ i - 1 \in 0 .. n /\ i - 1 < n
        BY <2>2
      <3>2. f[i] = f[i - 1] \o s[i]
        BY <3>1, UptoFacts
      <3> QED BY <1>1, <2>2, <3>1, <3>2, Zenon
    <2>3. CASE i # 0 /\ i = n
      <3>1. i - 1 \in 0 .. n /\ i - 1 < n
        BY <2>3
      <3> QED BY <1>1, <1>2, <2>3, <3>1, Zenon
    <2>4. i = 0 \/ (i # 0 /\ i < n) \/ (i # 0 /\ i = n)
      OBVIOUS
    <2> HIDE DEF E
    <2> QED BY <2>1, <2>2, <2>3, <2>4
  <1> HIDE DEF E
  <1>5. g = [i \in 0 .. n |-> E(i)]
    BY <1>3, <1>4
  <1> QED BY <1>5, Zenon DEF Upto, g, E

\* There is such a function, for there is no least length without one.
LEMMA UptoExists ==
    ASSUME NEW s, NEW n \in Nat
    PROVE  \E f : Upto(s, n, f)
  <1> DEFINE T == {i \in 0 .. n : ~ \E f : Upto(s, i, f)}
  <1> SUFFICES ASSUME T # {} PROVE FALSE
    OBVIOUS
  <1>1. T \subseteq Nat
    OBVIOUS
  <1>2. PICK x \in T : \A y \in T : x <= y
    <2> HIDE DEF T
    <2> QED BY <1>1, LeastOf
  <1>3. x \in 0 .. n /\ x \in Nat
    OBVIOUS
  <1>4. CASE x = 0
    BY <1>3, <1>4, UptoLonger
  <1>5. CASE x # 0
    <2>1. x - 1 \in 0 .. n /\ x - 1 \notin T
      BY <1>2, <1>3, <1>5
    <2>2. PICK f : Upto(s, x - 1, f)
      BY <2>1
    <2> QED BY <1>3, <2>2, UptoLonger
  <1> QED BY <1>4, <1>5

\* So the function that Together takes is the one that Upto describes.
LEMMA TogetherIs ==
    ASSUME NEW s, Len(s) \in Nat, NEW f, Upto(s, Len(s), f)
    PROVE  Together(s) = f[Len(s)]
  <1> DEFINE h == CHOOSE g : Upto(s, Len(s), g)
  <1>1. Upto(s, Len(s), h)
    OBVIOUS
  <1>2. h = f
    BY <1>1, UptoUnique
  <1>3. Together(s) = h[Len(s)]
    BY Zenon DEF Together, Upto
  <1> QED BY <1>2, <1>3

LEMMA TogetherEmpty == Together(<<>>) = <<>>
  <1>1. Len(<<>>) = 0
    OBVIOUS
  <1>2. PICK f : Upto(<<>>, 0, f)
    BY UptoExists
  <1>3. f[0] = <<>>
    BY <1>2, UptoFacts
  <1> QED BY <1>1, <1>2, <1>3, TogetherIs

\* Pieces of words, one behind the other, are words.
LEMMA UptoTypes ==
    ASSUME NEW S, NEW s \in Seq(Seq(S)), NEW f, Upto(s, Len(s), f)
    PROVE  \A i \in 0 .. Len(s) : f[i] \in Seq(S)
  <1> DEFINE n == Len(s)
             T == {i \in 0 .. n : f[i] \notin Seq(S)}
  <1>1. n \in Nat /\ \A i \in 1 .. n : s[i] \in Seq(S)
    BY LenProperties, ElementOfSeq
  <1>2. f[0] = <<>> /\ \A i \in 1 .. n : f[i] = f[i - 1] \o s[i]
    BY <1>1, UptoFacts
  <1> HIDE DEF n
  <1>3. T = {}
    <2> SUFFICES ASSUME T # {} PROVE FALSE
      OBVIOUS
    <2>1. T \subseteq Nat
      BY <1>1
    <2>2. PICK x \in T : \A y \in T : x <= y
      <3> HIDE DEF T
      <3> QED BY <2>1, LeastOf
    <2>3. x # 0 /\ x \in 0 .. n
      <3>1. <<>> \in Seq(S)
        OBVIOUS
      <3> QED BY <1>2, <3>1
    <2>4. x \in 1 .. n /\ x - 1 \in 0 .. n /\ x - 1 \notin T
      BY <1>1, <2>2, <2>3
    <2>5. f[x - 1] \in Seq(S) /\ s[x] \in Seq(S)
      BY <1>1, <2>4
    <2>6. f[x - 1] \o s[x] \in Seq(S)
      BY <2>5, ConcatProperties
    <2>7. f[x] \in Seq(S)
      BY <1>2, <2>4, <2>6, Zenon
    <2> QED BY <2>7
  <1> QED BY <1>3 DEF n

LEMMA TogetherTypes ==
    ASSUME NEW S, NEW s \in Seq(Seq(S))
    PROVE  Together(s) \in Seq(S)
  <1>1. Len(s) \in Nat /\ Len(s) \in 0 .. Len(s)
    BY LenProperties
  <1>2. PICK f : Upto(s, Len(s), f)
    BY <1>1, UptoExists
  <1>3. f[Len(s)] \in Seq(S)
    BY <1>1, <1>2, UptoTypes
  <1> QED BY <1>1, <1>2, <1>3, TogetherIs

\* The pieces by the last one, t being those before it.
LEMMA TogetherLast ==
    ASSUME NEW s, NEW t, NEW n \in Nat \ {0}, Len(s) = n, Len(t) = n - 1,
           \A i \in 1 .. n - 1 : t[i] = s[i]
    PROVE  Together(s) = Together(t) \o s[n]
  <1>1. n - 1 \in Nat
    OBVIOUS
  <1>2. PICK f : Upto(t, n - 1, f)
    BY <1>1, UptoExists
  <1> DEFINE E(i) == IF i = 0 THEN <<>> ELSE f[i - 1] \o s[i]
             F(i) == IF i = 0 THEN <<>> ELSE f[i - 1] \o t[i]
  <1>3. \A i \in 0 .. n - 1 : E(i) = F(i)
    <2> SUFFICES ASSUME NEW i \in 0 .. n - 1 PROVE E(i) = F(i)
      OBVIOUS
    <2>1. CASE i = 0
      BY <2>1
    <2>2. CASE i # 0
      <3>1. t[i] = s[i]
        BY <2>2
      <3> QED BY <2>2, <3>1, Zenon
    <2> QED BY <2>1, <2>2
  <1>4. Upto(s, n - 1, f)
    <2>1. f = [i \in 0 .. n - 1 |-> F(i)]
      BY <1>2, Zenon DEF Upto
    <2> HIDE DEF E, F
    <2>2. f = [i \in 0 .. n - 1 |-> E(i)]
      BY <1>3, <2>1
    <2> QED BY <2>2, Zenon DEF Upto, E
  <1> HIDE DEF E, F
  <1> DEFINE g == Longer(s, n, f)
  <1>5. Upto(s, n, g)
    BY <1>4, UptoLonger
  <1>6. g[n] = f[n - 1] \o s[n]
    <2>1. n \in 0 .. n /\ ~(n < n) /\ n # 0
      OBVIOUS
    <2> QED BY <2>1, Zenon DEF Longer
  <1> HIDE DEF g
  <1>7. Together(s) = g[n]
    BY <1>5, TogetherIs
  <1>8. Together(t) = f[n - 1]
    BY <1>1, <1>2, TogetherIs
  <1> QED BY <1>6, <1>7, <1>8, Zenon

\* Concatenation, as an operator whose definition the steps need not see.
Join(s, t) == s \o t

LEMMA JoinType == \A S : \A s, t \in Seq(S) : Join(s, t) \in Seq(S)
  BY ConcatProperties DEF Join

LEMMA JoinAssociative ==
    \A S : \A s, t, u \in Seq(S) : Join(Join(s, t), u) = Join(s, Join(t, u))
  BY ConcatAssociative DEF Join

LEMMA JoinEmpty == \A S : \A s \in Seq(S) : Join(s, <<>>) = s /\ Join(<<>>, s) = s
  BY ConcatEmptySeq DEF Join

\* The pieces by the first one, t being those behind it.
LEMMA TogetherFirst ==
    ASSUME NEW S, NEW s \in Seq(Seq(S)), NEW t \in Seq(Seq(S)), NEW h \in Seq(S),
           Len(s) = Len(t) + 1, s[1] = h, \A i \in 1 .. Len(t) : s[i + 1] = t[i]
    PROVE  Together(s) = h \o Together(t)
  <1> DEFINE n == Len(t)
  <1>1. n \in Nat /\ n + 1 \in Nat /\ Len(s) = n + 1 /\ \A i \in 1 .. n : t[i] \in Seq(S)
    BY LenProperties, ElementOfSeq
  <1>2. PICK f : Upto(t, n, f)
    BY <1>1, UptoExists
  <1>3. PICK g : Upto(s, n + 1, g)
    BY <1>1, UptoExists
  <1>4. f[0] = <<>> /\ \A i \in 1 .. n : f[i] = f[i - 1] \o t[i]
    BY <1>1, <1>2, UptoFacts
  <1>5. g[0] = <<>> /\ \A i \in 1 .. n + 1 : g[i] = g[i - 1] \o s[i]
    BY <1>1, <1>3, UptoFacts
  <1>6. \A i \in 0 .. n : f[i] \in Seq(S)
    BY <1>2, UptoTypes
  <1> DEFINE T == {i \in 0 .. n : g[i + 1] # h \o f[i]}
  <1>7. Together(t) = f[n] /\ Together(s) = g[n + 1]
    BY <1>1, <1>2, <1>3, TogetherIs
  <1>8. \A i \in 1 .. n : s[i + 1] = t[i]
    OBVIOUS
  <1> HIDE DEF n
  <1>9. T = {}
    <2> SUFFICES ASSUME T # {} PROVE FALSE
      OBVIOUS
    <2>1. T \subseteq Nat
      BY <1>1
    <2>2. PICK x \in T : \A y \in T : x <= y
      <3> HIDE DEF T
      <3> QED BY <2>1, LeastOf
    <2>3. x \in 0 .. n
      OBVIOUS
    <2>4. x # 0
      <3>1. g[1] = <<>> \o h
        <4>1. 1 \in 1 .. n + 1 /\ 1 - 1 = 0
          BY <1>1
        <4>2. g[1] = g[1 - 1] \o s[1]
          BY <1>5, <4>1
        <4> QED BY <1>5, <4>1, <4>2, Zenon
      <3>2. <<>> \o h = h /\ h \o <<>> = h
        BY ConcatEmptySeq
      <3>3. g[0 + 1] = h \o f[0]
        <4>1. 0 + 1 = 1
          OBVIOUS
        <4> QED BY <1>4, <3>1, <3>2, <4>1, Zenon
      <3>4. 0 \notin T
        BY <3>3
      <3> QED BY <3>4
    <2>5. x \in 1 .. n /\ x - 1 \in 0 .. n /\ (x - 1) + 1 = x /\ ~(x <= x - 1)
      BY <1>1, <2>3, <2>4
    <2>6. g[x] = h \o f[x - 1]
      <3>1. x - 1 \notin T
        <4> HIDE DEF T
        <4> QED BY <2>2, <2>5
      <3>2. g[(x - 1) + 1] = h \o f[x - 1]
        BY <2>5, <3>1
      <3> QED BY <2>5, <3>2, Zenon
    <2>7. g[x + 1] = g[x] \o t[x]
      <3>1. x + 1 \in 1 .. n + 1 /\ (x + 1) - 1 = x /\ s[x + 1] = t[x]
        BY <1>1, <1>8, <2>5
      <3>2. g[x + 1] = g[(x + 1) - 1] \o s[x + 1]
        BY <1>5, <3>1
      <3> QED BY <3>1, <3>2, Zenon
    <2>8. f[x] = f[x - 1] \o t[x]
      BY <1>4, <2>5
    <2>9. (h \o f[x - 1]) \o t[x] = h \o (f[x - 1] \o t[x])
      <3>1. f[x - 1] \in Seq(S) /\ t[x] \in Seq(S)
        BY <1>1, <1>6, <2>5
      <3>2. Join(Join(h, f[x - 1]), t[x]) = Join(h, Join(f[x - 1], t[x]))
        BY <3>1, JoinAssociative
      <3> QED BY <3>2, Zenon DEF Join
    <2>10. g[x + 1] = h \o f[x]
      BY <2>6, <2>7, <2>8, <2>9, Zenon
    <2>11. x \notin T
      <3> QED BY <2>10
    <2> QED BY <2>11
  <1>10. g[n + 1] = h \o f[n]
    <2>1. n \in 0 .. n
      BY <1>1
    <2> QED BY <1>9, <2>1
  <1> QED BY <1>7, <1>10, Zenon DEF n

=============================================================================
