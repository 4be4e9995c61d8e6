------------------------------ MODULE UnixProxy ------------------------------
(***************************************************************************)
(* The proxy of proxy.c: a parent that connects to the server, forks the   *)
(* children and waits, and children that serve one client at a time with   *)
(* blocking calls.  The connection to the server is made before the fork:  *)
(* every child reads and writes the same socket.                           *)
(*                                                                         *)
(* A read takes as much as has arrived, which is any beginning of what was *)
(* sent.  A request reaches the socket whole: a child has at most one      *)
(* request of one buffer outstanding, so the socket always has room.       *)
(*                                                                         *)
(* Some definitions are preceded by a faulty variant, without a comment    *)
(* (GiveUpWithClient, IgnoreEnd, ...).  No behaviour uses these; they      *)
(* document which slip in the code each property would notice.             *)
(***************************************************************************)
EXTENDS Protocol, FiniteSets

CONSTANTS
    Client,           \* clients that connect to the proxy
    Child,            \* the child processes, CHILD_PROC_NUM of them
    Text,             \* words that are neither types nor signs
    Streams,          \* what a client may send over one connection
    Horoscope,        \* the line that the server answers for each sign
    ASTROLOG_BUF_LEN, \* cells of a buffer
    CON_QUEUE_SIZE,   \* connections the kernel queues for accept
    Faults,           \* what may fail: "fork", "accept", "astrolog"
    NONE              \* no client

Word ==
    Zodiac \cup Text \cup {DELIMITER, STAR_REQUEST_TYPE, CLIENT_REQUEST_TYPE}
    \cup {STAR_REPLY_FAILURE[1]}

ASSUME ProxyAssumption ==
    /\ IsFiniteSet(Child)
    /\ Streams \subseteq Seq(Word)
    /\ Horoscope \in [Zodiac -> Seq(Word)]
    /\ \A z \in Zodiac : IsLine(Horoscope[z], Len(Horoscope[z]))
    /\ ASTROLOG_BUF_LEN \in Nat /\ ASTROLOG_BUF_LEN > 2
    /\ CON_QUEUE_SIZE \in Nat \ {0}
    /\ NONE \notin Client

VARIABLES
    parent,   \* main: "fork", "wait", "kill" or "exit"
    child,    \* each child's struct proxy_state
    up,       \* what was sent to the server and not read by it
    down,     \* what the server sent and no child has read
    link,     \* the connection to the server: "open", "hung", "fin" or "rst"
    net,      \* each client's connection to the proxy
    backlog   \* connections waiting for accept

upstream == <<up, down, link>>
vars == <<parent, child, upstream, net, backlog>>

\* The server has not closed the connection.  "hung": and it never will by itself,
\* for its only thread is in the loop of update_state that does not end.
Connected == link \in {"open", "hung"}

-----------------------------------------------------------------------------
\* struct proxy_state: state, con_fd and the first len bytes of buf; in recv_line
\* buf is what was received so far.  "NEW" is a child that is not forked yet.
ProxyState ==
    [state : {"NEW", "ACCEPT", "RECV_REQUEST", "SEND_DENIED", "SEND_REQUEST",
              "RECV_REPLY", "SEND_REPLY", "CLIENT_ERROR", "ASTROLOG_ERROR", "SUCCESS",
              "DEAD"},
     con : Client \cup {NONE}, buf : Seq(Word)]

\* A client's connection: what it says, the part of it not read by the proxy,
\* what it was sent, and whether it is still there ("rst": it closed, and then
\* answered with a reset).
Socket ==
    [said : Seq(Word), inq : Seq(Word), got : Seq(Word),
     peer : {"none", "open", "fin", "rst"}]

NoSocket == [said |-> <<>>, inq |-> <<>>, got |-> <<>>, peer |-> "none"]

Init ==
    /\ parent = "fork"
    /\ child = [k \in Child |-> [state |-> "NEW", con |-> NONE, buf |-> <<>>]]
    /\ up = <<>>
    /\ down = <<>>
    /\ link = "open"
    /\ net = [c \in Client |-> NoSocket]
    /\ backlog = <<>>

-----------------------------------------------------------------------------
\* The struct s after one more chunk: still in recv_line, failed, or done.
Collected(s, chunk, failure, done) ==
    LET buf == s.buf \o chunk IN
    CASE recv_line(s.buf, chunk, ASTROLOG_BUF_LEN) = "more" -> [s EXCEPT !.buf = buf]
      [] recv_line(s.buf, chunk, ASTROLOG_BUF_LEN) = "error" -> [s EXCEPT !.state = failure]
      [] OTHER -> [s EXCEPT !.buf = done.buf, !.state = done.state]

Become(k, s) == child' = [child EXCEPT ![k] = s]

Goto(k, state) == Become(k, [child[k] EXCEPT !.state = state])

\* The process ends: exit, SIGPIPE or SIGTERM.  The kernel closes con_fd.
Die(k) ==
    /\ Become(k, [state |-> "DEAD", con |-> NONE, buf |-> <<>>])
    /\ net' = [c \in Client |-> IF c = child[k].con THEN NoSocket ELSE net[c]]

In(k, states) == child[k].state \in states

-----------------------------------------------------------------------------
\* proxy_child: accept, and the end of a connection.
accept(k) ==
    /\ In(k, {"ACCEPT"})
    /\ \/ /\ backlog # <<>>
          /\ backlog' = Tail(backlog)
          /\ Become(k, [state |-> "RECV_REQUEST", con |-> Head(backlog), buf |-> <<>>])
          /\ UNCHANGED net
       \/ "accept" \in Faults /\ Die(k) /\ UNCHANGED backlog
    /\ UNCHANGED <<parent, upstream>>

Disconnect(k) ==
    /\ \/ /\ In(k, {"CLIENT_ERROR", "SUCCESS"})
          /\ Become(k, [state |-> "ACCEPT", con |-> NONE, buf |-> <<>>])
          /\ net' = [net EXCEPT ![child[k].con] = NoSocket]
       \/ In(k, {"ASTROLOG_ERROR"}) /\ Die(k)
    /\ UNCHANGED <<parent, upstream, backlog>>

\* What handle_recv_request does with a line.
Filtered(line) ==
    IF HasType(CLIENT_REQUEST_TYPE, line)
    THEN [state |-> "SEND_REQUEST", buf |-> line]
    ELSE [state |-> "SEND_DENIED", buf |-> STAR_REPLY_FAILURE]

handle_recv_request(k) ==
    LET s == child[k]
        c == s.con IN
    /\ In(k, {"RECV_REQUEST"})
    /\ \/ \E n \in 1 .. MIN(Len(net[c].inq), ASTROLOG_BUF_LEN - Len(s.buf)) :
             LET chunk == First(net[c].inq, n) IN
             /\ net' = [net EXCEPT ![c].inq = After(@, n)]
             /\ Become(k, Collected(s, chunk, "CLIENT_ERROR", Filtered(s.buf \o chunk)))
       \/ /\ net[c].inq = <<>> /\ net[c].peer # "open"
          /\ Goto(k, IF net[c].peer = "fin" THEN "SUCCESS" ELSE "CLIENT_ERROR")
          /\ UNCHANGED net
    /\ UNCHANGED <<parent, upstream, backlog>>

\* A failed send_all does not return from handle_send_request: whether it
\* failed or not, the next state is RECV_REPLY.
handle_send_request(k) ==
    /\ In(k, {"SEND_REQUEST"})
    /\ \/ /\ \/ Connected /\ up' = up \o child[k].buf /\ link' = link
             \/ link = "fin" /\ up' = up /\ link' \in {"fin", "rst"}
             \/ link = "rst" /\ up' = up /\ link' = link
          /\ Become(k, [child[k] EXCEPT !.state = "RECV_REPLY", !.buf = <<>>])
          /\ UNCHANGED net
       \/ link = "rst" /\ Die(k) /\ UNCHANGED <<up, link>>
    /\ UNCHANGED <<parent, down, backlog>>

RecvReply(k) ==
    LET s == child[k] IN
    \E n \in 1 .. MIN(Len(down), ASTROLOG_BUF_LEN - Len(s.buf)) :
        LET chunk == First(down, n) IN
        /\ down' = After(down, n)
        /\ Become(k, Collected(s, chunk, "ASTROLOG_ERROR",
                               [state |-> "SEND_REPLY", buf |-> s.buf \o chunk]))

IgnoreEnd(k) ==
    /\ In(k, {"RECV_REPLY"})
    /\ RecvReply(k)
    /\ UNCHANGED <<parent, up, link, net, backlog>>

GiveUpWithClient(k) ==
    /\ In(k, {"RECV_REPLY"})
    /\ \/ RecvReply(k)
       \/ net[child[k].con].peer # "open" /\ Goto(k, "SUCCESS") /\ UNCHANGED down
       \/ down = <<>> /\ ~Connected /\ Goto(k, "ASTROLOG_ERROR") /\ UNCHANGED down
    /\ UNCHANGED <<parent, up, link, net, backlog>>

handle_recv_reply(k) ==
    /\ In(k, {"RECV_REPLY"})
    /\ \/ RecvReply(k)
       \/ down = <<>> /\ ~Connected /\ Goto(k, "ASTROLOG_ERROR") /\ UNCHANGED down
    /\ UNCHANGED <<parent, up, link, net, backlog>>

handle_send_reply(k) ==
    LET s == child[k]
        c == s.con IN
    /\ In(k, {"SEND_DENIED", "SEND_REPLY"})
    /\ \/ /\ net[c].peer # "rst"
          /\ \E p \in IF net[c].peer = "open" THEN {"open"} ELSE {"fin", "rst"} :
                net' = [net EXCEPT ![c].got = @ \o s.buf, ![c].peer = p]
          /\ Become(k, [s EXCEPT !.state = "RECV_REQUEST", !.buf = <<>>])
       \/ net[c].peer = "rst" /\ Goto(k, "CLIENT_ERROR") /\ UNCHANGED net
       \/ net[c].peer = "rst" /\ Die(k)
    /\ UNCHANGED <<parent, upstream, backlog>>

proxy_child(k) ==
    \/ accept(k)
    \/ handle_recv_request(k)
    \/ handle_send_request(k)
    \/ handle_recv_reply(k)
    \/ handle_send_reply(k)
    \/ Disconnect(k)

-----------------------------------------------------------------------------
\* main: the loop of forks, the wait for the first child that dies, and
\* kill_children_procs.
Fork(k) ==
    /\ parent = "fork" /\ In(k, {"NEW"})
    /\ Goto(k, "ACCEPT")
    /\ parent' = IF \A j \in Child \ {k} : ~In(j, {"NEW"}) THEN "wait" ELSE "fork"
    /\ UNCHANGED <<upstream, net, backlog>>

ForkFailed ==
    /\ parent = "fork" /\ "fork" \in Faults
    /\ parent' = "kill"
    /\ UNCHANGED <<child, upstream, net, backlog>>

WaitForAll ==
    /\ parent = "wait"
    /\ \A k \in Child : In(k, {"DEAD"})
    /\ parent' = "kill"
    /\ UNCHANGED <<child, upstream, net, backlog>>

wait ==
    /\ parent = "wait"
    /\ \E k \in Child : In(k, {"DEAD"})
    /\ parent' = "kill"
    /\ UNCHANGED <<child, upstream, net, backlog>>

kill_children_procs(k) ==
    /\ parent = "kill" /\ ~In(k, {"NEW", "DEAD"})
    /\ Die(k)
    /\ UNCHANGED <<parent, upstream, backlog>>

Exit ==
    /\ parent = "kill" /\ \A k \in Child : In(k, {"NEW", "DEAD"})
    /\ parent' = "exit" /\ up' = <<>> /\ down' = <<>> /\ link' = "fin"
    /\ net' = [c \in Client |-> NoSocket] /\ backlog' = <<>>
    /\ UNCHANGED child

main ==
    \/ ForkFailed \/ wait \/ Exit
    \/ \E k \in Child : Fork(k) \/ kill_children_procs(k)

-----------------------------------------------------------------------------
\* The server at the other end of the link.  It answers the lines it is sent one
\* by one.
Understood(line) == HasType(CLIENT_REQUEST_TYPE, line) /\ find_zodiac(line)

AnswerLine(n) ==
    /\ Understood(First(up, n))
    /\ up' = After(up, n) /\ down' = down \o Horoscope[up[2]] /\ link' = link

\* For a line that it does not understand it drops the connection.
DropLink(n) ==
    /\ ~Understood(First(up, n))
    /\ up' = <<>> /\ link' \in {"fin", "rst"} /\ down' = down

\* But if the read that ended this line brought words of another request along,
\* interm_buf is not empty, op is still OP_READ, and update_state goes round for
\* ever: nothing more is read, and no connection is closed.
HangOnLine(n) ==
    /\ ~Understood(First(up, n)) /\ n < Len(up)
    /\ up' = After(up, n) /\ link' = "hung" /\ down' = down

Answer(n) ==
    /\ link = "open" /\ IsLine(up, n)
    /\ AnswerLine(n) \/ DropLink(n) \/ HangOnLine(n)
    /\ UNCHANGED <<parent, child, net, backlog>>

\* The server ended, or, unless it hangs, its timer dropped the connection.
AstrologClosed ==
    /\ Connected /\ "astrolog" \in Faults /\ parent # "exit"
    /\ up' = <<>> /\ link' \in {"fin", "rst"}
    /\ UNCHANGED <<parent, child, down, net, backlog>>

\* A client that the server has besides the proxy made it hang.
AstrologHangs ==
    /\ link = "open" /\ "astrolog" \in Faults
    /\ link' = "hung"
    /\ UNCHANGED <<parent, child, up, down, net, backlog>>

Connect(c, s) ==
    /\ parent # "exit" /\ net[c].peer = "none" /\ Len(backlog) < CON_QUEUE_SIZE
    /\ net' = [net EXCEPT ![c] = [said |-> s, inq |-> s, got |-> <<>>, peer |-> "open"]]
    /\ backlog' = Append(backlog, c)
    /\ UNCHANGED <<parent, child, upstream>>

\* The client leaves; n words of what it had to say were still sent.
ClientClose(c, n) ==
    /\ net[c].peer = "open" /\ n \in 0 .. Len(net[c].inq)
    /\ net' = [net EXCEPT ![c].peer = "fin", ![c].inq = First(@, n)]
    /\ UNCHANGED <<parent, child, upstream, backlog>>

Astrolog == AstrologClosed \/ AstrologHangs \/ \E n \in 1 .. Len(up) : Answer(n)

Clients ==
    \E c \in Client :
        \/ \E s \in Streams : Connect(c, s)
        \/ \E n \in 0 .. Len(net[c].inq) : ClientClose(c, n)

Ended == parent = "exit" /\ UNCHANGED vars

Next == main \/ Astrolog \/ Clients \/ Ended \/ \E k \in Child : proxy_child(k)

Spec == Init /\ [][Next]_vars

\* Every process runs, the server goes on to the next line unless it hangs, and
\* a child whose recv finds data again and again gets some: the kernel wakes every
\* reader.
FairSpec ==
    /\ Spec
    /\ WF_vars(main)
    /\ \A k \in Child : WF_vars(proxy_child(k)) /\ SF_vars(handle_recv_reply(k))
    /\ WF_vars(\E n \in 1 .. Len(up) : Answer(n))

-----------------------------------------------------------------------------
\* A child holds a client exactly while it is in the loop of
\* process_new_connection, and no more than a buffer of bytes.
TypeOK ==
    /\ parent \in {"fork", "wait", "kill", "exit"}
    /\ child \in [Child -> ProxyState]
    /\ \A k \in Child : child[k].con = NONE <=> In(k, {"NEW", "ACCEPT", "DEAD"})
    /\ \A k \in Child : Len(child[k].buf) <= ASTROLOG_BUF_LEN
    /\ up \in Seq(Word)
    /\ down \in Seq(Word)
    /\ link \in {"open", "hung", "fin", "rst"}
    /\ net \in [Client -> Socket]
    /\ backlog \in Seq(Client)

\* The access control that the proxy exists for, on the stream and not on the
\* lines the proxy thinks it forwards: wherever the server cuts what it is sent
\* into lines, no line is a star's request.
StartsLine(s, i) == i = 1 \/ s[i - 1] = DELIMITER

AccessControl ==
    /\ up = <<>> \/ up[Len(up)] = DELIMITER
    /\ \A i \in 1 .. Len(up) : StartsLine(up, i) => up[i] = CLIENT_REQUEST_TYPE

\* Until a child saw the connection fail, there are never more replies on their
\* way than children that wait for one, also when requests could not be sent or the
\* server is gone: whoever reads whose reply, none is left over to be taken for
\* the reply to a later request.  And while the server serves, none is missing.
Delimiters(s) == Cardinality({i \in 1 .. Len(s) : s[i] = DELIMITER})

UnderWay == Delimiters(up) + Delimiters(down)

Waiters == Cardinality({k \in Child : In(k, {"RECV_REPLY"})})

RepliesMatchWaiters ==
    (\A k \in Child : ~In(k, {"ASTROLOG_ERROR", "DEAD"})) =>
        /\ UnderWay <= Waiters
        /\ link = "open" => UnderWay = Waiters

\* A client is sent the reply to its own request, and the whole of it.
Line(s, i) ==
    LET End(j) == CHOOSE n \in 1 .. Len(s) : s[n] = DELIMITER /\ Delimiters(First(s, n)) = j IN
    SubSeq(s, IF i = 1 THEN 1 ELSE End(i - 1) + 1, End(i))

ReplyTo(line) ==
    IF HasType(CLIENT_REQUEST_TYPE, line) THEN Horoscope[line[2]] ELSE STAR_REPLY_FAILURE

OwnReply ==
    \A c \in Client : \A i \in 1 .. Delimiters(net[c].got) :
        Line(net[c].got, i) = ReplyTo(Line(net[c].said, i))

\* A child that waits for a reply gets one or gives up, although the others
\* read the same socket and may take its reply, or a part of it, and although a
\* bad request of one of them can end the connection for all.  Only a server that
\* hangs for good keeps it waiting: its recv has no time-out.
WaitersReturn ==
    []<>(link # "hung") => \A k \in Child : In(k, {"RECV_REPLY"}) ~> ~In(k, {"RECV_REPLY"})

\* The death of one child ends the proxy.
DeathEndsAll == \A k \in Child : In(k, {"DEAD"}) ~> parent = "exit"

=============================================================================
