------------------------------- MODULE Astrolog -------------------------------
(***************************************************************************)
(* The server of astrolog.c: one process, an epoll loop over non-blocking  *)
(* sockets, one struct server_state per connection, and the heap of their  *)
(* deadlines.  Around it, as far as the server can observe them, are the   *)
(* kernel's sockets, the clients and the passing of time.                  *)
(*                                                                         *)
(* The heap is the abstract priority queue that BinaryHeap implements: the *)
(* set of queued connections, of which a one with a least deadline is the  *)
(* top.  A deadline is kept as the time left until it, which stays at 0    *)
(* once it has passed.                                                     *)
(*                                                                         *)
(* Some definitions are preceded by a faulty variant, without a comment    *)
(* (FreeWithoutHeapRemove, RoundedUpTimeout, ...).  No behaviour uses      *)
(* these; they document which slip in the code each property would notice. *)
(***************************************************************************)
EXTENDS Protocol, FiniteSets

CONSTANTS
    Conn,             \* connections; also the addresses of their structs
    Text,             \* words that are neither types nor signs
    Streams,          \* what a client may send over one connection
    CLIENT_CON_NUM,   \* the capacity of the heap and of the event array
    CON_QUEUE_SIZE,   \* connections the kernel queues for accept4
    ASTROLOG_BUF_LEN, \* cells of a buffer
    SNDBUF,           \* cells a client may leave unread before send blocks
    RECV_TIMEOUT, SEND_TIMEOUT, \* in units of time
    MS,               \* units of time in the millisecond of epoll_wait
    TimePasses,       \* FALSE: everything happens within one unit of time
    Faults,           \* the system calls that may fail
    NONE              \* no connection, no sign

LISTEN == "listen_socket"   \* the event whose data.ptr is NULL
NUL == "NUL"                \* a cell never written

Word ==
    Zodiac \cup Text \cup {DELIMITER, STAR_REQUEST_TYPE, CLIENT_REQUEST_TYPE}
    \cup {STAR_REPLY_SUCCESS[1], CLIENT_REPLY_FAILURE[1], NUL}

ASSUME AstrologAssumption ==
    /\ Streams \subseteq Seq(Word)
    /\ CLIENT_CON_NUM \in Nat \ {0}
    /\ CON_QUEUE_SIZE \in Nat \ {0}
    /\ ASTROLOG_BUF_LEN \in Nat /\ ASTROLOG_BUF_LEN > 2
    /\ SNDBUF \in Nat \ {0}
    /\ RECV_TIMEOUT \in Nat \ {0}
    /\ SEND_TIMEOUT \in Nat \ {0}
    /\ MS \in Nat \ {0}
    /\ TimePasses \in BOOLEAN
    /\ Faults \subseteq {"accept4", "malloc", "epoll_ctl", "epoll_wait"}
    /\ NONE \notin Conn \cup Zodiac
    /\ LISTEN \notin Conn

VARIABLES
    pc,        \* where the process is: see TypeOK
    wait_left, \* while it waits in epoll_wait: time left, -1 for ever
    events,    \* the events of the last epoll_wait not handled yet
    expired,   \* the connections discard_expired_connections has still to drop
    cur,       \* the connection that update_state works on
    init_op,   \* update_state's local copy of s->op
    heap,      \* the connections in the heap
    epoll,     \* the event each connection is registered for
    ss,        \* each connection's struct server_state
    zodiac_prognosises,
    net,       \* each connection's socket, and its client
    backlog    \* connections waiting for accept4

process == <<pc, wait_left, events, expired, cur, init_op>>
server == <<heap, epoll, ss, zodiac_prognosises>>
vars == <<process, server, net, backlog>>

-----------------------------------------------------------------------------
\* struct server_state.  interm is what interm_buf still holds from pos to
\* len.  buf is what was received into buf, or while op is WRITE what is left
\* to send from cur_pos on; rem follows from its length.
ServerState ==
    [interm : Seq(Word), buf : Seq(Word), zodiac_ix : Zodiac \cup {NONE},
     state : {"FREED", "RECV_FIRST_LINE", "RECV_H", "SEND_THANKS", "SEND_H",
              "ERROR", "SUCCESS"},
     op : {"READ", "WRITE"}, ttl : Nat]

Freed ==
    [interm |-> <<>>, buf |-> <<>>, zodiac_ix |-> NONE, state |-> "FREED",
     op |-> "READ", ttl |-> 0]

Created == [Freed EXCEPT !.state = "RECV_FIRST_LINE", !.ttl = RECV_TIMEOUT]

\* A socket: bytes received and not read, bytes sent so far, how many of them
\* the client has not read, what became of the client ("fin": it closed;
\* "rst": it closed and then answered with a reset; "abort": it reset the
\* connection at once), and the words the client has still to send.
Socket ==
    [inq : Seq(Word), sent : Seq(Word), unread : 0 .. SNDBUF,
     peer : {"none", "open", "fin", "rst", "abort"}, todo : Seq(Word)]

NoSocket ==
    [inq |-> <<>>, sent |-> <<>>, unread |-> 0, peer |-> "none", todo |-> <<>>]

Init ==
    /\ pc = "run"
    /\ wait_left = 0
    /\ events = {}
    /\ expired = {}
    /\ cur = NONE
    /\ init_op = "READ"
    /\ heap = {}
    /\ epoll = [c \in Conn |-> "none"]
    /\ ss = [c \in Conn |-> Freed]
    /\ zodiac_prognosises = [z \in Zodiac |-> [i \in 1 .. ASTROLOG_BUF_LEN |-> NUL]]
    /\ net = [c \in Conn |-> NoSocket]
    /\ backlog = <<>>

-----------------------------------------------------------------------------
FreeWithoutHeapRemove(C) ==
    /\ heap' = heap
    /\ epoll' = [c \in Conn |-> IF c \in C THEN "none" ELSE epoll[c]]
    /\ ss' = [c \in Conn |-> IF c \in C THEN Freed ELSE ss[c]]
    /\ net' = [c \in Conn |-> IF c \in C THEN NoSocket ELSE net[c]]

\* remove_server_state for every connection of C.
remove_server_state(C) ==
    /\ heap' = heap \ C
    /\ epoll' = [c \in Conn |-> IF c \in C THEN "none" ELSE epoll[c]]
    /\ ss' = [c \in Conn |-> IF c \in C THEN Freed ELSE ss[c]]
    /\ net' = [c \in Conn |-> IF c \in C THEN NoSocket ELSE net[c]]

\* update_ts: the time from now to the new deadline.
update_ts(op) == IF op = "READ" THEN RECV_TIMEOUT ELSE SEND_TIMEOUT

\* binary_heap_top: a connection with a least deadline.
Top == {c \in heap : \A d \in heap : ss[c].ttl <= ss[d].ttl}

RoundedUpTimeout ==
    IF heap = {} THEN {-1} ELSE {((ss[c].ttl + MS - 1) \div MS) * MS : c \in Top}

\* min_timeout: the whole milliseconds until the least deadline.
min_timeout ==
    IF heap = {} THEN {-1} ELSE {(ss[c].ttl \div MS) * MS : c \in Top}

-----------------------------------------------------------------------------
\* The main loop, between two handlers: a call of epoll_wait when the batch of
\* events, or of expired connections, is done.
epoll_wait ==
    /\ pc = "run" /\ events = {} /\ expired = {}
    /\ pc' = "wait"
    /\ wait_left' \in min_timeout
    /\ UNCHANGED <<events, expired, cur, init_op, server, net, backlog>>

\* What the kernel reports for a registered socket: level-triggered; the end
\* of the peer is readable, and a reset is reported whatever was asked for.
IsReady(c) ==
    \/ epoll[c] = "IN" /\ (net[c].inq # <<>> \/ net[c].peer # "open")
    \/ epoll[c] = "OUT" /\ (net[c].unread < SNDBUF \/ net[c].peer # "open")

Ready == {c \in heap : IsReady(c)} \cup {e \in {LISTEN} : backlog # <<>>}

OneEventTooMany ==
    /\ pc = "wait" /\ Ready # {}
    /\ \E c \in Ready \cup heap : events' = Ready \cup {c}
    /\ pc' = "run"
    /\ UNCHANGED <<wait_left, expired, cur, init_op, server, net, backlog>>

\* One event per ready descriptor, as many as the array holds.
EventsReported ==
    /\ pc = "wait" /\ Ready # {}
    /\ \E E \in SUBSET Ready :
          /\ Cardinality(E) = MIN(Cardinality(Ready), CLIENT_CON_NUM)
          /\ events' = E
    /\ pc' = "run"
    /\ UNCHANGED <<wait_left, expired, cur, init_op, server, net, backlog>>

NoneExpired == {c \in heap : ss[c].ttl < 0}

Expired == {c \in heap : ss[c].ttl = 0}

\* epoll_wait returned 0: discard_expired_connections reads the clock.
WaitTimedOut ==
    /\ pc = "wait" /\ Ready = {} /\ wait_left = 0
    /\ expired' = Expired
    /\ pc' = "run"
    /\ UNCHANGED <<wait_left, events, cur, init_op, server, net, backlog>>

WaitFailed ==
    /\ pc = "wait" /\ "epoll_wait" \in Faults
    /\ pc' = "free"
    /\ UNCHANGED <<wait_left, events, expired, cur, init_op, server, net, backlog>>

\* The body of discard_expired_connections' loop, up to update_state.
discard_expired_connections(c) ==
    /\ pc = "run" /\ c \in expired
    /\ expired' = expired \ {c}
    /\ ss' = [ss EXCEPT ![c].state = "ERROR"]
    /\ pc' = "update" /\ cur' = c /\ init_op' = ss[c].op
    /\ UNCHANGED <<wait_left, events, heap, epoll, zodiac_prognosises, net, backlog>>

\* An event of a connection: update_state begins.
Dispatch(c) ==
    /\ pc = "run" /\ c \in events
    /\ events' = events \ {c}
    /\ pc' = "update" /\ cur' = c /\ init_op' = ss[c].op
    /\ UNCHANGED <<wait_left, expired, server, net, backlog>>

\* What becomes of a connection that accept4 returned.
create_server_state(c) ==
    /\ Cardinality(heap) < CLIENT_CON_NUM
    /\ heap' = heap \cup {c}
    /\ epoll' = [epoll EXCEPT ![c] = "IN"]
    /\ ss' = [ss EXCEPT ![c] = Created]
    /\ UNCHANGED <<pc, net>>

LeakRejected(c) ==
    Cardinality(heap) >= CLIENT_CON_NUM /\ UNCHANGED <<pc, heap, epoll, ss, net>>

Rejected(c) ==
    /\ Cardinality(heap) >= CLIENT_CON_NUM
    /\ net' = [net EXCEPT ![c] = NoSocket]
    /\ UNCHANGED <<pc, heap, epoll, ss>>

FreedInHeap(c) ==
    /\ heap' = heap \cup {c}
    /\ epoll' = [epoll EXCEPT ![c] = "none"]
    /\ ss' = [ss EXCEPT ![c] = Freed]

\* EPOLL_ADD_ERR: the struct was pushed before epoll_ctl failed, and leaves the
\* heap again before it is freed.
Undone(c) ==
    /\ heap' = (heap \cup {c}) \ {c}
    /\ epoll' = [epoll EXCEPT ![c] = "none"]
    /\ ss' = [ss EXCEPT ![c] = Freed]

\* create_server_state returned -1: process_new_connection closes the socket,
\* and the clean-up of main follows.
SetupFailed(c) ==
    /\ Cardinality(heap) < CLIENT_CON_NUM
    /\ \/ "malloc" \in Faults /\ UNCHANGED <<heap, epoll, ss>>
       \/ "epoll_ctl" \in Faults /\ Undone(c)
    /\ net' = [net EXCEPT ![c] = NoSocket]
    /\ pc' = "free"

\* The event of the listening socket.  A connection over the limit is closed,
\* and so is one that could not be set up, but then the server ends as well.
process_new_connection ==
    /\ pc = "run" /\ LISTEN \in events
    /\ events' = events \ {LISTEN}
    /\ \/ /\ "accept4" \in Faults
          /\ pc' = "free"
          /\ UNCHANGED <<server, net, backlog>>
       \/ LET c == Head(backlog) IN
          /\ backlog' = Tail(backlog)
          /\ create_server_state(c) \/ Rejected(c) \/ SetupFailed(c)
          /\ UNCHANGED zodiac_prognosises
    /\ UNCHANGED <<wait_left, expired, cur, init_op>>

\* FREE_HEAP_ELEMS, and the end of the process.
FreeHeapElem(c) ==
    /\ pc = "free" /\ c \in heap
    /\ remove_server_state({c})
    /\ UNCHANGED <<process, zodiac_prognosises, backlog>>

Exit ==
    /\ pc = "free" /\ heap = {}
    /\ pc' = "exit" /\ events' = {}
    /\ net' = [c \in Conn |-> NoSocket] /\ backlog' = <<>>
    /\ UNCHANGED <<wait_left, expired, cur, init_op, server>>

-----------------------------------------------------------------------------
\* buffered_recv_until_delim.  It reads the socket only when interm_buf is
\* empty, and hands out at most rem cells and never more than one line.
Buffered(c) ==
    IF ss[c].interm # <<>>
    THEN ss[c].interm
    ELSE First(net[c].inq, MIN(ASTROLOG_BUF_LEN, Len(net[c].inq)))

LeftInSocket(c) ==
    IF ss[c].interm # <<>>
    THEN net[c].inq
    ELSE After(net[c].inq, MIN(ASTROLOG_BUF_LEN, Len(net[c].inq)))

RoomForTerminator(s) == ASTROLOG_BUF_LEN + 1 - Len(s.buf)

Rem(s) == ASTROLOG_BUF_LEN - Len(s.buf)

ChunkSize(data, rem, n) ==
    /\ n \in 1 .. MIN(rem, Len(data))
    /\ \A i \in 1 .. n - 1 : data[i] # DELIMITER
    /\ data[n] = DELIMITER \/ n = MIN(rem, Len(data))

RecvFailed(c) == Buffered(c) = <<>> /\ net[c].peer \in {"open", "abort"}

RecvEnded(c) == Buffered(c) = <<>> /\ net[c].peer \in {"fin", "rst"}

\* The struct after n cells were received.
Received(c, n) ==
    [ss[c] EXCEPT !.buf = @ \o First(Buffered(c), n), !.interm = After(Buffered(c), n)]

LineEnds(s) == s.buf[Len(s.buf)] = DELIMITER

IteratedOnce(c, s) ==
    /\ ss' = [ss EXCEPT ![c] = s]
    /\ pc' = "finish"
    /\ UNCHANGED <<wait_left, events, expired, cur, init_op, heap, epoll, backlog>>

IteratedWhileReading(c, s) ==
    /\ ss' = [ss EXCEPT ![c] = s]
    /\ pc' = IF s.op = "READ" /\ s.state \notin {"ERROR", "SUCCESS"} THEN "update" ELSE "finish"
    /\ UNCHANGED <<wait_left, events, expired, cur, init_op, heap, epoll, backlog>>

\* The end of an iteration of update_state's loop, which left the struct s.
Iterated(c, s) ==
    /\ ss' = [ss EXCEPT ![c] = s]
    /\ pc' = IF s.op = "READ" /\ s.interm # <<>> THEN "update" ELSE "finish"
    /\ UNCHANGED <<wait_left, events, expired, cur, init_op, heap, epoll, backlog>>

Handling(c, states) == pc = "update" /\ c = cur /\ ss[c].state \in states

-----------------------------------------------------------------------------
Failed(s) == [s EXCEPT !.state = "ERROR"]

parse_star_first_line(s) ==
    IF find_zodiac(s.buf)
    THEN [s EXCEPT !.buf = <<>>, !.zodiac_ix = s.buf[2], !.state = "RECV_H",
                   !.op = "READ", !.ttl = update_ts("READ")]
    ELSE Failed(s)

\* The table's row up to its first delimiter; a row without one is unset.
Row(z, n) == IsLine(zodiac_prognosises[z], n)

Prognosis(z) ==
    IF \E n \in 1 .. ASTROLOG_BUF_LEN : Row(z, n)
    THEN First(zodiac_prognosises[z], CHOOSE n \in 1 .. ASTROLOG_BUF_LEN : Row(z, n))
    ELSE <<>>

parse_client_first_line(s) ==
    IF find_zodiac(s.buf)
    THEN [s EXCEPT !.buf = IF Prognosis(s.buf[2]) = <<>>
                           THEN CLIENT_REPLY_FAILURE
                           ELSE Prognosis(s.buf[2]),
                   !.state = "SEND_H", !.op = "WRITE", !.ttl = update_ts("WRITE")]
    ELSE Failed(s)

\* handle_first_line once bytes were received into s.
FirstLine(s) ==
    CASE ~LineEnds(s) /\ Rem(s) > 0 -> s
      [] LineEnds(s) /\ HasType(STAR_REQUEST_TYPE, s.buf) -> parse_star_first_line(s)
      [] LineEnds(s) /\ HasType(CLIENT_REQUEST_TYPE, s.buf) -> parse_client_first_line(s)
      [] OTHER -> Failed(s)

handle_first_line(c) ==
    /\ Handling(c, {"RECV_FIRST_LINE"})
    /\ \/ /\ RecvFailed(c)
          /\ Iterated(c, Failed(ss[c]))
          /\ UNCHANGED net
       \/ /\ RecvEnded(c)
          /\ Iterated(c, [ss[c] EXCEPT !.state = IF ss[c].buf = <<>> THEN "SUCCESS"
                                                ELSE "ERROR"])
          /\ UNCHANGED net
       \/ \E n \in 1 .. ASTROLOG_BUF_LEN :
             /\ ChunkSize(Buffered(c), Rem(ss[c]), n)
             /\ net' = [net EXCEPT ![c].inq = LeftInSocket(c)]
             /\ Iterated(c, FirstLine(Received(c, n)))
    /\ UNCHANGED zodiac_prognosises

WithoutDelimiter(row, line) ==
    [i \in 1 .. ASTROLOG_BUF_LEN |-> IF i < Len(line) THEN line[i] ELSE row[i]]

\* memcpy of a line over the beginning of a row.
Overwritten(row, line) ==
    [i \in 1 .. ASTROLOG_BUF_LEN |-> IF i <= Len(line) THEN line[i] ELSE row[i]]

handle_recv_h(c) ==
    /\ Handling(c, {"RECV_H"})
    /\ \/ /\ RecvFailed(c) \/ RecvEnded(c)
          /\ Iterated(c, Failed(ss[c]))
          /\ UNCHANGED <<net, zodiac_prognosises>>
       \/ \E n \in 1 .. ASTROLOG_BUF_LEN :
             LET s == Received(c, n) IN
             /\ ChunkSize(Buffered(c), Rem(ss[c]), n)
             /\ net' = [net EXCEPT ![c].inq = LeftInSocket(c)]
             /\ \/ /\ LineEnds(s)
                   /\ zodiac_prognosises' =
                         [zodiac_prognosises EXCEPT ![s.zodiac_ix] = Overwritten(@, s.buf)]
                   /\ Iterated(c, [s EXCEPT !.buf = STAR_REPLY_SUCCESS, !.zodiac_ix = NONE,
                                            !.state = "SEND_THANKS", !.op = "WRITE",
                                            !.ttl = update_ts("WRITE")])
                \/ /\ ~LineEnds(s)
                   /\ Iterated(c, IF Rem(s) = 0 THEN Failed(s) ELSE s)
                   /\ UNCHANGED zodiac_prognosises

\* What send takes: all that fits, and everything once the client has closed.
SendSize(c) ==
    IF net[c].peer = "fin"
    THEN Len(ss[c].buf)
    ELSE MIN(Len(ss[c].buf), SNDBUF - net[c].unread)

Sent(c) ==
    LET rest == After(ss[c].buf, SendSize(c)) IN
    IF rest = <<>>
    THEN [ss[c] EXCEPT !.buf = <<>>, !.state = "RECV_FIRST_LINE", !.op = "READ",
                       !.ttl = update_ts("READ")]
    ELSE [ss[c] EXCEPT !.buf = rest]

\* send raises SIGPIPE when the connection was closed and then reset: nothing
\* handles it, and the kernel closes every socket of the process.
Killed ==
    /\ remove_server_state(Conn)
    /\ pc' = "killed" /\ events' = {} /\ expired' = {} /\ backlog' = <<>>
    /\ UNCHANGED <<wait_left, cur, init_op>>

handle_send_reply(c) ==
    /\ Handling(c, {"SEND_THANKS", "SEND_H"})
    /\ \/ net[c].peer = "rst" /\ Killed
       \/ /\ net[c].peer = "abort" \/ (net[c].peer = "open" /\ net[c].unread = SNDBUF)
          /\ Iterated(c, Failed(ss[c]))
          /\ UNCHANGED net
       \/ /\ net[c].peer = "open" /\ net[c].unread < SNDBUF
          /\ Iterated(c, Sent(c))
          /\ net' = [net EXCEPT ![c].sent = @ \o First(ss[c].buf, SendSize(c)),
                                ![c].unread = @ + SendSize(c)]
       \/ /\ net[c].peer = "fin"
          /\ Iterated(c, Sent(c))
          /\ \E p \in {"fin", "rst"} :
                net' = [net EXCEPT ![c].sent = @ \o First(ss[c].buf, SendSize(c)),
                                   ![c].peer = p]
    /\ UNCHANGED zodiac_prognosises

\* The switch's default: nothing is done, and the loop test decides.
NothingToHandle(c) ==
    /\ Handling(c, {"ERROR", "SUCCESS"})
    /\ Iterated(c, ss[c])
    /\ UNCHANGED <<net, zodiac_prognosises>>

\* The event to wait for: changed when the operation is not that at the start.
StaleRegistration(c) == epoll[c]

Registration(c) ==
    IF ss[c].op = init_op THEN epoll[c] ELSE IF ss[c].op = "READ" THEN "IN" ELSE "OUT"

\* update_state after its loop.
Finish(c) ==
    /\ pc = "finish" /\ c = cur
    /\ \/ /\ ss[c].state \in {"ERROR", "SUCCESS"}
          /\ remove_server_state({c})
          /\ pc' = "run"
       \/ /\ ss[c].state \notin {"ERROR", "SUCCESS"}
          /\ \/ /\ epoll' = [epoll EXCEPT ![c] = Registration(c)]
                /\ pc' = "run"
             \/ /\ ss[c].op # init_op /\ "epoll_ctl" \in Faults
                /\ pc' = "free"
                /\ UNCHANGED epoll
          /\ UNCHANGED <<heap, ss, net>>
    /\ cur' = NONE /\ init_op' = "READ"
    /\ UNCHANGED <<wait_left, events, expired, zodiac_prognosises, backlog>>

update_state(c) ==
    \/ handle_first_line(c)
    \/ handle_recv_h(c)
    \/ handle_send_reply(c)
    \/ NothingToHandle(c)
    \/ Finish(c)

-----------------------------------------------------------------------------
\* The clients and the kernel's side of their sockets.
Alive == pc \notin {"exit", "killed"}

Connect(c, s) ==
    /\ Alive /\ net[c].peer = "none" /\ Len(backlog) < CON_QUEUE_SIZE
    /\ net' = [net EXCEPT ![c] = [NoSocket EXCEPT !.peer = "open", !.todo = s]]
    /\ backlog' = Append(backlog, c)
    /\ UNCHANGED <<process, server>>

ClientSend(c, n) ==
    /\ net[c].peer = "open" /\ n \in 1 .. Len(net[c].todo)
    /\ net' = [net EXCEPT ![c].inq = @ \o First(net[c].todo, n), ![c].todo = After(@, n)]
    /\ UNCHANGED <<process, server, backlog>>

ClientRecv(c) ==
    /\ net[c].peer = "open" /\ net[c].unread > 0
    /\ net' = [net EXCEPT ![c].unread = 0]
    /\ UNCHANGED <<process, server, backlog>>

\* A client that leaves without reading what it was sent resets the connection,
\* at once or when the bytes on their way reach it.
ClientClose(c) ==
    /\ net[c].peer = "open"
    /\ \E p \in IF net[c].unread = 0 THEN {"fin"} ELSE {"rst", "abort"} :
          net' = [net EXCEPT ![c].peer = p, ![c].unread = 0]
    /\ UNCHANGED <<process, server, backlog>>

Before(t) == IF t > 0 THEN t - 1 ELSE t

Tick ==
    /\ TimePasses /\ Alive
    /\ \E c \in heap : ss[c].ttl > 0
    /\ ss' = [c \in Conn |-> [ss[c] EXCEPT !.ttl = Before(@)]]
    /\ wait_left' = Before(wait_left)
    /\ UNCHANGED <<pc, events, expired, cur, init_op, heap, epoll, zodiac_prognosises,
                   net, backlog>>

-----------------------------------------------------------------------------
Server ==
    \/ epoll_wait \/ EventsReported \/ WaitTimedOut \/ WaitFailed
    \/ process_new_connection \/ Exit
    \/ \E c \in Conn : \/ discard_expired_connections(c)
                       \/ Dispatch(c)
                       \/ update_state(c)
                       \/ FreeHeapElem(c)

Client(c) ==
    \/ \E s \in Streams : Connect(c, s)
    \/ \E n \in 1 .. Len(net[c].todo) : ClientSend(c, n)
    \/ ClientRecv(c)
    \/ ClientClose(c)

Ended == ~Alive /\ UNCHANGED vars

Next == Server \/ Tick \/ Ended \/ \E c \in Conn : Client(c)

Spec == Init /\ [][Next]_vars

\* The process runs.  epoll_wait reports a descriptor that is ready again and
\* again, because the kernel's ready list rotates, and returns 0 when its time
\* is up and nothing is ready.
FairServer ==
    /\ WF_vars(Server)
    /\ \A e \in Conn \cup {LISTEN} : SF_vars(EventsReported /\ e \in events')
    /\ SF_vars(WaitTimedOut)

\* The clock goes on; clients do as they like.
FairSpec == Spec /\ FairServer /\ WF_vars(Tick)

-----------------------------------------------------------------------------
TypeOK ==
    /\ pc \in {"run", "wait", "update", "finish", "free", "exit", "killed"}
    /\ wait_left \in Nat \cup {-1}
    /\ events \subseteq Conn \cup {LISTEN}
    /\ expired \subseteq Conn
    /\ cur \in Conn \cup {NONE}
    /\ init_op \in {"READ", "WRITE"}
    /\ heap \subseteq Conn
    /\ epoll \in [Conn -> {"none", "IN", "OUT"}]
    /\ ss \in [Conn -> ServerState]
    /\ zodiac_prognosises \in [Zodiac -> [1 .. ASTROLOG_BUF_LEN -> Word]]
    /\ net \in [Conn -> Socket]
    /\ backlog \in Seq(Conn)

InUpdate(c) == pc \in {"update", "finish"} /\ c = cur

\* Every struct that an event, the list of expired connections or update_state
\* still points to is allocated and in the heap, and accept4 on the blocking
\* listening socket always finds a connection.  The heap itself never points to
\* a freed struct and misses no allocated one, not even where main's clean-up
\* walks it after a connection that could not be set up.
EventsAlive ==
    /\ pc \notin {"free", "exit", "killed"} =>
          /\ events \ {LISTEN} \subseteq heap
          /\ expired \subseteq heap
          /\ pc \in {"update", "finish"} => cur \in heap \ (events \cup expired)
          /\ LISTEN \in events => backlog # <<>>
    /\ \A c \in Conn : c \in heap <=> ss[c].state # "FREED"

\* What epoll_wait reported is still true when the event's turn comes, whatever
\* the server did for the events before it and whatever the clients did since.
EventsStayReady ==
    pc \notin {"free", "exit", "killed"} => \A c \in events \ {LISTEN} : IsReady(c)

\* Neither buffer of a struct overflows; a read always asks for at least one
\* byte (a read of no bytes returns 0 and would pass for the client's leaving),
\* and a write has at least one byte to send.
Fits(s) ==
    /\ Len(s.interm) <= ASTROLOG_BUF_LEN
    /\ Len(s.buf) <= ASTROLOG_BUF_LEN
    /\ s.state \in {"RECV_FIRST_LINE", "RECV_H"} => s.op = "READ" /\ Rem(s) > 0
    /\ s.state \in {"SEND_THANKS", "SEND_H"} => s.op = "WRITE" /\ s.buf # <<>>
    /\ s.state = "RECV_H" => s.zodiac_ix # NONE

BuffersFit == \A c \in Conn : Fits(ss[c])

\* A connection is registered for the event that its next operation needs.
\* While update_state runs, the registration is that of init_op, which is how
\* its last test knows whether to change it.
EpollMatchesOp ==
    \A c \in Conn :
        IF c \notin heap THEN epoll[c] = "none"
        ELSE pc # "free" =>
                epoll[c] = IF (IF InUpdate(c) THEN init_op ELSE ss[c].op) = "READ"
                           THEN "IN" ELSE "OUT"

\* A connection that waits for input has no input left in interm_buf: epoll
\* cannot see that buffer, so a line left there would never be served; and
\* update_state, called by discard_expired_connections, would never return.
ParkedReaderDrained ==
    \A c \in heap :
        ss[c].op = "READ" /\ ~(pc = "update" /\ c = cur) => ss[c].interm = <<>>

\* Only a system failure, a bad line, an expired deadline or a client that
\* left costs a client its connection.  In particular no read or write is ever
\* tried too early: EAGAIN would be taken for an error.
IsBadLine(s) ==
    \/ s.op = "READ" /\ Rem(s) = 0
    \/ /\ s.buf # <<>> /\ LineEnds(s) /\ s.zodiac_ix = NONE
       /\ ~(/\ HasType(STAR_REQUEST_TYPE, s.buf) \/ HasType(CLIENT_REQUEST_TYPE, s.buf)
            /\ find_zodiac(s.buf))

ErrorsAreDeserved ==
    \A c \in heap :
        ss[c].state \in {"ERROR", "SUCCESS"} /\ net[c].peer = "open" =>
            ss[c].ttl = 0 \/ IsBadLine(ss[c])

\* While the process sleeps it will wake no later than the first deadline.
NoOversleep ==
    pc = "wait" =>
        \A c \in heap : 0 <= wait_left /\ wait_left <= ss[c].ttl

\* The server implements the service: however the streams are cut into reads
\* and writes, whatever else shares the batch, and whichever connections are
\* opened and dropped meanwhile, the replies of a connection answer its own
\* lines in order, byte for byte, and a horoscope is the whole last prognosis.
Unserved(c) ==
    (IF ss[c].op = "READ" THEN ss[c].buf ELSE <<>>)
        \o ss[c].interm \o net[c].inq \o net[c].todo

Owed(c) == net[c].sent \o (IF ss[c].op = "WRITE" THEN ss[c].buf ELSE <<>>)

Service == INSTANCE AstrologService WITH
    store <- [z \in Zodiac |-> Prognosis(z)],
    input <- [c \in Conn |-> Unserved(c)],
    sign <- [c \in Conn |-> ss[c].zodiac_ix],
    owed <- [c \in Conn |-> Owed(c)]

ImplementsService == Service!Spec

-----------------------------------------------------------------------------
\* A client that reads what it is sent, sooner or later.
Reads(c) == []<>(net[c].unread = 0)

\* Bytes that reached the server are read, also by a server at its connection
\* limit that shares its events with clients which come and go.
RequestsServed == \A c \in Conn : Reads(c) => (net[c].inq # <<>> ~> net[c].inq = <<>>)

\* A reply that was begun is completed, or its connection is closed.
RepliesCompleted == \A c \in Conn : Reads(c) => (ss[c].op = "WRITE" ~> ss[c].op = "READ")

\* A connection whose deadline passed is dropped or makes progress.  The server
\* looks at the deadlines only when epoll_wait reports nothing, so this needs a
\* lull in the traffic again and again.
ExpiredDropped ==
    []<>(pc = "wait" /\ Ready = {}) =>
        \A c \in Conn : (c \in heap /\ ss[c].ttl = 0) ~> (c \notin heap \/ ss[c].ttl > 0)

\* update_state returns: the server goes on with its other clients.
UpdateStateReturns == pc = "update" ~> pc # "update"

=============================================================================
