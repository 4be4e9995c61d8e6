------------------------------ MODULE UnixClient ------------------------------
(***************************************************************************)
(* The client of client.c.  "star" and "ordinary" are one process that     *)
(* goes through the signs over one connection; "harmful" forks children    *)
(* that each ask for a number of signs, and kills them all when the first  *)
(* one dies.  Every call blocks, and there are no time-outs.  The other    *)
(* end is the server, or a proxy before it.                                *)
(*                                                                         *)
(* Some definitions are preceded by a faulty variant, without a comment    *)
(* (ForksOneMore, ...).  No behaviour uses these; they document which slip *)
(* in the code each property would notice.                                 *)
(***************************************************************************)
EXTENDS Protocol

CONSTANTS
    Names,            \* zodiac_names, in the order of the array
    Modes,            \* client types that may be started
    CLIENT_CON_NUM,   \* children of the harmful client
    RETRIES,          \* requests of each
    Horoscope,        \* the line that the server answers for each sign
    Text,             \* the words of these lines
    Ends,             \* what may be at the other end: "server", "proxy"
    ASTROLOG_BUF_LEN, \* cells of a buffer
    Faults            \* what may fail: "fork", "connect", "server"

Word ==
    Zodiac \cup Text \cup {DELIMITER, STAR_REQUEST_TYPE, CLIENT_REQUEST_TYPE, "number"}
    \cup {STAR_REPLY_SUCCESS[1], STAR_REPLY_FAILURE[1]}

Proc == 1 .. CLIENT_CON_NUM

ASSUME UnixClientAssumption ==
    /\ Names \in Seq(Zodiac) /\ Names # <<>>
    /\ Modes \subseteq {"star", "ordinary", "harmful"}
    /\ CLIENT_CON_NUM \in Nat \ {0} /\ RETRIES \in Nat \ {0}
    /\ Horoscope \in [Zodiac -> Seq(Word)]
    /\ Zodiac \cap {DELIMITER, CLIENT_REQUEST_TYPE} = {}
    /\ \A z \in Zodiac : /\ IsLine(Horoscope[z], Len(Horoscope[z]))
                         /\ Len(Horoscope[z]) <= ASTROLOG_BUF_LEN
    /\ Ends \subseteq {"server", "proxy"}
    /\ ASTROLOG_BUF_LEN \in Nat /\ ASTROLOG_BUF_LEN > 2

VARIABLES
    mode,    \* client_type
    end,     \* what it connects to
    parent,  \* harmful_client: "fork", "kill" or "exit"; "none" in other modes
    i,       \* in the loops of harmful_client: children forked, or killed
    forked,  \* the number of children that kill_children_procs is given
    proc,    \* the processes; a star or an ordinary client is the first
    net      \* their connections

vars == <<mode, end, parent, i, forked, proc, net>>
harmful == <<mode, end, parent, i, forked>>

-----------------------------------------------------------------------------
\* Where a process is, the round of its loop, what recv_line has received, and
\* what it returned or which signal ended it.
Process ==
    [state : {"NEW", "CONNECT", "SEND_REQUEST", "SEND_PROGNOSIS", "RECV_REPLY", "SLEEP", "DEAD"},
     round : Nat, buf : Seq(Word),
     code : {"none", "EXIT_SUCCESS", "EXIT_FAILURE", "SIGPIPE", "SIGTERM"}]

NoProcess == [state |-> "NEW", round |-> 1, buf |-> <<>>, code |-> "none"]

\* A connection: words on their way to the client and to the other end, what a
\* proxy there has read of a line, and whether the other end is there.
Socket ==
    [in : Seq(Word), out : Seq(Word), held : Seq(Word), peer : {"none", "open", "fin", "rst"}]

NoSocket == [in |-> <<>>, out |-> <<>>, held |-> <<>>, peer |-> "none"]

Init ==
    /\ mode \in Modes /\ end \in Ends
    /\ parent = IF mode = "harmful" THEN "fork" ELSE "none"
    /\ i = 0 /\ forked = 0
    /\ proc = [k \in Proc |-> IF mode # "harmful" /\ k = 1
                              THEN [NoProcess EXCEPT !.state = "CONNECT"] ELSE NoProcess]
    /\ net = [k \in Proc |-> NoSocket]

-----------------------------------------------------------------------------
In(k, state) == proc[k].state = state

Become(k, p, socket) ==
    /\ proc' = [proc EXCEPT ![k] = p]
    /\ net' = [net EXCEPT ![k] = socket]
    /\ UNCHANGED harmful

\* The process returns code, or is ended by a signal; its socket is closed.
Dead(code) == [state |-> "DEAD", round |-> 1, buf |-> <<>>, code |-> code]

Die(k, code) == Become(k, Dead(code), NoSocket)

Goto(k, state, socket) == Become(k, [proc[k] EXCEPT !.state = state], socket)

connect(k) ==
    /\ In(k, "CONNECT")
    /\ \/ Goto(k, "SEND_REQUEST", [NoSocket EXCEPT !.peer = "open"])
       \/ "connect" \in Faults /\ Die(k, "EXIT_FAILURE")

Resends(k, line, next) ==
    \/ net[k].peer = "open" /\ Goto(k, next, [net[k] EXCEPT !.out = @ \o line \o line])
    \/ net[k].peer = "fin" /\ \E p \in {"fin", "rst"} : Goto(k, next, [net[k] EXCEPT !.peer = p])
    \/ net[k].peer = "rst" /\ \E code \in {"EXIT_FAILURE", "SIGPIPE"} : Die(k, code)

\* send_all.  What is sent to an end that has closed is lost and may be answered
\* with a reset, after which send fails or raises SIGPIPE.
send_all(k, line, next) ==
    \/ net[k].peer = "open" /\ Goto(k, next, [net[k] EXCEPT !.out = @ \o line])
    \/ net[k].peer = "fin" /\ \E p \in {"fin", "rst"} : Goto(k, next, [net[k] EXCEPT !.peer = p])
    \/ net[k].peer = "rst" /\ \E code \in {"EXIT_FAILURE", "SIGPIPE"} : Die(k, code)

\* A harmful client takes a sign at random.
Sign(k) == IF mode = "harmful" THEN Zodiac ELSE {Names[proc[k].round]}

SendRequest(k) ==
    /\ In(k, "SEND_REQUEST")
    /\ \E z \in Sign(k) :
          IF mode = "star"
          THEN send_all(k, <<STAR_REQUEST_TYPE, z, DELIMITER>>, "SEND_PROGNOSIS")
          ELSE send_all(k, <<CLIENT_REQUEST_TYPE, z, DELIMITER>>, "RECV_REPLY")

SendPrognosis(k) ==
    /\ In(k, "SEND_PROGNOSIS")
    /\ send_all(k, <<"number", DELIMITER>>, "RECV_REPLY")

Rounds == IF mode = "harmful" THEN RETRIES ELSE Len(Names)

SameRound(p) ==
    IF p.round = Rounds THEN Dead("EXIT_SUCCESS") ELSE [p EXCEPT !.state = "SEND_REQUEST"]

\* The loops of star_client_all, ordinary_client_all and harmful_client_child.
NextRound(p) ==
    IF p.round = Rounds THEN Dead("EXIT_SUCCESS")
    ELSE [p EXCEPT !.round = @ + 1, !.state = "SEND_REQUEST"]

\* As much as one recv may return.
RecvSize(k) == MIN(Len(net[k].in), ASTROLOG_BUF_LEN - Len(proc[k].buf))

\* recv_line, and the end of star_client or ordinary_client: a whole line is a
\* success, "DENIED!" too.  A harmful child sleeps.
RecvReply(k) ==
    /\ In(k, "RECV_REPLY")
    /\ \/ \E n \in 1 .. RecvSize(k) :
             LET chunk == First(net[k].in, n)
                 p == [proc[k] EXCEPT !.buf = @ \o chunk]
                 socket == [net[k] EXCEPT !.in = After(@, n)]
                 done == IF mode = "harmful" THEN [p EXCEPT !.state = "SLEEP", !.buf = <<>>]
                         ELSE NextRound([p EXCEPT !.buf = <<>>]) IN
             CASE recv_line(proc[k].buf, chunk, ASTROLOG_BUF_LEN) = "more" -> Become(k, p, socket)
               [] recv_line(proc[k].buf, chunk, ASTROLOG_BUF_LEN) = "error" ->
                     Die(k, "EXIT_FAILURE")
               [] OTHER -> Become(k, done, IF done.state = "DEAD" THEN NoSocket ELSE socket)
       \/ net[k].in = <<>> /\ net[k].peer # "open" /\ Die(k, "EXIT_FAILURE")

Wake(k) ==
    /\ In(k, "SLEEP")
    /\ Become(k, NextRound(proc[k]), IF proc[k].round = Rounds THEN NoSocket ELSE net[k])

client(k) == connect(k) \/ SendRequest(k) \/ SendPrognosis(k) \/ RecvReply(k) \/ Wake(k)

-----------------------------------------------------------------------------
ForksOneMore ==
    /\ parent = "fork" /\ i <= CLIENT_CON_NUM
    /\ i' = i + 1
    /\ proc' = [proc EXCEPT ![i + 1] = [NoProcess EXCEPT !.state = "CONNECT"]]
    /\ UNCHANGED <<mode, end, parent, forked, net>>

\* harmful_client.
Fork ==
    /\ parent = "fork" /\ i < CLIENT_CON_NUM
    /\ i' = i + 1
    /\ proc' = [proc EXCEPT ![i + 1] = [NoProcess EXCEPT !.state = "CONNECT"]]
    /\ UNCHANGED <<mode, end, parent, forked, net>>

ToKill == parent' = "kill" /\ forked' = i /\ i' = 0 /\ UNCHANGED <<mode, end, proc, net>>

ForkFailed == parent = "fork" /\ i < CLIENT_CON_NUM /\ "fork" \in Faults /\ ToKill

\* wait returns when one child has died, however it did.
WaitChild ==
    /\ parent = "fork" /\ i = CLIENT_CON_NUM
    /\ \E k \in Proc : In(k, "DEAD")
    /\ ToKill

KillsAllButLast ==
    /\ parent = "kill"
    /\ IF i + 1 < forked
       THEN /\ proc' = [proc EXCEPT ![i + 1] = IF In(i + 1, "DEAD") THEN @ ELSE Dead("SIGTERM")]
            /\ net' = [net EXCEPT ![i + 1] = NoSocket]
            /\ i' = i + 1 /\ UNCHANGED parent
       ELSE parent' = "exit" /\ UNCHANGED <<i, proc, net>>
    /\ UNCHANGED <<mode, end, forked>>

\* The children get SIGTERM one after the other, the one that died too.
kill_children_procs ==
    /\ parent = "kill"
    /\ IF i < forked
       THEN /\ proc' = [proc EXCEPT ![i + 1] = IF In(i + 1, "DEAD") THEN @ ELSE Dead("SIGTERM")]
            /\ net' = [net EXCEPT ![i + 1] = NoSocket]
            /\ i' = i + 1 /\ UNCHANGED parent
       ELSE parent' = "exit" /\ UNCHANGED <<i, proc, net>>
    /\ UNCHANGED <<mode, end, forked>>

harmful_client == Fork \/ ForkFailed \/ WaitChild \/ kill_children_procs

-----------------------------------------------------------------------------
Peer(k, socket) == net' = [net EXCEPT ![k] = socket] /\ UNCHANGED <<harmful, proc>>

Closed(k, p) == [net[k] EXCEPT !.out = <<>>, !.held = <<>>, !.peer = p]

\* The server: a reply to each request, and to a star once it has sent its
\* prognosis.
Serve(k) ==
    LET out == net[k].out IN
    /\ end = "server" /\ net[k].peer = "open"
    /\ \E n \in 1 .. Len(out) :
          /\ IsLine(out, n)
          /\ \/ /\ HasType(CLIENT_REQUEST_TYPE, out) /\ find_zodiac(out)
                /\ Peer(k, [net[k] EXCEPT !.out = After(@, n), !.in = @ \o Horoscope[out[2]]])
             \/ /\ HasType(STAR_REQUEST_TYPE, out) /\ find_zodiac(out)
                /\ \E m \in 1 .. Len(out) - n :
                      /\ IsLine(After(out, n), m)
                      /\ Peer(k, [net[k] EXCEPT !.out = After(@, n + m),
                                                !.in = @ \o STAR_REPLY_SUCCESS])

\* A proxy, which reads with recv_line and denies whatever is no request.  It
\* serves all connections at once, where CHILD_PROC_NUM children take turns.
Filter(k) ==
    /\ end = "proxy" /\ net[k].peer = "open"
    /\ \E n \in 1 .. MIN(Len(net[k].out), ASTROLOG_BUF_LEN - Len(net[k].held)) :
          LET chunk == First(net[k].out, n)
              held == net[k].held \o chunk
              read == [net[k] EXCEPT !.out = After(@, n), !.held = held]
              reply == IF HasType(CLIENT_REQUEST_TYPE, held) THEN Horoscope[held[2]]
                       ELSE STAR_REPLY_FAILURE IN
          CASE recv_line(net[k].held, chunk, ASTROLOG_BUF_LEN) = "more" -> Peer(k, read)
            [] recv_line(net[k].held, chunk, ASTROLOG_BUF_LEN) = "line" ->
                  Peer(k, [read EXCEPT !.held = <<>>, !.in = @ \o reply])
            [] OTHER -> \E p \in {"fin", "rst"} : Peer(k, Closed(k, p))

PeerEnds(k) ==
    /\ "server" \in Faults /\ net[k].peer = "open"
    /\ \E p \in {"fin", "rst"} : Peer(k, Closed(k, p))

Over == parent \in {"none", "exit"} /\ \A k \in Proc : In(k, "NEW") \/ In(k, "DEAD")

Ended == Over /\ UNCHANGED vars

Next ==
    \/ harmful_client \/ Ended
    \/ \E k \in Proc : client(k) \/ Serve(k) \/ Filter(k) \/ PeerEnds(k)

Spec == Init /\ [][Next]_vars

\* Processes run, and the other end answers what it was sent.
FairSpec ==
    /\ Spec
    /\ WF_vars(harmful_client)
    /\ \A k \in Proc : WF_vars(client(k)) /\ WF_vars(Serve(k)) /\ WF_vars(Filter(k))

-----------------------------------------------------------------------------
\* The loops of harmful_client stay inside the array of pids, and recv_line never
\* writes past the end of buf.
TypeOK ==
    /\ mode \in Modes /\ end \in Ends
    /\ parent \in {"none", "fork", "kill", "exit"}
    /\ i \in 0 .. CLIENT_CON_NUM /\ forked \in 0 .. CLIENT_CON_NUM
    /\ proc \in [Proc -> Process]
    /\ \A k \in Proc : Len(proc[k].buf) <= ASTROLOG_BUF_LEN
    /\ net \in [Proc -> Socket]

\* Over a connection that stays up no client fails to read its reply: there is
\* never more than one reply on its way, wherever it is cut, so recv_line, which
\* has no room for more, meets none.  A star behind a proxy is the exception: it
\* sends two lines before it reads, and each of them is answered.
RepliesInStep ==
    [][\A k \in Proc :
          ~(mode = "star" /\ end = "proxy") /\ In(k, "RECV_REPLY") /\ net[k].peer = "open" =>
              proc'[k].code # "EXIT_FAILURE"]_vars

\* The harmful client leaves no child behind, also when a fork failed half-way.
NoOrphans == parent = "exit" => \A k \in Proc : In(k, "NEW") \/ In(k, "DEAD")

\* Client and other end never wait for each other, and the program ends.
Terminates == <>Over

=============================================================================
