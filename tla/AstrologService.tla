---------------------------- MODULE AstrologService ----------------------------
(***************************************************************************)
(* What the astrologer promises its clients, with no buffers, no epoll and *)
(* no partial reads or writes.  Every open connection has a stream of      *)
(* lines that are still to be served; serving the first of them is atomic, *)
(* and what is owed to a connection is the concatenation of the replies to *)
(* its own requests, in their order.  A connection may be dropped at any   *)
(* time (its client left, it timed out, it sent a bad line), and then      *)
(* nothing of it remains but what it stored.                               *)
(***************************************************************************)
EXTENDS Protocol

CONSTANTS
    Conn,      \* connections
    Streams,   \* what a client may have to say over one connection
    NONE       \* no sign

VARIABLES
    store,     \* the prognosis of each sign, a line; empty while unset
    input,     \* per connection: what is still to be served
    sign,      \* per connection: the sign a star has announced, or NONE
    owed       \* per connection: the replies to all requests served so far

serviceVars == <<store, input, sign, owed>>

\* A request of the given type, for a sign that is known.
IsRequest(type, line) == HasType(type, line) /\ find_zodiac(line)

Reply(z) == IF store[z] = <<>> THEN CLIENT_REPLY_FAILURE ELSE store[z]

-----------------------------------------------------------------------------
Init ==
    /\ store = [z \in Zodiac |-> <<>>]
    /\ input = [c \in Conn |-> <<>>]
    /\ sign = [c \in Conn |-> NONE]
    /\ owed = [c \in Conn |-> <<>>]

Open(c, s) ==
    /\ input[c] = <<>> /\ sign[c] = NONE /\ owed[c] = <<>>
    /\ input' = [input EXCEPT ![c] = s]
    /\ UNCHANGED <<store, sign, owed>>

\* The first n items of the input are the line that is being served.
Consume(c, n) ==
    /\ IsLine(input[c], n)
    /\ input' = [input EXCEPT ![c] = After(@, n)]

Announce(c, n) ==
    /\ sign[c] = NONE
    /\ IsRequest(STAR_REQUEST_TYPE, First(input[c], n))
    /\ sign' = [sign EXCEPT ![c] = input[c][2]]
    /\ Consume(c, n)
    /\ UNCHANGED <<store, owed>>

Predict(c, n) ==
    /\ sign[c] # NONE
    /\ store' = [store EXCEPT ![sign[c]] = First(input[c], n)]
    /\ owed' = [owed EXCEPT ![c] = @ \o STAR_REPLY_SUCCESS]
    /\ sign' = [sign EXCEPT ![c] = NONE]
    /\ Consume(c, n)

Ask(c, n) ==
    /\ sign[c] = NONE
    /\ IsRequest(CLIENT_REQUEST_TYPE, First(input[c], n))
    /\ owed' = [owed EXCEPT ![c] = @ \o Reply(input[c][2])]
    /\ Consume(c, n)
    /\ UNCHANGED <<store, sign>>

Serve(c) == \E n \in 1 .. Len(input[c]) : Announce(c, n) \/ Predict(c, n) \/ Ask(c, n)

Drop(C) ==
    /\ input' = [c \in Conn |-> IF c \in C THEN <<>> ELSE input[c]]
    /\ sign' = [c \in Conn |-> IF c \in C THEN NONE ELSE sign[c]]
    /\ owed' = [c \in Conn |-> IF c \in C THEN <<>> ELSE owed[c]]
    /\ UNCHANGED store

Next ==
    \/ \E C \in SUBSET Conn : Drop(C)
    \/ \E c \in Conn : Serve(c) \/ \E s \in Streams : Open(c, s)

Spec == Init /\ [][Next]_serviceVars

=============================================================================
