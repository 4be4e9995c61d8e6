--------------------------------- MODULE Asio ---------------------------------
(***************************************************************************)
(* What the programs of boost_asio take from Boost.Asio and from common.h. *)
(*                                                                         *)
(* An object with handlers is a record with at least these fields:         *)
(*   open  whether its socket is open                                      *)
(*   op    the handler of its outstanding operation on a socket, or "none" *)
(*   ec    how that operation stands: "pending", or the error code that    *)
(*         its handler, which is ready, will be called with                *)
(*   left  the time left until its timer expires                           *)
(*   wait  how the timer's outstanding wait stands, in the same way        *)
(* io_context keeps the handlers that are ready in a queue, <<"io", c>>    *)
(* and <<"deadline", c>> for those of object c.  What is in the queue can  *)
(* not be called back: cancelling concerns pending operations only.        *)
(***************************************************************************)
EXTENDS Protocol, FiniteSets

CONSTANT Conn    \* the objects

VARIABLES
    queue,       \* the handlers that are ready, in their order
    conn         \* the objects' records

\* common.h names the replies differently.
STAR_RESPONSE_SUCCESS == STAR_REPLY_SUCCESS
STAR_RESPONSE_FAILURE == STAR_REPLY_FAILURE
UNKNOWN_PROGNOSIS == CLIENT_REPLY_FAILURE

StartsWith(s, prefix) == s # <<>> /\ s[1] = prefix

FindZodiac(s) == s # <<>> /\ s[1] \in Zodiac

ErrorCode == {"none", "pending", "success", "eof", "failed", "aborted"}

-----------------------------------------------------------------------------
Cancelled(ec) == IF ec = "pending" THEN "aborted" ELSE ec

close(s) == [s EXCEPT !.open = FALSE, !.ec = Cancelled(@)]

cancel(s) == [s EXCEPT !.wait = Cancelled(@)]

expires_after(s, timeout) == [cancel(s) EXCEPT !.left = timeout]

async_wait(s) == [s EXCEPT !.wait = "pending"]

\* async_write, async_read_until, async_connect: handler will be called.
async(s, handler) == [s EXCEPT !.op = handler, !.ec = "pending"]

\* The object when the handler of its operation, or of its wait, is called.
IoCalled(s) == [s EXCEPT !.op = "none", !.ec = "none"]
WaitCalled(s) == [s EXCEPT !.wait = "none"]

\* The handlers that become ready when object c changes from s to t.
Posted(c, s, t) ==
    (IF s.ec = "pending" /\ t.ec # "pending" THEN << <<"io", c>> >> ELSE <<>>)
    \o (IF s.wait = "pending" /\ t.wait # "pending" THEN << <<"deadline", c>> >> ELSE <<>>)

\* Nothing refers to the object any more.
Released(s) == ~s.open /\ s.op = "none" /\ s.wait = "none"

\* Object c becomes t, or unused, in a step that leaves q of the queue.
Becomes(c, t, q, unused) ==
    /\ conn' = [conn EXCEPT ![c] = IF Released(t) THEN unused ELSE t]
    /\ queue' = q \o Posted(c, conn[c], t)

\* The handler that the thread calls next.
Ready(h) == queue # <<>> /\ Head(queue) = h

Sooner(s) == [s EXCEPT !.left = IF @ > 0 THEN @ - 1 ELSE @]

\* An object is kept alive by its handlers alone.  One that is open always has
\* an operation and a wait outstanding, one that was stopped waits for nothing
\* that is yet to happen, and the queue holds exactly the handlers whose
\* operation is over, each once.
Times(h) == Cardinality({i \in 1 .. Len(queue) : queue[i] = h})

Queued(ec) == IF ec \in {"none", "pending"} THEN 0 ELSE 1

ObjectsKept ==
    \A c \in Conn :
        /\ conn[c].open => conn[c].op # "none" /\ conn[c].wait # "none"
        /\ ~conn[c].open => conn[c].ec # "pending" /\ conn[c].wait # "pending"
        /\ conn[c].op = "none" <=> conn[c].ec = "none"
        /\ Times(<<"io", c>>) = Queued(conn[c].ec)
        /\ Times(<<"deadline", c>>) = Queued(conn[c].wait)

-----------------------------------------------------------------------------
HasLine(buf) == \E i \in 1 .. Len(buf) : buf[i] = DELIMITER

\* How much async_read_until reads next: nothing when the buffer has a line
\* already, otherwise as much as has arrived, any beginning of what was sent.
ReadSize(buf, inq) == IF HasLine(buf) THEN {0} ELSE 1 .. Len(inq)

LineLength(buf) == CHOOSE n \in 1 .. Len(buf) : IsLine(buf, n)

\* getline on a stream buffer: the line, its delimiter kept, and the rest.
getline(buf) == First(buf, LineLength(buf))
Remainder(buf) == After(buf, LineLength(buf))

\* How many lines a client was sent.
Delimiters(s) == Cardinality({i \in 1 .. Len(s) : s[i] = DELIMITER})

\* Pieces of a stream, one behind the other.
Together(pieces) ==
    LET upto[i \in 0 .. Len(pieces)] ==
            IF i = 0 THEN <<>> ELSE upto[i - 1] \o pieces[i]
    IN  upto[Len(pieces)]

=============================================================================
