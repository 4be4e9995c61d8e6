------------------------------ MODULE BoostClient ------------------------------
(***************************************************************************)
(* The client of client.cpp.  As "star" it sets one prognosis, as "human"  *)
(* it asks for one.  As "multi" it first runs a Star object for each sign  *)
(* on one thread, and then many Human objects on as many threads, which    *)
(* all run the handlers of one io_context; a strand per object keeps the   *)
(* handlers of that object apart.  Around it are the server and the clock. *)
(*                                                                         *)
(* Some definitions are preceded by a faulty variant, without a comment    *)
(* (AnyWillDo, ...).  No behaviour uses these; they document which slip in *)
(* the code each property would notice.                                    *)
(***************************************************************************)
EXTENDS Asio

CONSTANTS
    Star, Human,    \* the objects
    SignOf,         \* the sign of each object
    Modes,          \* how the program may be started
    WriteRequestTimeout, WritePrognosisTimeout, ReadResponseTimeout,
    TimePasses,     \* FALSE: everything happens within one unit of time
    Faults          \* what may fail: "connect", "server", "thread"; "denied":
                    \* a proxy may keep stars out; "rival": other stars are at work

ASSUME BoostClientAssumption ==
    /\ IsFiniteSet(Star) /\ IsFiniteSet(Human) /\ Star \cap Human = {}
    /\ Conn = Star \cup Human
    /\ DELIMITER \notin Zodiac
    /\ SignOf \in [Conn -> Zodiac]
    /\ \A z \in Zodiac : \E s \in Star : SignOf[s] = z
    /\ \A s, t \in Star : SignOf[s] = SignOf[t] => s = t
    /\ Modes \subseteq {"star", "human", "multi"}
    /\ {WriteRequestTimeout, WritePrognosisTimeout, ReadResponseTimeout} \subseteq Nat \ {0}
    /\ TimePasses \in BOOLEAN

VARIABLES
    mode,     \* how the program was started
    pc,       \* where the main thread is
    verdict,  \* what main returned
    counter,  \* zodiacCounter, then humanCounter: the callbacks that succeeded
    stopped,  \* whether io_context::run returns at once
    waiting,  \* threads that wait for startFuture
    active,   \* threads in io_context::run
    net,      \* each object's connection
    store     \* the server's prognoses

vars == <<mode, pc, verdict, counter, stopped, waiting, active, queue, conn, net, store>>
thread == <<pc, verdict, stopped, waiting, active>>

-----------------------------------------------------------------------------
\* valueSuffix is appended to the sign.
Value(z) == <<z, "value", DELIMITER>>
Other == <<"other", DELIMITER>>

Word ==
    Zodiac \cup {"value", "other", DELIMITER, STAR_REQUEST_TYPE, CLIENT_REQUEST_TYPE}
    \cup {STAR_RESPONSE_SUCCESS[1], STAR_RESPONSE_FAILURE[1], UNKNOWN_PROGNOSIS[1]}

Handler == {"handleConnect", "handleWriteRequest", "handleWritePrognosis", "handleReadResponse"}

\* mSocket, mBuffer and mDeadline.  Whether the socket is open matters once it
\* was connected.
Object ==
    [open : BOOLEAN, op : Handler \cup {"none"}, ec : ErrorCode, left : Nat,
     wait : ErrorCode, buf : Seq(Word)]

NoObject ==
    [open |-> FALSE, op |-> "none", ec |-> "none", left |-> 0, wait |-> "none", buf |-> <<>>]

Request(c) ==
    <<IF c \in Star THEN STAR_REQUEST_TYPE ELSE CLIENT_REQUEST_TYPE, SignOf[c], DELIMITER>>

\* The constructors of Star and Human begin to connect.
New(c) == async([NoObject EXCEPT !.buf = Request(c)], "handleConnect")

Create(objects) == [c \in Conn |-> IF c \in objects THEN New(c) ELSE NoObject]

\* A connection: words on their way to the object and to the server, the reply
\* that the server sent, and whether it is there.
Socket ==
    [in : Seq(Word), out : Seq(Word), reply : Seq(Word), peer : {"none", "open", "fin"}]

NoSocket == [in |-> <<>>, out |-> <<>>, reply |-> <<>>, peer |-> "none"]

Init ==
    /\ mode \in Modes
    /\ pc = "run"
    /\ \/ mode = "multi" /\ conn = Create(Star)
       \/ mode = "star" /\ \E c \in Star : conn = Create({c})
       \/ mode = "human" /\ \E c \in Human : conn = Create({c})
    /\ verdict = "none" /\ counter = 0
    /\ stopped = FALSE /\ waiting = 0 /\ active = 0
    /\ queue = <<>>
    /\ net = [c \in Conn |-> NoSocket]
    /\ store = [z \in Zodiac |-> UNKNOWN_PROGNOSIS]

-----------------------------------------------------------------------------
stop(s) == cancel(close(s))

startWaitDeadline(s) == async_wait(s)

\* A failed connect leaves nothing outstanding.
handleConnect(s) ==
    IF s.ec # "success" THEN IoCalled(s)
    ELSE startWaitDeadline(async(expires_after([IoCalled(s) EXCEPT !.open = TRUE],
                                               WriteRequestTimeout),
                                 "handleWriteRequest"))

\* How the handlers of write operations begin.
Unless(s, t) ==
    IF ~s.open THEN IoCalled(s)
    ELSE IF s.ec # "success" THEN stop(IoCalled(s)) ELSE t

ReadResponse(s) == async(expires_after(IoCalled(s), ReadResponseTimeout), "handleReadResponse")

WritePrognosis(s, z) ==
    async(expires_after([IoCalled(s) EXCEPT !.buf = Value(z)], WritePrognosisTimeout),
          "handleWritePrognosis")

\* A star goes on to send its prognosis, a human to read the answer.
handleWriteRequest(c, s) ==
    Unless(s, IF c \in Star THEN WritePrognosis(s, SignOf[c]) ELSE ReadResponse(s))

handleWritePrognosis(s) == Unless(s, ReadResponse(s))

\* What the callbacks of the three modes accept.
mOnWorkDoneCb(c, response) ==
    IF c \in Star THEN response = STAR_RESPONSE_SUCCESS
    ELSE /\ response # UNKNOWN_PROGNOSIS
         /\ mode = "human" \/ response = Value(SignOf[c])

\* Whatever the outcome, the object is stopped.
handleReadResponse(s) == IF s.open THEN stop(IoCalled(s)) ELSE IoCalled(s)

Counted(c) ==
    counter' = IF /\ conn[c].open /\ conn[c].ec = "success"
                  /\ mOnWorkDoneCb(c, getline(conn[c].buf))
               THEN counter + 1 ELSE counter

WaitsOnlyOnce(s) ==
    IF ~s.open \/ s.wait = "aborted" THEN WaitCalled(s) ELSE stop(WaitCalled(s))

handleDeadline(s) ==
    CASE ~s.open -> WaitCalled(s)
      [] s.open /\ s.wait = "aborted" -> startWaitDeadline(WaitCalled(s))
      [] OTHER -> stop(WaitCalled(s))

-----------------------------------------------------------------------------
Outstanding(c) == conn[c].op # "none" \/ conn[c].wait # "none"

\* Some thread is in run, and calls handlers.
Running == ~stopped /\ (pc = "run" \/ active > 0)

\* A strand calls the handlers of its object in their order; between strands
\* there is none, also on a single thread, which runs a strand until it is empty.
Callable(h, i) == queue[i] = h /\ \A j \in 1 .. i - 1 : queue[j][2] # h[2]

Without(i) == First(queue, i - 1) \o After(queue, i)

Handled(h, t) ==
    /\ Running
    /\ \E i \in 1 .. Len(queue) : Callable(h, i) /\ Becomes(h[2], t, Without(i), NoObject)
    /\ net' = [net EXCEPT ![h[2]].peer = IF conn[h[2]].open /\ ~t.open THEN "none" ELSE @]
    /\ UNCHANGED <<mode, thread, store>>

RunHandler(c) ==
    LET s == conn[c]
        Called(handler, t) == s.op = handler /\ Handled(<<"io", c>>, t) IN
    \/ Called("handleConnect", handleConnect(s)) /\ UNCHANGED counter
    \/ Called("handleWriteRequest", handleWriteRequest(c, s)) /\ UNCHANGED counter
    \/ Called("handleWritePrognosis", handleWritePrognosis(s)) /\ UNCHANGED counter
    \/ Called("handleReadResponse", handleReadResponse(s)) /\ Counted(c)
    \/ Handled(<<"deadline", c>>, handleDeadline(s)) /\ UNCHANGED counter

\* run returns when nothing is outstanding, and then to every thread.
Returns == stopped \/ \A c \in Conn : ~Outstanding(c)

Exit(code) == pc' = "exit" /\ verdict' = code

\* StarMain and HumanMain succeed whatever happened.
RunOneObject ==
    /\ mode # "multi" /\ pc = "run" /\ Returns
    /\ stopped' = TRUE /\ Exit("EXIT_SUCCESS")
    /\ UNCHANGED <<mode, counter, waiting, active, queue, conn, net, store>>

CreateHumans ==
    /\ conn' = Create(Human)
    /\ counter' = 0 /\ pc' = "spawn" /\ UNCHANGED verdict

ForgetsRestart ==
    /\ mode = "multi" /\ pc = "run" /\ Returns
    /\ stopped' = TRUE
    /\ IF counter # Cardinality(Star)
       THEN Exit("EXIT_FAILURE") /\ UNCHANGED <<conn, counter>>
       ELSE CreateHumans
    /\ UNCHANGED <<mode, waiting, active, queue, net, store>>

\* The end of SetAllZodiacs: run has returned, restart follows.
SetAllZodiacs ==
    /\ mode = "multi" /\ pc = "run" /\ Returns
    /\ stopped' = FALSE
    /\ IF counter # Cardinality(Star)
       THEN Exit("EXIT_FAILURE") /\ UNCHANGED <<conn, counter>>
       ELSE CreateHumans
    /\ UNCHANGED <<mode, waiting, active, queue, net, store>>

-----------------------------------------------------------------------------
SpawnsOneMore ==
    /\ pc = "spawn" /\ waiting <= Cardinality(Human)
    /\ \/ waiting' = waiting + 1 /\ UNCHANGED pc
       \/ "thread" \in Faults /\ pc' = "unwind" /\ UNCHANGED waiting
    /\ UNCHANGED <<mode, verdict, counter, stopped, active, queue, conn, net, store>>

\* ParallelRun: the threads are created one by one, as many as there are humans.
\* When that fails, ~JoinThreads joins those there are.
SpawnThread ==
    /\ pc = "spawn" /\ waiting < Cardinality(Human)
    /\ \/ waiting' = waiting + 1 /\ UNCHANGED pc
       \/ "thread" \in Faults /\ pc' = "unwind" /\ UNCHANGED waiting
    /\ UNCHANGED <<mode, verdict, counter, stopped, active, queue, conn, net, store>>

SetValue ==
    /\ pc = "spawn" /\ waiting = Cardinality(Human)
    /\ pc' = "join"
    /\ UNCHANGED <<mode, verdict, counter, stopped, waiting, active, queue, conn, net, store>>

\* startPromise is set only when all threads exist; it goes out of scope after
\* the threads are joined.
ThreadRuns ==
    /\ waiting > 0 /\ pc = "join"
    /\ waiting' = waiting - 1 /\ active' = active + 1
    /\ UNCHANGED <<mode, pc, verdict, counter, stopped, queue, conn, net, store>>

ThreadReturns ==
    /\ active > 0 /\ Returns
    /\ active' = active - 1 /\ stopped' = TRUE
    /\ UNCHANGED <<mode, pc, verdict, counter, waiting, queue, conn, net, store>>

AnyWillDo == Exit(IF counter = 0 THEN "EXIT_FAILURE" ELSE "EXIT_SUCCESS")

Verdict == Exit(IF counter # Cardinality(Human) THEN "EXIT_FAILURE" ELSE "EXIT_SUCCESS")

DetachesThreads ==
    /\ pc \in {"join", "unwind"}
    /\ IF pc = "unwind" THEN Exit("EXIT_FAILURE") ELSE Verdict
    /\ UNCHANGED <<mode, counter, stopped, waiting, active, queue, conn, net, store>>

\* The threads are joined.  Then PollAllZodiacs reads humanCounter, or the
\* exception goes on to MulticlientMain.
JoinThreads ==
    /\ pc \in {"join", "unwind"} /\ waiting + active = 0
    /\ IF pc = "unwind" THEN Exit("EXIT_FAILURE") ELSE Verdict
    /\ UNCHANGED <<mode, counter, stopped, waiting, active, queue, conn, net, store>>

Main == RunOneObject \/ SetAllZodiacs \/ SpawnThread \/ SetValue \/ JoinThreads

-----------------------------------------------------------------------------
\* The operations, as the server and the clock let them go on.
IoStep(c, t, socket) ==
    /\ Becomes(c, t, queue, NoObject)
    /\ net' = [net EXCEPT ![c] = socket]
    /\ UNCHANGED <<mode, thread, counter, store>>

Pending(c, op) == pc # "exit" /\ conn[c].op = op /\ conn[c].ec = "pending"

async_connect(c) ==
    /\ Pending(c, "handleConnect")
    /\ \/ IoStep(c, [conn[c] EXCEPT !.ec = "success"], [NoSocket EXCEPT !.peer = "open"])
       \/ "connect" \in Faults /\ IoStep(c, [conn[c] EXCEPT !.ec = "failed"], net[c])

\* What is written to a server that has closed the connection is lost.
async_write(c) ==
    /\ Pending(c, "handleWriteRequest") \/ Pending(c, "handleWritePrognosis")
    /\ \/ /\ net[c].peer = "open"
          /\ IoStep(c, [conn[c] EXCEPT !.ec = "success", !.buf = <<>>],
                    [net[c] EXCEPT !.out = @ \o conn[c].buf])
       \/ /\ net[c].peer = "fin"
          /\ \E ec \in {"success", "failed"} :
                IoStep(c, [conn[c] EXCEPT !.ec = ec, !.buf = <<>>], net[c])

async_read_until(c) ==
    /\ Pending(c, "handleReadResponse")
    /\ \/ \E n \in 1 .. Len(net[c].in) :
             LET buf == conn[c].buf \o First(net[c].in, n) IN
             IoStep(c, [conn[c] EXCEPT !.buf = buf, !.ec = IF HasLine(buf) THEN "success" ELSE @],
                    [net[c] EXCEPT !.in = After(@, n)])
       \/ /\ net[c].in = <<>> /\ net[c].peer = "fin"
          /\ \E ec \in {"eof", "failed"} : IoStep(c, [conn[c] EXCEPT !.ec = ec], net[c])

TimerExpires(c) ==
    /\ pc # "exit" /\ conn[c].wait = "pending" /\ conn[c].left = 0
    /\ IoStep(c, [conn[c] EXCEPT !.wait = "success"], net[c])

Tick ==
    /\ TimePasses /\ pc # "exit" /\ \E c \in Conn : conn[c].left > 0
    /\ conn' = [c \in Conn |-> Sooner(conn[c])]
    /\ UNCHANGED <<mode, thread, counter, queue, net, store>>

Reactor(c) == async_connect(c) \/ async_write(c) \/ async_read_until(c) \/ TimerExpires(c)

-----------------------------------------------------------------------------
Reply(c, line) == net' = [net EXCEPT ![c].in = line, ![c].reply = line, ![c].out = <<>>]

\* The server, when all that an object has to say has come.
Answer(c) ==
    /\ net[c].peer = "open"
    /\ \/ /\ c \in Human /\ net[c].out = Request(c)
          /\ Reply(c, store[SignOf[c]]) /\ UNCHANGED store
       \/ /\ c \in Star /\ net[c].out = Request(c) \o Value(SignOf[c])
          /\ Reply(c, STAR_RESPONSE_SUCCESS)
          /\ store' = [store EXCEPT ![SignOf[c]] = Value(SignOf[c])]
    /\ UNCHANGED <<mode, thread, counter, queue, conn>>

\* A proxy in between denies a star as soon as its request has come.
Deny(c) ==
    /\ "denied" \in Faults /\ net[c].peer = "open"
    /\ c \in Star /\ net[c].reply = <<>> /\ net[c].out # <<>>
    /\ Reply(c, STAR_RESPONSE_FAILURE)
    /\ UNCHANGED <<mode, thread, counter, queue, conn, store>>

ServerDrops(c) ==
    /\ "server" \in Faults /\ net[c].peer = "open"
    /\ net' = [net EXCEPT ![c].peer = "fin"]
    /\ UNCHANGED <<mode, thread, counter, queue, conn, store>>

Rival(z) ==
    /\ "rival" \in Faults /\ pc # "exit" /\ store[z] # Other
    /\ store' = [store EXCEPT ![z] = Other]
    /\ UNCHANGED <<mode, thread, counter, queue, conn, net>>

Ended == pc = "exit" /\ UNCHANGED vars

Next ==
    \/ Main \/ ThreadRuns \/ ThreadReturns \/ Tick \/ Ended
    \/ \E c \in Conn : RunHandler(c) \/ Reactor(c) \/ Answer(c) \/ Deny(c) \/ ServerDrops(c)
    \/ \E z \in Zodiac : Rival(z)

Spec == Init /\ [][Next]_vars

\* Threads run, the kernel completes what it can, and the clock goes on.  The
\* server owes nothing: no write or answer need ever happen.
Progress ==
    \/ Main \/ ThreadRuns \/ ThreadReturns \/ Tick
    \/ \E c \in Conn : RunHandler(c) \/ async_connect(c) \/ async_read_until(c) \/ TimerExpires(c)

FairSpec == Spec /\ WF_vars(Progress)

-----------------------------------------------------------------------------
TypeOK ==
    /\ mode \in Modes
    /\ pc \in {"run", "spawn", "join", "unwind", "exit"}
    /\ verdict \in {"none", "EXIT_SUCCESS", "EXIT_FAILURE"}
    /\ counter \in Nat
    /\ stopped \in BOOLEAN
    /\ waiting \in 0 .. Cardinality(Human) /\ active \in 0 .. Cardinality(Human)
    /\ queue \in Seq({"io", "deadline"} \X Conn)
    /\ conn \in [Conn -> Object]
    /\ net \in [Conn -> Socket]
    /\ store \in [Zodiac -> Seq(Word)]

\* The handlers refer to their object by a bare pointer.  A thread that calls
\* handlers calls none of an object that is gone: SetAllZodiacs destroys the
\* stars, PollAllZodiacs the humans, each when run has returned.
Alive(c) ==
    CASE mode = "multi" /\ c \in Star -> pc = "run"
      [] mode = "multi" /\ c \in Human -> pc \in {"spawn", "join", "unwind"}
      [] OTHER -> pc = "run"

NoDangling == \A c \in Conn : Running /\ Outstanding(c) => Alive(c)

\* The reply is what the callback of the object is to count, or to report.
Confirmed(c) ==
    IF c \in Star THEN net[c].reply = STAR_RESPONSE_SUCCESS
    ELSE /\ net[c].reply \notin {<<>>, UNKNOWN_PROGNOSIS}
         /\ mode = "human" \/ net[c].reply = Value(SignOf[c])

\* The client claims nothing that the server did not say.  No object is counted
\* twice or for a wrong reply, whatever threads, strands and late deadlines do,
\* and "multi" succeeds only when the server thanked every star and gave each
\* human the prognosis that was set for its sign, also when others set it too.
VerdictIsTrue ==
    LET objects == IF pc \in {"spawn", "join", "unwind"} THEN Human ELSE Conn IN
    /\ counter <= Cardinality({c \in objects : Confirmed(c)})
    /\ mode = "multi" /\ verdict = "EXIT_SUCCESS" => \A c \in Conn : Confirmed(c)

-----------------------------------------------------------------------------
\* The program ends: a server that goes silent costs each phase no longer than
\* a deadline, and no thread waits for another one for ever.  When a thread
\* cannot be created this does not hold: ~JoinThreads joins those there are,
\* which wait for startFuture, before the promise goes out of scope.
Terminates == [](pc # "unwind") => <>(pc = "exit")

\* Nothing went wrong: nobody failed, gave up or was denied, and nobody else
\* changed a prognosis.
Undisturbed ==
    /\ pc # "unwind"
    /\ \A c \in Conn : /\ conn[c].ec \notin {"failed", "eof"} /\ conn[c].wait # "success"
                        /\ net[c].reply # STAR_RESPONSE_FAILURE
    /\ \A z \in Zodiac : store[z] # Other

\* When nothing went wrong "multi" succeeds.
HealthySucceeds == []Undisturbed => (mode = "multi" ~> verdict = "EXIT_SUCCESS")

=============================================================================
