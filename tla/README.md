# The astrologer in TLA+

A TLA+ development of the programs in this repository: models of the components,
TLC runs over small instances, and TLAPS proofs that hold for every value of the
constants. `PROJECT.json` lists components, runs, theorems, hazards, and the
source lines behind every definition. Paths below are relative to the
repository; `unix/` stands for `src/unix_socket_api/` and `boost/` for
`src/boost_asio/`.

## 1. Inventory

| component | source | state | operations |
|---|---|---|---|
| timer heap | `unix/binary_heap/binary_heap.c`, callbacks in `unix/src/astrolog.c` | array, size; `ts` and `heap_ix` in the elements | push, top, pop, update, remove, validate |
| server | `unix/src/astrolog.c` | a `struct server_state` per connection, the heap of deadlines, epoll registrations, `zodiac_prognosises` | epoll loop, accept, three handlers, time-outs, clean-up |
| protocol helpers | `unix/generic/generic.[ch]` | `struct buffered_recv` | `find_zodiac`, `recv_line`, `buffered_recv_until_delim`, `send_all`, `kill_children_procs` |
| proxy | `unix/src/proxy.c` | parent and `CHILD_PROC_NUM` (2) children, a `struct proxy_state` each, one socket to the server that all children share | fork, wait, kill; accept, four handlers |
| client | `unix/src/client.c` | one process, or `CLIENT_CON_NUM` forked children and their pids | star, ordinary and harmful clients; fork, wait, kill |
| heap test | `unix/binary_heap/binary_heap_test.c` | | random calls, validation after each |
| Boost server | `boost/src/server.cpp` | per connection: stream buffer, socket, deadline timer; the shared map of prognoses; the io_context's queue of ready handlers | accept; read request, read prognosis, write response; deadline |
| Boost proxy | `boost/src/proxy.cpp` | per client: two sockets, two buffers, a timer; the server connection made in advance | resolve, connect, accept; filter, forward, return; deadline |
| Boost client | `boost/src/client.cpp` | Star and Human objects with socket, buffer, timer, strand; threads, a promise, an atomic counter | star, human and multi mode |

**How they interact.** Clients speak a line protocol over TCP: a star sends
`STARS SAY <sign>` and then a line with the prognosis, and is thanked; an
ordinary client sends `HOROSCOPE <sign>` and is sent the prognosis, or told that
there is none. The proxy passes ordinary requests on and denies stars. The server
calls the heap for its deadlines; the heap calls back into the server for
comparing and swapping, and the swap callback writes the `heap_ix` through which
the server later addresses the heap.

**What is hard.**

- *Server.* One thread, many connections: an event is handled after others of its
  batch, so a pointer or a readiness may be stale. A line arrives in pieces, or
  two lines in one read; what was read too far waits in `interm_buf`, which epoll
  cannot see. Replies go out in pieces. The registration changes only when the
  operation differs from that at the start of `update_state`. `EAGAIN` counts as
  an error. Deadlines are looked at only when `epoll_wait` finds nothing.
- *Heap.* Sifting in both directions, stale slots, `size_t` wrap-around, an index
  stored in the elements.
- *Proxy.* Several processes write requests to one socket and read replies from it with
  blocking calls and no time-outs, so that one's bad line and another's request can meet
  in one read of the server; a star's request may be pipelined behind an ordinary one; one
  child's death ends all.
- *Boost programs.* A handler that is queued cannot be called back: `stop`, `cancel` and
  a new expiry reach only what is pending, so every handler must expect to find its object
  stopped. Timers race with completed operations. Objects live as long as a handler
  refers to them (server, proxy), or are referred to by a bare `this` (client). The proxy
  takes its server connection before it has a client. Multi mode runs handlers on many
  threads and joins them by a promise.
- *Clients.* A fork, or a thread, that fails half-way; blocking calls without time-outs.

**What makes each part correct.**

- *Heap*: it is a priority queue; every element knows its slot; `validate`
  succeeds after each call; the loops end.
- *Server*: no event points to freed memory; buffers do not overflow; a connection
  waits for the event it needs, with nothing left unserved behind epoll's back;
  nobody is dropped without cause; every connection gets the replies to its own
  lines, in order and complete; deadlines are kept; all input is served.
- *Proxy*: no star's request ever reaches the server; each client gets the reply
  to its own request; no child waits for ever because of what another child read or
  sent; no half-dead proxy.
- *Boost server*: the same service as the Unix server; nobody is dropped without cause; no
  connection is forgotten by the handlers that keep it alive.
- *Boost proxy*: the same access control; own and whole replies; a failure of one client's
  connection leaves the accepting alone; no operation is pending for ever.
- *Clients*: they end; they leave no child behind and use no object that is gone; multi mode
  reports success exactly when the server confirmed everything.

## 2. Modules

| module | models | composed with |
|---|---|---|
| `PriorityQueue` | what a deadline heap promises | implemented by `BinaryHeap`; `Astrolog` uses it in this form |
| `BinaryHeap` | `binary_heap.c` with the server's callbacks | instantiates `PriorityQueue` |
| `BinaryHeapProofs` | theorems on the heap | extends `BinaryHeap` |
| `Protocol` | request types, replies, lines, signs, `recv_line` | extended by all that follow |
| `AstrologService` | what a server promises its clients | implemented by `Astrolog` and by `BoostServer` |
| `Astrolog` | the Unix server, its sockets, its clients, the clock | instantiates `AstrologService` |
| `AstrologProofs` | theorems on the server | extends `Astrolog` |
| `UnixProxy` | the proxy's processes, the shared socket, server and clients around it | |
| `UnixProxyProofs` | theorems on the proxy | extends `UnixProxy` |
| `UnixClient` | the processes of the Unix client, and a server or a proxy at the other end | |
| `UnixClientProofs` | theorems on the Unix client | extends `UnixClient` |
| `Asio` | what the Boost programs use of Boost.Asio and of `common.h` | extended by the three below |
| `AsioProofs` | lemmas on handlers, queues and streams | extends `Asio` |
| `BoostServer` | the Boost server and its clients | instantiates `AstrologService` |
| `BoostProxy` | the Boost proxy between clients and the server | |
| `BoostClient` | the three modes of the Boost client, and the server | |
| `BoostServerProofs`, `BoostProxyProofs`, `BoostClientProofs` | theorems on each | extend the program's module and `AsioProofs` |
| `MC...` | instances for TLC | |

### Abstraction of data

A stream is a sequence of *words*. A request type, a sign, a piece of text and the
delimiter are one word each and take one cell of a buffer. This keeps what the
control depends on: where a stream is cut, what fits into a buffer, whether a line
begins with a type and goes on with a known sign. Cuts inside a word are not
modelled: until its delimiter arrived no code looks at a line, so a cut inside a word
has the same consequence as one after it, a longer wait. Wording and logging are left
out.

### BinaryHeap

`arr`, `size`, `ts`, `heap_ix` are the C fields; `pc` and `ix` say which sifting
loop runs and where. A call is one action up to its loop, every iteration another,
so the invariants are checked in the middle of a sift too. `PARENT` has the wrap of
`size_t`. Slots past `size` keep their stale content. A refused call (full, empty,
out of range) changes nothing and has no action of its own.

### Astrolog

- `pc`: `wait` (in `epoll_wait`), `run` (between handlers), `update` and `finish`
  (the loop of `update_state`, and what follows it), `free` (the clean-up after an
  error), `exit`, `killed` (SIGPIPE). `events` and `expired` are what is left of the
  current batch; `cur` and `init_op` are `update_state`'s parameter and local.
- `ss[c]` is `struct server_state`: `interm` stands for `interm_buf.data[pos..len)`,
  `buf` for `buf` up to `cur_pos`, or while writing for what is left to send; `rem`
  is the operator `Rem`. A deadline is kept as the time left until it (`ttl`), so
  that time needs no bound; once it has passed it stays 0.
- `net[c]` is the kernel's side and the client: bytes to read, bytes sent, how many
  the client has not read, whether the client is there, and what it still has to say.
- One action per handler, system call result or loop iteration:
  `epoll_wait`, `EventsReported`, `WaitTimedOut`, `WaitFailed`,
  `process_new_connection` (with `create_server_state`, `Rejected`, `SetupFailed`),
  `Dispatch`, `discard_expired_connections`, `handle_first_line`, `handle_recv_h`,
  `handle_send_reply`, `NothingToHandle` (the default of the switch), `Finish`,
  `FreeHeapElem`, `Exit`. Clients act between any two of these.
- When `epoll_ctl` fails for a new connection the struct was already pushed; `Undone` is
  the push and the removal after it, and the clean-up of `main` then walks that heap.
- The system calls named in `Faults` may fail at any call. A failed `recv` or `send`
  is what a missing or vanished client makes of it.

### UnixProxy

`child[k]` is `struct proxy_state` plus `NEW` and `DEAD`; `up` and `down` are the two
directions of the shared socket, `link` its condition. A `recv` takes any non-empty
beginning of what has arrived, so two children can take parts of one reply. The
fall-through of `handle_send_request` (a failed send still leads to
`STATE_RECV_REPLY`) is modelled as it is. The server at the other end is modelled
from what `astrolog.c` does: it answers lines in order (`AnswerLine`) and drops the
connection on a line it does not understand (`DropLink`), when it ends, or at its
time-out. If a part of another request was read along with such a line, it may instead
go round in `update_state` for ever (`HangOnLine`): `link` is then `hung`, and the
connection stays up, takes requests and answers none. Another client of the server can
bring that about too (`AstrologHangs`). Only the end of the server ends it.

### UnixClient

`proc[k]` is a process with its place in `star_client`, `ordinary_client` or
`harmful_client_child`; a star or an ordinary client is `proc[1]` alone. `parent` and `i`
are `harmful_client`'s two loops, which fork and, when the first child died or a fork
failed, kill. The other end is either a server, which serves whole lines, or a proxy, which reads with
`recv_line` and answers every line, a prognosis too, by itself. It serves all connections
at once; that the code has two children and one socket to the server is `UnixProxy`'s
subject.

### Asio

An object is a record: `op` is the handler of its one outstanding operation on a socket
and `ec` how that stands, `left` and `wait` are the same for its timer. `pending` means
that the handler is not ready; any other code is what the handler will be called with,
and then it stands in `queue`. `close` and `cancel` turn `pending` into `aborted` and leave
a queued handler as it is. `expires_after` cancels the outstanding wait. `Posted` puts what
becomes ready behind the queue, and `Released` is the moment at which the last
`shared_ptr` bound to a handler goes. When several handlers become ready in one step, the
operation's comes before the timer's.

### BoostServer, BoostProxy

Handlers are functions from an object to an object (`handleReadRequest(s)` is the object
when the handler returns), and `Handled` puts the result into the state; every handler
begins with `Unless`, the tests for a stopped connection and for an error code. The one
thread that calls `run` takes handlers from the head of the queue. Between any two of them
the kernel completes operations in pieces of any size, timers expire, clients send, close
and reset. A client sends its stream in pieces and waits for a reply line before each piece
but the first; a piece may hold several lines.

In `BoostProxy` the `chain` is class `Proxy`: resolve, connect, accept, and connect again
for the next client; `spare` is the server connection in between. The server at the other
end closes it when no request comes in time, as `server.cpp` does.

### BoostClient

`pc` is the main thread: `run` (in `io_context::run`), `spawn` and `join` (in
`ParallelRun`), `unwind` (creating a thread threw; `~JoinThreads`), `exit`. Threads differ
only in whether they wait for `startFuture` or are in `run`, so that two counters, `waiting`
and `active`, stand for them. `Callable` is the strand: any thread may take any ready
handler of which no earlier one belongs to the same object. A handler is one step, as no
handler touches anything that another object's handlers use except the atomic counter. The
server answers, denies as a proxy would, or closes; a `Rival` is another star.

### Faulty variants

Definitions such as `FreeWithoutHeapRemove` or `LineWithRest` stand before the
definition they distort and are used by no behaviour. Each is a plausible slip in that
function; with it in place of the original the property that `PROJECT.json` names
under "mutants" fails. They document what a property protects against.

## 3. Runs

| run | configuration | checks | distinct states, about |
|---|---|---|---|
| `heap` | 6 slots, 7 elements, 3 deadlines | `IndexConsistent` `SiftInv` `HeapValid` `ImplementsQueue` `SiftEnds` | 2 300 (under a view) |
| `server` | 2 connections, prognoses of two lengths, bad and oversized lines, all faults | `EventsAlive` `EventsStayReady` `BuffersFit` `EpollMatchesOp` `ParkedReaderDrained` `ErrorsAreDeserved` `ImplementsService` | 1 300 000 |
| `server_live` | 2 clients, room for 1, event array of 1, clock of half a millisecond, unequal time-outs | `ErrorsAreDeserved` `NoOversleep` `RequestsServed` `RepliesCompleted` `ExpiredDropped` | 19 000 |
| `spin` | 1 connection | `UpdateStateReturns`, violated | |
| `proxy` | 2 children, 2 clients, pipelined stars, all faults | `AccessControl` `RepliesMatchWaiters` | 1 800 000 |
| `proxy_live` | 2 children, 2 clients, one of two signs unknown, a server that ends or hangs | `WaitersReturn` `DeathEndsAll` | 200 000 |
| `proxy_shared` | 2 children, two signs | `OwnReply`, violated | |
| `boost_server` | 2 connections, good, bad and unfinished lines, clock, failing accept | `TypeOK` `HandlersOutstanding` `DropsAreDeserved` `ImplementsService` | 900 000 |
| `boost_race` | 1 connection, clock | `ExpiryIsCurrent`, violated | |
| `boost_proxy` | clients one after the other, pipelined stars, clock, all faults | `TypeOK` `HandlersOutstanding` `AccessControl` `OwnReply` `OperationsEnd` `KeepsAccepting` | 190 000 |
| `boost_client` | 1 star, 2 humans on 2 threads, three modes, clock, all faults | `TypeOK` `NoDangling` `VerdictIsTrue` `Terminates` `HealthySucceeds` | 350 000 |
| `unix_client` | 3 children, 2 signs, three modes, server or proxy, all faults | `TypeOK` `NoOrphans` `RepliesInStep` `Terminates` | 88 000 |

`TypeOK` of `BinaryHeap`, `Astrolog` and `UnixProxy` is in no run; it is proved (section 4).

### What they show

- **Heap.** The array is a priority queue. `SiftInv` states how far a sift may
  disturb the order, and is what makes the rest inductive.
- **Pointers.** `EventsAlive`: an event's `data.ptr` is used after other events of
  the same batch were handled, and that is safe since a handler frees only its own
  struct and epoll reports a descriptor once. It also says that `accept4`, called on a
  blocking socket, always finds a connection, and that the heap never points to a freed
  struct, also after a connection that could not be set up.
- **Readiness.** `EventsStayReady` and `ErrorsAreDeserved`: no handler reads or
  writes too early, although `EAGAIN` would be an error, and although `update_state`
  calls a handler several times for one event.
- **Buffers.** `BuffersFit` and `ParkedReaderDrained`: a full buffer, a read of no
  bytes and a line left in `interm_buf` are excluded. `EpollMatchesOp`: the
  registration follows the operation even when one call of `update_state` changes it
  twice.
- **Service.** The server implements `AstrologService`: lines are served in order, the
  replies to a connection are those to its own lines, and a horoscope is the whole
  prognosis stored last, also when it is shorter than the one before it.
- **Time.** `NoOversleep`: rounding down to milliseconds never sleeps past a deadline;
  with `ErrorsAreDeserved`, nobody is dropped before it. `ExpiredDropped` holds only
  given a lull in the traffic again and again; that condition is part of the property,
  because the code looks at deadlines only when `epoll_wait` reports nothing.
- **Serving.** `RequestsServed` and `RepliesCompleted`: with every place taken and an event
  array shorter than the list of descriptors, what a client sent is read and what it is owed
  is sent, provided the client goes on reading (`Reads`, part of both properties; a client
  that does not is what the send time-out is for).
- **Proxy.** `AccessControl` is stated on the byte stream: wherever the server cuts
  what it was sent into lines, no line is a star's. `RepliesMatchWaiters`: until a
  child saw the connection fail, no more replies are under way than children wait, also when
  a request could not be sent (`proxy.c:101`) or the server hangs, and just as many while
  the server serves; so a reply read by the wrong child never leaves anybody waiting, and
  none is left over for a later request. `WaitersReturn` is the liveness side of it: a child
  waits for ever only if the server hangs for good, which it can be made to (below).
- **Handlers of the Boost programs.** `HandlersOutstanding`: an open connection always has an
  operation and a wait under way, a stopped one waits for nothing that is yet to happen, and
  the queue holds each ready handler once; so nothing leaks and nothing is freed early, in
  every order in which stop, cancellation, completion and expiry can meet.
  `DropsAreDeserved`: although every renewed deadline calls `handleDeadline` with an error,
  only an expiry stops a connection.
- **Boost server.** It implements the same `AstrologService`, for clients that wait for
  their replies: no piece of a stream has a word behind a request that is answered
  (`ClientsWait`, which TLC evaluates on the streams of `MCBoostServer`).
- **Boost proxy.** The same `AccessControl`. `OwnReply` holds here, where each client has a
  server connection of its own. `KeepsAccepting`: as long as the server can be reached, a
  failing accept never ends the chain. `OperationsEnd`: a silent client, a silent server, or
  a server connection that was closed before its client came costs no more than a deadline.
- **Boost client.** `NoDangling`: with a bare `this` in every handler, no object is destroyed
  while a thread may call one of its handlers. `VerdictIsTrue` and `HealthySucceeds`: multi
  mode reports success only if the server confirmed everything, and does so when nothing went
  wrong. `Terminates`: deadlines and joins let every mode end, unless a thread could not be
  created.
- **Unix client.** `NoOrphans`: after a failed fork exactly the existing children are killed.
  `RepliesInStep`: a client never has two replies under way, for which `recv_line` has no
  room. `Terminates`: client and server never both wait to receive.

### Disagreements found

With a run:

- **`spin`**: the `do ... while` at `astrolog.c:454` tests `op` and `interm_buf`
  but not the state. A request with an unknown sign or type that has further bytes
  behind it in the same read sets `STATE_ERROR` with bytes in `interm_buf`; the
  switch then does nothing and the loop never ends, although the README promises
  service to many clients simultaneously. `NothingToHandle` is that iteration.
- **`proxy_shared`**: both children inherit one connection to the server
  (`proxy.c:310`) and read whatever reply comes first. A client that asks for one sign
  can be sent the prognosis of another, where the README says that it polls the
  prognosis "for the particular zodiac".
- **`boost_race`**: `handleDeadline` (`server.cpp:243`) takes any code but
  `operation_aborted` for a time-out. If the timer expires just before the handler of the
  completed operation runs, its own handler is queued with success, `expires_after` cannot
  call it back, and it stops the next operation, which has all of its time left.
  `DropsAreDeserved` therefore allows a drop after any expiry, not only a current one.

Without a run; the models behave as described, and the properties are stated so as to allow it:

- A reply to a client that closed and reset its connection raises SIGPIPE, which
  `astrolog.c:409` does not prevent: the whole server ends (`Killed`).
- A request that arrives in one read with the one before it is not answered by the Boost
  server but sent back in front of the reply, which shares its buffer (`server.cpp:146`).
- The loop of `spin` stops the proxy too. The children share one connection, so the request
  of one may be read along with another's unknown sign in front of it. The server then never
  returns to `epoll_wait`, the connection stays up, and all children wait in `recv`
  (`proxy.c:114`), which has no time-out. `WaitersReturn` excepts a server that hangs for good.
- The Boost proxy drops what it has read behind a star's request (`proxy.cpp:93`), but
  forwards the star's prognosis when that comes in a later read. The server drops the
  connection for it.
- The Boost proxy's server connection may have timed out before its client comes
  (`proxy.cpp:265`); that client's request is lost. A failed connect ends the accepting for
  good (`proxy.cpp:262`).
- When a thread cannot be created, `~JoinThreads` joins the threads that wait for the
  promise before the promise is destroyed, and the Boost client hangs (`client.cpp:498`).
- A star of the Unix client behind a proxy gets two denials, or none and a closed
  connection, and fails where the code expects to report "Star has been filtered"
  (`client.c:87`).

### Bounds

- *Three cells* per server buffer are the length of a shortest request, type, sign,
  delimiter: a request exactly fills a buffer, a read can bring the end of one line and
  the beginning of the next, and three words without a delimiter fill it and a fourth would overflow. The proxy has
  *four*, so that a chunk can hold a whole line and the beginning of the next.
- *Two connections* are the fewest for a batch in which one handler could harm the
  target of a later event, and for a store and a query to interleave. With
  `CLIENT_CON_NUM = 1` the second one is rejected, and the array of one event makes
  connection and listening socket compete.
- *Six slots* are the fewest for which `binary_heap_remove` must sift its replacement
  up; a seventh element makes a push on a full heap possible.
- *Liveness of the server* has one place and two clients, which is where places and events
  are scarce. `NoOversleep` is proved for any number of connections.
- *The Boost server* has two connections, so that handlers of one are queued between those
  of the other and stores and queries interleave. *The Boost proxy* has one Connection object
  at a time: objects share nothing but the queue and the chain, and the next client, its
  connect and its accept overlap with the end of the one before.
- *The Boost client* has one star and two humans, on two threads: two callbacks race for
  the counter, and one thread can be waiting while another already runs. *The Unix client*
  has three children, so that the first can die before, and a fork fail after, the others exist.
- *Streams* are chosen per run in the `MC` modules; the network may cut them anywhere, and
  clients may stop anywhere and connect again.
- `SNDBUF` (1 or 2) is smaller than a reply, so that replies leave in pieces.
- *Time-outs* of the Boost programs are one tick: an operation ends before, at, or after
  its deadline, which is all that the code tells apart. The Unix server's are 2 and 3 half
  milliseconds, so that rounding matters.
- *The proxy's clients* ask, in `proxy_live`, for a known or an unknown sign: two of them on two
  children bring a bad line and a request behind it into one read.
- `CON_QUEUE_SIZE = 2` admits every client of the instance.

*Symmetry* is used only in runs without liveness (`server`, `proxy`, `boost_server`):
connections, clients and children are interchangeable. `MCBinaryHeap` has a VIEW that
forgets the names of elements and dead storage (slots past `size`, fields of unqueued
elements, the last result); no guard and no checked property of a state depends on them, and
step properties are evaluated on the full states.

Deadlock is checked in every run but `boost_client`: programs that ended stutter by `Ended`,
and any other state without a successor would be reported. In `boost_client` there is one
kind of state in which the program really stops, the threads that wait for a promise
nobody will keep.

### Fairness

- Heap: none; that sifting ends is a property of its steps.
- Server: `WF(Server)`; the process is scheduled. `SF(EventsReported /\ e \in events')`
  for every descriptor: the kernel moves reported descriptors to the end of its ready
  list, so with a short event array nobody is passed over for ever.
  `SF(WaitTimedOut)`: an `epoll_wait` whose time is up and that finds nothing returns
  0. `WF(Tick)`: the clock goes on.
- Unix proxy: `WF` for the parent and for each child, `WF` of what the server does about a
  line (an answer, a closed connection, or a hang; nothing once it hangs), and `SF`
  of `handle_recv_reply` for each child: the kernel wakes every reader of a socket in
  turn, so a child that finds data again and again gets some. Clients have no fairness.
- Boost proxy: `WF` of the thread, of the clock and the timers, of reads, of writes to the
  server, and of the chain's operations; `SF` that an accept succeeds in the end. Clients and
  server have none, nor has a write to a client that does not read.
- Boost client: `WF` of the program as a whole with its timers, reads and connects. The
  server and writes to it have none: deadlines are there for that.
- Unix client: `WF` for each process and for the other end's answers, as there are no
  time-outs.

## 4. Theorems

All proofs are checked by TLAPS with Z3, Zenon and LS4. Every inductive invariant was
checked by TLC on the instances of section 3 before it was proved.

**`BinaryHeapProofs`**, for every `Capacity`, set of elements and set of integer
deadlines (`HeapAssumption`: at least one slot, and `SIZE_MAX > 2 * Capacity`, which any
array that fits into memory satisfies). The invariant is
`HeapInv = TypeOK /\ IndexConsistent /\ SiftInv`. `HeapValid` alone is not inductive: it
says nothing in the middle of a sift. `SiftInv` says that only the edge at `ix` may be
out of order, the one above it when sifting up and those below it when sifting down, and
that the children of `ix` do not belong above its parent; the second part is what a swap
needs in order not to create a second disorder.

- `HeapInvariant`, `TypeCorrect`, `IndexCorrect`, `OneSlotOutOfPlace` (`Spec => []SiftInv`)
- `SiftingEnds`: a sift never turns round, its index at least halves going up and at least
  doubles going down; it makes at most as many steps as the tree has levels
- `AlwaysValid`: `binary_heap_validate` returns 0 after every call
- `Refinement`: `Spec => ImplementsQueue`. That the root is minimal follows by taking a
  least index among the slots with a smaller deadline; its parent would be one too.

**`AstrologProofs`**, for every number of connections, buffer length above 2, event array
size, streams, time-outs, send buffer and combination of faults (`AstrologAssumption`).
The invariant `ServerInv` is `TypeOK`, `BuffersFit`, `EventsAlive`, `EpollMatchesOp`,
`ParkedReaderDrained` and `OneBatch`. They need one another: `EventsAlive` survives a
removal only because the current connection is in neither batch; `BuffersFit` after a
read needs that a reading state has room; `EpollMatchesOp` after `Finish` needs that
`init_op` was the registration, and `EventsAlive` to know that the struct is live;
`ParkedReaderDrained` when a batch starts needs that nothing else runs. `OneBatch` (events
and expired connections are never pending together) is what excludes an expired
connection from being freed under a pending event. The heap and the states of the structs
agree in every state, also during the clean-up, because `Undone` comes to the same as
`remove_server_state` of the new connection (`UndoneFacts`). The proof has a lemma per action,
above lemmas on cutting streams and on what a received chunk may be.

- `ServerInvariant`, `TypeCorrect`, `EventsPointToLiveStructs`, `BuffersNeverOverflow`,
  `RegistrationMatches`, `WaitingReadersDrained`
- `WakesInTime` (`Spec => []NoOversleep`): a call of `epoll_wait` begins with the least
  deadline, rounded down to milliseconds; while it lasts no struct changes, and a tick takes
  as much from the time left to sleep as from every deadline
- `ReasonInvariant`: `ServerInv /\ ReasonInv`. `ErrorsAreDeserved` says nothing of how a
  connection comes to be in error, so `ReasonInv` has, one for each cause: `EventsStayReady`
  (a dispatched event still holds), `HasWork` (while `update_state` loops, the next handler
  finds input, or room, so that `EAGAIN` does not happen), the expired have no time left,
  and `SignInv` (`zodiac_ix` is set only while a prognosis is awaited, so that a line's being
  bad depends on what was read and not on what was left over). `BacklogInv` is there because
  `accept4` makes a struct for a client that must not have one, nor be in a batch.
- `ReportsStayTrue` (`EventsStayReady`), `NoErrorWithoutReason` (`ErrorsAreDeserved`)
- `ServesAsPromised` (`Spec => ImplementsService`), the refinement of `AstrologService`, with
  `ServiceInvariant`: `ServerInv /\ ReasonInv /\ ServiceInv`. A step is a step of the service
  or not seen by it: `SameView` says that a struct and its socket stand for the same unserved
  words, the same sign and the same owed words as before. A read moves words from the socket
  over `interm_buf` to `buf` and the client's words from `todo` to the socket, a send moves
  words from `buf` to what was sent; none of it is seen, because concatenation is
  associative (`MovedAlong`). `ServiceInv` adds that what is being read into `buf` has no
  delimiter, so that a line which `buf` ends with is the *first* line of everything
  unserved (`LineSeen`), that a freed struct is empty (so dropping it and reusing it hides
  nothing) and that a closed socket is. `SignInv` of `ReasonInv` is what makes a first line
  `Announce` or `Ask` and never a prognosis. `StoredFacts` shows that copying a line over a
  longer one leaves a row whose prognosis is the new line alone.

**`UnixProxyProofs`**, for every number of children and clients, buffer length above 2,
streams, answers of the server and combination of faults (`ProxyAssumption`). `AccessControl`
is about the bytes sent so far and says nothing of a line that is about to be sent. The
invariant `ProxyInv` adds `Screened`: while a request is received, `buf` has no delimiter,
and in `STATE_SEND_REQUEST` it is one whole line of the permitted type. The first part is
what makes the second follow from `recv_line`, which looks only at the chunk it received
last. Two lemmas carry the argument: a whole permitted line appended to a good stream, and a
line taken off its front, leave a good stream. `RepliesMatchWaiters` is inductive given
`ProxyInv`, which says that what is sent is one line. Its proof is a count: delimiters of
a stream add up under concatenation and cutting (a bijection of positions), one is added by
every request, moved by every answer, and taken by every reply that ends; a closed
connection or a line behind which the server hangs only takes some away, and a failed send
adds a waiter without a request. From then on only the inequality is left, as `link` is
never `open` again. The guard, once false, stays false.

- `ProxyInvariant`, `TypeCorrect`, `StarsStayOut` (`Spec => []AccessControl`)
- `NoReplyLeftOver` (`Spec => []RepliesMatchWaiters`)

**`UnixClientProofs`**, for every number of children, signs and rounds, every buffer length
above 2 and every prognosis that fits into the buffer (`UnixClientAssumption`; that
no sign is the delimiter or the word of a request type is how words are chosen).
`ClientInv` couples each process with its connection (`Coupled`): nothing is under way while
the client has not asked, then its request, then one line of which a part may be read.
A star behind a proxy is excepted, where this is false (section 3), and for it the invariant
only says that no ordinary request is under way. `Family` says which children exist
while `harmful_client` forks and which have ended while it kills.

- `ClientInvariant`, `TypeCorrect`, `NoChildLeftBehind` (`NoOrphans`)
- `AlwaysInStep` (`RepliesInStep`, an action property)

**`AsioProofs`** has the lemmas that the three Boost programs share: a queue without
repetitions, what posting and releasing handlers does to it, and that an object and its
entries in the queue stay in step (`InStep`). Further lemmas are about streams: what cutting
and joining them does to their lines and to the number of their delimiters, and that
`Together`, a recursive function, can be unfolded at either end; that follows from the fact
that two such functions cannot differ at a least argument (`UptoUnique`).

**`BoostServerProofs`**, for every number of clients, all streams, signs, time-outs and send
buffers (`BoostServerAssumption`). `HandlersOutstanding` does not say why a handler has
its error code. `ServerInv` has, per connection, `Sound`: a successful read has a line, a
prognosis is read for a known sign, an operation of an open connection is not aborted and
fails only when its client left; `AcceptInv` and `BacklogInv` keep the accepts apart from the
objects that exist.

- `ServerInvariant`, `TypeCorrect`, `NoHandlerIsLost` (`HandlersOutstanding`)
- `NoClientIsDroppedForNothing` (`DropsAreDeserved`, an action property)

Its second half is the refinement of `AstrologService`. That needs `ClientsWait`, a condition
on the clients and not on the code: the reply goes into the buffer that requests are read
into, so whatever stood behind a request would be sent back in front of it
(`server.cpp:146`). The theorems above hold without it. `ServiceInv`, inductive on top of
`ServerInv`, says of a Connection and its socket that what is heard of the client is one
request, or the prognosis of a sign it announced, and that a client of which
something is heard waits for a line (`Polite`); that while a reply is written nothing else is
heard, and all lines sent, that reply included, are no more than were asked for (`Answered`);
that a sign is announced only while a prognosis is read, and nothing outlives the object and
the socket (`Settled`); and that stored prognoses have no delimiter. `Polite` and `Answered` hold each
other up: a client sends its next piece when it has received as many lines as it asked for,
and by the count in `Answered` a reply of which a part is still unsent cannot have been
counted, so that the buffer is empty by then. The steps are then as in `AstrologProofs`: a line that is
served is one step of the service, everything else moves words along without being seen.

- `ServiceInvariant` (`ClientsWait /\ Spec => [](ServerInv /\ ServiceInv)`)
- `ServesAsPromised` (`ClientsWait /\ Spec => ImplementsService`)

**`BoostProxyProofs`**, for every number of clients, all streams, signs, answers of one line,
time-outs and failures (`BoostProxyAssumption`). `AccessControl` is about what is on its way
to the server. `ProxyInv` says what lies between a Connection and the server in
each state (`InTurn`): nothing, one request of which a part may be sent, one line of answer
of which a part may be received, or nothing for good. `ChainInv` does the same for the
connection that is made in advance.

`OwnReply` is about what a client was sent, which `ProxyInv` does not relate to what it
said. `ReplyInv`, which is inductive on top of `ProxyInv`, says how far the newest
`Dialogue` is while the client is there: its request is still coming in (`Listening`), or
that request, the server's answer to it or nothing for good is between the proxy and the
server (`Relayed`), or the reply is being written (`Replying`); what it was sent before are
the replies to all it said earlier, which have fewer delimiters than it said lines, so that
`SendNext` can only happen when the newest reply is complete. Pieces with words behind
their delimiter are excluded: what is done with such words (they begin the next request, or
are dropped with a star's) is the pipelining that `AccessControl` is about. What one line
more adds to `Replies` is `RepliesGrow`.

- `ProxyInvariant`, `TypeCorrect`, `NoHandlerIsLost` (`HandlersOutstanding`),
  `StarsAreKeptOut` (`AccessControl`)
- `RepliesInvariant`, `RepliesAreOwn` (`Spec => []OwnReply`)

**`BoostClientProofs`**, for finite sets of stars, one for each sign, and of humans, any
number of threads, all time-outs and failures (`BoostClientAssumption`). `ClientInv` has
`ObjectInv` (how far the conversation of an object is, with what was read and what is on its way
together the server's reply), `PhaseInv` (where the main thread is and which objects and
threads exist then: while humans are polled the stars have all finished) and `CountInv` (the
counter is at most the number of objects that are finished and confirmed). `VerdictIsTrue`
follows from the last two: a counter equal to the number of objects leaves none out.

- `ClientInvariant`, `TypeCorrect`, `HandlersFindTheirObject` (`NoDangling`),
  `SuccessIsEarned` (`VerdictIsTrue`)

**Only model-checked**: liveness (`RequestsServed`, `RepliesCompleted`, `ExpiredDropped`,
`WaitersReturn`, `DeathEndsAll`, `OperationsEnd`, `KeepsAccepting`, `Terminates`,
`HealthySucceeds`), as liveness under fairness is out of the prover's reach.

## 5. Not modelled

- *Start-up*: `getaddrinfo`, `bind`, `rlimit`, and their failures before the loop. The
  initial states are those in which the loop begins.
- *Failure of the clock* (`get_cur_time` exits the process).
- *A client of the proxy that never reads*: the child would block in `send` for ever.
- *`buffered_recv`* has no caller. *The heap's test program*; its assertion is `HeapValid`.
- *Arguments and messages*: usage, parsing of numbers, logging.
- *The size of a stream buffer*, which Boost.Asio does not limit by default.
- *A pid that is reused* between `wait` and `kill`.
- *Liveness of the Boost server's service*: that a silent client is dropped follows from the
  same handlers as in the proxy, where `OperationsEnd` checks it.

## 6. Plan

Every program of the repository has a model and an inductive invariant. Every invariant
and every action property that a passing run checks, and the three refinements, are theorems.
What would go further:

- the Boost server for clients that do not wait, once the code keeps what it reads and what it
  writes in separate buffers: `ClientsWait` could then be dropped;
- the liveness properties, with a prover that has `ENABLED` and fairness.
