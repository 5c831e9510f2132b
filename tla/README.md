# libcobra in TLA+

A verification project for [libcobra](../src/README.md), a small C library on
top of libuv: packets over TCP with a keep-alive, a server, and the discovery
of devices in a LAN by multicast. It holds TLA+ modules of the library, TLC
configurations that check them on small instances, and proofs, checked by
TLAPS, of the main results for every value of the constants.

All source paths below are relative to the repository (`src/queue/...`,
`include/cobra/...`).

## The system

Every object a user opens (a client socket, a server, a discovery) owns one
libuv loop and one thread that runs it. Users call the API from any thread.
Inside an object, three things are shared by these threads:

* `state` and the callback pointers, under `mutex_handle`;
* the *asyncs*: bounded mailboxes through which any thread hands work to the
  loop thread (`close_async` of one entry, `write_async` of a size the user
  chooses), each with a mutex of its own and a `uv_async_t` to wake the loop;
* the handles, which only the loop thread touches after the object was opened.

The loop calls back into the library and from there into the user's callbacks.

| component | its state | operations | what is hard | what makes it correct |
| --- | --- | --- | --- | --- |
| **queue** (`src/queue`) | slots, two pointers, a length | init, length, capacity, read, write, clear | the wrap; full and empty look alike; a clear that leaves `length` alone | it is a bounded FIFO; no slot is read before it was written |
| **async** (`src/async`) | a queue, the `uv_async_t`, callbacks | bind, send (any thread), the send callback (loop), close | the mutex is released around each callback; signals merge; who is told to wait, and who to go on | order, no loss, no lost wake-up, every sender told to wait is told to go on |
| **buffer** (`src/buffer`) | an array, two pointers | read, write, `_void` and `_uint` forms, clear, fragment, resize, equals | room lost in front of the read pointer; width and byte order of lengths | never beyond the array; what is read is what was written |
| **socket, life cycle** (`src/socket/socket.c`, `_connect.c`, `_close.c`, `_write.c`) | state, five handles, two requests, close report | connect, write, close, destroy, and their callbacks | close against every step of connecting and writing; cancelling too late; counting close callbacks | a close completes, is reported once and last; each write is answered |
| **socket, framing** (`_read.c`, `_write.c`) | read buffer, body length | the read callback, the frame of a write | TCP cuts the stream anywhere; lengths at the limit | the reader stays in step with the writer |
| **socket, ping** (`_ping.c`) | two timers, `alive` | start, refresh, ping frame, two timer callbacks | pings crossing; a ping refused by a full queue | a live peer is not dropped; a dead one is |
| **server** (`src/server`) | state, two handles, a request | listen, accept, close, destroy | as for the socket; accepted sockets live on the server's loop | a close completes; every accepted socket is handed over |
| **discovery** (`src/discovery`) | state, three handles, a datagram buffer | listen, scan, close, interfaces | a buffer shared by all senders; two modes with different handles | answers every request, finds every answer |
| platform, utils, getters and setters | none of their own | byte order, array flip, callbacks and data under the mutex | | |

`libuv` is a submodule and not part of the repository: what the modules say
about it is taken from how the code uses it, and is marked *External* in the
header of each module.

## The modules

    Fifo  <---implements---  Queue  <---extends---  Async  ---implements--->  Mailbox
    UserView  <---implements---  Socket  ---uses two--->  Mailbox
    ServerView  <---implements---  Server  ---uses one--->  Mailbox   (accepted sockets on its loop)
    Discovery  ---uses one--->  Mailbox
    Ping                                        (two ends of a connection, in time)
    Buffer  <---extends---  SocketRead, DiscoveryPackets

| module | what it is |
| --- | --- |
| `Queue` | the ring buffer: pointers as offsets, a slot never written holds `Garbage` |
| `Fifo` | what the ring buffer promises |
| `Async` | the mailbox: sender threads against the send callback of the loop |
| `Mailbox` | what its owners take it for: a bounded box, a mark, one entry in hand |
| `Socket` | the life of one socket, a client's or an accepted one |
| `UserView` | what its user may rely on, in terms of the callbacks that run |
| `Buffer` | the byte buffer and the conversion of lengths, as operators |
| `SocketRead` | frames over a byte stream, one direction |
| `Ping` | the keep-alive between the two ends of a connection, in discrete time |
| `Server` | the life of one server, with the sockets it accepts |
| `ServerView` | what its user may rely on, in terms of callbacks and the end of the thread |
| `Discovery` | the life of one discovery, listening or scanning |
| `DiscoveryPackets` | the datagrams between a scanner and listeners |
| `QueueProofs`, `AsyncProofs`, `SocketProofs`, `ReadProofs`, `PingProofs`, `ServerProofs`, `DiscoveryProofs`, `PacketsProofs` | theorems and proofs |
| `MCAsync`, `MCSocket`, `MCSocketRead`, `MCPing`, `MCServer`, `MCDiscovery`, `MCDiscoveryPackets` | instances for TLC |

Operators carry the name of what the code does, and each has a comment that
names the function. A short section of each module, *Faults that the properties
must catch*, holds variants of operators with a plausible bug (an off-by-one, a
missing check, a swapped order): each property is violated when one of them
replaces the operator it varies.

### Queue, Fifo

`length`, `read` and `write` are the fields of `cobra_queue_t`, the pointers
counted from `head_pointer`. `Read` and `Write` are one step each because every
caller holds the mutex of its async. `Clear` leaves `length` alone, as the code
does. `QueueNext` has no clear of its own: the library clears a queue only
inside `cobra_queue_read` and in `cobra_async_bind` (an action of `Async`).

The ring has no run of its own: the run of `Async`, which extends it, checks its
properties under every interleaving of the threads that use it.

### Async, Mailbox

A step is a section between a lock and the next unlock: `Send` (refused or
accepted), `WakeUp` (the callback is entered and takes the first entry),
`Delivered` (a send callback returned and the loop looks again), `Drain` (the
callback ends and calls `drain_callback` if `drain_flag` was sampled). `pending`
is libuv's mark, which merges signals. `waiting` records the senders that were
told `QUEUE_FULL` or `QUEUE_OVERFLOW` and not yet drained; `sent` and `done` are
history. The branch of the callback for a mailbox without `send_callback` is
left out: every owner in the library sets one before it binds. The number of
accepted entries is bounded by `MaxSends`, in the guard of `Accept`.

`Mailbox` is the abstract specification: entries are posted while there is room
and mark a run of the callback as due; a run takes the oldest entry, and goes on
while there is one, also after the handle was told to close; a closing mailbox
starts no run. `Async` implements it with `box` the contents of the ring, `due`
libuv's mark and `taken` the entry whose `send_callback` runs
(`ImplementsMailbox`). A `send_callback` may close the mailbox it was called from,
as those of all `close_async` do.

`Mailbox` is also where the asyncs meet their owners. `Socket`, `Server` and
`Discovery` hold an async as a sequence, a signal flag and the position of the loop,
with neither ring nor mutex; `UsesMailboxes` and `UsesMailbox` (an `INSTANCE` of
`Mailbox` for each async, under a refinement mapping) say that every step of the
owner is one of the mailbox or does not show in it. So what an owner does to an async
is what `Async` was shown to stand: nothing is posted before it is bound, a run of the
callback begins only on a mailbox that was signalled and is open, and one that has begun
goes through what it finds although it has closed its own handle.

### Socket, UserView

The life begins in one of two ways. `Connect` is `cobra_socket_connect`: handles
are initialised and a thread is created. `Accept` is `cobra__socket_bind` with
the rest of the server's connection callback: the socket is connected at once
and uses the loop of the server, which goes on when this socket is closed (see
`Server`).

User threads (`Users`) close, threads inside `cobra__socket_write` are named by
the write they make (`Writes`, pings among them), a worker thread performs the
lookup, and the loop thread runs one callback at a time. `cobra__socket_close`
and `cobra__socket_write` are two steps each, since they unlock between the
check of the state and the async send (`CloseBegins`/`ClosePosted`,
`WriteBegins`/`WritePosted`); called from the loop thread, the close is one
step with the callback that makes it (`LoopClose`), because nothing the loop
does can come between and a second close would do nothing.

The queues of the two asyncs are sequences here, as in `Mailbox`. Draining and the callback pointers are left out (a callback that is not set is
one the user does not see); so is what is on the wire (`SocketRead`).
`connects` and `reports` count calls of user callbacks; `wr` says what became
of each write.

Outcomes of undefined or unchecked behaviour are states of the model:
`loop = "aborted"` (libuv asserts that a handle is not closed twice),
`lookup = "dead"`, `dial = "dead"` and `wr[w] = "lost"` (a refusal of
`uv_getaddrinfo`, `uv_tcp_connect` or `uv_write`, whose results are ignored; the
last is what becomes of a frame on an accepted socket whose `uv_accept` failed),
`loop = "crashed"` (the close then cancels a request that was never set up:
`CancelRefused`, one of two outcomes of reading its type) and a socket that never
returns to `CLOSED`: no code assigns `COBRA_SOCKET_STATE_CLOSED` after creation, so
it can be neither opened again nor destroyed (`UserView` opens it once).

`dial = "late"` is a connection that `Resolved` begins on a tcp handle that is
closing or closed, after a lookup that the close came too late to cancel. It is
cancelled with a handle that is still closing; on one that is closed it fails or is
made, and `connect_callback` then runs after the close report; in a build of libuv
with assertions it stops the program (`LateAsserted`, `loop = "asserted"`). `UserView`
has this as its one exception to the close report being last: a user may see
`connect_callback` after it only between `LateBegins` and the end of that attempt.

### Buffer, SocketRead

A buffer is `[off, unread]`: how far the read pointer is from the head, and the
bytes up to the write pointer. A byte has `Base` values instead of 256, so that
`BodyMax = Base^2 - 1` is 3 in the runs instead of 65535; the header arithmetic
(the word in little-endian memory, flipped, its low digits kept) is otherwise as
in the code. The bytes of a word are its digits by repeated division
(`WordBytes`), and a word is put together from the high-order byte down
(`WordValue`), both as recursive functions. `Packets` is the set of what users write, the empty one a ping. A
packet longer than `BodyMax` is accepted, as in the code, and framed with the low
part of its length; what the reader then makes of the rest is whatever the
arithmetic gives. `Told(k)` says that no such packet is among the first k:
`InSync` and `AllConsumed` promise the frames up to there, `RoomToRead` and the
bounds of the buffer hold beyond. One step
of the model is one read callback up to its loop
(`ReadBytes(n)` for every n), one round of the loop (`ReadHeader`, `ReadBody`),
or its end with the fragmenting (`ReadEnd`).

The reads that close the reader are outcomes of `ReadNothing`: the end of the
stream or an error, and a length of 0, which libuv reports after a read that
filled the buffer when nothing follows.

### Ping

Two ends, `"client"` and `"server"`, run the same code: `TimerFires`
(`cobra__socket_timer_callback`: set `PING_SENT`, write a ping, start the check),
`CheckPasses` and `GivesUp` (the check callback), `Receive` (the read callback:
the timer starts again; a ping is answered when `alive` is `OK` and taken as the
answer otherwise). A ping and its answer are the same frame. `WritePing` is
refused by a full `write_async` and nobody looks: the model does the same. `Send`
is the callback of `write_async`, which the wake-up empties; `WriteData` is a user
who keeps the queue busy.

Time is a `Tick` common to both ends. It is taken only when everything due at
this instant has run (`Settled`), so a frame is read within `MaxDelay` of being
written; what is due at one instant runs in any order. An end may fall silent
for good; what is sent to an end that stopped is lost. `idle` (time since an end
read something) and `calm` (time since a ping was refused, capped at `LongAgo`)
are history. The code's timeouts are 6000 and 2000 ms; the instance has 6 and 5,
which the module allows because only two relations are used, both named
assumptions: the check is shorter than the ping (`PingAssumption`), and an answer
is back before the check (`ResponsiveAssumption`, on the network). A check of 5
leaves room for a delay of 2, a check of 2 for none. The proofs are for all values.

### Server, ServerView

`Server` has the shape of `Discovery` with the lookup of `Socket`: `Listen`,
`ThreadStarts`, `LookupStarts`, `Resolved` (bind and listen, each of which may be
refused), `CloseBegins`/`ClosePosted` of a user, `LoopClose` from the loop, and
the close callbacks counted up to two. `Connection` is the connection callback:
it does not look at `state`, nor at the result of `uv_accept`, so a socket is
handed over while the server is `CLOSING` and may be one that was not accepted
(`"dead"`; it is closed when its ping is not answered, which is what
`DeadPeerNoticed` of `Ping` promises). A socket is `"open"`, `"closing"` and
`"closed"` here; its own steps are in `Socket`.

`ServerView` is what the user sees: sockets are handed over once each and none
after the close report, the report comes once, and the thread ends after the report
and after the last socket is closed. The state never leaves `CLOSING`, so there is
one close context (`OneContext`), unlike in `Socket`.

### Discovery, DiscoveryPackets

`Discovery` has the shape of `Socket` with three handles, one async and no
connection: `Open` is the section under the mutex of listen or scan,
`ThreadStarts`, `Bound`, `Joined` and `ReceiveStarts` are the thread function up
to `uv_run`, each of which another thread may precede with a close. Unlike the
socket's, its state never leaves `CLOSING`, and so there is only ever one close
context (`OneContext`). `flight` counts datagrams handed to libuv, bounded by
`MaxFlight`. Closing a listener closes a timer handle that was never initialised;
that is the outcome `loop = "aborted"` (libuv asserts on the type of the handle it
finds).

`DiscoveryPackets` has the content: `inbox` is what waits at the socket of each
host, a set since UDP neither orders nor counts; a scan reaches any subset of
the group and an answer may be lost. `Received` is the read callback up to its
comparison, and `Unrecognised`, `Answer` and `Found` are its three ends.
`Foreign` are the datagrams of other programs, of any content: pieces that add up to
the packet in the buffer, and longer datagrams that are cut to it. So a stranger may
be found (`README.md:26` of the library speaks of devices that support the protocol);
`FoundByPacket` says by what, and that nothing left in the buffer makes the scanner
report a listener that has not just answered.

## The runs

| run | instance | properties | result |
| --- | --- | --- | --- |
| `async` | 2 senders, 3 entries, 7 sends; 3,701 states | `AsyncTypeOK`, `NoGarbageRead`, `ImplementsFifo`, `InOrder`, `NoLostWakeup`, `ImplementsMailbox`, `EventuallyDelivered` | hold |
| `async_one` | 2 senders, 1 entry, 5 sends; 312 states | `WaitingMeansFull`, `DrainReachesWaiting` | hold |
| `async_drain` | 2 senders, 2 entries, 5 sends | `DrainReachesWaiting` | violated |
| `socket` | 2 users, 2 writes, write queue of 1; 58,648 states | `SocketTypeOK`, `ClosingInProgress`, `ReportAfterAll`, `ImplementsUserView`, `UsesMailboxes`, `CloseCompletes`, `OpenSettles`, `AcceptedWriteSettles` | hold |
| `socket_twice` | 2 users, 1 write | `HandlesClosedOnce` | violated |
| `socket_late` | 1 user, 1 write | `NoConnectAfterReport` | violated |
| `read` | bytes of 2 values, 5 packets of 0 to 4 bytes (3 is the limit), 3 frames; 54,476 states | `ReadTypeOK`, `InSync`, `RoomToRead`, `AllConsumed` | hold |
| `discovery` | 2 users, 2 datagrams in flight, both modes; 175 states | `DiscoveryTypeOK`, `OneContext`, `ReportTellsCause`, `UsesMailbox`, `CloseCompletes` | hold |
| `discovery_listen` | 1 user | `HandlesInitialised` | violated |
| `packets` | a scanner, a listener, 3 foreign datagrams; 65,536 states | `PacketsTypeOK`, `FoundByPacket`, `FindsUnspoiled` | hold |
| `ping` | timeouts 6 and 5, delay up to 2, write queues of 2, 2 packets; 1,142,085 states | `PingTypeOK`, `DeadPeerNoticed`, `NoEcho`, `GivesUpForCause` | hold |
| `server` | 2 users, 3 connections; 1,198 states | `ServerTypeOK`, `OneContext`, `ReportTellsCause`, `UsesMailbox`, `ImplementsServerView`, `CloseCompletes`, `OpenSettles` | hold |

**Why the bounds are enough.** Three slots are the least in which the pointers
can be apart, wrap and meet; seven sends go round them more than twice, with a
full and an empty queue in every phase of the callback (five do for queues of
one and two entries). Two users are what it takes to close twice around an
overwritten state, and two writes to have one in flight, in the hand of the loop
or in the queue while another is elsewhere; a write queue of one overflows, and
is emptied by the write that is taken from it. Three frames leave every remainder
in front of a frame of maximal length (5 bytes in the instance), with pings and
packets in every order. A server or a discovery has one close context, so a second
user and a failure are what can compete for it; three connections let a server
have one socket open, one that was not accepted and one closed at the same time.
In `ping`, two entries are the least of a queue that a packet fills while a ping
is in it, and two packets fill it without one; timers and delays of both ends meet
in every phase. The foreign datagrams are the two pieces of the packet, which add up
to it in one order and fill the buffer in the other, and one that begins with it and
is longer, cut to the packet in an empty buffer and to something else behind a piece;
hosts do not see each other's buffers, so that one listener stands for each. The proofs lift the bounds
from the safety of every module: the queue, the async, the three life cycles, the
framing, the datagrams and the ping.

**What the violated runs show.**

* `async_drain`: `drain_flag` is sampled once, at `async_send.c:25`. A sender
  that fills the queue while the loop is inside a send callback is told
  `QUEUE_FULL`; the loop empties the queue, the next callback finds room and
  does not drain. A user that waits for the drain callback waits for ever.
* `socket_twice`: a lookup that was too late to cancel, or a connection that
  succeeded just before the close context is handled, sets `CONNECTING` or
  `CONNECTED` over `CLOSING` (`socket_connect.c:97`, `:127`). Another close then
  posts another context, and the handles are closed twice.
* `socket_late`: `cobra__socket_resolve_callback` looks neither at the state nor at
  the handles. After a lookup that `uv_cancel` could not stop it starts a connection
  on the closed tcp handle, and the user, who was told that the socket is closed, is
  told that it is connected.
* `discovery_listen`: `cobra_discovery_listen` initialises two handles,
  `discovery_close.c:51-55` closes three.

Five limits show in the model without a run of their own. A read callback of
length 0 (`socket_read.c:23`), which libuv issues after a read that just filled
the buffer, closes a live connection: `AllConsumed` admits it. A packet longer than
65535 bytes is not refused (`socket_write.c:87`) and is framed with the low part of
its length: `Told` limits the promise to what came before it. The read callbacks of
a discovery return without clearing a buffer that does not hold the packet; what is
in it stays, and the packets that follow are never recognised: `FindsUnspoiled`
admits it. In the same buffer the last piece of a packet completes it and its sender,
a stranger, is found: `FoundByPacket` admits it. A frame that `uv_write` refuses
(`socket_write.c:95`) is neither answered nor closes the socket, and its memory is
not freed: `AcceptedWriteSettles` admits it. Nothing in the repository says what should happen in these cases.

The properties that hold are stated around these: `CloseCompletes` admits the
abort, the crash and the assertion, `OpenSettles` these and the refused lookup or
connect, `AcceptedWriteSettles` these and a refused `uv_write`, `ReportAfterAll` and
`ImplementsUserView` a late connection, `FoundByPacket` the two ways a stranger is
found, `FindsUnspoiled` a spoiled buffer; the `CloseCompletes` of a discovery speaks of scans, that of a
server of a thread whose accepted sockets are closed. Each such exception is one of the
disjuncts of the property and is named in its comment.

**Deadlock** is checked where the system never stops (`ping`, whose time goes on,
`packets`, and `read`, whose user may set callbacks at any time). A mailbox, once
closed, and a socket, a server or a discovery, once its loop has ended, do stop.

**Fairness.** Weak fairness, of: the callbacks that are due in a loop (libuv
runs each in a finite number of turns), the end of a lookup, of a connection
attempt and of a `uv_write` (one outcome of several, never a particular one),
and of a thread inside a call of the API. Nothing is assumed of users, who need
not close or write, nor of the peer, who need not go away. In `Server`, a socket
that was not accepted closes in the end (its ping gives it up); one that was need
not, and nobody need connect. `Ping` has no fairness and no liveness property: that
a peer is noticed is stated with a bound on the time, as an invariant. In `DiscoveryPackets`
the timer of the scan repeats (`COBRA_DISCOVERY_TIMEOUT`), and there is strong
fairness of one thing: an answer that is sent again and again is not lost every
time.

**External assumptions.** Those of each module are in its header. `uv_tcp_connect`
on a handle that is closing or closed may do all that libuv's can: refuse, be
cancelled with the handle, fail an assertion, fail, or connect. One assumption
matters to `ReportTellsCause` of the server: `uv_tcp_bind` on its closed handle
is refused.

## The proofs

`tlapm` checks them all; nothing is assumed but the named assumptions on the
constants (`QueueAssumption`: a capacity of at least one and a `Garbage` that is
no payload; `AsyncAssumption`: entries are numbered `1 .. MaxSends`;
`SocketAssumption`: a write queue of at least one entry, and `"NONE"`, an empty hand,
is not a write; `DiscoveryAssumption`: the
bound on sends in flight is a number; `BufferAssumption`: a byte has two values or
more and a word two bytes or more; `SocketReadAssumption`: packets are sequences of
bytes; `PacketsAssumption`: datagrams are sequences of
bytes, the packet among them; `PingAssumption`, `ResponsiveAssumption`, see above).

* `QueueSafe`, `QueueImplementsFifo`. The invariant `QueueInv` (types,
  `PointersAgree`, `NoGarbageRead`) is inductive. The work is in `WriteAppends`
  and `ReadRemoves`, which say what the contents are after a step, by way of
  `SlotsDistinct`: unread entries are in different slots and none is in the one
  a write uses next.
* `AsyncSafe`, from the lemmas of the queue. `AsyncInv` adds `NothingBeforeBind`:
  binding is harmless only because nothing was sent, as `cobra_queue_clear`
  leaves `length` alone.
* `AsyncImplementsMailbox`. `MailboxStep` maps each step of `Async` to one of
  `Mailbox` or a stutter. What carries it is `TakeNextIsTake`: a read of the ring,
  with its clear when the last entry goes, is the removal of the head of `Contents`.
* `NoDrainLostWithOneEntry`: why the lost drain callback cannot happen on a
  queue of one entry. The strengthening is that inside a callback a waiting
  sender implies `drain_flag`.
* `SocketSafe`, `SocketImplementsUserView`. `SocketInv` is a conjunction of named
  parts: the handles go through their states together (`HandlesTogether`), the
  state fits the requests (`StateFits`), there is one attempt to connect
  (`OneAttempt`), `closed_handlers_count` is the number of closed handles
  (`CountsHandles`), a posted context is signalled (`PostSignalled`), and each
  write is in one place (`WritesPlaced`). `ControlStep`, `TypeStep` and
  `WritesStep` prove it inductive, action by action; `UserViewStep` maps each
  step to one of `UserView` or a stutter, a late connection included
  (`LateBegins`, `LateFails`).
* `NoConnectAfterReportUnlessLate` is about `NoConnectAfterReport`, which the run
  `socket_late` finds violated: it holds in every behaviour in which no connection
  is begun on a handle being closed (`LateDial`).
* `ClosedOnceUnlessSetBack`, `AcceptedClosesOnce` are about `HandlesClosedOnce`, which
  the run `socket_twice` finds violated: it holds in every behaviour in which no step
  takes the state out of `CLOSING` (`SetBack`), and therefore of every socket that a
  server accepted, which has no lookup and no connection attempt. `OneClose` says that
  there is then one place for a close context at a time.
* `ScanHandlesInitialised`, `ListenerNeverReports` do the same for `discovery_listen`:
  a scan closes only what it initialised, and the close of a listener is never
  reported. `HandlesOfMode` is what the two modes make of the timer.
* `DiscoverySafe`, `ServerSafe`. `OneContext` counts the places a close context can
  be (a thread about to post it, the queue, the hand of the callback, the handles),
  which `ContextPlaces` turns into cases; `CauseCarried` follows the error from place
  to place to the report, `CountsHandles` is as for the socket. `ClosingStep` covers
  the steps that do no more than close at most once.
* `ServerImplementsView`. From the same invariant: a socket is handed over only while
  the tcp handle is open, and the report needs it closed.
* `SocketUsesMailboxes`, `ServerUsesMailbox`, `DiscoveryUsesMailbox`. Beyond the
  invariants above they need that an async is bound exactly when its owner was opened
  (`BoundWhenOpened`, `BoundWithLoop`), so that no post comes too early. The lemmas
  sort the steps by what they do to the mailbox: post (`PostOnBox`), take, close, or
  nothing (`AsideOnBoxes`).
* `FoundBySendingPacket`. `PacketsInv` says that a buffer is unread from its head and
  not overrun (`Intact`), and that the scanner's inbox holds from listeners only the
  packet (`Honest`). `ReadBuffer` carries the action property: what is recognised in
  a buffer that was empty begins with the packet, and the packet itself is never
  recognised behind anything, as its first byte occurs in it once.
* `StoppedPeerIsNoticed`. `TimersAgree` ties the two timers together: while a ping is
  not answered the check runs and is not put off (`CheckRuns`), and `idle` is the time
  since the timer was started, or that plus a whole timeout (`IdleIsTimed`).
* `PingsEnd`. `NoEcho` is not inductive. `PingsCounted` is: between two open ends there
  are no more pings (in both queues and on both wires) than ends that wait for an
  answer. An end that waits and pings again adds a ping without waiting more, which
  `CheckRuns` excludes; an answer takes the place of the ping it answers. The lemmas
  count pings in sequences by the set of their places (`QueuedGrows`, `UnderShrinks`,
  `UnderJoins`).

* `GivenUpForCause`, the action property `GivesUpForCause`, needs
  `ResponsiveAssumption` as well. `CauseInv` has two parts, for two open ends. When an
  end waits for an answer, a ping of one of the two is under way, or the other end
  has read something since, or the ping was refused since (`Noticed`). When no ping
  was refused for long enough, an old enough ping of the other end is on its way
  back, or one that the other end will answer is on its way there (`Helped`). What an
  end has in its queue and on its wire is taken as one `Line`, each frame with its
  age, and ages are measured against the check timer: a frame of age `a` arrives
  within `MaxDelay - a`, and twice `MaxDelay` is less than the check. Pings that cross
  move an end from one case to the other and make no frame younger.
* `ReadRoom`. `RoomInv` adds to the types `KeptShort`: between two read callbacks the
  unread bytes are at the head of the array and less than what is awaited, a header
  or a body, which is less than the array holds. A packet that was too long changes
  nothing about this: the body awaited is still what a header can tell.
* `ReaderKeepsStep`. `SyncInv` says that what is unread in the buffer followed by what
  is on the wire is, byte for byte, the frames of the packets not yet consumed
  (`InStep`), the first of them without its header when that was read. What is left
  after the k-th packet, `tail[k]`, is a recursion backwards over the packets, stated
  as a set of functions that satisfy it (`Tails`) and are shown to exist. `Told`
  bounds the promise. The steps need sequence lemmas (`CutFront`, `Recut`) and
  `LengthTold`: the header of a packet that is not too long tells its length, by way
  of `HeaderDigits` and `HeaderValue`.

The library's induction theorems take a predicate as a parameter, which the backends
cannot instantiate. `SetInduction` states induction for a set instead and follows
from the well-foundedness of the numbers; with it `RecursionExists` shows that the
recursive functions of the header have values at all, and these are what their
equations say.

Only model-checked: liveness (`EventuallyDelivered`, `DrainReachesWaiting`,
`CloseCompletes` of the three life cycles, `OpenSettles`, `AcceptedWriteSettles`,
`AllConsumed`, `FindsUnspoiled`), which rests on fairness and `ENABLED`, and the
prover does not treat these. Every invariant, action property and refinement of
the passing runs is a theorem.

## Not modelled

* `cobra_buffer_resize` (called by nothing), `cobra_discovery_get_addresses` (which
  lists interfaces and changes nothing);
* the contexts of writes a full queue refuses, and the sockets a server without a
  `connection_callback` drops, which are memory that is not freed;
* the callback and data pointers set under the mutex (except that the reader may
  find no read callback), memory allocation, byte order of big-endian machines,
  `print_array`, the example `main.c`;
* the mutex inside `cobra_queue_t` and `cobra_buffer_t`, which nothing locks.

## Plan

Done, in this order: Queue and Fifo, Async, Socket and UserView, Buffer and
SocketRead, Discovery and DiscoveryPackets, Ping, Server and ServerView, accepted
sockets, Mailbox and its use by the three owners, with the proofs listed above.
