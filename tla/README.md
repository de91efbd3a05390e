# Specifications of node-bluetooth-serial-port

TLA+ models of the library (`lib/`) and of its native bindings (`src/`), the
TLC configurations that check them on small instances, and proofs for the TLA+
proof system. Paths are those of the repository; `Binding.cc` and `Server.cc`
stand for `src/linux/BTSerialPortBinding.cc` and
`src/linux/BTSerialPortBindingServer.cc`.

Run a check with `tlc -config MCPipe.cfg MCPipe`, a proof with
`tlapm PipeProofs.tla`. `PROJECT.json` maps every definition to its lines.

## 1. The system

A program gets a `BluetoothSerialPort` or a `BluetoothSerialPortServer` from
`lib/bluetooth-serial-port.js`. These are event emitters on top of C++ objects.
The C++ methods run on the JavaScript thread and queue requests on libuv's pool
(`EIO_x`); the completion (`EIO_Afterx`) runs on the event loop and calls back
into JavaScript. Pool threads read and write the fields of the C++ objects with
no lock; what wakes a blocked `pselect` is a pipe of the object.

| Component | State | Operations | Talks to |
|---|---|---|---|
| Write queue (`Binding.cc:105-163, 295-347`, `src/ngx-queue.h`) | one static ring of requests per binding (per object in the server) | `Write`, `EIO_Write`, `EIO_AfterWrite`, `New` re-initialises it | pool, socket, user callbacks, which call `write` again |
| Client port (`lib:29-136`, `Binding.cc`) | `connection`, `'data'` listeners; `s`, `rep` | `connect`, `close`, `isOpen`, the read chain | pool by `EIO_Connect`, `EIO_Read`; user events |
| Server (`lib:157-254`, `Server.cc`) | `server`, `inDisconnect`; `s`, `rep`, `mClientSocket`, `mSdpSession` | `listen`, `disconnectClient`, `close`, reads, the acceptor | pool by `EIO_Listen`, `EIO_Read`, `ClientWorker`; SDP daemon; user events |
| Pipe (`src/macos/pipe.c`) | ring buffer, two refcounts, two locks, two conditions | handles, `pipe_push`, `pipe_pop_eager`, growth, trimming | the IOBluetooth delegate pushes, `EIO_Read` and `doInquire` pop |
| macOS binding and worker (`src/macos/*.mm`) | `consumer` per binding; one worker per address with `res`, a serial dispatch queue, three locks and three results | connect, disconnect, write, search, delegate callbacks | the pipe, the pool, IOBluetooth |
| Windows binding (`src/windows/`) | `s` | as the Linux client, without a pipe to wake a read | the pool, Winsock |
| Device inquiry (`*/DeviceINQ.*`) | none between calls, except `inquiryProducer` of the macOS worker | `inquire`, `inquireSync`, `findSerialPortChannel`, `listPairedDevices` | BlueZ, Winsock, IOBluetooth |
| libuv's pool | external | | every request above |

What is hard in it:

* *unlocked threads*: `EIO_Read`, `EIO_Listen` and the acceptor use `s`, `rep`
  and `mClientSocket` while `Close` takes them away one by one;
* *callback chains*: one `'data'` event starts the next read, the end of a
  client starts the next acceptor; a link lost or doubled shows much later;
* *re-entrance*: user code runs inside completions, before they have finished;
* *state that outlives its owner*: listeners of an earlier connection, messages
  in a pipe that belongs to the server and not to the client, a static queue
  shared by all connections, results of reads that were queued before a close;
* *locking*: `pipe.c` has a lock for each end, so that conditions and counts
  are tested under one lock and changed under the other;
* *threads that wait for a queue*: on macOS everything is a task of one serial
  queue, which pool threads, the JavaScript thread and the delegate wait for,
  some of them with a lock, and results come back in fields they share;
* *numbers that are given out again*: on Windows a thread may hold the number of
  a socket that was closed and is somebody else's by now, and a read that waits
  occupies one of the few threads of the pool.

What makes each component correct: the queue runs one write at a time, in the
order of the calls, and answers each; a port delivers what arrives, in order,
once, and says `'closed'` and `'failure'` for a cause; a server serves one
client after another, loses no socket, and its events form sessions; a pipe is a
FIFO queue whose operations return when their documentation says so; a worker
gives each caller its own result, frees what it holds once and never waits for
itself; the threads of an open port use its socket and no other; an inquiry or a
search tells what the system told it, all of it, and ends only for a cause.

## 2. The modules

| Module | What it is |
|---|---|
| `NgxQueue` | the pointer operations of `ngx-queue.h` on a record of two functions |
| `SerialWriter` | abstract: writes run one at a time in the order of the calls |
| `WriteQueue` | the ring, the constructor, `write()`, the pool and the completion; implements `SerialWriter` when no constructor runs while writes are pending |
| `WriteQueueProofs` | theorems about `WriteQueue` |
| `ClientPort` | one port object with any number of connections on the Linux binding |
| `ClientEvents` | `ClientPort` with the events the user sees and two disciplines of use |
| `ClientProofs` | theorems about both |
| `RequestLemmas` | lemmas: queues in which each request stands once, taking the first element that fits, bags with one element, induction over sets of numbers |
| `Server` | one server on the Linux server binding: `listen()` once, its clients, `close()` |
| `ServerSessions` | abstract: sessions with announce, deliver, end |
| `ServerEvents` | `Server` with the events the user sees; implements `ServerSessions` in disciplined use |
| `ServerProofs` | theorems about both, and the refinement |
| `PipeQueue` | abstract: a queue with atomic pushes and pops |
| `PipeRing` | the arithmetic of the ring buffer of `pipe.c` |
| `Pipe` | the pipe with threads, locks and refcounts; implements `PipeQueue` |
| `PipeProofs` | theorems about the ring and the pipe, and the refinement |
| `MacPort` | ports on macOS: all connections to one address, its worker, the delegate |
| `MacPortProofs` | theorems about `MacPort` |
| `WindowsPort` | ports on Windows: numbers of sockets and the threads of libuv's pool |
| `WindowsPortProofs` | theorems about `WindowsPort` |
| `DeviceINQ` | what the inquiry calls have in common |
| `LinuxINQ`, `MacINQ`, `WindowsINQ` | what each platform asks its system for, and the reference result |
| `Discovery` | a call on one of the three platforms |
| `DiscoveryProofs` | theorems about `Discovery` |
| `MC*` | instances for TLC |

Correspondence with the code:

* A C++ field is a variable of the same name where there is one (`s`, `rep`,
  `sdp` for `mSdpSession`, `client` for `mClientSocket`, `begin`, `end`). A
  request to the pool is an element of a bag (`reads`) or a counter by stage
  (`acceptors`) or a state (`stat`, `listening`), because requests of one kind
  may be there several times, which is one of the things to find out.
* `EIO_x` is split where the code reads a shared field again: a read takes its
  descriptors (`ReadBegins`), waits (`ReadSelects`), looks at the fields as they
  are then (`ReadLooks`) and reads. A completion is one action, with all it
  calls, for the JavaScript thread runs it without interruption; `process.nextTick`
  is a counter or queue that is emptied before the loop goes on. The server's
  `Close` is five actions, since threads run between its steps.
* `pipe.c` is split at each lock. What is done under both locks, or under one
  lock and published by one store, is one action. A snapshot is a variable
  `seen[t]`. `cond_wait` is two actions: the test, and going to sleep.
* On macOS a task of the worker is an action with all it does, as nothing else
  runs on its queue, except that `connectDeviceTask` is open to callbacks while the
  channel opens. `dispatch_sync` is an element of `queue` and a caller that has no
  action until the task ran. Assumed of IOBluetooth: callbacks come on a thread of
  the framework's own, one at a time; a channel that was closed locally may still
  say so; `closeChannel` does not wait for callbacks (if it did,
  `rfcommChannelClosed` would wait for the queue it is called from). `deviceLock`
  and `globalConnectLock` are never contended, for one address has one queue.
  `result[k]` is the name of the call whose task stored that field last.
* On Windows `owner[h]` says for whom the number `h` was given out. The argument of
  `recv` and `send` is loaded in one action and used in the next. `pool` is the
  queue of `uv_queue_work`; `Starts` is enabled when fewer than `Threads` requests
  run.
* In `DeviceINQ`, `given` is what the system told a call, one thing after the
  other, and `told` how it ended; neither is in the code. The reference result is a
  function of `given`: the code's is computed step by step in `result`. Winsock's
  last error stays when a call succeeds, and buffers have sizes, as the code
  depends on both.
* Data is abstracted to identities: the k-th chunk of a connection, the k-th
  element of a producer, a client's name. Chunk 0 and the result `"foreign"` are
  bytes from descriptor 0, which a read gets that races with a close.
* The environment is any: users call at any time from the event loop, remote
  devices send, leave or break at any time, `accept(2)`, `write(2)` and the SDP
  daemon may fail. `ClientEvents` and `ServerEvents` restrict the *user* to
  disciplined use, as conjuncts of the next-state relation.
* After a call that is undefined in C (`accept` on a closed descriptor, memory of
  a freed pipe) the model goes on with what the build does: the call fails, or
  the memory holds what it held. `Nan::ThrowError` off the JavaScript thread ends
  the process (`closing = "crashed"`).
* Each module has *slips*, operators that are a definition with a plausible
  mistake in it. No behaviour uses them; they are the mutants in `PROJECT.json`
  that show that each property can fail.

## 3. The runs

| Run | Question | Bounds | States |
|---|---|---|---|
| `write_queue_single` | Constructors only when nothing is pending: type, ring = log, refinement of `SerialWriter`, each write answered. | 3 writes of 2 units, 2 connections | 24,460 |
| `write_queue_lost` | **violated**: is each write answered if constructors run at any moment? | 2 writes, 2 connections | - |
| `client_port` | Any use of a port: bindings closed once, the end of a link noticed. | 2 connections, 1 chunk | 415,864 |
| `client_once` | A port connected once (after failures): one reader, exact `isOpen`, data in order and complete, events for a cause. | 2 connections, 2 chunks | 1,248 |
| `client_reconnect` | **violated**: `'closed'` only for a cause, when `connect()` comes after a finished `close()`? | 2 connections, 2 chunks | - |
| `server_any` | Any use of a server: one reader, one acceptor, no lost socket, reads about the present client. | 3 clients, 1 chunk each, 2 messages, symmetry | about 329,800 |
| `server_calm` | A server closed from its handlers: sessions, and every liveness promise. | 2 clients, 2 chunks each, 1 message | 74,815 |
| `pipe` | One producer, one consumer, the owner: queue, snapshots, final 0, pushes return. | 7 elements, pushes of 1-3, pops of 1 or 3, `MinCap` 2 | 69,810 |
| `pipe_wake` | **violated**: does a pop return when there are elements, or no producers? | as before | - |
| `mac_port` | Two ports of one address, a write or a search: own results, handles freed once, the reader finds its consumer, every call returns, the end of a connection is noticed. | 2 connections, 1 write, 1 search (one of both), 1 chunk | 169,386 |
| `windows_port` | An open port and its threads use its own socket; each request gets a thread. | 2 connections, 1 open at a time, 2 socket numbers, 2 threads, 1 write, 1 chunk | 95,136 |
| `discovery` | Each inquiry call answers what the system told it, ends for a cause, and is answered (unless macOS does not start it); on three platforms. | 3 devices, 6 SDP elements, 2 services or records, buffers of up to 3 sizes | 143,784 |

Further instances, which answer questions that the runs above leave:

| Instance | Result |
|---|---|
| `MCWriteQueueShared.cfg` | holds (133,846 states): with constructors at any moment no request reaches the pool twice, and no pointer in use leads to a deleted request; theorem `SharedSafety` says it for all |
| `MCPipeFreed.cfg` | violated: is a pipe deallocated once? |
| `MCServerEventsDropped.cfg` | violated: does `disconnectClient()` disconnect the client it was called for, and no other? |
| `MCServerEventsBroken.cfg` | violated: does a session end when reading fails, with whatever errno? |
| `MCMacPortShared.cfg` | violated: is a connection only given up because its own port or remote device closed it? |
| `MCWindowsPortReuse.cfg` | violated: does a write only send to the connection it was called on? |
| `MCWindowsPortOverlap.cfg` | violated: `OpenUsesOwnSocket` when attempts to connect overlap |
| `MCDiscoveryPaired.cfg` | violated: does `listPairedDevices` on Windows list all that Winsock has? |

Two liveness properties name a case in which the code does not do what one would
wish. `EveryCallAnswered`: if macOS does not start the inquiry, nobody frees the
producer that `doInquire` waits for. `DisconnectWorks` promises that the session
ends once no further chunk is read first: `EIO_Read` looks at the socket before the
pipe (`Server.cc:254-261`), so that a client that never stops sending is never
disconnected. What a bound on the chunks would hide is said for each number of
chunks read: with `n` read, either another one is read or the session ends.

Why the bounds are enough to see the interesting cases. Two connections are the
old and the new one; with three clients a server has one that left, one present and one that knocks. Two chunks are the least
that can be swapped; one chunk is enough where only loss matters. One message
in the pipe is enough for a stale one, two for the one that is not looked at.
`MinCap` is 2, the value `pipe.c` has in debug builds; with 7 elements in pushes
of up to 3 the ring grows twice (2, 5, 9 slots), wraps in the ring of 5, and is
trimmed. On macOS the second connection is the one that is refused, or that opens
while the closing of the first is still announced; one write and one search have
locks of their own, so that one of them at a time contends with the connections.
On Windows two numbers are one that is in use and one that is free; with two
threads and one open port a read takes half of the pool, and a closed port's read
that did not end would take the rest. Six elements are enough for two lists of an
UUID and a channel. The mutants show that each property is within reach of these
bounds.

No run checks deadlock: users may stop calling, devices may be silent, and
libraries that wait for them have nothing to do. What must not be stuck is
stated as liveness.

### Fairness

* The pool runs what it is given, the event loop goes on, a callback returns
  (weak fairness of each of them). `pselect` is not assumed to return: it is
  enabled only when a descriptor is ready. `write(2)` on the client's non-blocking
  socket returns.
* An attempt to connect ends (`connect(2)` has a time limit in the kernel).
* Nothing is assumed of users, of remote devices or of standard input.
* A thread inside a call of `pipe.c` goes on. A producer that waits for a mutex
  that is free again and again gets it (strong fairness); without this, spurious
  wakeups of the consumer alone could starve it. A spurious wakeup may happen and
  is not promised.
* The dispatch queue runs its tasks in order, and a task ends: opening a channel and
  an SDP query have time limits. The framework calls the delegate for what arrived
  and for a channel that the remote device closed; that it also does for one that was
  closed locally is not assumed. `send()` in a loop does not send a part of the rest
  forever (strong fairness of its end). The system answers an inquiry call that
  it started.
* `DisconnectWorks` and `SessionEnds` except a link that fails with an errno that
  `EIO_AfterRead` does not know (`MCServerEventsBroken.cfg`), `KnockAnswered` an `accept(2)` that
  failed.
* `EveryRequestStarts` assumes that fewer ports are open than the pool has threads
  (`MaxOpen < Threads`); with as many ports as threads it is false, which is the
  hazard at `Binding.cc:401`.

### What the violated runs show

They are the `findings` of `PROJECT.json`, with the lines and the sentences that
the code does not keep. In short: a second connection forgets queued writes of
the first; a port that is connected again reads with two chains, one of which
closes the healthy connection; a pop sleeps on a pipe with elements, because the
signal came between its test and its wait. The further instances: two last handles free a pipe twice; a
`"disconnect"` that came too late hits the next client; a read of the server that
fails with an errno other than ECONNRESET and ETIMEDOUT leaves a session that
never ends; on macOS a second connect to an address is refused, and its clean-up
closes the first connection; on Windows a write that races with a close may go to
another port's device, a failed attempt's socket is closed twice, and a device
that is not paired ends the list of paired ones.

Other disagreements met while modelling, for which there is no run:
on macOS an inquiry that could not be started never ends; a client that keeps
sending is not disconnected; on macOS a write without a connection reports the result of the write before, and
a service without a channel is listed with an uninitialised one; on Windows an
inquiry without an adapter returns an uninitialised result; on Linux and Windows
an inquiry throws on a thread of the pool; `write()` on a port that is not connected calls
its callback with the error as `this` and without arguments;
`close()` during a pending `connect()` does nothing, and the `README.md` example
does just this (lines 99-100); the server's `'closed'` means that a client left
(README.md:265-267 says the server closed); closing a server
while an acceptor waits calls the callback of `listen()` with an empty address;
`pipe_reserve` sets `min_cap` before it resizes, so that it never resizes.

## 4. The proofs

Every safety property that a passing run or `MCWriteQueueShared.cfg` checks is also a
theorem, and so are the three refinements: what TLC finds on a few writes, connections or clients holds
for any number of them. None of the properties is inductive as it stands. Each
module below defines the strengthening, which TLC checked first, shows that the
initial states have it, that each action keeps it (one lemma or step per action),
and reads the properties off it.

**Write queue** (`WriteQueueProofs`: `TypeCorrect`, `SharedSafety`, `QuietSafety`,
`QuietRefines`). `SharedInv` adds to `NoDanglingLink` that the write in its callback
is the one `calling` says, that a write has been submitted at most once and not at
all while it is fresh, that the links of *live* cells lead to live cells or the head
and that links agree with each other (`LinksInv`), and the same of the head
(`SentinelInv`). The constructor replaces the head's links only; each operation is
one lemma (`SharedNew`, `SharedWrite`, `SharedAfterWrite`). `QuietInv` says that the
pending writes are a segment of the log, that only the first of them is with the
pool, and that the ring is this segment. `RingIsLog` and `OneAtATime` follow, and the
refinement mapping is the identity on `stat`, `log` and `answered`.

**Client** (`ClientProofs`). `PortSafety`, `PortTypesKept`: any number of connections
and any use; a connection object that has not been closed has its socket, and the
port's connection is open (`PortInv`). `EventsObserve`: `ClientEvents` is `ClientPort`
with history, so that both carry over. For a port that is connected once (again only
after a failure) the invariant is `ReadersInv`:

* `OneAttempt`: one attempt at most got anywhere, so `isOpen()` is exact (`OnceExact`);
* `TurnInv`: the read chain has one turn, which is a tick or one read in the bag, of
  the one listener (`OnceReader`);
* `CauseInv`: a connection is shut because the user asked or the link is down, and
  a read whose result says "empty" or "error" has such a cause already (`OnceClosed`);
* `ChunkInv`: what was emitted is 1, 2, ... up to what was taken from the socket, but
  for the chunk of a read that has not called back; bytes of descriptor 0 only come
  when the user closed (`OnceInOrder`).

**Server** (`ServerProofs`: `ServerTypes`, `ServerReader`, `ServerAcceptor`, `ServerHeld`,
`ServerReads`, `ServerSession`). One turn again: `Turns` adds up the start of `listen()`,
the acceptors, finished acceptors, ticks and the read, and is at most 1 (`TurnInv`). Until
somebody may be served nobody is, and a server that was not closed has its listening
socket (`QuietInv`); the client of whoever has the turn is the server's (`ServedInv`).
`ServerSession` is the refinement of `ServerSessions` in disciplined use: `SessionInv` says
for whose session the turn is and that there is none before an acceptor is done,
`DeliveryInv` that each chunk was taken once before it is delivered. Each step of
`CalmNext` is an announcement, a delivery, an end or a stutter.

**Pipe** (`PipeProofs`: `PipeTypes`, `PipeSnapshots`, `PipeFinal`, `PipeQueueRefined`).
First the arithmetic: `Pow2` exists as a function and grows, so that `NextPow2` fits its
argument; a push moves `end`, a pop moves `begin`, and the ring holds the same elements
with or without a wrap, after a copy to a new buffer too (`ElementsPush`, `ElementsPop`,
`ElementsMove`). `PipeInv` says who holds which lock and where in the code
(`LockInv`), that the refcounts are the numbers of holders (`CountInv`: for this producers
and consumers are finite sets, `FiniteAssumption`), that the places in use hold elements
(`RingInv`), and what a push or a pop may rely on while the other end moves
(`CallInv`): the room between the pusher's snapshot of `begin` and `end` is at most the
room there is. The claim of `pipe.c:282-288`, `SnapshotsSuffice`, is this for both ends.
The refinement maps the ring to the sequence of its elements: `PushCopies` and
`PopTakes` are the push and the pop, everything else stutters, growth and trimming too.

**macOS** (`MacPortProofs`: `MacTypes`, `MacResults`, `MacProducers`, `MacConsumers`,
`MacWaits`). `TasksAwaited`: the dispatch queue has exactly the tasks somebody waits for,
each once (it is a theorem of its own: no wait is without its task). `LockInv`: a call
holds the lock of its kind from `dispatch_sync` until it took its result, so that no
other task of this kind stores one in between. `HandleInv` ties the count of consumers and `res`
to how far the connection is.

**Windows** (`WindowsPortProofs`: `PortTypesKept`, `PoolHoldsWaiting`, `OwnSocket`).
`PoolInv`: the pool has exactly the requests that are queued, each once. `OwnSocket` is
stated for `~Overlap`, as with overlapping attempts it is false (`MCWindowsPortOverlap.cfg`);
then one attempt runs (`OneAttempt`), a number in a binding's `s` is its own except
between the two times that a failed attempt closes it (`SocketInv`), and a thread's copy is
`s` until the port is closed (`CopyInv`).

**Inquiries** (`DiscoveryProofs`: `DiscoveryCauses`, `DiscoveryAnswers`). `CauseInv` says
where a call is when nothing has ended yet. `GivenInv` says, for each place of the code,
what `result` has of what was `given`: on Linux that no element so far was the channel
and `proto` says which UUID was the last (`Walk`), or that the devices so far are named; on
macOS that popped and waiting devices together are those found; on Windows that
the places so far are those of the devices that belong to the answer, in order
(`FoundIn`, `ListedIn`). The reference results are defined on `given` alone: by the
least place of a channel, by comprehension, or as the sequence that has a set of places
in increasing order (`AreInOrder`).

The assumptions are those the modules name (`SizeAssumption`, `CellAssumption`,
`NoneAssumption`, ...): the null pointer and the head are not requests, buffers
are not empty, finitely many threads use a pipe, different things have different
names. TLC evaluates them in each run. The bounds (`MaxData`, `MaxItems`, ...) are any
numbers.

Two forms are due to the prover, which has no induction over an operator and does
not know `SelectSeq`. Where a fact about all numbers is needed (`Pow2`), the set of numbers
that have it is shown to be all of them: the least number outside it leads to
a contradiction (`LeastExists`, `AllNumbers` in `RequestLemmas`). And "in order" is
said by a set and `<` rather than by filtering a sequence.

Only model-checked, for the prover has no fairness: all liveness
(`EveryWriteAnswered`, `EndNoticed`, `DataDelivered`, `EveryCallAnswered`,
`EveryCallReturns`, `PushReturns`, `KnockAnswered`, `DisconnectWorks`, `SessionEnds`,
`EveryRequestStarts`).

## 5. What is left out

* *Argument checks* that throw before anything changed, formatting of messages,
  encoding of addresses and UUIDs, the contents of the SDP record.
* *Reference counts* (`Ref`, `Unref`) and leaks of batons.
* *Numbers of descriptors* on Linux: a closed descriptor is not reused by somebody
  else. `PipesClosedOnce` and `HeldIsKnown` are the conditions that keep this from
  mattering; `WindowsPort` has the numbers, and the same loop of writes.
* *The size of the pool*, except in `WindowsPort`: each request has a thread.
* *Weak memory*: pool threads see the fields as they are. Fields are words, and
  the code passes through locks of libuv between queueing and running.
* *Several `listen()` on one server object*, and writes of the server: the
  latter are `WriteQueue` with one connection, apart from `Server.cc:192-196`. A
  server object with its writes and its sessions is beyond what TLC can enumerate
  together with the steps of `Close`.
* *Inquiries of macOS that overlap*: the second one takes `inquiryProducer` away
  from the first, which never returns (`BluetoothWorker.mm:263`).
* *Interruptions of a shutdown*: `shutdown`, `close` and the reset of the field in
  `Close` of the connection bindings and in `CloseClientSocket`, and `socket`, `bind`
  and `listen` in `EIO_Listen`, are one action each. No property depends on what a
  thread sees in between.
* *A push of the macOS delegate into a pipe that was just freed*: `DelegatePushes`
  pushes to whatever `DelegateLooks` saw; what freed memory does then is not modelled.
* *That `close()` blocks* the JavaScript thread on macOS while a search (up to 60
  seconds) or an attempt runs on the same queue is in `MacPort`, its duration is not.
* *Memory that runs out*, and more than 255 devices in an inquiry of Windows, whose
  list has no check (`windows/DeviceINQ.cc:184`).
* *In a server read that started between two steps of `Close`*, standard input
  that becomes ready is seen as the end of the client only; the outcome with
  bytes is that of `ReadStrays`.
* `pipe_pop`, `pipe_reserve` and limits of a pipe, which the binding does not use.
* Registration of the classes, type declarations, examples and tests: no state.

## 6. Plan

Done, in this order: write queue, client, server, pipe; proofs of the write
queue and of the client's safety; ports on macOS and on Windows with the pool;
inquiry, search and paired devices; proofs of all safety properties and refinements.

Next, the safety half of the liveness properties, as invariants that runs check and
theorems state. Each says that what must happen is not lost, so that only
fairness is missing:

1. `Pipe`: a producer or consumer that waits for a lock or a condition has somebody
   who holds or will signal it; a handle that was given up was given up once, if
   `producers` and `consumers` do not reach 0 together.
2. `ClientEvents`, `ServerEvents`: an open port or an open session has a turn of its
   read chain; a chunk that arrived is below what will be taken.
3. `WriteQueue`: while writes are pending one is with the pool, if no
   constructor runs.
4. `WindowsPort`: fewer than `Threads` requests can wait for data, if fewer
   ports than threads are open.
5. `Discovery`: `PairedAllListed` holds where each device is paired.
