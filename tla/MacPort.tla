------------------------------ MODULE MacPort ------------------------------
(***************************************************************************)
(* Ports on macOS (src/macos/BTSerialPortBinding.mm, BluetoothWorker.mm):  *)
(* all connections to one address share one BluetoothWorker, a serial      *)
(* dispatch queue with the resources of at most one connection.  Pool      *)
(* threads, the JavaScript thread and the delegate of the channel hand it  *)
(* tasks with dispatch_sync and wait until they ran.                       *)
(*                                                                         *)
(* A connection is named by the connect() call that made it, and so are    *)
(* its binding object, its channel and its pipe.  Each successful connect() *)
(* belongs to a port of its own (ClientEvents has ports connected again);  *)
(* pipes are those of PipeQueue, whose operations are one step.            *)
(***************************************************************************)
EXTENDS Naturals, Sequences, FiniteSets

CONSTANTS Conns,    \* the calls of connect() for this address
          Writes,   \* the calls of write()
          Searches, \* the calls of findSerialPortChannel() for this address
          None,     \* NULL, nil, nobody
          MaxData,  \* bound: chunks the remote device sends, on all channels
          MaxCalls  \* bound: writes and searches altogether

\* The calls that pool threads make: connectDevice, writeAsync and
\* getRFCOMMChannelID.
Calls == Conns \cup Writes \cup Searches

\* A task is named by the call that waits for it; a disconnect task by who
\* called disconnectFromDevice.
Closers == {"close()", "channelClosed"}

ASSUME DistinctAssumption ==
    /\ Conns \cap Writes = {} /\ Conns \cap Searches = {} /\ Writes \cap Searches = {}
    /\ Calls \cap Closers = {}
    /\ None \notin Calls
ASSUME BoundAssumption == MaxData \in Nat /\ MaxCalls \in Nat

\* Calls of one kind share a lock and a result.
Kinds == {"connect", "write", "search"}
Kind(j) == IF j \in Conns THEN "connect" ELSE IF j \in Writes THEN "write" ELSE "search"

VARIABLES
    \* The JavaScript thread
    port,       \* port[c]: how far the port of c is
    js,         \* the connection in whose Close it waits, or None
    chain,      \* chain[c]: the read of c under way
    \* The binding and the pipe
    consumer,   \* consumer[c]: rfcomm->consumer is not NULL
    producers,  \* producers[c], consumers[c]: the pipe's two refcounts
    consumers,
    items,      \* items[c]: how many chunks are in the pipe
    \* The worker
    queue,      \* worker_queue: the tasks that wait, and first the one that runs
    phase,      \* how far the first is
    res,        \* the connection whose resources are res, or None
    lock,       \* lock[k]: the call that holds connectLock, writeLock, sdpLock
    opened,     \* what connectResult says: the channel was opened
    result,     \* result[k]: the call whose task stored connectResult,
                \* writeResult, lastChannelID, or None
    stage,      \* stage[j]: how far call j is
    answer,     \* answer[j]: whose result it returned
    skipped,    \* the writes whose task found no connection (not in the code)
    \* The framework
    channel,    \* channel[c]: the RFCOMM channel
    sent,       \* how many chunks the remote device sent
    due,        \* due[c]: chunks for which rfcommChannelData was not called yet
    delegate    \* the callback that runs

jsVars        == <<port, js, chain>>
pipeVars      == <<consumer, producers, consumers, items>>
callVars      == <<lock, opened, result, stage, answer, skipped>>
workerVars    == <<queue, phase, res>>
frameworkVars == <<channel, sent, due, delegate>>
vars == <<jsVars, pipeVars, callVars, workerVars, frameworkVars>>

Idle == [does |-> "nothing", to |-> None]

TypeOK ==
    /\ port \in [Conns -> {"new", "connecting", "open", "closed", "failed"}]
    /\ js \in Conns \cup {None}
    /\ chain \in [Conns -> {"off", "tick", "popping", "data", "empty"}]
    /\ consumer \in [Conns -> BOOLEAN]
    /\ producers \in [Conns -> 0..2] /\ consumers \in [Conns -> 0..2]
    /\ items \in [Conns -> Nat]
    /\ queue \in Seq(Calls \cup Closers)
    /\ phase \in {"waiting", "opening", "opened"}
    /\ res \in Conns \cup {None}
    /\ lock \in [Kinds -> Calls \cup {None}]
    /\ opened \in BOOLEAN
    /\ result \in [Kinds -> Calls \cup {None}]
    /\ stage \in [Calls -> {"new", "queued", "synced", "ran", "returned", "answered"}]
    /\ answer \in [Calls -> Calls \cup {None}]
    /\ skipped \subseteq Writes
    /\ channel \in [Conns -> {"none", "up", "ended", "closed", "gone"}]
    /\ sent \in 0..MaxData
    /\ due \in [Conns -> 0..MaxData]
    /\ delegate \in [does : {"nothing", "look", "push", "close", "wait"}, to : Conns \cup {None}]

Init ==
    /\ port = [c \in Conns |-> "new"] /\ js = None
    /\ chain = [c \in Conns |-> "off"]
    /\ consumer = [c \in Conns |-> FALSE]
    /\ producers = [c \in Conns |-> 0] /\ consumers = [c \in Conns |-> 0]
    /\ items = [c \in Conns |-> 0]
    /\ queue = <<>> /\ phase = "waiting" /\ res = None
    /\ lock = [k \in Kinds |-> None] /\ result = [k \in Kinds |-> None]
    /\ opened = TRUE \* kIOReturnSuccess is 0
    /\ stage = [j \in Calls |-> "new"] /\ answer = [j \in Calls |-> None]
    /\ skipped = {}
    /\ channel = [c \in Conns |-> "none"]
    /\ sent = 0 /\ due = [c \in Conns |-> 0]
    /\ delegate = Idle

-----------------------------------------------------------------------------
(* The JavaScript thread.  It waits in Close until the worker has run the  *)
(* task; a function given to process.nextTick runs before other callbacks. *)

JsRuns == js = None
LoopRuns == JsRuns /\ \A c \in Conns : chain[c] # "tick"

\* BTSerialPortBinding::Close, which disconnectFromDevice makes wait.
NativeClose(c) == js' = c /\ queue' = Append(queue, "close()")

Connect(c) ==
    /\ JsRuns
    /\ port[c] = "new"
    /\ port' = [port EXCEPT ![c] = "connecting"]
    /\ stage' = [stage EXCEPT ![c] = "queued"]
    /\ UNCHANGED <<js, chain, pipeVars, lock, opened, result, answer, skipped, workerVars, frameworkVars>>

\* The user's close() of a port with a connection.
Close(c) ==
    /\ JsRuns
    /\ port[c] = "open"
    /\ port' = [port EXCEPT ![c] = "closed"]
    /\ NativeClose(c)
    /\ UNCHANGED <<chain, pipeVars, callVars, phase, res, frameworkVars>>

\* There are calls left within the bound.
MayCall == Cardinality({j \in Writes \cup Searches : stage[j] # "new"}) < MaxCalls

Write(w) ==
    /\ JsRuns /\ MayCall
    /\ stage[w] = "new"
    /\ \E c \in Conns : port[c] = "open"
    /\ stage' = [stage EXCEPT ![w] = "queued"]
    /\ UNCHANGED <<jsVars, pipeVars, lock, opened, result, answer, skipped, workerVars, frameworkVars>>

FindSerialPortChannel(q) ==
    /\ JsRuns /\ MayCall
    /\ stage[q] = "new"
    /\ stage' = [stage EXCEPT ![q] = "queued"]
    /\ UNCHANGED <<jsVars, pipeVars, lock, opened, result, answer, skipped, workerVars, frameworkVars>>

\* EIO_AfterConnect and the success callback, which starts to read.
Connected(c) ==
    /\ LoopRuns
    /\ stage[c] = "returned" /\ consumer[c]
    /\ stage' = [stage EXCEPT ![c] = "answered"]
    /\ port' = [port EXCEPT ![c] = "open"]
    /\ chain' = [chain EXCEPT ![c] = "tick"]
    /\ UNCHANGED <<js, pipeVars, lock, opened, result, answer, skipped, workerVars, frameworkVars>>

\* EIO_AfterConnect and the error callback, which closes the binding.
NotConnected(c) ==
    /\ LoopRuns
    /\ stage[c] = "returned" /\ ~consumer[c]
    /\ stage' = [stage EXCEPT ![c] = "answered"]
    /\ port' = [port EXCEPT ![c] = "failed"]
    /\ NativeClose(c)
    /\ UNCHANGED <<chain, pipeVars, lock, opened, result, answer, skipped, phase, res, frameworkVars>>

\* The function read() gave to process.nextTick, and Read, which queues an
\* EIO_Read (OpenHasConsumer: its test for NULL never fails here).
RunTick(c) ==
    /\ JsRuns
    /\ chain[c] = "tick"
    /\ chain' = [chain EXCEPT ![c] = IF port[c] = "open" THEN "popping" ELSE "off"]
    /\ UNCHANGED <<port, js, pipeVars, callVars, workerVars, frameworkVars>>

\* EIO_AfterRead with data: the listener reads on.
AfterReadData(c) ==
    /\ LoopRuns
    /\ chain[c] = "data"
    /\ chain' = [chain EXCEPT ![c] = "tick"]
    /\ UNCHANGED <<port, js, pipeVars, callVars, workerVars, frameworkVars>>

\* EIO_AfterRead without data: the listener closes the port.
AfterReadEmpty(c) ==
    /\ LoopRuns
    /\ chain[c] = "empty"
    /\ chain' = [chain EXCEPT ![c] = "off"]
    /\ IF port[c] = "open"
         THEN port' = [port EXCEPT ![c] = "closed"] /\ NativeClose(c)
         ELSE UNCHANGED <<port, js, queue>>
    /\ UNCHANGED <<pipeVars, callVars, phase, res, frameworkVars>>

-----------------------------------------------------------------------------
(* The pool threads.                                                       *)

\* A slip: nobody waits for a lock.
LockNot(k, j) == lock' = [lock EXCEPT ![k] = j]
Lock(k, j)    == lock[k] = None /\ lock' = [lock EXCEPT ![k] = j]

\* EIO_Connect makes the pipe; then each call takes the lock of its kind and
\* gives the worker its task.
CallLocks(j) ==
    /\ stage[j] = "queued"
    /\ Lock(Kind(j), j)
    /\ stage' = [stage EXCEPT ![j] = "synced"]
    /\ queue' = Append(queue, j)
    /\ IF j \in Conns
         THEN producers' = [producers EXCEPT ![j] = 1] /\ consumers' = [consumers EXCEPT ![j] = 1]
         ELSE UNCHANGED <<producers, consumers>>
    /\ UNCHANGED <<jsVars, consumer, items, opened, result, answer, skipped, phase, res, frameworkVars>>

\* A slip: the lock is kept.
UnlockNot(k) == UNCHANGED lock
Unlock(k)    == lock' = [lock EXCEPT ![k] = None]

\* A slip: the consumer that is kept is freed, too.
KeepFreed(c) ==
    /\ consumer' = [consumer EXCEPT ![c] = opened]
    /\ consumers' = [consumers EXCEPT ![c] = @ - 1]

\* EIO_Connect keeps the consumer of a connection ...
Keep(c) ==
    /\ consumer' = [consumer EXCEPT ![c] = opened]
    /\ consumers' = [consumers EXCEPT ![c] = IF opened THEN @ ELSE @ - 1]

\* (a slip: it frees that of a failure twice)
FreePipeTwice(c) ==
    /\ consumer' = [consumer EXCEPT ![c] = opened]
    /\ consumers' = [consumers EXCEPT ![c] = IF opened THEN @ ELSE @ - 2]
    /\ producers' = [producers EXCEPT ![c] = @ - 1]

\* ... and frees its own handles of the pipe.
FreePipe(c) ==
    /\ Keep(c)
    /\ producers' = [producers EXCEPT ![c] = @ - 1]

\* The task ran: the call takes the result and gives the lock back.
CallReturns(j) ==
    /\ stage[j] = "ran"
    /\ answer' = [answer EXCEPT ![j] = result[Kind(j)]]
    /\ Unlock(Kind(j))
    /\ stage' = [stage EXCEPT ![j] = "returned"]
    /\ IF j \in Conns THEN FreePipe(j) ELSE UNCHANGED <<consumer, producers, consumers>>
    /\ UNCHANGED <<jsVars, items, opened, result, skipped, workerVars, frameworkVars>>

\* EIO_Read: pipe_pop_eager returns elements.
ReadTakes(c) ==
    /\ chain[c] = "popping"
    /\ \E n \in 1..items[c] : items' = [items EXCEPT ![c] = @ - n]
    /\ chain' = [chain EXCEPT ![c] = "data"]
    /\ UNCHANGED <<port, js, consumer, producers, consumers, callVars, workerVars, frameworkVars>>

\* EIO_Read: pipe_pop_eager returns 0, and the consumer is freed.
ReadEnds(c) ==
    /\ chain[c] = "popping"
    /\ items[c] = 0 /\ producers[c] = 0
    /\ consumers' = [consumers EXCEPT ![c] = @ - 1]
    /\ consumer' = [consumer EXCEPT ![c] = FALSE]
    /\ chain' = [chain EXCEPT ![c] = "empty"]
    /\ UNCHANGED <<port, js, producers, items, callVars, workerVars, frameworkVars>>

-----------------------------------------------------------------------------
(* The worker.                                                             *)

Runs(t) == queue # <<>> /\ Head(queue) = t

\* The task of call j ends, and its result, if it has one, is stored.
TaskEnds(j, stored) ==
    /\ queue' = Tail(queue)
    /\ phase' = "waiting"
    /\ stage' = [stage EXCEPT ![j] = "ran"]
    /\ result' = IF stored THEN [result EXCEPT ![Kind(j)] = j] ELSE result
    /\ UNCHANGED <<jsVars, lock, answer>>

\* connectDeviceTask, when the worker has a connection.
ConnectRefuses(c) ==
    /\ Runs(c) /\ phase = "waiting"
    /\ res # None
    /\ opened' = FALSE
    /\ TaskEnds(c, TRUE)
    /\ UNCHANGED <<pipeVars, skipped, res, frameworkVars>>

\* connectDeviceTask calls openRFCOMMChannelSync ...
ConnectOpens(c) ==
    /\ Runs(c) /\ phase = "waiting"
    /\ res = None
    /\ opened' = FALSE
    /\ result' = [result EXCEPT !["connect"] = c]
    /\ phase' = "opening"
    /\ UNCHANGED <<jsVars, pipeVars, lock, answer, skipped, stage, queue, res, frameworkVars>>

\* ... which fails ...
OpenFails(c) ==
    /\ Runs(c) /\ phase = "opening"
    /\ TaskEnds(c, TRUE)
    /\ UNCHANGED <<pipeVars, opened, skipped, res, frameworkVars>>

\* ... or opens the channel, whose callbacks may come from now on.
OpenSucceeds(c) ==
    /\ Runs(c) /\ phase = "opening"
    /\ phase' = "opened"
    /\ channel' = [channel EXCEPT ![c] = "up"]
    /\ UNCHANGED <<jsVars, pipeVars, callVars, queue, res, sent, due, delegate>>

ConnectRecords(c) ==
    /\ Runs(c) /\ phase = "opened"
    /\ opened' = TRUE
    /\ producers' = [producers EXCEPT ![c] = @ + 1]
    /\ res' = c
    /\ TaskEnds(c, TRUE)
    /\ UNCHANGED <<consumer, consumers, items, skipped, frameworkVars>>

\* writeAsyncTask: without a connection writeResult stays as it was.
RunWrite(w) ==
    /\ Runs(w)
    /\ skipped' = IF res = None THEN skipped \cup {w} ELSE skipped
    /\ TaskEnds(w, res # None)
    /\ UNCHANGED <<pipeVars, opened, res, frameworkVars>>

\* getRFCOMMChannelIDTask: within 60 seconds it found a channel or did not.
RunSearch(q) ==
    /\ Runs(q)
    /\ TaskEnds(q, TRUE)
    /\ UNCHANGED <<pipeVars, opened, skipped, res, frameworkVars>>

\* A slip: the producer is not freed.
FreeProducerNot == UNCHANGED producers
FreeProducer ==
    producers' = [c \in Conns |-> IF c = res THEN producers[c] - 1 ELSE producers[c]]

\* A slip: the worker keeps what it released.
ForgetNot == UNCHANGED res
Forget    == res' = None

\* disconnectFromDeviceTask: whatever connection the worker has by now.
Release ==
    /\ FreeProducer
    /\ channel' = [c \in Conns |-> IF c = res /\ channel[c] # "gone" THEN "closed" ELSE channel[c]]
    /\ due' = [c \in Conns |-> IF c = res THEN 0 ELSE due[c]]
    /\ Forget

\* The task, and the return of disconnectFromDevice to its caller.
RunDisconnect ==
    /\ queue # <<>> /\ Head(queue) \in Closers
    /\ Release
    /\ queue' = Tail(queue)
    /\ IF Head(queue) = "close()"
         THEN js' = None /\ UNCHANGED delegate
         ELSE delegate' = Idle /\ UNCHANGED js
    /\ UNCHANGED <<port, chain, consumer, consumers, items, callVars, phase, sent>>

-----------------------------------------------------------------------------
(* The framework: one thread calls the delegate, a callback at a time.     *)
(* After closeChannel it calls nothing more, except that it may say that   *)
(* the channel was closed; closeChannel does not wait for callbacks.       *)

RemoteSends(c) ==
    /\ channel[c] = "up"
    /\ sent < MaxData
    /\ sent' = sent + 1
    /\ due' = [due EXCEPT ![c] = @ + 1]
    /\ UNCHANGED <<jsVars, pipeVars, callVars, workerVars, channel, delegate>>

RemoteEnds(c) ==
    /\ channel[c] = "up"
    /\ channel' = [channel EXCEPT ![c] = "ended"]
    /\ UNCHANGED <<jsVars, pipeVars, callVars, workerVars, sent, due, delegate>>

DataArrives(c) ==
    /\ delegate = Idle
    /\ due[c] > 0
    /\ due' = [due EXCEPT ![c] = @ - 1]
    /\ delegate' = [does |-> "look", to |-> None]
    /\ UNCHANGED <<jsVars, pipeVars, callVars, workerVars, channel, sent>>

\* rfcommChannelData reads res.producer ...
DelegateLooks ==
    /\ delegate.does = "look"
    /\ delegate' = IF res = None THEN Idle ELSE [does |-> "push", to |-> res]
    /\ UNCHANGED <<jsVars, pipeVars, callVars, workerVars, channel, sent, due>>

\* ... and pushes to what it read, freed or not.
DelegatePushes ==
    /\ delegate.does = "push"
    /\ items' = [items EXCEPT ![delegate.to] = @ + 1]
    /\ delegate' = Idle
    /\ UNCHANGED <<jsVars, consumer, producers, consumers, callVars, workerVars, channel, sent, due>>

\* rfcommChannelClosed calls disconnectFromDevice: c is not asked about.
ClosedArrives(c) ==
    /\ delegate = Idle
    /\ \/ channel[c] = "ended" /\ due[c] = 0
       \/ channel[c] = "closed"
    /\ channel' = [channel EXCEPT ![c] = "gone"]
    /\ delegate' = [does |-> "wait", to |-> None]
    /\ queue' = Append(queue, "channelClosed")
    /\ UNCHANGED <<jsVars, pipeVars, callVars, phase, res, sent, due>>

-----------------------------------------------------------------------------
User == \/ \E c \in Conns : Connect(c) \/ Close(c)
        \/ \E w \in Writes : Write(w)
        \/ \E q \in Searches : FindSerialPortChannel(q)

Loop(c) == \/ Connected(c) \/ NotConnected(c)
           \/ RunTick(c) \/ AfterReadData(c) \/ AfterReadEmpty(c)

EIO_Read(c) == ReadTakes(c) \/ ReadEnds(c)

Worker == \/ \E c \in Conns : \/ ConnectRefuses(c) \/ ConnectOpens(c) \/ OpenFails(c)
                               \/ OpenSucceeds(c) \/ ConnectRecords(c)
          \/ \E w \in Writes : RunWrite(w)
          \/ \E q \in Searches : RunSearch(q)
          \/ RunDisconnect

Remote == \E c \in Conns : RemoteSends(c) \/ RemoteEnds(c)

\* What the framework owes the delegate.
Delegate == \/ DelegateLooks \/ DelegatePushes
            \/ \E c \in Conns : DataArrives(c) \/ (channel[c] = "ended" /\ ClosedArrives(c))

Next == \/ User \/ Worker \/ Remote \/ DelegateLooks \/ DelegatePushes
        \/ \E c \in Conns : Loop(c) \/ EIO_Read(c) \/ DataArrives(c) \/ ClosedArrives(c)
        \/ \E j \in Calls : CallLocks(j) \/ CallReturns(j)

\* The worker, the framework, the loop and the pool go on.  At most one action
\* of a connection, and one of a call, is enabled.
Fairness ==
    /\ WF_vars(Worker) /\ WF_vars(Delegate)
    /\ \A c \in Conns : WF_vars(Loop(c) \/ EIO_Read(c) \/ CallLocks(c) \/ CallReturns(c))
    /\ \A j \in Writes \cup Searches : WF_vars(CallLocks(j) \/ CallReturns(j))

Spec == Init /\ [][Next]_vars
FairSpec == Spec /\ Fairness

-----------------------------------------------------------------------------
\* A call returns what its own task did, and no other call's result: three
\* pool threads and the worker pass results through fields of one object.
\* (A write that found no connection stored none and returns an older one.)
ResultIsOwn ==
    \A j \in Calls \ skipped : stage[j] \in {"returned", "answered"} => answer[j] = j

\* The producer of a pipe is freed exactly once, when the worker gives its
\* connection up; what is left is the pipe itself until EIO_Connect frees it.
\* disconnectFromDevice comes from the user, the reader, failed attempts and
\* the delegate, each of which may come late, or all of them.
ProducerIsHeld ==
    \A c \in Conns :
        producers[c] = (IF stage[c] \in {"synced", "ran"} THEN 1 ELSE 0)
                         + (IF res = c THEN 1 ELSE 0)

\* While a port is open, its read() finds the consumer, and the pipe is there:
\* the consumer is freed by the pool thread that ends the last read.
OpenHasConsumer ==
    \A c \in Conns : chain[c] \in {"tick", "popping", "data"} => consumer[c] /\ consumers[c] = 1

\* close() returns, and each connect(), write() and search is answered: the
\* threads that wait for the worker do not wait for each other.
EveryCallReturns ==
    /\ (js # None) ~> (js = None)
    /\ \A j \in Calls : (stage[j] = "queued") ~> (stage[j] \in {"returned", "answered"})

\* An open port whose connection the worker gave up, for whatever reason,
\* notices.
EndNoticed ==
    \A c \in Conns : (port[c] = "open" /\ res # c) ~> (port[c] # "open")

\* The worker gives up a connection because its port was closed, or its remote
\* device closed it.
ReleasedForCause ==
    [][\A c \in Conns : res = c /\ res' # c
           => port[c] \in {"closed", "failed"} \/ channel[c] \in {"ended", "gone"}]_vars
=============================================================================
