----------------------------- MODULE ClientPort -----------------------------
(***************************************************************************)
(* One BluetoothSerialPort object (lib/bluetooth-serial-port.js:29-136) on *)
(* top of the Linux binding (src/linux/BTSerialPortBinding.cc): connecting, *)
(* the chain of reads, and closing.  ClientEvents adds what the user sees. *)
(*                                                                         *)
(* The JavaScript thread runs one callback at a time and then its          *)
(* process.nextTick queue.  EIO_Connect and EIO_Read run on pool threads    *)
(* and read the descriptor s of the connection while the JavaScript thread *)
(* may set it to 0 in Close.  Every connect() constructs a connection of    *)
(* its own; c names it, and also the closures (read, dataListener) that     *)
(* this call of connect() created.  Writes are the subject of WriteQueue.   *)
(***************************************************************************)
EXTENDS Naturals, SequencesExt

CONSTANTS Conns,     \* the calls of connect()
          None,      \* JavaScript's undefined
          MaxData    \* bound: chunks the remote device sends on a connection

ASSUME NoneAssumption == None \notin Conns
ASSUME BoundAssumption == MaxData \in Nat

VARIABLES
    \* The JavaScript object
    connection, \* self.connection
    listeners,  \* the dataListeners registered for 'data', in order
    ticks,      \* pending process.nextTick calls of read()
    \* The bindings
    nat,        \* nat[c]: how far the connection object is
    s,          \* s[c]: rfcomm->s is not 0
    reads,      \* the EIO_Read requests under way, a bag of Read
    \* The links
    arrived,    \* arrived[c]: chunks the remote device sent
    taken,      \* taken[c]: chunks read(2) returned
    link        \* link[c]: "up", "eof" after a remote close, "error"

jsVars     == <<connection, listeners, ticks>>
nativeVars == <<nat, s, reads>>
linkVars   == <<arrived, taken, link>>
vars == <<jsVars, nativeVars, linkVars>>

\* A connection object: "connected" and "refused" wait for EIO_AfterConnect;
\* the binding's close() leads from "open" to "shut" and from "refused" to
\* "failed", and from any other to "misclosed".
NativeStates == {"none", "connecting", "connected", "refused", "open", "shut",
                 "failed", "misclosed"}

\* A read is on connection "on"; its callback belongs to connect() call "by".
\* "queued" waits for a thread; "selecting" is in pselect; "ready" saw its
\* descriptor set; "stdin" is in read(0, ...); the rest are results.
Results == {"data", "foreign", "empty", "error"}
Read == [stage : {"queued", "selecting", "ready", "stdin"} \cup Results,
         on : Conns, by : Conns, chunk : 0..MaxData]

TypeOK ==
    /\ connection \in Conns \cup {None}
    /\ listeners \in Seq(Conns)
    /\ ticks \in Seq(Conns)
    /\ nat \in [Conns -> NativeStates]
    /\ s \in [Conns -> BOOLEAN]
    /\ IsABag(reads) /\ BagToSet(reads) \subseteq Read
    /\ arrived \in [Conns -> 0..MaxData]
    /\ taken \in [Conns -> 0..MaxData]
    /\ link \in [Conns -> {"up", "eof", "error"}]

Init ==
    /\ connection = None
    /\ listeners = <<>>
    /\ ticks = <<>>
    /\ nat = [c \in Conns |-> "none"]
    /\ s = [c \in Conns |-> FALSE]
    /\ reads = EmptyBag
    /\ arrived = [c \in Conns |-> 0]
    /\ taken = [c \in Conns |-> 0]
    /\ link = [c \in Conns |-> "up"]

-----------------------------------------------------------------------------
(* What the library's functions do to the state.                           *)

\* The binding's close(): shutdown, close and zero the socket, if there is
\* one, and close both ends of the pipe in any case.
NativeClose(c) ==
    /\ s' = [s EXCEPT ![c] = FALSE]
    /\ nat' = [nat EXCEPT ![c] = CASE @ = "open"    -> "shut"
                                   [] @ = "refused" -> "failed"
                                   [] OTHER         -> "misclosed"]

\* A slip: the port forgets the connection without closing it.
CloseConnectionForgets ==
    connection' = None /\ UNCHANGED <<nat, s>>

\* A slip: the port keeps the connection it closed.
CloseConnectionKeeps ==
    /\ UNCHANGED connection
    /\ IF connection # None THEN NativeClose(connection) ELSE UNCHANGED <<nat, s>>

\* self.close() but for the event.  Of several calls in a row only the first
\* can find a connection.
CloseConnection ==
    IF connection # None
      THEN connection' = None /\ NativeClose(connection)
      ELSE UNCHANGED <<connection, nat, s>>

\* The error branch of read()'s callback, in connect() call k.
ReadFailed(k) ==
    /\ listeners' = RemoveFirst(listeners, k)
    /\ CloseConnection

\* connection.read(): an EIO_Read is queued.
QueueRead(c, k) ==
    reads' = reads (+) SetToBag({[stage |-> "queued", on |-> c, by |-> k, chunk |-> 0]})

\* Read r goes on to another stage, or leaves.
Proceed(r, stage, chunk) ==
    reads' = (reads (-) SetToBag({r}))
                 (+) SetToBag({[r EXCEPT !.stage = stage, !.chunk = chunk]})
Leave(r) == reads' = reads (-) SetToBag({r})

-----------------------------------------------------------------------------
(* The user's calls: from anywhere, callbacks and event handlers included. *)

Connect(c) ==
    /\ nat[c] = "none"
    /\ nat' = [nat EXCEPT ![c] = "connecting"]
    /\ UNCHANGED <<jsVars, s, reads, linkVars>>

Close ==
    /\ CloseConnection
    /\ UNCHANGED <<listeners, ticks, reads, linkVars>>

-----------------------------------------------------------------------------
(* The event loop; it goes on when the nextTick queue is empty.            *)

\* EIO_AfterConnect and the callbacks it was given: the success callback.
Connected(c) ==
    /\ ticks = <<>>
    /\ nat[c] = "connected"
    /\ connection' = c
    /\ nat' = [nat EXCEPT ![c] = "open"]
    /\ listeners' = Append(listeners, c)
    /\ ticks' = Append(ticks, c)
    /\ UNCHANGED <<s, reads, linkVars>>

\* The error callback.
NotConnected(c) ==
    /\ ticks = <<>>
    /\ nat[c] = "refused"
    /\ NativeClose(c)
    /\ UNCHANGED <<jsVars, reads, linkVars>>

\* A slip: read() does not ask whether there still is a connection.
RunTickUnchecked ==
    /\ ticks # <<>>
    /\ ticks' = Tail(ticks)
    /\ QueueRead(connection, Head(ticks))
    /\ UNCHANGED <<connection, listeners, nat, s, linkVars>>

\* The function read() gave to process.nextTick, and BTSerialPortBinding::Read.
RunTick ==
    /\ ticks # <<>>
    /\ ticks' = Tail(ticks)
    /\ IF connection = None
         THEN UNCHANGED <<connection, listeners, nat, s, reads>>
         ELSE IF s[connection]
           THEN /\ QueueRead(connection, Head(ticks))
                /\ UNCHANGED <<connection, listeners, nat, s>>
           ELSE /\ ReadFailed(Head(ticks))
                /\ UNCHANGED reads
    /\ UNCHANGED linkVars

\* A slip: the data listener does not read on.
AfterReadDataStops(r) ==
    /\ ticks = <<>>
    /\ r.stage \in {"data", "foreign"}
    /\ Leave(r)
    /\ UNCHANGED <<jsVars, nat, s, linkVars>>

\* A slip: both the callback of read() and the listener read on.
AfterReadDataTwice(r) ==
    /\ ticks = <<>>
    /\ r.stage \in {"data", "foreign"}
    /\ Leave(r)
    /\ ticks' = listeners \o listeners
    /\ UNCHANGED <<connection, listeners, nat, s, linkVars>>

\* EIO_AfterRead with data: every dataListener of the port reads on.
AfterReadData(r) ==
    /\ ticks = <<>>
    /\ r.stage \in {"data", "foreign"}
    /\ Leave(r)
    /\ ticks' = listeners
    /\ UNCHANGED <<connection, listeners, nat, s, linkVars>>

\* EIO_AfterRead with an empty buffer: every dataListener closes the port.
AfterReadEmpty(r) ==
    /\ ticks = <<>>
    /\ r.stage = "empty"
    /\ Leave(r)
    /\ IF listeners # <<>> THEN CloseConnection ELSE UNCHANGED <<connection, nat, s>>
    /\ UNCHANGED <<listeners, ticks, linkVars>>

\* EIO_AfterRead with an error.
AfterReadError(r) ==
    /\ ticks = <<>>
    /\ r.stage = "error"
    /\ Leave(r)
    /\ ReadFailed(r.by)
    /\ UNCHANGED <<ticks, linkVars>>

-----------------------------------------------------------------------------
(* The pool threads.                                                       *)

\* EIO_Connect: the socket exists whether connect(2) succeeds or not.
EIO_Connect(c) ==
    /\ nat[c] = "connecting"
    /\ s' = [s EXCEPT ![c] = TRUE]
    /\ \E outcome \in {"connected", "refused"} : nat' = [nat EXCEPT ![c] = outcome]
    /\ UNCHANGED <<jsVars, reads, linkVars>>

\* A slip: read(2) without waiting for the socket to become readable.
ReadBeginsUnselected(r) ==
    /\ r.stage = "queued"
    /\ Proceed(r, IF s[r.on] THEN "ready" ELSE "empty", 0)
    /\ UNCHANGED <<jsVars, nat, s, linkVars>>

\* EIO_Read builds the descriptor set.  After a Close the pipe's descriptor
\* is bad, pselect fails, and the size keeps its initial value 0.
ReadBegins(r) ==
    /\ r.stage = "queued"
    /\ Proceed(r, IF s[r.on] THEN "selecting" ELSE "empty", 0)
    /\ UNCHANGED <<jsVars, nat, s, linkVars>>

\* pselect returns and FD_ISSET is asked about the present value of s.
ReadSelects(r) ==
    /\ r.stage = "selecting"
    /\ ~s[r.on] \/ taken[r.on] < arrived[r.on] \/ link[r.on] # "up"
    /\ Proceed(r, IF s[r.on] THEN "ready" ELSE "empty", 0)
    /\ UNCHANGED <<jsVars, nat, s, linkVars>>

\* read(2) on the non-blocking socket returns a chunk.
ReadTakes(r) ==
    /\ r.stage = "ready"
    /\ s[r.on]
    /\ taken[r.on] < arrived[r.on]
    /\ taken' = [taken EXCEPT ![r.on] = @ + 1]
    /\ Proceed(r, "data", taken[r.on] + 1)
    /\ UNCHANGED <<jsVars, nat, s, arrived, link>>

\* read(2) returns no data: the remote device closed, the link failed, or
\* another thread took what pselect announced (EAGAIN).
ReadReturns(r) ==
    /\ r.stage = "ready"
    /\ s[r.on]
    /\ taken[r.on] = arrived[r.on] \/ link[r.on] = "error"
    /\ Proceed(r, IF link[r.on] = "eof" THEN "empty" ELSE "error", 0)
    /\ UNCHANGED <<jsVars, nat, s, linkVars>>

\* Close came between FD_ISSET and read(2).  The thread passes the old
\* descriptor, which is bad now, or reads s again and passes 0.
ReadClosed(r) ==
    /\ r.stage = "ready"
    /\ ~s[r.on]
    /\ \E outcome \in {"error", "stdin"} : Proceed(r, outcome, 0)
    /\ UNCHANGED <<jsVars, nat, s, linkVars>>

\* read(0, ...) returns when the process's standard input says so.
ReadStdin(r) ==
    /\ r.stage = "stdin"
    /\ \E outcome \in {"foreign", "empty", "error"} : Proceed(r, outcome, 0)
    /\ UNCHANGED <<jsVars, nat, s, linkVars>>

-----------------------------------------------------------------------------
(* The remote device.                                                      *)

RemoteSends(c) ==
    /\ nat[c] \in {"connected", "open"}
    /\ link[c] = "up"
    /\ arrived[c] < MaxData
    /\ arrived' = [arrived EXCEPT ![c] = @ + 1]
    /\ UNCHANGED <<jsVars, nativeVars, taken, link>>

RemoteEnds(c) ==
    /\ nat[c] \in {"connected", "open"}
    /\ link[c] = "up"
    /\ \E end \in {"eof", "error"} : link' = [link EXCEPT ![c] = end]
    /\ UNCHANGED <<jsVars, nativeVars, arrived, taken>>

-----------------------------------------------------------------------------
AfterRead(r) == AfterReadData(r) \/ AfterReadEmpty(r) \/ AfterReadError(r)

Loop == \/ RunTick
        \/ \E c \in Conns : Connected(c) \/ NotConnected(c)
        \/ \E r \in BagToSet(reads) : AfterRead(r)

EIO_Read == \E r \in BagToSet(reads) :
    ReadBegins(r) \/ ReadSelects(r) \/ ReadTakes(r) \/ ReadReturns(r) \/ ReadClosed(r)

Stdin == \E r \in BagToSet(reads) : ReadStdin(r)

Remote == \E c \in Conns : RemoteSends(c) \/ RemoteEnds(c)

Next == \/ \E c \in Conns : Connect(c) \/ EIO_Connect(c)
        \/ Close \/ Loop \/ EIO_Read \/ Stdin \/ Remote

\* Attempts to connect end, the loop and the pool keep working; nothing is
\* assumed of the user, the remote device or the standard input.
Fairness == /\ WF_vars(Loop)
            /\ WF_vars(\E c \in Conns : EIO_Connect(c))
            /\ WF_vars(EIO_Read)

Spec == Init /\ [][Next]_vars
FairSpec == Spec /\ Fairness

-----------------------------------------------------------------------------
(* Properties of every use of a port.                                      *)

\* The binding closes the two ends of its pipe on every call, so a second
\* call would close descriptors that may belong to someone else by then.
\* close() is reached from the user, from every dataListener, from failed
\* reads and from failed attempts to connect.
PipesClosedOnce == \A c \in Conns : nat[c] # "misclosed"

\* While the port has a connection, its socket is open: read() and write()
\* on the port never reach a binding that was closed.
ConnectionHasSocket == connection # None => s[connection] /\ nat[connection] = "open"

\* A port notices that the remote device is gone: there always is a read
\* under way (or about to be) on the connection of the port.
EndNoticed ==
    \A c \in Conns : (connection = c /\ link[c] # "up") ~> (connection # c)
=============================================================================
