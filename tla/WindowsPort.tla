---------------------------- MODULE WindowsPort ----------------------------
(***************************************************************************)
(* Ports on Windows (src/windows/BTSerialPortBinding.cc) and libuv's pool. *)
(* Here sockets are numbers: Winsock gives the handle of a closed socket to *)
(* the next socket() of the process, and threads of the pool may still have *)
(* the old number in their hands.  Nothing but closing the socket wakes a  *)
(* select(), and as long as it waits it occupies a thread of the pool.     *)
(*                                                                         *)
(* A connection is named by the connect() call that made it.  Each success *)
(* belongs to a port of its own (ClientEvents has ports connected again);  *)
(* a write is one that the write queue has given to the pool (WriteQueue). *)
(***************************************************************************)
EXTENDS Naturals, Sequences, FiniteSets

CONSTANTS Conns,   \* the calls of connect()
          Writes,  \* the calls of write()
          Handles, \* the numbers of sockets
          Threads, \* the size of libuv's pool
          None,    \* INVALID_SOCKET, nobody
          MaxData, \* bound: chunks the remote devices send, together
          MaxOpen, \* bound of use: ports open or connecting at a time
          Overlap  \* whether attempts to connect may overlap

ASSUME NoneAssumption == None \notin Conns \cup Handles
ASSUME ThreadsAssumption == Threads \in Nat \ {0} /\ MaxData \in Nat /\ MaxOpen \in Nat
ASSUME OverlapAssumption == Overlap \in BOOLEAN
ASSUME DistinctAssumption == Conns \cap Writes = {}

VARIABLES
    \* The JavaScript thread
    port,   \* port[c]: how far the port of c is
    js,     \* the failed connection it is about to close, or None
    \* The binding: s, and what threads do with their copies of it
    s,      \* s[c]: rfcomm->s
    read,   \* read[c]: how far the read of c is
    recvOn, \* recvOn[c]: the handle it gives to recv()
    stage,  \* stage[w]: how far write w is
    from,   \* from[w]: the connection it was called on
    sendOn, \* sendOn[w]: the handle it gives to send()
    \* libuv
    pool,   \* the requests that wait for a thread
    \* Winsock
    owner,  \* owner[h]: the connection h was made for, or None
    link,   \* link[c]: "up", or "ended" by the remote device
    sent,   \* how many chunks the remote devices sent
    due     \* due[c]: chunks that were not received yet

jsVars   == <<port, js>>
readVars == <<read, recvOn>>
sendVars == <<stage, from, sendOn>>
netVars  == <<owner, link, sent, due>>
vars == <<jsVars, s, readVars, sendVars, pool, netVars>>

\* A request is named by kind and connection or write.
Requests == ({"connect", "read"} \X Conns) \cup ({"write"} \X Writes)

TypeOK ==
    /\ port \in [Conns -> {"new", "queued", "connecting", "connected", "refused",
                           "open", "closed", "failed"}]
    /\ js \in Conns \cup {None}
    /\ s \in [Conns -> Handles \cup {None}]
    /\ read \in [Conns -> {"off", "tick", "queued", "selecting", "ready", "receiving",
                           "data", "empty", "error"}]
    /\ recvOn \in [Conns -> Handles \cup {None}]
    /\ stage \in [Writes -> {"new", "queued", "sending", "calling", "sent", "failed"}]
    /\ from \in [Writes -> Conns \cup {None}]
    /\ sendOn \in [Writes -> Handles \cup {None}]
    /\ pool \in Seq(Requests)
    /\ owner \in [Handles -> Conns \cup {None}]
    /\ link \in [Conns -> {"up", "ended"}]
    /\ sent \in 0..MaxData
    /\ due \in [Conns -> 0..MaxData]

Init ==
    /\ port = [c \in Conns |-> "new"] /\ js = None
    /\ s = [c \in Conns |-> None]
    /\ read = [c \in Conns |-> "off"] /\ recvOn = [c \in Conns |-> None]
    /\ stage = [w \in Writes |-> "new"] /\ from = [w \in Writes |-> None]
    /\ sendOn = [w \in Writes |-> None]
    /\ pool = <<>>
    /\ owner = [h \in Handles |-> None]
    /\ link = [c \in Conns |-> "up"]
    /\ sent = 0 /\ due = [c \in Conns |-> 0]

-----------------------------------------------------------------------------
(* libuv: requests get threads in the order in which they were queued.     *)

Queue(kind, of) == pool' = Append(pool, <<kind, of>>)

\* The threads that are running a request.
Running ==
    ({"connect"} \X {c \in Conns : port[c] = "connecting"})
      \cup ({"read"} \X {c \in Conns : read[c] \in {"selecting", "ready", "receiving"}})
      \cup ({"write"} \X {w \in Writes : stage[w] \in {"sending", "calling"}})

\* A thread takes this request.
Starts(kind, of) ==
    /\ Cardinality(Running) < Threads
    /\ pool # <<>> /\ Head(pool) = <<kind, of>>
    /\ pool' = Tail(pool)

-----------------------------------------------------------------------------
(* Winsock.                                                                *)

\* closesocket(h), whoever h was made for.
CloseSocket(h) == owner' = [owner EXCEPT ![h] = None]

\* h is the number of a connected socket, whosever.
Usable(h) == h # None /\ owner[h] # None /\ port[owner[h]] \in {"connected", "open"}

\* The select() of c returns: its socket was shut down and closed, or has
\* something to report.
Readable(c) == owner[recvOn[c]] # c \/ due[c] > 0 \/ link[c] = "ended"

-----------------------------------------------------------------------------
(* The JavaScript thread.                                                  *)

JsRuns == js = None
LoopRuns == JsRuns /\ \A c \in Conns : read[c] # "tick"

Attempts == {c \in Conns : port[c] \in {"queued", "connecting", "connected", "refused"}}
Used == {c \in Conns : port[c] = "open"} \cup Attempts

Connect(c) ==
    /\ JsRuns
    /\ port[c] = "new"
    /\ Overlap \/ Attempts = {}
    /\ Cardinality(Used) < MaxOpen
    /\ port' = [port EXCEPT ![c] = "queued"]
    /\ Queue("connect", c)
    /\ UNCHANGED <<js, s, readVars, sendVars, netVars>>

\* A slip: the socket is not closed.
NativeCloseForgets(c) ==
    /\ s' = [s EXCEPT ![c] = None]
    /\ UNCHANGED owner

\* BTSerialPortBinding::Close.
NativeClose(c) ==
    /\ s' = [s EXCEPT ![c] = None]
    /\ IF s[c] # None THEN CloseSocket(s[c]) ELSE UNCHANGED owner

Close(c) ==
    /\ JsRuns
    /\ port[c] = "open"
    /\ port' = [port EXCEPT ![c] = "closed"]
    /\ NativeClose(c)
    /\ UNCHANGED <<js, readVars, sendVars, pool, link, sent, due>>

Write(w) ==
    /\ JsRuns
    /\ stage[w] = "new"
    /\ \E c \in Conns :
         /\ port[c] = "open"
         /\ from' = [from EXCEPT ![w] = c]
    /\ stage' = [stage EXCEPT ![w] = "queued"]
    /\ Queue("write", w)
    /\ UNCHANGED <<jsVars, s, readVars, sendOn, netVars>>

\* EIO_AfterConnect and the success callback, which starts to read.
Connected(c) ==
    /\ LoopRuns
    /\ port[c] = "connected"
    /\ port' = [port EXCEPT ![c] = "open"]
    /\ read' = [read EXCEPT ![c] = "tick"]
    /\ UNCHANGED <<js, s, recvOn, sendVars, pool, netVars>>

\* EIO_AfterConnect closes the socket of a failed attempt, if there is one,
\* and leaves s as it is ...
NotConnected(c) ==
    /\ LoopRuns
    /\ port[c] = "refused"
    /\ js' = c
    /\ IF s[c] # None THEN CloseSocket(s[c]) ELSE UNCHANGED owner
    /\ UNCHANGED <<port, s, readVars, sendVars, pool, link, sent, due>>

\* ... then the library's error callback calls the binding's close().
CleanedUp(c) ==
    /\ js = c
    /\ js' = None
    /\ port' = [port EXCEPT ![c] = "failed"]
    /\ NativeClose(c)
    /\ UNCHANGED <<readVars, sendVars, pool, link, sent, due>>

\* The function read() gave to process.nextTick, and Read, which queues an
\* EIO_Read (the port is open, so that its test of s never fails here).
RunTick(c) ==
    /\ JsRuns
    /\ read[c] = "tick"
    /\ IF port[c] = "open"
         THEN read' = [read EXCEPT ![c] = "queued"] /\ Queue("read", c)
         ELSE read' = [read EXCEPT ![c] = "off"] /\ UNCHANGED pool
    /\ UNCHANGED <<jsVars, s, recvOn, sendVars, netVars>>

\* EIO_AfterRead: with data the listener reads on; without, it closes the
\* port; on an error the callback does.
AfterRead(c) ==
    /\ LoopRuns
    /\ read[c] \in {"data", "empty", "error"}
    /\ read' = [read EXCEPT ![c] = IF @ = "data" THEN "tick" ELSE "off"]
    /\ IF read[c] # "data" /\ port[c] = "open"
         THEN port' = [port EXCEPT ![c] = "closed"] /\ NativeClose(c)
         ELSE UNCHANGED <<port, s, owner>>
    /\ UNCHANGED <<js, recvOn, sendVars, pool, link, sent, due>>

-----------------------------------------------------------------------------
(* The threads.                                                            *)

\* EIO_Connect: socket() returns a number that is free, or fails.
ConnectBegins(c) ==
    /\ Starts("connect", c)
    /\ \/ \E h \in Handles :
            /\ owner[h] = None
            /\ owner' = [owner EXCEPT ![h] = c]
            /\ s' = [s EXCEPT ![c] = h]
            /\ port' = [port EXCEPT ![c] = "connecting"]
       \/ port' = [port EXCEPT ![c] = "refused"] /\ UNCHANGED <<s, owner>>
    /\ UNCHANGED <<js, readVars, sendVars, link, sent, due>>

\* WSAStringToAddress and connect().
ConnectEnds(c) ==
    /\ port[c] = "connecting"
    /\ \E outcome \in {"connected", "refused"} : port' = [port EXCEPT ![c] = outcome]
    /\ UNCHANGED <<js, s, readVars, sendVars, pool, netVars>>

\* EIO_Read: FD_SET and select(); INVALID_SOCKET makes select() fail, and the
\* size keeps its initial value 0.
ReadBegins(c) ==
    /\ Starts("read", c)
    /\ read' = [read EXCEPT ![c] = IF s[c] = None THEN "empty" ELSE "selecting"]
    /\ recvOn' = [recvOn EXCEPT ![c] = s[c]]
    /\ UNCHANGED <<jsVars, s, sendVars, netVars>>

\* select() returns and FD_ISSET is asked about the present s: that of a
\* closed port is not in the set.
ReadSelects(c) ==
    /\ read[c] = "selecting"
    /\ Readable(c)
    /\ read' = [read EXCEPT ![c] = IF s[c] = recvOn[c] THEN "ready" ELSE "empty"]
    /\ UNCHANGED <<jsVars, s, recvOn, sendVars, pool, netVars>>

\* The argument of recv(): s once more ...
ReadLoads(c) ==
    /\ read[c] = "ready"
    /\ read' = [read EXCEPT ![c] = "receiving"]
    /\ recvOn' = [recvOn EXCEPT ![c] = s[c]]
    /\ UNCHANGED <<jsVars, s, sendVars, pool, netVars>>

\* A slip: data is taken whether or not there is some.
ReceivesUnchecked(c, h) ==
    IF ~Usable(h) THEN read' = [read EXCEPT ![c] = "error"] /\ UNCHANGED due
    ELSE read' = [read EXCEPT ![c] = "data"] /\ due' = [due EXCEPT ![owner[h]] = @ - 1]

\* ... and the call: on a number that is no connection, or has no data, it
\* fails; else it takes data of whomever the socket is.
Receives(c, h) ==
    IF ~Usable(h) THEN read' = [read EXCEPT ![c] = "error"] /\ UNCHANGED due
    ELSE IF due[owner[h]] > 0
      THEN read' = [read EXCEPT ![c] = "data"] /\ due' = [due EXCEPT ![owner[h]] = @ - 1]
      ELSE /\ \E result \in IF link[owner[h]] = "ended" THEN {"empty", "error"} ELSE {"error"} :
                read' = [read EXCEPT ![c] = result]
           /\ UNCHANGED due

\* A slip: the thread closes the socket that reports an error.
ReadEndsCloses(c) ==
    /\ read[c] = "receiving"
    /\ read' = [read EXCEPT ![c] = "error"]
    /\ IF s[c] # None THEN CloseSocket(s[c]) ELSE UNCHANGED owner
    /\ UNCHANGED <<jsVars, s, recvOn, sendVars, pool, link, sent, due>>

ReadEnds(c) ==
    /\ read[c] = "receiving"
    /\ Receives(c, recvOn[c])
    /\ recvOn' = [recvOn EXCEPT ![c] = None]
    /\ UNCHANGED <<jsVars, s, sendVars, pool, owner, link, sent>>

\* EIO_Write asks once whether there is a socket ...
WriteBegins(w) ==
    /\ Starts("write", w)
    /\ stage' = [stage EXCEPT ![w] = IF s[from[w]] = None THEN "failed" ELSE "sending"]
    /\ UNCHANGED <<jsVars, s, readVars, from, sendOn, netVars>>

\* ... and then gives the present s to send(), again for what was not sent.
WriteLoads(w) ==
    /\ stage[w] = "sending"
    /\ stage' = [stage EXCEPT ![w] = "calling"]
    /\ sendOn' = [sendOn EXCEPT ![w] = s[from[w]]]
    /\ UNCHANGED <<jsVars, s, readVars, from, pool, netVars>>

WriteSends(w) ==
    /\ stage[w] = "calling"
    /\ IF ~Usable(sendOn[w])
         THEN stage' = [stage EXCEPT ![w] = "failed"]
         ELSE \E result \in {"sending", "sent", "failed"} : stage' = [stage EXCEPT ![w] = result]
    /\ sendOn' = [sendOn EXCEPT ![w] = None]
    /\ UNCHANGED <<jsVars, s, readVars, from, pool, netVars>>

-----------------------------------------------------------------------------
(* The remote devices.                                                     *)

Linked(c) == link[c] = "up" /\ \E h \in Handles : owner[h] = c /\ port[c] \in {"connected", "open"}

RemoteSends(c) ==
    /\ Linked(c)
    /\ sent < MaxData
    /\ sent' = sent + 1
    /\ due' = [due EXCEPT ![c] = @ + 1]
    /\ UNCHANGED <<jsVars, s, readVars, sendVars, pool, owner, link>>

RemoteEnds(c) ==
    /\ Linked(c)
    /\ link' = [link EXCEPT ![c] = "ended"]
    /\ UNCHANGED <<jsVars, s, readVars, sendVars, pool, owner, sent, due>>

-----------------------------------------------------------------------------
Loop(c) == Connected(c) \/ NotConnected(c) \/ CleanedUp(c) \/ RunTick(c) \/ AfterRead(c)

EIO_Connect(c) == ConnectBegins(c) \/ ConnectEnds(c)
EIO_Read(c)    == ReadBegins(c) \/ ReadSelects(c) \/ ReadLoads(c) \/ ReadEnds(c)
EIO_Write(w)   == WriteBegins(w) \/ WriteLoads(w) \/ WriteSends(w)

Next == \/ \E c \in Conns : \/ Connect(c) \/ Close(c) \/ Loop(c) \/ EIO_Connect(c) \/ EIO_Read(c)
                            \/ RemoteSends(c) \/ RemoteEnds(c)
        \/ \E w \in Writes : Write(w) \/ EIO_Write(w)

\* Attempts to connect end; the loop and the threads go on.  A write is sent
\* in the end (a device that takes nothing makes send() fail).  At most one of
\* Loop(c), EIO_Connect(c) and EIO_Read(c) is enabled.
Fairness == /\ \A c \in Conns : WF_vars(Loop(c) \/ EIO_Connect(c) \/ EIO_Read(c))
            /\ \A w \in Writes : /\ WF_vars(EIO_Write(w))
                                 /\ SF_vars(WriteSends(w) /\ stage'[w] # "sending")

Spec == Init /\ [][Next]_vars
FairSpec == Spec /\ Fairness

-----------------------------------------------------------------------------
\* The socket of an open port is its own, and what threads read from and
\* write to for it is this socket: nobody else closed it and got its number.
\* A failed attempt closes its number twice, so that this needs attempts that
\* do not overlap.
OpenUsesOwnSocket ==
    \A c \in Conns : port[c] = "open" =>
        /\ s[c] # None /\ owner[s[c]] = c
        /\ recvOn[c] \in {None, s[c]}
        /\ \A w \in Writes : from[w] = c => sendOn[w] \in {None, s[c]}

\* What a write sends goes to the connection it was called on.  (Violated when
\* the port is closed between the argument of send() and the call, and another
\* port gets the number: MCWindowsPortReuse.cfg.)
SentToOwn ==
    [][\A w \in Writes : stage[w] = "calling" /\ stage'[w] \in {"sending", "sent"}
           => owner[sendOn[w]] = from[w]]_vars

\* The pool is not used up by reads: if fewer ports are open at a time than
\* there are threads, each request gets a thread, also after ports were
\* closed in the middle of a read.
EveryRequestStarts ==
    /\ \A c \in Conns : /\ (port[c] = "queued") ~> (port[c] # "queued")
                        /\ (read[c] = "queued") ~> (read[c] # "queued")
    /\ \A w \in Writes : (stage[w] = "queued") ~> (stage[w] # "queued")

=============================================================================
