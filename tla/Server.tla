------------------------------- MODULE Server -------------------------------
(***************************************************************************)
(* A BluetoothSerialPortServer (lib/bluetooth-serial-port.js:157-254) on   *)
(* the Linux binding (src/linux/BTSerialPortBindingServer.cc): one call of *)
(* listen(), the clients that come one after the other, disconnectClient() *)
(* and close().  Its write queue is that of WriteQueue with one connection.*)
(*                                                                         *)
(* Three kinds of pool threads read and write the fields of the binding    *)
(* without a lock while the JavaScript thread does: EIO_Listen, EIO_Read   *)
(* and ClientWorker::Execute (the acceptor).  close() therefore is a       *)
(* sequence of steps, between which the threads run but no callback does.  *)
(***************************************************************************)
EXTENDS Naturals, Sequences, Bags

CONSTANTS Clients,   \* the connections that remote devices make
          NoClient,  \* mClientSocket = 0
          Failed,    \* mClientSocket = -1
          MaxData,   \* bound: chunks a client sends
          MaxPipe    \* bound: messages in the pipe

ASSUME SocketAssumption == NoClient \notin Clients /\ Failed \notin Clients /\ NoClient # Failed
ASSUME BoundAssumption == MaxData \in Nat /\ MaxPipe \in Nat

VARIABLES
    \* JavaScript
    server,       \* self.server is set
    inDisconnect, \* self.inDisconnect
    ticks,        \* pending process.nextTick calls of read()
    closing,      \* where Close is, or "crashed"
    \* The binding
    listening,    \* where EIO_Listen and EIO_AfterListen are
    s,            \* the listening socket: "zero", "open", or closed but not yet "zero"
    rep,          \* the pipe is open
    pipe,         \* the messages in it
    client,       \* mClientSocket
    sdp,          \* mSdpSession is set
    held,         \* the client sockets that are open
    address,      \* mListenBaton->clientAddress, NoClient for none
    acceptors,    \* acceptors[stage]: how many ClientWorkers are there
    reads,        \* the EIO_Read requests, a bag of Read
    \* The remote devices
    peer,         \* peer[c]
    sent,         \* sent[c]: chunks c sent
    taken         \* taken[c]: chunks read(2) returned

jsVars       == <<server, inDisconnect, ticks, closing>>
socketVars   == <<s, rep, pipe, client, sdp, held, address>>
threadVars   == <<listening, acceptors, reads>>
peerVars     == <<peer, sent, taken>>
vars == <<jsVars, socketVars, threadVars, peerVars>>

Stages == {"waiting", "selected", "done"}

\* How a read ends: "reset" is ECONNRESET or ETIMEDOUT, "other" any other
\* errno, "foreign" are bytes from descriptor 0.
Ends == {"empty", "reset", "close", "disconnect"}
Results == {"data", "foreign", "other"} \cup Ends

\* A read was queued while mClientSocket was "of"; "set" is what pselect found.
Read == [stage : {"queued", "selecting", "selected", "socket", "pipe", "stdin"} \cup Results,
         of : Clients \cup {Failed},
         set : SUBSET {"socket", "pipe"}]

TypeOK ==
    /\ server \in BOOLEAN /\ inDisconnect \in BOOLEAN
    /\ ticks \in Nat
    /\ closing \in {"no", "pipe", "client", "socket", "zero", "crashed"}
    /\ listening \in {"no", "queued", "bound", "over", "refused", "failed"}
    /\ s \in {"zero", "open", "bad"}
    /\ rep \in BOOLEAN
    /\ pipe \in Seq({"close", "disconnect"})
    /\ client \in Clients \cup {NoClient, Failed}
    /\ sdp \in BOOLEAN
    /\ held \subseteq Clients
    /\ address \in Clients \cup {NoClient}
    /\ acceptors \in [Stages -> Nat]
    /\ IsABag(reads) /\ BagToSet(reads) \subseteq Read
    /\ peer \in [Clients -> {"away", "knocking", "up", "eof", "reset", "broken"}]
    /\ sent \in [Clients -> 0..MaxData]
    /\ taken \in [Clients -> 0..MaxData]

Init ==
    /\ server = FALSE /\ inDisconnect = FALSE
    /\ ticks = 0
    /\ closing = "no"
    /\ listening = "no"
    /\ s = "zero"
    /\ rep = FALSE /\ pipe = <<>>
    /\ client = NoClient /\ held = {} /\ address = NoClient
    /\ sdp = FALSE
    /\ acceptors = [stage \in Stages |-> 0]
    /\ reads = EmptyBag
    /\ peer = [c \in Clients |-> "away"]
    /\ sent = [c \in Clients |-> 0]
    /\ taken = [c \in Clients |-> 0]

-----------------------------------------------------------------------------
(* What the functions of the binding do to its state.                      *)

\* A slip: the descriptor is kept.
CloseClientSocketKeeps == UNCHANGED <<client, held>>

CloseClientSocket ==
    /\ client' = NoClient
    /\ held' = held \ {client}

\* A slip: the server does not accept again.
AdvertiseOnly == sdp' \in BOOLEAN /\ UNCHANGED acceptors

\* The SDP daemon may refuse; the acceptor starts all the same.
AdvertiseAndAccept ==
    /\ sdp' \in BOOLEAN
    /\ acceptors' = [acceptors EXCEPT !["waiting"] = @ + 1]

\* An acceptor goes from a stage to another one.
Moves(from, to) ==
    /\ acceptors[from] > 0
    /\ acceptors' = [acceptors EXCEPT ![from] = @ - 1, ![to] = @ + 1]

\* Read r goes on to another stage, or leaves.
Proceed(r, stage, set) ==
    reads' = (reads (-) SetToBag({r}))
                 (+) SetToBag({[r EXCEPT !.stage = stage, !.set = set]})
Leave(r) == reads' = reads (-) SetToBag({r})

-----------------------------------------------------------------------------
(* The user's calls.                                                       *)

Idle == closing = "no"

\* listen() and BTSerialPortBindingServer::New.
Listen ==
    /\ Idle
    /\ listening = "no"
    /\ server' = TRUE
    /\ listening' = "queued"
    /\ rep' = TRUE
    /\ UNCHANGED <<inDisconnect, ticks, closing, s, pipe, client, sdp, held, address,
                   acceptors, reads, peerVars>>

DisconnectClient ==
    /\ Idle
    /\ server
    /\ Len(pipe) < MaxPipe
    /\ inDisconnect' = TRUE
    /\ pipe' = Append(pipe, "disconnect")
    /\ UNCHANGED <<server, ticks, closing, s, rep, client, sdp, held, address,
                   threadVars, peerVars>>

\* Close, first step: the message for a read that is blocked.
Close ==
    /\ Idle
    /\ server
    /\ pipe' = Append(pipe, "close")
    /\ closing' = "pipe"
    /\ UNCHANGED <<server, inDisconnect, ticks, s, rep, client, sdp, held, address,
                   threadVars, peerVars>>

\* Both ends are closed, rep[0] = rep[1] = 0, the SDP session ends.
ClosePipe ==
    /\ closing = "pipe"
    /\ rep' = FALSE
    /\ pipe' = <<>>
    /\ sdp' = FALSE
    /\ closing' = "client"
    /\ UNCHANGED <<server, inDisconnect, ticks, s, client, held, address,
                   threadVars, peerVars>>

CloseClient ==
    /\ closing = "client"
    /\ CloseClientSocket
    /\ closing' = "socket"
    /\ UNCHANGED <<server, inDisconnect, ticks, s, rep, pipe, sdp, address,
                   threadVars, peerVars>>

CloseSocket ==
    /\ closing = "socket"
    /\ s' = IF s = "open" THEN "bad" ELSE s
    /\ closing' = "zero"
    /\ UNCHANGED <<server, inDisconnect, ticks, rep, pipe, client, sdp, held, address,
                   threadVars, peerVars>>

\* s = 0, and self.server = undefined.
CloseReturns ==
    /\ closing = "zero"
    /\ s' = IF s = "bad" THEN "zero" ELSE s
    /\ server' = FALSE
    /\ closing' = "no"
    /\ UNCHANGED <<inDisconnect, ticks, rep, pipe, client, sdp, held, address,
                   threadVars, peerVars>>

-----------------------------------------------------------------------------
(* The event loop; it goes on when the nextTick queue is empty.            *)

AtRest == Idle /\ ticks = 0

\* EIO_AfterListen; after an error nothing is cleaned up, for the "this" of
\* the error callback is not the port.
AfterListen ==
    /\ AtRest
    /\ \/ listening = "bound" /\ listening' = "over" /\ AdvertiseAndAccept
       \/ listening = "refused" /\ listening' = "failed" /\ UNCHANGED <<sdp, acceptors>>
    /\ UNCHANGED <<jsVars, s, rep, pipe, client, held, address, reads, peerVars>>

\* ClientWorker::HandleOKCallback: accept(2) gave -1, and nobody is told.
NobodyAccepted ==
    /\ AtRest
    /\ acceptors["done"] > 0
    /\ client = Failed
    /\ acceptors' = [acceptors EXCEPT !["done"] = @ - 1]
    /\ sdp' = FALSE
    /\ UNCHANGED <<jsVars, listening, s, rep, pipe, client, held, address, reads, peerVars>>

\* A slip: the user's callback is called, but nothing reads.
AcceptedOnly ==
    /\ AtRest
    /\ acceptors["done"] > 0
    /\ client # Failed
    /\ acceptors' = [acceptors EXCEPT !["done"] = @ - 1]
    /\ sdp' = FALSE
    /\ UNCHANGED <<jsVars, listening, s, rep, pipe, client, held, address, reads, peerVars>>

\* ClientWorker::HandleOKCallback: read(), then the user's callback.
Accepted ==
    /\ AtRest
    /\ acceptors["done"] > 0
    /\ client # Failed
    /\ acceptors' = [acceptors EXCEPT !["done"] = @ - 1]
    /\ sdp' = FALSE
    /\ ticks' = ticks + 1
    /\ UNCHANGED <<server, inDisconnect, closing, listening, s, rep, pipe, client, held,
                   address, reads, peerVars>>

\* A slip: a read is queued for a server that was closed, too.
RunTickUnchecked ==
    /\ Idle
    /\ ticks > 0
    /\ ticks' = ticks - 1
    /\ inDisconnect' = FALSE
    /\ reads' = reads (+) SetToBag({[stage |-> "queued", of |-> client, set |-> {}]})
    /\ UNCHANGED <<server, closing, socketVars, listening, acceptors, peerVars>>

\* The function read() gave to process.nextTick, and the binding's Read, which
\* calls back at once if there is no client.
RunTick ==
    /\ Idle
    /\ ticks > 0
    /\ ticks' = ticks - 1
    /\ IF server /\ client = NoClient THEN inDisconnect' = FALSE ELSE UNCHANGED inDisconnect
    /\ reads' = IF server /\ client # NoClient
                  THEN reads (+) SetToBag({[stage |-> "queued", of |-> client, set |-> {}]})
                  ELSE reads
    /\ UNCHANGED <<server, closing, socketVars, listening, acceptors, peerVars>>

\* A slip: the end of the read before is taken for data and starts a read, too.
AfterReadDataTwice(r) ==
    /\ AtRest
    /\ r.stage \in {"data", "foreign"}
    /\ Leave(r)
    /\ ticks' = ticks + 2
    /\ UNCHANGED <<server, inDisconnect, closing, socketVars, listening, acceptors, peerVars>>

\* EIO_AfterRead with data: 'data', and read().
AfterReadData(r) ==
    /\ AtRest
    /\ r.stage \in {"data", "foreign"}
    /\ Leave(r)
    /\ ticks' = ticks + 1
    /\ UNCHANGED <<server, inDisconnect, closing, socketVars, listening, acceptors, peerVars>>

\* A slip: ECONNRESET and ETIMEDOUT are not taken for the end of a client.
AfterReadEndsForgetsReset(r) ==
    /\ AtRest
    /\ r.stage \in Ends \ {"reset"}
    /\ Leave(r)
    /\ CloseClientSocket
    /\ IF r.stage = "close" THEN UNCHANGED <<sdp, acceptors>> ELSE AdvertiseAndAccept
    /\ inDisconnect' = FALSE
    /\ UNCHANGED <<server, ticks, closing, s, rep, pipe, address, listening, peerVars>>

\* EIO_AfterRead at the end of a client: only a read that saw "close" in the
\* pipe keeps the server from accepting again.
AfterReadEnds(r) ==
    /\ AtRest
    /\ r.stage \in Ends
    /\ Leave(r)
    /\ CloseClientSocket
    /\ IF r.stage = "close" THEN UNCHANGED <<sdp, acceptors>> ELSE AdvertiseAndAccept
    /\ inDisconnect' = FALSE
    /\ UNCHANGED <<server, ticks, closing, s, rep, pipe, address, listening, peerVars>>

\* EIO_AfterRead with another errno returns without a call of the callback.
AfterReadSilent(r) ==
    /\ AtRest
    /\ r.stage = "other"
    /\ Leave(r)
    /\ UNCHANGED <<jsVars, socketVars, listening, acceptors, peerVars>>

-----------------------------------------------------------------------------
(* The pool threads: EIO_Listen and the acceptor.                          *)

\* The socket exists whether bind(2) and listen(2) succeed or not.
EIO_Listen ==
    /\ listening = "queued"
    /\ s' = "open"
    /\ listening' \in {"bound", "refused"}
    /\ UNCHANGED <<jsVars, rep, pipe, client, sdp, held, address, acceptors, reads, peerVars>>

Knocking == {c \in Clients : peer[c] = "knocking"}

\* select(2) says that a client waits.
AcceptorSelects ==
    /\ s = "open" /\ Knocking # {}
    /\ Moves("waiting", "selected")
    /\ UNCHANGED <<jsVars, socketVars, listening, reads, peerVars>>

\* select(2) on a descriptor that was closed: Nan::ThrowError, off the
\* JavaScript thread, where there is no isolate to throw in.  The process
\* ends, and with it Close.
AcceptorThrows ==
    /\ s = "bad"
    /\ closing = "zero"
    /\ acceptors["waiting"] > 0
    /\ closing' = "crashed"
    /\ UNCHANGED <<server, inDisconnect, ticks, socketVars, threadVars, peerVars>>

\* s is 0: "in middle of closing".
AcceptorStops ==
    /\ s = "zero"
    /\ \E stage \in {"waiting", "selected"} : Moves(stage, "done")
    /\ UNCHANGED <<jsVars, socketVars, listening, reads, peerVars>>

\* A slip: the socket of the client is not stored.
AcceptorForgets(c) ==
    /\ s = "open"
    /\ peer[c] = "knocking"
    /\ Moves("selected", "done")
    /\ held' = held \cup {c}
    /\ address' = c
    /\ peer' = [peer EXCEPT ![c] = "up"]
    /\ UNCHANGED <<jsVars, s, rep, pipe, client, sdp, listening, reads, sent, taken>>

AcceptorAccepts(c) ==
    /\ s = "open"
    /\ peer[c] = "knocking"
    /\ Moves("selected", "done")
    /\ client' = c
    /\ held' = held \cup {c}
    /\ address' = c
    /\ peer' = [peer EXCEPT ![c] = "up"]
    /\ UNCHANGED <<jsVars, s, rep, pipe, sdp, listening, reads, sent, taken>>

\* accept(2) fails: out of descriptors, the client is gone, or Close took
\* the socket after the acceptor looked at s.
AcceptorFails ==
    /\ Moves("selected", "done")
    /\ client' = Failed
    /\ address' = NoClient
    /\ UNCHANGED <<jsVars, s, rep, pipe, sdp, held, listening, reads, peerVars>>

-----------------------------------------------------------------------------
(* The pool threads: EIO_Read.                                             *)

\* The descriptor set is built; without a client it holds descriptor 0.
ReadBegins(r) ==
    /\ r.stage = "queued"
    /\ Proceed(r, IF client = NoClient THEN "stdin" ELSE "selecting", {})
    /\ UNCHANGED <<jsVars, socketVars, listening, acceptors, peerVars>>

SocketReady(c) == c \notin held \/ taken[c] < sent[c] \/ peer[c] # "up"
PipeReady == pipe # <<>> \/ ~rep

\* pselect(2) returns.
ReadSelects(r) ==
    /\ r.stage = "selecting"
    /\ LET set == {d \in {"socket", "pipe"} :
                      IF d = "socket" THEN SocketReady(r.of) ELSE PipeReady}
       IN  set # {} /\ Proceed(r, "selected", set)
    /\ UNCHANGED <<jsVars, socketVars, listening, acceptors, peerVars>>

Found(r) == IF client = r.of /\ "socket" \in r.set THEN "socket"
            ELSE IF rep /\ "pipe" \in r.set THEN "pipe" ELSE "empty"

\* FD_ISSET is asked about the fields as they are now.
ReadLooks(r) ==
    /\ r.stage = "selected"
    /\ Proceed(r, Found(r), {})
    /\ UNCHANGED <<jsVars, socketVars, listening, acceptors, peerVars>>

\* A slip: what is in the pipe is looked for first, and lost when a chunk is there.
ReadTakesAndClears(r) ==
    /\ r.stage = "socket"
    /\ client = r.of /\ taken[r.of] < sent[r.of]
    /\ taken' = [taken EXCEPT ![r.of] = @ + 1]
    /\ pipe' = <<>>
    /\ Proceed(r, "data", {})
    /\ UNCHANGED <<jsVars, s, rep, client, sdp, held, address, listening, acceptors, peer, sent>>

\* read(2) on the socket returns a chunk.
ReadTakes(r) ==
    /\ r.stage = "socket"
    /\ client = r.of /\ taken[r.of] < sent[r.of]
    /\ taken' = [taken EXCEPT ![r.of] = @ + 1]
    /\ Proceed(r, "data", {})
    /\ UNCHANGED <<jsVars, socketVars, listening, acceptors, peer, sent>>

\* read(2) on the socket returns no data.
ReadReturns(r) ==
    /\ r.stage = "socket"
    /\ client = r.of /\ taken[r.of] = sent[r.of] /\ peer[r.of] # "up"
    /\ Proceed(r, CASE peer[r.of] = "eof"   -> "empty"
                    [] peer[r.of] = "reset" -> "reset"
                    [] OTHER                -> "other", {})
    /\ UNCHANGED <<jsVars, socketVars, listening, acceptors, peerVars>>

\* Close came first: read(2) fails with the old descriptor, or is read(0, ...).
ReadStrays(r) ==
    /\ \/ r.stage = "socket" /\ client = NoClient
       \/ r.stage = "stdin"
    /\ \E result \in {"foreign", "empty", "other"} : Proceed(r, result, {})
    /\ UNCHANGED <<jsVars, socketVars, listening, acceptors, peerVars>>

\* read(2) empties the pipe; only the first message is looked at.
ReadMessage(r) ==
    /\ r.stage = "pipe"
    /\ pipe # <<>>
    /\ pipe' = <<>>
    /\ Proceed(r, Head(pipe), {})
    /\ UNCHANGED <<jsVars, s, rep, client, sdp, held, address, listening, acceptors, peerVars>>

\* The pipe was closed after FD_ISSET: no message, and the size stays 0.
ReadNoMessage(r) ==
    /\ r.stage = "pipe"
    /\ ~rep
    /\ Proceed(r, "empty", {})
    /\ UNCHANGED <<jsVars, socketVars, listening, acceptors, peerVars>>

-----------------------------------------------------------------------------
(* The remote devices.                                                     *)

Knocks(c) ==
    /\ s = "open" /\ listening \in {"bound", "over"}
    /\ peer[c] = "away"
    /\ peer' = [peer EXCEPT ![c] = "knocking"]
    /\ UNCHANGED <<jsVars, socketVars, threadVars, sent, taken>>

PeerSends(c) ==
    /\ peer[c] = "up"
    /\ sent[c] < MaxData
    /\ sent' = [sent EXCEPT ![c] = @ + 1]
    /\ UNCHANGED <<jsVars, socketVars, threadVars, peer, taken>>

PeerEnds(c) ==
    /\ peer[c] = "up"
    /\ \E end \in {"eof", "reset", "broken"} : peer' = [peer EXCEPT ![c] = end]
    /\ UNCHANGED <<jsVars, socketVars, threadVars, sent, taken>>

-----------------------------------------------------------------------------
Calls == Listen \/ DisconnectClient \/ Close

Closing == ClosePipe \/ CloseClient \/ CloseSocket \/ CloseReturns

Loop == \/ AfterListen \/ NobodyAccepted \/ Accepted
        \/ RunTick
        \/ \E r \in BagToSet(reads) :
               AfterReadData(r) \/ AfterReadEnds(r) \/ AfterReadSilent(r)

Acceptor == \/ AcceptorSelects \/ AcceptorThrows \/ AcceptorStops \/ AcceptorFails
            \/ \E c \in Clients : AcceptorAccepts(c)

EIO_Read == \E r \in BagToSet(reads) :
    \/ ReadBegins(r) \/ ReadSelects(r) \/ ReadLooks(r) \/ ReadTakes(r) \/ ReadReturns(r)
    \/ ReadStrays(r) \/ ReadMessage(r) \/ ReadNoMessage(r)

Remote == \E c \in Clients : Knocks(c) \/ PeerSends(c) \/ PeerEnds(c)

Next == Calls \/ Closing \/ Loop \/ EIO_Listen \/ Acceptor \/ EIO_Read \/ Remote

Spec == Init /\ [][Next]_vars

-----------------------------------------------------------------------------
(* Properties of every use of a server.                                    *)

\* At most one read is under way: two would compete for the client's bytes
\* and for the messages in the pipe.
OneReader == BagCardinality(reads) + ticks <= 1

\* At most one acceptor is under way, and none while the server has a
\* client: a second accept(2) would overwrite mClientSocket, and nobody
\* could close the first client's socket any more.
OneAcceptor ==
    /\ acceptors["waiting"] + acceptors["selected"] + acceptors["done"] <= 1
    /\ acceptors["waiting"] + acceptors["selected"] > 0 => client \in {NoClient, Failed}

\* The one client socket that is open is the one CloseClientSocket closes.
HeldIsKnown == held \subseteq {client}

\* While a read is under way the server does not change to another client:
\* EIO_AfterRead closes the socket the read was about, or none.  And read()
\* never finds a server that was not closed without a client.
ReadIsCurrent ==
    /\ \A r \in BagToSet(reads) : client \in {r.of, NoClient}
    /\ Idle /\ server /\ ticks > 0 => client \in Clients
=============================================================================
