---------------------------- MODULE ServerEvents ----------------------------
(***************************************************************************)
(* What the user of a BluetoothSerialPortServer sees of Server: the        *)
(* callback of listen() and the events 'data', 'closed', 'disconnected' and*)
(* 'failure'.  Every action is the one of Server together with the events  *)
(* it emits; the variables of this module never restrict those of Server.  *)
(***************************************************************************)
EXTENDS Server

VARIABLES
    session,   \* the client announced last, until 'closed' or 'disconnected'
    announced, \* the clients that were announced
    delivered, \* delivered[c]: 'data' events in c's session
    ended,     \* how many 'closed' and 'disconnected' there were
    asked,     \* asked[c]: disconnectClient() was called in c's session
    dropped    \* the clients whose link was closed for a "disconnect" in the pipe

eventVars == <<session, announced, delivered, ended, asked, dropped>>
allVars == <<vars, eventVars>>

EventsInit ==
    /\ Init
    /\ session = NoClient
    /\ announced = {}
    /\ delivered = [c \in Clients |-> 0]
    /\ ended = 0
    /\ asked = [c \in Clients |-> FALSE]
    /\ dropped = {}

-----------------------------------------------------------------------------
\* The callback of listen() with the address the acceptor left.
EmitAccepted ==
    /\ Accepted
    /\ session' = address
    /\ announced' = announced \cup ({address} \ {NoClient})
    /\ UNCHANGED <<delivered, ended, asked, dropped>>

EmitData(r) ==
    /\ AfterReadData(r)
    /\ delivered' = IF session = NoClient THEN delivered
                      ELSE [delivered EXCEPT ![session] = @ + 1]
    /\ UNCHANGED <<session, announced, ended, asked, dropped>>

\* 'disconnected' if the port is inDisconnect, and 'closed' otherwise.
EmitEnd(r) ==
    /\ AfterReadEnds(r)
    /\ session' = NoClient
    /\ ended' = ended + 1
    /\ dropped' = IF r.stage = "disconnect" THEN dropped \cup {r.of} ELSE dropped
    /\ UNCHANGED <<announced, delivered, asked>>

UserDisconnects ==
    /\ DisconnectClient
    /\ asked' = IF session = NoClient THEN asked ELSE [asked EXCEPT ![session] = TRUE]
    /\ UNCHANGED <<session, announced, delivered, ended, dropped>>

\* ReadIsCurrent: RunTick finds a client, so that nothing is emitted here.
Silent ==
    /\ \/ Listen \/ Close \/ Closing \/ AfterListen \/ NobodyAccepted \/ RunTick
       \/ \E r \in BagToSet(reads) : AfterReadSilent(r)
       \/ EIO_Listen \/ Acceptor \/ EIO_Read \/ Remote
    /\ UNCHANGED eventVars

EventsNext ==
    \/ EmitAccepted
    \/ \E r \in BagToSet(reads) : EmitData(r) \/ EmitEnd(r)
    \/ UserDisconnects
    \/ Silent

\* The event loop and the pool go on; nothing is assumed of the user, of the
\* remote devices, or of the standard input.
EventLoop ==
    \/ EmitAccepted
    \/ \E r \in BagToSet(reads) : EmitData(r) \/ EmitEnd(r)
    \/ /\ \/ AfterListen \/ NobodyAccepted \/ RunTick
          \/ \E r \in BagToSet(reads) : AfterReadSilent(r)
       /\ UNCHANGED eventVars
EventsFairness ==
    /\ WF_allVars(EventLoop)
    /\ WF_allVars(Closing /\ UNCHANGED eventVars)
    /\ WF_allVars(EIO_Listen /\ UNCHANGED eventVars)
    /\ WF_allVars(Acceptor /\ UNCHANGED eventVars)
    /\ WF_allVars(EIO_Read /\ UNCHANGED eventVars)

\* Disciplined use: disconnectClient() in a session, and close() only from the
\* handler of 'data' or the callback of listen(), when no read is under way
\* and no acceptor waits (as experiments/server-test.js:34-38 does it).
InHandler == ticks > 0 /\ session # NoClient
CalmNext ==
    /\ EventsNext
    /\ closing = "no" /\ closing' = "pipe" => InHandler
    /\ Len(pipe') > Len(pipe) => session # NoClient
CalmSpec == EventsInit /\ [][CalmNext]_allVars /\ EventsFairness

-----------------------------------------------------------------------------
(* Properties of a server in disciplined use.                              *)

\* The events form sessions (README.md:222-226, 261-267).
Sessions == INSTANCE ServerSessions
ImplementsSessions == Sessions!Spec

\* A server that is not closed announces the next client that connects, if
\* nobody is served and accept(2) works.
KnockAnswered ==
    \A c \in Clients : peer[c] = "knocking" ~>
        \/ peer[c] # "knocking" \/ session # NoClient
        \/ client = Failed \/ ~server

\* What a client sent before it left is delivered before its session ends,
\* unless the server closes the session or stops.
DataDelivered ==
    \A c \in Clients : \A i \in 1..MaxData :
        (session = c /\ sent[c] >= i)
            ~> (delivered[c] >= i \/ asked[c] \/ c \in dropped \/ ~server)

\* README.md:249: disconnectClient() "disconnects the currently-connected
\* client": once asked for, its session ends, unless another chunk of data is
\* read before.  EIO_Read looks at the socket first, so that each chunk the
\* client has sent by then puts the end off, and one that never stops sending
\* puts it off for ever; but no chunk, and no read, loses the request.
\* (A link that is "broken" is the case of SessionEnds.)
DisconnectWorks ==
    \A c \in Clients, n \in 0..MaxData :
        (session = c /\ asked[c] /\ taken[c] = n)
            ~> (taken[c] > n \/ session # c \/ ~server \/ peer[c] = "broken")

\* No session outlives its client, unless the link broke with an errno that
\* EIO_AfterRead does not know.
SessionEnds ==
    \A c \in Clients : (session = c /\ peer[c] \in {"eof", "reset"})
        ~> (session # c \/ ~server)

-----------------------------------------------------------------------------
(* What the README says of servers, and the code does not keep.            *)

\* README.md:249: disconnectClient() "disconnects the currently-connected
\* client".  It does not close the link of a client that came later.
DroppedOnRequest == \A c \in dropped : asked[c]

\* README.md:269-271: when "reading from the serial port connection results in
\* an error", "the connection is closed": the session ends with an event.
\* EIO_AfterRead does so for ECONNRESET and ETIMEDOUT only.
ReadErrorEnds ==
    \A c \in Clients : (session = c /\ peer[c] = "broken") ~> (session # c \/ ~server)
=============================================================================
