---------------------------- MODULE ClientEvents ----------------------------
(***************************************************************************)
(* What the user of a BluetoothSerialPort sees of ClientPort: the events   *)
(* 'data', 'closed' and 'failure' beside what the user asked for.  Every   *)
(* action is the one of ClientPort together with the events it emits; the  *)
(* variables of this module never restrict those of ClientPort.            *)
(***************************************************************************)
EXTENDS ClientPort

VARIABLES
    emitted,  \* emitted[c]: the chunks of 'data' events from reads on c, 0
              \* for bytes that did not come from the link
    failures, \* the connections on which a read ended with 'failure'
    asked     \* asked[c]: the user closed the port while c was its connection

eventVars == <<emitted, failures, asked>>
allVars == <<vars, eventVars>>

EventsTypeOK ==
    /\ emitted \in [Conns -> Seq(0..MaxData)]
    /\ failures \subseteq Conns
    /\ asked \in [Conns -> BOOLEAN]

EventsInit ==
    /\ Init
    /\ emitted = [c \in Conns |-> <<>>]
    /\ failures = {}
    /\ asked = [c \in Conns |-> FALSE]

-----------------------------------------------------------------------------
(* The user.                                                               *)

UserConnects(c) ==
    /\ Connect(c)
    /\ UNCHANGED eventVars

UserCloses ==
    /\ Close
    /\ asked' = IF connection = None THEN asked ELSE [asked EXCEPT ![connection] = TRUE]
    /\ UNCHANGED <<emitted, failures>>

-----------------------------------------------------------------------------
(* The callbacks of the library.                                           *)

\* self.emit('data', buffer); the user's listeners and the library's run.
EmitData(r) ==
    /\ AfterReadData(r)
    /\ emitted' = [emitted EXCEPT ![r.on] = Append(@, r.chunk)]
    /\ UNCHANGED <<failures, asked>>

\* The library closes the port: 'closed'.
EmitEmpty(r) ==
    /\ AfterReadEmpty(r)
    /\ UNCHANGED eventVars

\* The library closes the port and reports: 'closed', then 'failure'.
EmitFailure(r) ==
    /\ AfterReadError(r)
    /\ failures' = failures \cup {r.on}
    /\ UNCHANGED <<emitted, asked>>

\* ConnectionHasSocket: read() never finds its connection closed, so the
\* branch of RunTick that would emit 'failure' emits nothing here.
Silent ==
    /\ \/ RunTick
       \/ \E c \in Conns : Connected(c) \/ NotConnected(c) \/ EIO_Connect(c)
       \/ EIO_Read \/ Stdin \/ Remote
    /\ UNCHANGED eventVars

EventsNext ==
    \/ \E c \in Conns : UserConnects(c)
    \/ UserCloses
    \/ \E r \in BagToSet(reads) : EmitData(r) \/ EmitEmpty(r) \/ EmitFailure(r)
    \/ Silent

EventsFairness ==
    /\ WF_allVars(/\ Loop
                  /\ EventsNext)
    /\ WF_allVars(/\ \E c \in Conns : EIO_Connect(c)
                  /\ UNCHANGED eventVars)
    /\ WF_allVars(EIO_Read /\ UNCHANGED eventVars)

EventsSpec == EventsInit /\ [][EventsNext]_allVars

-----------------------------------------------------------------------------
(* Two ways to use a port.                                                 *)

\* One connection in the life of a port: connect() again only after every
\* earlier attempt failed.
OnceNext == /\ EventsNext
            /\ \A c \in Conns : nat'[c] # nat[c] /\ nat[c] = "none" =>
                   \A d \in Conns \ {c} : nat[d] \in {"none", "failed"}
OnceSpec == EventsInit /\ [][OnceNext]_allVars /\ EventsFairness

\* One connection at a time: connect() again only when nothing of an earlier
\* connection is under way.
SequentialNext == /\ EventsNext
                  /\ \A c \in Conns : nat'[c] # nat[c] /\ nat[c] = "none" =>
                         /\ \A d \in Conns : nat[d] \in {"none", "failed", "shut"}
                         /\ reads = EmptyBag
                         /\ ticks = <<>>
SequentialSpec == EventsInit /\ [][SequentialNext]_allVars /\ EventsFairness

-----------------------------------------------------------------------------
(* Properties of a port that is connected once.                            *)

\* Each 'data' event starts the next read, and nothing else does: there are
\* never two reads that could deliver chunks out of order or steal each
\* other's bytes.
OneReader == BagCardinality(reads) + Len(ticks) <= 1

\* isOpen() answers for every connection there is: no connection is open
\* that the port does not know of and hence can never close.
IsOpenIsExact == \A c \in Conns : nat[c] = "open" => connection = c

\* 'data' events carry what the remote device sent, in order and without a
\* gap: what came before a chunk are the chunks sent before it.  Bytes of
\* another origin (chunk 0) only come after the user's close().
InOrder(events) ==
    \A j \in DOMAIN events : events[j] # 0 =>
        {events[i] : i \in 1..(j - 1)} \ {0} = 1..(events[j] - 1)
DataInOrder ==
    \A c \in Conns : /\ InOrder(emitted[c])
                     /\ 0 \in Range(emitted[c]) => asked[c]

\* README.md:157: 'closed' is emitted "when a connection was closed either by
\* the user (i.e. calling close or remotely)".
ClosedForCause == \A c \in Conns : nat[c] = "shut" => asked[c] \/ link[c] # "up"

\* README.md:161: 'failure' is emitted "when reading from the serial port
\* connection results in an error": the link failed, or the user closed the
\* port while a read was under way.
FailureForCause == \A c \in failures : asked[c] \/ link[c] = "error"

\* What the remote device sent is delivered, also what it sent right before
\* closing, unless the user closes the port or the link fails.
DataDelivered ==
    \A c \in Conns : \A i \in 1..MaxData :
        (connection = c /\ arrived[c] >= i)
            ~> \/ i \in Range(emitted[c])
               \/ asked[c] \/ link[c] = "error"
=============================================================================
