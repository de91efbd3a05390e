---------------------------- MODULE ServerProofs ----------------------------
(***************************************************************************)
(* Theorems about Server, for any number of clients and chunks: whatever   *)
(* the user, the remote devices and the steps of close() do in between,    *)
(* EIO_Listen, the acceptor, the pending read() and EIO_Read take turns.   *)
(* And about ServerEvents: in disciplined use it implements ServerSessions. *)
(***************************************************************************)
EXTENDS ServerEvents, RequestLemmas, TLAPS

-----------------------------------------------------------------------------
(* The inductive invariant.                                                *)

Starting == listening \in {"no", "queued", "bound", "refused"}
Accepting == acceptors["waiting"] + acceptors["selected"]
None == reads = EmptyBag

\* There is one turn at most: it goes from listen() to an acceptor, to a call
\* of read(), to an EIO_Read and from there to a read() or to an acceptor.
\* This is a counter of who has it; nothing in the code holds it.
Turns == (IF Starting THEN 1 ELSE 0) + Accepting + acceptors["done"] + ticks
           + (IF None THEN 0 ELSE 1)

\* The reads are none, or one that has been queued for a client.
ReadsInv == \/ None
            \/ \E r \in Read : r.of \in Clients /\ reads = SetToBag({r})

\* Until somebody may be served nobody is, and a server that is not closed
\* keeps its listening socket, so that no acceptor stops of itself.
QuietInv ==
    /\ Starting => client = NoClient
    /\ server /\ listening \notin {"no", "queued"} => s # "zero"

\* The client that a server has which is not closed: the one whose acceptor is
\* done, or whose read is under way.
ServedInv == Idle /\ server =>
    /\ acceptors["done"] > 0 => client \in Clients \cup {Failed}
    /\ \A r \in BagToSet(reads) : client = r.of

TurnInv == /\ Turns <= 1 /\ ReadsInv /\ QuietInv /\ ServedInv
           /\ OneAcceptor /\ HeldIsKnown /\ ReadIsCurrent

ServerInv == TypeOK /\ TurnInv

-----------------------------------------------------------------------------
(* Who has the turn.                                                       *)

\* The fields of the acceptors' count, and the sockets.
LEMMA Fields ==
  ASSUME TypeOK
  PROVE  /\ acceptors \in [Stages -> Nat] /\ ticks \in Nat
         /\ acceptors["waiting"] \in Nat /\ acceptors["selected"] \in Nat
         /\ acceptors["done"] \in Nat
         /\ client \in Clients \cup {NoClient, Failed} /\ held \subseteq Clients
         /\ NoClient \notin Clients /\ Failed \notin Clients /\ NoClient # Failed
         /\ server \in BOOLEAN
  BY SocketAssumption DEF TypeOK, Stages

\* A read has it.
LEMMA ReadTurn ==
  ASSUME ServerInv, NEW r \in BagToSet(reads)
  PROVE  /\ reads = SetToBag({r}) /\ r \in Read /\ r.of \in Clients
         /\ ~None /\ ~Starting
         /\ acceptors["waiting"] = 0 /\ acceptors["selected"] = 0 /\ acceptors["done"] = 0
         /\ ticks = 0
  <1>1. ~None
    BY OneInBag DEF None
  <1>2. PICK q \in Read : q.of \in Clients /\ reads = SetToBag({q})
    BY <1>1 DEF ServerInv, TurnInv, ReadsInv
  <1>3. BagToSet(SetToBag({q})) = {q}
    BY OneInBag
  <1>4. q = r
    BY <1>2, <1>3
  <1>5. /\ ~Starting /\ ticks = 0
        /\ acceptors["waiting"] = 0 /\ acceptors["selected"] = 0 /\ acceptors["done"] = 0
    BY <1>1, Fields DEF ServerInv, TurnInv, Turns, Accepting
  <1> QED
    BY <1>1, <1>2, <1>4, <1>5

\* A call of read() has it.
LEMMA TickTurn ==
  ASSUME ServerInv, ticks > 0
  PROVE  /\ None /\ ~Starting /\ ticks = 1
         /\ acceptors["waiting"] = 0 /\ acceptors["selected"] = 0 /\ acceptors["done"] = 0
  BY Fields DEF ServerInv, TurnInv, Turns, Accepting

\* An acceptor has it.
LEMMA AcceptorTurn ==
  ASSUME ServerInv, acceptors["waiting"] + acceptors["selected"] + acceptors["done"] > 0
  PROVE  /\ None /\ ~Starting /\ ticks = 0
         /\ acceptors["waiting"] + acceptors["selected"] + acceptors["done"] = 1
         /\ reads = EmptyBag
  BY Fields DEF ServerInv, TurnInv, Turns, Accepting, None

\* EIO_Listen or its callback has it.
LEMMA StartTurn ==
  ASSUME ServerInv, Starting
  PROVE  /\ None /\ reads = EmptyBag /\ ticks = 0 /\ client = NoClient
         /\ acceptors["waiting"] = 0 /\ acceptors["selected"] = 0 /\ acceptors["done"] = 0
  BY Fields DEF ServerInv, TurnInv, Turns, Accepting, None, QuietInv

\* The read goes on, for the same client.
LEMMA ReadProceeds ==
  ASSUME ServerInv, NEW r \in BagToSet(reads),
         NEW stage \in {"queued", "selecting", "selected", "socket", "pipe", "stdin"} \cup Results,
         NEW set \in SUBSET {"socket", "pipe"},
         Proceed(r, stage, set),
         UNCHANGED <<server, closing, ticks, listening, acceptors, client, held, s>>
  PROVE  TurnInv' /\ IsABag(reads') /\ BagToSet(reads') \subseteq Read
  <1> DEFINE q == [r EXCEPT !.stage = stage, !.set = set]
  <1>1. /\ reads = SetToBag({r}) /\ r \in Read /\ r.of \in Clients /\ ~None
    BY ReadTurn
  <1>2. q \in Read /\ q.of = r.of
    BY <1>1 DEF Read
  <1>3. reads' = SetToBag({q})
    BY <1>1, OneInBag DEF Proceed
  <1> HIDE DEF q
  <1>4. ~None' /\ BagToSet(reads') = {q} /\ IsABag(reads')
    BY <1>3, OneInBag DEF None
  <1>5. Turns' <= 1 /\ QuietInv' /\ OneAcceptor' /\ HeldIsKnown'
    BY <1>1, <1>4 DEF ServerInv, TurnInv, Turns, Starting, Accepting, QuietInv, OneAcceptor, HeldIsKnown
  <1>6. ReadsInv'
    BY <1>1, <1>2, <1>3 DEF ReadsInv
  <1>7. ServedInv' /\ ReadIsCurrent'
    BY <1>1, <1>2, <1>4 DEF ServerInv, TurnInv, ServedInv, ReadIsCurrent, Idle
  <1> QED
    BY <1>2, <1>4, <1>5, <1>6, <1>7 DEF TurnInv

-----------------------------------------------------------------------------
(* Every step keeps the turns.                                             *)

TurnKept == TurnInv' /\ IsABag(reads') /\ BagToSet(reads') \subseteq Read

\* Everything that the invariant is about stays.
LEMMA TurnsSame ==
  ASSUME ServerInv,
         UNCHANGED <<server, closing, ticks, listening, acceptors, reads, client, held, s>>
  PROVE  TurnKept
  BY DEF ServerInv, TypeOK, TurnKept, TurnInv, Turns, Starting, Accepting, None, ReadsInv,
         QuietInv, ServedInv, Idle, OneAcceptor, HeldIsKnown, ReadIsCurrent

\* Nobody gets the turn or loses it.
LEMMA SameTurn ==
  ASSUME ServerInv, UNCHANGED <<ticks, listening, acceptors, reads>>
  PROVE  Turns' <= 1 /\ ReadsInv' /\ IsABag(reads') /\ BagToSet(reads') \subseteq Read
  BY DEF ServerInv, TypeOK, TurnInv, Turns, Starting, Accepting, None, ReadsInv

\* The user's calls and the steps of close().
LEMMA CallStep == ServerInv /\ (Calls \/ Closing) => TurnKept
  <1> SUFFICES ASSUME ServerInv, Calls \/ Closing PROVE TurnKept
    OBVIOUS
  <1> USE DEF jsVars, socketVars, threadVars, peerVars
  <1>types. TypeOK /\ TurnInv
    BY DEF ServerInv
  <1>1. CASE Listen
    <2>1. Starting
      BY <1>1 DEF Listen, Starting
    <2>2. /\ server' = TRUE /\ listening' = "queued"
          /\ UNCHANGED <<closing, ticks, acceptors, reads, client, held, s>>
      BY <1>1 DEF Listen
    <2>3. /\ reads = EmptyBag /\ ticks = 0 /\ client = NoClient
          /\ acceptors["waiting"] = 0 /\ acceptors["selected"] = 0 /\ acceptors["done"] = 0
      BY <2>1, StartTurn
    <2>4. None' /\ BagToSet(reads') = {} /\ IsABag(reads')
      BY <2>2, <2>3, OneInBag DEF None
    <2>5. Turns' <= 1
      BY <2>2, <2>3, <2>4 DEF Turns, Accepting, Starting, None
    <2>6. QuietInv' /\ HeldIsKnown'
      BY <2>2, <2>3, <1>types DEF TurnInv, QuietInv, HeldIsKnown
    <2>7. ServedInv' /\ ReadIsCurrent' /\ OneAcceptor'
      BY <2>2, <2>3, <2>4 DEF ServedInv, ReadIsCurrent, OneAcceptor
    <2> QED
      BY <2>4, <2>5, <2>6, <2>7 DEF TurnKept, TurnInv, ReadsInv
  <1>2. CASE DisconnectClient
    BY <1>2, TurnsSame DEF DisconnectClient
  <1>3. CASE Close \/ ClosePipe \/ CloseSocket \/ CloseReturns
    <2>1. /\ UNCHANGED <<ticks, listening, acceptors, reads, client, held>>
          /\ \/ closing' # "no" /\ UNCHANGED server
             \/ server' = FALSE
          /\ s' = "zero" /\ s # "zero" => server' = FALSE
      BY <1>3 DEF Close, ClosePipe, CloseSocket, CloseReturns
    <2>2. QuietInv' /\ ServedInv'
      BY <2>1, <1>types DEF TurnInv, QuietInv, Starting, ServedInv, Idle
    <2>3. OneAcceptor' /\ HeldIsKnown' /\ ReadIsCurrent'
      BY <2>1, <1>types DEF TurnInv, Idle, OneAcceptor, HeldIsKnown, ReadIsCurrent
    <2> QED
      BY <2>1, <2>2, <2>3, SameTurn DEF TurnKept, TurnInv
  <1>4. CASE CloseClient
    <2>1. /\ UNCHANGED <<server, ticks, listening, acceptors, reads, s>>
          /\ closing' # "no"
          /\ client' = NoClient /\ held' = held \ {client}
      BY <1>4 DEF CloseClient, CloseClientSocket
    <2>2. QuietInv' /\ ServedInv' /\ OneAcceptor' /\ HeldIsKnown' /\ ReadIsCurrent'
      BY <2>1, <1>types
         DEF TurnInv, QuietInv, Starting, ServedInv, Idle, OneAcceptor, HeldIsKnown, ReadIsCurrent
    <2> QED
      BY <2>1, <2>2, SameTurn DEF TurnKept, TurnInv
  <1> QED
    BY <1>1, <1>2, <1>3, <1>4 DEF Calls, Closing

\* The callbacks of EIO_Listen and of the acceptor, and the call of read().
LEMMA LoopStep ==
  ServerInv /\ (AfterListen \/ NobodyAccepted \/ Accepted \/ RunTick) => TurnKept
  <1> SUFFICES ASSUME ServerInv, AfterListen \/ NobodyAccepted \/ Accepted \/ RunTick
               PROVE  TurnKept
    OBVIOUS
  <1> USE DEF jsVars, socketVars, threadVars, peerVars
  <1>types. TypeOK /\ TurnInv
    BY DEF ServerInv
  <1>1. CASE AfterListen
    <2>1. Starting
      BY <1>1 DEF AfterListen, Starting
    <2>2. /\ UNCHANGED <<server, closing, ticks, reads, client, held, s>>
          /\ listening' \in {"over", "failed"} /\ listening \in {"bound", "refused"}
          /\ \/ UNCHANGED acceptors
             \/ acceptors' = [acceptors EXCEPT !["waiting"] = @ + 1]
      BY <1>1 DEF AfterListen, AdvertiseAndAccept
    <2>3. /\ acceptors'["waiting"] \in {0, 1}
          /\ acceptors'["selected"] = 0 /\ acceptors'["done"] = 0
      BY <2>1, <2>2, <1>types, StartTurn, Fields DEF Stages
    <2> QED
      BY <2>1, <2>2, <2>3, <1>types, StartTurn, OneInBag
         DEF TypeOK, TurnKept, TurnInv, Turns, Starting, Accepting, None, ReadsInv,
             QuietInv, ServedInv, Idle, OneAcceptor, HeldIsKnown, ReadIsCurrent
  <1>2. CASE NobodyAccepted \/ Accepted
    <2>1. /\ UNCHANGED <<server, closing, listening, reads, client, held, s>>
          /\ acceptors["done"] > 0 /\ closing = "no"
          /\ acceptors' = [acceptors EXCEPT !["done"] = @ - 1]
          /\ ticks' = ticks \/ (ticks' = ticks + 1 /\ client # Failed)
      <3>1. CASE NobodyAccepted
        BY <3>1 DEF NobodyAccepted, AtRest, Idle
      <3>2. CASE Accepted
        BY <3>2 DEF Accepted, AtRest, Idle
      <3> QED
        BY <1>2, <3>1, <3>2
    <2>2. /\ acceptors["waiting"] = 0 /\ acceptors["selected"] = 0 /\ acceptors["done"] = 1
          /\ ticks = 0 /\ reads = EmptyBag /\ ~Starting
      <3>1. acceptors["waiting"] + acceptors["selected"] + acceptors["done"] > 0
        BY <2>1, <1>types, Fields
      <3>2. acceptors["waiting"] + acceptors["selected"] + acceptors["done"] = 1
        BY <3>1, AcceptorTurn
      <3>3. acceptors["waiting"] = 0 /\ acceptors["selected"] = 0 /\ acceptors["done"] = 1
        BY <2>1, <3>2, <1>types, Fields
      <3> QED
        BY <3>1, <3>3, AcceptorTurn
    <2>3. acceptors'["waiting"] = 0 /\ acceptors'["selected"] = 0 /\ acceptors'["done"] = 0
      BY <2>1, <2>2, <1>types, Fields DEF Stages
    <2>4. ticks' > 0 /\ server => client \in Clients
      BY <2>1, <2>2, <1>types DEF TurnInv, ServedInv, Idle
    <2>5. None' /\ BagToSet(reads') = {} /\ IsABag(reads')
      BY <2>1, <2>2, OneInBag DEF None
    <2>6. ~Starting' /\ (ticks' = 0 \/ ticks' = 1)
      BY <2>1, <2>2 DEF Starting
    <2>7. Turns' <= 1
      BY <2>3, <2>5, <2>6 DEF Turns, Accepting, Starting, None
    <2>8. QuietInv' /\ HeldIsKnown'
      BY <2>1, <2>6, <1>types DEF TurnInv, QuietInv, HeldIsKnown
    <2>9. ServedInv' /\ ReadIsCurrent' /\ OneAcceptor'
      BY <2>1, <2>3, <2>4, <2>5 DEF ServedInv, ReadIsCurrent, OneAcceptor, Idle
    <2> QED
      BY <2>5, <2>7, <2>8, <2>9 DEF TurnKept, TurnInv, ReadsInv
  <1>3. CASE RunTick
    <2>1. /\ UNCHANGED <<server, closing, listening, acceptors, client, held, s>>
          /\ ticks > 0 /\ ticks' = ticks - 1 /\ closing = "no"
      BY <1>3 DEF RunTick, Idle
    <2>2. /\ None /\ ~Starting /\ ticks = 1
          /\ acceptors["waiting"] = 0 /\ acceptors["selected"] = 0 /\ acceptors["done"] = 0
      BY <2>1, TickTurn
    <2>3. CASE server /\ client # NoClient
      <3> DEFINE r == [stage |-> "queued", of |-> client, set |-> {}]
      <3>1. client \in Clients
        BY <2>1, <2>3, <1>types DEF TurnInv, ReadIsCurrent, Idle
      <3>2. r \in Read /\ r.of = client
        BY <3>1 DEF Read
      <3>3. reads' = SetToBag({r})
        BY <1>3, <2>2, <2>3, OneInBag DEF RunTick, None
      <3> HIDE DEF r
      <3>4. BagToSet(reads') = {r} /\ IsABag(reads')
        BY <3>3, OneInBag
      <3>5. Turns' <= 1 /\ QuietInv' /\ OneAcceptor' /\ HeldIsKnown'
        BY <2>1, <2>2, <1>types, Fields
           DEF TurnInv, Turns, Starting, Accepting, QuietInv, OneAcceptor, HeldIsKnown
      <3>6. ReadsInv'
        BY <3>1, <3>2, <3>3 DEF ReadsInv
      <3>7. ServedInv' /\ ReadIsCurrent'
        BY <2>1, <2>2, <3>2, <3>4 DEF ServedInv, ReadIsCurrent, Idle
      <3> QED
        BY <3>2, <3>4, <3>5, <3>6, <3>7 DEF TurnKept, TurnInv
    <2>4. CASE ~(server /\ client # NoClient)
      <3>1. reads' = reads
        BY <1>3, <2>4 DEF RunTick
      <3> QED
        BY <2>1, <2>2, <3>1, <1>types, OneInBag
           DEF TypeOK, TurnKept, TurnInv, Turns, Starting, Accepting, None, ReadsInv,
               QuietInv, ServedInv, Idle, OneAcceptor, HeldIsKnown, ReadIsCurrent
    <2> QED
      BY <2>3, <2>4
  <1> QED
    BY <1>1, <1>2, <1>3

\* EIO_AfterRead.
LEMMA AfterReadStep ==
  ASSUME ServerInv, NEW r \in BagToSet(reads),
         AfterReadData(r) \/ AfterReadEnds(r) \/ AfterReadSilent(r)
  PROVE  TurnKept
  <1> USE DEF jsVars, socketVars, threadVars, peerVars
  <1>types. TypeOK /\ TurnInv
    BY DEF ServerInv
  <1>1. /\ reads = SetToBag({r}) /\ r.of \in Clients /\ ~Starting
        /\ acceptors["waiting"] = 0 /\ acceptors["selected"] = 0 /\ acceptors["done"] = 0
        /\ ticks = 0
    BY ReadTurn
  <1>2. /\ reads' = EmptyBag /\ closing = "no"
        /\ UNCHANGED <<server, closing, listening, s>>
    BY <1>1, OneInBag DEF AfterReadData, AfterReadEnds, AfterReadSilent, Leave, AtRest, Idle
  <1>3. None' /\ BagToSet(reads') = {} /\ IsABag(reads')
    BY <1>2, OneInBag DEF None
  <1>4. CASE AfterReadData(r) \/ AfterReadSilent(r)
    <2>1. UNCHANGED <<acceptors, client, held>> /\ ticks' \in {0, 1}
      BY <1>1, <1>4 DEF AfterReadData, AfterReadSilent
    <2>2. server => client = r.of
      BY <1>2, <1>types DEF TurnInv, ServedInv, Idle
    <2> QED
      BY <1>1, <1>2, <1>3, <2>1, <2>2, <1>types
         DEF TurnKept, TurnInv, Turns, Starting, Accepting, ReadsInv,
             QuietInv, ServedInv, Idle, OneAcceptor, HeldIsKnown, ReadIsCurrent
  <1>5. CASE AfterReadEnds(r)
    <2>1. /\ client' = NoClient /\ held' = held \ {client} /\ ticks' = ticks
          /\ \/ UNCHANGED acceptors
             \/ acceptors' = [acceptors EXCEPT !["waiting"] = @ + 1]
      BY <1>5 DEF AfterReadEnds, CloseClientSocket, AdvertiseAndAccept
    <2>2. /\ acceptors'["waiting"] \in {0, 1}
          /\ acceptors'["selected"] = 0 /\ acceptors'["done"] = 0
      BY <1>1, <2>1, <1>types, Fields DEF Stages
    <2> QED
      BY <1>1, <1>2, <1>3, <2>1, <2>2, <1>types
         DEF TurnKept, TurnInv, Turns, Starting, Accepting, ReadsInv,
             QuietInv, ServedInv, Idle, OneAcceptor, HeldIsKnown, ReadIsCurrent
  <1> QED
    BY <1>4, <1>5

\* EIO_Listen and the acceptor.
LEMMA AcceptorStep == ServerInv /\ (EIO_Listen \/ Acceptor) => TurnKept
  <1> SUFFICES ASSUME ServerInv, EIO_Listen \/ Acceptor PROVE TurnKept
    OBVIOUS
  <1> USE DEF jsVars, socketVars, threadVars, peerVars
  <1>types. TypeOK /\ TurnInv
    BY DEF ServerInv
  <1>1. CASE EIO_Listen
    <2>1. /\ Starting /\ s' = "open"
          /\ Starting'
          /\ UNCHANGED <<server, closing, ticks, acceptors, reads, client, held>>
      BY <1>1 DEF EIO_Listen, Starting
    <2>2. Turns' <= 1
      BY <2>1, <1>types DEF TurnInv, Turns, Accepting, None
    <2>3. QuietInv' /\ ServedInv' /\ OneAcceptor' /\ HeldIsKnown' /\ ReadIsCurrent'
      BY <2>1, <1>types
         DEF TurnInv, QuietInv, ServedInv, Idle, OneAcceptor, HeldIsKnown, ReadIsCurrent
    <2> QED
      BY <2>1, <2>2, <2>3, <1>types DEF TypeOK, TurnKept, TurnInv, ReadsInv, None
  <1>2. CASE AcceptorThrows
    <2>1. /\ closing' # "no"
          /\ UNCHANGED <<server, ticks, listening, acceptors, reads, client, held, s>>
      BY <1>2 DEF AcceptorThrows
    <2>2. QuietInv' /\ ServedInv' /\ OneAcceptor' /\ HeldIsKnown' /\ ReadIsCurrent'
      BY <2>1, <1>types
         DEF TurnInv, QuietInv, Starting, ServedInv, Idle, OneAcceptor, HeldIsKnown, ReadIsCurrent
    <2> QED
      BY <2>1, <2>2, SameTurn DEF TurnKept, TurnInv
  <1>3. ASSUME NEW from \in {"waiting", "selected"}, NEW to \in {"selected", "done"},
               from # to, Moves(from, to),
               UNCHANGED <<server, closing, ticks, listening, reads, s>>
        PROVE  /\ Turns' <= 1 /\ ReadsInv' /\ IsABag(reads') /\ BagToSet(reads') = {} /\ ticks' = 0
               /\ ~Starting' /\ held = {} /\ client \in {NoClient, Failed}
               /\ acceptors'["waiting"] = 0
               /\ acceptors'["selected"] = (IF to = "selected" THEN 1 ELSE 0)
               /\ acceptors'["done"] = (IF to = "done" THEN 1 ELSE 0)
    <2>1. acceptors[from] > 0 /\ acceptors' = [acceptors EXCEPT ![from] = @ - 1, ![to] = @ + 1]
      BY <1>3 DEF Moves
    <2>2. acceptors["waiting"] + acceptors["selected"] + acceptors["done"] > 0
      BY <2>1, <1>types, Fields
    <2>3. /\ ~Starting /\ ticks = 0 /\ reads = EmptyBag
          /\ acceptors["waiting"] + acceptors["selected"] + acceptors["done"] = 1
      BY <2>2, AcceptorTurn
    <2>4. acceptors'["waiting"] = 0
      BY <2>1, <2>3, <1>types, Fields DEF Stages
    <2>5. acceptors'["selected"] = (IF to = "selected" THEN 1 ELSE 0)
      BY <2>1, <2>3, <1>types, Fields DEF Stages
    <2>6. acceptors'["done"] = (IF to = "done" THEN 1 ELSE 0)
      BY <2>1, <2>3, <1>types, Fields DEF Stages
    <2>7. client \in {NoClient, Failed} /\ held = {}
      BY <2>1, <1>types, Fields DEF TurnInv, OneAcceptor, HeldIsKnown
    <2>8. None' /\ BagToSet(reads') = {} /\ IsABag(reads')
      BY <1>3, <2>3, OneInBag DEF None
    <2>9. ~Starting' /\ ticks' = 0
      BY <1>3, <2>3 DEF Starting
    <2>10. Turns' <= 1
      BY <2>4, <2>5, <2>6, <2>8, <2>9 DEF Turns, Accepting, Starting, None
    <2> QED
      BY <2>4, <2>5, <2>6, <2>7, <2>8, <2>9, <2>10 DEF ReadsInv
  <1>4. CASE AcceptorSelects
    <2>1. /\ Moves("waiting", "selected")
          /\ UNCHANGED <<server, closing, ticks, listening, reads, s, client, held>>
      BY <1>4 DEF AcceptorSelects
    <2>2. QuietInv'
      BY <2>1, <1>types DEF TurnInv, QuietInv, Starting
    <2> QED
      BY <1>3, <2>1, <2>2
         DEF TurnKept, TurnInv, ServedInv, Idle, OneAcceptor, HeldIsKnown, ReadIsCurrent
  <1>5. CASE AcceptorStops
    <2>1. PICK from \in {"waiting", "selected"} : Moves(from, "done")
      BY <1>5 DEF AcceptorStops
    <2>2. /\ s = "zero"
          /\ UNCHANGED <<server, closing, ticks, listening, reads, s, client, held>>
      BY <1>5 DEF AcceptorStops
    <2>3. QuietInv'
      BY <2>2, <1>types DEF TurnInv, QuietInv, Starting
    <2>4. ~Starting'
      BY <1>3, <2>1, <2>2
    <2>5. ~server
      BY <2>2, <2>4, <1>types DEF TurnInv, QuietInv, Starting
    <2> QED
      BY <1>3, <2>1, <2>2, <2>3, <2>5
         DEF TurnKept, TurnInv, ServedInv, Idle, OneAcceptor, HeldIsKnown, ReadIsCurrent
  <1>6. CASE AcceptorFails
    <2>1. /\ Moves("selected", "done") /\ client' = Failed
          /\ UNCHANGED <<server, closing, ticks, listening, reads, s, held>>
      BY <1>6 DEF AcceptorFails
    <2>2. QuietInv'
      BY <1>3, <2>1, <1>types DEF TurnInv, QuietInv, Starting
    <2> QED
      BY <1>3, <2>1, <2>2
         DEF TurnKept, TurnInv, ServedInv, Idle, OneAcceptor, HeldIsKnown, ReadIsCurrent
  <1>7. ASSUME NEW c \in Clients, AcceptorAccepts(c) PROVE TurnKept
    <2>1. /\ Moves("selected", "done") /\ client' = c /\ held' = held \cup {c}
          /\ UNCHANGED <<server, closing, ticks, listening, reads, s>>
      BY <1>7 DEF AcceptorAccepts
    <2>2. QuietInv'
      BY <1>3, <2>1, <1>types DEF TurnInv, QuietInv, Starting
    <2> QED
      BY <1>3, <2>1, <2>2
         DEF TurnKept, TurnInv, ServedInv, Idle, OneAcceptor, HeldIsKnown, ReadIsCurrent
  <1> QED
    BY <1>1, <1>2, <1>4, <1>5, <1>6, <1>7 DEF Acceptor

\* EIO_Read.
LEMMA ReadStep == ServerInv /\ EIO_Read => TurnKept
  <1> SUFFICES ASSUME ServerInv, NEW r \in BagToSet(reads),
                      \/ ReadBegins(r) \/ ReadSelects(r) \/ ReadLooks(r) \/ ReadTakes(r)
                      \/ ReadReturns(r) \/ ReadStrays(r) \/ ReadMessage(r) \/ ReadNoMessage(r)
               PROVE  TurnKept
    BY DEF EIO_Read
  <1> USE DEF jsVars, socketVars, peerVars
  <1>1. UNCHANGED <<server, closing, ticks, listening, acceptors, client, held, s>>
    BY DEF ReadBegins, ReadSelects, ReadLooks, ReadTakes, ReadReturns, ReadStrays,
           ReadMessage, ReadNoMessage
  <1>2. ASSUME NEW stage \in {"selecting", "selected", "socket", "pipe", "stdin"} \cup Results,
               NEW set \in SUBSET {"socket", "pipe"}, Proceed(r, stage, set)
        PROVE  TurnKept
    BY <1>1, <1>2, ReadProceeds DEF TurnKept
  <1>3. CASE ReadBegins(r)
    BY <1>2, <1>3 DEF ReadBegins
  <1>4. CASE ReadSelects(r)
    BY <1>2, <1>4 DEF ReadSelects
  <1>5. CASE ReadLooks(r)
    BY <1>2, <1>5 DEF ReadLooks, Found, Results, Ends
  <1>6. CASE ReadTakes(r) \/ ReadStrays(r) \/ ReadNoMessage(r)
    BY <1>2, <1>6 DEF ReadTakes, ReadStrays, ReadNoMessage, Results, Ends
  <1>7. CASE ReadReturns(r)
    BY <1>2, <1>7 DEF ReadReturns, Results, Ends
  <1>8. CASE ReadMessage(r)
    <2>1. pipe \in Seq({"close", "disconnect"}) /\ pipe # <<>> /\ Proceed(r, Head(pipe), {})
      BY <1>8 DEF ReadMessage, ServerInv, TypeOK
    <2>2. Head(pipe) \in {"close", "disconnect"}
      BY <2>1
    <2> QED
      BY <1>2, <2>1, <2>2 DEF Results, Ends
  <1> QED
    BY <1>3, <1>4, <1>5, <1>6, <1>7, <1>8

-----------------------------------------------------------------------------
(* Types.                                                                  *)

JsTypes == /\ server \in BOOLEAN /\ inDisconnect \in BOOLEAN
           /\ ticks \in Nat
           /\ closing \in {"no", "pipe", "client", "socket", "zero", "crashed"}
           /\ listening \in {"no", "queued", "bound", "over", "refused", "failed"}
           /\ acceptors \in [Stages -> Nat]
SocketTypes == /\ s \in {"zero", "open", "bad"} /\ rep \in BOOLEAN
               /\ pipe \in Seq({"close", "disconnect"})
               /\ client \in Clients \cup {NoClient, Failed}
               /\ sdp \in BOOLEAN
               /\ held \subseteq Clients
               /\ address \in Clients \cup {NoClient}
PeerTypes == /\ peer \in [Clients -> {"away", "knocking", "up", "eof", "reset", "broken"}]
             /\ sent \in [Clients -> 0..MaxData]
             /\ taken \in [Clients -> 0..MaxData]

LEMMA JsTypeStep == ServerInv /\ [Next]_vars => JsTypes'
  <1> SUFFICES ASSUME ServerInv, [Next]_vars PROVE JsTypes'
    OBVIOUS
  <1> USE DEF jsVars, socketVars, threadVars, peerVars
  <1>types. /\ JsTypes
            /\ acceptors["waiting"] \in Nat /\ acceptors["selected"] \in Nat
            /\ acceptors["done"] \in Nat
    BY Fields DEF ServerInv, TypeOK, JsTypes
  <1>1. CASE UNCHANGED <<server, inDisconnect, ticks, closing, listening, acceptors>>
    BY <1>1, <1>types DEF JsTypes
  <1>2. CASE Calls
    BY <1>2, <1>types DEF Calls, Listen, DisconnectClient, Close, JsTypes
  <1>3. CASE Closing
    BY <1>3, <1>types DEF Closing, ClosePipe, CloseClient, CloseSocket, CloseReturns, JsTypes
  <1>4. CASE AfterListen
    <2>1. /\ UNCHANGED jsVars /\ listening' \in {"over", "failed"}
          /\ UNCHANGED acceptors \/ acceptors' = [acceptors EXCEPT !["waiting"] = @ + 1]
      BY <1>4 DEF AfterListen, AdvertiseAndAccept
    <2> QED
      BY <2>1, <1>types DEF JsTypes, Stages
  <1>5. CASE NobodyAccepted \/ Accepted
    <2>1. /\ UNCHANGED <<server, inDisconnect, closing, listening>>
          /\ ticks' = ticks \/ ticks' = ticks + 1
          /\ acceptors["done"] > 0 /\ acceptors' = [acceptors EXCEPT !["done"] = @ - 1]
      BY <1>5 DEF NobodyAccepted, Accepted
    <2>2. acceptors["done"] - 1 \in Nat
      BY <2>1, <1>types
    <2> QED
      BY <2>1, <2>2, <1>types DEF JsTypes, Stages
  <1>6. CASE RunTick
    <2>1. inDisconnect' \in BOOLEAN
      BY <1>6, <1>types DEF RunTick, JsTypes
    <2>2. ticks' \in Nat
      BY <1>6, <1>types DEF RunTick, JsTypes
    <2>3. UNCHANGED <<server, closing, listening, acceptors>>
      BY <1>6 DEF RunTick
    <2> QED
      BY <2>1, <2>2, <2>3, <1>types DEF JsTypes
  <1>7. ASSUME NEW r \in BagToSet(reads),
               AfterReadData(r) \/ AfterReadEnds(r) \/ AfterReadSilent(r)
        PROVE  JsTypes'
    <2>1. /\ UNCHANGED <<server, closing, listening>>
          /\ ticks' = ticks \/ ticks' = ticks + 1
          /\ UNCHANGED acceptors \/ acceptors' = [acceptors EXCEPT !["waiting"] = @ + 1]
      BY <1>7 DEF AfterReadData, AfterReadEnds, AfterReadSilent, AdvertiseAndAccept
    <2>2. inDisconnect' \in BOOLEAN
      BY <1>7, <1>types DEF AfterReadData, AfterReadEnds, AfterReadSilent, JsTypes
    <2>3. ticks' \in Nat /\ acceptors' \in [Stages -> Nat]
      BY <2>1, <1>types DEF JsTypes, Stages
    <2> QED
      BY <2>1, <2>2, <2>3, <1>types DEF JsTypes
  <1>8. CASE EIO_Listen \/ AcceptorThrows
    BY <1>8, <1>types DEF EIO_Listen, AcceptorThrows, JsTypes
  <1>9. ASSUME NEW from \in {"waiting", "selected"}, NEW to \in {"selected", "done"},
               from # to, Moves(from, to)
        PROVE  acceptors' \in [Stages -> Nat]
    BY <1>9, <1>types DEF Moves, JsTypes, Stages
  <1>10. CASE AcceptorSelects \/ AcceptorFails \/ AcceptorStops \/ \E c \in Clients : AcceptorAccepts(c)
    <2>1. UNCHANGED <<server, inDisconnect, ticks, closing, listening>>
      BY <1>10 DEF AcceptorSelects, AcceptorFails, AcceptorStops, AcceptorAccepts
    <2>2. acceptors' \in [Stages -> Nat]
      BY <1>9, <1>10 DEF AcceptorSelects, AcceptorFails, AcceptorStops, AcceptorAccepts
    <2> QED
      BY <2>1, <2>2, <1>types DEF JsTypes
  <1>11. CASE EIO_Read
    BY <1>1, <1>11
       DEF EIO_Read, ReadBegins, ReadSelects, ReadLooks, ReadTakes, ReadReturns, ReadStrays,
           ReadMessage, ReadNoMessage
  <1>12. CASE Remote \/ UNCHANGED vars
    BY <1>1, <1>12 DEF Remote, Knocks, PeerSends, PeerEnds, vars
  <1> QED
    BY <1>2, <1>3, <1>4, <1>5, <1>6, <1>7, <1>8, <1>10, <1>11, <1>12 DEF Next, Loop, Acceptor

LEMMA SocketTypeStep == ServerInv /\ [Next]_vars => SocketTypes'
  <1> SUFFICES ASSUME ServerInv, [Next]_vars PROVE SocketTypes'
    OBVIOUS
  <1> USE DEF jsVars, socketVars, threadVars, peerVars
  <1>types. SocketTypes
    BY DEF ServerInv, TypeOK, SocketTypes
  <1>1. CASE UNCHANGED socketVars
    BY <1>1, <1>types DEF SocketTypes
  <1>2. \A m \in {"close", "disconnect"} : Append(pipe, m) \in Seq({"close", "disconnect"})
    BY <1>types DEF SocketTypes
  <1>3. <<>> \in Seq({"close", "disconnect"})
    OBVIOUS
  <1>4. CASE Calls
    BY <1>2, <1>4, <1>types DEF Calls, Listen, DisconnectClient, Close, SocketTypes
  <1>5. CASE Closing
    BY <1>3, <1>5, <1>types
       DEF Closing, ClosePipe, CloseClient, CloseClientSocket, CloseSocket, CloseReturns, SocketTypes
  <1>6. CASE AfterListen \/ NobodyAccepted \/ Accepted \/ RunTick
    BY <1>6, <1>types
       DEF AfterListen, AdvertiseAndAccept, NobodyAccepted, Accepted, RunTick, SocketTypes
  <1>7. ASSUME NEW r \in BagToSet(reads),
               AfterReadData(r) \/ AfterReadEnds(r) \/ AfterReadSilent(r)
        PROVE  SocketTypes'
    BY <1>7, <1>types
       DEF AfterReadData, AfterReadEnds, AfterReadSilent, AdvertiseAndAccept, CloseClientSocket,
           SocketTypes
  <1>8. CASE EIO_Listen \/ Acceptor
    BY <1>8, <1>types
       DEF EIO_Listen, Acceptor, AcceptorSelects, AcceptorThrows, AcceptorStops, AcceptorFails,
           AcceptorAccepts, SocketTypes
  <1>9. ASSUME NEW r \in BagToSet(reads),
               \/ ReadBegins(r) \/ ReadSelects(r) \/ ReadLooks(r) \/ ReadTakes(r)
               \/ ReadReturns(r) \/ ReadStrays(r) \/ ReadNoMessage(r)
        PROVE  SocketTypes'
    BY <1>1, <1>9
       DEF ReadBegins, ReadSelects, ReadLooks, ReadTakes, ReadReturns, ReadStrays, ReadNoMessage
  <1>10. ASSUME NEW r \in BagToSet(reads), ReadMessage(r) PROVE SocketTypes'
    BY <1>3, <1>10, <1>types DEF ReadMessage, SocketTypes
  <1>11. CASE Remote \/ UNCHANGED vars
    BY <1>1, <1>11 DEF Remote, Knocks, PeerSends, PeerEnds, vars
  <1> QED
    BY <1>4, <1>5, <1>6, <1>7, <1>8, <1>9, <1>10, <1>11 DEF Next, Loop, EIO_Read

LEMMA PeerTypeStep == ServerInv /\ [Next]_vars => PeerTypes'
  <1> SUFFICES ASSUME ServerInv, [Next]_vars PROVE PeerTypes'
    OBVIOUS
  <1> USE DEF jsVars, socketVars, threadVars, peerVars
  <1>types. PeerTypes /\ MaxData \in Nat
    BY BoundAssumption DEF ServerInv, TypeOK, PeerTypes
  <1>1. CASE UNCHANGED peerVars
    BY <1>1, <1>types DEF PeerTypes
  <1>2. CASE Calls \/ Closing
    BY <1>1, <1>2
       DEF Calls, Closing, Listen, DisconnectClient, Close, ClosePipe, CloseClient, CloseSocket,
           CloseReturns
  <1>3. CASE Loop \/ EIO_Listen
    BY <1>1, <1>3
       DEF Loop, AfterListen, NobodyAccepted, Accepted, RunTick, AfterReadData, AfterReadEnds,
           AfterReadSilent, EIO_Listen
  <1>4. CASE Acceptor
    BY <1>1, <1>4, <1>types
       DEF Acceptor, AcceptorSelects, AcceptorThrows, AcceptorStops, AcceptorFails,
           AcceptorAccepts, PeerTypes
  <1>5. ASSUME NEW r \in BagToSet(reads), ReadTakes(r) PROVE PeerTypes'
    <2>1. r.of \in Clients
      BY ReadTurn
    <2>2. /\ taken[r.of] < sent[r.of] /\ taken' = [taken EXCEPT ![r.of] = @ + 1]
          /\ UNCHANGED <<peer, sent>>
      BY <1>5 DEF ReadTakes
    <2>3. taken[r.of] + 1 \in 0..MaxData
      BY <2>1, <2>2, <1>types DEF PeerTypes
    <2> QED
      BY <2>2, <2>3, <1>types DEF PeerTypes
  <1>6. ASSUME NEW r \in BagToSet(reads),
               \/ ReadBegins(r) \/ ReadSelects(r) \/ ReadLooks(r) \/ ReadReturns(r)
               \/ ReadStrays(r) \/ ReadMessage(r) \/ ReadNoMessage(r)
        PROVE  PeerTypes'
    BY <1>1, <1>6
       DEF ReadBegins, ReadSelects, ReadLooks, ReadReturns, ReadStrays, ReadMessage, ReadNoMessage
  <1>7. ASSUME NEW c \in Clients, Knocks(c) \/ PeerSends(c) \/ PeerEnds(c) PROVE PeerTypes'
    BY <1>7, <1>types DEF Knocks, PeerSends, PeerEnds, PeerTypes
  <1>8. CASE UNCHANGED vars
    BY <1>1, <1>8 DEF vars
  <1> QED
    BY <1>2, <1>3, <1>4, <1>5, <1>6, <1>7, <1>8 DEF Next, EIO_Read, Remote

-----------------------------------------------------------------------------
(* The theorems.                                                           *)

LEMMA ServerInit == Init => ServerInv
  <1> SUFFICES ASSUME Init PROVE ServerInv
    OBVIOUS
  <1> USE DEF Init
  <1>1. None /\ BagToSet(reads) = {} /\ IsABag(reads)
    BY OneInBag DEF None
  <1>2. TypeOK
    <2>1. acceptors \in [Stages -> Nat] /\ pipe \in Seq({"close", "disconnect"})
      OBVIOUS
    <2>2. sent \in [Clients -> 0..MaxData] /\ taken \in [Clients -> 0..MaxData]
      BY BoundAssumption
    <2> QED
      BY <1>1, <2>1, <2>2 DEF TypeOK
  <1>3. /\ acceptors["waiting"] = 0 /\ acceptors["selected"] = 0 /\ acceptors["done"] = 0
        /\ Starting
    BY DEF Stages, Starting
  <1>4. Turns <= 1
    BY <1>1, <1>3 DEF Turns, Accepting
  <1>5. QuietInv /\ ServedInv /\ OneAcceptor /\ HeldIsKnown /\ ReadIsCurrent
    BY <1>1, <1>3 DEF QuietInv, ServedInv, OneAcceptor, HeldIsKnown, ReadIsCurrent
  <1> QED
    BY <1>1, <1>2, <1>4, <1>5 DEF ServerInv, TurnInv, ReadsInv

LEMMA ServerStep == ServerInv /\ [Next]_vars => ServerInv'
  <1> SUFFICES ASSUME ServerInv, [Next]_vars PROVE ServerInv'
    OBVIOUS
  <1>1. ASSUME Remote \/ UNCHANGED vars PROVE TurnKept
    <2>1. UNCHANGED <<server, closing, ticks, listening, acceptors, reads, client, held, s>>
      BY <1>1 DEF Remote, Knocks, PeerSends, PeerEnds, vars, jsVars, socketVars, threadVars
    <2> QED
      BY <2>1, TurnsSame
  <1>2. ASSUME Loop PROVE TurnKept
    BY <1>2, LoopStep, AfterReadStep DEF Loop
  <1>3. TurnKept
    BY <1>1, <1>2, CallStep, AcceptorStep, ReadStep DEF Next
  <1>4. JsTypes' /\ SocketTypes' /\ PeerTypes'
    BY JsTypeStep, SocketTypeStep, PeerTypeStep
  <1>5. TypeOK'
    BY <1>3, <1>4 DEF TurnKept, TypeOK, JsTypes, SocketTypes, PeerTypes
  <1> QED
    BY <1>3, <1>5 DEF TurnKept, ServerInv

\* The invariant holds of every use of a server: whatever its user calls from
\* whichever callback, and whatever runs between the steps of close().
LEMMA ServerInvariant == Spec => []ServerInv
  BY ServerInit, ServerStep, PTL DEF Spec

\* Every variable keeps its type.
THEOREM ServerTypes == Spec => []TypeOK
  BY ServerInvariant, PTL DEF ServerInv

\* Two reads never compete for a client's bytes or the messages in the pipe.
THEOREM ServerReader == Spec => []OneReader
  <1>1. ServerInv => OneReader
    <2> SUFFICES ASSUME ServerInv PROVE BagCardinality(reads) + ticks <= 1
      BY DEF OneReader
    <2>1. CASE None
      <3>1. BagCardinality(reads) = 0
        BY <2>1, NoneCount DEF None
      <3>2. ticks <= 1
        BY <2>1, Fields DEF ServerInv, TurnInv, Turns, Accepting
      <3> QED
        BY <3>1, <3>2, Fields DEF ServerInv
    <2>2. CASE ~None
      <3>1. PICK r \in Read : reads = SetToBag({r})
        BY <2>2 DEF ServerInv, TurnInv, ReadsInv
      <3>2. BagCardinality(reads) = 1
        BY <3>1, OneCount
      <3>3. ticks = 0
        BY <3>1, OneInBag, ReadTurn
      <3> QED
        BY <3>2, <3>3
    <2> QED
      BY <2>1, <2>2
  <1> QED
    BY <1>1, ServerInvariant, PTL

\* Two acceptors never accept, and none accepts while a client is served.
THEOREM ServerAcceptor == Spec => []OneAcceptor
  BY ServerInvariant, PTL DEF ServerInv, TurnInv

\* No client's socket is lost: CloseClientSocket closes the one that is open.
THEOREM ServerHeld == Spec => []HeldIsKnown
  BY ServerInvariant, PTL DEF ServerInv, TurnInv

\* EIO_AfterRead never closes the socket of another client than it read from,
\* and read() finds the client it was called for.
THEOREM ServerReads == Spec => []ReadIsCurrent
  BY ServerInvariant, PTL DEF ServerInv, TurnInv

-----------------------------------------------------------------------------
(* Disciplined use: the events of ServerEvents form sessions.              *)

\* Who has the turn has it for the present session: until an acceptor is done
\* there is none, a read is for the session's client, and a server is closed
\* only while read() is pending.
SessionInv ==
    /\ Starting \/ Accepting + acceptors["done"] > 0
         => session = NoClient /\ Idle /\ (server \/ listening = "no")
    /\ acceptors["done"] > 0 /\ client # Failed
         => client \in Clients \ announced /\ address = client
    /\ ticks > 0 => session # NoClient /\ (Idle /\ server => session = client)
    /\ \A r \in BagToSet(reads) : /\ server /\ Idle
                                  /\ session = r.of
                                  /\ r.stage \notin {"stdin", "foreign"}
    /\ ~Idle => ticks > 0

\* Each chunk is taken from the socket once and delivered at most once, and
\* the clients that were announced were accepted.
DeliveryInv ==
    /\ \A c \in Clients : delivered[c] <= taken[c]
    /\ \A r \in BagToSet(reads) : r.stage = "data" => delivered[r.of] < taken[r.of]
    /\ \A c \in Clients : c \in announced \/ (acceptors["done"] > 0 /\ client = c)
                           => peer[c] \notin {"away", "knocking"}

EventTypes == /\ session \in Clients \cup {NoClient}
              /\ announced \subseteq Clients
              /\ delivered \in [Clients -> Nat]

CalmInv == ServerInv /\ EventTypes /\ SessionInv /\ DeliveryInv

\* Events restrict nothing: every step is one of Server.
LEMMA EventsAreServer == [CalmNext]_allVars => [Next]_vars
  BY DEF CalmNext, EventsNext, EmitAccepted, EmitData, EmitEnd, UserDisconnects, Silent,
         Next, Calls, Loop, allVars

\* The conjuncts of CalmInv that most steps use.
LEMMA CalmFacts ==
  ASSUME CalmInv
  PROVE  /\ ServerInv /\ EventTypes /\ SessionInv /\ DeliveryInv
         /\ TypeOK /\ TurnInv
  BY DEF CalmInv, ServerInv

\* The client of a read is the session's and still the server's.
LEMMA CalmRead ==
  ASSUME CalmInv, NEW r \in BagToSet(reads)
  PROVE  /\ server /\ Idle /\ r.of \in Clients /\ session = r.of /\ client = r.of
         /\ r.stage \notin {"stdin", "foreign"} /\ BagToSet(reads) = {r}
         /\ ~Starting /\ ticks = 0
         /\ acceptors["waiting"] = 0 /\ acceptors["selected"] = 0 /\ acceptors["done"] = 0
  BY ReadTurn, OneInBag, CalmFacts DEF SessionInv, TurnInv, ServedInv

EventsKept == EventTypes' /\ SessionInv' /\ DeliveryInv'

\* Steps that none of this is about.
LEMMA SameSession ==
  ASSUME CalmInv,
         UNCHANGED <<server, closing, ticks, listening, acceptors, reads, client, address>>,
         UNCHANGED <<peer, taken, session, announced, delivered>>
  PROVE  EventsKept
  BY CalmFacts DEF EventsKept, EventTypes, SessionInv, DeliveryInv, Starting, Accepting, Idle

\* A server is closed while read() is pending.
LEMMA CalmClose ==
  ASSUME CalmInv, CalmNext, Listen \/ Close \/ Closing, UNCHANGED eventVars
  PROVE  EventsKept
  <1> USE DEF jsVars, socketVars, threadVars, peerVars, eventVars
  <1>types. EventTypes /\ SessionInv /\ DeliveryInv /\ TypeOK
    BY CalmFacts
  <1>1. CASE Listen
    <2>1. Starting /\ Starting' /\ server' = TRUE
      BY <1>1 DEF Listen, Starting
    <2>2. UNCHANGED <<closing, ticks, acceptors, reads, client, address, peer, taken>>
      BY <1>1 DEF Listen
    <2>3. UNCHANGED <<session, announced, delivered>>
      OBVIOUS
    <2>4. /\ ticks = 0 /\ reads = EmptyBag /\ BagToSet(reads) = {}
          /\ acceptors["done"] = 0
      BY <2>1, StartTurn, OneInBag, CalmFacts
    <2>5. SessionInv'
      BY <2>1, <2>2, <2>3, <2>4, <1>types DEF SessionInv, Idle
    <2>6. EventTypes' /\ DeliveryInv'
      BY <2>2, <2>3, <1>types DEF EventTypes, DeliveryInv
    <2> QED
      BY <2>5, <2>6 DEF EventsKept
  <1>2. CASE Close \/ Closing
    <2>1. ticks > 0
      <3>1. CASE Close
        <4>1. closing = "no" /\ closing' = "pipe"
          BY <3>1 DEF Close, Idle
        <4> QED
          BY <4>1 DEF CalmNext, InHandler
      <3>2. CASE Closing
        <4>1. closing # "no"
          BY <3>2 DEF Closing, ClosePipe, CloseClient, CloseSocket, CloseReturns
        <4> QED
          BY <4>1, <1>types DEF SessionInv, Idle
      <3> QED
        BY <1>2, <3>1, <3>2
    <2>2. /\ UNCHANGED <<ticks, listening, acceptors, reads, address, peer, taken>>
          /\ UNCHANGED <<session, announced, delivered>>
          /\ closing' # "no" \/ server' = FALSE
      BY <1>2 DEF Close, Closing, ClosePipe, CloseClient, CloseSocket, CloseReturns
    <2>3. /\ None /\ ~Starting
          /\ acceptors["waiting"] = 0 /\ acceptors["selected"] = 0 /\ acceptors["done"] = 0
      BY <2>1, TickTurn, CalmFacts
    <2>4. BagToSet(reads) = {}
      BY <2>3, OneInBag DEF None
    <2>5. ~Starting'
      BY <2>2, <2>3 DEF Starting
    <2>6. SessionInv'
      BY <2>1, <2>2, <2>3, <2>4, <2>5, <1>types DEF SessionInv, Idle, Accepting
    <2>7. EventTypes' /\ DeliveryInv'
      BY <2>2, <2>3, <2>4, <1>types DEF EventTypes, DeliveryInv
    <2> QED
      BY <2>6, <2>7 DEF EventsKept
  <1> QED
    BY <1>1, <1>2

\* EIO_AfterListen, and accept(2) failed: nobody is announced.
LEMMA CalmLoop ==
  ASSUME CalmInv, AfterListen \/ NobodyAccepted \/ RunTick, UNCHANGED eventVars
  PROVE  EventsKept
  <1> USE DEF jsVars, socketVars, threadVars, peerVars, eventVars
  <1>types. EventTypes /\ SessionInv /\ DeliveryInv /\ TypeOK /\ TurnInv
    BY CalmFacts
  <1>events. UNCHANGED <<session, announced, delivered>>
    OBVIOUS
  <1>1. CASE AfterListen
    <2>1. Starting /\ listening # "no" /\ ~Starting' /\ listening' # "no"
      BY <1>1 DEF AfterListen, Starting
    <2>2. /\ UNCHANGED <<server, closing, ticks, reads, client, address, peer, taken>>
          /\ UNCHANGED acceptors \/ acceptors' = [acceptors EXCEPT !["waiting"] = @ + 1]
      BY <1>1 DEF AfterListen, AdvertiseAndAccept
    <2>3. /\ ticks = 0 /\ BagToSet(reads) = {} /\ acceptors["done"] = 0
          /\ acceptors'["done"] = 0
      BY <2>1, <2>2, StartTurn, OneInBag, CalmFacts, Fields DEF Stages
    <2>4. SessionInv'
      BY <2>1, <2>2, <2>3, <1>types, <1>events DEF SessionInv, Idle
    <2>5. EventTypes' /\ DeliveryInv'
      BY <2>2, <2>3, <1>types, <1>events DEF EventTypes, DeliveryInv
    <2> QED
      BY <2>4, <2>5 DEF EventsKept
  <1>2. CASE NobodyAccepted
    <2>1. /\ UNCHANGED <<server, closing, listening, ticks, reads, client, address, peer, taken>>
          /\ acceptors["done"] > 0
          /\ acceptors' = [acceptors EXCEPT !["done"] = @ - 1]
      BY <1>2 DEF NobodyAccepted
    <2>2. acceptors["waiting"] + acceptors["selected"] + acceptors["done"] > 0
      BY <2>1, <1>types, Fields
    <2>3. /\ ticks = 0 /\ ~Starting /\ reads = EmptyBag
          /\ acceptors["waiting"] + acceptors["selected"] + acceptors["done"] = 1
      BY <2>2, AcceptorTurn, CalmFacts
    <2>one. acceptors["waiting"] = 0 /\ acceptors["selected"] = 0 /\ acceptors["done"] = 1
      BY <2>1, <2>3, <1>types, Fields
    <2>4. acceptors'["waiting"] = 0 /\ acceptors'["selected"] = 0 /\ acceptors'["done"] = 0
      BY <2>1, <2>one, <1>types, Fields DEF Stages
    <2>5. ~Starting' /\ BagToSet(reads) = {}
      BY <2>1, <2>3, OneInBag DEF Starting
    <2>6. Idle
      BY <2>3, <1>types DEF SessionInv
    <2>7. SessionInv'
      BY <2>1, <2>3, <2>4, <2>5, <2>6, <1>events DEF SessionInv, Idle, Accepting
    <2>8. EventTypes' /\ DeliveryInv'
      BY <2>1, <2>4, <2>5, <1>types, <1>events DEF EventTypes, DeliveryInv
    <2> QED
      BY <2>7, <2>8 DEF EventsKept
  <1>3. CASE RunTick
    <2>1. /\ UNCHANGED <<server, closing, listening, acceptors, client, address, peer, taken>>
          /\ ticks > 0 /\ ticks' = ticks - 1 /\ Idle
      BY <1>3 DEF RunTick
    <2>2. /\ None /\ ~Starting /\ ticks = 1
          /\ acceptors["waiting"] = 0 /\ acceptors["selected"] = 0 /\ acceptors["done"] = 0
      BY <2>1, TickTurn, CalmFacts
    <2>3. ~Starting' /\ ticks' = 0 /\ Idle'
      BY <2>1, <2>2 DEF Starting, Idle
    <2>4. \A r \in BagToSet(reads') : /\ server /\ session = r.of
                                      /\ r.stage = "queued"
      <3>1. CASE server /\ client # NoClient
        <4> DEFINE r == [stage |-> "queued", of |-> client, set |-> {}]
        <4>1. BagToSet(reads') = {r}
          BY <1>3, <2>2, <3>1, OneInBag DEF RunTick, None
        <4>2. session = client
          BY <2>1, <3>1, <1>types DEF SessionInv
        <4> QED
          BY <3>1, <4>1, <4>2
      <3>2. CASE ~(server /\ client # NoClient)
        BY <1>3, <2>2, <3>2, OneInBag DEF RunTick, None
      <3> QED
        BY <3>1, <3>2
    <2>5. SessionInv'
      BY <2>1, <2>2, <2>3, <2>4, <1>events DEF SessionInv, Accepting
    <2>6. EventTypes' /\ DeliveryInv'
      BY <2>1, <2>2, <2>4, <1>types, <1>events DEF EventTypes, DeliveryInv
    <2> QED
      BY <2>5, <2>6 DEF EventsKept
  <1> QED
    BY <1>1, <1>2, <1>3

\* The callback of listen(): the client accepted was not announced before.
LEMMA CalmAccepted ==
  ASSUME CalmInv, EmitAccepted
  PROVE  EventsKept /\ Sessions!Announce
  <1> USE DEF jsVars, socketVars, threadVars, peerVars
  <1>types. EventTypes /\ SessionInv /\ DeliveryInv /\ TypeOK /\ TurnInv
    BY CalmFacts
  <1>1. /\ UNCHANGED <<server, closing, listening, reads, client, address, peer, taken>>
        /\ acceptors["done"] > 0 /\ client # Failed /\ Idle
        /\ acceptors' = [acceptors EXCEPT !["done"] = @ - 1]
        /\ ticks' = ticks + 1
        /\ session' = address /\ announced' = announced \cup ({address} \ {NoClient})
        /\ UNCHANGED <<delivered, ended>>
    BY DEF EmitAccepted, Accepted, AtRest
  <1>2. acceptors["waiting"] + acceptors["selected"] + acceptors["done"] > 0
    BY <1>1, <1>types, Fields
  <1>3. /\ ticks = 0 /\ ~Starting /\ reads = EmptyBag
        /\ acceptors["waiting"] + acceptors["selected"] + acceptors["done"] = 1
    BY <1>2, AcceptorTurn, CalmFacts
  <1>4. acceptors'["waiting"] = 0 /\ acceptors'["selected"] = 0 /\ acceptors'["done"] = 0
    BY <1>1, <1>3, <1>types, Fields DEF Stages
  <1>5. ~Starting' /\ BagToSet(reads) = {} /\ ticks' = 1
    <2>1. ~Starting' /\ BagToSet(reads) = {}
      BY <1>1, <1>3, OneInBag DEF Starting
    <2>2. ticks' = 1
      BY <1>1, <1>3
    <2> QED
      BY <2>1, <2>2
  <1>6. client \in Clients \ announced /\ address = client /\ session = NoClient
    BY <1>1, <1>2, <1>types, Fields DEF SessionInv, Accepting
  <1>7. client # NoClient /\ announced' = announced \cup {client} /\ session' = client
    BY <1>1, <1>6, SocketAssumption
  <1>8. SessionInv'
    BY <1>1, <1>4, <1>5, <1>6, <1>7 DEF SessionInv, Idle, Accepting
  <1>9. EventTypes' /\ DeliveryInv'
    BY <1>1, <1>4, <1>5, <1>6, <1>7, <1>types DEF EventTypes, DeliveryInv
  <1>10. Sessions!Announce
    BY <1>1, <1>6, <1>7 DEF Sessions!Announce
  <1> QED
    BY <1>8, <1>9, <1>10 DEF EventsKept

\* 'data': the read is the session's, and took a chunk not delivered yet.
LEMMA CalmData ==
  ASSUME CalmInv, NEW r \in BagToSet(reads), EmitData(r)
  PROVE  EventsKept /\ Sessions!Deliver
  <1> USE DEF jsVars, socketVars, threadVars, peerVars
  <1>types. EventTypes /\ SessionInv /\ DeliveryInv /\ TypeOK
    BY CalmFacts
  <1>1. /\ server /\ Idle /\ r.of \in Clients /\ session = r.of /\ client = r.of
        /\ r.stage \notin {"stdin", "foreign"} /\ BagToSet(reads) = {r}
        /\ ~Starting /\ ticks = 0
        /\ acceptors["waiting"] = 0 /\ acceptors["selected"] = 0 /\ acceptors["done"] = 0
    BY CalmRead
  <1>2. /\ r.stage = "data" /\ Leave(r) /\ ticks' = ticks + 1
        /\ UNCHANGED <<server, closing, client, address, listening, acceptors, peer, taken>>
        /\ UNCHANGED <<session, announced, ended>>
    BY <1>1 DEF EmitData, AfterReadData
  <1>3. BagToSet(reads') = {} /\ session # NoClient
    BY <1>1, <1>2, ReadTurn, OneInBag, CalmFacts, SocketAssumption DEF Leave
  <1>4. delivered' = [delivered EXCEPT ![session] = @ + 1]
    BY <1>3 DEF EmitData
  <1>5. delivered[session] < taken[session] /\ delivered[session] \in Nat
        /\ taken[session] \in 0..MaxData /\ MaxData \in Nat
    BY <1>1, <1>2, <1>types, BoundAssumption DEF DeliveryInv, EventTypes, TypeOK
  <1>6. delivered[session] < MaxData
    BY <1>5
  <1>7. SessionInv'
    BY <1>1, <1>2, <1>3 DEF SessionInv, Idle, Starting, Accepting
  <1>8. EventTypes' /\ DeliveryInv'
    BY <1>1, <1>2, <1>3, <1>4, <1>5, <1>types DEF EventTypes, DeliveryInv, TypeOK
  <1>9. Sessions!Deliver
    BY <1>2, <1>3, <1>4, <1>6 DEF Sessions!Deliver
  <1> QED
    BY <1>7, <1>8, <1>9 DEF EventsKept

\* 'closed' or 'disconnected', for the session's client.
LEMMA CalmEnd ==
  ASSUME CalmInv, NEW r \in BagToSet(reads), EmitEnd(r)
  PROVE  EventsKept /\ Sessions!End
  <1> USE DEF jsVars, socketVars, threadVars, peerVars
  <1>types. EventTypes /\ SessionInv /\ DeliveryInv /\ TypeOK
    BY CalmFacts
  <1>1. /\ server /\ Idle /\ r.of \in Clients /\ session = r.of /\ client = r.of
        /\ BagToSet(reads) = {r}
        /\ ~Starting /\ ticks = 0
        /\ acceptors["waiting"] = 0 /\ acceptors["selected"] = 0 /\ acceptors["done"] = 0
    BY CalmRead
  <1>2. /\ Leave(r) /\ session' = NoClient /\ ended' = ended + 1
        /\ UNCHANGED <<server, ticks, closing, address, listening, peer, taken>>
        /\ UNCHANGED <<announced, delivered>>
        /\ UNCHANGED acceptors \/ acceptors' = [acceptors EXCEPT !["waiting"] = @ + 1]
    BY DEF EmitEnd, AfterReadEnds, AdvertiseAndAccept
  <1>3. BagToSet(reads') = {} /\ session # NoClient
    BY <1>1, <1>2, ReadTurn, OneInBag, CalmFacts, SocketAssumption DEF Leave
  <1>4. acceptors'["done"] = 0
    BY <1>1, <1>2, <1>types, Fields DEF Stages
  <1>5. SessionInv'
    BY <1>1, <1>2, <1>3, <1>4 DEF SessionInv, Idle
  <1>6. EventTypes' /\ DeliveryInv'
    BY <1>2, <1>3, <1>4, <1>types DEF EventTypes, DeliveryInv
  <1>7. Sessions!End
    BY <1>2, <1>3 DEF Sessions!End
  <1> QED
    BY <1>5, <1>6, <1>7 DEF EventsKept

\* EIO_AfterRead that says nothing, and EIO_Read: the read stays the session's.
LEMMA CalmReads ==
  ASSUME CalmInv, UNCHANGED eventVars, NEW r \in BagToSet(reads),
         \/ AfterReadSilent(r)
         \/ ReadBegins(r) \/ ReadSelects(r) \/ ReadLooks(r) \/ ReadTakes(r)
         \/ ReadReturns(r) \/ ReadStrays(r) \/ ReadMessage(r) \/ ReadNoMessage(r)
  PROVE  EventsKept
  <1> USE DEF jsVars, socketVars, peerVars, eventVars
  <1>types. EventTypes /\ SessionInv /\ DeliveryInv /\ TypeOK
    BY CalmFacts
  <1>1. /\ server /\ Idle /\ r.of \in Clients /\ session = r.of /\ client = r.of
        /\ r.stage \notin {"stdin", "foreign"} /\ BagToSet(reads) = {r}
        /\ ~Starting /\ ticks = 0
        /\ acceptors["waiting"] = 0 /\ acceptors["selected"] = 0 /\ acceptors["done"] = 0
    BY CalmRead
  <1>2. /\ UNCHANGED <<server, closing, ticks, listening, acceptors, client, address, peer>>
        /\ UNCHANGED <<session, announced, delivered>>
    BY DEF AfterReadSilent, ReadBegins, ReadSelects, ReadLooks, ReadTakes, ReadReturns,
           ReadStrays, ReadMessage, ReadNoMessage
  <1>3. ~Starting' /\ Idle'
    BY <1>1, <1>2 DEF Starting, Idle
  <1>4. CASE AfterReadSilent(r)
    <2>1. BagToSet(reads') = {} /\ taken' = taken
      BY <1>4, ReadTurn, OneInBag, CalmFacts DEF AfterReadSilent, Leave
    <2> QED
      BY <1>1, <1>2, <1>3, <2>1, <1>types
         DEF EventsKept, EventTypes, SessionInv, DeliveryInv, Accepting
  <1>5. ASSUME NEW stage, NEW set, Proceed(r, stage, set), stage \notin {"stdin", "foreign"},
               \/ stage # "data" /\ taken' = taken
               \/ taken' = [taken EXCEPT ![r.of] = @ + 1]
        PROVE  EventsKept
    <2> DEFINE q == [r EXCEPT !.stage = stage, !.set = set]
    <2>1. BagToSet(reads') = {q}
      BY <1>5, ReadTurn, OneInBag, CalmFacts DEF Proceed
    <2>2. q.of = r.of /\ q.stage = stage
      BY ReadTurn, CalmFacts DEF Read
    <2> HIDE DEF q
    <2>3. SessionInv'
      BY <1>1, <1>2, <1>3, <1>5, <2>1, <2>2 DEF SessionInv, Accepting
    <2>4. ASSUME NEW c \in Clients
          PROVE  /\ delivered[c] <= taken'[c]
                 /\ stage = "data" /\ c = r.of => delivered[c] < taken'[c]
      BY <1>1, <1>5, <2>4, <1>types DEF DeliveryInv, EventTypes, TypeOK
    <2>5. DeliveryInv'
      BY <1>1, <1>2, <2>1, <2>2, <2>4, <1>types DEF DeliveryInv
    <2> QED
      BY <1>2, <2>3, <2>5, <1>types DEF EventsKept, EventTypes
  <1>6. client # NoClient
    BY <1>1, SocketAssumption
  <1>7. CASE ReadBegins(r)
    BY <1>5, <1>6, <1>7 DEF ReadBegins
  <1>8. CASE ReadSelects(r)
    BY <1>5, <1>8 DEF ReadSelects
  <1>9. CASE ReadLooks(r)
    BY <1>5, <1>9 DEF ReadLooks, Found
  <1>10. CASE ReadTakes(r)
    BY <1>5, <1>10 DEF ReadTakes
  <1>11. CASE ReadReturns(r)
    <2>1. /\ Proceed(r, "empty", {}) \/ Proceed(r, "reset", {}) \/ Proceed(r, "other", {})
          /\ taken' = taken
      BY <1>11 DEF ReadReturns
    <2> QED
      BY <1>5, <2>1
  <1>12. CASE ReadStrays(r)
    BY <1>1, <1>6, <1>12 DEF ReadStrays
  <1>13. CASE ReadMessage(r)
    <2>1. /\ pipe \in Seq({"close", "disconnect"}) /\ pipe # <<>>
          /\ Proceed(r, Head(pipe), {}) /\ taken' = taken
      BY <1>13, <1>types DEF ReadMessage, TypeOK
    <2>2. Head(pipe) \in {"close", "disconnect"}
      BY <2>1
    <2> QED
      BY <1>5, <2>1, <2>2
  <1>14. CASE ReadNoMessage(r)
    BY <1>5, <1>14 DEF ReadNoMessage
  <1> QED
    BY <1>4, <1>7, <1>8, <1>9, <1>10, <1>11, <1>12, <1>13, <1>14

\* EIO_Listen, the acceptor and the remote devices.
LEMMA CalmAcceptor ==
  ASSUME CalmInv, EIO_Listen \/ Acceptor \/ Remote, UNCHANGED eventVars
  PROVE  EventsKept
  <1> USE DEF jsVars, socketVars, threadVars, peerVars, eventVars
  <1>types. EventTypes /\ SessionInv /\ DeliveryInv /\ TypeOK /\ TurnInv
    BY CalmFacts
  <1>events. UNCHANGED <<session, announced, delivered>>
    OBVIOUS
  <1>1. CASE EIO_Listen
    <2>1. Starting /\ listening' # "no" /\ listening # "no" /\ Starting'
      BY <1>1 DEF EIO_Listen, Starting
    <2>2. UNCHANGED <<server, closing, ticks, acceptors, reads, client, address, peer, taken>>
      BY <1>1 DEF EIO_Listen
    <2> QED
      BY <2>1, <2>2, <1>types, <1>events
         DEF EventsKept, EventTypes, SessionInv, DeliveryInv, Accepting, Idle
  <1>2. ASSUME NEW from \in {"waiting", "selected"}, NEW to \in {"selected", "done"},
               from # to, Moves(from, to),
               UNCHANGED <<server, closing, ticks, listening, reads, s>>
        PROVE  /\ ~Starting /\ ticks = 0 /\ BagToSet(reads) = {}
               /\ server /\ Idle /\ session = NoClient
               /\ acceptors["done"] = 0
               /\ acceptors'["done"] = (IF to = "done" THEN 1 ELSE 0)
    <2>1. acceptors[from] > 0 /\ acceptors' = [acceptors EXCEPT ![from] = @ - 1, ![to] = @ + 1]
      BY <1>2 DEF Moves
    <2>2. /\ Accepting + acceptors["done"] > 0
          /\ acceptors["waiting"] + acceptors["selected"] + acceptors["done"] > 0
      BY <2>1, <1>types, Fields DEF Accepting
    <2>3. /\ ~Starting /\ ticks = 0 /\ reads = EmptyBag
          /\ acceptors["waiting"] + acceptors["selected"] + acceptors["done"] = 1
      BY <2>2, AcceptorTurn, CalmFacts
    <2>4. acceptors["done"] = 0
      <3>1. CASE from = "waiting"
        BY <2>1, <2>3, <3>1, <1>types, Fields
      <3>2. CASE from = "selected"
        BY <2>1, <2>3, <3>2, <1>types, Fields
      <3> QED
        BY <3>1, <3>2
    <2>5. acceptors'["done"] = (IF to = "done" THEN 1 ELSE 0)
      BY <2>1, <2>4, <1>types DEF TypeOK, Stages
    <2>6. server /\ Idle /\ session = NoClient
      BY <2>2, <2>3, <1>types DEF SessionInv, Starting
    <2> QED
      BY <2>3, <2>4, <2>5, <2>6, OneInBag
  <1>3. CASE AcceptorThrows
    <2>1. ~Idle /\ acceptors["waiting"] > 0
      BY <1>3 DEF AcceptorThrows, Idle
    <2> QED
      BY <2>1, TickTurn, CalmFacts DEF SessionInv
  <1>4. CASE AcceptorSelects
    <2>1. /\ Moves("waiting", "selected")
          /\ UNCHANGED <<server, closing, ticks, listening, reads, s, client, address, peer, taken>>
      BY <1>4 DEF AcceptorSelects
    <2>2. SessionInv'
      BY <1>2, <2>1, <1>events DEF SessionInv, Idle
    <2> QED
      BY <1>2, <2>1, <2>2, <1>types, <1>events DEF EventsKept, EventTypes, DeliveryInv
  <1>5. CASE AcceptorStops
    <2>1. PICK from \in {"waiting", "selected"} : Moves(from, "done")
      BY <1>5 DEF AcceptorStops
    <2>2. s = "zero" /\ UNCHANGED <<server, closing, ticks, listening, reads, s>>
      BY <1>5 DEF AcceptorStops
    <2>3. server /\ ~Starting
      BY <1>2, <2>1, <2>2
    <2> QED
      BY <2>2, <2>3, <1>types DEF TurnInv, QuietInv, Starting
  <1>6. CASE AcceptorFails
    <2>1. /\ Moves("selected", "done") /\ client' = Failed
          /\ UNCHANGED <<server, closing, ticks, listening, reads, s, peer, taken>>
      BY <1>6 DEF AcceptorFails
    <2>2. SessionInv'
      BY <1>2, <2>1, <1>events DEF SessionInv, Idle
    <2> QED
      BY <1>2, <2>1, <2>2, <1>types, <1>events, SocketAssumption
         DEF EventsKept, EventTypes, DeliveryInv
  <1>7. ASSUME NEW c \in Clients, AcceptorAccepts(c) PROVE EventsKept
    <2>1. /\ Moves("selected", "done") /\ client' = c /\ address' = c
          /\ peer[c] = "knocking" /\ peer' = [peer EXCEPT ![c] = "up"]
          /\ UNCHANGED <<server, closing, ticks, listening, reads, s, taken>>
      BY <1>7 DEF AcceptorAccepts
    <2>2. c \notin announced
      BY <2>1, <1>types DEF DeliveryInv
    <2>3. SessionInv'
      BY <1>2, <2>1, <2>2, <1>events DEF SessionInv, Idle
    <2>4. DeliveryInv'
      BY <1>2, <2>1, <1>types, <1>events DEF DeliveryInv, TypeOK
    <2> QED
      BY <2>3, <2>4, <1>types, <1>events DEF EventsKept, EventTypes
  <1>8. ASSUME NEW c \in Clients, Knocks(c) \/ PeerSends(c) \/ PeerEnds(c) PROVE EventsKept
    <2>1. /\ UNCHANGED <<server, closing, ticks, listening, acceptors, reads, client, address, taken>>
          /\ \/ peer' = peer
             \/ peer[c] = "away" /\ peer' = [peer EXCEPT ![c] = "knocking"]
             \/ \E end \in {"eof", "reset", "broken"} : peer' = [peer EXCEPT ![c] = end]
      BY <1>8 DEF Knocks, PeerSends, PeerEnds
    <2>2. \A d \in Clients : peer[d] \notin {"away", "knocking"} => peer'[d] \notin {"away", "knocking"}
      BY <2>1, <1>types DEF TypeOK
    <2>3. DeliveryInv'
      BY <2>1, <2>2, <1>types, <1>events DEF DeliveryInv
    <2> QED
      BY <2>1, <2>3, <1>types, <1>events
         DEF EventsKept, EventTypes, SessionInv, Starting, Accepting, Idle
  <1> QED
    BY <1>1, <1>3, <1>4, <1>5, <1>6, <1>7, <1>8 DEF Acceptor, Remote

LEMMA CalmInit == EventsInit => CalmInv /\ Sessions!Init
  <1> SUFFICES ASSUME EventsInit PROVE CalmInv /\ Sessions!Init
    OBVIOUS
  <1>1. ServerInv
    BY ServerInit DEF EventsInit
  <1>2. /\ Idle /\ ticks = 0 /\ BagToSet(reads) = {} /\ listening = "no"
        /\ acceptors["done"] = 0 /\ server = FALSE
        /\ \A c \in Clients : taken[c] = 0 /\ delivered[c] = 0
        /\ session = NoClient /\ announced = {} /\ delivered \in [Clients -> Nat]
    BY OneInBag DEF EventsInit, Init, Idle, Stages
  <1>3. EventTypes /\ SessionInv /\ DeliveryInv
    BY <1>2 DEF EventTypes, SessionInv, DeliveryInv
  <1>4. Sessions!Init
    BY DEF EventsInit, Sessions!Init
  <1> QED
    BY <1>1, <1>3, <1>4 DEF CalmInv

\* Every step keeps the invariant and is a step of a session, or none.
LEMMA CalmStep == CalmInv /\ [CalmNext]_allVars => CalmInv' /\ [Sessions!Next]_(Sessions!vars)
  <1> SUFFICES ASSUME CalmInv, [CalmNext]_allVars
               PROVE  CalmInv' /\ [Sessions!Next]_(Sessions!vars)
    OBVIOUS
  <1>1. ServerInv'
    BY EventsAreServer, ServerStep, CalmFacts
  <1>2. CASE UNCHANGED allVars
    <2>1. EventsKept
      BY <1>2, SameSession DEF allVars, vars, jsVars, socketVars, threadVars, peerVars, eventVars
    <2> QED
      BY <1>1, <1>2, <2>1 DEF EventsKept, CalmInv, Sessions!vars, allVars, eventVars
  <1>3. CASE CalmNext
    <2>1. CASE EmitAccepted
      BY <1>1, <2>1, CalmAccepted DEF EventsKept, CalmInv, Sessions!Next
    <2>2. ASSUME NEW r \in BagToSet(reads), EmitData(r)
          PROVE  CalmInv' /\ [Sessions!Next]_(Sessions!vars)
      BY <1>1, <2>2, CalmData DEF EventsKept, CalmInv, Sessions!Next
    <2>3. ASSUME NEW r \in BagToSet(reads), EmitEnd(r)
          PROVE  CalmInv' /\ [Sessions!Next]_(Sessions!vars)
      BY <1>1, <2>3, CalmEnd DEF EventsKept, CalmInv, Sessions!Next
    <2>4. CASE UserDisconnects
      <3>1. /\ UNCHANGED <<server, closing, ticks, listening, acceptors, reads, client, address>>
            /\ UNCHANGED <<peer, taken, session, announced, delivered, ended>>
        BY <2>4 DEF UserDisconnects, DisconnectClient, threadVars, peerVars
      <3> QED
        BY <1>1, <3>1, SameSession DEF EventsKept, CalmInv, Sessions!vars
    <2>5. CASE Silent
      <3>1. UNCHANGED eventVars
        BY <2>5 DEF Silent
      <3>2. ASSUME NEW r \in BagToSet(reads), AfterReadSilent(r) PROVE EventsKept
        BY <3>1, <3>2, CalmReads
      <3>3. CASE EIO_Read
        BY <3>1, <3>3, CalmReads, <1>1 DEF EIO_Read, EventsKept, CalmInv, Sessions!vars, eventVars
      <3>4. EventsKept \/ EIO_Read
        BY <1>3, <2>5, <3>1, <3>2, CalmClose, CalmLoop, CalmAcceptor DEF Silent
      <3> QED
        BY <1>1, <3>1, <3>3, <3>4 DEF EventsKept, CalmInv, Sessions!vars, eventVars
    <2> QED
      BY <1>3, <2>1, <2>2, <2>3, <2>4, <2>5 DEF CalmNext, EventsNext
  <1> QED
    BY <1>2, <1>3

\* In disciplined use the events form sessions: each client is announced at
\* most once, when nobody is, no more is delivered to a session than its
\* client sent, and a session ends before the next begins.
THEOREM ServerSession == CalmSpec => ImplementsSessions
  <1>1. CalmSpec => Sessions!Init /\ [][Sessions!Next]_(Sessions!vars)
    BY CalmInit, CalmStep, PTL DEF CalmSpec
  <1> QED
    BY <1>1, PTL DEF ImplementsSessions, Sessions!Spec
=============================================================================
