---------------------------- MODULE ClientProofs ----------------------------
(***************************************************************************)
(* For any number of connections and any use of a port: the binding of a   *)
(* connection is closed at most once, and the port never holds a           *)
(* connection that was closed (ClientPort); and what ClientEvents adds to  *)
(* ClientPort only records (every behaviour of it is one of ClientPort).   *)
(***************************************************************************)
EXTENDS ClientEvents, RequestLemmas, TLAPS

-----------------------------------------------------------------------------
(* The inductive invariant.  The two properties are about nat and s of the *)
(* connection the port holds.  They survive the steps that make a          *)
(* connection current only because a connection that was established has   *)
(* its socket until the port closes it (HasSocket), and the steps that     *)
(* close a refused attempt because that one is never current.              *)

PortTypes == /\ connection \in Conns \cup {None}
             /\ nat \in [Conns -> NativeStates]
             /\ s \in [Conns -> BOOLEAN]

HasSocket == \A c \in Conns : nat[c] \in {"connected", "refused", "open"} => s[c]

CurrentIsOpen == connection # None => nat[connection] = "open"

PortInv == PortTypes /\ HasSocket /\ CurrentIsOpen /\ PipesClosedOnce

\* The initial states satisfy the invariant.
LEMMA PortInit == Init => PortInv
  BY DEF Init, PortInv, PortTypes, HasSocket, CurrentIsOpen, PipesClosedOnce,
         NativeStates

\* The invariant contains the two properties.
LEMMA PortInvImplies == PortInv => PipesClosedOnce /\ ConnectionHasSocket
  BY DEF PortInv, PortTypes, HasSocket, CurrentIsOpen, ConnectionHasSocket

\* The library's close() preserves the invariant, whoever calls it.
LEMMA CloseConnectionStep == PortInv /\ CloseConnection => PortInv'
<1> SUFFICES ASSUME PortInv, CloseConnection PROVE PortInv'
  OBVIOUS
<1> USE NoneAssumption
<1>1. CASE connection = None
  BY <1>1 DEF CloseConnection, PortInv, PortTypes, HasSocket, CurrentIsOpen,
              PipesClosedOnce
<1>2. CASE connection # None
  <2>1. connection \in Conns /\ nat[connection] = "open"
    BY <1>2 DEF PortInv, PortTypes, CurrentIsOpen
  <2>2. /\ connection' = None
        /\ s' = [s EXCEPT ![connection] = FALSE]
        /\ nat' = [nat EXCEPT ![connection] = "shut"]
    BY <1>2, <2>1 DEF CloseConnection, NativeClose, PortInv, PortTypes
  <2> QED
    BY <2>1, <2>2 DEF PortInv, PortTypes, HasSocket, CurrentIsOpen, PipesClosedOnce,
                      NativeStates
<1> QED
  BY <1>1, <1>2

\* A step that leaves connections and sockets alone preserves the invariant.
LEMMA QuietPortStep == PortInv /\ UNCHANGED <<connection, nat, s>> => PortInv'
  BY DEF PortInv, PortTypes, HasSocket, CurrentIsOpen, PipesClosedOnce

\* Every step of ClientPort preserves the invariant.
LEMMA PortStep == PortInv /\ [Next]_vars => PortInv'
<1> SUFFICES ASSUME PortInv, [Next]_vars PROVE PortInv'
  OBVIOUS
<1> USE NoneAssumption
<1>1. CASE UNCHANGED vars
  BY <1>1, QuietPortStep DEF vars, jsVars, nativeVars
<1>2. ASSUME NEW c \in Conns, Connect(c) PROVE PortInv'
  BY <1>2 DEF Connect, jsVars, PortInv, PortTypes, HasSocket, CurrentIsOpen,
              PipesClosedOnce, NativeStates
<1>3. ASSUME NEW c \in Conns, EIO_Connect(c) PROVE PortInv'
  <2>1. PICK outcome \in {"connected", "refused"} : nat' = [nat EXCEPT ![c] = outcome]
    BY <1>3 DEF EIO_Connect
  <2>2. /\ nat[c] = "connecting"
        /\ s' = [s EXCEPT ![c] = TRUE]
        /\ UNCHANGED connection
    BY <1>3 DEF EIO_Connect, jsVars
  <2> QED
    BY <2>1, <2>2 DEF PortInv, PortTypes, HasSocket, CurrentIsOpen, PipesClosedOnce,
                      NativeStates
<1>4. CASE Close
  BY <1>4, CloseConnectionStep DEF Close
<1>5. ASSUME NEW c \in Conns, Connected(c) PROVE PortInv'
  BY <1>5 DEF Connected, PortInv, PortTypes, HasSocket, CurrentIsOpen,
              PipesClosedOnce, NativeStates
<1>6. ASSUME NEW c \in Conns, NotConnected(c) PROVE PortInv'
  <2>1. /\ nat[c] = "refused"
        /\ nat' = [nat EXCEPT ![c] = "failed"]
        /\ s' = [s EXCEPT ![c] = FALSE]
        /\ UNCHANGED connection
    BY <1>6 DEF NotConnected, NativeClose, jsVars, PortInv, PortTypes
  <2> QED
    BY <2>1 DEF PortInv, PortTypes, HasSocket, CurrentIsOpen, PipesClosedOnce,
                NativeStates
<1>7. CASE RunTick
  BY <1>7, CloseConnectionStep, QuietPortStep DEF RunTick, ReadFailed
<1>8. ASSUME NEW r, AfterRead(r) PROVE PortInv'
  BY <1>8, CloseConnectionStep, QuietPortStep
     DEF AfterRead, AfterReadData, AfterReadEmpty, AfterReadError, ReadFailed
<1>9. CASE EIO_Read \/ Stdin
  BY <1>9, QuietPortStep
     DEF EIO_Read, Stdin, ReadBegins, ReadSelects, ReadTakes, ReadReturns,
         ReadClosed, ReadStdin, jsVars
<1>10. CASE Remote
  BY <1>10, QuietPortStep DEF Remote, RemoteSends, RemoteEnds, jsVars, nativeVars
<1> QED
  BY <1>1, <1>2, <1>3, <1>4, <1>5, <1>6, <1>7, <1>8, <1>9, <1>10 DEF Next, Loop

\* However connect() and close() are called and however reads end: no
\* binding is closed twice, and the port's connection has its socket.
THEOREM PortSafety == Spec => [](PipesClosedOnce /\ ConnectionHasSocket)
<1>1. Init => PortInv
  BY PortInit
<1>2. PortInv /\ [Next]_vars => PortInv'
  BY PortStep
<1>3. PortInv => PipesClosedOnce /\ ConnectionHasSocket
  BY PortInvImplies
<1> QED
  BY <1>1, <1>2, <1>3, PTL DEF Spec

-----------------------------------------------------------------------------
(* Types.  reads may hold any number of reads, of several connections.     *)

\* What happens to one read keeps the type of reads.
LEMMA ReadTypes ==
  ASSUME TypeOK, NEW r \in Read
  PROVE  /\ \A B : IsABag(B) /\ BagToSet(B) \subseteq Read =>
                IsABag(B (+) SetToBag({r})) /\ BagToSet(B (+) SetToBag({r})) \subseteq Read
         /\ IsABag(reads (-) SetToBag({r})) /\ BagToSet(reads (-) SetToBag({r})) \subseteq Read
  <1>1. ASSUME NEW B, IsABag(B), BagToSet(B) \subseteq Read
        PROVE  IsABag(B (+) SetToBag({r})) /\ BagToSet(B (+) SetToBag({r})) \subseteq Read
    <2>1. IsABag(B (+) SetToBag({r})) /\ BagToSet(B (+) SetToBag({r})) = BagToSet(B) \cup {r}
      BY <1>1, BagAdd
    <2> QED
      BY <1>1, <2>1
  <1>2. IsABag(reads (-) SetToBag({r})) /\ BagToSet(reads (-) SetToBag({r})) \subseteq Read
    BY BagTake DEF TypeOK
  <1> QED
    BY <1>1, <1>2

\* The steps that move a read on.
LEMMA ProceedTypes ==
  ASSUME TypeOK, NEW r \in BagToSet(reads), NEW stage, NEW chunk,
         [r EXCEPT !.stage = stage, !.chunk = chunk] \in Read,
         Proceed(r, stage, chunk)
  PROVE  (IsABag(reads) /\ BagToSet(reads) \subseteq Read)'
  <1>1. r \in Read
    BY DEF TypeOK
  <1> DEFINE B == reads (-) SetToBag({r})
             q == [r EXCEPT !.stage = stage, !.chunk = chunk]
  <1>2. IsABag(B) /\ BagToSet(B) \subseteq Read
    BY <1>1, ReadTypes
  <1>3. reads' = B (+) SetToBag({q})
    BY DEF Proceed
  <1> HIDE DEF B, q
  <1> QED
    BY <1>2, <1>3, ReadTypes DEF q

\* Every step of ClientPort preserves the types, if the port's connection has
\* its socket.
LEMMA TypesStep == TypeOK /\ PortInv /\ [Next]_vars => TypeOK'
<1> SUFFICES ASSUME TypeOK, PortInv, [Next]_vars PROVE TypeOK'
  OBVIOUS
<1> USE NoneAssumption, BoundAssumption
<1>port. (connection \in Conns \cup {None} /\ nat \in [Conns -> NativeStates] /\ s \in [Conns -> BOOLEAN])'
  BY PortStep DEF PortInv, PortTypes
<1>links. CASE UNCHANGED <<listeners, ticks, reads, linkVars>>
  BY <1>links, <1>port DEF TypeOK, linkVars
<1>seqs. \A k : RemoveFirst(listeners, k) \in Seq(Conns)
  BY RemoveFirstType DEF TypeOK
<1>1. CASE UNCHANGED vars
  BY <1>1, <1>links DEF vars, jsVars, nativeVars
<1>2. ASSUME NEW c \in Conns, Connect(c) \/ EIO_Connect(c) \/ NotConnected(c) PROVE TypeOK'
  BY <1>2, <1>links DEF Connect, EIO_Connect, NotConnected, jsVars
<1>3. CASE Close
  BY <1>3, <1>links DEF Close
<1>4. ASSUME NEW c \in Conns, Connected(c) PROVE TypeOK'
  BY <1>4, <1>port DEF Connected, TypeOK, linkVars
<1>5. CASE RunTick
  <2>1. /\ ticks' \in Seq(Conns) /\ Head(ticks) \in Conns /\ UNCHANGED linkVars
    BY <1>5 DEF RunTick, TypeOK
  <2>2. CASE connection = None
    BY <1>5, <1>port, <2>1, <2>2 DEF RunTick, TypeOK, linkVars
  <2>3. CASE connection # None
    <3>1. s[connection] /\ connection \in Conns
      BY <2>3, PortInvImplies DEF ConnectionHasSocket, PortInv, PortTypes
    <3>2. QueueRead(connection, Head(ticks)) /\ UNCHANGED listeners
      BY <1>5, <2>3, <3>1 DEF RunTick
    <3> DEFINE q == [stage |-> "queued", on |-> connection, by |-> Head(ticks), chunk |-> 0]
    <3>3. q \in Read /\ reads' = reads (+) SetToBag({q})
      BY <2>1, <3>1, <3>2 DEF QueueRead, Read
    <3> HIDE DEF q
    <3>4. (IsABag(reads) /\ BagToSet(reads) \subseteq Read)'
      BY <3>3, ReadTypes DEF TypeOK
    <3> QED
      BY <1>port, <2>1, <3>2, <3>4 DEF TypeOK, linkVars
  <2> QED
    BY <2>2, <2>3
<1>6. ASSUME NEW r \in BagToSet(reads), AfterRead(r) PROVE TypeOK'
  <2>1. r \in Read /\ Leave(r) /\ UNCHANGED linkVars
    BY <1>6 DEF TypeOK, AfterRead, AfterReadData, AfterReadEmpty, AfterReadError
  <2>2. (IsABag(reads) /\ BagToSet(reads) \subseteq Read)'
    BY <2>1, ReadTypes DEF Leave
  <2>3. (ticks \in Seq(Conns) /\ listeners \in Seq(Conns))'
    BY <1>6, <1>seqs DEF TypeOK, AfterRead, AfterReadData, AfterReadEmpty, AfterReadError, ReadFailed
  <2> QED
    BY <1>port, <2>1, <2>2, <2>3 DEF TypeOK, linkVars
<1>7. ASSUME NEW r \in BagToSet(reads),
             \/ ReadBegins(r) \/ ReadSelects(r) \/ ReadTakes(r) \/ ReadReturns(r)
             \/ ReadClosed(r) \/ ReadStdin(r)
      PROVE  TypeOK'
  <2>1. r \in Read
    BY DEF TypeOK
  <2>2. \A stage \in {"selecting", "ready", "stdin"} \cup Results, chunk \in 0..MaxData :
            [r EXCEPT !.stage = stage, !.chunk = chunk] \in Read
    BY <2>1 DEF Read
  <2>3. /\ UNCHANGED jsVars /\ UNCHANGED <<arrived, link>>
        /\ (taken \in [Conns -> 0..MaxData])'
    <3>1. CASE ReadTakes(r)
      <4>1. /\ UNCHANGED jsVars /\ UNCHANGED <<arrived, link>>
            /\ taken[r.on] \in 0..MaxData /\ arrived[r.on] \in 0..MaxData
            /\ taken[r.on] < arrived[r.on]
            /\ taken' = [taken EXCEPT ![r.on] = taken[r.on] + 1]
        BY <2>1, <3>1 DEF ReadTakes, TypeOK, Read
      <4>2. taken[r.on] + 1 \in 0..MaxData
        BY <4>1
      <4> QED
        BY <4>1, <4>2 DEF TypeOK
    <3>2. CASE ~ReadTakes(r)
      BY <1>7, <3>2 DEF ReadBegins, ReadSelects, ReadReturns, ReadClosed, ReadStdin,
                        linkVars, TypeOK
    <3> QED
      BY <3>1, <3>2
  <2>4. \E stage \in {"selecting", "ready", "stdin"} \cup Results, chunk \in 0..MaxData :
            Proceed(r, stage, chunk)
    <3>1. CASE ReadTakes(r)
      <4>1. Proceed(r, "data", taken[r.on] + 1) /\ taken[r.on] + 1 \in 0..MaxData
        BY <2>1, <3>1 DEF ReadTakes, TypeOK, Read
      <4> QED
        BY <4>1 DEF Results
    <3>2. CASE ~ReadTakes(r)
      <4>1. \E stage \in {"selecting", "ready", "stdin"} \cup Results : Proceed(r, stage, 0)
        BY <1>7, <3>2 DEF ReadBegins, ReadSelects, ReadReturns, ReadClosed, ReadStdin, Results
      <4> QED
        BY <4>1
    <3> QED
      BY <3>1, <3>2
  <2>5. (IsABag(reads) /\ BagToSet(reads) \subseteq Read)'
    BY <2>2, <2>4, ProceedTypes
  <2> QED
    BY <1>port, <2>3, <2>5 DEF TypeOK, jsVars
<1>8. ASSUME NEW c \in Conns, RemoteSends(c) \/ RemoteEnds(c) PROVE TypeOK'
  <2>1. CASE RemoteSends(c)
    <3>1. /\ arrived[c] \in 0..MaxData /\ arrived[c] < MaxData
          /\ arrived' = [arrived EXCEPT ![c] = arrived[c] + 1]
          /\ UNCHANGED <<jsVars, nativeVars, taken, link>>
      BY <2>1 DEF RemoteSends, TypeOK
    <3>2. arrived[c] + 1 \in 0..MaxData
      BY <3>1
    <3> QED
      BY <1>port, <3>1, <3>2 DEF TypeOK, jsVars, nativeVars
  <2>2. CASE RemoteEnds(c)
    <3>1. PICK end \in {"eof", "error"} : link' = [link EXCEPT ![c] = end]
      BY <2>2 DEF RemoteEnds
    <3> QED
      BY <1>port, <2>2, <3>1 DEF RemoteEnds, TypeOK, jsVars, nativeVars
  <2> QED
    BY <1>8, <2>1, <2>2
<1> QED
  BY <1>1, <1>2, <1>3, <1>4, <1>5, <1>6, <1>7, <1>8 DEF Next, Loop, EIO_Read, Stdin, Remote

\* The initial states have the types.
LEMMA TypesInit == Init => TypeOK
  BY NoneAssumption, BoundAssumption DEF Init, TypeOK, EmptyBag, SetToBag, IsABag, BagToSet, NativeStates

\* However connections, reads and listeners pile up, every variable keeps its
\* type: each read there is belongs to connections the port was given.
THEOREM PortTypesKept == Spec => []TypeOK
<1>1. Spec => []PortInv
  BY PortInit, PortStep, PTL DEF Spec
<1> QED
  BY <1>1, TypesInit, TypesStep, PTL DEF Spec

-----------------------------------------------------------------------------
(* ClientEvents only records.                                              *)

\* A step of ClientEvents is a step of ClientPort.
LEMMA EventsStep == [EventsNext]_allVars => [Next]_vars
<1> SUFFICES ASSUME [EventsNext]_allVars PROVE [Next]_vars
  OBVIOUS
<1>1. CASE UNCHANGED allVars
  BY <1>1 DEF allVars
<1>2. ASSUME NEW c \in Conns, UserConnects(c) PROVE Next
  BY <1>2 DEF UserConnects, Next
<1>3. CASE UserCloses
  BY <1>3 DEF UserCloses, Next
<1>4. ASSUME NEW r \in BagToSet(reads), EmitData(r) \/ EmitEmpty(r) \/ EmitFailure(r)
      PROVE  Next
  BY <1>4 DEF EmitData, EmitEmpty, EmitFailure, Next, Loop, AfterRead
<1>5. CASE Silent
  BY <1>5 DEF Silent, Next, Loop
<1> QED
  BY <1>1, <1>2, <1>3, <1>4, <1>5 DEF EventsNext

\* The events are an observation: ClientEvents implements ClientPort, so that
\* PortSafety holds of it, and of its two restricted uses, as well.
THEOREM EventsObserve == EventsSpec => Spec
<1>1. EventsInit => Init
  BY DEF EventsInit
<1>2. [EventsNext]_allVars => [Next]_vars
  BY EventsStep
<1> QED
  BY <1>1, <1>2, PTL DEF EventsSpec, Spec

-----------------------------------------------------------------------------
(* A port connected once knows every connection that is open.              *)

\* Only one attempt is past the stages in which nothing can come of it.
OneAttempt == \A c, d \in Conns :
    nat[c] \notin {"none", "failed"} /\ nat[d] \notin {"none", "failed"} => c = d

OnceInv == PortInv /\ OneAttempt /\ IsOpenIsExact

\* The library's close() preserves what the port knows.
LEMMA OnceCloseStep == OnceInv /\ CloseConnection => OneAttempt' /\ IsOpenIsExact'
<1> SUFFICES ASSUME OnceInv, CloseConnection PROVE OneAttempt' /\ IsOpenIsExact'
  OBVIOUS
<1> USE NoneAssumption
<1>1. CASE connection = None
  BY <1>1 DEF CloseConnection, OnceInv, OneAttempt, IsOpenIsExact
<1>2. CASE connection # None
  <2>1. connection \in Conns /\ nat[connection] = "open" /\ nat \in [Conns -> NativeStates]
    BY <1>2 DEF OnceInv, PortInv, PortTypes, CurrentIsOpen
  <2>2. connection' = None /\ nat' = [nat EXCEPT ![connection] = "shut"]
    BY <1>2, <2>1 DEF CloseConnection, NativeClose
  <2> QED
    BY <2>1, <2>2 DEF OnceInv, OneAttempt, IsOpenIsExact
<1> QED
  BY <1>1, <1>2

\* A step that leaves the connections alone preserves what the port knows.
LEMMA OnceQuietStep ==
    OnceInv /\ UNCHANGED <<connection, nat>> => OneAttempt' /\ IsOpenIsExact'
  BY DEF OnceInv, OneAttempt, IsOpenIsExact

\* Every step of a port that is connected once preserves the invariant.
LEMMA OnceStep == OnceInv /\ [OnceNext]_allVars => OnceInv'
<1> SUFFICES ASSUME OnceInv, [OnceNext]_allVars PROVE OnceInv'
  OBVIOUS
<1> USE NoneAssumption
<1>types. connection \in Conns \cup {None} /\ nat \in [Conns -> NativeStates]
  BY DEF OnceInv, PortInv, PortTypes
<1>step. [Next]_vars
  BY EventsStep DEF OnceNext
<1>port. PortInv'
  BY <1>step, PortStep DEF OnceInv
<1>1. CASE UNCHANGED vars
  BY <1>1, <1>port, OnceQuietStep DEF OnceInv, vars, jsVars, nativeVars
<1>2. ASSUME NEW c \in Conns, Connect(c), ~UNCHANGED allVars PROVE OnceInv'
  <2>1. /\ nat[c] = "none"
        /\ nat' = [nat EXCEPT ![c] = "connecting"]
        /\ UNCHANGED connection
    BY <1>2 DEF Connect, jsVars
  <2>2. \A d \in Conns \ {c} : nat[d] \in {"none", "failed"}
    BY <1>2, <2>1, <1>types DEF OnceNext
  <2> QED
    BY <2>1, <2>2, <1>types, <1>port DEF OnceInv, OneAttempt, IsOpenIsExact
<1>3. ASSUME NEW c \in Conns, EIO_Connect(c) PROVE OnceInv'
  <2>1. PICK outcome \in {"connected", "refused"} : nat' = [nat EXCEPT ![c] = outcome]
    BY <1>3 DEF EIO_Connect
  <2>2. nat[c] = "connecting" /\ UNCHANGED connection
    BY <1>3 DEF EIO_Connect, jsVars
  <2> QED
    BY <2>1, <2>2, <1>types, <1>port DEF OnceInv, OneAttempt, IsOpenIsExact
<1>4. CASE Close
  BY <1>4, <1>port, OnceCloseStep DEF Close, OnceInv
<1>5. ASSUME NEW c \in Conns, Connected(c) PROVE OnceInv'
  BY <1>5, <1>types, <1>port DEF Connected, OnceInv, OneAttempt, IsOpenIsExact
<1>6. ASSUME NEW c \in Conns, NotConnected(c) PROVE OnceInv'
  <2>1. /\ nat[c] = "refused"
        /\ nat' = [nat EXCEPT ![c] = "failed"]
        /\ UNCHANGED connection
    BY <1>6, <1>types DEF NotConnected, NativeClose, jsVars
  <2> QED
    BY <2>1, <1>types, <1>port DEF OnceInv, OneAttempt, IsOpenIsExact
<1>7. CASE RunTick
  BY <1>7, <1>port, OnceCloseStep, OnceQuietStep DEF RunTick, ReadFailed, OnceInv
<1>8. ASSUME NEW r, AfterRead(r) PROVE OnceInv'
  BY <1>8, <1>port, OnceCloseStep, OnceQuietStep
     DEF AfterRead, AfterReadData, AfterReadEmpty, AfterReadError, ReadFailed, OnceInv
<1>9. CASE EIO_Read \/ Stdin
  BY <1>9, <1>port, OnceQuietStep
     DEF EIO_Read, Stdin, ReadBegins, ReadSelects, ReadTakes, ReadReturns,
         ReadClosed, ReadStdin, jsVars, OnceInv
<1>10. CASE Remote
  BY <1>10, <1>port, OnceQuietStep
     DEF Remote, RemoteSends, RemoteEnds, jsVars, nativeVars, OnceInv
<1>11. UNCHANGED allVars => UNCHANGED vars
  BY DEF allVars
<1> QED
  BY <1>step, <1>1, <1>2, <1>3, <1>4, <1>5, <1>6, <1>7, <1>8, <1>9, <1>10, <1>11
     DEF Next, Loop

\* A port on which connect() is only tried again after a failure never loses
\* track of an open connection: isOpen() and close() reach every one.
THEOREM OnceExact == OnceSpec => []IsOpenIsExact
<1>1. EventsInit => OnceInv
  BY PortInit DEF EventsInit, Init, OnceInv, OneAttempt, IsOpenIsExact
<1>2. OnceInv /\ [OnceNext]_allVars => OnceInv'
  BY OnceStep
<1>3. OnceInv => IsOpenIsExact
  BY DEF OnceInv
<1> QED
  BY <1>1, <1>2, <1>3, PTL DEF OnceSpec

-----------------------------------------------------------------------------
(* Readers of a port connected once.  The chain of reads is a turn: it is  *)
(* with process.nextTick or with one EIO_Read, and belongs to the one      *)
(* dataListener there is.  While it goes on, only the user can have closed *)
(* the connection (TurnInv); what a read is about to report has the cause  *)
(* that the properties ask for (CauseInv); and what was emitted, with the  *)
(* chunk a read has in its hands, is what was taken from the link          *)
(* (ChunkInv).                                                             *)

Established(c) == nat[c] \in {"open", "shut"}

TurnInv ==
    /\ listeners = <<>> \/ \E c \in Conns : listeners = <<c>> /\ Established(c)
    /\ ticks = <<>> \/ ticks = listeners
    /\ \/ reads = EmptyBag
       \/ \E r \in Read : /\ reads = SetToBag({r})
                          /\ ticks = <<>> /\ listeners = <<r.by>> /\ r.on = r.by

\* The reads that are under way on c.
Of(c) == {r \in BagToSet(reads) : r.on = c}

CauseInv == \A c \in Conns :
    /\ asked[c] => nat[c] = "shut"
    /\ nat[c] = "shut" => ~s[c] /\ (asked[c] \/ link[c] # "up")
    /\ nat[c] = "shut" /\ (Of(c) # {} \/ ticks = <<c>>) => asked[c]
    /\ \A r \in Of(c) :
         /\ r.stage \in {"stdin", "foreign"} => asked[c]
         /\ r.stage = "ready" => asked[c] \/ taken[c] < arrived[c] \/ link[c] # "up"
         /\ r.stage \in {"empty", "error"} => asked[c] \/ link[c] # "up"

\* The chunks of the link that were emitted for c.
Emitted(c) == {emitted[c][i] : i \in DOMAIN emitted[c]} \ {0}

ChunkInv == \A c \in Conns :
    /\ taken[c] <= arrived[c]
    /\ InOrder(emitted[c])
    /\ 0 \in Range(emitted[c]) => asked[c]
    /\ IF \E r \in Of(c) : r.stage = "data"
         THEN taken[c] > 0 /\ Emitted(c) = 1..(taken[c] - 1)
         ELSE Emitted(c) = 1..taken[c]
    /\ \A r \in Of(c) : /\ r.stage = "data" => r.chunk = taken[c]
                        /\ r.stage = "foreign" => r.chunk = 0

ReadersInv == OnceInv /\ TypeOK /\ EventsTypeOK /\ TurnInv /\ CauseInv /\ ChunkInv


\* The chain has one turn: a read that is under way is the only one.
LEMMA OneRead ==
  ASSUME TurnInv, NEW r \in BagToSet(reads)
  PROVE  /\ r \in Read /\ reads = SetToBag({r}) /\ BagToSet(reads) = {r}
         /\ ticks = <<>> /\ listeners = <<r.on>> /\ r.by = r.on
         /\ r.on \in Conns /\ Established(r.on)
  <1>1. PICK q \in Read : /\ reads = SetToBag({q})
                          /\ ticks = <<>> /\ listeners = <<q.by>> /\ q.on = q.by
    BY OneInBag DEF TurnInv
  <1>2. BagToSet(reads) = {q} /\ q = r
    <2>1. BagToSet(SetToBag({q})) = {q}
      BY OneInBag
    <2>2. BagToSet(reads) = {q}
      BY <1>1, <2>1
    <2> QED
      BY <2>2
  <1>3. PICK c \in Conns : listeners = <<c>> /\ Established(c)
    BY <1>1 DEF TurnInv
  <1>4. c = q.by
    BY <1>1, <1>3
  <1> QED
    BY <1>1, <1>2, <1>3, <1>4

\* It leaves, and nothing is under way.
LEMMA OneLeaves ==
  ASSUME TurnInv, NEW r \in BagToSet(reads), Leave(r)
  PROVE  reads' = EmptyBag /\ BagToSet(reads') = {}
  BY OneRead, OneInBag DEF Leave

\* It goes on, and is the only one again.
LEMMA OneProceeds ==
  ASSUME TurnInv, NEW r \in BagToSet(reads), NEW stage, NEW chunk, Proceed(r, stage, chunk),
         [r EXCEPT !.stage = stage, !.chunk = chunk] \in Read, UNCHANGED <<jsVars, nat>>
  PROVE  /\ TurnInv'
         /\ \A q \in BagToSet(reads') :
              q.stage = stage /\ q.chunk = chunk /\ q.on = r.on
         /\ \E q \in BagToSet(reads') : TRUE
  <1> DEFINE q == [r EXCEPT !.stage = stage, !.chunk = chunk]
  <1>1. r \in Read /\ reads = SetToBag({r}) /\ ticks = <<>> /\ listeners = <<r.on>> /\ r.by = r.on
    BY OneRead
  <1>2. q.stage = stage /\ q.chunk = chunk /\ q.on = r.on /\ q.by = r.by /\ q \in Read
    BY <1>1 DEF Read
  <1>3. reads' = (SetToBag({r}) (-) SetToBag({r})) (+) SetToBag({q})
    BY <1>1 DEF Proceed
  <1> HIDE DEF q
  <1>4. reads' = SetToBag({q}) /\ BagToSet(reads') = {q}
    BY <1>3, OneInBag
  <1>5. TurnInv'
    <2>1. (listeners = <<>> \/ \E c \in Conns : listeners = <<c>> /\ Established(c))'
      BY DEF TurnInv, jsVars, Established
    <2>2. ticks' = <<>> /\ listeners' = <<q.by>> /\ q.on = q.by
      BY <1>1, <1>2 DEF jsVars
    <2> QED
      BY <1>2, <1>4, <2>1, <2>2 DEF TurnInv
  <1> QED
    BY <1>2, <1>4, <1>5

\* The library's close() and the one connection that can be established.
LEMMA OnceCloses ==
  ASSUME ReadersInv, CloseConnection
  PROVE  \/ UNCHANGED <<connection, nat, s>>
         \/ /\ connection \in Conns /\ nat[connection] = "open"
            /\ nat' = [nat EXCEPT ![connection] = "shut"]
            /\ s' = [s EXCEPT ![connection] = FALSE]
  BY NoneAssumption DEF CloseConnection, NativeClose, ReadersInv, OnceInv, PortInv, PortTypes, CurrentIsOpen

\* Two connections are not established.
LEMMA OneEstablished ==
  ASSUME OnceInv, NEW c \in Conns, NEW d \in Conns, Established(c), Established(d)
  PROVE  c = d
  BY DEF OnceInv, OneAttempt, Established


\* Steps that touch neither the chain nor what came from the link.
LEMMA ChunksKept ==
  ASSUME ChunkInv, UNCHANGED <<emitted, taken, reads>>,
         \A c \in Conns : /\ arrived[c] \in Nat /\ arrived[c] <= arrived'[c]
                          /\ taken[c] \in Nat /\ arrived'[c] \in Nat
                          /\ asked[c] => asked'[c]
  PROVE  ChunkInv'
  <1>1. \A c : Of(c)' = Of(c) /\ Emitted(c)' = Emitted(c)
    BY DEF Of, Emitted
  <1> QED
    BY <1>1 DEF ChunkInv, InOrder

\* Steps of an attempt to connect.
LEMMA AttemptStep ==
  ASSUME ReadersInv, NEW c \in Conns, ~Established(c),
         nat' \in [Conns -> NativeStates], nat'[c] \notin {"open", "shut"},
         \A d \in Conns \ {c} : nat'[d] = nat[d] /\ s'[d] = s[d],
         UNCHANGED <<listeners, ticks, reads, linkVars, emitted, asked>>
  PROVE  TurnInv' /\ CauseInv' /\ ChunkInv'
  <1>1. TurnInv'
    <2>1. (listeners = <<>> \/ \E d \in Conns : listeners = <<d>> /\ Established(d))'
      BY DEF ReadersInv, TurnInv, Established
    <2> QED
      BY <2>1 DEF ReadersInv, TurnInv
  <1>2. CauseInv'
    <2>1. ASSUME NEW d \in Conns PROVE Of(d)' = Of(d) /\ (nat'[d] = "shut" <=> nat[d] = "shut")
      BY DEF Of, Established
    <2>2. \A d \in Conns : nat[d] = "shut" => s'[d] = s[d]
      BY DEF Established
    <2> QED
      BY <2>1, <2>2 DEF ReadersInv, CauseInv, linkVars
  <1>3. ChunkInv'
    BY ChunksKept DEF ReadersInv, TypeOK, linkVars
  <1> QED
    BY <1>1, <1>2, <1>3

\* The user closes the port.
LEMMA UserClosesStep ==
  ASSUME ReadersInv, UserCloses
  PROVE  TurnInv' /\ CauseInv' /\ ChunkInv'
  <1>1. /\ UNCHANGED <<listeners, ticks, reads, arrived, taken, link, emitted>> /\ CloseConnection
        /\ asked' = IF connection = None THEN asked ELSE [asked EXCEPT ![connection] = TRUE]
        /\ asked \in [Conns -> BOOLEAN] /\ connection \in Conns \cup {None}
        /\ nat \in [Conns -> NativeStates] /\ s \in [Conns -> BOOLEAN]
    BY DEF UserCloses, Close, ReadersInv, EventsTypeOK, TypeOK, linkVars
  <1>2. \A d \in Conns : asked[d] => asked'[d]
    BY <1>1
  <1>3. ChunkInv'
    BY <1>1, <1>2, ChunksKept DEF ReadersInv, TypeOK
  <1>4. \A d : Of(d)' = Of(d)
    BY <1>1 DEF Of
  <1>5. CASE connection = None
    <2>1. UNCHANGED <<nat, s, asked>>
      BY <1>1, <1>5 DEF CloseConnection
    <2>2. TurnInv' /\ CauseInv'
      BY <1>1, <1>4, <2>1 DEF ReadersInv, TurnInv, CauseInv, Established
    <2> QED
      BY <1>3, <2>2
  <1>6. CASE connection # None
    <2>1. /\ connection \in Conns /\ nat[connection] = "open"
          /\ nat' = [nat EXCEPT ![connection] = "shut"]
          /\ s' = [s EXCEPT ![connection] = FALSE]
          /\ asked' = [asked EXCEPT ![connection] = TRUE]
      BY <1>1, <1>6, OnceCloses DEF CloseConnection, NativeClose, ReadersInv, OnceInv, PortInv, CurrentIsOpen
    <2>2. \A d \in Conns : Established(d) => Established(d)'
      BY <1>1, <2>1 DEF Established
    <2>3. TurnInv'
      BY <1>1, <2>2 DEF ReadersInv, TurnInv
    <2>4. CauseInv'
      <3>1. ASSUME NEW d \in Conns, d # connection
            PROVE  nat'[d] = nat[d] /\ s'[d] = s[d] /\ asked'[d] = asked[d]
        BY <1>1, <2>1, <3>1
      <3>2. nat'[connection] = "shut" /\ ~s'[connection] /\ asked'[connection]
        BY <1>1, <2>1
      <3> QED
        BY <1>1, <1>4, <3>1, <3>2 DEF ReadersInv, CauseInv
    <2> QED
      BY <1>3, <2>3, <2>4
  <1> QED
    BY <1>5, <1>6

\* The library closes the port because of what its last read reported.
LEMMA LibraryClosesStep ==
  ASSUME ReadersInv, NEW r \in BagToSet(reads), r.stage \in {"empty", "error"},
         Leave(r), CloseConnection, listeners' \in {listeners, <<>>},
         UNCHANGED <<ticks, arrived, taken, link, emitted, asked>>
  PROVE  TurnInv' /\ CauseInv' /\ ChunkInv'
  <1>1. /\ r \in Of(r.on) /\ Of(r.on) # {}
        /\ r.on \in Conns /\ Established(r.on) /\ ticks = <<>>
        /\ \A d : Of(d) \subseteq {r}
    BY OneRead DEF Of, ReadersInv
  <1>2. reads' = EmptyBag /\ \A d : Of(d)' = {}
    BY OneLeaves DEF Of, ReadersInv
  <1>3. asked[r.on] \/ link[r.on] # "up"
    BY <1>1 DEF ReadersInv, CauseInv
  <1>4. \A d \in Conns : \/ nat'[d] = nat[d] /\ s'[d] = s[d]
                         \/ d = r.on /\ nat'[d] = "shut" /\ ~s'[d]
    <2>1. nat \in [Conns -> NativeStates] /\ s \in [Conns -> BOOLEAN] /\ OnceInv
      BY DEF ReadersInv, TypeOK
    <2>2. connection \in Conns /\ nat[connection] = "open" => connection = r.on
      BY <1>1, <2>1, OneEstablished DEF Established
    <2> QED
      BY <2>1, <2>2, OnceCloses
  <1>5. TurnInv'
    <2>1. \A d \in Conns : Established(d) => Established(d)'
      BY <1>4 DEF Established
    <2> QED
      BY <1>1, <1>2, <2>1 DEF ReadersInv, TurnInv
  <1>6. CauseInv'
    BY <1>1, <1>2, <1>3, <1>4 DEF ReadersInv, CauseInv, Established
  <1>7. ChunkInv'
    <2>1. \A d : Emitted(d)' = Emitted(d)
      BY DEF Emitted
    <2>2. \A d : ~ \E q \in Of(d) : q.stage = "data"
      BY <1>1
    <2> QED
      BY <1>2, <2>1, <2>2 DEF ReadersInv, ChunkInv, InOrder
  <1> QED
    BY <1>5, <1>6, <1>7


\* A chunk is appended, or bytes of another origin.
LEMMA AppendInOrder ==
  ASSUME NEW S \in SUBSET Nat, NEW e \in Seq(S), NEW x \in S, InOrder(e),
         x # 0 => {e[i] : i \in DOMAIN e} \ {0} = 1..(x - 1)
  PROVE  /\ InOrder(Append(e, x))
         /\ {Append(e, x)[i] : i \in DOMAIN Append(e, x)} = {e[i] : i \in DOMAIN e} \cup {x}
         /\ Range(Append(e, x)) = Range(e) \cup {x}
  <1> DEFINE f == Append(e, x)
  <1>1. /\ Len(e) \in Nat /\ DOMAIN e = 1..Len(e) /\ DOMAIN f = 1..(Len(e) + 1)
        /\ \A i \in 1..Len(e) : f[i] = e[i]
        /\ f[Len(e) + 1] = x
    BY AppendProperties, LenProperties
  <1> HIDE DEF f
  <1>2. ASSUME NEW j \in 1..(Len(e) + 1) PROVE {f[i] : i \in 1..(j - 1)} = {e[i] : i \in 1..(j - 1)}
    BY <1>1
  <1>3. ASSUME NEW j \in DOMAIN f, f[j] # 0
        PROVE  {f[i] : i \in 1..(j - 1)} \ {0} = 1..(f[j] - 1)
    <2>1. CASE j \in 1..Len(e)
      <3>1. {e[i] : i \in 1..(j - 1)} \ {0} = 1..(e[j] - 1) /\ f[j] = e[j]
        BY <1>1, <1>3, <2>1 DEF InOrder
      <3> QED
        BY <1>1, <1>2, <3>1
    <2>2. CASE j = Len(e) + 1
      <3>1. f[j] = x /\ j - 1 = Len(e)
        BY <1>1, <2>2
      <3>2. {f[i] : i \in 1..(j - 1)} = {e[i] : i \in DOMAIN e}
        BY <1>1, <1>2, <3>1
      <3> QED
        BY <1>3, <3>1, <3>2
    <2> QED
      BY <1>1, <2>1, <2>2
  <1>4. {f[i] : i \in DOMAIN f} = {e[i] : i \in DOMAIN e} \cup {x}
    BY <1>1
  <1> QED
    BY <1>3, <1>4 DEF f, InOrder, Range

\* 'data': the chunk that was in the hands of the read is emitted.
LEMMA EmitDataStep ==
  ASSUME ReadersInv, NEW r \in BagToSet(reads), EmitData(r)
  PROVE  TurnInv' /\ CauseInv' /\ ChunkInv'
  <1> DEFINE e == emitted[r.on]
  <1>1. /\ r \in Of(r.on) /\ r \in Read /\ r.on \in Conns
        /\ listeners = <<r.on>> /\ \A d : Of(d) = {} \/ (Of(d) = {r} /\ d = r.on)
    BY OneRead DEF Of, ReadersInv
  <1>2. reads' = EmptyBag /\ \A d : Of(d)' = {}
    BY OneLeaves DEF Of, ReadersInv, EmitData, AfterReadData
  <1>3. /\ ticks' = listeners
        /\ UNCHANGED <<connection, listeners, nat, s, arrived, taken, link, asked>>
        /\ r.stage \in {"data", "foreign"}
        /\ emitted \in [Conns -> Seq(0..MaxData)]
        /\ emitted' = [emitted EXCEPT ![r.on] = Append(e, r.chunk)]
    BY DEF EmitData, AfterReadData, linkVars, ReadersInv, EventsTypeOK
  <1>4. TurnInv'
    BY <1>2, <1>3 DEF ReadersInv, TurnInv, Established
  <1>5. CauseInv'
    <2>1. \A d \in Conns : ticks' = <<d>> => Of(d) # {}
      BY <1>1, <1>3
    <2> QED
      BY <1>2, <1>3, <2>1 DEF ReadersInv, CauseInv
  <1>6. ChunkInv'
    <2>1. ASSUME NEW d \in Conns, d # r.on PROVE emitted'[d] = emitted[d] /\ Of(d) = {}
      BY <1>1, <1>3, <2>1
    <2>2. emitted'[r.on] = Append(e, r.chunk) /\ e \in Seq(0..MaxData)
      BY <1>1, <1>3
    <2>3. taken[r.on] \in Nat /\ r.chunk \in 0..MaxData /\ 0..MaxData \in SUBSET Nat
      BY <1>1, BoundAssumption DEF ReadersInv, TypeOK, Read
    <2>4. /\ InOrder(e)
          /\ 0 \in Range(e) => asked[r.on]
          /\ r.stage = "data" => r.chunk = taken[r.on] /\ taken[r.on] > 0
                                /\ Emitted(r.on) = 1..(taken[r.on] - 1)
          /\ r.stage = "foreign" => r.chunk = 0 /\ Emitted(r.on) = 1..taken[r.on] /\ asked[r.on]
      BY <1>1 DEF ReadersInv, ChunkInv, CauseInv
    <2>5. /\ InOrder(emitted'[r.on])
          /\ Range(emitted'[r.on]) = Range(e) \cup {r.chunk}
          /\ Emitted(r.on)' = Emitted(r.on) \cup ({r.chunk} \ {0})
      <3>1. r.chunk # 0 => {e[i] : i \in DOMAIN e} \ {0} = 1..(r.chunk - 1)
        BY <1>3, <2>4 DEF Emitted
      <3>2. /\ InOrder(Append(e, r.chunk))
            /\ {Append(e, r.chunk)[i] : i \in DOMAIN Append(e, r.chunk)}
                 = {e[i] : i \in DOMAIN e} \cup {r.chunk}
            /\ Range(Append(e, r.chunk)) = Range(e) \cup {r.chunk}
        <4>1. InOrder(e) /\ e \in Seq(0..MaxData)
          BY <2>2, <2>4
        <4> HIDE DEF e
        <4> QED
          BY <2>3, <3>1, <4>1, AppendInOrder
      <3> QED
        BY <2>2, <3>2 DEF Emitted
    <2>6. Emitted(r.on)' = 1..taken[r.on]
      <3>1. CASE r.stage = "data"
        <4>1. 1..taken[r.on] = 1..(taken[r.on] - 1) \cup {taken[r.on]} /\ taken[r.on] # 0
          BY <2>3, <2>4, <3>1
        <4> QED
          BY <2>4, <2>5, <3>1, <4>1
      <3>2. CASE r.stage = "foreign"
        BY <2>4, <2>5, <3>2
      <3> QED
        BY <1>3, <3>1, <3>2
    <2>7. 0 \in Range(emitted'[r.on]) => asked[r.on]
      <3>1. r.stage = "data" => r.chunk # 0
        BY <2>3, <2>4
      <3>2. r.chunk # 0 \/ asked[r.on]
        BY <1>3, <2>4, <3>1
      <3>3. ASSUME 0 \in Range(emitted'[r.on]) PROVE asked[r.on]
        <4>1. 0 \in Range(e) \/ r.chunk = 0
          BY <2>5, <3>3
        <4> QED
          BY <2>4, <3>2, <4>1, Zenon
      <3> QED
        BY <3>3
    <2>8. ASSUME NEW d \in Conns
          PROVE  /\ taken[d] <= arrived[d]
                 /\ InOrder(emitted'[d])
                 /\ 0 \in Range(emitted'[d]) => asked[d]
                 /\ Emitted(d)' = 1..taken[d]
      <3>1. CASE d = r.on
        BY <2>5, <2>6, <2>7, <3>1 DEF ReadersInv, ChunkInv
      <3>2. CASE d # r.on
        <4>1. emitted'[d] = emitted[d] /\ Of(d) = {}
          BY <2>1, <3>2
        <4>2. Emitted(d)' = Emitted(d) /\ Emitted(d) = 1..taken[d]
          BY <4>1 DEF ReadersInv, ChunkInv, Emitted
        <4> QED
          BY <4>1, <4>2 DEF ReadersInv, ChunkInv
      <3> QED
        BY <3>1, <3>2
    <2> QED
      BY <1>2, <1>3, <2>8 DEF ChunkInv
  <1> QED
    BY <1>4, <1>5, <1>6


\* The tick of the chain: an EIO_Read, or nothing when the user has closed.
LEMMA RunTickStep ==
  ASSUME ReadersInv, RunTick, UNCHANGED eventVars
  PROVE  TurnInv' /\ CauseInv' /\ ChunkInv'
  <1>1. PICK c \in Conns : ticks = <<c>> /\ listeners = <<c>> /\ Established(c)
    BY DEF RunTick, ReadersInv, TurnInv
  <1>2. reads = EmptyBag /\ \A d : Of(d) = {}
    BY <1>1, OneInBag DEF ReadersInv, TurnInv, Of
  <1>3. ticks' = <<>> /\ UNCHANGED <<linkVars, emitted, asked>>
    BY <1>1 DEF RunTick, eventVars
  <1>4. CASE connection = None
    <2>1. UNCHANGED <<connection, listeners, nat, s, reads>>
      BY <1>4 DEF RunTick
    <2>2. TurnInv'
      BY <1>2, <1>3, <2>1 DEF ReadersInv, TurnInv, Established
    <2>3. \A d : Of(d)' = {}
      BY <1>2, <2>1 DEF Of
    <2>4. CauseInv'
      BY <1>3, <2>1, <2>3 DEF ReadersInv, CauseInv, linkVars
    <2>5. ChunkInv'
      BY <1>3, <2>1, ChunksKept DEF ReadersInv, TypeOK, linkVars
    <2> QED
      BY <2>2, <2>4, <2>5
  <1>5. CASE connection # None
    <2>1. connection \in Conns /\ nat[connection] = "open" /\ s[connection] /\ OnceInv
      BY <1>5, PortInvImplies DEF ConnectionHasSocket, ReadersInv, OnceInv, PortInv, PortTypes
    <2>2. connection = c
      BY <1>1, <2>1, OneEstablished DEF Established
    <2> DEFINE q == [stage |-> "queued", on |-> c, by |-> c, chunk |-> 0]
    <2>3. UNCHANGED <<connection, listeners, nat, s>> /\ reads' = reads (+) SetToBag({q})
      BY <1>1, <1>5, <2>1, <2>2 DEF RunTick, QueueRead
    <2>4. q \in Read /\ q.stage = "queued" /\ q.on = c /\ q.by = c
      BY BoundAssumption DEF Read
    <2> HIDE DEF q
    <2>5. reads' = SetToBag({q}) /\ BagToSet(reads') = {q}
      BY <1>2, <2>3, OneInBag
    <2>6. \A d : Of(d)' \subseteq {q} /\ (Of(d)' # {} => d = c)
      BY <2>4, <2>5 DEF Of
    <2>7. TurnInv'
      <3>1. (\E d \in Conns : listeners = <<d>> /\ Established(d))'
        BY <1>1, <2>3 DEF Established
      <3>2. ticks' = <<>> /\ listeners' = <<q.by>> /\ q.on = q.by
        BY <1>1, <1>3, <2>3, <2>4
      <3> QED
        BY <2>4, <2>5, <3>1, <3>2 DEF TurnInv
    <2>8. CauseInv'
      <3>1. \A d \in Conns : nat[d] = "shut" => d # c
        BY <2>1, <2>2
      <3> QED
        BY <1>3, <2>3, <2>4, <2>6, <3>1 DEF ReadersInv, CauseInv, linkVars
    <2>9. ChunkInv'
      <3>1. \A d : Emitted(d)' = Emitted(d)
        BY <1>3 DEF Emitted
      <3> QED
        BY <1>2, <1>3, <2>4, <2>6, <3>1 DEF ReadersInv, ChunkInv, InOrder, linkVars
    <2> QED
      BY <2>7, <2>8, <2>9
  <1> QED
    BY <1>4, <1>5

\* The attempt succeeded, and the chain begins.
LEMMA ConnectedStep ==
  ASSUME ReadersInv, NEW c \in Conns, Connected(c), UNCHANGED eventVars
  PROVE  TurnInv' /\ CauseInv' /\ ChunkInv'
  <1>1. /\ ticks = <<>> /\ nat[c] = "connected"
        /\ nat' = [nat EXCEPT ![c] = "open"] /\ nat \in [Conns -> NativeStates]
        /\ listeners' = Append(listeners, c) /\ ticks' = Append(ticks, c)
        /\ UNCHANGED <<s, reads, arrived, taken, link, emitted, asked>>
    BY DEF Connected, linkVars, eventVars, ReadersInv, TypeOK
  <1>2. listeners = <<>>
    <2>1. \A d \in Conns : ~Established(d)
      BY <1>1 DEF Established, ReadersInv, OnceInv, OneAttempt
    <2> QED
      BY <2>1 DEF ReadersInv, TurnInv
  <1>3. reads = EmptyBag
    BY <1>2 DEF ReadersInv, TurnInv
  <1>4. listeners' = <<c>> /\ ticks' = <<c>>
    BY <1>1, <1>2
  <1>5. TurnInv'
    <2>1. Established(c)'
      BY <1>1 DEF Established
    <2> QED
      BY <1>1, <1>3, <1>4, <2>1 DEF TurnInv
  <1>6. CauseInv'
    <2>1. \A d \in Conns : nat'[d] = IF d = c THEN "open" ELSE nat[d]
      BY <1>1
    <2>2. \A d : Of(d)' = Of(d)
      BY <1>1 DEF Of
    <2> QED
      BY <1>1, <1>4, <2>1, <2>2 DEF ReadersInv, CauseInv
  <1>7. ChunkInv'
    BY <1>1, ChunksKept DEF ReadersInv, TypeOK
  <1> QED
    BY <1>5, <1>6, <1>7

\* The remote device sends or leaves.
LEMMA RemoteStep ==
  ASSUME ReadersInv, Remote, UNCHANGED eventVars
  PROVE  TurnInv' /\ CauseInv' /\ ChunkInv'
  <1>1. /\ UNCHANGED <<jsVars, nat, s, reads, taken, emitted, asked>>
        /\ \A d \in Conns : /\ arrived[d] \in Nat /\ arrived'[d] \in Nat
                            /\ arrived[d] <= arrived'[d] /\ taken[d] \in Nat
        /\ \A d \in Conns : link[d] # "up" => link'[d] # "up"
    <2>1. ASSUME NEW c \in Conns, RemoteSends(c)
          PROVE  /\ UNCHANGED <<jsVars, nat, s, reads, taken, link>>
                 /\ \A d \in Conns : arrived[d] \in Nat /\ arrived'[d] \in Nat /\ arrived[d] <= arrived'[d]
      BY <2>1 DEF RemoteSends, nativeVars, ReadersInv, TypeOK
    <2>2. ASSUME NEW c \in Conns, RemoteEnds(c)
          PROVE  /\ UNCHANGED <<jsVars, nat, s, reads, taken, arrived>>
                 /\ \A d \in Conns : link[d] # "up" => link'[d] # "up"
      BY <2>2 DEF RemoteEnds, nativeVars, ReadersInv, TypeOK
    <2>3. \A d \in Conns : taken[d] \in Nat /\ arrived[d] \in Nat
      BY DEF ReadersInv, TypeOK
    <2> QED
      BY <2>1, <2>2, <2>3 DEF Remote, eventVars
  <1>2. TurnInv'
    BY <1>1 DEF ReadersInv, TurnInv, jsVars, Established
  <1>3. CauseInv'
    <2>1. \A d : Of(d)' = Of(d)
      BY <1>1 DEF Of
    <2>2. \A d \in Conns : taken[d] < arrived[d] => taken'[d] < arrived'[d]
      BY <1>1
    <2> QED
      BY <1>1, <2>1, <2>2 DEF ReadersInv, CauseInv, jsVars
  <1>4. ChunkInv'
    BY <1>1, ChunksKept DEF ReadersInv
  <1> QED
    BY <1>2, <1>3, <1>4


\* A pool thread goes on with its read, and does not take a chunk.  Where it
\* finds the descriptor gone, the user has closed the port (Gone).
LEMMA ReadStep ==
  ASSUME ReadersInv, NEW r \in BagToSet(reads), UNCHANGED eventVars,
         ReadBegins(r) \/ ReadSelects(r) \/ ReadReturns(r) \/ ReadClosed(r) \/ ReadStdin(r)
  PROVE  TurnInv' /\ CauseInv' /\ ChunkInv'
  <1> DEFINE c == r.on
  <1>1. /\ r \in Read /\ c \in Conns /\ Established(c) /\ ticks = <<>>
        /\ \A d : Of(d) = {} \/ (Of(d) = {r} /\ d = c)
        /\ Of(c) = {r}
    BY OneRead DEF Of, ReadersInv
  <1>gone. ~s[c] => asked[c]
    <2>1. ~s[c] => nat[c] = "shut"
      BY <1>1 DEF ReadersInv, OnceInv, PortInv, HasSocket, Established
    <2> QED
      BY <1>1, <2>1 DEF ReadersInv, CauseInv
  <1>open. s[c] => ~asked[c]
    BY <1>1 DEF ReadersInv, CauseInv
  <1>2. /\ UNCHANGED <<jsVars, nat, s, arrived, taken, link, emitted, asked>>
        /\ r.stage \notin {"data", "foreign"}
    BY DEF ReadBegins, ReadSelects, ReadReturns, ReadClosed, ReadStdin, linkVars, eventVars
  <1>3. PICK stage \in {"selecting", "ready", "stdin", "foreign", "empty", "error"} :
          /\ Proceed(r, stage, 0)
          /\ stage \in {"stdin", "foreign"} => asked[c]
          /\ stage = "ready" => asked[c] \/ taken[c] < arrived[c] \/ link[c] # "up"
          /\ stage \in {"empty", "error"} => asked[c] \/ link[c] # "up"
    <2>1. CASE ReadBegins(r)
      BY <1>gone, <2>1 DEF ReadBegins
    <2>2. CASE ReadSelects(r)
      BY <1>gone, <2>2 DEF ReadSelects
    <2>3. CASE ReadReturns(r)
      <3>1. taken[c] < arrived[c] \/ link[c] # "up"
        BY <1>1, <1>open, <2>3 DEF ReadReturns, ReadersInv, CauseInv
      <3>2. taken[c] \in Nat /\ arrived[c] \in Nat
        BY <1>1 DEF ReadersInv, TypeOK
      <3>3. link[c] # "up"
        BY <2>3, <3>1, <3>2 DEF ReadReturns
      <3> QED
        BY <2>3, <3>3 DEF ReadReturns
    <2>4. CASE ReadClosed(r)
      BY <1>gone, <2>4 DEF ReadClosed
    <2>5. CASE ReadStdin(r)
      <3>1. asked[c]
        BY <1>1, <2>5 DEF ReadStdin, ReadersInv, CauseInv
      <3> QED
        BY <2>5, <3>1 DEF ReadStdin
    <2> QED
      BY <2>1, <2>2, <2>3, <2>4, <2>5
  <1>4. [r EXCEPT !.stage = stage, !.chunk = 0] \in Read
    <2>1. stage \in {"queued", "selecting", "ready", "stdin"} \cup Results /\ 0 \in 0..MaxData
      BY <1>3, BoundAssumption DEF Results
    <2> QED
      BY <1>1, <2>1 DEF Read
  <1>5. /\ TurnInv'
        /\ \A q \in BagToSet(reads') : q.stage = stage /\ q.chunk = 0 /\ q.on = c
    BY <1>2, <1>3, <1>4, OneProceeds DEF ReadersInv
  <1>6. \A d : \A q \in Of(d)' : q.stage = stage /\ d = c
    BY <1>5 DEF Of
  <1>7. CauseInv'
    <2>1. \A d \in Conns : nat[d] = "shut" /\ Of(d)' # {} => asked[d]
      <3>1. nat[c] = "shut" => asked[c]
        BY <1>1 DEF ReadersInv, CauseInv
      <3> QED
        BY <1>6, <3>1
    <2>2. \A d \in Conns : ticks # <<d>>
      BY <1>1
    <2> QED
      BY <1>2, <1>3, <1>6, <2>1, <2>2 DEF ReadersInv, CauseInv, jsVars
  <1>8. ChunkInv'
    <2>1. \A d : Emitted(d)' = Emitted(d)
      BY <1>2 DEF Emitted
    <2>2. \A d : (~ \E q \in Of(d) : q.stage = "data") /\ (~ \E q \in Of(d)' : q.stage = "data")
      BY <1>1, <1>2, <1>3, <1>6
    <2>3. \A d : \A q \in Of(d)' : q.chunk = 0
      BY <1>5 DEF Of
    <2> QED
      BY <1>2, <2>1, <2>2, <2>3 DEF ReadersInv, ChunkInv, InOrder
  <1> QED
    BY <1>5, <1>7, <1>8

\* A pool thread takes the next chunk.
LEMMA TakeStep ==
  ASSUME ReadersInv, NEW r \in BagToSet(reads), UNCHANGED eventVars, ReadTakes(r)
  PROVE  TurnInv' /\ CauseInv' /\ ChunkInv'
  <1> DEFINE c == r.on
             n == taken[r.on] + 1
  <1>1. /\ r \in Read /\ c \in Conns /\ Established(c) /\ ticks = <<>>
        /\ \A d : Of(d) = {} \/ (Of(d) = {r} /\ d = c)
        /\ Of(c) = {r}
    BY OneRead DEF Of, ReadersInv
  <1>2. /\ UNCHANGED <<jsVars, nat, s, arrived, link, emitted, asked>>
        /\ r.stage = "ready" /\ s[c] /\ taken[c] < arrived[c]
        /\ Proceed(r, "data", n)
        /\ taken \in [Conns -> 0..MaxData] /\ arrived[c] \in 0..MaxData
        /\ taken' = [taken EXCEPT ![c] = n]
    BY <1>1 DEF ReadTakes, eventVars, ReadersInv, TypeOK
  <1>3. n \in 0..MaxData /\ n > 0 /\ n - 1 = taken[c] /\ n <= arrived[c]
    <2>1. taken[c] \in 0..MaxData
      BY <1>1, <1>2
    <2> QED
      BY <1>2, <2>1, BoundAssumption
  <1> HIDE DEF n
  <1>4. [r EXCEPT !.stage = "data", !.chunk = n] \in Read
    BY <1>1, <1>3 DEF Read, Results
  <1>5. /\ TurnInv'
        /\ \A q \in BagToSet(reads') : q.stage = "data" /\ q.chunk = n /\ q.on = c
        /\ \E q \in BagToSet(reads') : TRUE
    BY <1>2, <1>4, OneProceeds DEF ReadersInv
  <1>6. /\ \A d : \A q \in Of(d)' : q.stage = "data" /\ q.chunk = n /\ d = c
        /\ \E q \in Of(c)' : q.stage = "data"
    BY <1>5 DEF Of
  <1>7. CauseInv'
    <2>1. nat[c] # "shut"
      BY <1>1, <1>2 DEF ReadersInv, CauseInv
    <2>2. \A d \in Conns : ticks # <<d>>
      BY <1>1
    <2> QED
      BY <1>2, <1>6, <2>1, <2>2 DEF ReadersInv, CauseInv, jsVars
  <1>8. ChunkInv'
    <2>1. \A d : Emitted(d)' = Emitted(d)
      BY <1>2 DEF Emitted
    <2>2. \A d \in Conns : taken'[d] = IF d = c THEN n ELSE taken[d]
      BY <1>2
    <2>3. ASSUME NEW d \in Conns
          PROVE  /\ taken'[d] <= arrived[d]
                 /\ IF \E q \in Of(d)' : q.stage = "data"
                      THEN taken'[d] > 0 /\ Emitted(d) = 1..(taken'[d] - 1)
                      ELSE Emitted(d) = 1..taken'[d]
                 /\ \A q \in Of(d)' : /\ q.stage = "data" => q.chunk = taken'[d]
                                      /\ q.stage = "foreign" => q.chunk = 0
      <3>1. CASE d = c
        <4>1. Emitted(c) = 1..(n - 1)
          BY <1>1, <1>2, <1>3 DEF ReadersInv, ChunkInv
        <4>2. taken'[d] = n
          BY <2>2, <3>1
        <4> QED
          BY <1>3, <1>6, <3>1, <4>1, <4>2
      <3>2. CASE d # c
        <4>1. Of(d) = {} /\ Of(d)' = {} /\ taken'[d] = taken[d]
          BY <1>1, <1>6, <2>2, <3>2
        <4> QED
          BY <4>1 DEF ReadersInv, ChunkInv
      <3> QED
        BY <3>1, <3>2
    <2> QED
      BY <1>2, <2>1, <2>3 DEF ReadersInv, ChunkInv, InOrder
  <1> QED
    BY <1>5, <1>7, <1>8

\* What the user was told keeps its type.
LEMMA EventTypesStep == TypeOK /\ EventsTypeOK /\ [EventsNext]_allVars => EventsTypeOK'
<1> SUFFICES ASSUME TypeOK, EventsTypeOK, [EventsNext]_allVars PROVE EventsTypeOK'
  OBVIOUS
<1>1. CASE UNCHANGED eventVars
  BY <1>1 DEF EventsTypeOK, eventVars
<1>2. CASE UserCloses
  BY <1>2 DEF UserCloses, EventsTypeOK
<1>3. ASSUME NEW r \in BagToSet(reads), EmitData(r) PROVE EventsTypeOK'
  <2>1. r \in Read
    BY DEF TypeOK
  <2>2. emitted[r.on] \in Seq(0..MaxData) /\ r.on \in Conns /\ r.chunk \in 0..MaxData
    BY <2>1 DEF EventsTypeOK, Read
  <2>3. Append(emitted[r.on], r.chunk) \in Seq(0..MaxData)
    BY <2>2, AppendProperties
  <2> QED
    BY <1>3, <2>2, <2>3 DEF EmitData, EventsTypeOK
<1>4. ASSUME NEW r \in BagToSet(reads), EmitFailure(r) PROVE EventsTypeOK'
  BY <1>4 DEF EmitFailure, EventsTypeOK, TypeOK, Read
<1> QED
  BY <1>1, <1>2, <1>3, <1>4 DEF EventsNext, UserConnects, EmitEmpty, Silent, allVars

\* The initial states satisfy the invariant.
LEMMA ReadersInit == EventsInit => ReadersInv
<1> SUFFICES ASSUME EventsInit PROVE ReadersInv
  OBVIOUS
<1>1. OnceInv /\ TypeOK
  BY PortInit, TypesInit DEF EventsInit, Init, OnceInv, OneAttempt, IsOpenIsExact
<1>2. EventsTypeOK
  BY DEF EventsInit, EventsTypeOK
<1>3. BagToSet(reads) = {} /\ \A c : Of(c) = {}
  BY OneInBag DEF EventsInit, Init, Of
<1>4. TurnInv /\ CauseInv
  BY <1>3 DEF EventsInit, Init, TurnInv, CauseInv
<1>5. ChunkInv
  BY <1>3 DEF EventsInit, Init, ChunkInv, Emitted, InOrder, Range
<1> QED
  BY <1>1, <1>2, <1>4, <1>5 DEF ReadersInv

\* Every step of a port that is connected once preserves the invariant.
LEMMA ReadersStep == ReadersInv /\ [OnceNext]_allVars => ReadersInv'
<1> SUFFICES ASSUME ReadersInv, [OnceNext]_allVars PROVE ReadersInv'
  OBVIOUS
<1>events. [EventsNext]_allVars
  BY DEF OnceNext
<1>once. OnceInv' /\ TypeOK' /\ EventsTypeOK'
  BY <1>events, OnceStep, EventsStep, TypesStep, EventTypesStep DEF ReadersInv, OnceInv
<1>nat. nat' \in [Conns -> NativeStates] /\ nat \in [Conns -> NativeStates] /\ s \in [Conns -> BOOLEAN]
  BY <1>once DEF TypeOK, ReadersInv
<1> SUFFICES TurnInv' /\ CauseInv' /\ ChunkInv'
  BY <1>once DEF ReadersInv
<1>1. CASE UNCHANGED allVars
  <2>1. UNCHANGED <<nat, s, listeners, ticks, reads, linkVars, emitted, asked>>
    BY <1>1 DEF allVars, vars, jsVars, nativeVars, eventVars
  <2>2. \A d : Of(d)' = Of(d)
    BY <2>1 DEF Of
  <2>3. TurnInv' /\ CauseInv'
    BY <2>1, <2>2 DEF ReadersInv, TurnInv, CauseInv, Established, linkVars
  <2>4. ChunkInv'
    BY <2>1, ChunksKept DEF ReadersInv, TypeOK, linkVars
  <2> QED
    BY <2>3, <2>4
<1>2. ASSUME NEW c \in Conns,
             UserConnects(c) \/ ((NotConnected(c) \/ EIO_Connect(c)) /\ UNCHANGED eventVars)
      PROVE  TurnInv' /\ CauseInv' /\ ChunkInv'
  <2>1. /\ nat[c] \in {"none", "refused", "connecting"}
        /\ nat'[c] \in {"connecting", "failed", "connected", "refused"}
        /\ \A d \in Conns \ {c} : nat'[d] = nat[d] /\ s'[d] = s[d]
        /\ UNCHANGED <<listeners, ticks, reads, linkVars, emitted, asked>>
    BY <1>2, <1>nat DEF UserConnects, Connect, NotConnected, NativeClose, EIO_Connect, jsVars, eventVars
  <2> QED
    BY <2>1, <1>nat, AttemptStep DEF Established
<1>3. CASE UserCloses
  BY <1>3, UserClosesStep
<1>4. ASSUME NEW r \in BagToSet(reads), EmitData(r) PROVE TurnInv' /\ CauseInv' /\ ChunkInv'
  BY <1>4, EmitDataStep
<1>5. ASSUME NEW r \in BagToSet(reads), EmitEmpty(r) \/ EmitFailure(r)
      PROVE  TurnInv' /\ CauseInv' /\ ChunkInv'
  <2>1. /\ listeners = <<r.by>>
        /\ RemoveFirst(listeners, r.by) = <<>>
    BY OneRead, RemoveOnly DEF ReadersInv
  <2>2. /\ r.stage \in {"empty", "error"} /\ Leave(r) /\ CloseConnection
        /\ listeners' \in {listeners, <<>>}
        /\ UNCHANGED <<ticks, arrived, taken, link, emitted, asked>>
    BY <1>5, <2>1 DEF EmitEmpty, EmitFailure, AfterReadEmpty, AfterReadError, ReadFailed, linkVars, eventVars
  <2> QED
    BY <2>2, LibraryClosesStep
<1>6. CASE RunTick /\ UNCHANGED eventVars
  BY <1>6, RunTickStep
<1>7. ASSUME NEW c \in Conns, Connected(c), UNCHANGED eventVars PROVE TurnInv' /\ CauseInv' /\ ChunkInv'
  BY <1>7, ConnectedStep
<1>8. CASE (EIO_Read \/ Stdin) /\ UNCHANGED eventVars
  BY <1>8, ReadStep, TakeStep DEF EIO_Read, Stdin
<1>9. CASE Remote /\ UNCHANGED eventVars
  BY <1>9, RemoteStep
<1> QED
  BY <1>events, <1>1, <1>2, <1>3, <1>4, <1>5, <1>6, <1>7, <1>8, <1>9 DEF EventsNext, Silent

\* What holds of every state of a port that is connected once.
LEMMA OnceReaders == OnceSpec => []ReadersInv
  BY ReadersInit, ReadersStep, PTL DEF OnceSpec

\* There is one read at a time: every 'data' event starts one, and nothing
\* else does, whenever the user closes and the remote device leaves.
THEOREM OnceReader == OnceSpec => []OneReader
<1>1. ReadersInv => OneReader
  <2> SUFFICES ASSUME ReadersInv PROVE BagCardinality(reads) + Len(ticks) <= 1
    BY DEF OneReader
  <2>1. CASE reads = EmptyBag
    <3>1. BagCardinality(reads) = 0
      BY <2>1, NoneCount
    <3>2. Len(ticks) = 0 \/ Len(ticks) = 1
      BY DEF ReadersInv, TurnInv
    <3> DEFINE k == Len(ticks)
    <3>3. k = 0 \/ k = 1
      BY <3>2
    <3> HIDE DEF k
    <3>4. BagCardinality(reads) + k <= 1
      BY <3>1, <3>3
    <3> QED
      BY <3>4 DEF k
  <2>2. ASSUME NEW r, reads = SetToBag({r}), ticks = <<>>
        PROVE  BagCardinality(reads) + Len(ticks) <= 1
    <3>1. BagCardinality(reads) = 1
      BY <2>2, OneCount
    <3> QED
      BY <2>2, <3>1
  <2> QED
    BY <2>1, <2>2 DEF ReadersInv, TurnInv
<1> QED
  BY <1>1, OnceReaders, PTL

\* The 'data' events are the chunks that the remote device sent, in order and
\* without a gap, for any number of chunks.
THEOREM OnceInOrder == OnceSpec => []DataInOrder
<1>1. ReadersInv => DataInOrder
  BY DEF ReadersInv, ChunkInv, DataInOrder
<1> QED
  BY <1>1, OnceReaders, PTL

\* 'closed' is emitted because the user closed the port, or because the link
\* is no longer up.
THEOREM OnceClosed == OnceSpec => []ClosedForCause
<1>1. ReadersInv => ClosedForCause
  BY DEF ReadersInv, CauseInv, ClosedForCause
<1> QED
  BY <1>1, OnceReaders, PTL
=============================================================================
