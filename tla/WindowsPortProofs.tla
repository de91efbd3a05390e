------------------------- MODULE WindowsPortProofs -------------------------
(***************************************************************************)
(* Theorems about WindowsPort, for any number of connections, writes and   *)
(* socket numbers and any size of the pool: the pool holds exactly the     *)
(* requests that are waited for, and, as long as attempts to connect do    *)
(* not overlap, an open port uses a socket of its own.                     *)
(***************************************************************************)
EXTENDS WindowsPort, RequestLemmas, TLAPS

-----------------------------------------------------------------------------
(* The inductive invariant, whether or not attempts overlap.               *)

\* A request stands in the pool's queue, once, if and only if it is queued.
PoolInv ==
    /\ Distinct(pool)
    /\ \A c \in Conns : InQueue(pool, <<"connect", c>>) <=> port[c] = "queued"
    /\ \A c \in Conns : InQueue(pool, <<"read", c>>) <=> read[c] = "queued"
    /\ \A w \in Writes : InQueue(pool, <<"write", w>>) <=> stage[w] = "queued"

Reached == {"open", "closed"} \* ports whose connect() succeeded and was answered

\* Only a port that was opened is read and written, only a read or write under
\* way has a copy of s, and only a failed attempt is cleaned up.
UseInv ==
    /\ \A c \in Conns : read[c] # "off" \/ recvOn[c] # None => port[c] \in Reached
    /\ \A w \in Writes : /\ stage[w] # "new" => from[w] \in Conns
                         /\ from[w] # None => port[from[w]] \in Reached
                         /\ sendOn[w] # None => stage[w] = "calling"
    /\ js # None => port[js] = "refused"

\* What is due was sent.
DueInv == \A c \in Conns : due[c] <= sent

PortInv == TypeOK /\ PoolInv /\ UseInv /\ DueInv

-----------------------------------------------------------------------------
(* What it takes in addition when attempts do not overlap.                 *)

OneAttempt == \A c, d \in Attempts : c = d

\* A number that a binding has in s is that of its own socket, except between
\* the two times that a failed attempt closes it; then it is nobody's.
SocketInv == \A c \in Conns :
    /\ port[c] \in {"new", "queued", "closed", "failed"} => s[c] = None
    /\ port[c] \in {"connecting", "connected", "open"} => s[c] # None
    /\ s[c] # None => owner[s[c]] = IF js = c THEN None ELSE c

\* The copies of s that threads have are s until the port is closed.
CopyInv ==
    /\ \A c \in Conns : port[c] = "open" => recvOn[c] \in {None, s[c]}
    /\ \A w \in Writes : from[w] # None /\ port[from[w]] = "open"
                           => sendOn[w] \in {None, s[from[w]]}

OwnInv == OneAttempt /\ SocketInv /\ CopyInv

-----------------------------------------------------------------------------
(* The pool.                                                               *)

\* Requests of different kinds are different.
LEMMA Named ==
  /\ \A c \in Conns : <<"connect", c>> \in Requests /\ <<"read", c>> \in Requests
  /\ \A w \in Writes : <<"write", w>> \in Requests
  /\ \A c, d : <<"connect", c>> # <<"read", d>> /\ <<"connect", c>> # <<"write", d>>
                 /\ <<"read", c>> # <<"write", d>>
  /\ \A k, c, d : <<k, c>> = <<k, d>> => c = d
  BY DEF Requests

\* What queueing a request that is not queued does.
LEMMA Queued ==
  ASSUME PoolInv, pool \in Seq(Requests),
         NEW kind, NEW of, <<kind, of>> \in Requests, ~InQueue(pool, <<kind, of>>),
         Queue(kind, of)
  PROVE  /\ pool' \in Seq(Requests) /\ Distinct(pool')
         /\ \A u : InQueue(pool', u) <=> InQueue(pool, u) \/ u = <<kind, of>>
  BY AppendNew DEF Queue, PoolInv

\* What a thread does that takes a request.
LEMMA Started ==
  ASSUME PoolInv, pool \in Seq(Requests), NEW kind, NEW of, Starts(kind, of)
  PROVE  /\ pool' \in Seq(Requests) /\ Distinct(pool')
         /\ InQueue(pool, <<kind, of>>)
         /\ \A u : InQueue(pool', u) <=> InQueue(pool, u) /\ u # <<kind, of>>
  <1>1. pool # <<>> /\ Head(pool) = <<kind, of>> /\ pool' = Tail(pool) /\ Distinct(pool)
    BY DEF Starts, PoolInv
  <1> QED
    BY <1>1, RemoveHead

LEMMA PoolStep == PortInv /\ [Next]_vars => PoolInv' /\ pool' \in Seq(Requests)
  <1> SUFFICES ASSUME PortInv, [Next]_vars PROVE PoolInv' /\ pool' \in Seq(Requests)
    OBVIOUS
  <1> USE DEF jsVars, readVars, sendVars, netVars
  <1>types. /\ PoolInv /\ pool \in Seq(Requests)
            /\ port \in [Conns -> {"new", "queued", "connecting", "connected", "refused",
                                   "open", "closed", "failed"}]
            /\ read \in [Conns -> {"off", "tick", "queued", "selecting", "ready", "receiving",
                                   "data", "empty", "error"}]
            /\ stage \in [Writes -> {"new", "queued", "sending", "calling", "sent", "failed"}]
            /\ js # None => port[js] = "refused"
            /\ \A c \in Conns : read[c] # "off" => port[c] \in Reached
    BY DEF PortInv, UseInv, TypeOK
  <1>1. ASSUME NEW c \in Conns, Connect(c) PROVE PoolInv' /\ pool' \in Seq(Requests)
    <2>1. /\ port[c] = "new" /\ port' = [port EXCEPT ![c] = "queued"]
          /\ Queue("connect", c) /\ UNCHANGED <<read, stage>>
      BY <1>1 DEF Connect
    <2>2. ~InQueue(pool, <<"connect", c>>)
      BY <2>1, <1>types DEF PoolInv
    <2> QED
      BY <2>1, <2>2, <1>types, Queued, Named DEF PoolInv
  <1>2. ASSUME NEW w \in Writes, Write(w) PROVE PoolInv' /\ pool' \in Seq(Requests)
    <2>1. /\ stage[w] = "new" /\ stage' = [stage EXCEPT ![w] = "queued"]
          /\ Queue("write", w) /\ UNCHANGED <<port, read>>
      BY <1>2 DEF Write
    <2>2. ~InQueue(pool, <<"write", w>>)
      BY <2>1, <1>types DEF PoolInv
    <2> QED
      BY <2>1, <2>2, <1>types, Queued, Named DEF PoolInv
  <1>3. ASSUME NEW c \in Conns, RunTick(c) PROVE PoolInv' /\ pool' \in Seq(Requests)
    <2>1. CASE port[c] = "open"
      <3>1. /\ read[c] = "tick" /\ read' = [read EXCEPT ![c] = "queued"]
            /\ Queue("read", c) /\ UNCHANGED <<port, stage>>
        BY <1>3, <2>1 DEF RunTick
      <3>2. ~InQueue(pool, <<"read", c>>)
        BY <3>1, <1>types DEF PoolInv
      <3> QED
        BY <3>1, <3>2, <1>types, Queued, Named DEF PoolInv
    <2>2. CASE port[c] # "open"
      BY <1>3, <2>2, <1>types DEF RunTick, PoolInv
    <2> QED
      BY <2>1, <2>2
  <1>4. ASSUME NEW c \in Conns, ConnectBegins(c) PROVE PoolInv' /\ pool' \in Seq(Requests)
    <2>1. /\ Starts("connect", c) /\ UNCHANGED <<read, stage>>
          /\ port' = [port EXCEPT ![c] = "connecting"] \/ port' = [port EXCEPT ![c] = "refused"]
      BY <1>4 DEF ConnectBegins
    <2>2. /\ pool' \in Seq(Requests) /\ Distinct(pool')
          /\ InQueue(pool, <<"connect", c>>)
          /\ \A u : InQueue(pool', u) <=> InQueue(pool, u) /\ u # <<"connect", c>>
      BY <2>1, <1>types, Started
    <2> QED
      BY <2>1, <2>2, <1>types, Named DEF PoolInv
  <1>5. ASSUME NEW c \in Conns, ReadBegins(c) PROVE PoolInv' /\ pool' \in Seq(Requests)
    <2>1. /\ Starts("read", c) /\ UNCHANGED <<port, stage>>
          /\ read' = [read EXCEPT ![c] = "empty"] \/ read' = [read EXCEPT ![c] = "selecting"]
      BY <1>5 DEF ReadBegins
    <2>2. /\ pool' \in Seq(Requests) /\ Distinct(pool')
          /\ InQueue(pool, <<"read", c>>)
          /\ \A u : InQueue(pool', u) <=> InQueue(pool, u) /\ u # <<"read", c>>
      BY <2>1, <1>types, Started
    <2> QED
      BY <2>1, <2>2, <1>types, Named DEF PoolInv
  <1>6. ASSUME NEW w \in Writes, WriteBegins(w) PROVE PoolInv' /\ pool' \in Seq(Requests)
    <2>1. /\ Starts("write", w) /\ UNCHANGED <<port, read>>
          /\ stage' = [stage EXCEPT ![w] = "failed"] \/ stage' = [stage EXCEPT ![w] = "sending"]
      BY <1>6 DEF WriteBegins
    <2>2. /\ pool' \in Seq(Requests) /\ Distinct(pool')
          /\ InQueue(pool, <<"write", w>>)
          /\ \A u : InQueue(pool', u) <=> InQueue(pool, u) /\ u # <<"write", w>>
      BY <2>1, <1>types, Started
    <2> QED
      BY <2>1, <2>2, <1>types, Named DEF PoolInv
  <1>7. ASSUME NEW c \in Conns,
               Close(c) \/ Connected(c) \/ NotConnected(c) \/ CleanedUp(c) \/ ConnectEnds(c)
        PROVE  PoolInv' /\ pool' \in Seq(Requests)
    <2>1. ASSUME NEW d \in Conns PROVE port'[d] = "queued" <=> port[d] = "queued"
      BY <1>7, <1>types, NoneAssumption DEF Close, Connected, NotConnected, CleanedUp, ConnectEnds
    <2>2. UNCHANGED <<pool, read, stage>> \/ Connected(c)
      BY <1>7 DEF Close, NotConnected, CleanedUp, ConnectEnds
    <2>3. UNCHANGED <<pool, stage>> /\ \A d \in Conns : read'[d] = "queued" <=> read[d] = "queued"
      BY <2>2, <1>types DEF Connected, Reached
    <2> QED
      BY <2>1, <2>3, <1>types DEF PoolInv
  <1>8. ASSUME NEW c \in Conns, AfterRead(c) PROVE PoolInv' /\ pool' \in Seq(Requests)
    <2>1. \A d \in Conns : /\ port'[d] = "queued" <=> port[d] = "queued"
                           /\ read'[d] = "queued" <=> read[d] = "queued"
      BY <1>8, <1>types DEF AfterRead
    <2> QED
      BY <1>8, <2>1, <1>types DEF AfterRead, PoolInv
  <1>9. ASSUME NEW c \in Conns, ReadSelects(c) \/ ReadLoads(c) \/ ReadEnds(c)
        PROVE  PoolInv' /\ pool' \in Seq(Requests)
    <2>1. \A d \in Conns : read'[d] = "queued" <=> read[d] = "queued"
      BY <1>9, <1>types DEF ReadSelects, ReadLoads, ReadEnds, Receives
    <2> QED
      BY <1>9, <2>1, <1>types DEF ReadSelects, ReadLoads, ReadEnds, PoolInv
  <1>10. ASSUME NEW w \in Writes, WriteLoads(w) \/ WriteSends(w)
         PROVE  PoolInv' /\ pool' \in Seq(Requests)
    <2>1. \A v \in Writes : stage'[v] = "queued" <=> stage[v] = "queued"
      BY <1>10, <1>types DEF WriteLoads, WriteSends
    <2> QED
      BY <1>10, <2>1, <1>types DEF WriteLoads, WriteSends, PoolInv
  <1>11. ASSUME NEW c \in Conns, RemoteSends(c) \/ RemoteEnds(c)
         PROVE  PoolInv' /\ pool' \in Seq(Requests)
    BY <1>11, <1>types DEF RemoteSends, RemoteEnds, PoolInv
  <1>12. CASE UNCHANGED vars
    BY <1>12, <1>types DEF vars, PoolInv
  <1> QED
    BY <1>1, <1>2, <1>3, <1>4, <1>5, <1>6, <1>7, <1>8, <1>9, <1>10, <1>11, <1>12
       DEF Next, Loop, EIO_Connect, EIO_Read, EIO_Write

-----------------------------------------------------------------------------
(* Reads, writes and what is due.                                          *)

LEMMA UseStep == PortInv /\ [Next]_vars => UseInv'
  <1> SUFFICES ASSUME PortInv, [Next]_vars PROVE UseInv'
    OBVIOUS
  <1> USE DEF jsVars, readVars, sendVars, netVars
  <1>types. /\ UseInv /\ PoolInv /\ pool \in Seq(Requests)
            /\ port \in [Conns -> {"new", "queued", "connecting", "connected", "refused",
                                   "open", "closed", "failed"}]
            /\ js \in Conns \cup {None}
            /\ recvOn \in [Conns -> Handles \cup {None}]
            /\ read \in [Conns -> {"off", "tick", "queued", "selecting", "ready", "receiving",
                                   "data", "empty", "error"}]
            /\ stage \in [Writes -> {"new", "queued", "sending", "calling", "sent", "failed"}]
            /\ from \in [Writes -> Conns \cup {None}]
            /\ sendOn \in [Writes -> Handles \cup {None}]
            /\ None \notin Conns
    BY NoneAssumption DEF PortInv, TypeOK
  <1>1. ASSUME NEW c \in Conns, Connect(c) \/ Close(c) \/ Connected(c) PROVE UseInv'
    BY <1>1, <1>types DEF Connect, Close, Connected, UseInv, Reached
  <1>2. ASSUME NEW w \in Writes, Write(w) PROVE UseInv'
    BY <1>2, <1>types DEF Write, UseInv, Reached
  <1>3. ASSUME NEW c \in Conns, NotConnected(c) \/ CleanedUp(c) PROVE UseInv'
    BY <1>3, <1>types DEF NotConnected, CleanedUp, UseInv, Reached
  <1>4. ASSUME NEW c \in Conns, RunTick(c) PROVE UseInv'
    BY <1>4, <1>types DEF RunTick, UseInv, Reached
  <1>5. ASSUME NEW c \in Conns, AfterRead(c) PROVE UseInv'
    BY <1>5, <1>types DEF AfterRead, UseInv, Reached
  <1>6. ASSUME NEW c \in Conns, ConnectBegins(c) PROVE UseInv'
    <2>1. port[c] = "queued"
      BY <1>6, <1>types, Started DEF ConnectBegins, PoolInv
    <2> QED
      BY <1>6, <2>1, <1>types DEF ConnectBegins, UseInv, Reached
  <1>7. ASSUME NEW c \in Conns, ConnectEnds(c) PROVE UseInv'
    BY <1>7, <1>types DEF ConnectEnds, UseInv, Reached
  <1>8. ASSUME NEW c \in Conns, ReadBegins(c) PROVE UseInv'
    <2>1. read[c] = "queued"
      BY <1>8, <1>types, Started DEF ReadBegins, PoolInv
    <2> QED
      BY <1>8, <2>1, <1>types DEF ReadBegins, UseInv, Reached
  <1>9. ASSUME NEW c \in Conns, ReadSelects(c) \/ ReadLoads(c) PROVE UseInv'
    BY <1>9, <1>types DEF ReadSelects, ReadLoads, UseInv, Reached
  <1>10. ASSUME NEW c \in Conns, ReadEnds(c) PROVE UseInv'
    BY <1>10, <1>types DEF ReadEnds, Receives, UseInv, Reached
  <1>11. ASSUME NEW w \in Writes, WriteBegins(w) PROVE UseInv'
    <2>1. stage[w] = "queued"
      BY <1>11, <1>types, Started DEF WriteBegins, PoolInv
    <2> QED
      BY <1>11, <2>1, <1>types DEF WriteBegins, UseInv, Reached
  <1>12. ASSUME NEW w \in Writes, WriteLoads(w) \/ WriteSends(w) PROVE UseInv'
    BY <1>12, <1>types DEF WriteLoads, WriteSends, UseInv, Reached
  <1>13. ASSUME NEW c \in Conns, RemoteSends(c) \/ RemoteEnds(c) PROVE UseInv'
    BY <1>13, <1>types DEF RemoteSends, RemoteEnds, UseInv, Reached
  <1>14. CASE UNCHANGED vars
    BY <1>14, <1>types DEF vars, UseInv, Reached
  <1> QED
    BY <1>1, <1>2, <1>3, <1>4, <1>5, <1>6, <1>7, <1>8, <1>9, <1>10, <1>11, <1>12, <1>13, <1>14
       DEF Next, Loop, EIO_Connect, EIO_Read, EIO_Write

\* A number that a thread gives to recv() with success belongs to a connection.
LEMMA DueStep ==
  PortInv /\ [Next]_vars => DueInv' /\ sent' \in 0..MaxData /\ due' \in [Conns -> 0..MaxData]
  <1> SUFFICES ASSUME PortInv, [Next]_vars
               PROVE  DueInv' /\ sent' \in 0..MaxData /\ due' \in [Conns -> 0..MaxData]
    OBVIOUS
  <1> USE DEF jsVars, readVars, sendVars, netVars
  <1>types. /\ \A c \in Conns : due[c] <= sent
            /\ sent \in 0..MaxData /\ due \in [Conns -> 0..MaxData] /\ MaxData \in Nat
            /\ owner \in [Handles -> Conns \cup {None}]
            /\ recvOn \in [Conns -> Handles \cup {None}]
    BY ThreadsAssumption DEF PortInv, TypeOK, DueInv
  <1>1. CASE UNCHANGED <<sent, due>>
    BY <1>1, <1>types DEF DueInv
  <1>2. ASSUME NEW c \in Conns, ReadEnds(c)
        PROVE  DueInv' /\ sent' \in 0..MaxData /\ due' \in [Conns -> 0..MaxData]
    <2>1. CASE Usable(recvOn[c]) /\ due[owner[recvOn[c]]] > 0
      <3> DEFINE d == owner[recvOn[c]]
      <3>1. d \in Conns
        BY <2>1, <1>types DEF Usable
      <3>2. due' = [due EXCEPT ![d] = @ - 1] /\ sent' = sent
        BY <1>2, <2>1 DEF ReadEnds, Receives
      <3>3. due[d] - 1 \in 0..MaxData /\ due[d] - 1 <= sent
        BY <2>1, <3>1, <1>types
      <3> HIDE DEF d
      <3> QED
        BY <3>1, <3>2, <3>3, <1>types DEF DueInv
    <2>2. CASE ~(Usable(recvOn[c]) /\ due[owner[recvOn[c]]] > 0)
      BY <1>1, <1>2, <2>2 DEF ReadEnds, Receives
    <2> QED
      BY <2>1, <2>2
  <1>3. ASSUME NEW c \in Conns, RemoteSends(c)
        PROVE  DueInv' /\ sent' \in 0..MaxData /\ due' \in [Conns -> 0..MaxData]
    BY <1>3, <1>types DEF RemoteSends, DueInv
  <1>4. ASSUME NEW c \in Conns, RemoteEnds(c) \/ Connect(c) \/ Close(c) \/ Loop(c) \/ EIO_Connect(c)
        PROVE  UNCHANGED <<sent, due>>
    BY <1>4 DEF RemoteEnds, Connect, Close, Loop, Connected, NotConnected, CleanedUp, RunTick,
                AfterRead, EIO_Connect, ConnectBegins, ConnectEnds
  <1>5. ASSUME NEW c \in Conns, ReadBegins(c) \/ ReadSelects(c) \/ ReadLoads(c)
        PROVE  UNCHANGED <<sent, due>>
    BY <1>5 DEF ReadBegins, ReadSelects, ReadLoads
  <1>6. ASSUME NEW w \in Writes, Write(w) \/ EIO_Write(w) PROVE UNCHANGED <<sent, due>>
    BY <1>6 DEF Write, EIO_Write, WriteBegins, WriteLoads, WriteSends
  <1>7. CASE UNCHANGED vars
    BY <1>1, <1>7 DEF vars
  <1> QED
    BY <1>1, <1>2, <1>3, <1>4, <1>5, <1>6, <1>7 DEF Next, EIO_Read

-----------------------------------------------------------------------------
(* Types.                                                                  *)

PortTypes == /\ port \in [Conns -> {"new", "queued", "connecting", "connected", "refused",
                                    "open", "closed", "failed"}]
             /\ js \in Conns \cup {None}
             /\ s \in [Conns -> Handles \cup {None}]
             /\ owner \in [Handles -> Conns \cup {None}]
             /\ link \in [Conns -> {"up", "ended"}]
ReadTypes == /\ read \in [Conns -> {"off", "tick", "queued", "selecting", "ready", "receiving",
                                    "data", "empty", "error"}]
             /\ recvOn \in [Conns -> Handles \cup {None}]
WriteTypes == /\ stage \in [Writes -> {"new", "queued", "sending", "calling", "sent", "failed"}]
              /\ from \in [Writes -> Conns \cup {None}]
              /\ sendOn \in [Writes -> Handles \cup {None}]

LEMMA TypeStep == PortInv /\ [Next]_vars => PortTypes' /\ ReadTypes' /\ WriteTypes'
  <1> SUFFICES ASSUME PortInv, [Next]_vars PROVE PortTypes' /\ ReadTypes' /\ WriteTypes'
    OBVIOUS
  <1> USE DEF jsVars, readVars, sendVars, netVars
  <1>types. PortTypes /\ ReadTypes /\ WriteTypes
    BY DEF PortInv, TypeOK, PortTypes, ReadTypes, WriteTypes
  <1>closed. ASSUME NEW h \in Handles, CloseSocket(h)
             PROVE  owner' \in [Handles -> Conns \cup {None}]
    BY <1>closed, <1>types DEF CloseSocket, PortTypes
  <1>1. ASSUME NEW c \in Conns,
               Connect(c) \/ Close(c) \/ Loop(c) \/ EIO_Connect(c) \/ RemoteSends(c) \/ RemoteEnds(c)
        PROVE  PortTypes' /\ ReadTypes' /\ WriteTypes'
    <2>1. CASE Connect(c) \/ RemoteSends(c) \/ RemoteEnds(c)
      BY <2>1, <1>types DEF Connect, RemoteSends, RemoteEnds, PortTypes, ReadTypes, WriteTypes
    <2>2. ASSUME NativeClose(c)
          PROVE  /\ s' \in [Conns -> Handles \cup {None}]
                 /\ owner' \in [Handles -> Conns \cup {None}]
      BY <2>2, <1>types, <1>closed DEF NativeClose, PortTypes
    <2>3. CASE Close(c)
      BY <2>2, <2>3, <1>types DEF Close, PortTypes, ReadTypes, WriteTypes
    <2>4. CASE Connected(c) \/ RunTick(c)
      BY <2>4, <1>types DEF Connected, RunTick, PortTypes, ReadTypes, WriteTypes
    <2>5. CASE NotConnected(c)
      BY <2>5, <1>types, <1>closed DEF NotConnected, PortTypes, ReadTypes, WriteTypes
    <2>6. CASE CleanedUp(c)
      BY <2>2, <2>6, <1>types DEF CleanedUp, PortTypes, ReadTypes, WriteTypes
    <2>7. CASE AfterRead(c)
      <3>1. read' \in [Conns -> {"off", "tick", "queued", "selecting", "ready", "receiving",
                                 "data", "empty", "error"}]
        BY <2>7, <1>types DEF AfterRead, ReadTypes
      <3> QED
        BY <2>2, <2>7, <3>1, <1>types DEF AfterRead, PortTypes, ReadTypes, WriteTypes
    <2>8. CASE EIO_Connect(c)
      BY <2>8, <1>types
         DEF EIO_Connect, ConnectBegins, ConnectEnds, PortTypes, ReadTypes, WriteTypes
    <2> QED
      BY <1>1, <2>1, <2>3, <2>4, <2>5, <2>6, <2>7, <2>8 DEF Loop
  <1>2. ASSUME NEW c \in Conns, EIO_Read(c) PROVE PortTypes' /\ ReadTypes' /\ WriteTypes'
    <2>1. CASE ReadBegins(c) \/ ReadSelects(c) \/ ReadLoads(c)
      BY <2>1, <1>types DEF ReadBegins, ReadSelects, ReadLoads, PortTypes, ReadTypes, WriteTypes
    <2>2. CASE ReadEnds(c)
      BY <2>2, <1>types DEF ReadEnds, Receives, PortTypes, ReadTypes, WriteTypes
    <2> QED
      BY <1>2, <2>1, <2>2 DEF EIO_Read
  <1>3. ASSUME NEW w \in Writes, Write(w) \/ EIO_Write(w)
        PROVE  PortTypes' /\ ReadTypes' /\ WriteTypes'
    <2>1. CASE Write(w)
      BY <2>1, <1>types DEF Write, PortTypes, ReadTypes, WriteTypes
    <2>2. CASE WriteBegins(w)
      BY <2>2, <1>types DEF WriteBegins, PortTypes, ReadTypes, WriteTypes
    <2>3. CASE WriteLoads(w)
      <3>1. from[w] \in Conns
        BY <2>3, <1>types DEF WriteLoads, PortInv, UseInv
      <3> QED
        BY <2>3, <3>1, <1>types DEF WriteLoads, PortTypes, ReadTypes, WriteTypes
    <2>4. CASE WriteSends(w)
      BY <2>4, <1>types DEF WriteSends, PortTypes, ReadTypes, WriteTypes
    <2> QED
      BY <1>3, <2>1, <2>2, <2>3, <2>4 DEF EIO_Write
  <1>4. CASE UNCHANGED vars
    BY <1>4, <1>types DEF vars, PortTypes, ReadTypes, WriteTypes
  <1> QED
    BY <1>1, <1>2, <1>3, <1>4 DEF Next

LEMMA PortInit == Init => PortInv
  <1> SUFFICES ASSUME Init PROVE PortInv
    OBVIOUS
  <1>1. TypeOK
    BY ThreadsAssumption, EmptySeq DEF Init, TypeOK
  <1>2. PoolInv
    BY DEF Init, PoolInv, Distinct, InQueue
  <1>3. UseInv /\ DueInv
    BY DEF Init, UseInv, DueInv
  <1> QED
    BY <1>1, <1>2, <1>3 DEF PortInv

LEMMA PortStep == PortInv /\ [Next]_vars => PortInv'
  BY PoolStep, UseStep, DueStep, TypeStep
     DEF PortInv, TypeOK, PortTypes, ReadTypes, WriteTypes

\* The invariant holds of every behaviour, overlapping attempts or not.
LEMMA PortInvariant == Spec => []PortInv
  BY PortInit, PortStep, PTL DEF Spec

\* Every variable keeps its type.
THEOREM PortTypesKept == Spec => []TypeOK
  BY PortInvariant, PTL DEF PortInv

\* The pool's queue holds a request once, as long as it waits for a thread: no
\* request is lost, and none is given to two threads.  (This is the safety
\* part of EveryRequestStarts.)
THEOREM PoolHoldsWaiting == Spec => []PoolInv
  BY PortInvariant, PTL DEF PortInv

-----------------------------------------------------------------------------
(* Sockets, as long as attempts to connect do not overlap.                 *)

\* What the lemmas below use of PortInv and OwnInv.
LEMMA OwnTypes ==
  ASSUME PortInv, OwnInv
  PROVE  /\ PortTypes /\ ReadTypes /\ WriteTypes /\ UseInv
         /\ OneAttempt /\ SocketInv /\ CopyInv
         /\ None \notin Conns /\ None \notin Handles
  BY NoneAssumption DEF PortInv, OwnInv, TypeOK, PortTypes, ReadTypes, WriteTypes

LEMMA AttemptStep == PortInv /\ OwnInv /\ ~Overlap /\ [Next]_vars => OneAttempt'
  <1> SUFFICES ASSUME PortInv, OwnInv, ~Overlap, [Next]_vars PROVE OneAttempt'
    OBVIOUS
  <1> USE DEF jsVars, readVars, sendVars, netVars
  <1>types. PortTypes /\ PoolInv /\ pool \in Seq(Requests) /\ OneAttempt
    BY OwnTypes DEF PortInv, TypeOK
  <1>1. ASSUME NEW c \in Conns, Connect(c) PROVE OneAttempt'
    <2>1. Attempts = {} /\ port' = [port EXCEPT ![c] = "queued"]
      BY <1>1 DEF Connect
    <2> QED
      BY <2>1, <1>types DEF OneAttempt, Attempts, PortTypes
  <1>2. ASSUME NEW c \in Conns, ConnectBegins(c) PROVE OneAttempt'
    <2>1. port[c] = "queued"
      BY <1>2, <1>types, Started DEF ConnectBegins, PoolInv
    <2> QED
      BY <1>2, <2>1, <1>types DEF ConnectBegins, OneAttempt, Attempts, PortTypes
  <1>3. ASSUME NEW c \in Conns, Close(c) \/ Loop(c) \/ ConnectEnds(c) PROVE OneAttempt'
    BY <1>3, <1>types
       DEF Close, Loop, Connected, NotConnected, CleanedUp, RunTick, AfterRead, ConnectEnds,
           OneAttempt, Attempts, PortTypes
  <1>4. CASE UNCHANGED port
    BY <1>4, <1>types DEF OneAttempt, Attempts
  <1>5. ASSUME NEW c \in Conns, EIO_Read(c) \/ RemoteSends(c) \/ RemoteEnds(c)
        PROVE  UNCHANGED port
    BY <1>5 DEF EIO_Read, ReadBegins, ReadSelects, ReadLoads, ReadEnds, RemoteSends, RemoteEnds
  <1>6. ASSUME NEW w \in Writes, Write(w) \/ EIO_Write(w) PROVE UNCHANGED port
    BY <1>6 DEF Write, EIO_Write, WriteBegins, WriteLoads, WriteSends
  <1>7. CASE UNCHANGED vars
    BY <1>4, <1>7 DEF vars
  <1> QED
    BY <1>1, <1>2, <1>3, <1>4, <1>5, <1>6, <1>7 DEF Next, EIO_Connect

\* Closing the binding of c, whose attempt is over, takes no number from
\* another binding.
LEMMA ClosesOwn ==
  ASSUME PortInv, OwnInv, NEW c \in Conns, NativeClose(c),
         \A d \in Conns \ {c} : port'[d] = port[d] /\ (js' = d <=> js = d),
         port'[c] \in {"closed", "failed"}, js' # c
  PROVE  SocketInv'
  <1>types. PortTypes /\ SocketInv /\ None \notin Conns /\ None \notin Handles
    BY OwnTypes
  <1>1. s' = [s EXCEPT ![c] = None]
    BY DEF NativeClose
  <1>2. ASSUME NEW d \in Conns \ {c}, s[d] # None PROVE owner'[s[d]] = owner[s[d]]
    <2>1. CASE s[c] = None
      BY <2>1 DEF NativeClose
    <2>2. CASE s[c] # None
      <3>1. s[c] # s[d]
        BY <1>2, <2>2, <1>types DEF SocketInv, PortTypes
      <3> QED
        BY <1>2, <1>types, <2>2, <3>1 DEF NativeClose, CloseSocket, PortTypes
    <2> QED
      BY <2>1, <2>2
  <1>3. ASSUME NEW d \in Conns \ {c}
        PROVE  /\ port'[d] \in {"new", "queued", "closed", "failed"} => s'[d] = None
               /\ port'[d] \in {"connecting", "connected", "open"} => s'[d] # None
               /\ s'[d] # None => owner'[s'[d]] = IF js' = d THEN None ELSE d
    BY <1>1, <1>2, <1>types DEF SocketInv, PortTypes
  <1>4. s'[c] = None
    BY <1>1, <1>types DEF PortTypes
  <1> QED
    BY <1>3, <1>4 DEF SocketInv

LEMMA SocketStep == PortInv /\ OwnInv /\ ~Overlap /\ [Next]_vars => SocketInv'
  <1> SUFFICES ASSUME PortInv, OwnInv, ~Overlap, [Next]_vars PROVE SocketInv'
    OBVIOUS
  <1> USE DEF jsVars, readVars, sendVars, netVars
  <1>types. /\ PortTypes /\ UseInv /\ SocketInv /\ OneAttempt
            /\ PoolInv /\ pool \in Seq(Requests)
            /\ None \notin Conns /\ None \notin Handles
    BY OwnTypes DEF PortInv, TypeOK
  <1>1. CASE UNCHANGED <<port, js, s, owner>>
    BY <1>1, <1>types DEF SocketInv
  <1>2. ASSUME NEW c \in Conns, Connect(c) \/ Connected(c) PROVE SocketInv'
    BY <1>2, <1>types DEF Connect, Connected, SocketInv, PortTypes, JsRuns, LoopRuns
  <1>3. ASSUME NEW c \in Conns, ConnectEnds(c) PROVE SocketInv'
    BY <1>3, <1>types DEF ConnectEnds, SocketInv, PortTypes
  <1>4. ASSUME NEW c \in Conns, Close(c) PROVE SocketInv'
    <2>1. /\ NativeClose(c) /\ js' = js /\ js # c
          /\ port' = [port EXCEPT ![c] = "closed"]
      BY <1>4, <1>types DEF Close, JsRuns
    <2>2. \A d \in Conns \ {c} : port'[d] = port[d] /\ (js' = d <=> js = d)
      BY <2>1, <1>types DEF PortTypes
    <2>3. port'[c] \in {"closed", "failed"} /\ js' # c
      BY <2>1, <1>types DEF PortTypes
    <2> QED
      BY <2>1, <2>2, <2>3, ClosesOwn
  <1>5. ASSUME NEW c \in Conns, AfterRead(c) PROVE SocketInv'
    <2>1. CASE read[c] # "data" /\ port[c] = "open"
      <3>1. /\ NativeClose(c) /\ js' = js /\ js # c
            /\ port' = [port EXCEPT ![c] = "closed"]
        BY <1>5, <2>1, <1>types DEF AfterRead, LoopRuns, JsRuns
      <3>2. \A d \in Conns \ {c} : port'[d] = port[d] /\ (js' = d <=> js = d)
        BY <3>1, <1>types DEF PortTypes
      <3>3. port'[c] \in {"closed", "failed"} /\ js' # c
        BY <3>1, <1>types DEF PortTypes
      <3> QED
        BY <3>1, <3>2, <3>3, ClosesOwn
    <2>2. CASE ~(read[c] # "data" /\ port[c] = "open")
      BY <1>1, <1>5, <2>2 DEF AfterRead
    <2> QED
      BY <2>1, <2>2
  <1>6. ASSUME NEW c \in Conns, CleanedUp(c) PROVE SocketInv'
    <2>1. /\ NativeClose(c) /\ js = c /\ js' = None
          /\ port' = [port EXCEPT ![c] = "failed"]
      BY <1>6 DEF CleanedUp
    <2>2. \A d \in Conns \ {c} : port'[d] = port[d] /\ (js' = d <=> js = d)
      BY <2>1, <1>types DEF PortTypes
    <2>3. port'[c] \in {"closed", "failed"} /\ js' # c
      BY <2>1, <1>types DEF PortTypes
    <2> QED
      BY <2>1, <2>2, <2>3, ClosesOwn
  <1>7. ASSUME NEW c \in Conns, NotConnected(c) PROVE SocketInv'
    <2>1. /\ js = None /\ js' = c /\ port[c] = "refused" /\ UNCHANGED <<port, s>>
          /\ IF s[c] # None THEN owner' = [owner EXCEPT ![s[c]] = None] ELSE owner' = owner
      BY <1>7 DEF NotConnected, LoopRuns, JsRuns, CloseSocket
    <2>2. ASSUME NEW d \in Conns \ {c}, s[d] # None PROVE owner'[s[d]] = d
      BY <2>1, <2>2, <1>types DEF SocketInv, PortTypes
    <2>3. s[c] # None => owner'[s[c]] = None
      BY <2>1, <1>types DEF PortTypes
    <2> QED
      BY <2>1, <2>2, <2>3, <1>types DEF SocketInv, PortTypes
  <1>8. ASSUME NEW c \in Conns, ConnectBegins(c) PROVE SocketInv'
    <2>1. port[c] = "queued" /\ c \in Attempts
      BY <1>8, <1>types, Started DEF ConnectBegins, PoolInv, Attempts
    <2>2. js = None
      BY <2>1, <1>types DEF UseInv, PortTypes, OneAttempt, Attempts
    <2>3. CASE \E h \in Handles :
                 /\ owner[h] = None
                 /\ owner' = [owner EXCEPT ![h] = c]
                 /\ s' = [s EXCEPT ![c] = h]
                 /\ port' = [port EXCEPT ![c] = "connecting"]
      <3>1. PICK h \in Handles : /\ owner[h] = None
                                 /\ owner' = [owner EXCEPT ![h] = c]
                                 /\ s' = [s EXCEPT ![c] = h]
                                 /\ port' = [port EXCEPT ![c] = "connecting"]
        BY <2>3
      <3>2. ASSUME NEW d \in Conns \ {c}, s[d] # None PROVE s[d] # h
        BY <2>2, <3>1, <3>2, <1>types DEF SocketInv
      <3>3. js' = None
        BY <1>8, <2>2 DEF ConnectBegins
      <3> QED
        BY <2>2, <3>1, <3>2, <3>3, <1>types DEF SocketInv, PortTypes
    <2>4. CASE port' = [port EXCEPT ![c] = "refused"] /\ UNCHANGED <<s, owner>>
      <3>1. js' = js
        BY <1>8 DEF ConnectBegins
      <3> QED
        BY <2>1, <2>4, <3>1, <1>types DEF SocketInv, PortTypes
    <2> QED
      BY <1>8, <2>3, <2>4 DEF ConnectBegins
  <1>9. ASSUME NEW c \in Conns, RunTick(c) \/ EIO_Read(c) \/ RemoteSends(c) \/ RemoteEnds(c)
        PROVE  UNCHANGED <<port, js, s, owner>>
    BY <1>9 DEF RunTick, EIO_Read, ReadBegins, ReadSelects, ReadLoads, ReadEnds,
                RemoteSends, RemoteEnds
  <1>10. ASSUME NEW w \in Writes, Write(w) \/ EIO_Write(w) PROVE UNCHANGED <<port, js, s, owner>>
    BY <1>10 DEF Write, EIO_Write, WriteBegins, WriteLoads, WriteSends
  <1>11. CASE UNCHANGED vars
    BY <1>1, <1>11 DEF vars
  <1> QED
    BY <1>1, <1>2, <1>3, <1>4, <1>5, <1>6, <1>7, <1>8, <1>9, <1>10, <1>11
       DEF Next, Loop, EIO_Connect

LEMMA CopyStep == PortInv /\ OwnInv /\ [Next]_vars => CopyInv'
  <1> SUFFICES ASSUME PortInv, OwnInv, [Next]_vars PROVE CopyInv'
    OBVIOUS
  <1> USE DEF jsVars, readVars, sendVars, netVars
  <1>types. /\ PortTypes /\ ReadTypes /\ WriteTypes /\ UseInv /\ SocketInv /\ CopyInv
            /\ PoolInv /\ pool \in Seq(Requests)
            /\ None \notin Conns /\ None \notin Handles
    BY OwnTypes DEF PortInv, TypeOK
  <1>1. CASE UNCHANGED <<port, s, recvOn, from, sendOn>>
    BY <1>1, <1>types DEF CopyInv
  <1>2. ASSUME NEW c \in Conns, Close(c) \/ CleanedUp(c) \/ AfterRead(c) PROVE CopyInv'
    <2>1. /\ UNCHANGED <<recvOn, from, sendOn>>
          /\ \/ UNCHANGED <<port, s>>
             \/ /\ s' = [s EXCEPT ![c] = None]
                /\ port' = [port EXCEPT ![c] = "closed"] \/ port' = [port EXCEPT ![c] = "failed"]
      BY <1>2 DEF Close, CleanedUp, AfterRead, NativeClose
    <2> QED
      BY <2>1, <1>types DEF CopyInv, PortTypes, WriteTypes
  <1>3. ASSUME NEW c \in Conns, Connect(c) \/ Connected(c) \/ ConnectEnds(c) PROVE CopyInv'
    BY <1>3, <1>types
       DEF Connect, Connected, ConnectEnds, CopyInv, UseInv, Reached, PortTypes, WriteTypes
  <1>4. ASSUME NEW c \in Conns, NotConnected(c) \/ RunTick(c) \/ RemoteSends(c) \/ RemoteEnds(c)
        PROVE  UNCHANGED <<port, s, recvOn, from, sendOn>>
    BY <1>4 DEF NotConnected, RunTick, RemoteSends, RemoteEnds
  <1>5. ASSUME NEW c \in Conns, ConnectBegins(c) PROVE CopyInv'
    <2>1. port[c] = "queued"
      BY <1>5, <1>types, Started DEF ConnectBegins, PoolInv
    <2>2. /\ UNCHANGED <<recvOn, from, sendOn>>
          /\ port'[c] # "open"
          /\ \A d \in Conns \ {c} : port'[d] = port[d] /\ s'[d] = s[d]
      BY <1>5, <1>types DEF ConnectBegins, PortTypes
    <2> QED
      BY <2>1, <2>2, <1>types DEF CopyInv, WriteTypes
  <1>6. ASSUME NEW c \in Conns, ReadBegins(c) \/ ReadSelects(c) \/ ReadLoads(c) \/ ReadEnds(c)
        PROVE  CopyInv'
    BY <1>6, <1>types
       DEF ReadBegins, ReadSelects, ReadLoads, ReadEnds, CopyInv, ReadTypes
  <1>7. ASSUME NEW w \in Writes, Write(w) PROVE CopyInv'
    BY <1>7, <1>types DEF Write, CopyInv, UseInv, WriteTypes
  <1>8. ASSUME NEW w \in Writes, WriteBegins(w) \/ WriteLoads(w) \/ WriteSends(w) PROVE CopyInv'
    BY <1>8, <1>types DEF WriteBegins, WriteLoads, WriteSends, CopyInv, WriteTypes
  <1>9. CASE UNCHANGED vars
    BY <1>1, <1>9 DEF vars
  <1> QED
    BY <1>1, <1>2, <1>3, <1>4, <1>5, <1>6, <1>7, <1>8, <1>9
       DEF Next, Loop, EIO_Connect, EIO_Read, EIO_Write

LEMMA OwnInit == Init => OwnInv
  BY DEF Init, OwnInv, OneAttempt, Attempts, SocketInv, CopyInv

\* As long as attempts do not overlap, each open port has a socket of its own,
\* and what pool threads read from and write to for it is this socket, with
\* any number of sockets opened, closed and numbered again meanwhile.
THEOREM OwnSocket == ~Overlap => (Spec => []OpenUsesOwnSocket)
  <1> SUFFICES ASSUME ~Overlap PROVE Spec => []OpenUsesOwnSocket
    OBVIOUS
  <1>1. PortInv /\ OwnInv /\ [Next]_vars => OwnInv'
    BY AttemptStep, SocketStep, CopyStep DEF OwnInv
  <1>2. PortInv /\ OwnInv => OpenUsesOwnSocket
    <2> SUFFICES ASSUME PortInv, OwnInv, NEW c \in Conns, port[c] = "open"
                 PROVE  /\ s[c] # None /\ owner[s[c]] = c
                        /\ recvOn[c] \in {None, s[c]}
                        /\ \A w \in Writes : from[w] = c => sendOn[w] \in {None, s[c]}
      BY DEF OpenUsesOwnSocket
    <2>1. js # c /\ c # None
      BY OwnTypes DEF UseInv
    <2> QED
      BY <2>1, OwnTypes DEF SocketInv, CopyInv
  <1> QED
    BY <1>1, <1>2, PortInvariant, OwnInit, PTL DEF Spec
=============================================================================
