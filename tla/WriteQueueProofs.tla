-------------------------- MODULE WriteQueueProofs --------------------------
(***************************************************************************)
(* Theorems about WriteQueue for any set of writes and connections.        *)
(*                                                                         *)
(* Spec is the binding as it is, with constructors running at any time.    *)
(* There the ring degrades, but never so far that an operation follows a   *)
(* pointer to a deleted request or submits one twice (SharedSafety).       *)
(* QuietSpec constructs connections only while no write is pending; there  *)
(* the ring is the log, and the queue implements SerialWriter.             *)
(***************************************************************************)
EXTENDS WriteQueue, TLAPS

Rings == [prev: [Cells -> Cells \cup {NULL}], next: [Cells -> Cells \cup {NULL}]]

(* The macros of ngx-queue.h leave a ring of pointers to cells. *)
LEMMA QueueOperationsType ==
  ASSUME NEW q \in Rings, NEW x \in Writes
  PROVE  /\ QueueInit(q, Sentinel) \in Rings
         /\ QueueInsertTail(q, Sentinel, x) \in Rings
         /\ QueueRemove(q, x) \in Rings
  <1>1. QueueInit(q, Sentinel) \in Rings
    BY DEF QueueInit, Rings, Cells
  <1>2. QueueInsertTail(q, Sentinel, x) \in Rings
    BY DEF QueueInsertTail, Rings, Cells
  <1>3. QueueRemove(q, x) \in Rings
    BY DEF QueueRemove, Rings, Cells
  <1> QED
    BY <1>1, <1>2, <1>3

(* Counting one more submission of x, of whatever value x is. *)
LEMMA CountSubmit ==
  ASSUME NEW f \in [Writes -> Nat], NEW x
  PROVE  [f EXCEPT ![x] = @ + 1] \in [Writes -> Nat]
  <1>1. CASE x \in Writes
    <2>1. f[x] + 1 \in Nat
      BY <1>1
    <2> QED BY <2>1
  <1>2. CASE x \notin Writes
    BY <1>2
  <1> QED BY <1>1, <1>2

(* Every variable keeps its type, for Next and hence for QuietNext. *)
LEMMA TypeInit == Init => TypeOK
  BY SizeAssumption DEF Init, TypeOK, Stats

(* The type invariant is inductive by itself. *)
LEMMA TypeStep == TypeOK /\ [Next]_vars => TypeOK'
  <1> USE SizeAssumption, CellAssumption DEF TypeOK, Stats, InFlightStat, Cells
  <1> SUFFICES ASSUME TypeOK, [Next]_vars PROVE TypeOK'
    OBVIOUS
  <1>1. ASSUME NEW c \in Conns, New(c) PROVE TypeOK'
    BY <1>1 DEF New, QueueInit
  <1>2. ASSUME NEW c \in Conns, AfterConnect(c) PROVE TypeOK'
    BY <1>2 DEF AfterConnect
  <1>3. ASSUME NEW w \in Writes, Write(w) PROVE TypeOK'
    <2>1. ring' \in Rings
      BY <1>3, QueueOperationsType DEF Write, Rings
    <2>2. stat' \in [Writes -> Stats] /\ submits' \in [Writes -> Nat]
      <3>1. CASE QueueEmpty(ring, Sentinel)
        <4>1. /\ stat' = [stat EXCEPT ![w] = "submitted"]
              /\ submits' = [submits EXCEPT ![w] = @ + 1]
          BY <1>3, <3>1 DEF Write
        <4> QED
          BY <4>1, CountSubmit
      <3>2. CASE ~QueueEmpty(ring, Sentinel)
        BY <1>3, <3>2 DEF Write
      <3> QED
        BY <3>1, <3>2
    <2> QED
      BY <1>3, <2>1, <2>2 DEF Write, Rings
  <1>4. ASSUME NEW w \in Writes, AfterWriteCallback(w) PROVE TypeOK'
    BY <1>4 DEF AfterWriteCallback
  <1>5. ASSUME NEW w \in Writes, AfterWriteNext(w) PROVE TypeOK'
    <2>1. ring' \in Rings
      BY <1>5, QueueOperationsType DEF AfterWriteNext, Rings
    <2>2. stat' \in [Writes -> Stats] /\ submits' \in [Writes -> Nat]
      <3>1. CASE QueueEmpty(ring', Sentinel)
        BY <1>5, <3>1 DEF AfterWriteNext
      <3>2. CASE ~QueueEmpty(ring', Sentinel)
        <4> DEFINE next == QueueHead(ring', Sentinel)
        <4>1. /\ stat' = [stat EXCEPT ![w] = "freed", ![next] = "submitted"]
              /\ submits' = [submits EXCEPT ![next] = @ + 1]
          BY <1>5, <3>2 DEF AfterWriteNext
        <4> HIDE DEF next
        <4> QED
          BY <4>1, CountSubmit
      <3> QED
        BY <3>1, <3>2
    <2> QED
      BY <1>5, <2>1, <2>2 DEF AfterWriteNext, Rings
  <1>6. ASSUME NEW w \in Writes, BeginWrite(w) PROVE TypeOK'
    BY <1>6 DEF BeginWrite
  <1>7. ASSUME NEW w \in Writes, Send(w) PROVE TypeOK'
    BY <1>7 DEF Send
  <1>8. ASSUME NEW w \in Writes, SendFails(w) PROVE TypeOK'
    BY <1>8 DEF SendFails
  <1>9. CASE UNCHANGED vars
    BY <1>9 DEF vars
  <1> QED
    BY <1>1, <1>2, <1>3, <1>4, <1>5, <1>6, <1>7, <1>8, <1>9 DEF Next, QueueStep

\* Type correctness of the queue, constructors and callbacks at any time.
THEOREM TypeCorrect == Spec => []TypeOK
  BY TypeInit, TypeStep, PTL DEF Spec

-----------------------------------------------------------------------------
(* The binding as it is: constructors re-initialise the ring at any time.  *)

\* A request whose callback is on the stack is the one calling names.
CallingInv == \A w \in Writes : stat[w] = "answering" <=> calling = w

\* A request is submitted when it leaves "linked" (or at once).
SubmitsInv == \A w \in Writes :
    submits[w] = IF w \in InFlight \/ stat[w] = "freed" THEN 1 ELSE 0

\* A request in flight has lost its predecessor.  The successor of a live
\* request is a waiting one that points back at it: this is what makes the
\* request that AfterWriteNext finds at the head one that was never submitted.
LinksInv ==
    /\ \A w \in InFlight : ring.prev[w] = Sentinel
    /\ \A w \in Live : ring.next[w] # Sentinel =>
          /\ ring.next[w] \in Writes
          /\ stat[ring.next[w]] = "linked"
          /\ ring.prev[ring.next[w]] = w
    /\ \A w \in Writes : stat[w] = "linked" /\ ring.prev[w] # Sentinel =>
          /\ ring.prev[w] \in Live
          /\ ring.next[ring.prev[w]] = w

\* Once a connection was constructed, the last request on the current ring is
\* live and has no successor.
SentinelInv ==
    (\E c \in Conns : conn[c] # "none") =>
        /\ ring.next[Sentinel] \in Live \cup {Sentinel}
        /\ ring.prev[Sentinel] # Sentinel =>
              /\ ring.prev[Sentinel] \in Live
              /\ ring.next[ring.prev[Sentinel]] = Sentinel

StartedInv == log # <<>> => \E c \in Conns : conn[c] # "none"

SharedInv == /\ TypeOK
             /\ CallingInv
             /\ SubmitsInv
             /\ LinksInv
             /\ SentinelInv
             /\ StartedInv

(* An empty ring, and nothing written yet. *)
LEMMA SharedInit == Init => SharedInv
  <1> SUFFICES ASSUME Init PROVE SharedInv
    OBVIOUS
  <1>1. TypeOK
    BY TypeInit
  <1> QED
    BY <1>1, CellAssumption
       DEF Init, SharedInv, CallingInv, SubmitsInv, LinksInv, SentinelInv,
           StartedInv, InFlight, Live, InFlightStat

(* Steps that move a request along without touching the ring: it stays in
   flight. *)
LEMMA SharedProgress ==
  ASSUME SharedInv, TypeOK', NEW w \in Writes,
         BeginWrite(w) \/ Send(w) \/ SendFails(w) \/ AfterWriteCallback(w)
  PROVE  SharedInv'
  <1>1. /\ UNCHANGED <<conn, ring, submits, log>>
        /\ w \in InFlight
        /\ \A v \in Writes \ {w} : stat'[v] = stat[v]
        /\ stat'[w] \in InFlightStat
    BY DEF SharedInv, TypeOK, BeginWrite, Send, SendFails, AfterWriteCallback,
           InFlight, InFlightStat
  <1>2. InFlight' = InFlight /\ Live' = Live
    BY <1>1 DEF InFlight, Live, InFlightStat
  <1>3. \A v \in Writes : (stat'[v] = "linked" <=> stat[v] = "linked")
                          /\ (stat'[v] = "freed" <=> stat[v] = "freed")
    BY <1>1 DEF InFlight, InFlightStat
  <1>4. CallingInv'
    <2>1. CASE AfterWriteCallback(w)
      BY <2>1, CellAssumption DEF AfterWriteCallback, SharedInv, CallingInv, TypeOK
    <2>2. CASE BeginWrite(w) \/ Send(w) \/ SendFails(w)
      BY <2>2 DEF BeginWrite, Send, SendFails, SharedInv, CallingInv, TypeOK
    <2> QED
      BY <2>1, <2>2
  <1>5. SubmitsInv'
    BY <1>1, <1>2, <1>3 DEF SharedInv, SubmitsInv
  <1>6. LinksInv' /\ SentinelInv' /\ StartedInv'
    BY <1>1, <1>2, <1>3 DEF SharedInv, LinksInv, SentinelInv, StartedInv, Live, InFlight
  <1> QED
    BY <1>4, <1>5, <1>6 DEF SharedInv

(* A constructor empties the ring; the requests of the old one keep their links. *)
LEMMA SharedNew ==
  ASSUME SharedInv, TypeOK', NEW c \in Conns, New(c)
  PROVE  SharedInv'
  <1>1. /\ UNCHANGED <<stat, calling, submits, log>>
        /\ ring'.prev[Sentinel] = Sentinel
        /\ ring'.next[Sentinel] = Sentinel
        /\ \A w \in Writes : ring'.prev[w] = ring.prev[w] /\ ring'.next[w] = ring.next[w]
        /\ conn'[c] # "none"
    BY CellAssumption DEF New, SharedInv, TypeOK, QueueInit, Cells
  <1>2. InFlight' = InFlight /\ Live' = Live
    BY <1>1 DEF InFlight, Live
  <1>3. LinksInv'
    BY <1>1, <1>2 DEF SharedInv, LinksInv, Live, InFlight
  <1>4. SentinelInv' /\ StartedInv'
    BY <1>1 DEF SentinelInv, StartedInv
  <1> QED
    BY <1>1, <1>2, <1>3, <1>4 DEF SharedInv, CallingInv, SubmitsInv

(* write() links w behind the last live request, or alone. *)
LEMMA SharedWrite ==
  ASSUME SharedInv, TypeOK', NEW w \in Writes, Write(w)
  PROVE  SharedInv'
  <1> DEFINE t == ring.prev[Sentinel]
  <1>1. /\ stat[w] = "fresh"
        /\ w \notin Live
        /\ w # Sentinel
        /\ \E c \in Conns : conn[c] # "none"
        /\ log' # <<>>
        /\ UNCHANGED <<conn, calling>>
    <2>1. log' # <<>>
      <3>1. log \in Seq(Writes) /\ log' = Append(log, w)
        BY DEF Write, SharedInv, TypeOK
      <3>2. Len(log') = Len(log) + 1 /\ Len(log) \in Nat
        BY <3>1
      <3> QED
        BY <3>2
    <2>2. \E c \in Conns : conn[c] # "none"
      BY DEF Write
    <2> QED
      BY <2>1, <2>2, CellAssumption DEF Write, InFlight, Live, InFlightStat
  <1>2. t # Sentinel => t \in Live /\ ring.next[t] = Sentinel
    BY <1>1 DEF SharedInv, SentinelInv
  <1>3. t # w /\ t \in Cells
    BY <1>1, <1>2 DEF Live, InFlight, Cells
  <1>4. /\ ring'.prev[w] = t
        /\ ring'.prev[Sentinel] = w
        /\ ring'.next[w] = Sentinel
        /\ ring'.next[t] = w
        /\ \A x \in Writes \ {w} : ring'.prev[x] = ring.prev[x]
        /\ \A x \in Cells \ {w, t} : ring'.next[x] = ring.next[x]
    <2>1. /\ ring'.prev = [ring.prev EXCEPT ![w] = t, ![Sentinel] = w]
          /\ ring'.next = [ring.next EXCEPT ![t] = w, ![w] = Sentinel]
      BY DEF Write, QueueInsertTail
    <2>2. /\ ring.prev \in [Cells -> Cells \cup {NULL}]
          /\ ring.next \in [Cells -> Cells \cup {NULL}]
          /\ Sentinel \in Cells /\ w \in Cells
      BY DEF SharedInv, TypeOK, Cells
    <2> HIDE DEF t
    <2>3. /\ ring'.prev[w] = t
          /\ ring'.prev[Sentinel] = w
          /\ \A x \in Writes \ {w} : ring'.prev[x] = ring.prev[x]
      BY <1>1, <1>3, <2>1, <2>2, CellAssumption DEF Cells
    <2>4. /\ ring'.next[w] = Sentinel
          /\ ring'.next[t] = w
          /\ \A x \in Cells \ {w, t} : ring'.next[x] = ring.next[x]
      BY <1>1, <1>3, <2>1, <2>2
    <2> QED
      BY <2>3, <2>4
  <1>5. /\ \A x \in Writes \ {w} : stat'[x] = stat[x] /\ submits'[x] = submits[x]
        /\ t = Sentinel => stat'[w] = "submitted" /\ submits'[w] = submits[w] + 1
        /\ t # Sentinel => stat'[w] = "linked" /\ submits'[w] = submits[w]
    BY <1>1 DEF Write, QueueEmpty, SharedInv, TypeOK
  <1> HIDE DEF t
  <1>6. /\ InFlight' = IF t = Sentinel THEN InFlight \cup {w} ELSE InFlight
        /\ Live' = Live \cup {w}
    BY <1>1, <1>5 DEF InFlight, Live, InFlightStat
  <1>7. CallingInv'
    BY <1>1, <1>5 DEF SharedInv, CallingInv
  <1>8. SubmitsInv'
    BY <1>1, <1>5, <1>6 DEF SharedInv, SubmitsInv, InFlight, InFlightStat
  <1>9. LinksInv'
    <2>1. \A x \in InFlight' : ring'.prev[x] = Sentinel
      BY <1>1, <1>4, <1>6 DEF SharedInv, LinksInv, Live, InFlight
    <2>2. ASSUME NEW x \in Live', ring'.next[x] # Sentinel
          PROVE  /\ ring'.next[x] \in Writes
                 /\ stat'[ring'.next[x]] = "linked"
                 /\ ring'.prev[ring'.next[x]] = x
      <3>1. x \in Live
        BY <1>4, <1>6, <2>2
      <3>2. CASE x = t
        BY <1>1, <1>4, <1>5, <3>1, <3>2, CellAssumption DEF Live, InFlight
      <3>3. CASE x # t
        BY <1>1, <1>4, <1>5, <2>2, <3>1, <3>3
           DEF SharedInv, LinksInv, Live, InFlight, Cells
      <3> QED
        BY <3>2, <3>3
    <2>3. ASSUME NEW x \in Writes, stat'[x] = "linked", ring'.prev[x] # Sentinel
          PROVE  /\ ring'.prev[x] \in Live'
                 /\ ring'.next[ring'.prev[x]] = x
      <3>1. CASE x = w
        BY <1>2, <1>4, <1>6, <2>3, <3>1
      <3>2. CASE x # w
        <4>1. /\ ring.prev[x] \in Live
              /\ ring.next[ring.prev[x]] = x
              /\ ring'.prev[x] = ring.prev[x]
          BY <1>4, <1>5, <2>3, <3>2 DEF SharedInv, LinksInv
        <4>2. ring.prev[x] # t /\ ring.prev[x] # w
          BY <1>1, <1>2, <4>1, CellAssumption DEF Live, InFlight
        <4> QED
          BY <1>4, <1>6, <4>1, <4>2 DEF Live, InFlight, Cells
      <3> QED
        BY <3>1, <3>2
    <2> QED
      BY <2>1, <2>2, <2>3 DEF LinksInv
  <1>10. SentinelInv'
    <2>1. ring'.next[Sentinel] \in Live' \cup {Sentinel}
      BY <1>1, <1>4, <1>6 DEF SharedInv, SentinelInv, Cells
    <2> QED
      BY <1>4, <1>6, <2>1 DEF SentinelInv
  <1>11. StartedInv'
    BY <1>1 DEF StartedInv
  <1> QED
    BY <1>7, <1>8, <1>9, <1>10, <1>11 DEF SharedInv

(* EIO_AfterWrite unlinks w and submits the request that follows it, which was
   waiting; w is at the front of whatever ring it is on. *)
LEMMA SharedAfterWrite ==
  ASSUME SharedInv, TypeOK', NEW w \in Writes, AfterWriteNext(w)
  PROVE  SharedInv'
  <1> DEFINE n == ring.next[w]
             t == ring.prev[Sentinel]
  <1>1. /\ stat[w] = "answering"
        /\ calling' = NULL
        /\ w \in InFlight
        /\ w \in Live
        /\ w # Sentinel
        /\ ring.prev[w] = Sentinel
        /\ UNCHANGED <<conn, log>>
    BY CellAssumption
       DEF AfterWriteNext, SharedInv, CallingInv, LinksInv, InFlight, Live, InFlightStat
  <1>2. n # Sentinel => n \in Writes /\ stat[n] = "linked" /\ ring.prev[n] = w
    BY <1>1 DEF SharedInv, LinksInv
  <1>3. n # w /\ n \in Cells
    BY <1>1, <1>2 DEF Cells
  <1>4. /\ ring'.prev[n] = Sentinel
        /\ ring'.next[Sentinel] = n
        /\ \A x \in Cells \ {n} : ring'.prev[x] = ring.prev[x]
        /\ \A x \in Writes : ring'.next[x] = ring.next[x]
    BY <1>1, <1>3, CellAssumption
       DEF AfterWriteNext, QueueRemove, SharedInv, TypeOK, Cells
  <1>5. ring'.prev[Sentinel] = IF n = Sentinel THEN Sentinel ELSE t
    BY <1>4, CellAssumption DEF Cells
  <1> DEFINE last == n = Sentinel \/ t = Sentinel
  <1>6. /\ last  => /\ stat' = [stat EXCEPT ![w] = "freed"]
                    /\ submits' = submits
        /\ ~last => /\ stat' = [stat EXCEPT ![w] = "freed", ![n] = "submitted"]
                    /\ submits' = [submits EXCEPT ![n] = @ + 1]
    BY <1>4, <1>5 DEF AfterWriteNext, QueueEmpty, QueueHead
  <1>7. /\ \A x \in Writes \ {w, n} : stat'[x] = stat[x] /\ submits'[x] = submits[x]
        /\ stat'[w] = "freed" /\ submits'[w] = submits[w]
        /\ last /\ n # Sentinel => stat'[n] = "linked" /\ submits'[n] = submits[n]
        /\ ~last => stat'[n] = "submitted" /\ submits'[n] = submits[n] + 1
    BY <1>2, <1>3, <1>6 DEF SharedInv, TypeOK
  <1> HIDE DEF n, t, last
  <1>8. /\ InFlight' = IF last THEN InFlight \ {w} ELSE (InFlight \ {w}) \cup {n}
        /\ Live' = Live \ {w}
        /\ n # Sentinel => n \in Live'
    <2>1. \A x \in Writes :
             /\ x \in InFlight <=> stat[x] \in InFlightStat
             /\ x \in InFlight' <=> stat'[x] \in InFlightStat
             /\ x \in Live <=> stat[x] \in InFlightStat \cup {"linked"}
             /\ x \in Live' <=> stat'[x] \in InFlightStat \cup {"linked"}
      BY DEF InFlight, Live
    <2>2. \A x \in InFlight \cup Live \cup InFlight' \cup Live' : x \in Writes
      BY DEF InFlight, Live
    <2>3. w \notin Live' /\ w \notin InFlight'
      BY <1>1, <1>7, <2>1 DEF InFlightStat
    <2>4. n # Sentinel => /\ n \in Live /\ n \in Live' /\ n \notin InFlight
                          /\ n \in InFlight' <=> ~last
      BY <1>2, <1>3, <1>7, <2>1 DEF InFlightStat, last
    <2>5. \A x \in Writes \ {w, n} : /\ x \in Live' <=> x \in Live
                                     /\ x \in InFlight' <=> x \in InFlight
      BY <1>7, <2>1
    <2>6. \A x \in Writes : x \in Live' <=> x \in Live \ {w}
      BY <1>3, <2>3, <2>4, <2>5, CellAssumption
    <2>7. \A x \in Writes : x \in InFlight' <=>
               x \in IF last THEN InFlight \ {w} ELSE (InFlight \ {w}) \cup {n}
      BY <1>3, <2>3, <2>4, <2>5, CellAssumption DEF last
    <2>8. ~last => n \in Writes
      BY <1>2 DEF last
    <2>9. n # Sentinel => n \in Live'
      BY <1>2, <1>3, <2>1, <2>6
    <2> QED
      BY <1>1, <2>2, <2>6, <2>7, <2>8, <2>9
  <1>9. CallingInv'
    BY <1>1, <1>2, <1>3, <1>7, CellAssumption DEF SharedInv, CallingInv, last
  <1>10. SubmitsInv'
    <2> SUFFICES ASSUME NEW x \in Writes
                 PROVE  submits'[x] = IF x \in InFlight' \/ stat'[x] = "freed"
                                        THEN 1 ELSE 0
      BY DEF SubmitsInv
    <2>1. submits[x] = IF x \in InFlight \/ stat[x] = "freed" THEN 1 ELSE 0
      BY DEF SharedInv, SubmitsInv
    <2>2. CASE x = w
      BY <1>1, <1>3, <1>7, <2>1, <2>2
    <2>3. CASE x = n /\ x # w
      <3>1. x \notin InFlight /\ stat[x] = "linked"
        BY <1>2, <2>3, CellAssumption DEF InFlight, InFlightStat
      <3> QED
        BY <1>7, <1>8, <2>1, <2>3, <3>1, CellAssumption DEF last
    <2>4. CASE x # n /\ x # w
      BY <1>7, <1>8, <2>1, <2>4
    <2> QED
      BY <2>2, <2>3, <2>4
  <1>11. LinksInv'
    <2>1. \A x \in InFlight' : ring'.prev[x] = Sentinel
      BY <1>4, <1>8 DEF SharedInv, LinksInv, InFlight, Cells
    <2>2. ASSUME NEW x \in Live', ring'.next[x] # Sentinel
          PROVE  /\ ring'.next[x] \in Writes
                 /\ stat'[ring'.next[x]] = "linked"
                 /\ ring'.prev[ring'.next[x]] = x
      <3>1. x \in Live /\ x # w /\ x \in Writes /\ ring'.next[x] = ring.next[x]
        BY <1>4, <1>8 DEF Live, InFlight
      <3>2. /\ ring.next[x] \in Writes
            /\ stat[ring.next[x]] = "linked"
            /\ ring.prev[ring.next[x]] = x
        BY <2>2, <3>1 DEF SharedInv, LinksInv
      <3>3. ring.next[x] # n /\ ring.next[x] # w
        BY <1>1, <1>2, <2>2, <3>1, <3>2
      <3> QED
        BY <1>4, <1>7, <3>1, <3>2, <3>3 DEF Cells
    <2>3. ASSUME NEW x \in Writes, stat'[x] = "linked", ring'.prev[x] # Sentinel
          PROVE  /\ ring'.prev[x] \in Live'
                 /\ ring'.next[ring'.prev[x]] = x
      <3>1. x # w /\ x # n
        BY <1>4, <1>7, <2>3
      <3>2. /\ ring'.prev[x] = ring.prev[x]
            /\ ring.prev[x] \in Live
            /\ ring.next[ring.prev[x]] = x
        BY <1>4, <1>7, <2>3, <3>1 DEF SharedInv, LinksInv, Cells
      <3>3. ring.prev[x] # w
        BY <3>1, <3>2 DEF n
      <3> QED
        BY <1>4, <1>8, <3>2, <3>3 DEF Live, InFlight
    <2> QED
      BY <2>1, <2>2, <2>3 DEF LinksInv
  <1>12. SentinelInv'
    <2> SUFFICES ASSUME \E c \in Conns : conn[c] # "none"
                 PROVE  /\ ring'.next[Sentinel] \in Live' \cup {Sentinel}
                        /\ ring'.prev[Sentinel] # Sentinel =>
                              /\ ring'.prev[Sentinel] \in Live'
                              /\ ring'.next[ring'.prev[Sentinel]] = Sentinel
      BY <1>1 DEF SentinelInv
    <2>1. t # Sentinel => t \in Live /\ ring.next[t] = Sentinel
      BY DEF SharedInv, SentinelInv, t
    <2>2. n # Sentinel => t # w
      BY <1>1, <2>1 DEF n
    <2> QED
      BY <1>4, <1>5, <1>8, <2>1, <2>2 DEF Live, InFlight
  <1>13. StartedInv'
    BY <1>1 DEF SharedInv, StartedInv
  <1> QED
    BY <1>9, <1>10, <1>11, <1>12, <1>13 DEF SharedInv

(* The case split over the actions. *)
LEMMA SharedStep == SharedInv /\ [Next]_vars => SharedInv'
  <1> SUFFICES ASSUME SharedInv, [Next]_vars PROVE SharedInv'
    OBVIOUS
  <1>1. TypeOK'
    BY TypeStep DEF SharedInv
  <1>2. ASSUME NEW c \in Conns, New(c) PROVE SharedInv'
    BY <1>1, <1>2, SharedNew
  <1>3. ASSUME NEW c \in Conns, AfterConnect(c) PROVE SharedInv'
    <2>1. UNCHANGED <<ring, stat, sent, calling, submits, log, answered>>
      BY <1>3 DEF AfterConnect
    <2>2. (\E d \in Conns : conn'[d] # "none") <=> (\E d \in Conns : conn[d] # "none")
      BY <1>3 DEF AfterConnect, SharedInv, TypeOK
    <2> QED
      BY <1>1, <2>1, <2>2
         DEF SharedInv, CallingInv, SubmitsInv, LinksInv, SentinelInv, StartedInv,
             Live, InFlight
  <1>4. ASSUME NEW w \in Writes, QueueStep(w) PROVE SharedInv'
    BY <1>1, <1>4, SharedWrite, SharedAfterWrite, SharedProgress DEF QueueStep
  <1>5. CASE UNCHANGED vars
    BY <1>1, <1>5
       DEF vars, SharedInv, CallingInv, SubmitsInv, LinksInv, SentinelInv, StartedInv,
           Live, InFlight
  <1> QED
    BY <1>2, <1>3, <1>4, <1>5 DEF Next

(* The invariant contains both properties. *)
LEMMA SharedInvImplies == SharedInv => SubmittedOnce /\ NoDanglingLink
  <1> SUFFICES ASSUME SharedInv PROVE SubmittedOnce /\ NoDanglingLink
    OBVIOUS
  <1>1. SubmittedOnce
    BY DEF SharedInv, SubmitsInv, SubmittedOnce
  <1>2. \A w \in Live : ring.prev[w] \in Live \cup {Sentinel}
                     /\ ring.next[w] \in Live \cup {Sentinel}
    BY DEF SharedInv, LinksInv, Live, InFlight
  <1>3. log # <<>> => /\ ring.prev[Sentinel] \in Live \cup {Sentinel}
                      /\ ring.next[Sentinel] \in Live \cup {Sentinel}
    BY DEF SharedInv, SentinelInv, StartedInv
  <1> QED
    BY <1>1, <1>2, <1>3 DEF NoDanglingLink

\* Whatever constructors do to the static ring, no request is submitted twice
\* and no pointer in use leads to a deleted request.
THEOREM SharedSafety == Spec => [](SubmittedOnce /\ NoDanglingLink)
  <1>1. Init => SharedInv
    BY SharedInit
  <1>2. SharedInv /\ [Next]_vars => SharedInv'
    BY SharedStep
  <1>3. SharedInv => SubmittedOnce /\ NoDanglingLink
    BY SharedInvImplies
  <1> QED
    BY <1>1, <1>2, <1>3, PTL DEF Spec

-----------------------------------------------------------------------------
(* The queue when no connection is constructed while a write is pending.   *)

(* Each write() call is in the log once, and it is there once it is made. *)
LogInv ==
    /\ \A i, j \in 1..Len(log) : log[i] = log[j] => i = j
    /\ \A w \in Writes : stat[w] # "fresh" <=> \E i \in 1..Len(log) : log[i] = w

(* The answered writes are a prefix of the log, in the same order. *)
AnsweredInv ==
    /\ Len(answered) <= Len(log)
    /\ \A i \in 1..Len(answered) : answered[i] = log[i]
    /\ calling # NULL => Len(answered) > 0 /\ calling = log[Len(answered)]

(* The log splits into deleted writes, the one in flight, the waiting ones. *)
StatInv ==
    /\ \A i \in 1..Len(log) : i <= Removed => stat[log[i]] = "freed"
    /\ Removed < Len(log) =>
          /\ stat[log[Removed + 1]] \in InFlightStat
          /\ stat[log[Removed + 1]] = "answering" <=> calling # NULL
    /\ \A i \in 1..Len(log) : i > Removed + 1 => stat[log[i]] = "linked"

(* The ring is well formed as soon as a constructor ran. *)
RingInv ==
    (\E c \in Conns : conn[c] # "none") =>
        /\ ring.next[Sentinel] = Cell(Removed + 1)
        /\ ring.prev[Sentinel] = Cell(Len(log))
        /\ \A i \in (Removed + 1)..Len(log) :
              /\ ring.next[log[i]] = Cell(i + 1)
              /\ ring.prev[log[i]] = Cell(i - 1)

QuietInv == /\ TypeOK
            /\ StartedInv
            /\ LogInv
            /\ AnsweredInv
            /\ StatInv
            /\ RingInv

(* Numbers and elements a proof about the log needs. *)
LEMMA LogFacts ==
  ASSUME QuietInv
  PROVE  /\ Len(log) \in Nat
         /\ Len(answered) \in Nat
         /\ Removed \in 0..Len(log)
         /\ \A i \in 1..Len(log) : log[i] \in Writes
         /\ calling = NULL => Removed = Len(answered)
         /\ calling # NULL => /\ Removed + 1 = Len(answered)
                              /\ calling = log[Removed + 1]
                              /\ Removed < Len(log)
  BY DEF QuietInv, TypeOK, AnsweredInv, Removed

(* Only the oldest write that is not deleted is in flight. *)
LEMMA InFlightIsFirst ==
  ASSUME QuietInv, NEW w \in InFlight
  PROVE  /\ Removed < Len(log)
         /\ w = log[Removed + 1]
         /\ stat[w] = "answering" <=> calling # NULL
  <1>1. PICK i \in 1..Len(log) : log[i] = w
    BY DEF QuietInv, LogInv, InFlight, InFlightStat
  <1>2. stat[w] \in InFlightStat
    BY DEF InFlight
  <1>3. i = Removed + 1
    BY <1>1, <1>2, LogFacts DEF QuietInv, StatInv, InFlightStat
  <1> QED
    BY <1>1, <1>3, LogFacts DEF QuietInv, StatInv

(* Nothing written, nothing constructed. *)
LEMMA QuietInit == Init => QuietInv
  <1> SUFFICES ASSUME Init PROVE QuietInv
    OBVIOUS
  <1>1. TypeOK
    BY TypeInit
  <1> QED
    BY <1>1 DEF Init, QuietInv, StartedInv, LogInv, AnsweredInv, StatInv, RingInv, Removed

(* A constructor finds the whole log deleted, so an empty ring is the right one. *)
LEMMA QuietNew ==
  ASSUME QuietInv, TypeOK', NEW c \in Conns, Live = {}, New(c)
  PROVE  QuietInv'
  <1>1. UNCHANGED <<stat, calling, log, answered>>
    BY DEF New
  <1>2. Removed = Len(log)
    <2> SUFFICES ASSUME Removed # Len(log) PROVE FALSE
      OBVIOUS
    <2>1. log[Removed + 1] \in Writes /\ stat[log[Removed + 1]] \in InFlightStat
      BY LogFacts DEF QuietInv, StatInv
    <2> QED
      BY <2>1 DEF Live, InFlight
  <1>3. ring'.next[Sentinel] = Sentinel /\ ring'.prev[Sentinel] = Sentinel
    BY DEF New, QueueInit, QuietInv, TypeOK, Cells
  <1>4. Removed' = Removed
    BY <1>1 DEF Removed
  <1>5. RingInv'
    BY <1>1, <1>2, <1>3, <1>4, LogFacts DEF RingInv, Cell
  <1>6. StartedInv'
    BY DEF New, StartedInv, QuietInv, TypeOK
  <1> QED
    BY <1>1, <1>4, <1>5, <1>6 DEF QuietInv, LogInv, AnsweredInv, StatInv

(* The request in flight moves on; its callback does not unlink it yet. *)
LEMMA QuietProgress ==
  ASSUME QuietInv, TypeOK', NEW w \in Writes,
         BeginWrite(w) \/ Send(w) \/ SendFails(w) \/ AfterWriteCallback(w)
  PROVE  QuietInv'
  <1>1. /\ UNCHANGED <<conn, ring, log>>
        /\ w \in InFlight
        /\ stat[w] # "answering"
        /\ \A v \in Writes \ {w} : stat'[v] = stat[v]
        /\ stat'[w] \in InFlightStat
    BY DEF QuietInv, TypeOK, BeginWrite, Send, SendFails, AfterWriteCallback,
           InFlight, InFlightStat
  <1>2. Removed < Len(log) /\ w = log[Removed + 1] /\ calling = NULL
    BY <1>1, InFlightIsFirst
  <1>3. /\ Removed' = Removed
        /\ AnsweredInv'
        /\ stat'[w] = "answering" <=> calling' # NULL
    <2>1. CASE AfterWriteCallback(w)
      <3>1. /\ calling' = w /\ calling' # NULL
            /\ answered' = Append(answered, w)
            /\ stat'[w] = "answering"
        BY <2>1, CellAssumption DEF AfterWriteCallback, QuietInv, TypeOK
      <3>2. /\ Len(answered') = Len(answered) + 1
            /\ \A i \in 1..Len(answered) : answered'[i] = answered[i]
            /\ answered'[Len(answered) + 1] = w
        BY <3>1 DEF QuietInv, TypeOK
      <3>3. Removed' = Removed
        BY <1>2, <3>1, <3>2, LogFacts DEF Removed
      <3> QED
        BY <1>1, <1>2, <3>1, <3>2, <3>3, LogFacts DEF QuietInv, AnsweredInv
    <2>2. CASE BeginWrite(w) \/ Send(w) \/ SendFails(w)
      <3>1. UNCHANGED <<calling, answered>> /\ stat'[w] # "answering"
        BY <2>2 DEF BeginWrite, Send, SendFails, QuietInv, TypeOK
      <3> QED
        BY <1>1, <1>2, <3>1 DEF Removed, QuietInv, AnsweredInv
    <2> QED
      BY <2>1, <2>2
  <1>4. StatInv'
    <2>1. \A i \in 1..Len(log) : i # Removed + 1 => log[i] # w
      BY <1>2, LogFacts DEF QuietInv, LogInv
    <2> QED
      BY <1>1, <1>2, <1>3, <2>1, LogFacts DEF QuietInv, StatInv
  <1>5. LogInv'
    <2>1. \A v \in Writes : stat'[v] # "fresh" <=> stat[v] # "fresh"
      BY <1>1 DEF InFlight, InFlightStat
    <2> QED
      BY <1>1, <2>1 DEF QuietInv, LogInv
  <1>6. RingInv' /\ StartedInv'
    BY <1>1, <1>3 DEF QuietInv, RingInv, StartedInv, Cell
  <1> QED
    BY <1>3, <1>4, <1>5, <1>6 DEF QuietInv

(* write() extends the log and the ring at the same end. *)
LEMMA QuietWrite ==
  ASSUME QuietInv, TypeOK', NEW w \in Writes, Write(w)
  PROVE  QuietInv'
  <1> DEFINE L == Len(log)
             r == Removed
             t == ring.prev[Sentinel]
  <1>1. /\ stat[w] = "fresh"
        /\ \E c \in Conns : conn[c] # "none"
        /\ log' = Append(log, w)
        /\ UNCHANGED <<conn, calling, answered>>
    BY DEF Write
  <1>2. /\ Len(log') = L + 1
        /\ \A i \in 1..L : log'[i] = log[i]
        /\ log'[L + 1] = w
    BY <1>1 DEF QuietInv, TypeOK
  <1>3. /\ L \in Nat /\ r \in 0..L /\ Removed' = r
        /\ \A i \in 1..L : log[i] \in Writes /\ log[i] # w
    BY <1>1, LogFacts DEF Removed, QuietInv, LogInv
  <1>4. /\ ring.next[Sentinel] = Cell(r + 1)
        /\ t = IF r = L THEN Sentinel ELSE log[L]
        /\ \A i \in (r + 1)..L : /\ ring.next[log[i]] = Cell(i + 1)
                                 /\ ring.prev[log[i]] = Cell(i - 1)
    BY <1>1, <1>3 DEF QuietInv, RingInv, Cell
  <1> DEFINE CellThen(i) == IF i = L + 1 THEN w ELSE Cell(i)
  <1>6. t # w /\ t \in Cells /\ w # Sentinel
    BY <1>3, <1>4, CellAssumption DEF Cells
  <1>7. /\ ring'.prev[w] = t
        /\ ring'.prev[Sentinel] = w
        /\ ring'.next[w] = Sentinel
        /\ ring'.next[t] = w
        /\ \A x \in Writes \ {w} : ring'.prev[x] = ring.prev[x]
        /\ \A x \in Cells \ {w, t} : ring'.next[x] = ring.next[x]
    <2>1. /\ ring'.prev = [ring.prev EXCEPT ![w] = t, ![Sentinel] = w]
          /\ ring'.next = [ring.next EXCEPT ![t] = w, ![w] = Sentinel]
      BY DEF Write, QueueInsertTail
    <2>2. /\ ring.prev \in [Cells -> Cells \cup {NULL}]
          /\ ring.next \in [Cells -> Cells \cup {NULL}]
          /\ Sentinel \in Cells /\ w \in Cells
      BY DEF QuietInv, TypeOK, Cells
    <2> HIDE DEF t
    <2>3. /\ ring'.prev[w] = t
          /\ ring'.prev[Sentinel] = w
          /\ \A x \in Writes \ {w} : ring'.prev[x] = ring.prev[x]
      BY <1>6, <2>1, <2>2, CellAssumption DEF Cells
    <2>4. /\ ring'.next[w] = Sentinel
          /\ ring'.next[t] = w
          /\ \A x \in Cells \ {w, t} : ring'.next[x] = ring.next[x]
      BY <1>6, <2>1, <2>2
    <2> QED
      BY <2>3, <2>4
  <1>8. /\ \A x \in Writes \ {w} : stat'[x] = stat[x]
        /\ stat'[w] = IF r = L THEN "submitted" ELSE "linked"
    <2>1. QueueEmpty(ring, Sentinel) <=> r = L
      BY <1>3, <1>4, CellAssumption DEF QueueEmpty
    <2> QED
      BY <2>1 DEF Write, QuietInv, TypeOK
  <1> HIDE DEF L, r, t
  <1>9. LogInv'
    <2>1. \A i, j \in 1..Len(log') : log'[i] = log'[j] => i = j
      BY <1>2, <1>3 DEF QuietInv, LogInv, L
    <2>2. ASSUME NEW v \in Writes
          PROVE  stat'[v] # "fresh" <=> \E i \in 1..Len(log') : log'[i] = v
      <3>1. CASE v = w
        BY <1>2, <1>3, <1>8, <3>1
      <3>2. CASE v # w
        BY <1>2, <1>3, <1>8, <3>2 DEF QuietInv, LogInv, L
      <3> QED
        BY <3>1, <3>2
    <2> QED
      BY <2>1, <2>2 DEF LogInv
  <1>10. AnsweredInv'
    BY <1>1, <1>2, <1>3, LogFacts DEF QuietInv, AnsweredInv, L
  <1>11. StatInv'
    <2>1. r = L => calling = NULL
      BY LogFacts DEF r, L
    <2>2. \A i \in 1..L : stat'[log'[i]] = stat[log[i]]
      BY <1>2, <1>3, <1>8
    <2>3. \A i \in 1..Len(log') : i <= r => stat'[log'[i]] = "freed"
      BY <1>2, <1>3, <2>2 DEF QuietInv, StatInv, L, r
    <2>4. /\ stat'[log'[r + 1]] \in InFlightStat
          /\ stat'[log'[r + 1]] = "answering" <=> calling # NULL
      BY <1>2, <1>3, <1>8, <2>1, <2>2 DEF QuietInv, StatInv, L, r, InFlightStat
    <2>5. \A i \in 1..Len(log') : i > r + 1 => stat'[log'[i]] = "linked"
      BY <1>2, <1>3, <1>8, <2>2 DEF QuietInv, StatInv, L, r
    <2> QED
      BY <1>1, <1>3, <2>3, <2>4, <2>5 DEF StatInv
  <1>12. RingInv'
    <2>1. ring'.next[Sentinel] = CellThen(r + 1)
      BY <1>3, <1>4, <1>6, <1>7, CellAssumption DEF Cell, Cells, L, r
    <2>2. ring'.prev[Sentinel] = CellThen(L + 1)
      BY <1>7
    <2>3. ASSUME NEW i \in (r + 1)..(L + 1)
          PROVE  /\ ring'.next[log'[i]] = CellThen(i + 1)
                 /\ ring'.prev[log'[i]] = CellThen(i - 1)
      <3>1. CASE i = L + 1
        <4>1. Cell(i + 1) = Sentinel /\ Cell(i - 1) = t
          BY <1>3, <1>4, <3>1 DEF Cell, L, r
        <4> QED
          BY <1>2, <1>3, <1>7, <3>1, <4>1
      <3>2. CASE i = L /\ i # L + 1
        <4>1. log'[i] = t /\ t \in Writes \ {w}
          BY <1>2, <1>3, <1>4, <2>3, <3>2
        <4> QED
          BY <1>2, <1>3, <1>4, <1>7, <2>3, <3>2, <4>1
      <3>3. CASE i # L /\ i # L + 1
        <4>1. log'[i] = log[i] /\ log[i] # t /\ log[i] \in Writes \ {w}
          BY <1>2, <1>3, <1>4, <2>3, <3>3 DEF QuietInv, LogInv, L
        <4>2. /\ ring'.next[log'[i]] = ring.next[log[i]]
              /\ ring'.prev[log'[i]] = ring.prev[log[i]]
          BY <1>7, <4>1 DEF Cells
        <4>3. i \in (r + 1)..L /\ i + 1 # L + 1 /\ i - 1 # L + 1
          BY <1>3, <2>3, <3>3
        <4>4. /\ ring.next[log[i]] = Cell(i + 1)
              /\ ring.prev[log[i]] = Cell(i - 1)
          BY <1>4, <4>3
        <4> QED
          BY <4>2, <4>3, <4>4
      <3> QED
        BY <3>1, <3>2, <3>3
    <2> DEFINE NewCell(i) == IF i \in (Removed' + 1)..Len(log') THEN log'[i] ELSE Sentinel
    <2>4. \A i \in Nat : CellThen(i) = NewCell(i)
      BY <1>2, <1>3 DEF Cell, L, r
    <2>5. /\ Removed' = r /\ Len(log') = L + 1 /\ r \in Nat /\ L \in Nat
          /\ r + 1 \in Nat /\ L + 1 \in Nat
          /\ \A i \in (r + 1)..(L + 1) : i - 1 \in Nat /\ i + 1 \in Nat
      BY <1>2, <1>3
    <2> HIDE DEF CellThen, NewCell
    <2>6. ring'.next[Sentinel] = NewCell(Removed' + 1)
      BY <2>1, <2>4, <2>5
    <2>7. ring'.prev[Sentinel] = NewCell(Len(log'))
      BY <2>2, <2>4, <2>5
    <2>8. \A i \in (Removed' + 1)..Len(log') :
              /\ ring'.next[log'[i]] = NewCell(i + 1)
              /\ ring'.prev[log'[i]] = NewCell(i - 1)
      BY <2>3, <2>4, <2>5
    <2> QED
      BY <2>6, <2>7, <2>8 DEF RingInv, Cell, NewCell
  <1>13. StartedInv'
    BY <1>1 DEF StartedInv
  <1> QED
    BY <1>9, <1>10, <1>11, <1>12, <1>13 DEF QuietInv

(* The first request leaves the log's pending part and the ring together. *)
LEMMA QuietAfterWrite ==
  ASSUME QuietInv, TypeOK', NEW w \in Writes, AfterWriteNext(w)
  PROVE  QuietInv'
  <1> DEFINE L == Len(log)
             r == Removed
             n == Cell(r + 2)
  <1>1. /\ calling = w /\ calling # NULL /\ calling' = NULL
        /\ UNCHANGED <<conn, log, answered>>
    BY CellAssumption DEF AfterWriteNext
  <1>2. /\ L \in Nat /\ r \in Nat /\ r < L
        /\ w = log[r + 1]
        /\ r + 1 = Len(answered)
        /\ \A i \in 1..L : log[i] \in Writes
        /\ \A i \in 1..L : i # r + 1 => log[i] # w
    BY <1>1, LogFacts DEF QuietInv, LogInv
  <1>3. Removed' = r + 1
    BY <1>1, <1>2 DEF Removed
  <1>4. \E c \in Conns : conn[c] # "none"
    BY <1>2 DEF QuietInv, StartedInv, TypeOK
  <1>5. /\ ring.prev[Sentinel] = log[L]
        /\ ring.next[w] = n
        /\ ring.prev[w] = Sentinel
        /\ \A i \in (r + 1)..L : /\ ring.next[log[i]] = Cell(i + 1)
                                 /\ ring.prev[log[i]] = Cell(i - 1)
    BY <1>2, <1>4 DEF QuietInv, RingInv, Cell
  <1>6. /\ n = IF r + 1 < L THEN log[r + 2] ELSE Sentinel
        /\ n \in Cells /\ n # w /\ w # Sentinel
    BY <1>2, CellAssumption DEF Cell, Cells
  <1>7. /\ ring'.prev[n] = Sentinel
        /\ ring'.next[Sentinel] = n
        /\ \A x \in Cells \ {n} : ring'.prev[x] = ring.prev[x]
        /\ \A x \in Writes : ring'.next[x] = ring.next[x]
    <2>1. /\ ring'.prev = [ring.prev EXCEPT ![n] = Sentinel]
          /\ ring'.next = [ring.next EXCEPT ![Sentinel] = n]
      BY <1>5 DEF AfterWriteNext, QueueRemove
    <2>2. /\ ring.prev \in [Cells -> Cells \cup {NULL}]
          /\ ring.next \in [Cells -> Cells \cup {NULL}]
          /\ Sentinel \in Cells
      BY DEF QuietInv, TypeOK, Cells
    <2> HIDE DEF n
    <2> QED
      BY <1>6, <2>1, <2>2, CellAssumption DEF Cells
  <1>8. QueueEmpty(ring', Sentinel) <=> r + 1 = L
    <2>1. CASE r + 1 = L
      BY <1>6, <1>7, <2>1 DEF QueueEmpty
    <2>2. CASE r + 1 # L
      <3>1. n \in Writes /\ ring'.prev[Sentinel] = log[L] /\ log[L] \in Writes
        BY <1>2, <1>5, <1>6, <1>7, <2>2, CellAssumption DEF Cells
      <3> QED
        BY <2>2, <3>1, CellAssumption DEF QueueEmpty
    <2> QED
      BY <2>1, <2>2
  <1>9. /\ r + 1 = L => stat' = [stat EXCEPT ![w] = "freed"]
        /\ r + 1 # L => stat' = [stat EXCEPT ![w] = "freed", ![n] = "submitted"]
    BY <1>7, <1>8 DEF AfterWriteNext, QueueHead
  <1> HIDE DEF L, r, n
  <1>10. /\ \A x \in Writes \ {w, n} : stat'[x] = stat[x]
         /\ stat'[w] = "freed"
         /\ r + 1 # L => stat'[n] = "submitted"
    BY <1>2, <1>6, <1>9 DEF QuietInv, TypeOK
  <1>11. LogInv'
    <2>1. ASSUME NEW v \in Writes
          PROVE  stat'[v] # "fresh" <=> stat[v] # "fresh"
      <3>1. CASE v = w
        BY <1>2, <1>10, <3>1 DEF QuietInv, LogInv, L
      <3>2. CASE v = n /\ v # w
        BY <1>2, <1>6, <1>10, <3>2, CellAssumption DEF QuietInv, LogInv, L
      <3>3. CASE v # n /\ v # w
        BY <1>10, <3>3
      <3> QED
        BY <3>1, <3>2, <3>3
    <2> QED
      BY <1>1, <2>1 DEF QuietInv, LogInv
  <1>12. AnsweredInv'
    BY <1>1 DEF QuietInv, AnsweredInv
  <1>13. StatInv'
    <2>1. \A i \in 1..L : i <= r + 1 => stat'[log[i]] = "freed"
      <3> SUFFICES ASSUME NEW i \in 1..L, i <= r + 1 PROVE stat'[log[i]] = "freed"
        OBVIOUS
      <3>1. CASE i = r + 1
        BY <1>2, <1>10, <3>1
      <3>2. CASE i # r + 1
        <4>1. stat[log[i]] = "freed" /\ log[i] # w /\ log[i] \in Writes
          BY <1>2, <3>2 DEF QuietInv, StatInv, L, r
        <4>2. log[i] # n
          BY <1>2, <1>6, <3>2, CellAssumption DEF QuietInv, LogInv, L
        <4> QED
          BY <1>10, <4>1, <4>2
      <3> QED
        BY <3>1, <3>2
    <2>2. r + 1 < L => stat'[log[r + 2]] = "submitted"
      BY <1>2, <1>6, <1>10
    <2>3. \A i \in 1..L : i > r + 2 => stat'[log[i]] = "linked"
      <3> SUFFICES ASSUME NEW i \in 1..L, i > r + 2 PROVE stat'[log[i]] = "linked"
        OBVIOUS
      <3>1. stat[log[i]] = "linked" /\ log[i] # w /\ log[i] \in Writes
        BY <1>2 DEF QuietInv, StatInv, L, r
      <3>2. log[i] # n
        BY <1>2, <1>6, CellAssumption DEF QuietInv, LogInv, L
      <3> QED
        BY <1>10, <3>1, <3>2
    <2>4. Removed' = r + 1 /\ log' = log /\ calling' = NULL /\ (r + 1) + 1 = r + 2
      BY <1>1, <1>2, <1>3
    <2> QED
      BY <2>1, <2>2, <2>3, <2>4 DEF StatInv, InFlightStat, L
  <1>14. RingInv'
    <2> DEFINE CellThen(i) == IF i = r + 1 THEN Sentinel ELSE Cell(i)
    <2>1. ring'.next[Sentinel] = CellThen(r + 2)
      BY <1>2, <1>7 DEF n
    <2>2. ring'.prev[Sentinel] = CellThen(L)
      <3>1. CASE r + 1 = L
        BY <1>2, <1>6, <1>7, <3>1
      <3>2. CASE r + 1 # L
        BY <1>2, <1>5, <1>6, <1>7, <3>2, CellAssumption DEF Cells, Cell, L, r
      <3> QED
        BY <3>1, <3>2
    <2>3. ASSUME NEW i \in (r + 2)..L
          PROVE  /\ ring'.next[log[i]] = CellThen(i + 1)
                 /\ ring'.prev[log[i]] = CellThen(i - 1)
      <3>1. /\ log[i] \in Writes
            /\ i + 1 # r + 1
            /\ i \in (r + 1)..L
        BY <1>2, <2>3
      <3>2. ring'.next[log[i]] = CellThen(i + 1)
        BY <1>5, <1>7, <3>1
      <3>3. CASE i = r + 2
        BY <1>2, <1>6, <1>7, <2>3, <3>2, <3>3
      <3>4. CASE i # r + 2
        <4>1. i \in 1..L /\ r + 2 \in 1..L /\ i - 1 # r + 1 /\ r + 1 < L
          BY <1>2, <2>3, <3>4
        <4>2. n = log[r + 2]
          BY <1>6, <4>1
        <4>3. log[i] # n
          BY <3>4, <4>1, <4>2 DEF QuietInv, LogInv, L
        <4>4. log[i] # n /\ log[i] \in Cells \ {n} /\ i - 1 # r + 1
          BY <3>1, <4>1, <4>3 DEF Cells
        <4> QED
          BY <1>5, <1>7, <3>1, <3>2, <4>4
      <3> QED
        BY <3>3, <3>4
    <2> DEFINE NewCell(i) == IF i \in (Removed' + 1)..Len(log') THEN log'[i] ELSE Sentinel
    <2>4. \A i \in Nat : CellThen(i) = NewCell(i)
      BY <1>1, <1>2, <1>3 DEF Cell, L, r
    <2>5. /\ Removed' = r + 1 /\ Len(log') = L /\ L \in Nat /\ r \in Nat
          /\ \A i \in (r + 2)..L : log'[i] = log[i]
          /\ (r + 1) + 1 = r + 2
          /\ r + 2 \in Nat
          /\ \A i \in (r + 2)..L : i - 1 \in Nat /\ i + 1 \in Nat
      BY <1>1, <1>2, <1>3 DEF L
    <2> HIDE DEF CellThen, NewCell
    <2>6. ring'.next[Sentinel] = NewCell(Removed' + 1)
      BY <2>1, <2>4, <2>5
    <2>7. ring'.prev[Sentinel] = NewCell(Len(log'))
      BY <2>2, <2>4, <2>5
    <2>8. \A i \in (Removed' + 1)..Len(log') :
              /\ ring'.next[log'[i]] = NewCell(i + 1)
              /\ ring'.prev[log'[i]] = NewCell(i - 1)
      BY <2>3, <2>4, <2>5
    <2> QED
      BY <2>6, <2>7, <2>8 DEF RingInv, Cell, NewCell
  <1>15. StartedInv'
    BY <1>1 DEF QuietInv, StartedInv
  <1> QED
    BY <1>11, <1>12, <1>13, <1>14, <1>15 DEF QuietInv

(* The case split over the actions of QuietNext. *)
LEMMA QuietStep == QuietInv /\ [QuietNext]_vars => QuietInv'
  <1> SUFFICES ASSUME QuietInv, [QuietNext]_vars PROVE QuietInv'
    OBVIOUS
  <1>1. TypeOK'
    BY TypeStep DEF QuietInv, QuietNext, Next
  <1>2. ASSUME NEW c \in Conns, Live = {}, New(c) PROVE QuietInv'
    BY <1>1, <1>2, QuietNew
  <1>3. ASSUME NEW c \in Conns, AfterConnect(c) PROVE QuietInv'
    <2>1. UNCHANGED <<ring, stat, sent, calling, submits, log, answered>>
      BY <1>3 DEF AfterConnect
    <2>2. (\E d \in Conns : conn'[d] # "none") <=> (\E d \in Conns : conn[d] # "none")
      BY <1>3 DEF AfterConnect, QuietInv, TypeOK
    <2> QED
      BY <1>1, <2>1, <2>2
         DEF QuietInv, StartedInv, LogInv, AnsweredInv, StatInv, RingInv, Removed, Cell
  <1>4. ASSUME NEW w \in Writes, QueueStep(w) PROVE QuietInv'
    BY <1>1, <1>4, QuietWrite, QuietAfterWrite, QuietProgress DEF QueueStep
  <1>5. CASE UNCHANGED vars
    BY <1>1, <1>5
       DEF vars, QuietInv, StartedInv, LogInv, AnsweredInv, StatInv, RingInv, Removed, Cell
  <1> QED
    BY <1>2, <1>3, <1>4, <1>5 DEF QuietNext

\* One pool thread writes at a time and the ring is the pending part of the
\* log in both directions, as long as constructors find nothing pending.
THEOREM QuietSafety == QuietSpec => [](OneAtATime /\ RingIsLog)
  <1>1. QuietInv => OneAtATime
    BY InFlightIsFirst DEF OneAtATime
  <1>2. QuietInv => RingIsLog
    BY DEF QuietInv, StartedInv, RingInv, RingIsLog
  <1> QED
    BY <1>1, <1>2, QuietInit, QuietStep, PTL DEF QuietSpec

(* Initial states of the queue are initial states of the writer. *)
LEMMA RefinesInit == Init => Writer!Init
  BY DEF Init, Writer!Init

(* Each step of the queue is a step of the writer, or none: the bytes move with
   Transmit, the answer is the start of the callback. *)
LEMMA RefinesStep ==
  QuietInv /\ QuietInv' /\ [QuietNext]_vars => [Writer!Next]_(Writer!vars)
  <1> SUFFICES ASSUME QuietInv, QuietInv', [QuietNext]_vars
               PROVE  Writer!Next \/ UNCHANGED <<log, answered, sent>>
    BY DEF Writer!vars
  <1>1. ASSUME NEW w \in Writes, Write(w) PROVE Writer!Accept
    <2>1. w \notin Writer!Accepted
      BY <1>1 DEF Write, QuietInv, LogInv, Writer!Accepted, TypeOK
    <2> QED
      BY <1>1, <2>1 DEF Write, Writer!Accept
  <1>2. ASSUME NEW w \in Writes, Send(w) PROVE Writer!Transmit
    <2>1. w \in InFlight /\ stat[w] # "answering"
      BY <1>2 DEF Send, InFlight, InFlightStat
    <2>2. Len(answered) < Len(log) /\ w = Writer!Current
      BY <2>1, InFlightIsFirst, LogFacts DEF Writer!Current
    <2> QED
      BY <1>2, <2>2 DEF Send, Writer!Transmit
  <1>3. ASSUME NEW w \in Writes, AfterWriteCallback(w) PROVE Writer!Answer
    <2>1. w \in InFlight /\ stat[w] # "answering"
      BY <1>3 DEF AfterWriteCallback, InFlight, InFlightStat
    <2>2. Len(answered) < Len(log) /\ w = Writer!Current
      BY <2>1, InFlightIsFirst, LogFacts DEF Writer!Current
    <2> QED
      BY <1>3, <2>2 DEF AfterWriteCallback, Writer!Answer
  <1>4. ASSUME NEW w \in Writes, BeginWrite(w) \/ SendFails(w) \/ AfterWriteNext(w)
        PROVE  UNCHANGED <<log, answered, sent>>
    BY <1>4 DEF BeginWrite, SendFails, AfterWriteNext
  <1>5. ASSUME NEW c \in Conns, New(c) \/ AfterConnect(c)
        PROVE  UNCHANGED <<log, answered, sent>>
    BY <1>5 DEF New, AfterConnect
  <1>6. CASE UNCHANGED vars
    BY <1>6 DEF vars
  <1> QED
    BY <1>1, <1>2, <1>3, <1>4, <1>5, <1>6 DEF QuietNext, QueueStep, Writer!Next

\* The queue is a SerialWriter: writes run one at a time in the order of the
\* calls and each is answered once, in that order.
THEOREM QuietRefines == QuietSpec => ImplementsSerialWriter
  BY RefinesInit, RefinesStep, QuietInit, QuietStep, PTL
     DEF QuietSpec, ImplementsSerialWriter, Writer!Spec
=============================================================================
