----------------------------- MODULE WriteQueue -----------------------------
(***************************************************************************)
(* The write queue of the client bindings                                  *)
(* (src/linux/BTSerialPortBinding.cc; the Windows and macOS bindings       *)
(* have the same one).  write() links a request on a ring and hands it to  *)
(* the thread pool only when the ring was empty; a pool thread runs        *)
(* EIO_Write; EIO_AfterWrite, back on the JavaScript thread, calls the     *)
(* callback, unlinks the request and hands the new head of the ring over.  *)
(*                                                                         *)
(* The ring is ONE static variable of the binding, and the constructor of  *)
(* every connection initialises it anew (lines 254-255).  With a single    *)
(* connection this is the queue of the server binding as well, which keeps *)
(* a ring per object (BTSerialPortBindingServer.cc:379-380).               *)
(*                                                                         *)
(* Only the JavaScript thread touches the ring, so write_queue_mutex is    *)
(* never contended and is left out.  What is concurrent is EIO_Write.      *)
(***************************************************************************)
EXTENDS Naturals, Sequences, NgxQueue

CONSTANTS Writes,  \* the write() calls, each with its queued_write_t
          Conns,   \* the connections, each constructed once
          Size,    \* length of every buffer
          Sentinel,    \* the cell of the static variable write_queue
          NULL     \* the null pointer

ASSUME SizeAssumption == Size \in Nat \ {0}
ASSUME CellAssumption == Sentinel \notin Writes /\ NULL \notin Writes \cup {Sentinel}

VARIABLES
    conn,     \* conn[c]: how far the connection is
    ring,     \* the pointers of the queue (NgxQueue)
    stat,     \* stat[w]: where write w is
    sent,     \* sent[w]: the bytes of w that write(2) took
    calling,  \* the write whose callback is on the stack, or NULL
    submits,  \* how often w was given to uv_queue_work (history)
    log,      \* the writes, in the order of the calls (history)
    answered  \* the writes whose callback was called (history)

vars == <<conn, ring, stat, sent, calling, submits, log, answered>>

Cells == Writes \cup {Sentinel}

\* "linked" waits on the ring; "submitted" is in the queue of the pool;
\* "sending" is in EIO_Write; "finished" waits for the event loop;
\* "answering" is in its callback; "freed" was deleted.
InFlightStat == {"submitted", "sending", "finished", "answering"}
Stats == {"fresh", "linked", "freed"} \cup InFlightStat

InFlight == {w \in Writes : stat[w] \in InFlightStat}
Live     == InFlight \cup {w \in Writes : stat[w] = "linked"}

TypeOK ==
    /\ conn \in [Conns -> {"none", "connecting", "open", "failed"}]
    /\ ring \in [prev: [Cells -> Cells \cup {NULL}],
                 next: [Cells -> Cells \cup {NULL}]]
    /\ stat \in [Writes -> Stats]
    /\ sent \in [Writes -> 0..Size]
    /\ calling \in Writes \cup {NULL}
    /\ submits \in [Writes -> Nat]
    /\ log \in Seq(Writes)
    /\ answered \in Seq(Writes)

Init ==
    /\ conn = [c \in Conns |-> "none"]
    /\ ring = [prev |-> [x \in Cells |-> NULL], next |-> [x \in Cells |-> NULL]]
    /\ stat = [w \in Writes |-> "fresh"]
    /\ sent = [w \in Writes |-> 0]
    /\ calling = NULL
    /\ submits = [w \in Writes |-> 0]
    /\ log = <<>>
    /\ answered = <<>>

-----------------------------------------------------------------------------
(* The JavaScript thread.  User code calls the constructor and write()     *)
(* from the event loop or from inside a write callback.                    *)

\* BTSerialPortBinding::New: the queue is initialised before anything else.
New(c) ==
    /\ conn[c] = "none"
    /\ conn' = [conn EXCEPT ![c] = "connecting"]
    /\ ring' = QueueInit(ring, Sentinel)
    /\ UNCHANGED <<stat, sent, calling, submits, log, answered>>

\* EIO_AfterConnect: connect(2) succeeded or not.
AfterConnect(c) ==
    /\ calling = NULL
    /\ conn[c] = "connecting"
    /\ \E outcome \in {"open", "failed"} : conn' = [conn EXCEPT ![c] = outcome]
    /\ UNCHANGED <<ring, stat, sent, calling, submits, log, answered>>

\* BTSerialPortBinding::Write.  The library only calls it on a connection
\* whose success callback ran; which one does not matter to the queue.
Write(w) ==
    /\ \E c \in Conns : conn[c] = "open"
    /\ stat[w] = "fresh"
    /\ ring' = QueueInsertTail(ring, Sentinel, w)
    /\ IF QueueEmpty(ring, Sentinel)
         THEN /\ stat' = [stat EXCEPT ![w] = "submitted"]
              /\ submits' = [submits EXCEPT ![w] = @ + 1]
         ELSE /\ stat' = [stat EXCEPT ![w] = "linked"]
              /\ UNCHANGED submits
    /\ log' = Append(log, w)
    /\ UNCHANGED <<conn, sent, calling, answered>>

\* EIO_AfterWrite up to the callback: it runs while w is still linked.
AfterWriteCallback(w) ==
    /\ calling = NULL
    /\ stat[w] = "finished"
    /\ calling' = w
    /\ stat' = [stat EXCEPT ![w] = "answering"]
    /\ answered' = Append(answered, w)
    /\ UNCHANGED <<conn, ring, sent, submits, log>>

\* A slip: the next request is never handed over.
AfterWriteForgetsNext(w) ==
    /\ calling = w
    /\ calling' = NULL
    /\ ring' = QueueRemove(ring, w)
    /\ stat' = [stat EXCEPT ![w] = "freed"]
    /\ UNCHANGED <<conn, sent, submits, log, answered>>

\* EIO_AfterWrite from the callback's return: unlink w, hand over the head
\* of the ring, delete w.
AfterWriteNext(w) ==
    /\ calling = w
    /\ calling' = NULL
    /\ ring' = QueueRemove(ring, w)
    /\ LET next == QueueHead(ring', Sentinel)
       IN  IF QueueEmpty(ring', Sentinel)
             THEN /\ stat' = [stat EXCEPT ![w] = "freed"]
                  /\ UNCHANGED submits
             ELSE /\ stat' = [stat EXCEPT ![w] = "freed", ![next] = "submitted"]
                  /\ submits' = [submits EXCEPT ![next] = @ + 1]
    /\ UNCHANGED <<conn, sent, log, answered>>

-----------------------------------------------------------------------------
(* The pool threads: EIO_Write.                                            *)

BeginWrite(w) ==
    /\ stat[w] = "submitted"
    /\ stat' = [stat EXCEPT ![w] = "sending"]
    /\ UNCHANGED <<conn, ring, sent, calling, submits, log, answered>>

\* A slip: bytesToSend does not shrink.
SendRepeatsLength(w) ==
    /\ stat[w] = "sending"
    /\ \E n \in 1..Size :
          /\ sent' = [sent EXCEPT ![w] = @ + n]
          /\ stat' = [stat EXCEPT ![w] = IF sent[w] + n >= Size THEN "finished" ELSE @]
    /\ UNCHANGED <<conn, ring, calling, submits, log, answered>>

\* One turn of the loop: write(2) takes a part of what is left.
Send(w) ==
    /\ stat[w] = "sending"
    /\ \E n \in 1..(Size - sent[w]) :
          /\ sent' = [sent EXCEPT ![w] = @ + n]
          /\ stat' = [stat EXCEPT ![w] = IF sent[w] + n = Size THEN "finished" ELSE @]
    /\ UNCHANGED <<conn, ring, calling, submits, log, answered>>

\* write(2) fails or the connection was closed: the loop is left at once,
\* with whatever was sent before.
SendFails(w) ==
    /\ stat[w] = "sending"
    /\ stat' = [stat EXCEPT ![w] = "finished"]
    /\ UNCHANGED <<conn, ring, sent, calling, submits, log, answered>>

-----------------------------------------------------------------------------
QueueStep(w) == \/ Write(w) \/ AfterWriteCallback(w) \/ AfterWriteNext(w)
                \/ BeginWrite(w) \/ Send(w) \/ SendFails(w)

Next == \/ \E c \in Conns : New(c) \/ AfterConnect(c)
        \/ \E w \in Writes : QueueStep(w)

\* The discipline under which the queue keeps its promise: no connection is
\* constructed while a write is pending.  One connection per queue (one
\* client, or the server) keeps to it by itself.
QuietNext == \/ \E c \in Conns : (Live = {} /\ New(c)) \/ AfterConnect(c)
             \/ \E w \in Writes : QueueStep(w)

\* The pool runs what it is given, write(2) on the O_NONBLOCK socket always
\* returns, the event loop runs completions, and a callback returns.
Fairness == \A w \in Writes :
    /\ WF_vars(BeginWrite(w))
    /\ WF_vars(Send(w) \/ SendFails(w))
    /\ WF_vars(AfterWriteCallback(w))
    /\ WF_vars(AfterWriteNext(w))

Spec      == Init /\ [][Next]_vars
FairSpec  == Spec /\ Fairness
QuietSpec == Init /\ [][QuietNext]_vars
FairQuietSpec == QuietSpec /\ Fairness

-----------------------------------------------------------------------------
(* Properties of every use of the binding.                                 *)

\* No request is given to uv_queue_work twice, whatever the constructor does
\* to the ring in between: a second uv_queue_work on a uv_work_t in use would
\* be undefined, and the callback would run twice.
SubmittedOnce == \A w \in Writes : submits[w] <= 1

\* No pointer that an operation will follow leads to a deleted request: the
\* links of the requests still alive and both links of the head.  New leaves
\* requests of the old ring linked to the head and to each other, and
\* AfterWriteNext deletes what it unlinks.
NoDanglingLink ==
    /\ \A w \in Live : {ring.prev[w], ring.next[w]} \subseteq Live \cup {Sentinel}
    /\ log # <<>> => {ring.prev[Sentinel], ring.next[Sentinel]} \subseteq Live \cup {Sentinel}

-----------------------------------------------------------------------------
(* Properties of the queue under QuietNext.                                *)

\* At most one pool thread writes: two would interleave the bytes of two
\* write() calls on the connection.
OneAtATime == \A v, w \in InFlight : v = w

\* The writes deleted so far are a prefix of the log.
Removed == IF calling = NULL THEN Len(answered) ELSE Len(answered) - 1

\* The i-th accepted write while it is pending; the head at both ends.
Cell(i) == IF i \in (Removed + 1)..Len(log) THEN log[i] ELSE Sentinel

\* The ring is the log without the removed writes, read in either direction.
\* Callbacks of writes may link new requests before w is unlinked.
RingIsLog ==
    log # <<>> =>
        /\ ring.next[Sentinel] = Cell(Removed + 1)
        /\ ring.prev[Sentinel] = Cell(Len(log))
        /\ \A i \in (Removed + 1)..Len(log) :
              /\ ring.next[log[i]] = Cell(i + 1)
              /\ ring.prev[log[i]] = Cell(i - 1)

\* The queue executes and answers the writes as SerialWriter promises.
Writer == INSTANCE SerialWriter
ImplementsSerialWriter == Writer!Spec

\* README.md:210: the callback "is called when the write action has been
\* completed".  Every write() accepted is answered in the end.
EveryWriteAnswered ==
    \A w \in Writes : (stat[w] # "fresh") ~> (\E i \in DOMAIN answered : answered[i] = w)
=============================================================================
