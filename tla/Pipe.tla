-------------------------------- MODULE Pipe --------------------------------
(***************************************************************************)
(* The pipe of src/macos/pipe.c, in the way the macOS binding uses it      *)
(* (BTSerialPortBinding.mm:45-69, 156-176, DeviceINQ.mm:139-170): it has   *)
(* no limit, the owner makes the handles and frees the pipe_t, producers   *)
(* push and free their handles when they like, and a consumer pops eagerly *)
(* until a pop returns 0, and frees its handle then.                       *)
(*                                                                         *)
(* Without a limit max_cap is the largest size_t: wait_for_room does not   *)
(* wait, nobody waits for just_popped, and a push is done in one round.    *)
(***************************************************************************)
EXTENDS PipeRing, FiniteSets

CONSTANTS Producers, Consumers, \* the threads
          Owner, Nobody,
          MinCap,               \* DEFAULT_MINCAP
          Requests,             \* how many elements a pop asks for
          MaxPush, MaxItems     \* bounds: elements of a push, of a producer

ASSUME ThreadAssumption == Owner \notin Producers \cup Consumers
                           /\ Nobody \notin Producers \cup Consumers
                           /\ Producers \cap Consumers = {}
ASSUME FiniteAssumption == IsFiniteSet(Producers) /\ IsFiniteSet(Consumers)
ASSUME CapAssumption == MinCap \in Nat \ {0, 1}
ASSUME RequestAssumption == Requests \subseteq Nat \ {0}
ASSUME BoundAssumption == MaxPush \in Nat /\ MaxItems \in Nat

VARIABLES
    buf, size, begin, end,  \* the slots, bufend, and the two pointers
    beginLock, endLock,     \* who holds the lock, or Nobody
    producers, consumers,   \* the two refcounts
    waiting,                \* the threads in cond_wait(just_pushed)
    deallocated,            \* how often deallocate() was called
    pc,                     \* pc[t]
    seen,                   \* seen[t]: the other side's pointer in t's snapshot
    count,                  \* count[t]: the elements t pushes, or asks for
    pushed, popped          \* history: as in PipeQueue

ringVars   == <<buf, size, begin, end>>
lockVars   == <<beginLock, endLock>>
handleVars == <<producers, consumers, deallocated>>
localVars  == <<seen, count>>
history    == <<pushed, popped>>
vars == <<ringVars, lockVars, handleVars, waiting, pc, localVars, history>>

Threads == Producers \cup Consumers
Everybody == Threads \cup {Owner}
Items == Producers \X (1..MaxItems)

TypeOK ==
    /\ size \in Nat /\ size >= MinCap
    /\ begin \in 0..size - 1 /\ end \in 0..size - 1
    /\ DOMAIN buf = 0..size - 1 /\ \A i \in 0..size - 1 : buf[i] \in Items \cup {Nobody}
    /\ beginLock \in Consumers \cup {Nobody}
    /\ endLock \in Threads \cup {Nobody}
    /\ producers \in 0..Cardinality(Producers) + 1
    /\ consumers \in 0..Cardinality(Consumers) + 1
    /\ waiting = {c \in Consumers : pc[c] = "waiting"}
    /\ deallocated \in Nat
    /\ pc \in [Everybody -> {"making", "dropped", "deciding", "none", "idle", "push", "grow",
                             "copy", "signal", "pop", "sleep", "waiting", "take", "trim",
                             "shrink", "end", "last", "wake", "deallocate", "gone"}]
    /\ seen \in [Everybody -> Nat]
    /\ count \in [Everybody -> Nat]
    /\ pushed \in [Producers -> 0..MaxItems]
    /\ popped \in Seq(Items)

\* pipe_new
Init ==
    /\ size = MinCap
    /\ buf = [i \in 0..MinCap - 1 |-> Nobody]
    /\ begin = 0 /\ end = 1
    /\ beginLock = Nobody /\ endLock = Nobody
    /\ producers = 1 /\ consumers = 1
    /\ waiting = {}
    /\ deallocated = 0
    /\ pc = [t \in Everybody |-> IF t = Owner THEN "making" ELSE "none"]
    /\ seen = [t \in Everybody |-> 0]
    /\ count = [t \in Everybody |-> 0]
    /\ pushed = [p \in Producers |-> 0]
    /\ popped = <<>>

Goes(t, to) == pc' = [pc EXCEPT ![t] = to]

\* cond_broadcast(just_pushed) by t, which goes on: who waited must get
\* begin_lock again.
Broadcast(t, to) ==
    /\ pc' = [u \in Everybody |-> IF u \in waiting THEN "pop" ELSE IF u = t THEN to ELSE pc[u]]
    /\ waiting' = {}

\* cond_signal wakes one of those who wait.
Signal(t, to) ==
    IF waiting = {} THEN Goes(t, to) /\ UNCHANGED waiting
    ELSE \E c \in waiting :
             /\ pc' = [pc EXCEPT ![c] = "pop", ![t] = to]
             /\ waiting' = waiting \ {c}

-----------------------------------------------------------------------------
(* The owner of the pipe_t.                                                *)

\* pipe_producer_new
MakeProducer(p) ==
    /\ pc[Owner] = "making"
    /\ pc[p] = "none"
    /\ beginLock = Nobody
    /\ producers' = producers + 1
    /\ Goes(p, "idle")
    /\ UNCHANGED <<ringVars, lockVars, consumers, deallocated, waiting, localVars, history>>

\* pipe_consumer_new, when the producers are there
MakeConsumer(c) ==
    /\ pc[Owner] = "making"
    /\ pc[c] = "none" /\ \A p \in Producers : pc[p] # "none"
    /\ endLock = Nobody
    /\ consumers' = consumers + 1
    /\ Goes(c, "idle")
    /\ UNCHANGED <<ringVars, lockVars, producers, deallocated, waiting, localVars, history>>

\* pipe_free, with all the handles made, or with none: the connection failed.
OwnerDropsProducer ==
    /\ pc[Owner] = "making"
    /\ \/ \A t \in Threads : pc[t] # "none"
       \/ \A t \in Threads : pc[t] = "none"
    /\ beginLock = Nobody
    /\ producers' = producers - 1
    /\ seen' = [seen EXCEPT ![Owner] = producers']
    /\ Goes(Owner, "dropped")
    /\ UNCHANGED <<ringVars, lockVars, consumers, deallocated, waiting, count, history>>

OwnerDropsConsumer ==
    /\ pc[Owner] = "dropped"
    /\ endLock = Nobody
    /\ consumers' = consumers - 1
    /\ count' = [count EXCEPT ![Owner] = consumers']
    /\ Goes(Owner, "deciding")
    /\ UNCHANGED <<ringVars, lockVars, producers, deallocated, waiting, seen, history>>

\* The decision is made with the two counts as they were.
OwnerDecides ==
    /\ pc[Owner] = "deciding"
    /\ deallocated' = IF seen[Owner] = 0 /\ count[Owner] = 0 THEN deallocated + 1
                      ELSE deallocated
    /\ IF seen[Owner] = 0 /\ count[Owner] > 0 THEN Broadcast(Owner, "gone")
       ELSE Goes(Owner, "gone") /\ UNCHANGED waiting
    /\ UNCHANGED <<ringVars, lockVars, producers, consumers, localVars, history>>

-----------------------------------------------------------------------------
(* The ring, with both locks held.                                         *)

\* resize_buffer: it never goes down to min_cap.
ResizeBuffer(to) ==
    IF to <= MinCap THEN UNCHANGED ringVars
    ELSE LET used == InUse(size, begin, end)
         IN  /\ size' = to + 1
             /\ buf' = [i \in 0..to |-> IF i <= used THEN buf[Wrap(size, begin + i)] ELSE Nobody]
             /\ begin' = 0
             /\ end' = used + 1

-----------------------------------------------------------------------------
(* pipe_push, by a producer.                                               *)

PushBegins(p) ==
    /\ pc[p] = "idle"
    /\ \E n \in 1..MaxPush :
          /\ pushed[p] + n <= MaxItems
          /\ count' = [count EXCEPT ![p] = n]
    /\ Goes(p, "push")
    /\ UNCHANGED <<ringVars, lockVars, handleVars, waiting, seen, history>>

\* end_lock, the snapshot, and the first look at the size.
PushLocks(p) ==
    /\ pc[p] = "push"
    /\ endLock = Nobody
    /\ seen' = [seen EXCEPT ![p] = begin]
    /\ endLock' = IF consumers = 0 THEN Nobody ELSE p
    /\ Goes(p, IF consumers = 0 THEN "idle"
               ELSE IF InUse(size, begin, end) + count[p] > Capacity(size) THEN "grow"
               ELSE "copy")
    /\ UNCHANGED <<ringVars, beginLock, handleVars, waiting, count, history>>

\* validate_size with begin_lock, too.
PushGrows(p) ==
    /\ pc[p] = "grow"
    /\ beginLock = Nobody
    /\ LET needed == InUse(size, begin, end) + count[p]
       IN  IF needed > Capacity(size) THEN ResizeBuffer(NextPow2(needed + 1))
           ELSE UNCHANGED ringVars
    /\ seen' = [seen EXCEPT ![p] = begin']
    /\ Goes(p, "copy")
    /\ UNCHANGED <<lockVars, handleVars, waiting, count, history>>

\* process_push with the snapshot; p->end is written, and end_lock released.
PushCopies(p) ==
    /\ pc[p] = "copy"
    /\ LET n == count[p]
           slot(i) == PushSlot(size, seen[p], end, n, i)
       IN  /\ buf' = [s \in 0..size - 1 |->
                         IF \E i \in 1..n : slot(i) = s
                         THEN <<p, pushed[p] + (CHOOSE i \in 1..n : slot(i) = s)>>
                         ELSE buf[s]]
           /\ end' = NewEnd(size, seen[p], end, n)
           /\ pushed' = [pushed EXCEPT ![p] = @ + n]
    /\ endLock' = Nobody
    /\ Goes(p, "signal")
    /\ UNCHANGED <<size, begin, beginLock, handleVars, waiting, localVars, popped>>

\* just_pushed, with no lock held.
PushSignals(p) ==
    /\ pc[p] = "signal"
    /\ IF count[p] = 1 THEN Signal(p, "idle") ELSE Broadcast(p, "idle")
    /\ UNCHANGED <<ringVars, lockVars, handleVars, localVars, history>>

-----------------------------------------------------------------------------
(* pipe_pop_eager, by a consumer.                                          *)

PopBegins(c) ==
    /\ pc[c] = "idle"
    /\ pc[Owner] = "gone"
    /\ \E n \in Requests : count' = [count EXCEPT ![c] = n]
    /\ Goes(c, "pop")
    /\ UNCHANGED <<ringVars, lockVars, handleVars, waiting, seen, history>>

\* A slip: an empty pipe is taken for one without producers.
PopLocksEager(c) ==
    /\ pc[c] = "pop"
    /\ beginLock = Nobody
    /\ seen' = [seen EXCEPT ![c] = end]
    /\ LET empty == InUse(size, begin, end) = 0
       IN  /\ beginLock' = IF empty THEN Nobody ELSE c
           /\ Goes(c, IF empty THEN "end" ELSE "take")
    /\ UNCHANGED <<ringVars, endLock, handleVars, waiting, count, history>>

\* begin_lock, the snapshot, and the condition of wait_for_elements.
PopLocks(c) ==
    /\ pc[c] = "pop"
    /\ beginLock = Nobody
    /\ seen' = [seen EXCEPT ![c] = end]
    /\ LET empty == InUse(size, begin, end) = 0
       IN  /\ beginLock' = IF empty /\ producers = 0 THEN Nobody ELSE c
           /\ Goes(c, IF ~empty THEN "take" ELSE IF producers = 0 THEN "end" ELSE "sleep")
    /\ UNCHANGED <<ringVars, endLock, handleVars, waiting, count, history>>

\* cond_wait releases begin_lock and waits for just_pushed.
PopSleeps(c) ==
    /\ pc[c] = "sleep"
    /\ beginLock' = Nobody
    /\ waiting' = waiting \cup {c}
    /\ Goes(c, "waiting")
    /\ UNCHANGED <<ringVars, endLock, handleVars, localVars, history>>

\* cond_wait may return for no reason.
PopWakes(c) ==
    /\ c \in waiting
    /\ waiting' = waiting \ {c}
    /\ Goes(c, "pop")
    /\ UNCHANGED <<ringVars, lockVars, handleVars, localVars, history>>

\* A slip: begin_lock is still held when trim_buffer takes the locks again.
PopTakesKeepsLock(c) ==
    /\ pc[c] = "take"
    /\ LET n == Least(count[c], InUse(size, begin, seen[c]))
       IN  /\ popped' = popped \o [i \in 1..n |-> buf[PopSlot(size, begin, n, i)]]
           /\ begin' = NewBegin(size, begin, n)
    /\ LET trims == InUse(size, begin', seen[c]) <= Capacity(size) \div 4
       IN  /\ beginLock' = IF trims THEN c ELSE Nobody
           /\ Goes(c, IF trims THEN "trim" ELSE "idle")
    /\ UNCHANGED <<buf, size, end, endLock, handleVars, waiting, localVars, pushed>>

\* pop_without_locking with the snapshot, and the start of trim_buffer, which
\* releases begin_lock.
PopTakes(c) ==
    /\ pc[c] = "take"
    /\ LET n == Least(count[c], InUse(size, begin, seen[c]))
       IN  /\ popped' = popped \o [i \in 1..n |-> buf[PopSlot(size, begin, n, i)]]
           /\ begin' = NewBegin(size, begin, n)
    /\ beginLock' = Nobody
    /\ Goes(c, IF InUse(size, begin', seen[c]) > Capacity(size) \div 4 THEN "idle" ELSE "trim")
    /\ UNCHANGED <<buf, size, end, endLock, handleVars, waiting, localVars, pushed>>

\* A slip: trim_buffer resizes without end_lock.
TrimLocksNot(c) ==
    /\ pc[c] = "trim"
    /\ Goes(c, "shrink")
    /\ UNCHANGED <<ringVars, lockVars, handleVars, waiting, localVars, history>>

\* trim_buffer takes the locks again, in the other order.
TrimLocks(c) ==
    /\ pc[c] = "trim"
    /\ endLock = Nobody
    /\ endLock' = c
    /\ Goes(c, "shrink")
    /\ UNCHANGED <<ringVars, beginLock, handleVars, waiting, localVars, history>>

TrimShrinks(c) ==
    /\ pc[c] = "shrink"
    /\ beginLock = Nobody
    /\ IF InUse(size, begin, end) <= Capacity(size) \div 4
         THEN ResizeBuffer(Capacity(size) \div 2)
         ELSE UNCHANGED ringVars
    /\ endLock' = Nobody
    /\ Goes(c, "idle")
    /\ UNCHANGED <<beginLock, handleVars, waiting, localVars, history>>

-----------------------------------------------------------------------------
(* pipe_producer_free and pipe_consumer_free.                              *)

ProducerLeaves(p) ==
    /\ pc[p] = "idle"
    /\ beginLock = Nobody
    /\ producers' = producers - 1
    /\ Goes(p, IF producers' = 0 THEN "last" ELSE "gone")
    /\ UNCHANGED <<ringVars, lockVars, consumers, deallocated, waiting, localVars, history>>

LastProducer(p) ==
    /\ pc[p] = "last"
    /\ endLock = Nobody
    /\ Goes(p, IF consumers > 0 THEN "wake" ELSE "deallocate")
    /\ UNCHANGED <<ringVars, lockVars, handleVars, waiting, localVars, history>>

ProducerWakes(p) ==
    /\ pc[p] = "wake"
    /\ Broadcast(p, "gone")
    /\ UNCHANGED <<ringVars, lockVars, handleVars, localVars, history>>

ConsumerLeaves(c) ==
    /\ pc[c] = "end"
    /\ endLock = Nobody
    /\ consumers' = consumers - 1
    /\ Goes(c, IF consumers' = 0 THEN "last" ELSE "gone")
    /\ UNCHANGED <<ringVars, lockVars, producers, deallocated, waiting, localVars, history>>

\* Nobody waits for just_popped, which it signals if there are producers.
LastConsumer(c) ==
    /\ pc[c] = "last"
    /\ beginLock = Nobody
    /\ Goes(c, IF producers > 0 THEN "gone" ELSE "deallocate")
    /\ UNCHANGED <<ringVars, lockVars, handleVars, waiting, localVars, history>>

\* deallocate; what was in the memory stays there, in this model.
Deallocate(t) ==
    /\ pc[t] = "deallocate"
    /\ deallocated' = deallocated + 1
    /\ Goes(t, "gone")
    /\ UNCHANGED <<ringVars, lockVars, producers, consumers, waiting, localVars, history>>

-----------------------------------------------------------------------------
Owns == \/ \E p \in Producers : MakeProducer(p)
        \/ \E c \in Consumers : MakeConsumer(c)
        \/ OwnerDropsProducer \/ OwnerDropsConsumer \/ OwnerDecides

\* The steps of a call that has begun.
Produces(p) == \/ PushLocks(p) \/ PushGrows(p) \/ PushCopies(p) \/ PushSignals(p)
               \/ LastProducer(p) \/ ProducerWakes(p) \/ Deallocate(p)
Consumes(c) == \/ PopLocks(c) \/ PopSleeps(c) \/ PopTakes(c) \/ TrimLocks(c) \/ TrimShrinks(c)
               \/ ConsumerLeaves(c) \/ LastConsumer(c) \/ Deallocate(c)

Next == \/ Owns
        \/ \E p \in Producers : PushBegins(p) \/ ProducerLeaves(p) \/ Produces(p)
        \/ \E c \in Consumers : PopBegins(c) \/ PopWakes(c) \/ Consumes(c)

Spec == Init /\ [][Next]_vars

\* A thread in a call goes on, and a mutex that is free again and again is got
\* at last.  POSIX promises no wakeup without a reason.
FairSpec == /\ Spec
            /\ \A p \in Producers : SF_vars(Produces(p))
            /\ \A c \in Consumers : WF_vars(Consumes(c))

-----------------------------------------------------------------------------
(* Properties.                                                             *)

\* The ring with its two locks is a queue (pipe.h: "enqueued and dequeued in a
\* FIFO pattern"), across wraps, growth and shrinking.
Queue == INSTANCE PipeQueue WITH queue <- Elements(buf, size, begin, end)
ImplementsQueue == Queue!Spec

\* The claim of pipe.c:282-288, that neither side needs the other's pointer as
\* it is now: what is pushed fits behind the elements there are, and what is
\* taken is there.
SnapshotsSuffice ==
    /\ \A p \in Producers : pc[p] = "copy" =>
           InUse(size, begin, end) <= InUse(size, seen[p], end)
           /\ InUse(size, seen[p], end) + count[p] <= Capacity(size)
    /\ \A c \in Consumers : pc[c] = "take" =>
           InUse(size, begin, seen[c]) \in 1..InUse(size, begin, end)

\* pipe.h: when a pop returns 0, "there will be no more elements coming in".
ZeroIsFinal ==
    (\E c \in Consumers : pc[c] \in {"end", "last", "deallocate", "gone"}) =>
        /\ InUse(size, begin, end) = 0
        /\ \A p \in Producers : pc[p] \in {"last", "wake", "deallocate", "gone"}

\* A push without a limit does not block: whoever holds a lock gives it back.
PushReturns == \A p \in Producers : pc[p] = "push" ~> pc[p] = "idle"

-----------------------------------------------------------------------------
(* What pipe.h says, and the code does not keep.                           *)

\* pipe_pop_eager returns when "there is at least one element in the pipe", or
\* "all producer_t handles have been freed".
PopReturns == \A c \in Consumers :
    (pc[c] = "waiting" /\ (InUse(size, begin, end) > 0 \/ producers = 0))
        ~> pc[c] # "waiting"

\* "The underlying pipe will exist until all the handles have been freed": it
\* is freed by the last of them, once.
DeallocatedOnce == deallocated <= 1
=============================================================================
