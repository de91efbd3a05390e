--------------------------- MODULE MacPortProofs ---------------------------
(***************************************************************************)
(* Theorems about MacPort, for any number of connections, writes and       *)
(* searches: the worker's queue holds exactly the tasks somebody waits for, *)
(* whoever stores a result holds the lock of its kind, and the refcounts   *)
(* of each pipe are those of the handles that are in use.                  *)
(***************************************************************************)
EXTENDS MacPort, RequestLemmas, TLAPS

Tasks == Calls \cup Closers

-----------------------------------------------------------------------------
(* The inductive invariant.                                                *)

\* Somebody waits for task t: the call of this name, the JavaScript thread in
\* Close, or the delegate in rfcommChannelClosed.
Awaited(t) == IF t \in Calls THEN stage[t] = "synced"
              ELSE IF t = "close()" THEN js # None
              ELSE delegate.does = "wait"

\* A task is in the queue, once, if and only if somebody waits for it: nobody
\* waits in vain, and no dispatch_sync returns for a task of somebody else.
TasksAwaited == /\ Distinct(queue)
                /\ \A t \in Tasks : InQueue(queue, t) <=> Awaited(t)

\* While connectDeviceTask is open to callbacks it is the first task, and the
\* worker has no connection.
PhaseInv == phase # "waiting" => queue # <<>> /\ Head(queue) \in Conns /\ res = None

\* A call holds the lock of its kind from dispatch_sync until it took its
\* result, which by then is what its task stored.
LockInv == \A j \in Calls :
    /\ stage[j] \in {"synced", "ran"} => lock[Kind(j)] = j
    /\ stage[j] = "ran" /\ j \notin skipped => result[Kind(j)] = j

\* The consumer's handle of a pipe, from EIO_Connect to the last EIO_Read, and
\* how far a connection must be for the worker or a reader to have it.
HandleInv == \A c \in Conns :
    /\ consumers[c] = IF stage[c] \in {"synced", "ran"} \/ consumer[c] THEN 1 ELSE 0
    /\ consumer[c] => stage[c] \in {"returned", "answered"}
    /\ chain[c] # "off" => stage[c] = "answered"
    /\ chain[c] \in {"tick", "popping", "data"} => consumer[c]
    /\ res = c => stage[c] \in {"ran", "returned", "answered"}
    /\ port[c] = "new" => stage[c] = "new"

\* What is due was sent, and the delegate pushes to a pipe.
FrameworkInv == /\ \A c \in Conns : due[c] <= sent
                /\ delegate.does = "push" => delegate.to \in Conns

MacInv == /\ TypeOK /\ TasksAwaited /\ PhaseInv /\ LockInv /\ ResultIsOwn
          /\ ProducerIsHeld /\ HandleInv /\ FrameworkInv

-----------------------------------------------------------------------------
(* Lemmas about the invariant.                                             *)

\* Names of calls, their kinds, and names of closers are different things.
LEMMA Names ==
  /\ \A c \in Conns : c \in Calls /\ Kind(c) = "connect"
  /\ \A w \in Writes : w \in Calls /\ Kind(w) = "write" /\ w \notin Conns
  /\ \A q \in Searches : q \in Calls /\ Kind(q) = "search" /\ q \notin Conns
  /\ \A j \in Calls : Kind(j) \in Kinds /\ j # None /\ j \notin Closers /\ j \in Tasks
  /\ \A t \in Closers : t \in Tasks /\ t \notin Calls
  /\ "close()" \in Closers /\ "channelClosed" \in Closers /\ "close()" # "channelClosed"
  BY DistinctAssumption DEF Calls, Kinds, Kind, Closers, Tasks

\* The first task of the queue is awaited.
LEMMA FirstTask ==
  ASSUME MacInv, queue # <<>>
  PROVE  Head(queue) \in Tasks /\ Awaited(Head(queue))
  BY RemoveHead DEF MacInv, TypeOK, Tasks, TasksAwaited

\* Somebody who did not wait hands the worker a task and waits.
LEMMA Enqueued ==
  ASSUME MacInv, NEW t \in Tasks, ~Awaited(t),
         queue' = Append(queue, t),
         \A u \in Tasks : Awaited(u)' <=> Awaited(u) \/ u = t
  PROVE  TasksAwaited' /\ queue' \in Seq(Tasks)
  <1>1. queue \in Seq(Tasks) /\ Distinct(queue) /\ ~InQueue(queue, t)
    BY DEF MacInv, TypeOK, Tasks, TasksAwaited
  <1>2. /\ Append(queue, t) \in Seq(Tasks) /\ Distinct(Append(queue, t))
        /\ \A u : InQueue(Append(queue, t), u) <=> InQueue(queue, u) \/ u = t
    BY <1>1, AppendNew
  <1>3. \A u \in Tasks : InQueue(queue', u) <=> Awaited(u)'
    BY <1>2 DEF MacInv, TasksAwaited
  <1>4. Distinct(queue') /\ queue' \in Seq(Tasks)
    BY <1>2
  <1> QED
    BY <1>3, <1>4 DEF TasksAwaited

\* The first task has run, and who waited for it does not wait any more.
LEMMA Dequeued ==
  ASSUME MacInv, queue # <<>>,
         queue' = Tail(queue),
         \A u \in Tasks : Awaited(u)' <=> Awaited(u) /\ u # Head(queue)
  PROVE  TasksAwaited' /\ queue' \in Seq(Tasks)
  <1>1. queue \in Seq(Tasks) /\ Distinct(queue)
    BY DEF MacInv, TypeOK, Tasks, TasksAwaited
  <1>2. /\ Tail(queue) \in Seq(Tasks) /\ Distinct(Tail(queue))
        /\ \A u : InQueue(Tail(queue), u) <=> InQueue(queue, u) /\ u # Head(queue)
    BY <1>1, RemoveHead
  <1>3. \A u \in Tasks : InQueue(queue', u) <=> Awaited(u)'
    BY <1>2 DEF MacInv, TasksAwaited
  <1>4. Distinct(queue') /\ queue' \in Seq(Tasks)
    BY <1>2
  <1> QED
    BY <1>3, <1>4 DEF TasksAwaited

\* Nobody begins or ends to wait.
LEMMA QueueKept ==
  ASSUME MacInv, UNCHANGED queue, \A u \in Tasks : Awaited(u)' <=> Awaited(u)
  PROVE  TasksAwaited' /\ queue' \in Seq(Tasks)
  BY DEF MacInv, TypeOK, Tasks, TasksAwaited

\* The initial state satisfies the invariant.
LEMMA MacInit == Init => MacInv
  <1> SUFFICES ASSUME Init PROVE MacInv
    OBVIOUS
  <1>1. TypeOK
    BY BoundAssumption DEF Init, TypeOK, Idle
  <1>2. TasksAwaited
    BY DEF Init, TasksAwaited, Distinct, InQueue, Awaited, Idle, Tasks, Calls, Closers
  <1>3. PhaseInv /\ LockInv /\ ResultIsOwn /\ ProducerIsHeld /\ HandleInv /\ FrameworkInv
    BY DistinctAssumption
       DEF Init, PhaseInv, LockInv, ResultIsOwn, ProducerIsHeld, HandleInv, FrameworkInv,
           Idle, Calls
  <1> QED
    BY <1>1, <1>2, <1>3 DEF MacInv

-----------------------------------------------------------------------------
(* The queue and those who wait for it.                                    *)

\* The end of a task of a call: its caller is not waiting any more.
LEMMA TaskEndsStep ==
  ASSUME MacInv, NEW j \in Calls, Runs(j), NEW stored, TaskEnds(j, stored), UNCHANGED delegate
  PROVE  TasksAwaited' /\ queue' \in Seq(Tasks)
  <1>1. /\ queue # <<>> /\ Head(queue) = j /\ queue' = Tail(queue)
        /\ stage' = [stage EXCEPT ![j] = "ran"] /\ UNCHANGED <<js, delegate>>
    BY DEF Runs, TaskEnds, jsVars
  <1>2. \A u \in Tasks : Awaited(u)' <=> Awaited(u) /\ u # Head(queue)
    BY <1>1, Names DEF Awaited, MacInv, TypeOK
  <1> QED
    BY <1>1, <1>2, Dequeued

\* close() of a binding, by whoever runs on the JavaScript thread.
LEMMA NativeCloseStep ==
  ASSUME MacInv, JsRuns, NEW c \in Conns, NativeClose(c),
         UNCHANGED delegate,
         \A j \in Calls : stage'[j] = "synced" <=> stage[j] = "synced"
  PROVE  TasksAwaited' /\ queue' \in Seq(Tasks)
  <1>1. \A u \in Tasks : Awaited(u)' <=> Awaited(u) \/ u = "close()"
    BY Names DEF NativeClose, JsRuns, Awaited
  <1>2. ~Awaited("close()") /\ queue' = Append(queue, "close()")
    BY Names DEF NativeClose, JsRuns, Awaited
  <1> QED
    BY <1>1, <1>2, Names, Enqueued

\* A step of calls that neither begin nor end to wait.
LEMMA CallsKept ==
  ASSUME MacInv, UNCHANGED <<queue, js>>,
         delegate'.does = "wait" <=> delegate.does = "wait",
         \A j \in Calls : stage'[j] = "synced" <=> stage[j] = "synced"
  PROVE  TasksAwaited' /\ queue' \in Seq(Tasks)
  BY QueueKept DEF Awaited

\* Every step keeps the queue and those who wait for it in accordance.
LEMMA TasksStep == MacInv /\ [Next]_vars => TasksAwaited' /\ queue' \in Seq(Tasks)
  <1> SUFFICES ASSUME MacInv, [Next]_vars PROVE TasksAwaited' /\ queue' \in Seq(Tasks)
    OBVIOUS
  <1> USE DEF jsVars, workerVars, frameworkVars
  <1>types. stage \in [Calls -> {"new", "queued", "synced", "ran", "returned", "answered"}]
    BY DEF MacInv, TypeOK
  <1>1. CASE UNCHANGED vars
    BY <1>1, CallsKept DEF vars, callVars
  <1>2. CASE User
    <2>1. ASSUME NEW c \in Conns, Connect(c) PROVE TasksAwaited' /\ queue' \in Seq(Tasks)
      <3>1. \A j \in Calls : stage'[j] = "synced" <=> stage[j] = "synced"
        BY <2>1, <1>types, Names DEF Connect, MacInv, HandleInv
      <3> QED
        BY <2>1, <3>1, CallsKept DEF Connect
    <2>2. ASSUME NEW c \in Conns, Close(c) PROVE TasksAwaited' /\ queue' \in Seq(Tasks)
      BY <2>2, NativeCloseStep DEF Close, callVars
    <2>3. ASSUME NEW w \in Writes, Write(w) PROVE TasksAwaited' /\ queue' \in Seq(Tasks)
      <3>1. \A j \in Calls : stage'[j] = "synced" <=> stage[j] = "synced"
        BY <2>3, <1>types, Names DEF Write
      <3> QED
        BY <2>3, <3>1, CallsKept DEF Write
    <2>4. ASSUME NEW q \in Searches, FindSerialPortChannel(q)
          PROVE  TasksAwaited' /\ queue' \in Seq(Tasks)
      <3>1. \A j \in Calls : stage'[j] = "synced" <=> stage[j] = "synced"
        BY <2>4, <1>types, Names DEF FindSerialPortChannel
      <3> QED
        BY <2>4, <3>1, CallsKept DEF FindSerialPortChannel
    <2> QED
      BY <1>2, <2>1, <2>2, <2>3, <2>4 DEF User
  <1>3. ASSUME NEW c \in Conns, Loop(c) PROVE TasksAwaited' /\ queue' \in Seq(Tasks)
    <2>1. \A j \in Calls : stage'[j] = "synced" <=> stage[j] = "synced"
      BY <1>3, <1>types, Names
         DEF Loop, Connected, NotConnected, RunTick, AfterReadData, AfterReadEmpty, callVars
    <2>2. CASE Connected(c) \/ RunTick(c) \/ AfterReadData(c)
      BY <2>1, <2>2, CallsKept DEF Connected, RunTick, AfterReadData
    <2>3. CASE NotConnected(c)
      BY <2>1, <2>3, NativeCloseStep DEF NotConnected, LoopRuns
    <2>4. CASE AfterReadEmpty(c)
      BY <2>1, <2>4, NativeCloseStep, CallsKept DEF AfterReadEmpty, LoopRuns
    <2> QED
      BY <1>3, <2>2, <2>3, <2>4 DEF Loop
  <1>4. ASSUME NEW c \in Conns, EIO_Read(c) PROVE TasksAwaited' /\ queue' \in Seq(Tasks)
    BY <1>4, CallsKept DEF EIO_Read, ReadTakes, ReadEnds, callVars
  <1>5. ASSUME NEW j \in Calls, CallLocks(j) PROVE TasksAwaited' /\ queue' \in Seq(Tasks)
    <2>1. ~Awaited(j)
      BY <1>5 DEF CallLocks, Awaited
    <2>2. \A u \in Tasks : Awaited(u)' <=> Awaited(u) \/ u = j
      BY <1>5, <1>types DEF CallLocks, Awaited
    <2> QED
      BY <1>5, <2>1, <2>2, Names, Enqueued DEF CallLocks
  <1>6. ASSUME NEW j \in Calls, CallReturns(j) PROVE TasksAwaited' /\ queue' \in Seq(Tasks)
    <2>1. \A i \in Calls : stage'[i] = "synced" <=> stage[i] = "synced"
      BY <1>6, <1>types DEF CallReturns
    <2> QED
      BY <1>6, <2>1, CallsKept DEF CallReturns
  <1>7. CASE Worker
    <2>1. ASSUME NEW c \in Conns, ConnectRefuses(c) \/ OpenFails(c) \/ ConnectRecords(c)
          PROVE  TasksAwaited' /\ queue' \in Seq(Tasks)
      BY <2>1, TaskEndsStep, Names DEF ConnectRefuses, OpenFails, ConnectRecords
    <2>2. ASSUME NEW c \in Conns, ConnectOpens(c) \/ OpenSucceeds(c)
          PROVE  TasksAwaited' /\ queue' \in Seq(Tasks)
      BY <2>2, CallsKept DEF ConnectOpens, OpenSucceeds, callVars
    <2>3. ASSUME NEW w \in Writes, RunWrite(w) PROVE TasksAwaited' /\ queue' \in Seq(Tasks)
      BY <2>3, TaskEndsStep, Names DEF RunWrite
    <2>4. ASSUME NEW q \in Searches, RunSearch(q) PROVE TasksAwaited' /\ queue' \in Seq(Tasks)
      BY <2>4, TaskEndsStep, Names DEF RunSearch
    <2>5. CASE RunDisconnect
      <3>1. /\ queue # <<>> /\ Head(queue) \in Closers /\ queue' = Tail(queue)
            /\ UNCHANGED stage
            /\ IF Head(queue) = "close()"
                 THEN js' = None /\ UNCHANGED delegate
                 ELSE delegate' = Idle /\ UNCHANGED js
        BY <2>5 DEF RunDisconnect, callVars
      <3>2. \A u \in Tasks : Awaited(u)' <=> Awaited(u) /\ u # Head(queue)
        BY <3>1, Names DEF Awaited, Idle, Closers, Tasks
      <3> QED
        BY <3>1, <3>2, Dequeued
    <2> QED
      BY <1>7, <2>1, <2>2, <2>3, <2>4, <2>5 DEF Worker
  <1>8. CASE Remote
    BY <1>8, CallsKept DEF Remote, RemoteSends, RemoteEnds, callVars
  <1>9. CASE DelegateLooks \/ DelegatePushes
    BY <1>9, CallsKept DEF DelegateLooks, DelegatePushes, Idle, callVars
  <1>10. ASSUME NEW c \in Conns, DataArrives(c) PROVE TasksAwaited' /\ queue' \in Seq(Tasks)
    BY <1>10, CallsKept DEF DataArrives, Idle, callVars
  <1>11. ASSUME NEW c \in Conns, ClosedArrives(c) PROVE TasksAwaited' /\ queue' \in Seq(Tasks)
    <2>1. ~Awaited("channelClosed")
      BY <1>11, Names DEF ClosedArrives, Awaited, Idle
    <2>2. \A u \in Tasks : Awaited(u)' <=> Awaited(u) \/ u = "channelClosed"
      BY <1>11, Names DEF ClosedArrives, Awaited, Idle, callVars, Tasks, Closers
    <2> QED
      BY <1>11, <2>1, <2>2, Names, Enqueued DEF ClosedArrives
  <1> QED
    BY <1>1, <1>2, <1>3, <1>4, <1>5, <1>6, <1>7, <1>8, <1>9, <1>10, <1>11 DEF Next

-----------------------------------------------------------------------------
(* The task that opens a channel.                                          *)

\* Another task behind it does not disturb it.
LEMMA PhaseBehind ==
  ASSUME MacInv, NEW t \in Tasks, queue' = Append(queue, t), UNCHANGED <<phase, res>>
  PROVE  PhaseInv'
  BY HeadTailAppend, AppendProperties DEF MacInv, TypeOK, PhaseInv, Tasks

LEMMA PhaseStep == MacInv /\ [Next]_vars => PhaseInv'
  <1> SUFFICES ASSUME MacInv, [Next]_vars PROVE PhaseInv'
    OBVIOUS
  <1> USE DEF workerVars
  <1>1. CASE UNCHANGED <<queue, phase, res>>
    BY <1>1 DEF MacInv, PhaseInv
  <1>2. CASE User
    BY <1>1, <1>2, PhaseBehind, Names
       DEF User, Connect, Close, NativeClose, Write, FindSerialPortChannel
  <1>3. ASSUME NEW c \in Conns, Loop(c) PROVE PhaseInv'
    BY <1>1, <1>3, PhaseBehind, Names
       DEF Loop, Connected, NotConnected, RunTick, AfterReadData, AfterReadEmpty, NativeClose
  <1>4. ASSUME NEW j \in Calls, CallLocks(j) PROVE PhaseInv'
    BY <1>4, PhaseBehind, Names DEF CallLocks
  <1>5. CASE Worker
    <2>1. ASSUME NEW j \in Calls, NEW stored, TaskEnds(j, stored) PROVE PhaseInv'
      BY <2>1 DEF TaskEnds, PhaseInv
    <2>2. ASSUME NEW c \in Conns, ConnectOpens(c) \/ OpenSucceeds(c) PROVE PhaseInv'
      BY <2>2 DEF ConnectOpens, OpenSucceeds, Runs, MacInv, PhaseInv
    <2>3. CASE RunDisconnect
      <3>1. phase = "waiting"
        BY <2>3, Names DEF RunDisconnect, MacInv, PhaseInv
      <3> QED
        BY <2>3, <3>1 DEF RunDisconnect, PhaseInv
    <2> QED
      BY <1>5, <2>1, <2>2, <2>3, Names
         DEF Worker, ConnectRefuses, OpenFails, ConnectRecords, RunWrite, RunSearch
  <1>6. ASSUME NEW c \in Conns, ClosedArrives(c) PROVE PhaseInv'
    BY <1>6, PhaseBehind, Names DEF ClosedArrives
  <1>7. ASSUME NEW j \in Calls, CallReturns(j) PROVE PhaseInv'
    BY <1>1, <1>7 DEF CallReturns
  <1>8. ASSUME NEW c \in Conns, EIO_Read(c) \/ DataArrives(c) PROVE PhaseInv'
    BY <1>1, <1>8 DEF EIO_Read, ReadTakes, ReadEnds, DataArrives
  <1>9. CASE Remote \/ DelegateLooks \/ DelegatePushes
    BY <1>1, <1>9 DEF Remote, RemoteSends, RemoteEnds, DelegateLooks, DelegatePushes
  <1>10. CASE UNCHANGED vars
    BY <1>1, <1>10 DEF vars
  <1> QED
    BY <1>2, <1>3, <1>4, <1>5, <1>6, <1>7, <1>8, <1>9, <1>10 DEF Next

-----------------------------------------------------------------------------
(* The locks and the results.                                              *)

\* The first task of the queue belongs to a call that holds its lock, and no
\* other call of its kind is past dispatch_sync.
LEMMA FirstHoldsLock ==
  ASSUME MacInv, NEW j \in Calls, Runs(j)
  PROVE  /\ stage[j] = "synced" /\ lock[Kind(j)] = j
         /\ \A i \in Calls : Kind(i) = Kind(j) /\ stage[i] \in {"synced", "ran"} => i = j
  BY FirstTask DEF Runs, Awaited, MacInv, LockInv

\* A task that ends leaves its result to the call that waits for it.
LEMMA ResultStored ==
  ASSUME MacInv, NEW j \in Calls, Runs(j), NEW stored \in BOOLEAN, TaskEnds(j, stored),
         skipped \subseteq skipped', stored \/ j \in skipped'
  PROVE  LockInv' /\ ResultIsOwn'
  <1>1. /\ stage' = [stage EXCEPT ![j] = "ran"]
        /\ result' = IF stored THEN [result EXCEPT ![Kind(j)] = j] ELSE result
        /\ UNCHANGED <<lock, answer>>
    BY DEF TaskEnds
  <1>2. /\ stage \in [Calls -> {"new", "queued", "synced", "ran", "returned", "answered"}]
        /\ result \in [Kinds -> Calls \cup {None}]
        /\ \A i \in Calls : Kind(i) \in Kinds
    BY Names DEF MacInv, TypeOK
  <1>3. \A i \in Calls : stage'[i] \in {"synced", "ran"} => lock'[Kind(i)] = i
    BY <1>1, <1>2, FirstHoldsLock DEF MacInv, LockInv
  <1>4. ASSUME NEW i \in Calls, stage'[i] = "ran", i \notin skipped'
        PROVE  result'[Kind(i)] = i
    <2>1. CASE i = j
      BY <1>1, <1>2, <1>4, <2>1
    <2>2. CASE i # j
      <3>1. Kind(i) # Kind(j) /\ stage[i] = "ran" /\ i \notin skipped
        BY <1>1, <1>2, <1>4, <2>2, FirstHoldsLock
      <3> QED
        BY <1>1, <1>2, <3>1 DEF MacInv, LockInv
    <2> QED
      BY <2>1, <2>2
  <1>5. ResultIsOwn'
    BY <1>1, <1>2 DEF MacInv, ResultIsOwn
  <1> QED
    BY <1>3, <1>4, <1>5 DEF LockInv

\* Calls that go on without a lock disturb nobody.
LEMMA LocksKept ==
  ASSUME MacInv, UNCHANGED <<lock, result, answer, skipped>>,
         \A j \in Calls : stage'[j] = stage[j] \/ stage'[j] = "queued"
                          \/ (stage'[j] = "answered" /\ stage[j] = "returned")
  PROVE  LockInv' /\ ResultIsOwn'
  BY DEF MacInv, LockInv, ResultIsOwn

LEMMA LockStep == MacInv /\ [Next]_vars => LockInv' /\ ResultIsOwn'
  <1> SUFFICES ASSUME MacInv, [Next]_vars PROVE LockInv' /\ ResultIsOwn'
    OBVIOUS
  <1> USE DEF callVars
  <1>types. /\ stage \in [Calls -> {"new", "queued", "synced", "ran", "returned", "answered"}]
            /\ lock \in [Kinds -> Calls \cup {None}]
            /\ result \in [Kinds -> Calls \cup {None}]
            /\ answer \in [Calls -> Calls \cup {None}]
            /\ \A i \in Calls : Kind(i) \in Kinds /\ i # None
    BY Names DEF MacInv, TypeOK
  <1>1. CASE UNCHANGED callVars
    BY <1>1, LocksKept
  <1>2. CASE User
    BY <1>2, <1>types, LocksKept
       DEF User, Connect, Close, Write, FindSerialPortChannel
  <1>3. ASSUME NEW c \in Conns, Loop(c) PROVE LockInv' /\ ResultIsOwn'
    BY <1>1, <1>3, <1>types, LocksKept
       DEF Loop, Connected, NotConnected, RunTick, AfterReadData, AfterReadEmpty
  <1>4. ASSUME NEW j \in Calls, CallLocks(j) PROVE LockInv' /\ ResultIsOwn'
    <2>1. /\ stage[j] = "queued" /\ stage' = [stage EXCEPT ![j] = "synced"]
          /\ lock[Kind(j)] = None /\ lock' = [lock EXCEPT ![Kind(j)] = j]
          /\ UNCHANGED <<result, answer, skipped>>
      BY <1>4 DEF CallLocks, Lock
    <2> QED
      BY <2>1, <1>types DEF MacInv, LockInv, ResultIsOwn
  <1>5. ASSUME NEW j \in Calls, CallReturns(j) PROVE LockInv' /\ ResultIsOwn'
    <2>1. /\ stage[j] = "ran" /\ stage' = [stage EXCEPT ![j] = "returned"]
          /\ answer' = [answer EXCEPT ![j] = result[Kind(j)]]
          /\ lock' = [lock EXCEPT ![Kind(j)] = None]
          /\ UNCHANGED <<result, skipped>>
      BY <1>5 DEF CallReturns, Unlock
    <2>2. \A i \in Calls : Kind(i) = Kind(j) /\ stage[i] \in {"synced", "ran"} => i = j
      BY <2>1 DEF MacInv, LockInv
    <2>3. LockInv'
      BY <2>1, <2>2, <1>types DEF MacInv, LockInv
    <2>4. ResultIsOwn'
      BY <2>1, <1>types DEF MacInv, LockInv, ResultIsOwn
    <2> QED
      BY <2>3, <2>4
  <1>6. CASE Worker
    <2>1. ASSUME NEW c \in Conns, ConnectRefuses(c) \/ OpenFails(c) \/ ConnectRecords(c)
          PROVE  LockInv' /\ ResultIsOwn'
      BY <2>1, ResultStored, Names DEF ConnectRefuses, OpenFails, ConnectRecords
    <2>2. ASSUME NEW c \in Conns, ConnectOpens(c) PROVE LockInv' /\ ResultIsOwn'
      <3>1. \A i \in Calls : Kind(i) = "connect" => stage[i] # "ran"
        BY <2>2, FirstHoldsLock, Names DEF ConnectOpens
      <3>2. result' = [result EXCEPT !["connect"] = c]
            /\ UNCHANGED <<lock, answer, skipped, stage>>
        BY <2>2 DEF ConnectOpens
      <3> QED
        BY <3>1, <3>2, <1>types DEF MacInv, LockInv, ResultIsOwn
    <2>3. ASSUME NEW w \in Writes, RunWrite(w) PROVE LockInv' /\ ResultIsOwn'
      BY <2>3, ResultStored, Names DEF RunWrite
    <2>4. ASSUME NEW q \in Searches, RunSearch(q) PROVE LockInv' /\ ResultIsOwn'
      BY <2>4, ResultStored, Names DEF RunSearch
    <2>5. ASSUME NEW c \in Conns, OpenSucceeds(c) PROVE LockInv' /\ ResultIsOwn'
      BY <1>1, <2>5 DEF OpenSucceeds
    <2>6. CASE RunDisconnect
      BY <1>1, <2>6 DEF RunDisconnect
    <2> QED
      BY <1>6, <2>1, <2>2, <2>3, <2>4, <2>5, <2>6 DEF Worker
  <1>7. CASE Remote \/ DelegateLooks \/ DelegatePushes
    BY <1>1, <1>7 DEF Remote, RemoteSends, RemoteEnds, DelegateLooks, DelegatePushes
  <1>8. ASSUME NEW c \in Conns, EIO_Read(c) \/ DataArrives(c) \/ ClosedArrives(c)
        PROVE  LockInv' /\ ResultIsOwn'
    BY <1>1, <1>8 DEF EIO_Read, ReadTakes, ReadEnds, DataArrives, ClosedArrives
  <1>9. CASE UNCHANGED vars
    BY <1>1, <1>9 DEF vars
  <1> QED
    BY <1>2, <1>3, <1>4, <1>5, <1>6, <1>7, <1>8, <1>9 DEF Next

-----------------------------------------------------------------------------
(* The handles of the pipes.                                               *)

\* Steps that do not touch handles, and leave calls on their side of the
\* stages that count.
LEMMA HandlesKept ==
  ASSUME MacInv, UNCHANGED <<consumer, producers, consumers, chain, res>>,
         \A c \in Conns : /\ stage'[c] = stage[c] \/ (stage[c] = "returned" /\ stage'[c] = "answered")
                          /\ port'[c] = port[c] \/ port'[c] # "new"
  PROVE  HandleInv' /\ ProducerIsHeld'
  BY DEF MacInv, HandleInv, ProducerIsHeld

LEMMA HandleStep == MacInv /\ [Next]_vars => HandleInv' /\ ProducerIsHeld'
  <1> SUFFICES ASSUME MacInv, [Next]_vars PROVE HandleInv' /\ ProducerIsHeld'
    OBVIOUS
  <1> USE DEF jsVars, pipeVars, callVars, workerVars
  <1>types. /\ stage \in [Calls -> {"new", "queued", "synced", "ran", "returned", "answered"}]
            /\ port \in [Conns -> {"new", "connecting", "open", "closed", "failed"}]
            /\ chain \in [Conns -> {"off", "tick", "popping", "data", "empty"}]
            /\ consumer \in [Conns -> BOOLEAN]
            /\ producers \in [Conns -> 0..2] /\ consumers \in [Conns -> 0..2]
            /\ res \in Conns \cup {None}
            /\ opened \in BOOLEAN
            /\ \A c \in Conns : c \in Calls /\ c # None
            /\ \A j \in Writes \cup Searches : j \in Calls /\ j \notin Conns
    BY Names DEF MacInv, TypeOK
  <1>1. CASE UNCHANGED <<port, chain, consumer, producers, consumers, res, stage>>
    BY <1>1, HandlesKept
  <1>2. ASSUME NEW c \in Conns, Connect(c) PROVE HandleInv' /\ ProducerIsHeld'
    BY <1>2, <1>types DEF Connect, MacInv, HandleInv, ProducerIsHeld
  <1>3. ASSUME NEW c \in Conns, Close(c) PROVE HandleInv' /\ ProducerIsHeld'
    BY <1>3, <1>types, HandlesKept DEF Close
  <1>4. ASSUME NEW j \in Writes \cup Searches, Write(j) \/ FindSerialPortChannel(j)
        PROVE  HandleInv' /\ ProducerIsHeld'
    BY <1>4, <1>types, HandlesKept DEF Write, FindSerialPortChannel
  <1>5. ASSUME NEW c \in Conns, Loop(c) PROVE HandleInv' /\ ProducerIsHeld'
    <2>1. CASE Connected(c)
      BY <2>1, <1>types DEF Connected, MacInv, HandleInv, ProducerIsHeld
    <2>2. CASE NotConnected(c)
      BY <2>2, <1>types, HandlesKept DEF NotConnected
    <2>3. CASE RunTick(c) \/ AfterReadData(c)
      BY <2>3, <1>types DEF RunTick, AfterReadData, MacInv, HandleInv, ProducerIsHeld
    <2>4. CASE AfterReadEmpty(c)
      BY <2>4, <1>types DEF AfterReadEmpty, MacInv, HandleInv, ProducerIsHeld
    <2> QED
      BY <1>5, <2>1, <2>2, <2>3, <2>4 DEF Loop
  <1>6. ASSUME NEW c \in Conns, EIO_Read(c) PROVE HandleInv' /\ ProducerIsHeld'
    BY <1>6, <1>types DEF EIO_Read, ReadTakes, ReadEnds, MacInv, HandleInv, ProducerIsHeld
  <1>7. ASSUME NEW j \in Calls, CallLocks(j) PROVE HandleInv' /\ ProducerIsHeld'
    BY <1>7, <1>types DEF CallLocks, MacInv, HandleInv, ProducerIsHeld
  <1>8. ASSUME NEW j \in Calls, CallReturns(j) PROVE HandleInv' /\ ProducerIsHeld'
    BY <1>8, <1>types
       DEF CallReturns, FreePipe, Keep, MacInv, HandleInv, ProducerIsHeld
  <1>9. CASE Worker
    <2>1. ASSUME NEW j \in Calls, NEW stored, Runs(j), TaskEnds(j, stored),
                 UNCHANGED <<consumer, producers, consumers, res>>
          PROVE  HandleInv' /\ ProducerIsHeld'
      <3>1. stage[j] = "synced" /\ stage' = [stage EXCEPT ![j] = "ran"]
            /\ UNCHANGED <<port, chain>>
        BY <2>1, FirstHoldsLock DEF TaskEnds
      <3> QED
        BY <2>1, <3>1, <1>types DEF MacInv, HandleInv, ProducerIsHeld
    <2>2. ASSUME NEW c \in Conns, ConnectRecords(c) PROVE HandleInv' /\ ProducerIsHeld'
      <3>1. stage[c] = "synced" /\ res = None
        BY <2>2, FirstHoldsLock, <1>types DEF ConnectRecords, Runs, MacInv, PhaseInv
      <3>2. /\ stage' = [stage EXCEPT ![c] = "ran"]
            /\ producers' = [producers EXCEPT ![c] = @ + 1]
            /\ res' = c
            /\ UNCHANGED <<port, chain, consumer, consumers>>
        BY <2>2 DEF ConnectRecords, TaskEnds
      <3> QED
        BY <3>1, <3>2, <1>types DEF MacInv, HandleInv, ProducerIsHeld
    <2>3. CASE RunDisconnect
      <3>1. /\ producers' = [c \in Conns |-> IF c = res THEN producers[c] - 1 ELSE producers[c]]
            /\ res' = None
            /\ UNCHANGED <<port, chain, consumer, consumers, stage>>
        BY <2>3 DEF RunDisconnect, Release, FreeProducer, Forget
      <3> QED
        BY <3>1, <1>types DEF MacInv, HandleInv, ProducerIsHeld
    <2>4. ASSUME NEW c \in Conns, ConnectOpens(c) \/ OpenSucceeds(c)
          PROVE  HandleInv' /\ ProducerIsHeld'
      BY <1>1, <2>4 DEF ConnectOpens, OpenSucceeds
    <2> QED
      BY <1>9, <2>1, <2>2, <2>3, <2>4, <1>types
         DEF Worker, ConnectRefuses, OpenFails, RunWrite, RunSearch
  <1>10. CASE Remote \/ DelegateLooks \/ DelegatePushes
    BY <1>1, <1>10 DEF Remote, RemoteSends, RemoteEnds, DelegateLooks, DelegatePushes
  <1>11. ASSUME NEW c \in Conns, DataArrives(c) \/ ClosedArrives(c)
         PROVE  HandleInv' /\ ProducerIsHeld'
    BY <1>1, <1>11 DEF DataArrives, ClosedArrives
  <1>12. CASE UNCHANGED vars
    BY <1>1, <1>12 DEF vars
  <1> QED
    BY <1>2, <1>3, <1>4, <1>5, <1>6, <1>7, <1>8, <1>9, <1>10, <1>11, <1>12 DEF Next, User

-----------------------------------------------------------------------------
(* The framework.                                                          *)

LEMMA FrameworkStep == MacInv /\ [Next]_vars => FrameworkInv'
  <1> SUFFICES ASSUME MacInv, [Next]_vars PROVE FrameworkInv'
    OBVIOUS
  <1> USE DEF frameworkVars
  <1>types. /\ due \in [Conns -> 0..MaxData] /\ sent \in 0..MaxData /\ MaxData \in Nat
            /\ res \in Conns \cup {None}
            /\ \A c \in Conns : due[c] <= sent
            /\ delegate.does = "push" => delegate.to \in Conns
    BY BoundAssumption DEF MacInv, TypeOK, FrameworkInv
  <1>1. CASE UNCHANGED <<sent, due, delegate>>
    BY <1>1 DEF MacInv, FrameworkInv
  <1>2. CASE User \/ UNCHANGED vars
    BY <1>1, <1>2 DEF User, Connect, Close, Write, FindSerialPortChannel, vars
  <1>3. ASSUME NEW c \in Conns, Loop(c) \/ EIO_Read(c) PROVE FrameworkInv'
    BY <1>1, <1>3
       DEF Loop, Connected, NotConnected, RunTick, AfterReadData, AfterReadEmpty,
           EIO_Read, ReadTakes, ReadEnds
  <1>4. ASSUME NEW j \in Calls, CallLocks(j) \/ CallReturns(j) PROVE FrameworkInv'
    BY <1>1, <1>4 DEF CallLocks, CallReturns
  <1>5. CASE Worker
    <2>1. CASE RunDisconnect
      BY <2>1, <1>types DEF RunDisconnect, Release, Idle, FrameworkInv
    <2> QED
      BY <1>1, <1>5, <2>1
         DEF Worker, ConnectRefuses, ConnectOpens, OpenFails, OpenSucceeds, ConnectRecords,
             RunWrite, RunSearch
  <1>6. CASE Remote
    BY <1>6, <1>types DEF Remote, RemoteSends, RemoteEnds, FrameworkInv
  <1>7. CASE DelegateLooks \/ DelegatePushes
    BY <1>7, <1>types DEF DelegateLooks, DelegatePushes, Idle, FrameworkInv
  <1>8. ASSUME NEW c \in Conns, DataArrives(c) \/ ClosedArrives(c) PROVE FrameworkInv'
    BY <1>8, <1>types DEF DataArrives, ClosedArrives, FrameworkInv
  <1> QED
    BY <1>2, <1>3, <1>4, <1>5, <1>6, <1>7, <1>8 DEF Next

-----------------------------------------------------------------------------
(* Types.  That the refcounts stay within 0..2 is what HandleInv and       *)
(* ProducerIsHeld say; that no more is due than was sent bounds due.       *)

CountTypes == producers \in [Conns -> Int] /\ consumers \in [Conns -> Int]

\* Whatever a step does to a refcount, it stays a function on connections.
LEMMA CountStep == MacInv /\ [Next]_vars => CountTypes'
  <1> SUFFICES ASSUME MacInv, [Next]_vars PROVE CountTypes'
    OBVIOUS
  <1> USE DEF jsVars, pipeVars, callVars, workerVars, frameworkVars
  <1>types. producers \in [Conns -> Int] /\ consumers \in [Conns -> Int]
    BY DEF MacInv, TypeOK
  <1>1. CASE UNCHANGED <<producers, consumers>>
    BY <1>1, <1>types DEF CountTypes
  <1>2. CASE User \/ UNCHANGED vars
    BY <1>1, <1>2 DEF User, Connect, Close, Write, FindSerialPortChannel, vars
  <1>3. ASSUME NEW c \in Conns, Loop(c) \/ EIO_Read(c) PROVE CountTypes'
    BY <1>3, <1>types
       DEF Loop, Connected, NotConnected, RunTick, AfterReadData, AfterReadEmpty,
           EIO_Read, ReadTakes, ReadEnds, CountTypes
  <1>4. ASSUME NEW j \in Calls, CallLocks(j) \/ CallReturns(j) PROVE CountTypes'
    BY <1>4, <1>types DEF CallLocks, CallReturns, FreePipe, Keep, CountTypes
  <1>5. CASE Worker
    <2>1. ASSUME NEW c \in Conns, ConnectRecords(c) PROVE CountTypes'
      BY <2>1, <1>types DEF ConnectRecords, CountTypes
    <2>2. CASE RunDisconnect
      <3>1. /\ producers' = [c \in Conns |-> IF c = res THEN producers[c] - 1 ELSE producers[c]]
            /\ consumers' = consumers
        BY <2>2 DEF RunDisconnect, Release, FreeProducer
      <3>2. ASSUME NEW c \in Conns
            PROVE  (IF c = res THEN producers[c] - 1 ELSE producers[c]) \in Int
        BY <1>types
      <3> QED
        BY <3>1, <3>2, <1>types DEF CountTypes
    <2> QED
      BY <1>1, <1>5, <2>1, <2>2
         DEF Worker, ConnectRefuses, ConnectOpens, OpenFails, OpenSucceeds, RunWrite, RunSearch
  <1>6. CASE Remote \/ DelegateLooks \/ DelegatePushes
    BY <1>1, <1>6 DEF Remote, RemoteSends, RemoteEnds, DelegateLooks, DelegatePushes
  <1>7. ASSUME NEW c \in Conns, DataArrives(c) \/ ClosedArrives(c) PROVE CountTypes'
    BY <1>1, <1>7 DEF DataArrives, ClosedArrives
  <1> QED
    BY <1>2, <1>3, <1>4, <1>5, <1>6, <1>7 DEF Next

\* The variables of the JavaScript thread, of calls and of the framework.
JsTypes == /\ port \in [Conns -> {"new", "connecting", "open", "closed", "failed"}]
           /\ js \in Conns \cup {None}
           /\ chain \in [Conns -> {"off", "tick", "popping", "data", "empty"}]
           /\ consumer \in [Conns -> BOOLEAN]
           /\ items \in [Conns -> Nat]
CallTypes == /\ phase \in {"waiting", "opening", "opened"}
             /\ res \in Conns \cup {None}
             /\ lock \in [Kinds -> Calls \cup {None}]
             /\ opened \in BOOLEAN
             /\ result \in [Kinds -> Calls \cup {None}]
             /\ stage \in [Calls -> {"new", "queued", "synced", "ran", "returned", "answered"}]
             /\ answer \in [Calls -> Calls \cup {None}]
             /\ skipped \subseteq Writes
NetTypes == /\ channel \in [Conns -> {"none", "up", "ended", "closed", "gone"}]
            /\ sent \in 0..MaxData
            /\ due \in [Conns -> 0..MaxData]
            /\ delegate \in [does : {"nothing", "look", "push", "close", "wait"},
                             to : Conns \cup {None}]

LEMMA JsTypeStep == MacInv /\ [Next]_vars => JsTypes'
  <1> SUFFICES ASSUME MacInv, [Next]_vars PROVE JsTypes'
    OBVIOUS
  <1> USE DEF jsVars, pipeVars, callVars, workerVars, frameworkVars
  <1>types. JsTypes /\ FrameworkInv /\ opened \in BOOLEAN
    BY DEF MacInv, TypeOK, JsTypes
  <1>1. CASE UNCHANGED <<port, js, chain, consumer, items>>
    BY <1>1, <1>types DEF JsTypes
  <1>2. CASE User \/ UNCHANGED vars
    BY <1>1, <1>2, <1>types
       DEF User, Connect, Close, NativeClose, Write, FindSerialPortChannel, vars, JsTypes
  <1>3. ASSUME NEW c \in Conns, Loop(c) PROVE JsTypes'
    BY <1>3, <1>types
       DEF Loop, Connected, NotConnected, RunTick, AfterReadData, AfterReadEmpty,
           NativeClose, JsTypes
  <1>4. ASSUME NEW c \in Conns, EIO_Read(c) PROVE JsTypes'
    <2>1. CASE ReadTakes(c)
      <3>1. PICK n \in 1..items[c] : items' = [items EXCEPT ![c] = @ - n]
        BY <2>1 DEF ReadTakes
      <3>2. items[c] \in Nat /\ items[c] - n \in Nat
        BY <1>types DEF JsTypes
      <3>3. items' \in [Conns -> Nat]
        BY <3>1, <3>2, <1>types DEF JsTypes
      <3>4. chain' = [chain EXCEPT ![c] = "data"] /\ UNCHANGED <<port, js, consumer>>
        BY <2>1 DEF ReadTakes
      <3> QED
        BY <3>3, <3>4, <1>types DEF JsTypes
    <2>2. CASE ReadEnds(c)
      BY <2>2, <1>types DEF ReadEnds, JsTypes
    <2> QED
      BY <1>4, <2>1, <2>2 DEF EIO_Read
  <1>5. ASSUME NEW j \in Calls, CallLocks(j) \/ CallReturns(j) PROVE JsTypes'
    BY <1>5, <1>types DEF CallLocks, CallReturns, FreePipe, Keep, JsTypes
  <1>6. CASE Worker
    BY <1>6, <1>types
       DEF Worker, ConnectRefuses, ConnectOpens, OpenFails, OpenSucceeds, ConnectRecords,
           RunWrite, RunSearch, RunDisconnect, TaskEnds, JsTypes
  <1>7. CASE Remote
    BY <1>1, <1>7 DEF Remote, RemoteSends, RemoteEnds
  <1>8. CASE DelegateLooks \/ DelegatePushes
    BY <1>8, <1>types DEF DelegateLooks, DelegatePushes, FrameworkInv, JsTypes
  <1>9. ASSUME NEW c \in Conns, DataArrives(c) \/ ClosedArrives(c) PROVE JsTypes'
    BY <1>1, <1>9 DEF DataArrives, ClosedArrives
  <1> QED
    BY <1>2, <1>3, <1>4, <1>5, <1>6, <1>7, <1>8, <1>9 DEF Next

LEMMA CallTypeStep == MacInv /\ [Next]_vars => CallTypes'
  <1> SUFFICES ASSUME MacInv, [Next]_vars PROVE CallTypes'
    OBVIOUS
  <1> USE DEF jsVars, pipeVars, callVars, workerVars, frameworkVars
  <1>types. CallTypes
    BY DEF MacInv, TypeOK, CallTypes
  <1>1. CASE UNCHANGED <<callVars, phase, res>>
    BY <1>1, <1>types DEF CallTypes
  <1>2. CASE User \/ UNCHANGED vars
    BY <1>1, <1>2, <1>types, Names
       DEF User, Connect, Close, Write, FindSerialPortChannel, vars, CallTypes
  <1>3. ASSUME NEW c \in Conns, Loop(c) \/ EIO_Read(c) PROVE CallTypes'
    BY <1>1, <1>3, <1>types, Names
       DEF Loop, Connected, NotConnected, RunTick, AfterReadData, AfterReadEmpty,
           EIO_Read, ReadTakes, ReadEnds, CallTypes
  <1>4. ASSUME NEW j \in Calls, CallLocks(j) \/ CallReturns(j) PROVE CallTypes'
    BY <1>4, <1>types, Names DEF CallLocks, Lock, CallReturns, Unlock, CallTypes
  <1>5. CASE Worker
    <2>1. ASSUME NEW j \in Calls, NEW stored, TaskEnds(j, stored)
          PROVE  /\ phase' \in {"waiting", "opening", "opened"}
                 /\ lock' \in [Kinds -> Calls \cup {None}]
                 /\ result' \in [Kinds -> Calls \cup {None}]
                 /\ stage' \in [Calls -> {"new", "queued", "synced", "ran", "returned", "answered"}]
                 /\ answer' \in [Calls -> Calls \cup {None}]
      BY <2>1, <1>types, Names DEF TaskEnds, CallTypes
    <2>2. ASSUME NEW c \in Conns, ConnectRefuses(c) \/ OpenFails(c) \/ ConnectRecords(c)
          PROVE  CallTypes'
      BY <2>1, <2>2, <1>types, Names DEF ConnectRefuses, OpenFails, ConnectRecords, CallTypes
    <2>3. ASSUME NEW c \in Conns, ConnectOpens(c) \/ OpenSucceeds(c) PROVE CallTypes'
      BY <2>3, <1>types, Names DEF ConnectOpens, OpenSucceeds, CallTypes
    <2>4. ASSUME NEW w \in Writes, RunWrite(w) PROVE CallTypes'
      BY <2>1, <2>4, <1>types, Names DEF RunWrite, CallTypes
    <2>5. ASSUME NEW q \in Searches, RunSearch(q) PROVE CallTypes'
      BY <2>1, <2>5, <1>types, Names DEF RunSearch, CallTypes
    <2>6. CASE RunDisconnect
      BY <2>6, <1>types DEF RunDisconnect, Release, Forget, CallTypes
    <2> QED
      BY <1>5, <2>2, <2>3, <2>4, <2>5, <2>6 DEF Worker
  <1>6. CASE Remote \/ DelegateLooks \/ DelegatePushes
    BY <1>1, <1>6 DEF Remote, RemoteSends, RemoteEnds, DelegateLooks, DelegatePushes
  <1>7. ASSUME NEW c \in Conns, DataArrives(c) \/ ClosedArrives(c) PROVE CallTypes'
    BY <1>1, <1>7 DEF DataArrives, ClosedArrives
  <1> QED
    BY <1>2, <1>3, <1>4, <1>5, <1>6, <1>7 DEF Next

LEMMA NetTypeStep == MacInv /\ [Next]_vars => NetTypes'
  <1> SUFFICES ASSUME MacInv, [Next]_vars PROVE NetTypes'
    OBVIOUS
  <1> USE DEF jsVars, pipeVars, callVars, workerVars, frameworkVars
  <1>types. NetTypes /\ FrameworkInv /\ MaxData \in Nat /\ res \in Conns \cup {None}
    BY BoundAssumption DEF MacInv, TypeOK, NetTypes
  <1>1. CASE UNCHANGED frameworkVars
    BY <1>1, <1>types DEF NetTypes
  <1>2. CASE User \/ UNCHANGED vars
    BY <1>1, <1>2 DEF User, Connect, Close, Write, FindSerialPortChannel, vars
  <1>3. ASSUME NEW c \in Conns, Loop(c) \/ EIO_Read(c) PROVE NetTypes'
    BY <1>1, <1>3
       DEF Loop, Connected, NotConnected, RunTick, AfterReadData, AfterReadEmpty,
           EIO_Read, ReadTakes, ReadEnds
  <1>4. ASSUME NEW j \in Calls, CallLocks(j) \/ CallReturns(j) PROVE NetTypes'
    BY <1>1, <1>4 DEF CallLocks, CallReturns
  <1>5. CASE Worker
    <2>1. ASSUME NEW c \in Conns, OpenSucceeds(c) PROVE NetTypes'
      BY <2>1, <1>types DEF OpenSucceeds, NetTypes
    <2>2. CASE RunDisconnect
      BY <2>2, <1>types DEF RunDisconnect, Release, Idle, NetTypes
    <2> QED
      BY <1>1, <1>5, <2>1, <2>2
         DEF Worker, ConnectRefuses, ConnectOpens, OpenFails, ConnectRecords,
             RunWrite, RunSearch
  <1>6. CASE Remote
    BY <1>6, <1>types DEF Remote, RemoteSends, RemoteEnds, NetTypes, FrameworkInv
  <1>7. CASE DelegateLooks \/ DelegatePushes
    BY <1>7, <1>types DEF DelegateLooks, DelegatePushes, Idle, NetTypes
  <1>8. ASSUME NEW c \in Conns, DataArrives(c) \/ ClosedArrives(c) PROVE NetTypes'
    <2>1. CASE DataArrives(c)
      <3>1. due[c] \in 0..MaxData /\ due[c] > 0
        BY <2>1, <1>types DEF DataArrives, NetTypes
      <3>2. due[c] - 1 \in 0..MaxData
        BY <3>1, <1>types
      <3>3. /\ due' = [due EXCEPT ![c] = @ - 1]
            /\ delegate' = [does |-> "look", to |-> None]
            /\ UNCHANGED <<channel, sent>>
        BY <2>1 DEF DataArrives
      <3> QED
        BY <3>2, <3>3, <1>types DEF NetTypes
    <2>2. CASE ClosedArrives(c)
      BY <2>2, <1>types DEF ClosedArrives, NetTypes
    <2> QED
      BY <1>8, <2>1, <2>2
  <1> QED
    BY <1>2, <1>3, <1>4, <1>5, <1>6, <1>7, <1>8 DEF Next

\* Every step preserves the invariant.
LEMMA MacStep == MacInv /\ [Next]_vars => MacInv'
  <1> SUFFICES ASSUME MacInv, [Next]_vars PROVE MacInv'
    OBVIOUS
  <1>1. /\ TasksAwaited' /\ queue' \in Seq(Tasks)
        /\ PhaseInv' /\ LockInv' /\ ResultIsOwn'
        /\ HandleInv' /\ ProducerIsHeld' /\ FrameworkInv'
    BY TasksStep, PhaseStep, LockStep, HandleStep, FrameworkStep
  <1>2. CountTypes' /\ JsTypes' /\ CallTypes' /\ NetTypes'
    BY CountStep, JsTypeStep, CallTypeStep, NetTypeStep
  <1>3. producers' \in [Conns -> 0..2] /\ consumers' \in [Conns -> 0..2]
    <2>1. ASSUME NEW c \in Conns PROVE producers'[c] \in 0..2 /\ consumers'[c] \in 0..2
      <3>1. /\ producers'[c] = (IF stage'[c] \in {"synced", "ran"} THEN 1 ELSE 0)
                                  + (IF res' = c THEN 1 ELSE 0)
            /\ consumers'[c] = IF stage'[c] \in {"synced", "ran"} \/ consumer'[c] THEN 1 ELSE 0
        BY <1>1 DEF HandleInv, ProducerIsHeld
      <3> QED
        BY <3>1
    <2> QED
      BY <1>2, <2>1 DEF CountTypes
  <1>4. TypeOK'
    BY <1>1, <1>2, <1>3 DEF JsTypes, CallTypes, NetTypes, TypeOK, Tasks
  <1> QED
    BY <1>1, <1>4 DEF MacInv

-----------------------------------------------------------------------------
(* The theorems.                                                           *)

\* The invariant holds of every behaviour, however callbacks, the user, the
\* pool and the worker interleave.
LEMMA MacInvariant == Spec => []MacInv
  BY MacInit, MacStep, PTL DEF Spec

\* Every variable keeps its type; in particular no pipe has more than two
\* handles of a side, and no refcount falls below zero.
THEOREM MacTypes == Spec => []TypeOK
  BY MacInvariant, PTL DEF MacInv

\* A call returns what its own task stored: the pool threads of one kind
\* exclude each other from dispatch_sync until the result is taken.
THEOREM MacResults == Spec => []ResultIsOwn
  BY MacInvariant, PTL DEF MacInv

\* The producer's handles are freed once each, whoever disconnects when.
THEOREM MacProducers == Spec => []ProducerIsHeld
  BY MacInvariant, PTL DEF MacInv

\* A port that reads has its consumer: read() finds no NULL, and no thread
\* pops from a pipe whose consumer was freed.
THEOREM MacConsumers == Spec => []OpenHasConsumer
  <1>1. MacInv => OpenHasConsumer
    BY DEF MacInv, HandleInv, OpenHasConsumer
  <1> QED
    BY <1>1, MacInvariant, PTL

\* Nobody waits for a task that is not in the queue, and no task runs for
\* nobody: dispatch_sync neither loses a caller nor returns twice.  (This is
\* the safety part of EveryCallReturns.)
THEOREM MacWaits == Spec => []TasksAwaited
  BY MacInvariant, PTL DEF MacInv
=============================================================================
