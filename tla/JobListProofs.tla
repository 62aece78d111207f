---------------------------- MODULE JobListProofs ----------------------------
(***************************************************************************)
(* Proofs about JobList, for every number of pool threads, callbacks and   *)
(* jobs.  GetJob and AddJob take no common mutex, so a wakeup can be lost; *)
(* the theorem says that there is one way only to lose it.  The invariant: *)
(* while no job was added behind the back of a looking worker, a stored    *)
(* job has an Add that is going to notify, or a worker that is awake.      *)
(***************************************************************************)
EXTENDS JobList, TLAPS

\* An exception in a callback ends all threads.  Until then a thread is in
\* a call of the list exactly at these places.
Places ==
    /\ Aborted => \A t \in Threads : pc[t] = "aborted"
    /\ ~Aborted => \A t \in Threads :
          /\ pc[t] = "adding" <=> op[t] = "Add"
          /\ pc[t] = "get" <=> op[t] = "GetElement"
          /\ op[t] # "GetElements"
          /\ pc[t] # "get" => claim[t] = {}
    /\ \A c \in Callbacks : pc[c] \in {"idle", "aborted"} \union AddPCs

\* A call of GetJob that an Add overlapped returns before that Add's AddJob
\* does, or the miss is recorded.
MissIsRecorded ==
    \A w \in Workers : pc[w] = "get" /\ ~quiet[w] => missed \/ Adding # {}

Awake == \E w \in Workers : pc[w] \notin {"waiting", "empty"}

StoredIsServed == stored # {} /\ Adding = {} => missed \/ Awake

\* After a job performed with the list locked a worker gets no other one.
LockedOut ==
    \A w \in Workers : late[w] # 0 =>
        /\ b_Locked
        /\ late[w] = 1
        /\ pc[w] \notin {"call", "get", "perform"}

IInv ==
    /\ TypeOK
    /\ Places
    /\ MissIsRecorded
    /\ StoredIsServed
    /\ LockedOut

USE DEF Workers, Threads, Store!Getters, AddPCs, LoopPCs, GetPCs, MainPCs, PCs

\* The program before its first job satisfies the invariant.
LEMMA InitIInv == ASSUME Init PROVE IInv
<1> USE ThreadsOK DEF Init, Store!StoreInit
<1>1. TypeOK
    <2>1. pc \in [Threads -> PCs]
        OBVIOUS
    <2>2. \A w \in Workers : pc[w] # "perform"
        OBVIOUS
    <2>3. late \in [Workers -> 0 .. 2]
        OBVIOUS
    <2> QED BY <2>3 DEF TypeOK, Store!StoreTypeOK
<1>2. \A c \in Callbacks : pc[c] = "idle"
    OBVIOUS
<1>3. Places
    BY DEF Places, Aborted
<1>4. MissIsRecorded /\ StoredIsServed /\ LockedOut
    BY DEF MissIsRecorded, StoredIsServed, LockedOut
<1> QED BY <1>1, <1>3, <1>4 DEF IInv

\* A worker tests its b_Run.
LEMMA LoopStep ==
    ASSUME IInv, NEW w \in Workers, Loop(w)
    PROVE  IInv'
<1> USE ThreadsOK DEF IInv, GoTo, store, flags, history, Loop
<1>1. TypeOK'
    BY DEF TypeOK, Store!StoreTypeOK
<1>2. Places'
    BY DEF Places, Aborted
<1>3. MissIsRecorded'
    BY DEF MissIsRecorded, Adding
<1>4. StoredIsServed'
    BY DEF StoredIsServed, Awake
<1>5. LockedOut'
    BY DEF LockedOut
<1> QED BY <1>1, <1>2, <1>3, <1>4, <1>5

\* With the list locked a worker stays away from it.
LEMMA CheckLockedStep ==
    ASSUME IInv, NEW w \in Workers, CheckLocked(w)
    PROVE  IInv'
<1> USE ThreadsOK DEF IInv, GoTo, store, flags, history, CheckLocked, Refuses
<1>1. TypeOK'
    BY DEF TypeOK, Store!StoreTypeOK
<1>2. Places'
    BY DEF Places, Aborted
<1>3. MissIsRecorded'
    BY DEF MissIsRecorded, Adding
<1>4. StoredIsServed'
    BY DEF StoredIsServed, Awake
<1>5. LockedOut'
    BY DEF LockedOut
<1> QED BY <1>1, <1>2, <1>3, <1>4, <1>5

\* If an Add runs now, its notification is still to come.
LEMMA StartGetStep ==
    ASSUME IInv, NEW w \in Workers, StartGet(w)
    PROVE  IInv'
<1> USE ThreadsOK DEF IInv, GoTo, store, flags, history, StartGet, Store!CallGet,
   Store!Begin, Store!Overlap
<1>1. TypeOK'
    BY DEF TypeOK, Store!StoreTypeOK
<1>2. Places'
    BY DEF TypeOK, Store!StoreTypeOK, Places, Aborted
<1>3. MissIsRecorded'
    BY DEF Places, MissIsRecorded, Adding
<1>4. StoredIsServed'
    BY DEF StoredIsServed, Awake
<1>5. LockedOut'
    BY DEF LockedOut
<1> QED BY <1>1, <1>2, <1>3, <1>4, <1>5

\* A job is claimed or taken.
LEMMA InsideGetStep ==
    ASSUME IInv, NEW w \in Workers, InsideGet(w)
    PROVE  IInv'
<1> USE ThreadsOK DEF IInv, GoTo, store, flags, history, InsideGet, Store!Claim,
   Store!Take
<1>1. TypeOK'
    BY DEF TypeOK, Store!StoreTypeOK
<1>2. Places'
    BY DEF TypeOK, Store!StoreTypeOK, Places, Aborted
<1>3. MissIsRecorded'
    BY DEF MissIsRecorded, Adding
<1>4. StoredIsServed'
    BY DEF StoredIsServed, Awake
<1>5. LockedOut'
    BY DEF LockedOut
<1> QED BY <1>1, <1>2, <1>3, <1>4, <1>5

\* Nothing was found: another worker claims what is stored, or an Add still runs.
LEMMA EndGetStep ==
    ASSUME IInv, NEW w \in Workers, EndGet(w)
    PROVE  IInv'
<1> USE ThreadsOK DEF IInv, GoTo, store, flags, history, EndGet, Found,
   Store!Return, Store!Finish, Store!Exhausted, Store!Claimed
<1>1. TypeOK'
    BY DEF TypeOK, Store!StoreTypeOK
<1>2. Places'
    BY DEF TypeOK, Store!StoreTypeOK, Places, Aborted
<1>3. MissIsRecorded'
    BY DEF TypeOK, MissIsRecorded, Adding
<1>4. StoredIsServed'
    BY DEF Places, MissIsRecorded, StoredIsServed, Adding, Awake
<1>5. LockedOut'
    BY DEF LockedOut
<1> QED BY <1>1, <1>2, <1>3, <1>4, <1>5

\* A worker that found nothing goes to sleep.
LEMMA WaitStep ==
    ASSUME IInv, NEW w \in Workers, Wait(w)
    PROVE  IInv'
<1> USE ThreadsOK DEF IInv, GoTo, store, flags, history, Wait
<1>1. TypeOK'
    BY DEF TypeOK, Store!StoreTypeOK
<1>2. Places'
    BY DEF Places, Aborted
<1>3. MissIsRecorded'
    BY DEF MissIsRecorded, Adding
<1>4. StoredIsServed'
    BY DEF StoredIsServed, Adding, Awake
<1>5. LockedOut'
    BY DEF LockedOut
<1> QED BY <1>1, <1>2, <1>3, <1>4, <1>5

\* A worker wakes without a notification.
LEMMA SpuriousWakeStep ==
    ASSUME IInv, NEW w \in Workers, SpuriousWake(w)
    PROVE  IInv'
<1> USE ThreadsOK DEF IInv, GoTo, store, flags, history, SpuriousWake
<1>1. TypeOK'
    BY DEF TypeOK, Store!StoreTypeOK
<1>2. Places'
    BY DEF Places, Aborted
<1>3. MissIsRecorded'
    BY DEF MissIsRecorded, Adding
<1>4. StoredIsServed'
    BY DEF TypeOK, StoredIsServed, Awake
<1>5. LockedOut'
    BY DEF LockedOut
<1> QED BY <1>1, <1>2, <1>3, <1>4, <1>5

\* A job is performed, at most once with the list locked.
LEMMA PerformStep ==
    ASSUME IInv, NEW w \in Workers, Perform(w)
    PROVE  IInv'
<1> USE ThreadsOK DEF IInv, GoTo, store, flags, history, Perform
<1>1. TypeOK'
    BY DEF TypeOK, Store!StoreTypeOK
<1>2. Places'
    BY DEF TypeOK, Places, Aborted
<1>3. MissIsRecorded'
    BY DEF TypeOK, MissIsRecorded, Adding
<1>4. StoredIsServed'
    BY DEF TypeOK, StoredIsServed, Awake
<1>5. LockedOut'
    BY DEF TypeOK, LockedOut
<1> QED BY <1>1, <1>2, <1>3, <1>4, <1>5

\* A worker starts to put its job back.
LEMMA RequeueStep ==
    ASSUME IInv, NEW w \in Workers, Requeue(w)
    PROVE  IInv'
<1> USE ThreadsOK DEF IInv, GoTo, store, flags, history, Requeue, Store!CallAdd,
   Store!Begin, Store!Overlap
<1>1. TypeOK'
    BY DEF TypeOK, Store!StoreTypeOK
<1>2. Places'
    BY DEF TypeOK, Store!StoreTypeOK, Places, Aborted
<1>3. MissIsRecorded'
    BY DEF TypeOK, MissIsRecorded, Adding
<1>4. StoredIsServed'
    BY DEF TypeOK, StoredIsServed, Adding
<1>5. LockedOut'
    BY DEF LockedOut
<1> QED BY <1>1, <1>2, <1>3, <1>4, <1>5

\* A callback starts to add a job.
LEMMA DataRecievedStep ==
    ASSUME IInv, NEW c \in Callbacks, DataRecieved(c)
    PROVE  IInv'
<1> USE ThreadsOK DEF IInv, GoTo, store, flags, history, DataRecieved,
   Store!CallAdd, Store!Begin, Store!Overlap
<1>1. TypeOK'
    BY DEF TypeOK, Store!StoreTypeOK
<1>2. Places'
    BY DEF TypeOK, Store!StoreTypeOK, Places, Aborted
<1>3. MissIsRecorded'
    BY DEF TypeOK, MissIsRecorded, Adding
<1>4. StoredIsServed'
    BY DEF TypeOK, StoredIsServed, Adding
<1>5. LockedOut'
    BY DEF LockedOut
<1> QED BY <1>1, <1>2, <1>3, <1>4, <1>5

\* The job becomes visible; its notification is still to come.
LEMMA InsideAddStep ==
    ASSUME IInv, NEW t \in Threads, InsideAdd(t)
    PROVE  IInv'
<1> USE ThreadsOK DEF IInv, GoTo, store, flags, history, InsideAdd, Store!Put
<1>1. TypeOK'
    BY DEF TypeOK, Store!StoreTypeOK
<1>2. Places'
    BY DEF Places, Aborted
<1>3. MissIsRecorded'
    BY DEF MissIsRecorded, Adding
<1>4. StoredIsServed'
    BY DEF StoredIsServed, Adding
<1>5. LockedOut'
    BY DEF LockedOut
<1> QED BY <1>1, <1>2, <1>3, <1>4, <1>5

\* The Add ends; its notification is still to come.
LEMMA EndAddStep ==
    ASSUME IInv, NEW t \in Threads, EndAdd(t)
    PROVE  IInv'
<1> USE ThreadsOK DEF IInv, GoTo, store, flags, history, EndAdd, Store!Return,
   Store!Finish
<1>1. TypeOK'
    BY DEF TypeOK, Store!StoreTypeOK
<1>2. Places'
    BY DEF TypeOK, Store!StoreTypeOK, Places, Aborted
<1>3. MissIsRecorded'
    BY DEF MissIsRecorded, Adding
<1>4. StoredIsServed'
    BY DEF StoredIsServed, Adding
<1>5. LockedOut'
    BY DEF LockedOut
<1> QED BY <1>1, <1>2, <1>3, <1>4, <1>5

\* A worker drops its job and goes on.
LEMMA AddFailsStep ==
    ASSUME IInv, NEW w \in Workers, AddFails(w)
    PROVE  IInv'
<1> USE ThreadsOK DEF IInv, GoTo, store, flags, history, AddFails, AddEnds,
   Looking, Store!Reject, Store!Finish
<1>1. TypeOK'
    BY DEF TypeOK, Store!StoreTypeOK
<1>2. Places'
    BY DEF TypeOK, Store!StoreTypeOK, Places, Aborted
<1>3. MissIsRecorded'
    BY DEF TypeOK, MissIsRecorded
<1>4. StoredIsServed'
    BY DEF StoredIsServed, Awake
<1>5. LockedOut'
    BY DEF LockedOut
<1> QED BY <1>1, <1>2, <1>3, <1>4, <1>5

\* All threads end together.
LEMMA AbortStep ==
    ASSUME IInv, NEW c \in Callbacks, Abort(c)
    PROVE  IInv'
<1> USE ThreadsOK DEF IInv, GoTo, store, flags, history, Abort, Store!Reject,
   Store!Finish
<1>1. TypeOK'
    BY DEF TypeOK, Store!StoreTypeOK
<1>2. Places'
    BY DEF Places, Aborted
<1>3. MissIsRecorded'
    BY DEF MissIsRecorded
<1>4. StoredIsServed'
    BY DEF StoredIsServed, Awake
<1>5. LockedOut'
    BY DEF LockedOut
<1> QED BY <1>1, <1>2, <1>3, <1>4, <1>5

\* A sleeper is woken; if there is none, every worker is awake or the miss is recorded.
LEMMA NotifyStep ==
    ASSUME IInv, NEW t \in Threads, Notify(t)
    PROVE  IInv'
<1> USE ThreadsOK DEF IInv, GoTo, store, flags, history, Notify, NotifyOne,
   AddEnds, Looking, Waiting, Home
<1>1. TypeOK'
    BY DEF TypeOK, Store!StoreTypeOK
<1>2. Places'
    BY DEF Places, Aborted
<1> PICK S \in NotifyOne :
        pc' = [u \in Threads |-> IF u \in S THEN "check" ELSE IF u = t THEN Home(t) ELSE pc[u]]
    OBVIOUS
<1>3. MissIsRecorded'
    <2> SUFFICES ASSUME NEW w \in Workers, (pc[w] = "get")', ~quiet'[w]
                 PROVE  missed' \/ Adding' # {}
        BY DEF MissIsRecorded
    <2>1. pc[w] = "get"
        OBVIOUS
    <2> QED OBVIOUS
<1>4. StoredIsServed'
    <2> SUFFICES ASSUME ~missed' PROVE Awake'
        BY DEF StoredIsServed
    <2>1. \A w \in Workers : pc[w] \notin {"get", "empty"}
        OBVIOUS
    <2>2. CASE S = {}
        <3>1. \A w \in Workers : pc[w] # "waiting"
            BY <2>2
        <3>2. pc'[Main] \notin {"waiting", "empty"}
            BY <2>2
        <3> QED BY DEF Awake
    <2>3. CASE S # {}
        <3>1. PICK w \in Workers : w \in S
            BY <2>3
        <3>2. pc'[w] = "check"
            BY <3>1
        <3> QED BY DEF Awake
    <2> QED BY <2>2, <2>3
<1>5. LockedOut'
    BY DEF LockedOut
<1> QED BY <1>1, <1>2, <1>3, <1>4, <1>5

\* SIGTERM only clears main's b_Run.
LEMMA SigTermStep ==
    ASSUME IInv, SigTerm
    PROVE  IInv'
<1> USE ThreadsOK DEF IInv, GoTo, store, flags, history, SigTerm
<1>1. TypeOK'
    BY DEF TypeOK, Store!StoreTypeOK
<1>2. Places'
    BY DEF Places, Aborted
<1>3. MissIsRecorded'
    BY DEF MissIsRecorded, Adding
<1>4. StoredIsServed'
    BY DEF StoredIsServed, Adding, Awake
<1>5. LockedOut'
    BY DEF LockedOut
<1> QED BY <1>1, <1>2, <1>3, <1>4, <1>5

\* No job has been performed with the list locked before.
LEMMA LockStep ==
    ASSUME IInv, Lock
    PROVE  IInv'
<1> USE ThreadsOK DEF IInv, GoTo, store, flags, history, Lock
<1>1. TypeOK'
    BY DEF TypeOK, Store!StoreTypeOK
<1>2. Places'
    BY DEF Places, Aborted
<1>3. MissIsRecorded'
    BY DEF MissIsRecorded, Adding
<1>4. StoredIsServed'
    BY DEF StoredIsServed, Awake
<1>5. LockedOut'
    BY DEF LockedOut
<1> QED BY <1>1, <1>2, <1>3, <1>4, <1>5

\* All sleepers are woken.
LEMMA KickStep ==
    ASSUME IInv, Kick
    PROVE  IInv'
<1> USE ThreadsOK DEF IInv, GoTo, store, flags, history, Kick, NotifyAll, Waiting
<1>1. TypeOK'
    BY DEF TypeOK, Store!StoreTypeOK
<1>2. Places'
    BY DEF Places, Aborted
<1>3. MissIsRecorded'
    BY DEF MissIsRecorded, Adding
<1>4. StoredIsServed'
    BY DEF StoredIsServed, Awake
<1>5. LockedOut'
    BY DEF LockedOut
<1> QED BY <1>1, <1>2, <1>3, <1>4, <1>5

\* The rest of the shutdown is outside the list.
LEMMA ShutdownStep ==
    ASSUME IInv, StopServer \/ EndPool \/ JoinPool \/ CloseServer
    PROVE  IInv'
<1> USE ThreadsOK DEF IInv, GoTo, store, flags, history, StopServer, EndPool,
   JoinPool, CloseServer
<1>1. TypeOK'
    <2>1. pc' \in [Threads -> PCs]
        BY DEF TypeOK
    <2>2. \A w \in Workers : pc'[w] = "perform" => pc[w] = "perform"
        BY DEF TypeOK
    <2> QED BY DEF TypeOK, Store!StoreTypeOK
<1>2. Places'
    BY DEF TypeOK, Places, Aborted
<1>3. MissIsRecorded'
    BY DEF TypeOK, MissIsRecorded, Adding
<1>4. StoredIsServed'
    BY DEF TypeOK, StoredIsServed, Awake
<1>5. LockedOut'
    BY DEF TypeOK, LockedOut
<1> QED BY <1>1, <1>2, <1>3, <1>4, <1>5

\* A thread of the pool begins its loop.
LEMMA SpawnStep ==
    ASSUME IInv, NEW w \in Pool, Spawn(w)
    PROVE  IInv'
<1> USE ThreadsOK DEF IInv, GoTo, store, flags, history, Spawn, Born
<1>1. TypeOK'
    BY DEF TypeOK, Store!StoreTypeOK
<1>2. Places'
    BY DEF Places, Aborted
<1>3. MissIsRecorded'
    BY DEF MissIsRecorded, Adding
<1>4. StoredIsServed'
    BY DEF StoredIsServed, Awake
<1>5. LockedOut'
    BY DEF LockedOut
<1> QED BY <1>1, <1>2, <1>3, <1>4, <1>5

\* Main goes on, to its loop or to its end.
LEMMA ConnectStep ==
    ASSUME IInv, SpawnEnds \/ Connect
    PROVE  IInv'
<1> USE ThreadsOK DEF IInv, GoTo, store, flags, history, SpawnEnds, Connect
<1>1. TypeOK'
    BY DEF TypeOK, Store!StoreTypeOK
<1>2. Places'
    BY DEF TypeOK, Places, Aborted
<1>3. MissIsRecorded'
    BY DEF TypeOK, MissIsRecorded, Adding
<1>4. StoredIsServed'
    BY DEF TypeOK, StoredIsServed, Awake
<1>5. LockedOut'
    BY DEF TypeOK, LockedOut
<1> QED BY <1>1, <1>2, <1>3, <1>4, <1>5

\* The pool cannot be made: main leaves, or all threads end together.
LEMMA SpawnFailsStep ==
    ASSUME IInv, SpawnFails
    PROVE  IInv'
<1> USE ThreadsOK DEF IInv, GoTo, store, flags, history, SpawnFails
<1>1. TypeOK'
    BY DEF TypeOK, Store!StoreTypeOK
<1>2. Places'
    BY DEF TypeOK, Places, Aborted
<1>3. MissIsRecorded'
    BY DEF TypeOK, MissIsRecorded, Adding
<1>4. StoredIsServed'
    BY DEF TypeOK, StoredIsServed, Awake
<1>5. LockedOut'
    BY DEF TypeOK, LockedOut
<1> QED BY <1>1, <1>2, <1>3, <1>4, <1>5

\* A step that changes nothing keeps the invariant.
LEMMA StutterStep == ASSUME IInv, UNCHANGED vars PROVE IInv'
BY DEF IInv, TypeOK, Store!StoreTypeOK, Places, Aborted, MissIsRecorded, Adding,
   StoredIsServed, Awake, LockedOut, vars, store, flags, history

\* The invariant holds in every reachable state.
THEOREM Consistent == Spec => []IInv
<1>1. ASSUME IInv, [Next]_vars PROVE IInv'
    <2>1. ASSUME NEW t \in Threads, AddJob(t) PROVE IInv'
        BY <1>1, <2>1, InsideAddStep, EndAddStep, NotifyStep DEF AddJob
    <2>2. ASSUME NEW w \in Workers, Worker(w) \/ SpuriousWake(w) PROVE IInv'
        BY <1>1, <2>1, <2>2, LoopStep, CheckLockedStep, StartGetStep,
           InsideGetStep, EndGetStep, WaitStep, SpuriousWakeStep, PerformStep,
           RequeueStep, AddFailsStep DEF Worker, GetJob
    <2>3. ASSUME NEW c \in Callbacks, DataRecieved(c) \/ Callback(c) PROVE IInv'
        BY <1>1, <2>1, <2>3, DataRecievedStep, AbortStep DEF Callback
    <2>4. CASE SigTerm \/ Shutdown \/ CloseServer
        BY <1>1, <2>4, SigTermStep, LockStep, KickStep, ShutdownStep DEF Shutdown
    <2>5. CASE Startup
        BY <1>1, <2>5, SpawnStep, SpawnFailsStep, ConnectStep DEF Startup
    <2>6. CASE UNCHANGED vars
        BY <1>1, <2>6, StutterStep
    <2> QED BY <1>1, <2>2, <2>3, <2>4, <2>5, <2>6 DEF Next
<1> QED BY InitIInv, <1>1, PTL DEF Spec

\* Every variable keeps its type: no worker performs a job it has not got.
THEOREM TypeCorrect == Spec => []TypeOK
<1>1. IInv => TypeOK
    BY DEF IInv
<1> QED BY <1>1, Consistent, PTL

\* All workers sleep over a stored job only if some AddJob ended while a worker
\* was between its look into the list and its wait.
THEOREM OneWayToStall == Spec => []StallNeedsMiss
<1>1. IInv => StallNeedsMiss
    <2> SUFFICES ASSUME IInv, Waiting = Workers, stored # {}, Adding = {}
                 PROVE  missed
        BY DEF StallNeedsMiss
    <2>1. ~Awake
        BY DEF Waiting, Awake
    <2> QED BY <2>1 DEF IInv, StoredIsServed
<1> QED BY <1>1, Consistent, PTL

\* Once the list is locked a worker performs at most one more job.
THEOREM LockStopsJobs == Spec => []OneJobAfterLock
<1>1. IInv => OneJobAfterLock
    BY DEF IInv, LockedOut, OneJobAfterLock
<1> QED BY <1>1, Consistent, PTL
(***************************************************************************)
(* No job is lost.                                                         *)
(***************************************************************************)
Carried(j) ==
    \/ j \in stored
    \/ \E t \in Threads : j \in hands[t]
    \/ \E w \in Workers : pc[w] \in {"perform", "requeue"} /\ j \in p_Job[w]

Leaves(j) ==
    \/ \E w \in Workers : pc[w] = "perform" /\ j \in p_Job[w] /\ pc'[w] = "loop"
    \/ \E w \in Workers : pc[w] = "adding" /\ j \in hands[w] /\ pc'[w] = "loop"
    \/ Aborted'

\* A thread outside the list holds no reference inside it, and a worker has
\* one job at most.
OneAtATime ==
    /\ \A t \in Threads :
          /\ op[t] = "none" => hands[t] = {}
          /\ op[t] = "GetElement" /\ claim[t] # {} => hands[t] = {}
          /\ op[t] = "GetElement" => \A j, k \in hands[t] : j = k
          /\ \A j, k \in claim[t] : j = k
    /\ \A w \in Workers : \A j, k \in p_Job[w] : j = k

\* No step adds a second one.
LEMMA StepOneAtATime ==
    ASSUME IInv, OneAtATime, [Next]_vars
    PROVE  OneAtATime'
<1> USE DEF IInv, TypeOK, Store!StoreTypeOK, OneAtATime, store, flags, history
<1>1. ASSUME NEW w \in Workers, StartGet(w) PROVE OneAtATime'
    BY <1>1 DEF StartGet, Store!CallGet, Store!Begin
<1>2. ASSUME NEW w \in Workers, InsideGet(w) PROVE OneAtATime'
    <2>1. op[w] # "none"
        BY <1>2, ThreadsOK DEF InsideGet, Places, Aborted
    <2> QED BY <1>2, <2>1 DEF InsideGet, Store!Claim, Store!Take
<1>3. ASSUME NEW t \in Threads, EndGet(t) \/ EndAdd(t) \/ AddFails(t) \/ Abort(t)
      PROVE  OneAtATime'
    BY <1>3, ThreadsOK DEF Places, Aborted, EndGet, EndAdd, AddFails, Abort, Store!Return, Store!Reject, Store!Finish
<1>4. ASSUME NEW t \in Threads, Requeue(t) \/ DataRecieved(t) PROVE OneAtATime'
    BY <1>4 DEF Requeue, DataRecieved, Store!CallAdd, Store!Begin
<1>5. ASSUME NEW t \in Threads, InsideAdd(t) PROVE OneAtATime'
    BY <1>5 DEF InsideAdd, Store!Put
<1>6. CASE UNCHANGED <<store, p_Job>>
    BY <1>6
<1>10. ASSUME NEW w \in Workers, Perform(w) PROVE OneAtATime'
    BY <1>10 DEF Perform
<1>7. ASSUME NEW w \in Workers, Worker(w) \/ SpuriousWake(w) PROVE OneAtATime'
    BY <1>1, <1>2, <1>3, <1>4, <1>5, <1>6, <1>10, <1>7 DEF Worker, GetJob, AddJob, Loop,
       CheckLocked, Wait, SpuriousWake, Notify
<1>8. ASSUME NEW c \in Callbacks, DataRecieved(c) \/ Callback(c) PROVE OneAtATime'
    BY <1>3, <1>4, <1>5, <1>6, <1>8 DEF Callback, AddJob, Notify
<1>9. CASE SigTerm \/ Startup \/ Shutdown \/ CloseServer
    BY <1>6, <1>9 DEF SigTerm, Startup, Spawn, SpawnFails, SpawnEnds, Connect, Shutdown,
       Lock, Kick, StopServer, EndPool, JoinPool, CloseServer
<1> QED BY <1>6, <1>7, <1>8, <1>9 DEF Next, vars

\* Where a present job is.
LEMMA PresentIsCarried == \A j : j \in Present <=> Carried(j)
BY DEF Present, Carried, Store!Held

\* The same, after a step.
LEMMA PresentIsCarriedNext == \A j : j \in Present' <=> Carried(j)'
BY DEF Present, Carried, Store!Held

\* Steps that touch neither the list nor a job in hand.
LEMMA OtherStepKeeps ==
    ASSUME IInv, UNCHANGED <<stored, hands, p_Job>>, NEW j, Carried(j),
           \A w \in Workers : pc[w] \in {"perform", "requeue"} => pc'[w] = pc[w]
    PROVE  Carried(j)'
BY DEF Carried

\* A worker's look into the list hands every job on.
LEMMA GetStepKeeps ==
    ASSUME IInv, OneAtATime, NEW w \in Workers, GetJob(w), NEW j, Carried(j)
    PROVE  Carried(j)'
<1> USE ThreadsOK DEF IInv, TypeOK, Store!StoreTypeOK, GoTo, store, flags, history
<1>1. CASE CheckLocked(w) \/ Wait(w)
    BY <1>1, OtherStepKeeps DEF CheckLocked, Wait
<1>2. CASE StartGet(w)
    <2>1. hands[w] = {}
        BY <1>2 DEF StartGet, Store!CallGet, Store!Begin, OneAtATime
    <2> QED BY <1>2, <2>1 DEF StartGet, Store!CallGet, Store!Begin, Carried
<1>3. CASE InsideGet(w)
    BY <1>3 DEF InsideGet, Store!Claim, Store!Take, Carried
<1>4. CASE EndGet(w)
    BY <1>4 DEF EndGet, Store!Return, Store!Finish, Found, Carried
<1> QED BY <1>1, <1>2, <1>3, <1>4 DEF GetJob

\* So does AddJob, unless Add throws.
LEMMA AddStepKeeps ==
    ASSUME IInv, NEW t \in Threads, AddJob(t), NEW j, Carried(j)
    PROVE  Carried(j)'
<1> USE ThreadsOK DEF IInv, TypeOK, Store!StoreTypeOK, GoTo, store, flags, history
<1>1. CASE InsideAdd(t)
    BY <1>1 DEF InsideAdd, Store!Put, Carried
<1>2. CASE EndAdd(t)
    BY <1>2 DEF EndAdd, Store!Return, Store!Finish, Places, Carried
<1>3. CASE Notify(t)
    BY <1>3, OtherStepKeeps DEF Notify, NotifyOne, Waiting
<1> QED BY <1>1, <1>2, <1>3 DEF AddJob

\* And a thread that begins to add, or fails.
LEMMA CallStepKeeps ==
    ASSUME IInv, OneAtATime, NEW t \in Threads, NEW j, Carried(j),
           (t \in Workers /\ (Requeue(t) \/ AddFails(t))) \/ DataRecieved(t) \/ Abort(t)
    PROVE  Carried(j)' \/ Leaves(j)
<1> USE ThreadsOK DEF IInv, TypeOK, Store!StoreTypeOK, GoTo, store, flags, history
<1>1. CASE t \in Workers /\ Requeue(t)
    BY <1>1 DEF Requeue, Store!CallAdd, Store!Begin, OneAtATime, Carried
<1>2. CASE DataRecieved(t)
    BY <1>2 DEF DataRecieved, Store!CallAdd, Store!Begin, OneAtATime, Carried
<1>3. CASE t \in Workers /\ AddFails(t)
    BY <1>3 DEF AddFails, Store!Reject, Store!Finish, Carried, Leaves
<1>4. CASE Abort(t)
    BY <1>4 DEF Abort, Leaves, Aborted
<1> QED BY <1>1, <1>2, <1>3, <1>4

\* No step loses a job in another way than JobsKept allows.
LEMMA StepKeeps ==
    ASSUME IInv, OneAtATime, [Next]_vars, NEW j, Carried(j)
    PROVE  Carried(j)' \/ Leaves(j)
<1> USE ThreadsOK DEF IInv, TypeOK, GoTo, store, flags, history
<1>1. ASSUME NEW w \in Workers, Loop(w) \/ SpuriousWake(w) PROVE Carried(j)'
    BY <1>1, OtherStepKeeps DEF Loop, SpuriousWake
<1>2. ASSUME NEW w \in Workers, Perform(w) PROVE Carried(j)' \/ Leaves(j)
    BY <1>2 DEF Perform, Carried, Leaves
<1>3. ASSUME NEW w \in Workers, Worker(w) \/ SpuriousWake(w)
      PROVE  Carried(j)' \/ Leaves(j)
    BY <1>1, <1>2, <1>3, GetStepKeeps, AddStepKeeps, CallStepKeeps DEF Worker
<1>4. ASSUME NEW c \in Callbacks, DataRecieved(c) \/ Callback(c)
      PROVE  Carried(j)' \/ Leaves(j)
    BY <1>4, AddStepKeeps, CallStepKeeps DEF Callback
<1>5. CASE Startup
    <2>1. CASE SpawnFails
        BY <2>1, OtherStepKeeps DEF SpawnFails, Leaves, Aborted
    <2>2. CASE SpawnEnds \/ Connect \/ \E w \in Pool : Spawn(w)
        BY <2>2, OtherStepKeeps DEF SpawnEnds, Connect, Spawn, Born
    <2> QED BY <1>5, <2>1, <2>2 DEF Startup
<1>6. CASE SigTerm \/ Shutdown \/ CloseServer
    BY <1>6, OtherStepKeeps DEF SigTerm, Shutdown, Lock, Kick, NotifyAll, Waiting,
       StopServer, EndPool, JoinPool, CloseServer
<1>7. CASE UNCHANGED vars
    BY <1>7, OtherStepKeeps DEF vars
<1> QED BY <1>3, <1>4, <1>5, <1>6, <1>7 DEF Next

\* A job leaves the program only when Perform says that it is done, or with an
\* exception of AddJob.
THEOREM NoJobLost == Spec => JobsKept
<1>1. Init => OneAtATime
    BY DEF Init, Store!StoreInit, OneAtATime
<1>2. IInv /\ OneAtATime /\ [Next]_vars => OneAtATime'
    BY StepOneAtATime
<1>3. ASSUME IInv, OneAtATime, [Next]_vars
      PROVE  [KeepsJobs]_vars
    <2> SUFFICES ASSUME NEW j \in Present PROVE j \in Present' \/ Leaves(j)
        BY DEF KeepsJobs, Leaves
    <2>1. Carried(j)
        BY PresentIsCarried
    <2>2. Carried(j)' \/ Leaves(j)
        BY <1>3, <2>1, StepKeeps
    <2> QED BY <2>2, PresentIsCarriedNext
<1> QED BY <1>1, <1>2, <1>3, Consistent, PTL DEF Spec, JobsKept

(***************************************************************************)
(* A job has one holder.                                                   *)
(***************************************************************************)
\* A reference is in the list, on the way through it with one thread, or with
\* one worker; a getter claims what is stored, and no two claim the same.
OneHolder ==
    /\ \A t \in Threads : claim[t] \subseteq stored /\ hands[t] \cap stored = {}
    /\ \A t, u \in Threads :
          t # u => hands[t] \cap hands[u] = {} /\ claim[t] \cap claim[u] = {}
    /\ \A w \in Workers :
          /\ p_Job[w] \cap stored = {}
          /\ \A t \in Threads : p_Job[w] \cap hands[t] = {}
          /\ ~Aborted => (p_Job[w] # {} <=> pc[w] \in {"perform", "requeue"})
    /\ \A v, w \in Workers : v # w => p_Job[v] \cap p_Job[w] = {}

\* A step of a getter moves a job from the list to its thread.
LEMMA GetterOneHolder ==
    ASSUME IInv, OneHolder, NEW w \in Workers, GetJob(w)
    PROVE  OneHolder'
<1> USE ThreadsOK DEF IInv, TypeOK, Store!StoreTypeOK, GoTo, Aborted, store, flags, history
<1>1. CASE CheckLocked(w) \/ Wait(w)
    BY <1>1 DEF CheckLocked, Wait, OneHolder
<1>2. CASE StartGet(w)
    BY <1>2 DEF StartGet, Store!CallGet, Store!Begin, OneHolder
<1>3. CASE InsideGet(w)
    <2>1. ASSUME NEW j \in Jobs, Store!Claim(w, j) PROVE OneHolder'
        BY <1>3, <2>1 DEF InsideGet, Store!Claim, Store!Claimed, OneHolder
    <2>2. CASE Store!Take(w)
        BY <1>3, <2>2 DEF InsideGet, Store!Take, OneHolder
    <2> QED BY <1>3, <2>1, <2>2 DEF InsideGet
<1>4. CASE EndGet(w)
    BY <1>4 DEF EndGet, Store!Return, Store!Finish, Found, OneHolder
<1> QED BY <1>1, <1>2, <1>3, <1>4 DEF GetJob

\* A step of AddJob moves it the other way.
LEMMA AdderOneHolder ==
    ASSUME IInv, OneHolder, NEW t \in Threads,
           AddJob(t) \/ AddFails(t) \/ Abort(t) \/ DataRecieved(t) \/ (t \in Workers /\ Requeue(t))
    PROVE  OneHolder'
<1> USE ThreadsOK DEF IInv, TypeOK, Store!StoreTypeOK, GoTo, Aborted, store, flags, history
<1>1. CASE InsideAdd(t)
    BY <1>1 DEF InsideAdd, Store!Put, OneHolder
<1>2. CASE EndAdd(t)
    BY <1>2 DEF EndAdd, Store!Return, Store!Finish, OneHolder
<1>3. CASE Notify(t)
    BY <1>3 DEF Notify, NotifyOne, Waiting, Home, OneHolder
<1>4. CASE AddFails(t)
    BY <1>4 DEF AddFails, Store!Reject, Store!Finish, OneHolder
<1>5. CASE Abort(t)
    BY <1>5 DEF Abort, Store!Reject, Store!Finish, OneHolder
<1>6. CASE DataRecieved(t)
    BY <1>6 DEF DataRecieved, Store!CallAdd, Store!Begin, Store!Held, OneHolder
<1>7. CASE t \in Workers /\ Requeue(t)
    BY <1>7 DEF Requeue, Store!CallAdd, Store!Begin, Store!Held, OneHolder
<1> QED BY <1>1, <1>2, <1>3, <1>4, <1>5, <1>6, <1>7 DEF AddJob

\* No step gives a job a second holder.
LEMMA NextOneHolder ==
    ASSUME IInv, OneHolder, [Next]_vars
    PROVE  OneHolder'
<1> USE ThreadsOK DEF IInv, TypeOK, GoTo, Aborted, store, flags, history
<1>1. ASSUME NEW w \in Workers, Loop(w) \/ SpuriousWake(w) PROVE OneHolder'
    BY <1>1 DEF Loop, SpuriousWake, OneHolder
<1>2. ASSUME NEW w \in Workers, Perform(w) PROVE OneHolder'
    BY <1>2 DEF Perform, OneHolder
<1>3. ASSUME NEW w \in Workers, Worker(w) \/ SpuriousWake(w) PROVE OneHolder'
    BY <1>1, <1>2, <1>3, GetterOneHolder, AdderOneHolder DEF Worker
<1>4. ASSUME NEW c \in Callbacks, DataRecieved(c) \/ Callback(c) PROVE OneHolder'
    BY <1>4, AdderOneHolder DEF Callback
<1>5. CASE Startup
    BY <1>5 DEF Startup, SpawnFails, SpawnEnds, Connect, Spawn, Born, OneHolder
<1>6. CASE SigTerm \/ Shutdown \/ CloseServer
    BY <1>6 DEF SigTerm, Shutdown, Lock, Kick, NotifyAll, Waiting, StopServer, EndPool, JoinPool,
       CloseServer, OneHolder
<1>7. CASE UNCHANGED vars
    BY <1>7 DEF vars, OneHolder
<1> QED BY <1>3, <1>4, <1>5, <1>6, <1>7 DEF Next

\* A job is with one worker at a time, and never with a worker and in the list,
\* however gets, retries, new data and exceptions interleave, for any number of
\* threads (JobList.cpp:50-93, ThreadPool.cpp:72-89, Main.cpp:342-359).
THEOREM JobHasOneHolder == Spec => []OneHolder
<1>1. Init => OneHolder
    BY ThreadsOK DEF Init, Store!StoreInit, OneHolder
<1>2. IInv /\ OneHolder /\ [Next]_vars => OneHolder'
    BY NextOneHolder
<1> QED BY <1>1, <1>2, Consistent, PTL DEF Spec

\* The worker that puts a job back can: AddJob of a job that is in the list
\* already is a step this specification does not have, and does not need.
RetryAccepted ==
    \A w \in Workers : pc[w] = "requeue" =>
        op[w] = "none" /\ \E j \in p_Job[w] : j \notin stored \union Store!Held

\* A retry is never refused: the guard of CallAdd hides no behaviour of the
\* program (ThreadPool.cpp:78-83, Main.cpp:349-352).
THEOREM RetriesAccepted == Spec => []RetryAccepted
<1>1. IInv /\ OneHolder => RetryAccepted
    BY ThreadsOK DEF IInv, TypeOK, Store!StoreTypeOK, Places, Aborted, OneHolder, RetryAccepted, Store!Held
<1> QED BY <1>1, Consistent, JobHasOneHolder, PTL

(***************************************************************************)
(* Main's phases, and who is left in the list when it is locked.           *)
(***************************************************************************)
\* Where main is; the callbacks deliver until it has closed the server.
MainPlace ==
    /\ pc[Main] \in MainPCs \union LoopPCs \union AddPCs \union {"gone", "aborted"}
    /\ ~Aborted => (b_Server <=> pc[Main] # "gone")
    /\ pc[Main] = "gone" => \A c \in Callbacks : pc[c] = "idle"

PastTheTest == {"call", "get", "empty", "waiting"}

\* Main has locked the list and notified, and a thread of the pool still looks for
\* a job or sleeps: it was between the lock test and its wait when main notified.
OnlyUnkickedStay ==
    b_Locked /\ pc[Main] # "kick" =>
        \A w \in Pool : pc[w] \in PastTheTest => w \in unkicked

\* What a worker does leaves the callbacks where they are, and main in its phase
\* unless it is main that leaves its loop.
LEMMA WorkerPlaces ==
    ASSUME IInv, MainPlace, NEW w \in Workers, Worker(w) \/ SpuriousWake(w)
    PROVE  /\ \A c \in Callbacks : pc'[c] = pc[c]
           /\ \/ pc'[Main] = pc[Main]
              \/ pc[Main] \in LoopPCs \union AddPCs /\ pc'[Main] \in LoopPCs \union AddPCs
              \/ pc[Main] = "loop" /\ pc'[Main] = "lock"
           /\ UNCHANGED <<b_Server, b_Locked, unkicked>>
           /\ \A v \in Pool : b_Locked /\ pc'[v] \in PastTheTest => pc[v] \in PastTheTest
<1> USE ThreadsOK DEF IInv, TypeOK, GoTo, flags, history, MainPlace, PastTheTest
<1>1. CASE Loop(w) \/ SpuriousWake(w) \/ Perform(w) \/ Requeue(w) \/ AddFails(w)
    BY <1>1 DEF Loop, SpuriousWake, Perform, Requeue, AddFails
<1>2. CASE GetJob(w)
    BY <1>2 DEF GetJob, CheckLocked, Refuses, StartGet, InsideGet, EndGet, Found, Wait
<1>3. CASE AddJob(w)
    <2>1. CASE InsideAdd(w) \/ EndAdd(w)
        BY <2>1 DEF InsideAdd, EndAdd
    <2>2. CASE Notify(w)
        BY <2>2 DEF Notify, NotifyOne, Waiting, Home
    <2> QED BY <1>3, <2>1, <2>2 DEF AddJob
<1> QED BY <1>1, <1>2, <1>3 DEF Worker

\* What a callback does is possible only while the server is there.
LEMMA CallbackPlaces ==
    ASSUME IInv, MainPlace, NEW c \in Callbacks, DataRecieved(c) \/ Callback(c)
    PROVE  /\ pc[Main] \notin {"gone", "aborted"}
           /\ UNCHANGED <<b_Server, b_Locked, unkicked>>
           /\ \/ pc'[Main] = pc[Main]
              \/ pc[Main] = "waiting" /\ pc'[Main] = "check"
              \/ \A t \in Threads : pc'[t] = "aborted"
           /\ \A v \in Pool : pc'[v] \in PastTheTest => pc[v] \in PastTheTest
<1> USE ThreadsOK DEF IInv, TypeOK, Places, Aborted, GoTo, flags, history, MainPlace, PastTheTest
<1>1. CASE DataRecieved(c)
    BY <1>1 DEF DataRecieved
<1>2. CASE Abort(c) \/ InsideAdd(c) \/ EndAdd(c)
    BY <1>2 DEF Abort, InsideAdd, EndAdd
<1>3. CASE Notify(c)
    BY <1>3 DEF Notify, NotifyOne, Waiting, Home
<1> QED BY <1>1, <1>2, <1>3 DEF Callback, AddJob

\* Both invariants are kept.
LEMMA NextPlaces ==
    ASSUME IInv, MainPlace, OnlyUnkickedStay, [Next]_vars
    PROVE  MainPlace' /\ OnlyUnkickedStay'
<1> USE ThreadsOK DEF IInv, TypeOK, Aborted, GoTo, flags, history, MainPlace, OnlyUnkickedStay
<1>1. ASSUME NEW w \in Workers, Worker(w) \/ SpuriousWake(w)
      PROVE  MainPlace' /\ OnlyUnkickedStay'
    BY <1>1, WorkerPlaces
<1>2. ASSUME NEW c \in Callbacks, DataRecieved(c) \/ Callback(c)
      PROVE  MainPlace' /\ OnlyUnkickedStay'
    BY <1>2, CallbackPlaces DEF PastTheTest
<1>3. CASE Startup
    BY <1>3 DEF Startup, SpawnFails, SpawnEnds, Connect, Spawn, Born, PastTheTest
<1>4. CASE Kick
    BY <1>4 DEF Kick, NotifyAll, Waiting, PastTheTest
<1>5. CASE SigTerm \/ Lock \/ StopServer \/ EndPool \/ JoinPool \/ CloseServer
    BY <1>5 DEF SigTerm, Lock, StopServer, EndPool, JoinPool, CloseServer, ClientsLeft
<1>6. CASE UNCHANGED vars
    BY <1>6 DEF vars
<1> QED BY <1>1, <1>2, <1>3, <1>4, <1>5, <1>6 DEF Next, Shutdown

\* Main is where its phases say, and the list is left as OnlyUnkickedStay says.
THEOREM PlacesKept == Spec => [](MainPlace /\ OnlyUnkickedStay)
<1>1. Init => MainPlace /\ OnlyUnkickedStay
    BY ThreadsOK DEF Init, MainPlace, OnlyUnkickedStay, Aborted
<1>2. IInv /\ MainPlace /\ OnlyUnkickedStay /\ [Next]_vars => (MainPlace /\ OnlyUnkickedStay)'
    BY NextPlaces
<1> QED BY <1>1, <1>2, Consistent, PTL DEF Spec

\* Main, which joins the pool after Lock, waits for no thread that sleeps except
\* those that had passed the lock test and did not wait yet when Lock notified: the
\* part of JoinWaitsForSleepers that needs no fairness (JobList.cpp:41-45, 75-92,
\* Main.cpp:366).
THEOREM LockWakesSleepers == Spec => []OnlyUnkickedStay
BY PlacesKept, PTL

Delivering == \E c \in Callbacks : pc[c] \in AddPCs

\* A step of main's way in or out goes from one phase to the next.
LEMMA MainRefines ==
    ASSUME IInv, MainPlace, Startup \/ Shutdown \/ CloseServer
    PROVE  [Phases!Next]_(Phases!phaseVars)
<1> USE ThreadsOK DEF IInv, TypeOK, Aborted, GoTo, flags, history, MainPlace
<1>1. CASE SpawnFails
    <2>1. CASE Born = {}
        <3>1. Phase = "spawn" /\ Phase' = "close" /\ (Delivering' <=> Delivering)
            BY <1>1, <2>1 DEF SpawnFails, Phase, Delivering
        <3> QED BY <3>1 DEF Delivering, Phases!Next, Phases!MakePool, Phases!Goes
    <2>2. CASE Born # {}
        <3>1. Phase = "spawn" /\ Phase' = "aborted"
            BY <1>1, <2>2 DEF SpawnFails, Phase
        <3> QED BY <3>1 DEF Delivering, Phases!Next, Phases!Terminate
    <2> QED BY <2>1, <2>2
<1>2. ASSUME ~SpawnFails
      PROVE  Delivering' <=> Delivering
    BY <1>2 DEF Startup, SpawnEnds, Connect, Spawn, Born, Shutdown, Lock, Kick, NotifyAll, Waiting,
       StopServer, EndPool, JoinPool, CloseServer, Delivering
<1>3. CASE SpawnEnds
    <2>1. Phase = "spawn" /\ Phase' = "connect"
        BY <1>3 DEF SpawnEnds, Phase
    <2> QED BY <1>1, <1>2, <2>1 DEF Delivering, Phases!Next, Phases!MakePool, Phases!Goes
<1>4. CASE Connect
    <2>1. Phase = "connect" /\ Phase' \in {"loop", "join"}
        BY <1>4 DEF Connect, Phase
    <2> QED BY <1>1, <1>2, <2>1 DEF Delivering, Phases!Next, Phases!Connect, Phases!Goes
<1>5. ASSUME NEW w \in Pool, Spawn(w) PROVE Phase' = Phase
    BY <1>5 DEF Spawn, Born, Phase
<1>6. CASE Lock \/ Kick \/ EndPool
    <2>1. Phase' = Phase
        BY <1>6 DEF Lock, Kick, NotifyAll, Waiting, EndPool, Phase
    <2> QED BY <1>1, <1>2, <2>1 DEF Delivering, Phases!phaseVars
<1>7. CASE StopServer
    <2>1. Phase = "stop" /\ Phase' = "join"
        BY <1>7 DEF StopServer, Phase
    <2> QED BY <1>1, <1>2, <2>1 DEF Delivering, Phases!Next, Phases!StopServer, Phases!Goes
<1>8. CASE JoinPool
    <2>1. Phase = "join" /\ Phase' = "close"
        BY <1>8 DEF JoinPool, Phase
    <2> QED BY <1>1, <1>2, <2>1 DEF Delivering, Phases!Next, Phases!JoinPool, Phases!Goes
<1>9. CASE CloseServer
    <2>1. Phase = "close" /\ Phase' = "gone" /\ ~Delivering
        BY <1>9 DEF CloseServer, ClientsLeft, Phase, Delivering
    <2> QED BY <1>1, <1>2, <2>1 DEF Delivering, Phases!Next, Phases!CloseServer, Phases!Goes
<1>10. ASSUME NEW w \in Pool, Spawn(w) PROVE [Phases!Next]_(Phases!phaseVars)
    BY <1>1, <1>2, <1>5, <1>10 DEF Delivering, Phases!phaseVars
<1> QED BY <1>1, <1>3, <1>4, <1>6, <1>7, <1>8, <1>9, <1>10 DEF Startup, Shutdown

\* The steps of the other threads leave main's phase alone or end the program,
\* and callbacks run in the phases that serve.
LEMMA NextRefines ==
    ASSUME IInv, MainPlace, [Next]_vars
    PROVE  [Phases!Next]_(Phases!phaseVars)
<1>1. ASSUME NEW w \in Workers, Worker(w) \/ SpuriousWake(w)
      PROVE  [Phases!Next]_(Phases!phaseVars)
    <2>1. Delivering' <=> Delivering
        BY <1>1, WorkerPlaces DEF Delivering
    <2>2. Phase' = Phase \/ (Phase = "loop" /\ Phase' = "stop")
        BY <1>1, WorkerPlaces DEF Phase
    <2> QED BY <2>1, <2>2 DEF Delivering, Phases!Next, Phases!LoopEnds, Phases!Goes, Phases!phaseVars
<1>2. ASSUME NEW c \in Callbacks, DataRecieved(c) \/ Callback(c)
      PROVE  Phases!Next
    <2>1. Phase \in Phases!Serving /\ Phase # "aborted"
        BY <1>2, CallbackPlaces DEF MainPlace, Phase, Phases!Serving
    <2>2. Phase' = Phase \/ Phase' = "aborted"
        BY <1>2, CallbackPlaces, ThreadsOK DEF Phase
    <2> QED BY <2>1, <2>2 DEF Phases!Next, Phases!CallbacksRun, Phases!Terminate
<1>3. CASE SigTerm \/ UNCHANGED vars
    <2>1. pc' = pc
        BY <1>3 DEF SigTerm, vars
    <2> QED BY <2>1 DEF Phase, Phases!phaseVars
<1> QED BY <1>1, <1>2, <1>3, MainRefines DEF Next

\* What JobList lets main and the callbacks do beside each other is what the whole
\* process is shown to do by ConnectionsFollowPhases, for any number of threads
\* (Main.cpp:288-391, Server.cpp:68-86).
THEOREM JobsFollowPhases == Spec => ImplementsMainPhases
<1>1. Init => Phases!Init
    <2> SUFFICES ASSUME Init PROVE Phases!Init
        OBVIOUS
    <2>1. Phase = "spawn" /\ ~Delivering
        BY ThreadsOK DEF Init, Phase, Delivering
    <2> QED BY <2>1 DEF Delivering, Phases!Init
<1>2. IInv /\ MainPlace /\ [Next]_vars => [Phases!Next]_(Phases!phaseVars)
    BY NextRefines
<1> QED BY <1>1, <1>2, Consistent, PlacesKept, PTL DEF Spec, ImplementsMainPhases, Phases!Spec
=============================================================================
