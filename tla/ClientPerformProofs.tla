------------------------- MODULE ClientPerformProofs -------------------------
(***************************************************************************)
(* Proofs about ClientPerform: whatever number of workers compete for the  *)
(* client, only one is inside Perform, and no message and no reply is left *)
(* behind.  The argument follows the job: a worker that misses a message   *)
(* missed it because of an Add, whose job is still on its way and cannot   *)
(* be used up while the worker holds c_PerformMutex.                       *)
(***************************************************************************)
EXTENDS ClientPerform, TLAPS

\* A thread is inside a call of c_Recieved exactly at these places.
Places ==
    /\ pc[Quic] \in {"idle", "adding", "addjob"}
    /\ op[Quic] = IF pc[Quic] = "adding" THEN "Add" ELSE "none"
    /\ claim[Quic] = {}
    /\ \A w \in Workers :
          /\ pc[w] \in {"idle", "entry", "requeue"} \union Inside
          /\ op[w] = IF pc[w] = "get" THEN "GetElement" ELSE "none"
          /\ pc[w] # "get" => claim[w] = {}

LockHeld == \A w \in Workers : pc[w] \in Inside <=> c_PerformMutex = w

\* Somebody is going to call Perform.
Coming ==
    \/ jobs > 0
    \/ pc[Quic] \in {"adding", "addjob"}
    \/ \E w \in Workers : pc[w] \in {"entry", "requeue"}

\* A getter that an Add overlapped can rely on the job of that Add.
MissIsCovered == \A w \in Workers : pc[w] = "get" /\ ~quiet[w] => Coming

Reading == \E w \in Workers : pc[w] \in {"call", "get", "dispatch"}

MessagesCovered == stored # {} => Coming \/ Reading

Sending ==
    \E w \in Workers : pc[w] = "send" \/ (pc[w] = "unlock" /\ ~b_Result[w])

RepliesCovered == c_Send > 0 => Coming \/ Reading \/ Sending

IInv ==
    /\ TypeOK
    /\ Places
    /\ LockHeld
    /\ MissIsCovered
    /\ MessagesCovered
    /\ RepliesCovered

USE DEF Threads, Store!Getters

\* A client that has just connected satisfies the invariant.
LEMMA InitIInv == ASSUME Init PROVE IInv
BY ThreadsOK DEF Init, IInv, TypeOK, Places, LockHeld, Coming, MissIsCovered,
   MessagesCovered, RepliesCovered, Inside, Store!StoreInit, Store!StoreTypeOK

\* A delivery starts: the client has work coming.
LEMMA DataRecievedStep ==
    ASSUME IInv, DataRecieved
    PROVE  IInv'
<1> USE ThreadsOK DEF IInv, GoTo, store, DataRecieved, Store!CallAdd,
   Store!Begin, Store!Overlap
<1>1. TypeOK'
    BY DEF TypeOK, Store!StoreTypeOK
<1>2. Places'
    BY DEF TypeOK, Store!StoreTypeOK, Places
<1>3. LockHeld'
    BY DEF LockHeld
<1>4. MissIsCovered'
    BY DEF TypeOK, MissIsCovered, Coming
<1>5. MessagesCovered'
    BY DEF TypeOK, MessagesCovered, Coming
<1>6. RepliesCovered'
    BY DEF TypeOK, RepliesCovered, Coming
<1> QED BY <1>1, <1>2, <1>3, <1>4, <1>5, <1>6

\* The message becomes visible while its Add still runs.
LEMMA InsideAddStep ==
    ASSUME IInv, InsideAdd
    PROVE  IInv'
<1> USE ThreadsOK DEF IInv, GoTo, store, InsideAdd, Store!Put
<1>1. TypeOK'
    BY DEF TypeOK, Store!StoreTypeOK
<1>2. Places'
    BY DEF Places
<1>3. LockHeld'
    BY DEF LockHeld
<1>4. MissIsCovered'
    BY DEF MissIsCovered, Coming
<1>5. MessagesCovered'
    BY DEF MessagesCovered, Coming
<1>6. RepliesCovered'
    BY DEF RepliesCovered, Coming
<1> QED BY <1>1, <1>2, <1>3, <1>4, <1>5, <1>6

\* The Add ends; the job is still to come.
LEMMA EndAddStep ==
    ASSUME IInv, EndAdd
    PROVE  IInv'
<1> USE ThreadsOK DEF IInv, GoTo, store, EndAdd, AfterAdd, Store!Return,
   Store!Reject, Store!Finish
<1>1. TypeOK'
    BY DEF TypeOK, Store!StoreTypeOK
<1>2. Places'
    BY DEF TypeOK, Store!StoreTypeOK, Places
<1>3. LockHeld'
    BY DEF LockHeld
<1>4. MissIsCovered'
    BY DEF MissIsCovered, Coming
<1>5. MessagesCovered'
    BY DEF MessagesCovered, Coming
<1>6. RepliesCovered'
    BY DEF RepliesCovered, Coming
<1> QED BY <1>1, <1>2, <1>3, <1>4, <1>5, <1>6

\* The job of the delivery is in the list.
LEMMA NotifyWorkersStep ==
    ASSUME IInv, NotifyWorkers
    PROVE  IInv'
<1> USE ThreadsOK DEF IInv, GoTo, store, NotifyWorkers, AddJob
<1>1. TypeOK'
    BY DEF TypeOK, Store!StoreTypeOK
<1>2. Places'
    BY DEF Places
<1>3. LockHeld'
    BY DEF LockHeld
<1>4. MissIsCovered'
    BY DEF TypeOK, MissIsCovered, Coming
<1>5. MessagesCovered'
    BY DEF TypeOK, MessagesCovered, Coming
<1>6. RepliesCovered'
    BY DEF TypeOK, RepliesCovered, Coming
<1> QED BY <1>1, <1>2, <1>3, <1>4, <1>5, <1>6

\* The end of the connection leaves messages, replies and jobs alone.
LEMMA ShutdownCompleteStep ==
    ASSUME IInv, ShutdownComplete
    PROVE  IInv'
<1> USE ThreadsOK DEF IInv, GoTo, store, ShutdownComplete
<1>1. TypeOK'
    BY DEF TypeOK, Store!StoreTypeOK
<1>2. Places'
    BY DEF Places
<1>3. LockHeld'
    BY DEF LockHeld
<1>4. MissIsCovered'
    BY DEF MissIsCovered, Coming
<1>5. MessagesCovered'
    BY DEF MessagesCovered, Coming, Reading
<1>6. RepliesCovered'
    BY DEF RepliesCovered, Coming, Reading, Sending
<1> QED BY <1>1, <1>2, <1>3, <1>4, <1>5, <1>6

\* The job moves from the list to a worker.
LEMMA TakeJobStep ==
    ASSUME IInv, NEW w \in Workers, TakeJob(w)
    PROVE  IInv'
<1> USE ThreadsOK DEF IInv, GoTo, store, TakeJob
<1>1. TypeOK'
    BY DEF TypeOK, Store!StoreTypeOK
<1>2. Places'
    BY DEF Places
<1>3. LockHeld'
    BY DEF LockHeld, Inside
<1>4. MissIsCovered'
    BY DEF TypeOK, MissIsCovered, Coming
<1>5. MessagesCovered'
    BY DEF TypeOK, MessagesCovered, Coming
<1>6. RepliesCovered'
    BY DEF TypeOK, RepliesCovered, Coming
<1> QED BY <1>1, <1>2, <1>3, <1>4, <1>5, <1>6

\* The worker that enters is going to look for messages and to send.
LEMMA EnterStep ==
    ASSUME IInv, NEW w \in Workers, Enter(w)
    PROVE  IInv'
<1> USE ThreadsOK DEF IInv, GoTo, store, Enter, Lockable
<1>1. TypeOK'
    BY DEF TypeOK, Store!StoreTypeOK, Inside
<1>2. Places'
    BY DEF Places, Inside
<1>3. LockHeld'
    BY DEF TypeOK, LockHeld, Inside
<1>4. MissIsCovered'
    BY DEF TypeOK, LockHeld, MissIsCovered
<1>5. MessagesCovered'
    BY DEF TypeOK, MessagesCovered, Reading
<1>6. RepliesCovered'
    BY DEF TypeOK, RepliesCovered, Reading
<1> QED BY <1>1, <1>2, <1>3, <1>4, <1>5, <1>6

\* The worker that finds the client busy keeps the job.
LEMMA BusyStep ==
    ASSUME IInv, NEW w \in Workers, Busy(w)
    PROVE  IInv'
<1> USE ThreadsOK DEF IInv, GoTo, store, Busy, BusyIsRetried
<1>1. TypeOK'
    BY DEF TypeOK, Store!StoreTypeOK
<1>2. Places'
    BY DEF Places
<1>3. LockHeld'
    BY DEF LockHeld, Inside
<1>4. MissIsCovered'
    BY DEF MissIsCovered, Coming
<1>5. MessagesCovered'
    BY DEF MessagesCovered, Coming
<1>6. RepliesCovered'
    BY DEF RepliesCovered, Coming
<1> QED BY <1>1, <1>2, <1>3, <1>4, <1>5, <1>6

\* If an Add runs now, its job is still to come.
LEMMA StartGetStep ==
    ASSUME IInv, NEW w \in Workers, StartGet(w)
    PROVE  IInv'
<1> USE ThreadsOK DEF IInv, GoTo, store, StartGet, Store!CallGet,
   Store!Begin, Store!Overlap
<1>1. TypeOK'
    BY DEF TypeOK, Store!StoreTypeOK, Inside
<1>2. Places'
    BY DEF TypeOK, Store!StoreTypeOK, Places, Inside
<1>3. LockHeld'
    BY DEF LockHeld, Inside
<1>4. MissIsCovered'
    BY DEF Places, MissIsCovered, Coming
<1>5. MessagesCovered'
    BY DEF MessagesCovered, Reading
<1>6. RepliesCovered'
    BY DEF RepliesCovered, Reading
<1> QED BY <1>1, <1>2, <1>3, <1>4, <1>5, <1>6

\* A message is claimed or taken.
LEMMA InsideGetStep ==
    ASSUME IInv, NEW w \in Workers, InsideGet(w)
    PROVE  IInv'
<1> USE ThreadsOK DEF IInv, GoTo, store, InsideGet, Store!Claim, Store!Take
<1>1. TypeOK'
    BY DEF TypeOK, Store!StoreTypeOK
<1>2. Places'
    BY DEF TypeOK, Store!StoreTypeOK, Places
<1>3. LockHeld'
    BY DEF LockHeld
<1>4. MissIsCovered'
    BY DEF MissIsCovered, Coming
<1>5. MessagesCovered'
    BY DEF MessagesCovered, Reading
<1>6. RepliesCovered'
    BY DEF RepliesCovered, Reading
<1> QED BY <1>1, <1>2, <1>3, <1>4, <1>5, <1>6

\* Nothing was found: nothing is there, or an Add overlapped the call.
LEMMA EndGetStep ==
    ASSUME IInv, NEW w \in Workers, EndGet(w)
    PROVE  IInv'
<1> USE ThreadsOK DEF IInv, GoTo, store, EndGet, ResultAtStart, Store!Return,
   Store!Finish, Store!Exhausted, Store!Claimed
<1>1. TypeOK'
    BY DEF TypeOK, Store!StoreTypeOK, Inside
<1>2. Places'
    BY DEF TypeOK, Store!StoreTypeOK, Places, Inside
<1>3. LockHeld'
    BY DEF LockHeld, Inside
<1>4. MissIsCovered'
    BY DEF TypeOK, LockHeld, MissIsCovered
<1>5. MessagesCovered'
    BY DEF Places, MissIsCovered, MessagesCovered, Coming, Reading
<1>6. RepliesCovered'
    BY DEF RepliesCovered, Reading, Sending
<1> QED BY <1>1, <1>2, <1>3, <1>4, <1>5, <1>6

\* A reply is left for the same worker to send.
LEMMA DispatchStep ==
    ASSUME IInv, NEW w \in Workers, Dispatch(w)
    PROVE  IInv'
<1> USE ThreadsOK DEF IInv, GoTo, store, Dispatch, Disconnect
<1>1. TypeOK'
    <2>1. c_Send' \in Nat
        BY DEF TypeOK
    <2>2. connection' \in {"open", "shutdown", "closed"}
        BY DEF TypeOK
    <2>3. pc' \in [Threads -> {"idle", "entry", "requeue", "adding", "addjob"} \union Inside]
        BY DEF TypeOK, Inside
    <2> QED BY <2>1, <2>3 DEF TypeOK, Store!StoreTypeOK
<1>2. Places'
    BY DEF Places, Inside
<1>3. LockHeld'
    BY DEF LockHeld, Inside
<1>4. MissIsCovered'
    BY DEF TypeOK, LockHeld, MissIsCovered
<1>5. MessagesCovered'
    BY DEF MessagesCovered, Reading
<1>6. RepliesCovered'
    BY DEF RepliesCovered, Reading
<1> QED BY <1>1, <1>2, <1>3, <1>4, <1>5, <1>6

\* A reply leaves.
LEMMA SendOneStep ==
    ASSUME IInv, NEW w \in Workers, SendOne(w)
    PROVE  IInv'
<1> USE ThreadsOK DEF IInv, GoTo, store, SendOne, HasReply
<1>1. TypeOK'
    BY DEF TypeOK, Store!StoreTypeOK
<1>2. Places'
    BY DEF Places
<1>3. LockHeld'
    BY DEF LockHeld
<1>4. MissIsCovered'
    BY DEF TypeOK, LockHeld, MissIsCovered
<1>5. MessagesCovered'
    BY DEF MessagesCovered, Coming, Reading
<1>6. RepliesCovered'
    BY DEF RepliesCovered, Sending
<1> QED BY <1>1, <1>2, <1>3, <1>4, <1>5, <1>6

\* A reply stays, and the worker is going to put the job back.
LEMMA SendFailsStep ==
    ASSUME IInv, NEW w \in Workers, SendFails(w)
    PROVE  IInv'
<1> USE ThreadsOK DEF IInv, GoTo, store, SendFails, HasReply
<1>1. TypeOK'
    BY DEF TypeOK, Store!StoreTypeOK, Inside
<1>2. Places'
    BY DEF Places, Inside
<1>3. LockHeld'
    BY DEF LockHeld, Inside
<1>4. MissIsCovered'
    BY DEF TypeOK, LockHeld, MissIsCovered
<1>5. MessagesCovered'
    BY DEF MessagesCovered, Coming, Reading
<1>6. RepliesCovered'
    BY DEF TypeOK, RepliesCovered, Sending
<1> QED BY <1>1, <1>2, <1>3, <1>4, <1>5, <1>6

\* The worker stops sending only when nothing is left to send.
LEMMA SendDoneStep ==
    ASSUME IInv, NEW w \in Workers, SendDone(w)
    PROVE  IInv'
<1> USE ThreadsOK DEF IInv, GoTo, store, SendDone, HasReply
<1>1. TypeOK'
    BY DEF TypeOK, Store!StoreTypeOK, Inside
<1>2. Places'
    BY DEF Places, Inside
<1>3. LockHeld'
    BY DEF LockHeld, Inside
<1>4. MissIsCovered'
    BY DEF TypeOK, LockHeld, MissIsCovered
<1>5. MessagesCovered'
    BY DEF MessagesCovered, Coming, Reading
<1>6. RepliesCovered'
    BY DEF RepliesCovered
<1> QED BY <1>1, <1>2, <1>3, <1>4, <1>5, <1>6

\* The worker leaves; with a reply left it puts the job back.
LEMMA UnlockStep ==
    ASSUME IInv, NEW w \in Workers, Unlock(w)
    PROVE  IInv'
<1> USE ThreadsOK DEF IInv, GoTo, store, Unlock
<1>1. TypeOK'
    BY DEF TypeOK, Store!StoreTypeOK
<1>2. Places'
    BY DEF Places
<1>3. LockHeld'
    BY DEF TypeOK, LockHeld, Inside
<1>4. MissIsCovered'
    BY DEF TypeOK, LockHeld, MissIsCovered
<1>5. MessagesCovered'
    BY DEF MessagesCovered, Coming, Reading
<1>6. RepliesCovered'
    BY DEF RepliesCovered, Coming, Reading, Sending
<1> QED BY <1>1, <1>2, <1>3, <1>4, <1>5, <1>6

\* The job moves from the worker to the list.
LEMMA RequeueStep ==
    ASSUME IInv, NEW w \in Workers, Requeue(w)
    PROVE  IInv'
<1> USE ThreadsOK DEF IInv, GoTo, store, Requeue, AddJob
<1>1. TypeOK'
    BY DEF TypeOK, Store!StoreTypeOK
<1>2. Places'
    BY DEF Places
<1>3. LockHeld'
    BY DEF LockHeld, Inside
<1>4. MissIsCovered'
    BY DEF TypeOK, MissIsCovered, Coming
<1>5. MessagesCovered'
    BY DEF TypeOK, MessagesCovered, Coming
<1>6. RepliesCovered'
    BY DEF TypeOK, RepliesCovered, Coming
<1> QED BY <1>1, <1>2, <1>3, <1>4, <1>5, <1>6

\* A step that changes nothing keeps the invariant.
LEMMA StutterStep == ASSUME IInv, UNCHANGED vars PROVE IInv'
BY DEF IInv, TypeOK, Store!StoreTypeOK, Places, LockHeld, Coming, MissIsCovered,
   Reading, MessagesCovered, Sending, RepliesCovered, vars, store

\* The invariant holds in every reachable state, for every number of workers
\* and messages.
THEOREM Consistent == Spec => []IInv
<1>1. ASSUME IInv, [Next]_vars PROVE IInv'
    <2>1. CASE DataRecieved \/ Callback \/ ShutdownComplete
        BY <1>1, <2>1, DataRecievedStep, InsideAddStep, EndAddStep,
           NotifyWorkersStep, ShutdownCompleteStep DEF Callback
    <2>2. ASSUME NEW w \in Workers, Perform(w) PROVE IInv'
        BY <1>1, <2>2, EnterStep, BusyStep, StartGetStep, InsideGetStep,
           EndGetStep, DispatchStep, SendOneStep, SendFailsStep, SendDoneStep,
           UnlockStep DEF Perform
    <2>3. ASSUME NEW w \in Workers, Worker(w) PROVE IInv'
        BY <1>1, <2>2, <2>3, TakeJobStep, RequeueStep DEF Worker
    <2>4. CASE UNCHANGED vars
        BY <1>1, <2>4, StutterStep
    <2> QED BY <1>1, <2>1, <2>3, <2>4 DEF Next
<1> QED BY InitIInv, <1>1, PTL DEF Spec

\* Every variable keeps its type: no reply is sent that is not there.
THEOREM TypeCorrect == Spec => []TypeOK
<1>1. IInv => TypeOK
    BY DEF IInv
<1> QED BY <1>1, Consistent, PTL

\* One worker at a time is between try_lock and unlock in Perform, so
\* c_UserInfo, c_Send and the stream contexts have one user.
THEOREM MutualExclusion == Spec => []OneWorkerInside
<1>1. IInv => OneWorkerInside
    BY DEF IInv, LockHeld, OneWorkerInside
<1> QED BY <1>1, Consistent, PTL

\* A client comes to rest without a message or a reply left, however many
\* workers found it busy or missed a message that was arriving.
THEOREM NothingLeftBehind == Spec => []NoBacklog
<1>1. IInv => NoBacklog
    BY DEF IInv, TypeOK, NoBacklog, Quiescent, MessagesCovered, RepliesCovered,
       Coming, Reading, Sending
<1> QED BY <1>1, Consistent, PTL

(***************************************************************************)
(* Perform implements Outbox.  The workers' places count only as far as    *)
(* Send is called: with c_PerformMutex held, that is one worker at most.   *)
(***************************************************************************)
\* What one worker alone says of the call: its place, and its b_Result.
CallAt(l, b) ==
    IF l = "send" THEN "runs" ELSE IF l = "unlock" /\ ~b THEN "thrown" ELSE "none"

\* A worker that sends has had no failure yet.
NoFailureYet == \A w \in Workers : pc[w] = "send" => b_Result[w] = TRUE

\* A thread goes to another place, and the others stay.
LEMMA Moved ==
  ASSUME IInv, NEW t \in Threads, NEW l, GoTo(t, l)
  PROVE  pc'[t] = l /\ \A u \in Threads : u # t => pc'[u] = pc[u]
BY DEF IInv, TypeOK, GoTo

\* While a worker is inside Perform, the call of Send is the one it has made.
LEMMA CallOfInside ==
  ASSUME IInv, NEW w \in Workers, pc[w] \in Inside
  PROVE  /\ CallOfSend = CallAt(pc[w], b_Result[w])
         /\ \A l : GoTo(w, l) => CallOfSend' = CallAt(l, b_Result'[w])
<1>1. \A v \in Workers : v # w => pc[v] \notin {"send", "unlock"}
    BY DEF IInv, LockHeld, Inside
<1>2. CallOfSend = CallAt(pc[w], b_Result[w])
    BY <1>1 DEF CallOfSend, CallAt
<1>3. ASSUME NEW l, GoTo(w, l)
      PROVE  CallOfSend' = CallAt(l, b_Result'[w])
    BY <1>1, <1>3, Moved DEF CallOfSend, CallAt
<1> QED BY <1>2, <1>3

\* Send fails once: b_Result is TRUE when it begins, and it ends with the failure.
LEMMA NoFailureStays ==
  ASSUME IInv, NoFailureYet, [Next]_vars
  PROVE  NoFailureYet'
<1>1. CASE DataRecieved \/ Callback \/ ShutdownComplete \/ UNCHANGED vars
    BY <1>1, ThreadsOK DEF IInv, TypeOK, NoFailureYet, DataRecieved, Callback, InsideAdd, EndAdd, AfterAdd,
       NotifyWorkers, AddJob, ShutdownComplete, GoTo, vars
<1>2. ASSUME NEW w \in Workers, Worker(w) PROVE NoFailureYet'
    <2> USE DEF IInv, TypeOK, NoFailureYet, GoTo
    <2>1. CASE TakeJob(w) \/ Enter(w) \/ Busy(w) \/ StartGet(w) \/ Unlock(w) \/ Requeue(w)
        BY <2>1 DEF TakeJob, Enter, Busy, BusyIsRetried, StartGet, Unlock, Requeue, AddJob
    <2>2. CASE InsideGet(w) \/ Dispatch(w) \/ SendOne(w) \/ SendDone(w)
        BY <2>2 DEF InsideGet, Dispatch, SendOne, SendDone
    <2>3. CASE EndGet(w)
        BY <2>3 DEF EndGet, ResultAtStart
    <2>4. CASE SendFails(w)
        BY <2>4 DEF SendFails
    <2> QED BY <1>2, <2>1, <2>2, <2>3, <2>4 DEF Worker, Perform
<1> QED BY <1>1, <1>2 DEF Next

\* What Send does is a step of the outbox, and so is the end of Perform after it.
LEMMA SendRefines ==
  ASSUME IInv, NoFailureYet, NEW w \in Workers,
         SendOne(w) \/ SendFails(w) \/ SendDone(w) \/ Unlock(w)
  PROVE  [Outbox!Next]_(Outbox!outboxVars)
<1>1. /\ pc[w] \in Inside /\ c_Send \in Nat /\ b_Result \in [Workers -> BOOLEAN]
      /\ pc[w] = "send" => CallOfSend = "runs" /\ b_Result[w] = TRUE
    BY CallOfInside DEF Inside, SendOne, SendFails, SendDone, Unlock, IInv, TypeOK, CallAt,
       NoFailureYet
<1>2. CASE SendOne(w)
    <2>1. CallOfSend' = CallOfSend
        BY <1>2 DEF SendOne, CallOfSend
    <2> QED BY <1>1, <1>2, <2>1 DEF SendOne, HasReply, Outbox!Next, Outbox!Hand
<1>3. CASE SendFails(w)
    <2>1. CallOfSend' = "thrown"
        BY <1>1, <1>3, CallOfInside DEF SendFails, CallAt
    <2> QED BY <1>1, <1>3, <2>1 DEF SendFails, HasReply, Outbox!Next, Outbox!Fail
<1>4. CASE SendDone(w)
    <2>1. CallOfSend' = "none"
        BY <1>1, <1>4, CallOfInside DEF SendDone, CallAt
    <2> QED BY <1>1, <1>4, <2>1 DEF SendDone, HasReply, Outbox!Next, Outbox!End
<1>5. CASE Unlock(w)
    <2>1. CallOfSend \in {"none", "thrown"} /\ c_Send' = c_Send
        BY <1>1, <1>5, CallOfInside DEF Unlock, CallAt
    <2>2. CallOfSend' = "none"
        BY <1>1, <1>5, CallOfInside DEF Unlock, CallAt
    <2> QED BY <2>1, <2>2 DEF Outbox!Next, Outbox!Retry, Outbox!outboxVars
<1> QED BY <1>2, <1>3, <1>4, <1>5

\* A worker begins to send, or goes on reading with a reply more or not.
LEMMA ReadRefines ==
  ASSUME IInv, NEW w \in Workers, EndGet(w) \/ Dispatch(w)
  PROVE  [Outbox!Next]_(Outbox!outboxVars)
<1>1. pc[w] \in Inside /\ CallOfSend = "none" /\ c_Send \in Nat
    BY CallOfInside DEF Inside, EndGet, Dispatch, IInv, TypeOK, CallAt
<1>2. CASE EndGet(w)
    <2>1. CallOfSend' \in {"none", "runs"} /\ c_Send' = c_Send
        BY <1>1, <1>2, CallOfInside DEF EndGet, CallAt
    <2> QED BY <1>1, <2>1 DEF Outbox!Next, Outbox!Begin, Outbox!outboxVars
<1>3. CASE Dispatch(w)
    <2>1. CallOfSend' = "none" /\ c_Send' \in {c_Send, c_Send + 1}
        BY <1>1, <1>3, CallOfInside DEF Dispatch, CallAt
    <2> QED BY <1>1, <2>1 DEF Outbox!Next, Outbox!Reply, Outbox!outboxVars
<1> QED BY <1>2, <1>3

\* A thread that goes from one place to another, neither of them at Send.
LEMMA OthersRefine ==
  ASSUME IInv, NEW t \in Threads, NEW l,
         pc[t] \notin {"send", "unlock"}, l \notin {"send", "unlock"},
         GoTo(t, l), UNCHANGED <<c_Send, b_Result>>
  PROVE  UNCHANGED Outbox!outboxVars
<1>1. \A w \in Workers : /\ pc'[w] = "send" <=> pc[w] = "send"
                         /\ pc'[w] = "unlock" <=> pc[w] = "unlock"
    BY Moved
<1> QED BY <1>1 DEF CallOfSend, Outbox!outboxVars

\* A step of the client is a step of the outbox or leaves it alone.
LEMMA NextRefines ==
  ASSUME IInv, NoFailureYet, [Next]_vars
  PROVE  [Outbox!Next]_(Outbox!outboxVars)
<1> DEFINE Elsewhere(l) == l \notin {"send", "unlock"}
<1>1. CASE DataRecieved \/ EndAdd \/ NotifyWorkers
    <2>1. Elsewhere(pc[Quic]) /\ UNCHANGED <<c_Send, b_Result>>
          /\ \E l \in {"adding", "addjob", "idle"} : GoTo(Quic, l) /\ Elsewhere(l)
        BY <1>1 DEF DataRecieved, EndAdd, AfterAdd, NotifyWorkers, AddJob
    <2> QED BY <2>1, OthersRefine
<1>2. CASE InsideAdd \/ ShutdownComplete \/ UNCHANGED vars
    BY <1>2 DEF InsideAdd, ShutdownComplete, vars, CallOfSend, Outbox!outboxVars
<1>3. ASSUME NEW w \in Workers, Worker(w)
      PROVE  [Outbox!Next]_(Outbox!outboxVars)
    <2>1. CASE TakeJob(w) \/ Enter(w) \/ Busy(w) \/ StartGet(w) \/ Requeue(w)
        <3>1. Elsewhere(pc[w]) /\ UNCHANGED <<c_Send, b_Result>>
              /\ \E l \in {"entry", "call", "requeue", "get", "idle"} : GoTo(w, l) /\ Elsewhere(l)
            BY <2>1 DEF TakeJob, Enter, Busy, BusyIsRetried, StartGet, Requeue, AddJob
        <3> QED BY <3>1, OthersRefine
    <2>2. CASE InsideGet(w)
        BY <2>2 DEF InsideGet, CallOfSend, Outbox!outboxVars
    <2>3. CASE EndGet(w) \/ Dispatch(w)
        BY <2>3, ReadRefines
    <2>4. CASE SendOne(w) \/ SendFails(w) \/ SendDone(w) \/ Unlock(w)
        BY <2>4, SendRefines
    <2> QED BY <1>3, <2>1, <2>2, <2>3, <2>4 DEF Worker, Perform
<1> QED BY <1>1, <1>2, <1>3 DEF Next, Callback

\* Perform implements the agreement with Send for any number of workers: no
\* reply is added while a worker sends, no second Send starts, and b_Result tells
\* the end of each call (Client.cpp:110, 123, 226-249).
THEOREM PerformImplementsOutbox == Spec => ImplementsOutbox
<1>1. Init => Outbox!Init
    BY DEF Init, CallOfSend, Outbox!Init
<1>2. Init => NoFailureYet
    BY DEF Init, NoFailureYet
<1>3. IInv /\ NoFailureYet /\ [Next]_vars => NoFailureYet'
    BY NoFailureStays
<1>4. IInv /\ NoFailureYet /\ [Next]_vars => [Outbox!Next]_(Outbox!outboxVars)
    BY NextRefines
<1> QED BY <1>1, <1>2, <1>3, <1>4, Consistent, PTL DEF Spec, ImplementsOutbox, Outbox!Spec
=============================================================================
