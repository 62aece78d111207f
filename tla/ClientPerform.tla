--------------------------- MODULE ClientPerform ---------------------------
(***************************************************************************)
(* One client as the threads see it: Client::Perform and Client::Send      *)
(* (src/src/Server/Client.cpp) run by the workers, ClientPool's            *)
(* DataRecieved and the end of the connection run by MsQuic.               *)
(*                                                                         *)
(* c_Recieved is a SharedList, used through what it promises               *)
(* (ElementStore).  c_Send is one too, but only the holder of              *)
(* c_PerformMutex touches it, so it is the number of its elements.  The    *)
(* job list is the number of references to this client it holds; AddJob    *)
(* is taken to succeed here (JobList models its failure).  MsQuic calls    *)
(* back inline, one callback of a connection at a time.  p_Connection is   *)
(* never NULL: Client::Disconnected has no caller, so the first test of    *)
(* Perform fails and its last expression is b_Result.                      *)
(***************************************************************************)
EXTENDS Naturals, FiniteSets

CONSTANTS Workers,
          Quic,        \* the MsQuic thread that runs this connection's callbacks
          Messages,    \* each is delivered at most once
          NULL

ASSUME ThreadsOK == Quic \notin Workers /\ NULL \notin Workers /\ IsFiniteSet(Messages)

Threads == Workers \union {Quic}

VARIABLES stored, op, hands, claim, quiet,  \* c_Recieved
          jobs,             \* references to the client in the job list
          c_PerformMutex,   \* its holder
          c_Send,           \* replies waiting to be sent
          b_Result,         \* b_Result[w]: what Perform is going to return
          pc,
          connection,       \* "open", "shutdown" or "closed"
          delivered         \* history: messages MsQuic handed over

store == <<stored, op, hands, claim, quiet>>
vars == <<store, jobs, c_PerformMutex, c_Send, b_Result, pc, connection, delivered>>

Store == INSTANCE ElementStore WITH Elements <- Messages

\* The part of Perform between try_lock and unlock.
Inside == {"call", "get", "dispatch", "send", "unlock"}

TypeOK ==
    /\ Store!StoreTypeOK
    /\ jobs \in Nat
    /\ c_PerformMutex \in Workers \union {NULL}
    /\ c_Send \in Nat
    /\ b_Result \in [Workers -> BOOLEAN]
    /\ pc \in [Threads -> {"idle", "entry", "requeue", "adding", "addjob"} \union Inside]
    /\ connection \in {"open", "shutdown", "closed"}
    /\ delivered \subseteq Messages

Init ==
    /\ Store!StoreInit
    /\ jobs = 0
    /\ c_PerformMutex = NULL
    /\ c_Send = 0
    /\ b_Result = [w \in Workers |-> TRUE]
    /\ pc = [t \in Threads |-> "idle"]
    /\ connection = "open"
    /\ delivered = {}

GoTo(t, l) == pc' = [pc EXCEPT ![t] = l]

(***************************************************************************)
(* MsQuic.                                                                 *)
(***************************************************************************)
DataRecieved ==
    /\ pc[Quic] = "idle" /\ connection # "closed"
    /\ \E m \in Messages \ delivered :
          /\ Store!CallAdd(Quic, m)
          /\ delivered' = delivered \union {m}
    /\ GoTo(Quic, "adding")
    /\ UNCHANGED <<jobs, c_PerformMutex, c_Send, b_Result, connection>>

InsideAdd ==
    /\ pc[Quic] = "adding"
    /\ Store!Put(Quic)
    /\ UNCHANGED <<jobs, c_PerformMutex, c_Send, b_Result, pc, connection, delivered>>

\* Mutant: new data adds no job.
AfterAddNothing == "idle"

\* AddJob follows whatever became of the message.
AfterAdd == "addjob"

\* RecieveNetMessage catches what Add throws: the message is dropped.
EndAdd ==
    /\ pc[Quic] = "adding"
    /\ Store!Return(Quic) \/ Store!Reject(Quic)
    /\ GoTo(Quic, AfterAdd)
    /\ UNCHANGED <<jobs, c_PerformMutex, c_Send, b_Result, connection, delivered>>

AddJob(t) ==
    /\ jobs' = jobs + 1
    /\ GoTo(t, "idle")
    /\ UNCHANGED <<store, c_PerformMutex, c_Send, b_Result, connection, delivered>>

NotifyWorkers == pc[Quic] = "addjob" /\ AddJob(Quic)

\* SHUTDOWN_COMPLETE, whoever asked for the shutdown: the handle is closed.
ShutdownComplete ==
    /\ pc[Quic] = "idle" /\ connection # "closed"
    /\ connection' = "closed"
    /\ UNCHANGED <<store, jobs, c_PerformMutex, c_Send, b_Result, pc, delivered>>

(***************************************************************************)
(* Perform, called by a worker that took the job from the list.            *)
(***************************************************************************)
TakeJob(w) ==
    /\ pc[w] = "idle" /\ jobs > 0
    /\ jobs' = jobs - 1
    /\ GoTo(w, "entry")
    /\ UNCHANGED <<store, c_PerformMutex, c_Send, b_Result, connection, delivered>>

\* Mutant: the result of try_lock is ignored.
LockIgnored == TRUE

Lockable == c_PerformMutex = NULL

Enter(w) ==
    /\ pc[w] = "entry" /\ Lockable
    /\ c_PerformMutex' = w
    /\ GoTo(w, "call")
    /\ UNCHANGED <<store, jobs, c_Send, b_Result, connection, delivered>>

\* Mutant: a client that another worker performs counts as done.
BusyIsDone == "idle"

\* Perform returns false: the worker puts the job back.
BusyIsRetried == "requeue"

Busy(w) ==
    /\ pc[w] = "entry" /\ ~Lockable
    /\ GoTo(w, BusyIsRetried)
    /\ UNCHANGED <<store, jobs, c_PerformMutex, c_Send, b_Result, connection, delivered>>

StartGet(w) ==
    /\ pc[w] = "call"
    /\ Store!CallGet(w, "GetElement")
    /\ GoTo(w, "get")
    /\ UNCHANGED <<jobs, c_PerformMutex, c_Send, b_Result, connection, delivered>>

InsideGet(w) ==
    /\ pc[w] = "get"
    /\ \/ \E m \in Messages : Store!Claim(w, m)
       \/ Store!Take(w)
    /\ UNCHANGED <<jobs, c_PerformMutex, c_Send, b_Result, pc, connection, delivered>>

\* Mutant: the result is a failure until a reply was sent.
ResultPessimistic == FALSE

ResultAtStart == TRUE

EndGet(w) ==
    /\ pc[w] = "get"
    /\ Store!Return(w)
    /\ GoTo(w, IF hands[w] = {} THEN "send" ELSE "dispatch")
    /\ b_Result' = [b_Result EXCEPT ![w] = ResultAtStart]
    /\ UNCHANGED <<jobs, c_PerformMutex, c_Send, connection, delivered>>

\* Nothing stops it on a connection that is closed.
Disconnect ==
    connection' = IF connection = "open" THEN "shutdown" ELSE connection

\* A message is answered or not (also if a handler throws), and may end the
\* connection.
Dispatch(w) ==
    /\ pc[w] = "dispatch"
    /\ c_Send' \in {c_Send, c_Send + 1}
    /\ Disconnect \/ UNCHANGED connection
    /\ GoTo(w, "call")
    /\ UNCHANGED <<store, jobs, c_PerformMutex, b_Result, delivered>>

\* Mutant: the result of GetElement is not compared with NULL.
ReplyAssumed == TRUE

HasReply == c_Send > 0

\* Send tests nothing of the connection: it leaves a call on one that has ended
\* to MsQuic, of which nothing is assumed here.
SendOne(w) ==
    /\ pc[w] = "send" /\ HasReply
    /\ c_Send' = c_Send - 1
    /\ UNCHANGED <<store, jobs, c_PerformMutex, b_Result, pc, connection, delivered>>

\* Opening, starting or sending fails.  The reply goes back to c_Send unless
\* that throws, and Send throws.
SendFails(w) ==
    /\ pc[w] = "send" /\ HasReply
    /\ c_Send' \in {c_Send, c_Send - 1}
    /\ b_Result' = [b_Result EXCEPT ![w] = FALSE]
    /\ GoTo(w, "unlock")
    /\ UNCHANGED <<store, jobs, c_PerformMutex, connection, delivered>>

SendDone(w) ==
    /\ pc[w] = "send" /\ ~HasReply
    /\ GoTo(w, "unlock")
    /\ UNCHANGED <<store, jobs, c_PerformMutex, c_Send, b_Result, connection, delivered>>

Unlock(w) ==
    /\ pc[w] = "unlock"
    /\ c_PerformMutex' = NULL
    /\ GoTo(w, IF b_Result[w] THEN "idle" ELSE "requeue")
    /\ UNCHANGED <<store, jobs, c_Send, b_Result, connection, delivered>>

Requeue(w) == pc[w] = "requeue" /\ AddJob(w)

Callback == InsideAdd \/ EndAdd \/ NotifyWorkers

Perform(w) ==
    \/ Enter(w) \/ Busy(w)
    \/ StartGet(w) \/ InsideGet(w) \/ EndGet(w) \/ Dispatch(w)
    \/ SendOne(w) \/ SendFails(w) \/ SendDone(w) \/ Unlock(w)

Worker(w) == TakeJob(w) \/ Perform(w) \/ Requeue(w)

Next ==
    \/ DataRecieved \/ Callback \/ ShutdownComplete
    \/ \E w \in Workers : Worker(w)

Spec == Init /\ [][Next]_vars

(***************************************************************************)
(* A callback that has begun ends, and a worker with a job in hand goes    *)
(* on.  Nothing is assumed of the network; nor of workers taking a job:    *)
(* GetJob waits without a predicate (JobList.cpp:84).                      *)
(***************************************************************************)
FairSpec ==
    /\ Spec
    /\ WF_vars(Callback)
    /\ \A w \in Workers : WF_vars(Perform(w) \/ Requeue(w))

(***************************************************************************)
(* Properties.                                                             *)
(***************************************************************************)
Quiescent == jobs = 0 /\ \A t \in Threads : pc[t] = "idle"

\* A client nobody works on, and nobody is going to, has no message left to
\* process and no reply left to send: a worker that found the client busy, or
\* missed a message that was just arriving, is always followed by another
\* Perform (Client.cpp:110-118, 254).
NoBacklog == Quiescent => stored = {} /\ c_Send = 0

\* c_UserInfo, c_Send and the stream contexts belong to one worker at a time
\* (Client.cpp:110, 249).
OneWorkerInside ==
    \A v, w \in Workers : pc[v] \in Inside /\ pc[w] \in Inside => v = w

\* No job of the client stays in the list with no worker ever taking one again:
\* it does after the lost wakeup that JobsServed of JobList shows.
JobsTaken == []<>(jobs = 0) \/ []<><<\E w \in Workers : TakeJob(w)>>_vars

\* As long as its jobs are taken, every message a client has received is processed,
\* also when workers compete for the client, sending fails or the connection ends
\* (Client.cpp:123, 254).
RecievedIsProcessed == JobsTaken => \A m \in Messages : m \in stored ~> m \notin stored

\* As long as they are taken, the jobs of a client come to rest again and again,
\* unless sending fails again and again.  That it may is the case of a closed
\* connection: "can't work on a disconnected client!" (Client.cpp:252), but nothing
\* sets the p_Connection that is tested there, and the job with its reply is
\* retried for ever.
RestsUnlessSendsFail ==
    JobsTaken => []<>Quiescent \/ []<><<\E w \in Workers : SendFails(w)>>_vars

\* The worker in Send is the one that holds c_PerformMutex.
CallOfSend ==
    IF \E w \in Workers : pc[w] = "send" THEN "runs"
    ELSE IF \E w \in Workers : pc[w] = "unlock" /\ ~b_Result[w] THEN "thrown"
    ELSE "none"

Outbox == INSTANCE Outbox WITH waiting <- c_Send, call <- CallOfSend

\* Perform keeps its side of the agreement with Send: whatever workers compete
\* for the client, no handler adds a reply while another worker sends, no second
\* Send starts, and b_Result says of each call whether it threw until the mutex is
\* free (Client.cpp:110, 123, 226-249).
ImplementsOutbox == Outbox!Spec
=============================================================================
