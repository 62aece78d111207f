------------------------------ MODULE JobList ------------------------------
(***************************************************************************)
(* The job queue and the threads that serve it: JobList (src/src/Job),     *)
(* ThreadPool, and main (src/src/Main.cpp) from the construction of the    *)
(* pool to the end of the server.  The callbacks of MsQuic add jobs; the   *)
(* pool's threads and the main thread take and perform them, and put a job *)
(* back that wants to be retried.  What main does before and after is in   *)
(* NetServer.                                                              *)
(*                                                                         *)
(* c_JobList is a SharedList, used here through what it promises           *)
(* (ElementStore).  A job is one reference to a client.  JobList::c_Mutex  *)
(* is only ever held from before the wait to the wait itself, by threads   *)
(* that do nothing else with it, so it orders nothing and is left out.     *)
(***************************************************************************)
EXTENDS Naturals, FiniteSets

CONSTANTS Pool,        \* threads of the ThreadPool
          Main,        \* the main thread, which also serves the list
          Callbacks,   \* MsQuic threads that deliver data of clients
          Jobs         \* references to clients

ASSUME ThreadsOK ==
    /\ Main \notin Pool \union Callbacks
    /\ Pool \cap Callbacks = {}
    /\ Pool # {}       \* else ThreadPool throws "No thread info!"

Workers == Pool \union {Main}
Threads == Workers \union Callbacks

VARIABLES stored, op, hands, claim, quiet,  \* c_JobList
          b_Locked,                         \* JobList::b_Locked
          b_Run,                            \* main's, cleared by SIGTERM
          b_RunPool,                        \* ThreadPool::b_Run
          b_Server,                         \* connections may deliver data
          pc,
          p_Job,                            \* p_Job[w]: {} or the job w holds
          missed,      \* history: an AddJob ended while a worker was looking
          unkicked,    \* history: workers past the lock test at notify_all
          late         \* history: jobs performed with the list locked, to 2

store == <<stored, op, hands, claim, quiet>>
flags == <<b_Locked, b_Run, b_RunPool, b_Server>>
history == <<missed, unkicked, late>>
vars == <<store, flags, pc, p_Job, history>>

Store == INSTANCE ElementStore WITH Elements <- Jobs

GetPCs == {"check", "call", "get", "empty", "waiting"}
LoopPCs == {"loop", "perform", "requeue"} \union GetPCs
AddPCs == {"adding", "notify"}
MainPCs == {"spawn", "connect", "lock", "kick", "stop", "join", "joining", "close"}
PCs == {"none", "idle", "gone", "aborted"} \union LoopPCs \union AddPCs \union MainPCs

TypeOK ==
    /\ Store!StoreTypeOK
    /\ \A f \in {b_Locked, b_Run, b_RunPool, b_Server, missed} : f \in BOOLEAN
    /\ pc \in [Threads -> PCs]
    /\ p_Job \in [Workers -> SUBSET Jobs]
    /\ \A w \in Workers : pc[w] = "perform" => p_Job[w] # {}  \* p_Job->Perform
    /\ unkicked \subseteq Workers
    /\ late \in [Workers -> 0 .. 2]

Init ==
    /\ Store!StoreInit
    /\ b_Locked = FALSE /\ b_Run = TRUE /\ b_RunPool = TRUE /\ b_Server = TRUE
    /\ pc = [t \in Threads |-> IF t = Main THEN "spawn"
                               ELSE IF t \in Pool THEN "none" ELSE "idle"]
    /\ p_Job = [w \in Workers |-> {}]
    /\ missed = FALSE
    /\ unkicked = {}
    /\ late = [w \in Workers |-> 0]

GoTo(t, l) == pc' = [pc EXCEPT ![t] = l]

(***************************************************************************)
(* ThreadPool's constructor, and the database session of main.             *)
(***************************************************************************)
Born == {w \in Pool : pc[w] # "none"}

Spawn(w) ==
    /\ pc[Main] = "spawn" /\ w \notin Born
    /\ GoTo(w, "loop")
    /\ UNCHANGED <<store, flags, p_Job, history>>

\* A thread cannot be made.  The constructor throws and l_Thread is destroyed:
\* the program terminates if a thread in it runs, and main leaves otherwise.
SpawnFails ==
    /\ pc[Main] = "spawn" /\ Born # Pool
    /\ IF Born = {} THEN GoTo(Main, "close") ELSE pc' = [t \in Threads |-> "aborted"]
    /\ UNCHANGED <<store, flags, p_Job, history>>

SpawnEnds ==
    /\ pc[Main] = "spawn" /\ Born = Pool
    /\ GoTo(Main, "connect")
    /\ UNCHANGED <<store, flags, p_Job, history>>

\* Main's Database throws: what was made is destroyed, the pool first, and
\* nobody locks the list.
Connect ==
    /\ pc[Main] = "connect"
    /\ GoTo(Main, "loop") \/ GoTo(Main, "join")
    /\ UNCHANGED <<store, flags, p_Job, history>>

(***************************************************************************)
(* GetJob, called from ThreadPool::Update and from main's loop.            *)
(***************************************************************************)
\* Mutant: main's loop does not look at b_Run.
RunningAlways(w) == w = Main \/ b_RunPool

Running(w) == IF w = Main THEN b_Run ELSE b_RunPool

Loop(w) ==
    /\ pc[w] = "loop"
    /\ GoTo(w, IF Running(w) THEN "check" ELSE IF w = Main THEN "lock" ELSE "gone")
    /\ UNCHANGED <<store, flags, p_Job, history>>

\* Mutant: the lock is not tested.
RefusesNever == FALSE

Refuses == b_Locked

\* A locked list throws, and the caller's catch (...) goes round its loop.
CheckLocked(w) ==
    /\ pc[w] = "check"
    /\ GoTo(w, IF Refuses THEN "loop" ELSE "call")
    /\ UNCHANGED <<store, flags, p_Job, history>>

StartGet(w) ==
    /\ pc[w] = "call"
    /\ Store!CallGet(w, "GetElement")
    /\ GoTo(w, "get")
    /\ UNCHANGED <<flags, p_Job, history>>

InsideGet(w) ==
    /\ pc[w] = "get"
    /\ \/ \E j \in Jobs : Store!Claim(w, j)
       \/ Store!Take(w)
    /\ UNCHANGED <<flags, pc, p_Job, history>>

\* Mutant: the lock is tested again before the job is returned.
FoundUnlocked(w) == hands[w] # {} /\ ~b_Locked

Found(w) == hands[w] # {}

EndGet(w) ==
    /\ pc[w] = "get"
    /\ Store!Return(w)
    /\ p_Job' = [p_Job EXCEPT ![w] = hands[w]]
    /\ GoTo(w, IF Found(w) THEN "perform" ELSE "empty")
    /\ UNCHANGED <<flags, history>>

\* c_Condition.wait has no predicate: the thread sleeps whatever was added
\* since it looked.
Wait(w) ==
    /\ pc[w] = "empty"
    /\ GoTo(w, "waiting")
    /\ UNCHANGED <<store, flags, p_Job, history>>

\* A condition variable may wake a waiter for no reason.
SpuriousWake(w) ==
    /\ pc[w] = "waiting"
    /\ GoTo(w, "check")
    /\ UNCHANGED <<store, flags, p_Job, history>>

\* The job is done, or asks for another turn.
Perform(w) ==
    /\ pc[w] = "perform"
    /\ \/ /\ GoTo(w, "loop")
          /\ p_Job' = [p_Job EXCEPT ![w] = {}]
       \/ /\ GoTo(w, "requeue")
          /\ UNCHANGED p_Job
    /\ late' = [late EXCEPT ![w] = IF b_Locked /\ @ < 2 THEN @ + 1 ELSE @]
    /\ UNCHANGED <<store, flags, missed, unkicked>>

(***************************************************************************)
(* AddJob, called by a worker for a retry and by a callback for new data.  *)
(***************************************************************************)
Requeue(w) ==
    /\ pc[w] = "requeue"
    /\ \E j \in p_Job[w] : Store!CallAdd(w, j)
    /\ p_Job' = [p_Job EXCEPT ![w] = {}]
    /\ GoTo(w, "adding")
    /\ UNCHANGED <<flags, history>>

DataRecieved(c) ==
    /\ pc[c] = "idle" /\ b_Server
    /\ \E j \in Jobs \ UNION {p_Job[w] : w \in Workers} : Store!CallAdd(c, j)
    /\ GoTo(c, "adding")
    /\ UNCHANGED <<flags, p_Job, history>>

InsideAdd(t) ==
    /\ pc[t] = "adding"
    /\ Store!Put(t)
    /\ UNCHANGED <<flags, pc, p_Job, history>>

EndAdd(t) ==
    /\ pc[t] = "adding"
    /\ Store!Return(t)
    /\ GoTo(t, "notify")
    /\ UNCHANGED <<flags, p_Job, history>>

Home(t) == IF t \in Workers THEN "loop" ELSE "idle"

\* Workers that look for a job and do not wait yet.
Looking == {w \in Workers : pc[w] \in {"get", "empty"}}

AddEnds == missed' = (missed \/ Looking # {})

\* Add throws, and the worker's catch (...) drops the job.
AddFails(w) ==
    /\ pc[w] = "adding"
    /\ Store!Reject(w)
    /\ GoTo(w, "loop")
    /\ AddEnds
    /\ UNCHANGED <<flags, p_Job, unkicked, late>>

\* Add throws in a callback, which is noexcept (ClientPool.cpp:115): the
\* program terminates.
Abort(c) ==
    /\ pc[c] = "adding"
    /\ Store!Reject(c)
    /\ pc' = [t \in Threads |-> "aborted"]
    /\ UNCHANGED <<flags, p_Job, history>>

Waiting == {w \in Workers : pc[w] = "waiting"}

\* Mutant: AddJob without notify_one.
NotifyNobody == {{}}

\* The sets of threads c_Condition.notify_one may wake.
NotifyOne == IF Waiting = {} THEN {{}} ELSE {{w} : w \in Waiting}

\* Mutant: Lock with notify_one.
NotifyOnlyOne == NotifyOne

NotifyAll == {Waiting}

Notify(t) ==
    /\ pc[t] = "notify"
    /\ \E S \in NotifyOne :
          pc' = [u \in Threads |-> IF u \in S THEN "check"
                                   ELSE IF u = t THEN Home(t) ELSE pc[u]]
    /\ AddEnds
    /\ UNCHANGED <<store, flags, p_Job, unkicked, late>>

(***************************************************************************)
(* SIGTERM and main's way out.                                             *)
(***************************************************************************)
SigTerm ==
    /\ b_Run
    /\ b_Run' = FALSE
    /\ UNCHANGED <<store, b_Locked, b_RunPool, b_Server, pc, p_Job, history>>

Lock ==
    /\ pc[Main] = "lock"
    /\ b_Locked' = TRUE
    /\ GoTo(Main, "kick")
    /\ UNCHANGED <<store, b_Run, b_RunPool, b_Server, p_Job, history>>

Kick ==
    /\ pc[Main] = "kick"
    /\ \E S \in NotifyAll :
          pc' = [u \in Threads |-> IF u \in S THEN "check"
                                   ELSE IF u = Main THEN "stop" ELSE pc[u]]
    /\ unkicked' = {w \in Pool : pc[w] \in {"call", "get", "empty"}}
    /\ UNCHANGED <<store, flags, p_Job, missed, late>>

\* Server::Stop ends the listener.  Connections go on, and their callbacks.
StopServer ==
    /\ pc[Main] = "stop"
    /\ GoTo(Main, "join")
    /\ UNCHANGED <<store, flags, p_Job, history>>

\* ~ThreadPool.
EndPool ==
    /\ pc[Main] = "join"
    /\ b_RunPool' = FALSE
    /\ GoTo(Main, "joining")
    /\ UNCHANGED <<store, b_Locked, b_Run, b_Server, p_Job, history>>

JoinPool ==
    /\ pc[Main] = "joining"
    /\ \A w \in Pool : pc[w] = "gone"
    /\ GoTo(Main, "close")
    /\ UNCHANGED <<store, flags, p_Job, history>>

\* Mutant: ~Server does not close the registration.
NotWaitedFor == TRUE

ClientsLeft == \A c \in Callbacks : pc[c] = "idle"

\* ~Server, when the last client has left: RegistrationClose waits for it.
CloseServer ==
    /\ pc[Main] = "close" /\ ClientsLeft
    /\ b_Server' = FALSE
    /\ GoTo(Main, "gone")
    /\ UNCHANGED <<store, b_Locked, b_Run, b_RunPool, p_Job, history>>

GetJob(w) ==
    \/ CheckLocked(w) \/ StartGet(w) \/ InsideGet(w) \/ EndGet(w) \/ Wait(w)

AddJob(t) == InsideAdd(t) \/ EndAdd(t) \/ Notify(t)

Worker(w) ==
    Loop(w) \/ GetJob(w) \/ Perform(w) \/ Requeue(w) \/ AddJob(w) \/ AddFails(w)

Callback(c) == AddJob(c) \/ Abort(c)

Startup == SpawnFails \/ SpawnEnds \/ Connect \/ \E w \in Pool : Spawn(w)

Shutdown == Lock \/ Kick \/ StopServer \/ EndPool \/ JoinPool

Next ==
    \/ \E w \in Workers : Worker(w) \/ SpuriousWake(w)
    \/ \E c \in Callbacks : DataRecieved(c) \/ Callback(c)
    \/ SigTerm
    \/ Startup \/ Shutdown \/ CloseServer

Spec == Init /\ [][Next]_vars

(***************************************************************************)
(* Threads are scheduled, and a job that is performed returns.  Nothing is *)
(* assumed of data arriving, of clients leaving, of SIGTERM or of spurious *)
(* wakeups.                                                                *)
(***************************************************************************)
FairSpec ==
    /\ Spec
    /\ \A w \in Workers : WF_vars(Worker(w))
    /\ \A c \in Callbacks : WF_vars(Callback(c))
    /\ WF_vars(Startup \/ Shutdown)

(***************************************************************************)
(* Properties.                                                             *)
(***************************************************************************)
Aborted == pc[Main] = "aborted"

Adding == {t \in Threads : pc[t] \in AddPCs}

\* All workers sleep although a job is stored and nobody is adding one: this
\* happens only if some AddJob ended while a worker was between its look into
\* the list and its wait.  No other interleaving of retries, new data,
\* exceptions and spurious wakeups loses a job (JobList.cpp:56-93).
StallNeedsMiss ==
    (Waiting = Workers /\ stored # {} /\ Adding = {}) => missed

\* Once the list is locked a worker performs at most the one job it was
\* already fetching (JobList.cpp:75, Main.cpp:366).
OneJobAfterLock == \A w \in Workers : late[w] < 2

\* The jobs of the program: in the list, on the way into it or out of it, or
\* with a worker.
Present ==
    stored \union Store!Held \union
        UNION {p_Job[w] : w \in {v \in Workers : pc[v] \in {"perform", "requeue"}}}

KeepsJobs ==
    \A j \in Present :
        \/ j \in Present'
        \/ \E w \in Workers : pc[w] = "perform" /\ j \in p_Job[w] /\ pc'[w] = "loop"
        \/ \E w \in Workers : pc[w] = "adding" /\ j \in hands[w] /\ pc'[w] = "loop"
        \/ Aborted'

\* A job leaves the program only when Perform says that it is done, with a step of
\* a worker whose AddJob throws, or when the program terminates: nothing else in
\* the retries, the lock and the shutdown loses one (ThreadPool.cpp:78-89,
\* JobList.cpp:78-89, Main.cpp:342-359).
JobsKept == [][KeepsJobs]_vars

\* Main joins a thread of the pool in vain only if that thread looks for a job
\* and never gets one, and nobody kicked it: main has failed to connect its
\* own database and the list is not locked, or Lock notified while the
\* thread was between the lock test and its wait (JobList.cpp:41-45,
\* ThreadPool.cpp:53-61, Main.cpp:336, 366).
Joining(w) == pc[Main] = "joining" /\ pc[w] # "gone"

JoinWaitsForSleepers ==
    \A w \in Pool :
        <>[]Joining(w) => <>[](pc[w] \in GetPCs /\ (~b_Locked \/ w \in unkicked))

\* SIGTERM ends main's loop, if not at once then after the next job main gets:
\* else main looks for a job for ever (Main.cpp:90-92, 342-347).
SigTermEndsLoop ==
    <>[]~b_Run => <>(pc[Main] \notin LoopPCs \union AddPCs \union {"spawn", "connect"})
                  \/ <>[](pc[Main] \in GetPCs)

\* Main's phase, and whether a callback is delivering.
Phase ==
    LET l == pc[Main]
    IN  CASE l \in LoopPCs \union AddPCs      -> "loop"
          [] l \in {"lock", "kick", "stop"}   -> "stop"
          [] l \in {"join", "joining"}        -> "join"
          [] OTHER                            -> l

Phases == INSTANCE MainPhases WITH
    phase <- Phase,
    callback <- \E c \in Callbacks : pc[c] \in AddPCs

\* What this module lets main and the callbacks do beside each other is what
\* NetServer shows of the whole process: data arrives from before the pool is
\* made until ~Server has waited for the last client, after the pool was joined
\* (Main.cpp:288-391, Server.cpp:68-86).
ImplementsMainPhases == Phases!Spec

\* "This function blocks until a job is available." (JobList.h:87): once the
\* server has started, pool and main included, a stored job is taken as long as it
\* runs.
Started == pc[Main] \in LoopPCs \union AddPCs

JobsServed ==
    \A j \in Jobs : j \in stored /\ Started ~> j \notin stored \/ ~b_Run \/ Aborted
=============================================================================
