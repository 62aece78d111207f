----------------------------- MODULE NetServer -----------------------------
(***************************************************************************)
(* The whole process: main (src/src/Main.cpp) from its start to its exit,  *)
(* whatever fails, with the objects it makes and destroys around the       *)
(* connections of the server (Connections), and the command line that runs *)
(* beside it (src/src/CLI.cpp).                                            *)
(*                                                                         *)
(* What main and the pool do with jobs is in JobList; here main serves     *)
(* until SIGTERM, and the pool is joined sooner or later or not at all.    *)
(***************************************************************************)
EXTENDS Connections, Sequences

CONSTANT hardware_concurrency      \* what the system answers, 0 if it cannot tell

ASSUME ConcurrencyOK == hardware_concurrency \in Nat

VARIABLES main,        \* where main is
          alive,       \* how many of its objects main has made, in their order
          b_Daemon,    \* started with -daemon
          cli,         \* the thread of the command line
          b_RunCLI     \* CLI.cpp's b_Run

process == <<main, alive, b_Daemon, cli, b_RunCLI>>
netVars == <<vars, process>>

\* Mutant: the threads are made before the server they serve.
PoolFirst == <<"c_Config", "c_JobList", "c_ThreadPool", "c_ClientPool", "c_Server",
               "p_Database">>

Order == <<"c_Config", "c_JobList", "c_ClientPool", "c_Server", "c_ThreadPool",
           "p_Database">>

\* The objects of main that exist.
Alive == {Order[k] : k \in 1 .. alive}

NetInit ==
    /\ Init
    /\ main = "begin"
    /\ alive = 0
    /\ b_Daemon \in BOOLEAN
    /\ cli = "none"
    /\ b_RunCLI = FALSE

(***************************************************************************)
(* The way in.                                                             *)
(***************************************************************************)
\* sodium_init fails or not.
Begin ==
    /\ main = "begin"
    /\ main' \in {"make", "ended"}
    /\ UNCHANGED <<vars, alive, b_Daemon, cli, b_RunCLI>>

\* The threads of the pool: half of the machine's, and main is one of them.
ThreadCount(n) ==
    LET half == n \div 2
    IN  IF n = 0 THEN 1 ELSE IF half > 1 THEN half - 1 ELSE half

\* What main does when it has made an object.
Next1 == [c_Config |-> "mode", c_Server |-> "start", p_Database |-> "loop"]
After(o) == IF o \in DOMAIN Next1 THEN Next1[o] ELSE "make"

Makes(o) == main = "make" /\ Order[alive + 1] = o

Made(o) ==
    /\ alive' = alive + 1
    /\ main' = After(o)

Throws == main' = "unwind" /\ UNCHANGED alive

\* The file cannot be opened; or a session of the database cannot.
MakeOrThrow(o) ==
    /\ Makes(o)
    /\ Made(o) \/ Throws
    /\ UNCHANGED <<vars, b_Daemon, cli, b_RunCLI>>

MakePlain(o) ==
    /\ Makes(o)
    /\ Made(o)
    /\ UNCHANGED <<vars, b_Daemon, cli, b_RunCLI>>

\* The sessions of the pool, then its threads.  Without a thread it throws, and
\* when a thread cannot be made after others were, their std::thread objects
\* terminate the program.
MakePool ==
    /\ Makes("c_ThreadPool")
    /\ \/ ThreadCount(hardware_concurrency) > 0 /\ Made("c_ThreadPool")
       \/ ThreadCount(hardware_concurrency) > 1 /\ main' = "terminated" /\ UNCHANGED alive
       \/ Throws
    /\ UNCHANGED <<vars, b_Daemon, cli, b_RunCLI>>

MakeMainServer ==
    /\ Makes("c_Server")
    /\ MakeServer
    /\ IF server' = "made" THEN Made("c_Server") ELSE Throws
    /\ UNCHANGED <<b_Daemon, cli, b_RunCLI>>

\* The two forks of a daemon may fail and exit; what the parents do is left out.
Daemonize ==
    /\ main = "mode" /\ b_Daemon
    /\ \/ main' = "make" /\ UNCHANGED alive
       \/ main' = "ended" /\ alive' = 0
    /\ UNCHANGED <<vars, b_Daemon, cli, b_RunCLI>>

\* b_Run is set first, and stays set when the thread cannot be made.
StartCLI ==
    /\ main = "mode" /\ ~b_Daemon
    /\ b_RunCLI' = TRUE
    /\ cli' \in {"getline", "unmade"}
    /\ main' = "make"
    /\ UNCHANGED <<vars, alive, b_Daemon>>

StartServer ==
    /\ main = "start"
    /\ \/ Start /\ main' = "make"
       \/ StartFails /\ main' = "unwind"
    /\ UNCHANGED <<alive, b_Daemon, cli, b_RunCLI>>

(***************************************************************************)
(* The command line.                                                       *)
(***************************************************************************)
\* A line is read, or the input is at its end.
GetLine ==
    /\ cli = "getline"
    /\ cli' = "command"
    /\ UNCHANGED <<vars, main, alive, b_Daemon, b_RunCLI>>

UpdateCLI ==
    /\ cli = "command"
    /\ cli' = IF b_RunCLI THEN "getline" ELSE "gone"
    /\ UNCHANGED <<vars, main, alive, b_Daemon, b_RunCLI>>

(***************************************************************************)
(* The way out.                                                            *)
(***************************************************************************)
\* SIGTERM ends the loop (see SigTermEndsLoop of JobList), and the list is locked.
LoopEnds ==
    /\ main = "loop"
    /\ main' = "stop"
    /\ UNCHANGED <<vars, alive, b_Daemon, cli, b_RunCLI>>

\* Server::Stop, called by main or by the destructor of a server that is started.
StopServer ==
    /\ \/ main = "stop"
       \/ main = "unwind" /\ alive > 0 /\ Order[alive] = "c_Server"
    /\ \/ CloseListener /\ UNCHANGED main
       \/ Stop /\ main' = "unwind"
    /\ UNCHANGED <<alive, b_Daemon, cli, b_RunCLI>>

\* The destructors run in the reverse order.
Unwinds(o) ==
    /\ main = "unwind" /\ alive > 0 /\ Order[alive] = o
    /\ alive' = alive - 1
    /\ UNCHANGED <<main, b_Daemon, cli, b_RunCLI>>

DestroyPlain ==
    /\ \E o \in {"c_Config", "c_JobList", "c_ClientPool", "p_Database"} : Unwinds(o)
    /\ UNCHANGED vars

\* ~ThreadPool joins its threads.
DestroyPool == Unwinds("c_ThreadPool") /\ UNCHANGED vars

DestroyMainServer == Unwinds("c_Server") /\ DestroyServer

StopsCLI == main = "unwind" /\ alive = 0 /\ b_RunCLI

\* A thread that was never made cannot be joined: Stop is noexcept, and the
\* program terminates.
StopCLI ==
    /\ StopsCLI
    /\ b_RunCLI' = FALSE
    /\ main' = IF cli = "unmade" THEN "terminated" ELSE "join"
    /\ UNCHANGED <<vars, alive, b_Daemon, cli>>

\* Mutant: the thread of the command line is detached.
CLIDetached == TRUE

CLIJoined == cli = "gone"

Join ==
    /\ main = "join" /\ CLIJoined
    /\ main' = "ended"
    /\ UNCHANGED <<vars, alive, b_Daemon, cli, b_RunCLI>>

Return ==
    /\ main = "unwind" /\ alive = 0 /\ ~StopsCLI
    /\ main' = "ended"
    /\ UNCHANGED <<vars, alive, b_Daemon, cli, b_RunCLI>>

Construction ==
    \/ \E o \in {"c_Config", "p_Database"} : MakeOrThrow(o)
    \/ \E o \in {"c_JobList", "c_ClientPool"} : MakePlain(o)
    \/ MakeMainServer \/ MakePool

Destruction ==
    \/ StopServer \/ DestroyPlain \/ DestroyMainServer
    \/ StopCLI \/ Join \/ Return

MainThread ==
    \/ Begin \/ Daemonize \/ StartCLI \/ StartServer \/ Construction
    \/ LoopEnds \/ Destruction \/ DestroyPool

\* When main has returned or the program has terminated no thread goes on.
NetNext ==
    /\ main \notin {"ended", "terminated"}
    /\ \/ MainThread \/ GetLine \/ UpdateCLI
       \/ \E c \in Connections : Callback(c) /\ UNCHANGED process

NetSpec == NetInit /\ [][NetNext]_netVars

(***************************************************************************)
(* Threads run.  Nothing is assumed of clients that connect or leave, of   *)
(* lines on the console, of SIGTERM, or of the jobs the pool has in hand.  *)
(***************************************************************************)
NetFairSpec ==
    /\ NetSpec
    /\ WF_netVars(Destruction)
    /\ WF_netVars(UpdateCLI)
    /\ \A c \in Connections :
          WF_netVars((AddClient(c) \/ SetConfiguration(c) \/ RemoveClient(c))
                        /\ UNCHANGED process)

(***************************************************************************)
(* Properties.                                                             *)
(***************************************************************************)
\* Whatever fails on the way in and whenever main leaves, callbacks of
\* connections run only while the job list and the client pool they refer to
\* exist, and threads of the pool only while the list they take jobs from does
\* and, once there were clients whose jobs they may hold, the API these send with
\* (Main.cpp:278-330, Server.cpp:68-86).
UsedIsAlive ==
    /\ (\E c \in Connections : pc[c] \notin {"none", "rejected"}) =>
          {"c_JobList", "c_ClientPool", "c_Server"} \subseteq Alive
    /\ "c_ThreadPool" \in Alive =>
          /\ "c_JobList" \in Alive
          /\ us_MemberCount > 0 => {"api", "registration"} \subseteq handles

\* main returns with nothing left of what it began, on every path: no handle of
\* the library, no client in a callback, and no thread of the command line
\* (Main.cpp:244-391, CLI.cpp:324-359).
EndsClean ==
    main = "ended" =>
        /\ handles = {}
        /\ \A c \in Connections : pc[c] \in {"none", "rejected"}
        /\ cli \in {"none", "gone"}

\* What main is doing, told from the objects it has made.
Phase ==
    CASE main \in {"loop", "stop"}  -> main
      [] main = "terminated"       -> "aborted"
      [] main \in {"join", "ended"} -> "gone"
      [] main = "unwind" -> IF "c_ThreadPool" \in Alive THEN "join"
                            ELSE IF "c_Server" \in Alive THEN "close" ELSE "gone"
      [] main = "make"   -> IF "c_ThreadPool" \in Alive THEN "connect"
                            ELSE IF "c_Server" \in Alive THEN "spawn" ELSE "begin"
      [] OTHER           -> "begin"

Phases == INSTANCE MainPhases WITH
    phase <- Phase,
    callback <- \E c \in Connections : pc[c] \notin {"none", "rejected"}

\* Main takes the steps, and connections are there in the phases, that JobList
\* relies on: none before the server is started, none once its destructor has
\* returned, and these phases in this order on every path, exceptions of the pool
\* and of the database included (Main.cpp:271-391, Server.cpp:68-86).
ImplementsMainPhases == Phases!Spec

\* Once main leaves it gets to its end, unless a thread of the pool is not to be
\* joined (see JoinWaitsForSleepers of JobList), a client stays connected, or
\* the console gives no line: nothing else main waits for fails to come, no
\* mutex of the pool included (Main.cpp:361-391, Server.cpp:68-86, 242-256,
\* ClientPool.cpp:57-109, 167-178, CLI.cpp:350-359).
EndsUnlessHeld ==
    <>[](main \in {"stop", "unwind", "join"}) =>
        \/ <>[](main = "unwind" /\ alive > 0 /\ Order[alive] = "c_ThreadPool")
        \/ \E c \in Connections : <>[](pc[c] = "live")
        \/ <>[](cli = "getline")
=============================================================================
