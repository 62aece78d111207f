----------------------------- MODULE MainPhases -----------------------------
(***************************************************************************)
(* The phases of main (src/src/Main.cpp) that JobList and NetServer share, *)
(* and when a callback of a connection may run beside them.  JobList has   *)
(* the threads of the pool and takes the connections for callbacks that    *)
(* deliver data; NetServer has the connections and takes the pool for one  *)
(* object.  Both are shown to implement this specification, so the data    *)
(* that JobList lets arrive in a phase, and what main waits for in it, are *)
(* those of the whole process, and the other way round.                    *)
(***************************************************************************)

VARIABLES phase,       \* what main is doing
          callback     \* a connection is there whose callbacks may run

phaseVars == <<phase, callback>>

(***************************************************************************)
(* From the start of the server to the return of its destructor: the pool  *)
(* is made, main connects to the database, runs its loop, stops the        *)
(* listener, joins the pool, and closes the server.                        *)
(***************************************************************************)
Serving == {"spawn", "connect", "loop", "stop", "join", "close"}

\* A specification without main's way in begins with the pool.
Init == phase \in {"begin", "spawn"} /\ callback = FALSE

Goes(from, to) ==
    /\ phase = from
    /\ phase' \in to
    /\ UNCHANGED callback

\* The server runs, failed to start, or was never made.
Start == Goes("begin", {"spawn", "close", "gone"})

\* Without a thread in it the pool's constructor throws.
MakePool == Goes("spawn", {"connect", "close"})

Connect == Goes("connect", {"loop", "join"})

LoopEnds == Goes("loop", {"stop"})

StopServer == Goes("stop", {"join"})

JoinPool == Goes("join", {"close"})

\* RegistrationClose waits for the connections.
CloseServer == ~callback /\ Goes("close", {"gone"})

CallbacksRun ==
    /\ phase \in Serving
    /\ callback' \in BOOLEAN
    /\ UNCHANGED phase

\* std::terminate, in any thread.
Terminate ==
    /\ phase # "aborted"
    /\ phase' = "aborted"
    /\ callback' \in BOOLEAN

Next ==
    \/ Start \/ MakePool \/ Connect \/ LoopEnds
    \/ StopServer \/ JoinPool \/ CloseServer
    \/ CallbacksRun \/ Terminate

Spec == Init /\ [][Next]_phaseVars
=============================================================================
