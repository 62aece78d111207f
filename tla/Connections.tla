---------------------------- MODULE Connections ----------------------------
(***************************************************************************)
(* The life of the connections of the server: ListenerCallback and         *)
(* ConnectionCallback (src/src/Server/MsQuic/MsQuic.cpp), ClientPool       *)
(* (src/src/Server/ClientPool.cpp) and the server that main makes, starts, *)
(* stops and destroys (src/src/Server/Server.cpp, src/src/Main.cpp).       *)
(*                                                                         *)
(* MsQuic runs the callbacks of one connection one after the other and     *)
(* those of different connections in parallel, also the one that announces *)
(* a new connection.  A connection it was told to refuse gets no further   *)
(* callback.  ListenerClose waits for the callbacks of the listener, and   *)
(* RegistrationClose for the end of every connection.  A client in the     *)
(* pool is named by its connection.  That a scan may index the deque while *)
(* it grows is a property of SharedList (NoWildIndex), whose code this     *)
(* pool repeats, and is left out here.                                     *)
(***************************************************************************)
EXTENDS Integers, FiniteSets

CONSTANTS Connections,
          NULL,
          i_ClientConnectionsMax,
          Parallel,      \* listener callbacks MsQuic runs at a time
          MaxMembers     \* bound: beyond it emplace_back can only throw

ASSUME LimitsOK ==
    /\ NULL \notin Connections
    /\ i_ClientConnectionsMax \in Nat \ {0}    \* Server.cpp:102
    /\ Parallel \in Nat \ {0}
    /\ MaxMembers \in Nat
    /\ IsFiniteSet(Connections)

VARIABLES i_ClientConnections,
          p_Client,        \* p_Client[n]: the client in member n of the pool
          owner,           \* owner[n]: the holder of the member's mutex
          us_MemberCount,
          c_Mutex,         \* the holder of the pool's own mutex
          pc,              \* where the callback of a connection is
          i,               \* index of its scan
          us_ClientID,     \* in its ConnectionContext
          server,          \* how far main is with its Server
          handles,         \* what the Server has opened and not closed yet
          misused          \* history: the deleted ListenerContext was used

pool == <<p_Client, owner, us_MemberCount, c_Mutex>>
vars == <<i_ClientConnections, pool, pc, i, us_ClientID, server, handles, misused>>

life == <<server, handles, misused>>

Slots == 0 .. MaxMembers - 1

\* Inside ListenerCallback.
Accepting == {"scan", "inspect", "create", "grow", "emplace", "count", "configure"}

\* From the end of AddClient to the end of RemoveClient.  A connection that is
\* refused in between is "rejected" for good: RemoveClient is not called for it.
Owning == {"configure", "live", "remove"}

TypeOK ==
    /\ i_ClientConnections \in 0 .. Cardinality(Connections)
    /\ p_Client \in [Slots -> Connections \union {NULL}]
    /\ owner \in [Slots -> Connections \union {NULL}]
    /\ us_MemberCount \in 0 .. MaxMembers
    /\ c_Mutex \in Connections \union {NULL}
    /\ pc \in [Connections -> Accepting \union Owning \union {"none", "rejected"}]
    /\ i \in [Connections -> 0 .. us_MemberCount]
    /\ us_ClientID \in [Connections -> Slots \union {NULL}]
    /\ server \in {"none", "made", "started", "closing", "stopped", "gone"}
    /\ handles \subseteq {"api", "registration", "configuration", "context", "listener"}
    /\ misused \in BOOLEAN

Init ==
    /\ i_ClientConnections = 0
    /\ p_Client = [n \in Slots |-> NULL]
    /\ owner = [n \in Slots |-> NULL]
    /\ us_MemberCount = 0
    /\ c_Mutex = NULL
    /\ pc = [c \in Connections |-> "none"]
    /\ i = [c \in Connections |-> 0]
    /\ us_ClientID = [c \in Connections |-> NULL]
    /\ server = "none"
    /\ handles = {}
    /\ misused = FALSE

GoTo(c, l) == pc' = [pc EXCEPT ![c] = l]

(***************************************************************************)
(* ListenerCallback.                                                       *)
(***************************************************************************)
\* Mutant: the limit is refused only once it is exceeded.
LimitPassed == i_ClientConnectionsMax < i_ClientConnections

LimitReached == i_ClientConnectionsMax <= i_ClientConnections

NewConnection(c) ==
    /\ pc[c] = "none" /\ server = "started"
    /\ Cardinality({d \in Connections : pc[d] \in Accepting}) < Parallel
    /\ ~LimitReached      \* else refused, and nothing changes
    /\ i' = [i EXCEPT ![c] = 0]
    /\ GoTo(c, "scan")
    /\ UNCHANGED <<i_ClientConnections, pool, us_ClientID, life>>

InRange(c) == i[c] < us_MemberCount

\* Mutant: the result of try_lock is ignored.
LockIgnored(c) == TRUE

Lockable(c) == owner[i[c]] = NULL

TryLock(c) ==
    /\ pc[c] = "scan" /\ InRange(c) /\ Lockable(c)
    /\ owner' = [owner EXCEPT ![i[c]] = c]
    /\ GoTo(c, "inspect")
    /\ UNCHANGED <<i_ClientConnections, p_Client, us_MemberCount, c_Mutex, i,
                   us_ClientID, life>>

SkipLocked(c) ==
    /\ pc[c] = "scan" /\ InRange(c) /\ ~Lockable(c)
    /\ i' = [i EXCEPT ![c] = @ + 1]
    /\ UNCHANGED <<i_ClientConnections, pool, pc, us_ClientID, life>>

ScanEnd(c) ==
    /\ pc[c] = "scan" /\ ~InRange(c)
    /\ GoTo(c, "grow")
    /\ UNCHANGED <<i_ClientConnections, pool, i, us_ClientID, life>>

MemberFree(c) == p_Client[i[c]] = NULL

TakeFree(c) ==
    /\ pc[c] = "inspect" /\ MemberFree(c)
    /\ GoTo(c, "create")
    /\ UNCHANGED <<i_ClientConnections, pool, i, us_ClientID, life>>

\* Mutant: the branch that reuses a member forgets to unlock it.
KeptByReuse(c) == IF pc[c] = "create" THEN owner ELSE [owner EXCEPT ![i[c]] = NULL]

Unlocked(c) == [owner EXCEPT ![i[c]] = NULL]

Reuse(c) ==
    /\ pc[c] = "create"
    /\ p_Client' = [p_Client EXCEPT ![i[c]] = c]
    /\ owner' = Unlocked(c)
    /\ us_ClientID' = [us_ClientID EXCEPT ![c] = i[c]]
    /\ GoTo(c, "configure")
    /\ UNCHANGED <<i_ClientConnections, us_MemberCount, c_Mutex, i, life>>

\* The member is taken, or make_shared finds no memory for a client.
PassOver(c) ==
    /\ \/ pc[c] = "inspect" /\ ~MemberFree(c)
       \/ pc[c] = "create"
    /\ owner' = Unlocked(c)
    /\ i' = [i EXCEPT ![c] = @ + 1]
    /\ GoTo(c, "scan")
    /\ UNCHANGED <<i_ClientConnections, p_Client, us_MemberCount, c_Mutex,
                   us_ClientID, life>>

Grow(c) ==
    /\ pc[c] = "grow" /\ c_Mutex = NULL
    /\ c_Mutex' = c
    /\ GoTo(c, "emplace")
    /\ UNCHANGED <<i_ClientConnections, p_Client, owner, us_MemberCount, i,
                   us_ClientID, life>>

Emplace(c) ==
    /\ pc[c] = "emplace" /\ us_MemberCount < MaxMembers
    /\ p_Client' = [p_Client EXCEPT ![us_MemberCount] = c]
    /\ us_ClientID' = [us_ClientID EXCEPT ![c] = us_MemberCount]
    /\ GoTo(c, "count")
    /\ UNCHANGED <<i_ClientConnections, owner, us_MemberCount, c_Mutex, i,
                   life>>

\* emplace_back throws: AddClient and ConnectionContext throw, and the
\* connection is refused.
EmplaceThrows(c) ==
    /\ pc[c] = "emplace"
    /\ c_Mutex' = NULL
    /\ GoTo(c, "none")
    /\ UNCHANGED <<i_ClientConnections, p_Client, owner, us_MemberCount, i,
                   us_ClientID, life>>

\* us_MemberCount += 1, and the id is read back before the guard releases.
CountMember(c) ==
    /\ pc[c] = "count"
    /\ us_MemberCount' = us_MemberCount + 1
    /\ c_Mutex' = NULL
    /\ GoTo(c, "configure")
    /\ UNCHANGED <<i_ClientConnections, p_Client, owner, i, us_ClientID, life>>

\* ConnectionSetConfiguration succeeds or not; the connection is counted either
\* way, and only the returned status differs.
SetConfiguration(c) ==
    /\ pc[c] = "configure"
    /\ i_ClientConnections' = i_ClientConnections + 1
    /\ \E l \in {"live", "rejected"} : GoTo(c, l)
    /\ UNCHANGED <<pool, i, us_ClientID, life>>

(***************************************************************************)
(* ConnectionCallback, SHUTDOWN_COMPLETE.                                  *)
(***************************************************************************)
\* Mutant: the end of a connection is not counted.
NotCountedDown == i_ClientConnections

CountedDown == i_ClientConnections - 1

\* c_Connections is a reference into the ListenerContext.
ShutdownComplete(c) ==
    /\ pc[c] = "live"
    /\ i_ClientConnections' = CountedDown
    /\ misused' = (misused \/ "context" \notin handles)
    /\ GoTo(c, "remove")
    /\ UNCHANGED <<pool, i, us_ClientID, server, handles>>

\* Mutant: the comparison of RemoveClient the wrong way round.
IdRefused(id) == id < us_MemberCount

IdTooLarge(id) == id > us_MemberCount

\* RemoveClient and the end of the ConnectionContext.
RemoveClient(c) ==
    /\ pc[c] = "remove"
    /\ IF IdTooLarge(us_ClientID[c])
       THEN UNCHANGED p_Client
       ELSE /\ owner[us_ClientID[c]] = NULL
            /\ p_Client' = [p_Client EXCEPT ![us_ClientID[c]] = NULL]
    /\ us_ClientID' = [us_ClientID EXCEPT ![c] = NULL]
    /\ GoTo(c, "none")
    /\ UNCHANGED <<i_ClientConnections, owner, us_MemberCount, c_Mutex, i, life>>

(***************************************************************************)
(* The Server of main.                                                     *)
(***************************************************************************)
connections == <<i_ClientConnections, pool, pc, i, us_ClientID>>

\* The constructor opens both or throws, and then main ends.
MakeServer ==
    /\ server = "none"
    /\ \/ server' = "made" /\ handles' = {"api", "registration"}
       \/ server' = "gone" /\ handles' = {}
    /\ UNCHANGED <<connections, misused>>

\* What Start has opened when one of its calls fails.
Opened == [ConfigurationOpen           |-> {},
           ConfigurationLoadCredential |-> {"configuration"},
           ListenerContext             |-> {"configuration"},
           ListenerOpen                |-> {"configuration", "context"},
           ListenerStart               |-> {"configuration", "context", "listener"}]

\* What the branch of that failure closes.
Undone == [ConfigurationOpen           |-> {},
           ConfigurationLoadCredential |-> {"configuration"},
           ListenerContext             |-> {"configuration"},
           ListenerOpen                |-> {"context", "configuration"},
           ListenerStart               |-> {"context", "listener", "configuration"}]

\* Mutant: the last branch leaves the configuration to the destructor.
NotUndone(call) == Undone[call] \ (IF call = "ListenerStart" THEN {"configuration"} ELSE {})

UndoneBy(call) == Undone[call]

\* Start throws; the Server is destroyed next.
StartFails ==
    /\ server = "made"
    /\ \E call \in DOMAIN Opened :
          handles' = (handles \union Opened[call]) \ UndoneBy(call)
    /\ server' = "stopped"
    /\ UNCHANGED <<connections, misused>>

Start ==
    /\ server = "made"
    /\ handles' = handles \union {"configuration", "context", "listener"}
    /\ server' = "started"
    /\ UNCHANGED <<connections, misused>>

\* At the end of main, or by the destructor when main fails after Start.
\* ListenerClose lets no further callback of the listener begin,
CloseListener ==
    /\ server = "started"
    /\ server' = "closing"
    /\ UNCHANGED <<connections, handles, misused>>

\* and returns after those that run.
Stop ==
    /\ server = "closing"
    /\ \A c \in Connections : pc[c] \notin Accepting
    /\ handles' = handles \ {"listener", "configuration", "context"}
    /\ server' = "stopped"
    /\ UNCHANGED <<connections, misused>>

\* Mutant: the library is closed without the registration, which is what waits.
NotAwaited == TRUE

ConnectionsEnded == \A c \in Connections : pc[c] \in {"none", "rejected"}

DestroyServer ==
    /\ server = "stopped"
    /\ ConnectionsEnded
    /\ handles' = handles \ {"registration", "api"}
    /\ server' = "gone"
    /\ UNCHANGED <<connections, misused>>

Main == MakeServer \/ Start \/ StartFails \/ CloseListener \/ Stop \/ DestroyServer

AddClient(c) ==
    \/ TryLock(c) \/ SkipLocked(c) \/ ScanEnd(c)
    \/ TakeFree(c) \/ Reuse(c) \/ PassOver(c)
    \/ Grow(c) \/ Emplace(c) \/ EmplaceThrows(c) \/ CountMember(c)

Callback(c) ==
    NewConnection(c) \/ AddClient(c) \/ SetConfiguration(c)
        \/ ShutdownComplete(c) \/ RemoveClient(c)

Next == Main \/ \E c \in Connections : Callback(c)

Spec == Init /\ [][Next]_vars

(***************************************************************************)
(* Properties.                                                             *)
(***************************************************************************)

\* A connection's id leads to its own client from AddClient to RemoveClient,
\* however listener callbacks, shutdowns and the reuse of members overlap: no
\* two connections share a member, so what a connection receives
\* (ClientPool::DataRecieved) reaches the client of this connection.
OwnClient ==
    \A c \in Connections :
        pc[c] \in Owning => us_ClientID[c] \in Slots /\ p_Client[us_ClientID[c]] = c

\* Refused after AddClient, by a failure of ConnectionSetConfiguration.
Refused == {c \in Connections : pc[c] = "rejected"}

\* The members whose client has no connection that will ever remove it.
LeftBehind ==
    {n \in Slots : p_Client[n] # NULL /\ pc[p_Client[n]] \notin Owning \union {"count"}}

\* A client is in the member its connection has the id of, and leaves with its
\* connection.  But nothing removes the client of a connection that was refused
\* because its configuration failed: it keeps its member for good.  What stays is
\* exactly one client for each of these, whatever order the callbacks come in
\* (MsQuic.cpp:54-87, 123, ClientPool.cpp:57-109, 167-178).
OnlyRefusedStay ==
    /\ \A n \in Slots : p_Client[n] # NULL => us_ClientID[p_Client[n]] = n
    /\ LeftBehind = {us_ClientID[c] : c \in Refused}

\* The limit is tested before it is counted, so parallel listener callbacks can
\* pass it together; but the excess is one less than they are
\* (MsQuic.cpp:45, 67).
OvershootBounded == i_ClientConnections < i_ClientConnectionsMax + Parallel

\* The limit is tested against the connections that run, and those whose
\* configuration failed: these were refused after they were counted, nothing
\* counts them down, and each takes a place for good (MsQuic.cpp:45, 63-87, 117).
Counted == {c \in Connections : pc[c] = "live"} \union Refused

CounterExact == i_ClientConnections = Cardinality(Counted)

\* When the Server is gone everything it opened is closed, whichever of its calls
\* failed and whenever main left (Server.cpp:59, 68-86, 171-229, 242-256).
NothingLeftOpen == server = "gone" => handles = {}

\* "the context object will never be used in callbacks after stopping!"
\* (Server.cpp:203).
ContextUnusedAfterStop == ~misused
=============================================================================
