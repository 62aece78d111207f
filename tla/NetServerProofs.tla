-------------------------- MODULE NetServerProofs --------------------------
(***************************************************************************)
(* Proofs about Connections and NetServer, for any connections, limits and *)
(* sizes of the pool.  First the members of the pool and who may touch     *)
(* them, then the counter of the connections, then what the Server has     *)
(* open, and last the process around them.                                 *)
(***************************************************************************)
EXTENDS NetServer, FiniteSetTheorems, TLAPS

(***************************************************************************)
(* The members of the pool.                                                *)
(***************************************************************************)
PoolTypeOK ==
    /\ p_Client \in [Slots -> Connections \union {NULL}]
    /\ owner \in [Slots -> Connections \union {NULL}]
    /\ us_MemberCount \in 0 .. MaxMembers
    /\ c_Mutex \in Connections \union {NULL}
    /\ pc \in [Connections -> Accepting \union Owning \union {"none", "rejected"}]
    /\ i \in [Connections -> 0 .. us_MemberCount]
    /\ us_ClientID \in [Connections -> Slots \union {NULL}]

\* A scan holds the mutex of the member it looks at, which exists, and makes a
\* client only for an empty one.
Inspects ==
    \A c \in Connections : pc[c] \in {"inspect", "create"} =>
        /\ i[c] < us_MemberCount
        /\ owner[i[c]] = c
        /\ pc[c] = "create" => p_Client[i[c]] = NULL

\* The pool grows for one connection at a time.
Grows ==
    \A c \in Connections : pc[c] \in {"emplace", "count"} => c_Mutex = c

\* The member that is made and not counted yet.
Counts ==
    \A c \in Connections : pc[c] = "count" =>
        /\ us_ClientID[c] = us_MemberCount
        /\ us_MemberCount < MaxMembers
        /\ p_Client[us_MemberCount] = c

\* Behind the counted members there is no other client.
Beyond ==
    \A n \in Slots : p_Client[n] # NULL /\ us_MemberCount <= n =>
        n = us_MemberCount /\ pc[p_Client[n]] = "count"

\* The id of a connection is that of a counted member, its own, also when the
\* connection is refused after that.
OwnMember ==
    \A c \in Connections : pc[c] \in Owning \union {"rejected"} =>
        /\ us_ClientID[c] \in Slots
        /\ us_ClientID[c] < us_MemberCount
        /\ p_Client[us_ClientID[c]] = c

\* A member holds the client of the connection that has its id.
Placed ==
    \A n \in Slots : p_Client[n] # NULL =>
        /\ pc[p_Client[n]] \in Owning \union {"rejected", "count"}
        /\ us_ClientID[p_Client[n]] = n

PoolInv ==
    PoolTypeOK /\ Inspects /\ Grows /\ Counts /\ Beyond /\ OwnMember /\ Placed

LEMMA InitPool == Init => PoolInv
BY LimitsOK DEF Init, PoolInv, PoolTypeOK, Inspects, Grows, Counts, Beyond, OwnMember,
   Placed, Accepting, Owning, Slots

\* The steps that touch no member.
LEMMA ScanStep ==
  ASSUME PoolInv, NEW c \in Connections,
         NewConnection(c) \/ SkipLocked(c) \/ ScanEnd(c) \/ TakeFree(c)
            \/ SetConfiguration(c) \/ ShutdownComplete(c)
  PROVE  PoolInv'
  <1> USE LimitsOK DEF PoolInv, PoolTypeOK, Inspects, Grows, Counts, Beyond, OwnMember,
          Placed, Accepting, Owning, Slots, GoTo, pool
  <1>1. CASE NewConnection(c)
    BY <1>1 DEF NewConnection
  <1>2. CASE SkipLocked(c)
    BY <1>2 DEF SkipLocked, InRange
  <1>3. CASE ScanEnd(c)
    BY <1>3 DEF ScanEnd
  <1>4. CASE TakeFree(c)
    BY <1>4 DEF TakeFree, MemberFree
  <1>5. CASE SetConfiguration(c)
    BY <1>5 DEF SetConfiguration
  <1>6. CASE ShutdownComplete(c)
    BY <1>6 DEF ShutdownComplete
  <1> QED
    BY <1>1, <1>2, <1>3, <1>4, <1>5, <1>6

\* The mutex of a member is taken, and given back.
LEMMA MemberStep ==
  ASSUME PoolInv, NEW c \in Connections, TryLock(c) \/ PassOver(c)
  PROVE  PoolInv'
  <1> USE LimitsOK DEF PoolInv, PoolTypeOK, Inspects, Grows, Counts, Beyond, OwnMember,
          Placed, Accepting, Owning, Slots, GoTo
  <1>1. CASE TryLock(c)
    BY <1>1 DEF TryLock, InRange, Lockable
  <1>2. CASE PassOver(c)
    BY <1>2 DEF PassOver, Unlocked
  <1> QED
    BY <1>1, <1>2

\* An empty member is used again.
LEMMA ReuseStep ==
  ASSUME PoolInv, NEW c \in Connections, Reuse(c)
  PROVE  PoolInv'
BY LimitsOK DEF PoolInv, PoolTypeOK, Inspects, Grows, Counts, Beyond, OwnMember,
   Placed, Accepting, Owning, Slots, GoTo, Reuse, Unlocked, life

\* The pool grows by a member.
LEMMA GrowStep ==
  ASSUME PoolInv, NEW c \in Connections,
         Grow(c) \/ Emplace(c) \/ EmplaceThrows(c) \/ CountMember(c)
  PROVE  PoolInv'
  <1> USE LimitsOK DEF PoolInv, PoolTypeOK, Inspects, Grows, Counts, Beyond, OwnMember,
          Placed, Accepting, Owning, Slots, GoTo
  <1>1. CASE Grow(c)
    BY <1>1 DEF Grow
  <1>2. CASE Emplace(c)
    BY <1>2 DEF Emplace
  <1>3. CASE EmplaceThrows(c)
    BY <1>3 DEF EmplaceThrows
  <1>4. CASE CountMember(c)
    BY <1>4 DEF CountMember
  <1> QED
    BY <1>1, <1>2, <1>3, <1>4

\* The client of a connection leaves its member.
LEMMA RemoveStep ==
  ASSUME PoolInv, NEW c \in Connections, RemoveClient(c)
  PROVE  PoolInv'
  <1> USE LimitsOK DEF PoolInv, RemoveClient, GoTo, Owning
  <1> DEFINE n == us_ClientID[c]
  <1>1. n \in Slots /\ n < us_MemberCount /\ p_Client[n] = c /\ pc[c] = "remove"
    BY DEF OwnMember
  <1>2. ~IdTooLarge(n)
    BY <1>1 DEF IdTooLarge, Slots, PoolTypeOK
  <1>3. p_Client' = [p_Client EXCEPT ![n] = NULL] /\ owner[n] = NULL
    BY <1>2
  <1>4. PoolTypeOK'
    BY <1>1, <1>3 DEF PoolTypeOK
  <1>5. Inspects' /\ Grows'
    BY <1>1, <1>3 DEF PoolTypeOK, Inspects, Grows, Slots
  <1>6. Counts' /\ Beyond'
    BY <1>1, <1>3 DEF PoolTypeOK, Counts, Beyond, Slots
  <1>7. OwnMember' /\ Placed'
    BY <1>1, <1>3 DEF PoolTypeOK, OwnMember, Placed, Slots
  <1> QED
    BY <1>4, <1>5, <1>6, <1>7

LEMMA PoolKept ==
  ASSUME PoolInv, UNCHANGED <<pool, pc, i, us_ClientID>>
  PROVE  PoolInv'
BY DEF PoolInv, PoolTypeOK, Inspects, Grows, Counts, Beyond, OwnMember, Placed, pool

LEMMA NextPool == PoolInv /\ [Next]_vars => PoolInv'
  <1> SUFFICES ASSUME PoolInv, [Next]_vars PROVE PoolInv'
    OBVIOUS
  <1>1. CASE Main
    BY <1>1, PoolKept DEF Main, MakeServer, Start, StartFails, CloseListener, Stop,
                          DestroyServer, connections
  <1>2. ASSUME NEW c \in Connections, Callback(c) PROVE PoolInv'
    BY <1>2, ScanStep, MemberStep, ReuseStep, GrowStep, RemoveStep DEF Callback, AddClient
  <1>3. CASE UNCHANGED vars
    BY <1>3, PoolKept DEF vars
  <1> QED
    BY <1>1, <1>2, <1>3 DEF Next

(***************************************************************************)
(* The counter of the connections.                                         *)
(***************************************************************************)
Listening == {d \in Connections : pc[d] \in Accepting}

PCs == Accepting \union Owning \union {"none", "rejected"}

\* The callbacks that may still count a connection leave room below the limit
\* that parallel ones can pass.
RoomLeft ==
    i_ClientConnections + Cardinality(Listening) < i_ClientConnectionsMax + Parallel

CountInv == pc \in [Connections -> PCs] /\ CounterExact /\ RoomLeft

\* A connection that moves on changes the two sets by itself.
LEMMA Moves ==
  ASSUME pc \in [Connections -> PCs], NEW c \in Connections, NEW l \in PCs, GoTo(c, l)
  PROVE  /\ pc' \in [Connections -> PCs]
         /\ Counted' = IF l \in {"live", "rejected"} THEN Counted \union {c}
                                                     ELSE Counted \ {c}
         /\ Listening' = IF l \in Accepting THEN Listening \union {c} ELSE Listening \ {c}
         /\ pc' = pc => Counted' = Counted /\ Listening' = Listening
BY DEF GoTo, Counted, Refused, Listening

\* The sizes of the two sets follow.
LEMMA Sizes ==
  ASSUME pc \in [Connections -> PCs], NEW c \in Connections, NEW l \in PCs, GoTo(c, l)
  PROVE  /\ Cardinality(Counted) \in Nat /\ Cardinality(Listening) \in Nat
         /\ Cardinality(Counted') = Cardinality(Counted)
               + (IF l \in {"live", "rejected"} THEN 1 ELSE 0)
               - (IF pc[c] \in {"live", "rejected"} THEN 1 ELSE 0)
         /\ Cardinality(Listening') = Cardinality(Listening)
               + (IF l \in Accepting THEN 1 ELSE 0) - (IF pc[c] \in Accepting THEN 1 ELSE 0)
  <1>1. IsFiniteSet(Counted) /\ IsFiniteSet(Listening)
    BY LimitsOK, FS_Subset DEF Counted, Refused, Listening
  <1>2. Cardinality(Counted) \in Nat /\ Cardinality(Listening) \in Nat
    BY <1>1, FS_CardinalityType
  <1>3. (c \in Counted <=> pc[c] \in {"live", "rejected"}) /\ (c \in Listening <=> pc[c] \in Accepting)
    BY DEF Counted, Refused, Listening
  <1>4. Cardinality(Counted \union {c})
          = IF c \in Counted THEN Cardinality(Counted) ELSE Cardinality(Counted) + 1
    BY <1>1, FS_AddElement
  <1>5. Cardinality(Counted \ {c})
          = IF c \in Counted THEN Cardinality(Counted) - 1 ELSE Cardinality(Counted)
    BY <1>1, FS_RemoveElement
  <1>6. Cardinality(Listening \union {c})
          = IF c \in Listening THEN Cardinality(Listening) ELSE Cardinality(Listening) + 1
    BY <1>1, FS_AddElement
  <1>7. Cardinality(Listening \ {c})
          = IF c \in Listening THEN Cardinality(Listening) - 1 ELSE Cardinality(Listening)
    BY <1>1, FS_RemoveElement
  <1>8. Counted' = IF l \in {"live", "rejected"} THEN Counted \union {c} ELSE Counted \ {c}
    BY Moves
  <1>9. Listening' = IF l \in Accepting THEN Listening \union {c} ELSE Listening \ {c}
    BY Moves
  <1>10. Cardinality(Counted') = Cardinality(Counted)
               + (IF l \in {"live", "rejected"} THEN 1 ELSE 0)
               - (IF pc[c] \in {"live", "rejected"} THEN 1 ELSE 0)
    BY <1>2, <1>3, <1>4, <1>5, <1>8
  <1>11. Cardinality(Listening') = Cardinality(Listening)
               + (IF l \in Accepting THEN 1 ELSE 0) - (IF pc[c] \in Accepting THEN 1 ELSE 0)
    BY <1>2, <1>3, <1>6, <1>7, <1>9
  <1> QED
    BY <1>2, <1>10, <1>11

LEMMA InitCount == Init => CountInv
  <1> SUFFICES ASSUME Init PROVE CountInv
    OBVIOUS
  <1>1. Counted = {} /\ Listening = {}
    BY DEF Init, Counted, Refused, Listening, Accepting
  <1> QED
    BY <1>1, FS_EmptySet, LimitsOK DEF Init, CountInv, CounterExact, RoomLeft, PCs

\* A new connection is let in below the limit, with room for the callbacks that
\* were let in beside it.
LEMMA NewStep ==
  ASSUME CountInv, NEW c \in Connections, NewConnection(c)
  PROVE  CountInv'
  <1>1. GoTo(c, "scan") /\ pc[c] = "none" /\ "scan" \in Accepting /\ "none" \notin Accepting
    BY DEF NewConnection, Accepting
  <1>2. /\ Cardinality(Listening) \in Nat
        /\ Cardinality(Counted') = Cardinality(Counted)
        /\ Cardinality(Listening') = Cardinality(Listening) + 1
    BY <1>1, Sizes DEF CountInv, PCs
  <1>3. i_ClientConnections \in Nat
    BY <1>1, Sizes DEF CountInv, CounterExact, PCs
  <1>4. /\ Cardinality(Listening) < Parallel
        /\ i_ClientConnections < i_ClientConnectionsMax
        /\ i_ClientConnections' = i_ClientConnections
    BY <1>3, LimitsOK DEF NewConnection, LimitReached, Listening
  <1>5. pc' \in [Connections -> PCs]
    BY <1>1, Moves DEF CountInv, PCs
  <1>6. RoomLeft'
    BY <1>2, <1>4, <1>3, LimitsOK DEF RoomLeft
  <1> QED
    BY <1>2, <1>4, <1>5, <1>6 DEF CountInv, CounterExact

\* A callback that stays inside the listener, or leaves it without counting.
LEMMA AddClientStep ==
  ASSUME CountInv, NEW c \in Connections, AddClient(c) \/ RemoveClient(c)
  PROVE  CountInv'
  <1>1. PICK l \in PCs : GoTo(c, l) /\ l \notin {"live", "rejected"}
                            /\ (l \in Accepting => pc[c] \in Accepting)
    <2>1. CASE RemoveClient(c)
      BY <2>1 DEF RemoveClient, PCs, Accepting
    <2>2. CASE SkipLocked(c)
      <3>1. GoTo(c, "scan")
        BY <2>2 DEF SkipLocked, GoTo, CountInv
      <3> QED
        BY <2>2, <3>1 DEF SkipLocked, PCs, Accepting
    <2>3. CASE TryLock(c) \/ ScanEnd(c) \/ TakeFree(c) \/ PassOver(c)
      BY <2>3 DEF TryLock, ScanEnd, TakeFree, PassOver, PCs, Accepting
    <2>4. CASE Reuse(c) \/ Grow(c) \/ Emplace(c) \/ EmplaceThrows(c) \/ CountMember(c)
      BY <2>4 DEF Reuse, Grow, Emplace, EmplaceThrows, CountMember, PCs, Accepting
    <2> QED
      BY <2>1, <2>2, <2>3, <2>4 DEF AddClient
  <1>2. /\ i_ClientConnections' = i_ClientConnections
        /\ pc[c] \notin {"live", "rejected"}
    BY DEF AddClient, TryLock, SkipLocked, ScanEnd, TakeFree, Reuse, PassOver, Grow, Emplace,
           EmplaceThrows, CountMember, RemoveClient
  <1>3. /\ Cardinality(Listening) \in Nat /\ Cardinality(Counted) \in Nat
        /\ Cardinality(Counted') = Cardinality(Counted)
        /\ Cardinality(Listening') <= Cardinality(Listening)
        /\ Cardinality(Listening') \in Int
    BY <1>1, <1>2, Sizes DEF CountInv
  <1>4. pc' \in [Connections -> PCs]
    BY <1>1, Moves DEF CountInv
  <1>5. RoomLeft'
    BY <1>2, <1>3, LimitsOK DEF RoomLeft, CountInv, CounterExact
  <1> QED
    BY <1>2, <1>3, <1>4, <1>5 DEF CountInv, CounterExact

\* A connection is counted when its callback leaves the listener.
LEMMA SetConfigurationStep ==
  ASSUME CountInv, NEW c \in Connections, SetConfiguration(c)
  PROVE  CountInv'
  <1>1. PICK l \in {"live", "rejected"} : GoTo(c, l)
    BY DEF SetConfiguration
  <1>2. l \in PCs /\ l \notin Accepting /\ pc[c] = "configure" /\ "configure" \in Accepting
    BY <1>1 DEF SetConfiguration, PCs, Accepting, Owning
  <1>3. /\ Cardinality(Listening) \in Nat /\ Cardinality(Counted) \in Nat
        /\ Cardinality(Counted') = Cardinality(Counted) + 1
        /\ Cardinality(Listening') = Cardinality(Listening) - 1
    BY <1>1, <1>2, Sizes DEF CountInv
  <1>4. i_ClientConnections' = i_ClientConnections + 1
    BY DEF SetConfiguration
  <1>5. pc' \in [Connections -> PCs]
    BY <1>1, <1>2, Moves DEF CountInv
  <1>6. RoomLeft'
    BY <1>3, <1>4, LimitsOK DEF RoomLeft, CountInv, CounterExact
  <1> QED
    BY <1>3, <1>4, <1>5, <1>6 DEF CountInv, CounterExact

\* The end of a connection counts it down.
LEMMA ShutdownStep ==
  ASSUME CountInv, NEW c \in Connections, ShutdownComplete(c)
  PROVE  CountInv'
  <1>1. GoTo(c, "remove") /\ pc[c] = "live" /\ "remove" \in PCs
        /\ "remove" \notin Accepting /\ "live" \notin Accepting
    BY DEF ShutdownComplete, PCs, Accepting, Owning
  <1>2. /\ Cardinality(Listening) \in Nat /\ Cardinality(Counted) \in Nat
        /\ Cardinality(Counted') = Cardinality(Counted) - 1
        /\ Cardinality(Listening') = Cardinality(Listening)
    BY <1>1, Sizes DEF CountInv
  <1>3. i_ClientConnections' = i_ClientConnections - 1
    BY DEF ShutdownComplete, CountedDown
  <1>4. pc' \in [Connections -> PCs]
    BY <1>1, Moves DEF CountInv
  <1>5. RoomLeft'
    BY <1>2, <1>3, LimitsOK DEF RoomLeft, CountInv, CounterExact
  <1> QED
    BY <1>2, <1>3, <1>4, <1>5 DEF CountInv, CounterExact

LEMMA NextCount == CountInv /\ [Next]_vars => CountInv'
  <1> SUFFICES ASSUME CountInv, [Next]_vars PROVE CountInv'
    OBVIOUS
  <1>1. ASSUME UNCHANGED <<pc, i_ClientConnections>> PROVE CountInv'
    BY <1>1 DEF CountInv, CounterExact, RoomLeft, Counted, Refused, Listening
  <1>2. CASE Main
    BY <1>1, <1>2 DEF Main, MakeServer, Start, StartFails, CloseListener, Stop,
                      DestroyServer, connections
  <1>3. ASSUME NEW c \in Connections, Callback(c) PROVE CountInv'
    BY <1>3, NewStep, AddClientStep, SetConfigurationStep, ShutdownStep DEF Callback
  <1>4. CASE UNCHANGED vars
    BY <1>1, <1>4 DEF vars
  <1> QED
    BY <1>2, <1>3, <1>4 DEF Next

(***************************************************************************)
(* What the Server has open.                                               *)
(***************************************************************************)
Handles == {"api", "registration", "configuration", "context", "listener"}

HandleInv ==
    /\ server \in {"none", "made", "started", "closing", "stopped", "gone"}
    /\ handles = CASE server \in {"none", "gone"} -> {}
                   [] server \in {"made", "stopped"} -> {"api", "registration"}
                   [] OTHER -> Handles
    /\ misused \in BOOLEAN

LEMMA InitHandles == Init => HandleInv
BY DEF Init, HandleInv

\* Each branch of Start closes what came before it.
LEMMA StartFailsStep ==
  ASSUME HandleInv, StartFails
  PROVE  HandleInv'
  <1>1. handles = {"api", "registration"} /\ server' = "stopped" /\ misused' = misused
    BY DEF StartFails, HandleInv
  <1>2. \A call \in DOMAIN Opened : Opened[call] = UndoneBy(call)
    BY DEF Opened, UndoneBy, Undone
  <1>3. \A call \in DOMAIN Opened : "api" \notin Opened[call] /\ "registration" \notin Opened[call]
    BY DEF Opened
  <1>4. handles' = handles
    BY <1>1, <1>2, <1>3 DEF StartFails
  <1> QED
    BY <1>1, <1>4 DEF HandleInv

LEMMA NextHandles == HandleInv /\ [Next]_vars => HandleInv'
  <1> SUFFICES ASSUME HandleInv, [Next]_vars PROVE HandleInv'
    OBVIOUS
  <1>1. CASE MakeServer \/ Start \/ CloseListener \/ Stop \/ DestroyServer
    BY <1>1 DEF MakeServer, Start, CloseListener, Stop, DestroyServer, HandleInv, Handles
  <1>2. CASE StartFails
    BY <1>2, StartFailsStep
  <1>3. ASSUME UNCHANGED <<server, handles>>, misused' \in BOOLEAN PROVE HandleInv'
    BY <1>3 DEF HandleInv
  <1>4. ASSUME NEW c \in Connections, Callback(c) PROVE HandleInv'
    BY <1>3, <1>4 DEF HandleInv, Callback, AddClient, NewConnection, TryLock, SkipLocked,
       ScanEnd, TakeFree, Reuse, PassOver, Grow, Emplace, EmplaceThrows, CountMember,
       SetConfiguration, ShutdownComplete, RemoveClient, life
  <1>5. CASE UNCHANGED vars
    BY <1>3, <1>5 DEF vars, life, HandleInv
  <1> QED
    BY <1>1, <1>2, <1>4, <1>5 DEF Next, Main

(***************************************************************************)
(* Theorems about the connections.                                         *)
(***************************************************************************)
\* The inductive invariant of the connections and their pool: who holds which
\* mutex, whose client is in which member, and what is counted and open
\* (MsQuic.cpp:35-128, ClientPool.cpp:55-178, Server.cpp:41-256).
Consistent == PoolInv /\ CountInv /\ HandleInv

LEMMA NextConsistent == Consistent /\ [Next]_vars => Consistent'
BY NextPool, NextCount, NextHandles DEF Consistent

THEOREM ConnectionsConsistent == Spec => []Consistent
  <1>1. Init => Consistent
    BY InitPool, InitCount, InitHandles DEF Consistent
  <1> QED
    BY <1>1, NextConsistent, PTL DEF Spec

LEMMA ConsistentTypes == Consistent => TypeOK
  <1> SUFFICES ASSUME Consistent PROVE TypeOK
    OBVIOUS
  <1>1. Cardinality(Counted) \in Nat /\ Cardinality(Counted) <= Cardinality(Connections)
    BY LimitsOK, FS_Subset, FS_CardinalityType DEF Counted, Refused
  <1>2. i_ClientConnections \in 0 .. Cardinality(Connections)
    BY <1>1, LimitsOK, FS_CardinalityType DEF Consistent, CountInv, CounterExact
  <1> QED
    BY <1>2 DEF Consistent, PoolInv, PoolTypeOK, HandleInv, Handles, TypeOK

LEMMA ConsistentBounds == Consistent => OvershootBounded
  <1> SUFFICES ASSUME Consistent PROVE OvershootBounded
    OBVIOUS
  <1>1. Cardinality(Listening) \in Nat /\ Cardinality(Counted) \in Nat
    BY LimitsOK, FS_Subset, FS_CardinalityType DEF Listening, Counted, Refused
  <1> QED
    BY <1>1, LimitsOK DEF Consistent, CountInv, CounterExact, RoomLeft, OvershootBounded

\* Every variable keeps its type, and no scan leaves the pool.
THEOREM TypeCorrect == Spec => []TypeOK
BY ConsistentTypes, ConnectionsConsistent, PTL

\* An id leads to the client of its connection (ClientPool.cpp:55-178).
THEOREM ClientsAreOwn == Spec => []OwnClient
  <1>1. Consistent => OwnClient
    BY DEF Consistent, PoolInv, OwnMember, OwnClient
  <1> QED
    BY <1>1, ConnectionsConsistent, PTL

\* The clients without a connection that will remove them: each refused
\* connection has left its own, and there are no others.
LEMMA ConsistentMembers == Consistent => OnlyRefusedStay
  <1> SUFFICES ASSUME Consistent PROVE OnlyRefusedStay
    OBVIOUS
  <1> USE DEF Consistent, PoolInv
  <1>1. \A n \in Slots : p_Client[n] # NULL => us_ClientID[p_Client[n]] = n
    BY DEF Placed
  <1>2. ASSUME NEW n \in LeftBehind PROVE n \in {us_ClientID[c] : c \in Refused}
    <2>1. n \in Slots /\ p_Client[n] # NULL /\ pc[p_Client[n]] = "rejected"
      BY <1>2 DEF LeftBehind, Placed
    <2>2. p_Client[n] \in Refused /\ us_ClientID[p_Client[n]] = n
      BY <1>1, <2>1 DEF Refused, PoolTypeOK
    <2> QED
      BY <2>2
  <1>3. ASSUME NEW c \in Refused PROVE us_ClientID[c] \in LeftBehind
    BY <1>3, LimitsOK DEF Refused, OwnMember, LeftBehind, Owning
  <1> QED
    BY <1>1, <1>2, <1>3 DEF OnlyRefusedStay

\* A client leaves the pool with its connection, and only those of connections
\* whose configuration failed stay, each in its own member (MsQuic.cpp:54-87, 123).
THEOREM OnlyRefusedLeftBehind == Spec => []OnlyRefusedStay
BY ConsistentMembers, ConnectionsConsistent, PTL

\* The limit is passed by fewer connections than there are callbacks in parallel
\* (MsQuic.cpp:45, 67).
THEOREM LimitHolds == Spec => []OvershootBounded
BY ConsistentBounds, ConnectionsConsistent, PTL

\* The counter is that of the running and the refused connections
\* (MsQuic.cpp:63-87, 117).
THEOREM CountsConnections == Spec => []CounterExact
  <1>1. Consistent => CounterExact
    BY DEF Consistent, CountInv
  <1> QED
    BY <1>1, ConnectionsConsistent, PTL

\* A Server that is gone has closed everything (Server.cpp:68-86, 171-229).
THEOREM ServerCloses == Spec => []NothingLeftOpen
  <1>1. Consistent => NothingLeftOpen
    BY DEF Consistent, HandleInv, NothingLeftOpen
  <1> QED
    BY <1>1, ConnectionsConsistent, PTL

(***************************************************************************)
(* Nobody waits for one who waits.                                         *)
(***************************************************************************)
\* A mutex is held by the callback that is between its lock and its unlock, and
\* by no other: the converse of Inspects and Grows.
HeldInside ==
    /\ \A n \in Slots : owner[n] # NULL =>
          pc[owner[n]] \in {"inspect", "create"} /\ i[owner[n]] = n
    /\ c_Mutex # NULL => pc[c_Mutex] \in {"emplace", "count"}

\* A step keeps it.
LEMMA NextHeldInside ==
  ASSUME PoolInv, HeldInside, [Next]_vars
  PROVE  HeldInside'
  <1> USE LimitsOK DEF PoolInv, PoolTypeOK, HeldInside, GoTo, pool
  <1>1. ASSUME NEW c \in Connections, Callback(c) PROVE HeldInside'
    <2>1. CASE NewConnection(c) \/ SkipLocked(c) \/ ScanEnd(c) \/ TakeFree(c)
               \/ SetConfiguration(c) \/ ShutdownComplete(c) \/ RemoveClient(c)
      BY <2>1 DEF NewConnection, SkipLocked, ScanEnd, TakeFree, SetConfiguration,
         ShutdownComplete, RemoveClient
    <2>2. CASE TryLock(c)
      BY <2>2 DEF TryLock, InRange, Lockable
    <2>3. CASE Reuse(c) \/ PassOver(c)
      BY <2>3 DEF Reuse, PassOver, Unlocked
    <2>4. CASE Grow(c) \/ Emplace(c) \/ EmplaceThrows(c) \/ CountMember(c)
      BY <2>4 DEF Grow, Emplace, EmplaceThrows, CountMember, Grows
    <2> QED
      BY <1>1, <2>1, <2>2, <2>3, <2>4 DEF Callback, AddClient
  <1>2. CASE Main \/ UNCHANGED vars
    BY <1>2 DEF Main, MakeServer, Start, StartFails, CloseListener, Stop, DestroyServer,
       connections, vars
  <1> QED
    BY <1>1, <1>2 DEF Next

\* A callback waits: the pool grows for another one, or RemoveClient finds the
\* member it is to empty locked.
Waits(c) ==
    \/ pc[c] = "grow" /\ c_Mutex # NULL
    \/ pc[c] = "remove" /\ ~IdTooLarge(us_ClientID[c]) /\ owner[us_ClientID[c]] # NULL

WaitsFor(c) == IF pc[c] = "grow" THEN c_Mutex ELSE owner[us_ClientID[c]]

\* The holder is another callback, of the listener, that waits for nothing.
NobodyWaitsForAWaiter ==
    \A c \in Connections : Waits(c) =>
        /\ WaitsFor(c) \in Connections \ {c}
        /\ pc[WaitsFor(c)] \in Accepting
        /\ ~Waits(WaitsFor(c))

\* The mutexes of the pool cannot block callbacks in a circle, and no chain of
\* them is longer than one: whoever is waited for is between its lock and its
\* unlock and takes no other mutex there, for any number of connections and
\* callbacks in parallel (ClientPool.cpp:57-109, 167-178).
THEOREM PoolCannotDeadlock == Spec => []NobodyWaitsForAWaiter
  <1>1. Init => HeldInside
    BY DEF Init, HeldInside
  <1>2. Consistent /\ HeldInside /\ [Next]_vars => HeldInside'
    BY NextHeldInside DEF Consistent
  <1>3. Consistent /\ HeldInside => NobodyWaitsForAWaiter
    <2> SUFFICES ASSUME Consistent, HeldInside, NEW c \in Connections, Waits(c)
                 PROVE  /\ WaitsFor(c) \in Connections \ {c}
                        /\ pc[WaitsFor(c)] \in {"inspect", "create", "emplace", "count"}
      BY DEF NobodyWaitsForAWaiter, Waits, Accepting
    <2>1. CASE pc[c] = "grow"
      BY <2>1, LimitsOK DEF Consistent, PoolInv, PoolTypeOK, HeldInside, Waits, WaitsFor
    <2>2. CASE pc[c] = "remove"
      <3>1. us_ClientID[c] \in Slots
        BY <2>2 DEF Consistent, PoolInv, OwnMember, Owning
      <3> QED
        BY <2>2, <3>1, LimitsOK DEF Consistent, PoolInv, PoolTypeOK, HeldInside, Waits, WaitsFor
    <2> QED
      BY <2>1, <2>2 DEF Waits
  <1> QED
    BY <1>1, <1>2, <1>3, ConnectionsConsistent, PTL DEF Spec

(***************************************************************************)
(* The process.                                                            *)
(***************************************************************************)
Opens == {"made", "started", "closing", "stopped"}

\* Where main is says how many objects it has made, the server is open while it
\* is one of them, and callbacks run only then.
Places ==
    /\ main \in {"begin", "make", "mode", "start", "loop", "stop", "unwind", "join",
                 "ended", "terminated"}
    /\ alive \in 0 .. 6
    /\ main \in {"begin", "join", "ended"} => alive = 0
    /\ main = "mode" => alive = 1
    /\ main = "start" => alive = 4 /\ server = "made"
    /\ main = "make" => alive < 6
    /\ main \in {"loop", "stop"} => alive = 6
    /\ 4 <= alive <=> server \in Opens
    /\ \A c \in Connections : pc[c] \notin {"none", "rejected"} =>
          server \in {"started", "closing", "stopped"}

\* The flag of the command line tells whether there is a thread to stop.
Console ==
    /\ main \in {"begin", "mode"} => cli = "none"
    /\ main = "make" /\ alive = 0 => cli = "none"
    /\ ~b_RunCLI /\ main \notin {"join", "terminated"} => cli \in {"none", "gone"}
    /\ main = "join" => ~b_RunCLI
    /\ main = "ended" => cli \in {"none", "gone"}

NetInv == Consistent /\ Places /\ Console

\* Each step of the process is one of the connections and their server, or none.
LEMMA NetSteps == [NetNext]_netVars => [Next]_vars
BY DEF NetNext, netVars, MainThread, Begin, Daemonize, StartCLI, StartServer, Construction,
   MakeOrThrow, MakePlain, MakeMainServer, MakePool, LoopEnds, Destruction, StopServer,
   DestroyPlain, DestroyMainServer, DestroyPool, StopCLI, Join, Return, GetLine, UpdateCLI,
   Next, Main

\* The objects by their number.
LEMMA ObjectsInOrder ==
  ASSUME alive \in 0 .. 6
  PROVE  /\ "c_JobList" \in Alive <=> 2 <= alive
         /\ "c_ClientPool" \in Alive <=> 3 <= alive
         /\ "c_Server" \in Alive <=> 4 <= alive
         /\ "c_ThreadPool" \in Alive <=> 5 <= alive
BY DEF Alive, Order

LEMMA InitNet == NetInit => NetInv
  <1> SUFFICES ASSUME NetInit PROVE NetInv
    OBVIOUS
  <1>1. Consistent
    BY InitPool, InitCount, InitHandles DEF NetInit, Consistent
  <1> QED
    BY <1>1 DEF NetInit, Init, NetInv, Places, Console, Opens

\* Main on its way in.
LEMMA WayIn ==
  ASSUME NetInv, Begin \/ Daemonize \/ StartCLI \/ StartServer \/ Construction
  PROVE  Places' /\ Console'
  <1> USE DEF NetInv, Places, Console, Opens
  <1>1. CASE Begin
    BY <1>1 DEF Begin, vars, life
  <1>2. CASE Daemonize
    BY <1>2 DEF Daemonize, vars, life
  <1>3. CASE StartCLI
    BY <1>3 DEF StartCLI, vars, life
  <1>4. CASE StartServer
    BY <1>4 DEF StartServer, Start, StartFails, connections
  <1>5. ASSUME NEW o \in {"c_Config", "p_Database"}, MakeOrThrow(o) PROVE Places' /\ Console'
    BY <1>5 DEF MakeOrThrow, Makes, Made, Throws, After, Next1, Order, vars, life
  <1>6. ASSUME NEW o \in {"c_JobList", "c_ClientPool"}, MakePlain(o) PROVE Places' /\ Console'
    BY <1>6 DEF MakePlain, Makes, Made, After, Next1, Order, vars, life
  <1>7. CASE MakeMainServer
    BY <1>7 DEF MakeMainServer, MakeServer, Makes, Made, Throws, After, Next1, Order, connections
  <1>8. CASE MakePool
    BY <1>8 DEF MakePool, Makes, Made, Throws, After, Next1, Order, vars, life
  <1> QED
    BY <1>1, <1>2, <1>3, <1>4, <1>5, <1>6, <1>7, <1>8 DEF Construction

\* Main on its way out.
LEMMA WayOut ==
  ASSUME NetInv, LoopEnds \/ DestroyPool \/ Destruction
  PROVE  Places' /\ Console'
  <1> USE DEF NetInv, Places, Console, Opens
  <1>1. CASE LoopEnds
    BY <1>1 DEF LoopEnds, vars, life
  <1>2. CASE DestroyPool
    BY <1>2 DEF DestroyPool, Unwinds, Order, vars, life
  <1>3. CASE DestroyPlain
    BY <1>3 DEF DestroyPlain, Unwinds, Order, vars, life
  <1>4. CASE DestroyMainServer
    BY <1>4 DEF DestroyMainServer, DestroyServer, ConnectionsEnded, Unwinds, Order, connections
  <1>5. CASE StopServer
    BY <1>5 DEF StopServer, CloseListener, Stop, connections
  <1>6. CASE StopCLI
    BY <1>6 DEF StopCLI, StopsCLI, vars, life
  <1>7. CASE Join \/ Return
    BY <1>7 DEF Join, CLIJoined, Return, StopsCLI, vars, life
  <1> QED
    BY <1>1, <1>2, <1>3, <1>4, <1>5, <1>6, <1>7 DEF Destruction

\* A callback of a connection begins with the listener, and its server is open.
LEMMA CallbackStep ==
  ASSUME NetInv, NEW c \in Connections, Callback(c), UNCHANGED process
  PROVE  Places' /\ Console'
  <1>1. Console'
    BY DEF NetInv, Console, process
  <1>2. server' = server
    BY DEF Callback, AddClient, NewConnection, TryLock, SkipLocked, ScanEnd, TakeFree, Reuse,
           PassOver, Grow, Emplace, EmplaceThrows, CountMember, SetConfiguration,
           ShutdownComplete, RemoveClient, life
  <1>3. \A d \in Connections : d # c => pc'[d] = pc[d]
    BY DEF Callback, AddClient, NewConnection, TryLock, SkipLocked, ScanEnd, TakeFree, Reuse,
           PassOver, Grow, Emplace, EmplaceThrows, CountMember, SetConfiguration,
           ShutdownComplete, RemoveClient, GoTo, NetInv, Consistent, PoolInv, PoolTypeOK, pool
  <1>4. server = "started" \/ pc[c] \notin {"none", "rejected"}
    BY DEF Callback, AddClient, NewConnection, TryLock, SkipLocked, ScanEnd, TakeFree, Reuse,
           PassOver, Grow, Emplace, EmplaceThrows, CountMember, SetConfiguration,
           ShutdownComplete, RemoveClient
  <1> QED
    BY <1>1, <1>2, <1>3, <1>4 DEF NetInv, Places, process, Opens

LEMMA NextNet == NetInv /\ [NetNext]_netVars => NetInv'
  <1> SUFFICES ASSUME NetInv, [NetNext]_netVars PROVE NetInv'
    OBVIOUS
  <1>1. Consistent'
    BY NetSteps, NextConsistent DEF NetInv
  <1>2. CASE GetLine \/ UpdateCLI
    BY <1>1, <1>2 DEF GetLine, UpdateCLI, NetInv, Places, Console, Opens, vars, life
  <1>3. CASE MainThread
    BY <1>1, <1>3, WayIn, WayOut DEF MainThread, NetInv
  <1>4. ASSUME NEW c \in Connections, Callback(c), UNCHANGED process PROVE NetInv'
    BY <1>1, <1>4, CallbackStep DEF NetInv
  <1>5. CASE UNCHANGED netVars
    BY <1>1, <1>5 DEF netVars, vars, process, life, NetInv, Places, Console, Opens
  <1> QED
    BY <1>2, <1>3, <1>4, <1>5 DEF NetNext

\* The inductive invariant of the process: where main is, which objects it has
\* made, what runs beside it (Main.cpp:179-392, CLI.cpp:324-359).
THEOREM ProcessConsistent == NetSpec => []NetInv
BY InitNet, NextNet, PTL DEF NetSpec

\* The process is one of the behaviours Connections describes, so that all its
\* theorems hold of it.
THEOREM ProcessRunsConnections == NetSpec => Spec
  <1>1. NetInit => Init
    BY DEF NetInit
  <1> QED
    BY <1>1, NetSteps, PTL DEF NetSpec, Spec

\* What a callback or a thread of the pool refers to exists while it runs
\* (Main.cpp:278-330).
THEOREM ReferencesHold == NetSpec => []UsedIsAlive
  <1>1. NetInv => UsedIsAlive
    BY ObjectsInOrder DEF NetInv, Consistent, HandleInv, Handles, Places, Opens, UsedIsAlive
  <1> QED
    BY <1>1, ProcessConsistent, PTL

\* main returns with nothing left of what it began (Main.cpp:244-391).
THEOREM ReturnsClean == NetSpec => []EndsClean
  <1>1. NetInv => EndsClean
    BY DEF NetInv, Consistent, HandleInv, Places, Opens, Console, EndsClean
  <1> QED
    BY <1>1, ProcessConsistent, PTL

\* Only a machine that reports one thread leaves the pool without any, which is
\* an error; else, with main, half of the threads work, at least two where it is
\* not known how many there are (Main.cpp:302-317, ThreadPool.cpp:33-36).
THEOREM OneThreadHasNoPool ==
  \A n \in Nat :
      /\ ThreadCount(n) = 0 <=> n = 1
      /\ n > 3 => ThreadCount(n) + 1 = IF n < 6 THEN 2 ELSE n \div 2
      /\ n \in {0, 2, 3} => ThreadCount(n) + 1 = 2
BY DEF ThreadCount

\* On a machine that reports one thread main never serves: it makes its server,
\* lets clients in, and leaves when the pool throws (Main.cpp:302-330,
\* ThreadPool.cpp:33-36).
THEOREM OneThreadNeverServes ==
  ASSUME hardware_concurrency = 1
  PROVE  NetSpec => [](main # "loop")
  <1> DEFINE Early == alive \in 0 .. 4 /\ main \notin {"loop", "stop"}
  <1>1. NetInit => Early
    BY DEF NetInit
  <1>2. ASSUME Early, [NetNext]_netVars
        PROVE  Early'
    <2> USE <1>2
    <2>1. ThreadCount(hardware_concurrency) = 0
      BY OneThreadHasNoPool
    <2>2. CASE Construction
      <3>1. CASE MakePool
        BY <2>1, <3>1 DEF MakePool, Throws
      <3>2. ASSUME NEW o \in {"c_Config", "c_JobList", "c_ClientPool", "c_Server", "p_Database"},
                   Makes(o)
            PROVE  alive + 1 \in 0 .. 4 /\ After(o) \notin {"loop", "stop"}
        BY <3>2 DEF Makes, Order, After, Next1
      <3>3. CASE MakeMainServer
        BY <3>2, <3>3 DEF MakeMainServer, Makes, Made, Throws
      <3>4. ASSUME NEW o \in {"c_Config", "c_JobList", "c_ClientPool", "p_Database"},
                   MakeOrThrow(o) \/ MakePlain(o)
            PROVE  Early'
        BY <3>2, <3>4 DEF MakeOrThrow, MakePlain, Made, Throws
      <3> QED
        BY <2>2, <3>1, <3>3, <3>4 DEF Construction
    <2>3. CASE Begin \/ Daemonize \/ StartCLI \/ StartServer \/ LoopEnds
      BY <2>3 DEF Begin, Daemonize, StartCLI, StartServer, LoopEnds
    <2>4. CASE Destruction \/ DestroyPool
      BY <2>4 DEF Destruction, DestroyPool, StopServer, DestroyPlain, DestroyMainServer, Unwinds,
         StopCLI, StopsCLI, Join, Return
    <2>5. CASE GetLine \/ UpdateCLI \/ UNCHANGED netVars \/ UNCHANGED process
      BY <2>5 DEF GetLine, UpdateCLI, netVars, process
    <2> QED
      BY <2>2, <2>3, <2>4, <2>5 DEF NetNext, MainThread
  <1>3. Early => main # "loop"
    OBVIOUS
  <1> QED
    BY <1>1, <1>2, <1>3, PTL DEF NetSpec

(***************************************************************************)
(* Main's phases.                                                          *)
(***************************************************************************)
Called == \E c \in Connections : pc[c] \notin {"none", "rejected"}

\* The phases by the number of the objects.
PhaseIs(phase, m, n) ==
    /\ m \in {"loop", "stop"} => phase = m
    /\ m = "terminated" => phase = "aborted"
    /\ m \in {"join", "ended"} => phase = "gone"
    /\ m \in {"begin", "mode", "start"} => phase = "begin"
    /\ m = "unwind" => phase = IF 5 <= n THEN "join" ELSE IF 4 <= n THEN "close" ELSE "gone"
    /\ m = "make" => phase = IF 5 <= n THEN "connect" ELSE IF 4 <= n THEN "spawn" ELSE "begin"

LEMMA PhaseByNumber == Places => PhaseIs(Phase, main, alive)
BY ObjectsInOrder DEF Places, Phase, PhaseIs

LEMMA PhaseByNumberNext == Places' => PhaseIs(Phase', main', alive')
BY DEF Places, Phase, PhaseIs, Alive, Order

\* Main on its way in.
LEMMA WayInRefines ==
  ASSUME NetInv, NetInv', Begin \/ Daemonize \/ StartCLI \/ StartServer \/ Construction
  PROVE  [Phases!Next]_(Phases!phaseVars)
  <1>1. PhaseIs(Phase, main, alive) /\ PhaseIs(Phase', main', alive')
    BY PhaseByNumber, PhaseByNumberNext DEF NetInv
  <1>2. pc' = pc
    BY DEF Begin, Daemonize, StartCLI, StartServer, Start, StartFails, Construction, MakeOrThrow,
       MakePlain, MakePool, MakeMainServer, MakeServer, connections, vars
  <1>3. Called' <=> Called
    BY <1>2 DEF Called
  <1>4. CASE Begin \/ Daemonize \/ StartCLI
    <2>1. Phase = "begin" /\ Phase' \in {"begin", "gone"}
      BY <1>1, <1>4 DEF Begin, Daemonize, StartCLI, NetInv, Places, PhaseIs
    <2> QED
      BY <1>3, <2>1 DEF Called, Phases!Next, Phases!Start, Phases!Goes, Phases!phaseVars
  <1>5. CASE StartServer
    <2>1. Phase = "begin" /\ Phase' \in {"spawn", "close"}
      BY <1>1, <1>5 DEF StartServer, NetInv, Places, PhaseIs
    <2> QED
      BY <1>3, <2>1 DEF Called, Phases!Next, Phases!Start, Phases!Goes
  <1>6. CASE Construction
    <2>1. \/ Phase = "begin" /\ Phase' \in {"begin", "gone"}
          \/ Phase = "spawn" /\ Phase' \in {"connect", "close", "aborted"}
          \/ Phase = "connect" /\ Phase' \in {"loop", "join"}
      <3> USE DEF NetInv, Places, Made, Makes, Throws, After, Next1, Order, PhaseIs
      <3>1. CASE MakeMainServer
        BY <1>1, <3>1 DEF MakeMainServer
      <3>2. CASE MakePool
        BY <1>1, <3>2 DEF MakePool
      <3>3. ASSUME NEW o \in {"c_Config", "p_Database"}, MakeOrThrow(o)
            PROVE  \/ Phase = "begin" /\ Phase' \in {"begin", "gone"}
                   \/ Phase = "connect" /\ Phase' \in {"loop", "join"}
        BY <1>1, <3>3 DEF MakeOrThrow
      <3>4. ASSUME NEW o \in {"c_JobList", "c_ClientPool"}, MakePlain(o)
            PROVE  Phase = "begin" /\ Phase' = "begin"
        BY <1>1, <3>4 DEF MakePlain
      <3> QED
        BY <1>6, <3>1, <3>2, <3>3, <3>4 DEF Construction
    <2> QED
      BY <1>3, <2>1 DEF Called, Phases!Next, Phases!Start, Phases!MakePool, Phases!Connect,
         Phases!Terminate, Phases!Goes, Phases!phaseVars
  <1> QED
    BY <1>4, <1>5, <1>6

\* Main on its way out.
LEMMA WayOutRefines ==
  ASSUME NetInv, NetInv', LoopEnds \/ DestroyPool \/ Destruction
  PROVE  [Phases!Next]_(Phases!phaseVars)
  <1>1. PhaseIs(Phase, main, alive) /\ PhaseIs(Phase', main', alive')
    BY PhaseByNumber, PhaseByNumberNext DEF NetInv
  <1>2. pc' = pc
    BY DEF LoopEnds, DestroyPool, Destruction, StopServer, CloseListener, Stop, DestroyPlain,
       DestroyMainServer, DestroyServer, StopCLI, Join, Return, connections, vars
  <1>3. Called' <=> Called
    BY <1>2 DEF Called
  <1> USE DEF NetInv, Places, Unwinds, Order, PhaseIs
  <1>4. CASE LoopEnds
    <2>1. Phase = "loop" /\ Phase' = "stop"
      BY <1>1, <1>4 DEF LoopEnds
    <2> QED
      BY <1>3, <2>1 DEF Called, Phases!Next, Phases!LoopEnds, Phases!Goes
  <1>5. CASE DestroyPool
    <2>1. Phase = "join" /\ Phase' = "close"
      BY <1>1, <1>5 DEF DestroyPool
    <2> QED
      BY <1>3, <2>1 DEF Called, Phases!Next, Phases!JoinPool, Phases!Goes
  <1>6. CASE StopServer
    <2>1. Phase' = Phase \/ (Phase = "stop" /\ Phase' = "join")
      BY <1>1, <1>6 DEF StopServer
    <2> QED
      BY <1>3, <2>1 DEF Called, Phases!Next, Phases!StopServer, Phases!Goes, Phases!phaseVars
  <1>7. CASE DestroyMainServer
    <2>1. Phase = "close" /\ Phase' = "gone" /\ ~Called
      BY <1>1, <1>7 DEF DestroyMainServer, DestroyServer, ConnectionsEnded, Called
    <2> QED
      BY <1>3, <2>1 DEF Called, Phases!Next, Phases!CloseServer, Phases!Goes
  <1>8. CASE DestroyPlain \/ StopCLI \/ Join \/ Return
    <2>1. Phase' = Phase \/ (Phase = "gone" /\ Phase' = "aborted")
      BY <1>1, <1>8 DEF DestroyPlain, StopCLI, StopsCLI, Join, Return
    <2> QED
      BY <1>3, <2>1 DEF Called, Phases!Next, Phases!Terminate, Phases!phaseVars
  <1> QED
    BY <1>4, <1>5, <1>6, <1>7, <1>8 DEF Destruction

\* A callback runs in a phase that serves, and main stays where it is.
LEMMA CallbackRefines ==
  ASSUME NetInv, NetInv', NetNext, NEW c \in Connections, Callback(c), UNCHANGED process
  PROVE  Phases!Next
  <1>1. PhaseIs(Phase, main, alive) /\ PhaseIs(Phase', main', alive')
    BY PhaseByNumber, PhaseByNumberNext DEF NetInv
  <1>2. server = "started" \/ pc[c] \notin {"none", "rejected"}
    BY DEF Callback, AddClient, NewConnection, TryLock, SkipLocked, ScanEnd, TakeFree, Reuse,
           PassOver, Grow, Emplace, EmplaceThrows, CountMember, SetConfiguration,
           ShutdownComplete, RemoveClient
  <1>3. server \in {"started", "closing", "stopped"}
    BY <1>2 DEF NetInv, Places
  <1>4. 4 <= alive /\ main \in {"make", "loop", "stop", "unwind"}
    BY <1>3 DEF NetInv, Places, Opens, NetNext
  <1>5. Phase \in Phases!Serving
    BY <1>1, <1>4 DEF NetInv, Places, PhaseIs, Phases!Serving
  <1>6. Phase' = Phase
    BY DEF process, Phase, Alive
  <1> QED
    BY <1>5, <1>6 DEF Phases!Next, Phases!CallbacksRun

LEMMA NextRefines ==
  ASSUME NetInv, NetInv', [NetNext]_netVars
  PROVE  [Phases!Next]_(Phases!phaseVars)
  <1>1. CASE NetNext
    <2>1. CASE MainThread
      BY <2>1, WayInRefines, WayOutRefines DEF MainThread
    <2>2. CASE GetLine \/ UpdateCLI
      BY <2>2 DEF GetLine, UpdateCLI, vars, Phase, Alive, Phases!phaseVars
    <2>3. ASSUME NEW c \in Connections, Callback(c), UNCHANGED process PROVE Phases!Next
      BY <1>1, <2>3, CallbackRefines
    <2> QED
      BY <1>1, <2>1, <2>2, <2>3 DEF NetNext
  <1>2. CASE UNCHANGED netVars
    BY <1>2 DEF netVars, process, vars, Phase, Alive, Phases!phaseVars
  <1> QED
    BY <1>1, <1>2

\* On every path through main, exceptions and a failing start included, the phases
\* come in the order JobList relies on, and connections are there in those only
\* that serve (Main.cpp:271-391, Server.cpp:68-86).
THEOREM ConnectionsFollowPhases == NetSpec => ImplementsMainPhases
  <1>1. NetInit => Phases!Init
    <2> SUFFICES ASSUME NetInit PROVE Phases!Init
      OBVIOUS
    <2>1. Phase = "begin" /\ ~Called
      BY DEF NetInit, Init, Phase, Called
    <2> QED
      BY <2>1 DEF Called, Phases!Init
  <1>2. NetInv /\ NetInv' /\ [NetNext]_netVars => [Phases!Next]_(Phases!phaseVars)
    BY NextRefines
  <1> QED
    BY <1>1, <1>2, ProcessConsistent, PTL DEF NetSpec, ImplementsMainPhases, Phases!Spec
=============================================================================
