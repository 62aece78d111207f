-------------------------- MODULE SharedListProofs --------------------------
(***************************************************************************)
(* SharedList implements ElementStore, for every number of threads,        *)
(* elements and entries and whatever the deque does when it grows.         *)
(***************************************************************************)
EXTENDS SharedList, FiniteSetTheorems, TLAPS

(***************************************************************************)
(* The inductive invariant, part by part.                                  *)
(***************************************************************************)
Locking == {"inspect", "count", "unlock"}

\* The mutex of an entry is held by a thread that works on this entry, and a
\* getter leaves it empty.
EntryLocks ==
    /\ \A t \in Threads : pc[t] \in Locking =>
          i[t] < us_TotalCount /\ owner[i[t]] = t
    /\ \A j \in Slots : owner[j] # NULL =>
          /\ j < us_TotalCount /\ i[owner[j]] = j
          /\ pc[owner[j]] \in Locking \union {"wild"}
    /\ \A t \in Threads : op[t] \in Getters /\ pc[t] \in {"count", "unlock"} =>
          p_Element[i[t]] = NULL

\* c_Mutex is held exactly while its holder appends.
ListLock == \A t \in Threads : pc[t] \in Growing <=> c_Mutex = t

\* Only an appending thread has an entry that is not published yet, and it
\* is the entry that holds the thread's element.
Publishing ==
    /\ (\A t \in Threads : pc[t] # "total") => us_TotalCount = size
    /\ \A t \in Threads : pc[t] = "total" =>
          us_TotalCount + 1 = size /\ p_Element[us_TotalCount] \in hands[t]

\* What a thread holds follows from its call and its place in it.
Calls ==
    \A t \in Threads :
       /\ pc[t] = "idle" <=> op[t] = "none"
       /\ op[t] = "none" => hands[t] = {}
       /\ pc[t] \in Growing \union {"grow"} => op[t] = "Add"
       /\ op[t] = "Add" => \A e, f \in hands[t] : e = f
       /\ op[t] = "Add" /\ pc[t] \in {"scan", "inspect", "grow", "emplace", "total"}
             => hands[t] # {}
       /\ op[t] = "Add" /\ pc[t] \in {"count", "avail", "release", "return"}
             => hands[t] = {}
       /\ op[t] = "GetElement" /\ pc[t] \in {"scan", "inspect"} => hands[t] = {}

\* An element is in one place.
OnePlace ==
    /\ \A j, k \in Visible : p_Element[j] # NULL /\ p_Element[j] = p_Element[k] => j = k
    /\ \A t \in Threads, j \in Visible : p_Element[j] \notin hands[t]
    /\ \A t, u \in Threads : t # u => hands[t] \cap hands[u] = {}

\* Behind a getter that no Add overlapped an entry is empty, or another getter
\* holds it.
Exhausted(t) ==
    op[t] = "GetElements" \/ (op[t] = "GetElement" /\ hands[t] = {})

Passed(t, j) ==
    \/ j < i[t]
    \/ j = i[t] /\ pc[t] \in {"count", "unlock"}
    \/ pc[t] = "return"

QuietScan ==
    \A t \in Threads : quiet[t] =>
       /\ \A u \in Threads : op[u] # "Add"
       /\ Exhausted(t) => \A j \in Visible :
             Passed(t, j) => p_Element[j] = NULL \/ owner[j] # NULL

IInv ==
    /\ TypeOK
    /\ EntryLocks
    /\ ListLock
    /\ Publishing
    /\ Calls
    /\ OnePlace
    /\ QuietScan

USE DEF Getters, Store!Getters, Slots, Visible, Unguarded

\* The constructed, empty list satisfies the invariant.
LEMMA InitIInv == ASSUME Init PROVE IInv
PROOF BY ConstantsOK DEF Init, IInv, TypeOK, EntryLocks, ListLock, Publishing,
         Calls, OnePlace, QuietScan, PCs, Exhausted, Passed, Locking, Growing

\* A thread enters Add with an element that is nowhere in the list.
LEMMA CallAddStep ==
    ASSUME IInv, NEW t \in Threads, NEW e \in Elements, CallAdd(t, e)
    PROVE  IInv'
<1> USE ConstantsOK DEF IInv, CallAdd, GoTo, Begin, StartScan, Stored, shared
<1>1. TypeOK'
    BY DEF TypeOK, PCs
<1>2. EntryLocks'
    BY DEF TypeOK, EntryLocks, Locking
<1>3. ListLock'
    BY DEF TypeOK, ListLock, Growing
<1>4. Publishing'
    BY DEF TypeOK, Publishing
<1>5. Calls'
    BY DEF TypeOK, Calls, Growing
<1>6. OnePlace'
    BY DEF TypeOK, OnePlace
<1>7. QuietScan'
    BY DEF TypeOK, QuietScan, Exhausted, Passed
<1> QED BY <1>1, <1>2, <1>3, <1>4, <1>5, <1>6, <1>7

\* A thread enters GetElement or GetElements.
LEMMA CallGetStep ==
    ASSUME IInv, NEW t \in Threads, NEW f \in Getters, CallGet(t, f)
    PROVE  IInv'
<1> USE ConstantsOK DEF IInv, CallGet, GoTo, Begin, StartScan, shared
<1>1. TypeOK'
    BY DEF TypeOK, PCs
<1>2. EntryLocks'
    BY DEF TypeOK, EntryLocks, Locking
<1>3. ListLock'
    BY DEF TypeOK, ListLock, Growing
<1>4. Publishing'
    BY DEF TypeOK, Publishing
<1>5. Calls'
    BY DEF TypeOK, Calls, Growing
<1>6. OnePlace'
    BY DEF TypeOK, OnePlace
<1>7. QuietScan'
  <2>1. ASSUME NEW u \in Threads, quiet'[u]
        PROVE  \A v \in Threads : op'[v] # "Add"
    BY <2>1 DEF TypeOK, QuietScan
  <2>2. ASSUME NEW u \in Threads, quiet'[u], Exhausted(u)',
               NEW j \in Visible', Passed(u, j)'
        PROVE  p_Element'[j] = NULL \/ owner'[j] # NULL
    <3>1. CASE u = t
      BY <2>2, <3>1 DEF TypeOK, QuietScan, Exhausted, Passed
    <3>2. CASE u # t
      BY <2>2, <3>2 DEF TypeOK, QuietScan, Exhausted, Passed
    <3> QED BY <3>1, <3>2
  <2> QED BY <2>1, <2>2 DEF QuietScan
<1> QED BY <1>1, <1>2, <1>3, <1>4, <1>5, <1>6, <1>7

\* try_lock succeeds: the thread becomes the owner of the entry.
LEMMA TryLockStep ==
    ASSUME IInv, NEW t \in Threads, TryLock(t)
    PROVE  IInv'
<1> USE ConstantsOK DEF IInv, TryLock, GoTo, InRange, EntryFree
<1>1. TypeOK'
    BY DEF TypeOK, PCs
<1>2. EntryLocks'
    BY DEF TypeOK, EntryLocks, Locking
<1>3. ListLock'
    BY DEF TypeOK, ListLock, Growing
<1>4. Publishing'
    BY DEF TypeOK, Publishing
<1>5. Calls'
    BY DEF TypeOK, Calls, Growing
<1>6. OnePlace'
    BY DEF TypeOK, OnePlace
<1>7. QuietScan'
    BY DEF TypeOK, QuietScan, Exhausted, Passed, Calls, Growing, EntryLocks, Locking
<1> QED BY <1>1, <1>2, <1>3, <1>4, <1>5, <1>6, <1>7

\* try_lock fails: to a quiet getter a locked entry is another getter's.
LEMMA SkipLockedStep ==
    ASSUME IInv, NEW t \in Threads, SkipLocked(t)
    PROVE  IInv'
<1> USE ConstantsOK DEF IInv, SkipLocked, GoTo, InRange, EntryFree, shared
<1>1. TypeOK'
    BY DEF TypeOK, PCs
<1>2. EntryLocks'
    BY DEF TypeOK, EntryLocks, Locking
<1>3. ListLock'
    BY DEF TypeOK, ListLock, Growing
<1>4. Publishing'
    BY DEF TypeOK, Publishing
<1>5. Calls'
    BY DEF TypeOK, Calls, Growing
<1>6. OnePlace'
    BY DEF TypeOK, OnePlace
<1>7. QuietScan'
  <2>1. ASSUME NEW u \in Threads, quiet'[u]
        PROVE  \A v \in Threads : op'[v] # "Add"
    BY <2>1 DEF TypeOK, QuietScan
  <2>2. ASSUME NEW u \in Threads, quiet'[u], Exhausted(u)',
               NEW j \in Visible', Passed(u, j)'
        PROVE  p_Element'[j] = NULL \/ owner'[j] # NULL
    <3>1. CASE u = t
      BY <2>2, <3>1 DEF TypeOK, QuietScan, Exhausted, Passed
    <3>2. CASE u # t
      BY <2>2, <3>2 DEF TypeOK, QuietScan, Exhausted, Passed
    <3> QED BY <3>1, <3>2
  <2> QED BY <2>1, <2>2 DEF QuietScan
<1> QED BY <1>1, <1>2, <1>3, <1>4, <1>5, <1>6, <1>7

\* The thread is lost; it may keep the mutex of its entry.
LEMMA IndexMovingMapStep ==
    ASSUME IInv, NEW t \in Threads, IndexMovingMap(t)
    PROVE  IInv'
<1> USE ConstantsOK DEF IInv, IndexMovingMap, GoTo, Indexing, InRange, shared
<1>1. TypeOK'
    BY DEF TypeOK, PCs
<1>2. EntryLocks'
    BY DEF TypeOK, EntryLocks, Locking
<1>3. ListLock'
    BY DEF TypeOK, ListLock, Growing
<1>4. Publishing'
    BY DEF TypeOK, Publishing
<1>5. Calls'
    BY DEF TypeOK, Calls, Growing
<1>6. OnePlace'
    BY DEF TypeOK, OnePlace
<1>7. QuietScan'
    BY DEF TypeOK, QuietScan, Exhausted, Passed
<1> QED BY <1>1, <1>2, <1>3, <1>4, <1>5, <1>6, <1>7

\* The loop ends: a quiet getter has passed every visible entry.
LEMMA ScanEndStep ==
    ASSUME IInv, NEW t \in Threads, ScanEnd(t)
    PROVE  IInv'
<1> USE ConstantsOK DEF IInv, ScanEnd, GoTo, InRange, shared
<1>1. TypeOK'
    BY DEF TypeOK, PCs
<1>2. EntryLocks'
    BY DEF TypeOK, EntryLocks, Locking
<1>3. ListLock'
    BY DEF TypeOK, ListLock, Growing
<1>4. Publishing'
    BY DEF TypeOK, Publishing
<1>5. Calls'
    BY DEF TypeOK, Calls, Growing
<1>6. OnePlace'
    BY DEF TypeOK, OnePlace
<1>7. QuietScan'
    BY DEF TypeOK, QuietScan, Exhausted, Passed
<1> QED BY <1>1, <1>2, <1>3, <1>4, <1>5, <1>6, <1>7

\* Add fills an empty entry it owns.
LEMMA SwapInStep ==
    ASSUME IInv, NEW t \in Threads, SwapIn(t)
    PROVE  IInv'
<1> USE ConstantsOK DEF IInv, SwapIn, GoTo, EntryEmpty
<1>1. TypeOK'
    BY DEF TypeOK, PCs, Calls, Growing, EntryLocks, Locking
<1>2. EntryLocks'
    BY DEF TypeOK, EntryLocks, Locking
<1>3. ListLock'
    BY DEF TypeOK, ListLock, Growing
<1>4. Publishing'
    BY DEF TypeOK, Publishing
<1>5. Calls'
    BY DEF TypeOK, Calls, Growing
<1>6. OnePlace'
    BY DEF TypeOK, OnePlace
<1>7. QuietScan'
    BY DEF TypeOK, QuietScan, Exhausted, Passed
<1> QED BY <1>1, <1>2, <1>3, <1>4, <1>5, <1>6, <1>7

\* A getter empties an entry it owns.
LEMMA SwapOutStep ==
    ASSUME IInv, NEW t \in Threads, SwapOut(t)
    PROVE  IInv'
<1> USE ConstantsOK DEF IInv, SwapOut, GoTo, EntryEmpty
<1>1. TypeOK'
    BY DEF TypeOK, PCs, Calls, Growing, EntryLocks, Locking
<1>2. EntryLocks'
    BY DEF TypeOK, EntryLocks, Locking
<1>3. ListLock'
    BY DEF TypeOK, ListLock, Growing
<1>4. Publishing'
    BY DEF TypeOK, Publishing, EntryLocks, Locking, Calls, Growing
<1>5. Calls'
    BY DEF TypeOK, Calls, Growing
<1>6. OnePlace'
    BY DEF TypeOK, OnePlace, EntryLocks, Locking
<1>7. QuietScan'
  <2>1. ASSUME NEW u \in Threads, quiet'[u]
        PROVE  \A v \in Threads : op'[v] # "Add"
    BY <2>1 DEF TypeOK, QuietScan
  <2>2. ASSUME NEW u \in Threads, quiet'[u], Exhausted(u)',
               NEW j \in Visible', Passed(u, j)'
        PROVE  p_Element'[j] = NULL \/ owner'[j] # NULL
    <3>1. CASE u = t
      BY <2>2, <3>1 DEF TypeOK, QuietScan, Exhausted, Passed, EntryLocks, Locking
    <3>2. CASE u # t
      BY <2>2, <3>2 DEF TypeOK, QuietScan, Exhausted, Passed
    <3> QED BY <3>1, <3>2
  <2> QED BY <2>1, <2>2 DEF QuietScan
<1> QED BY <1>1, <1>2, <1>3, <1>4, <1>5, <1>6, <1>7

\* The entry is not the kind the call looks for.
LEMMA PassOverStep ==
    ASSUME IInv, NEW t \in Threads, PassOver(t)
    PROVE  IInv'
<1> USE ConstantsOK DEF IInv, PassOver, GoTo, EntryEmpty, shared
<1>1. TypeOK'
    BY DEF TypeOK, PCs
<1>2. EntryLocks'
    BY DEF TypeOK, EntryLocks, Locking
<1>3. ListLock'
    BY DEF TypeOK, ListLock, Growing
<1>4. Publishing'
    BY DEF TypeOK, Publishing
<1>5. Calls'
    BY DEF TypeOK, Calls, Growing
<1>6. OnePlace'
    BY DEF TypeOK, OnePlace
<1>7. QuietScan'
    BY DEF TypeOK, QuietScan, Exhausted, Passed
<1> QED BY <1>1, <1>2, <1>3, <1>4, <1>5, <1>6, <1>7

\* us_AvailableCount follows; nothing else moves.
LEMMA CountStep ==
    ASSUME IInv, NEW t \in Threads, Count(t)
    PROVE  IInv'
<1> USE ConstantsOK DEF IInv, Count, GoTo
<1>1. TypeOK'
    BY DEF TypeOK, PCs, Delta, Wrap
<1>2. EntryLocks'
    BY DEF TypeOK, EntryLocks, Locking
<1>3. ListLock'
    BY DEF TypeOK, ListLock, Growing
<1>4. Publishing'
    BY DEF TypeOK, Publishing
<1>5. Calls'
    BY DEF TypeOK, Calls, Growing
<1>6. OnePlace'
    BY DEF TypeOK, OnePlace
<1>7. QuietScan'
  <2>1. ASSUME NEW u \in Threads, quiet'[u]
        PROVE  \A v \in Threads : op'[v] # "Add"
    BY <2>1 DEF TypeOK, QuietScan
  <2>2. ASSUME NEW u \in Threads, quiet'[u], Exhausted(u)',
               NEW j \in Visible', Passed(u, j)'
        PROVE  p_Element'[j] = NULL \/ owner'[j] # NULL
    <3>1. CASE u = t
      BY <2>2, <3>1 DEF TypeOK, QuietScan, Exhausted, Passed
    <3>2. CASE u # t
      BY <2>2, <3>2 DEF TypeOK, QuietScan, Exhausted, Passed
    <3> QED BY <3>1, <3>2
  <2> QED BY <2>1, <2>2 DEF QuietScan
<1> QED BY <1>1, <1>2, <1>3, <1>4, <1>5, <1>6, <1>7

\* The owner gives up its entry and goes on or is done.
LEMMA UnlockStep ==
    ASSUME IInv, NEW t \in Threads, Unlock(t)
    PROVE  IInv'
<1> USE ConstantsOK DEF IInv, Unlock, GoTo, Done
<1>1. TypeOK'
    BY DEF TypeOK, PCs, Calls, Growing, EntryLocks, Locking
<1>2. EntryLocks'
    BY DEF TypeOK, EntryLocks, Locking
<1>3. ListLock'
    BY DEF TypeOK, ListLock, Growing
<1>4. Publishing'
    BY DEF TypeOK, Publishing
<1>5. Calls'
    BY DEF TypeOK, Calls, Growing
<1>6. OnePlace'
    BY DEF TypeOK, OnePlace
<1>7. QuietScan'
    BY DEF TypeOK, QuietScan, Exhausted, Passed, EntryLocks, Locking, Calls
<1> QED BY <1>1, <1>2, <1>3, <1>4, <1>5, <1>6, <1>7

\* c_Mutex is free, so nobody else is appending.
LEMMA GrowStep ==
    ASSUME IInv, NEW t \in Threads, Grow(t)
    PROVE  IInv'
<1> USE ConstantsOK DEF IInv, Grow, GoTo
<1>1. TypeOK'
    BY DEF TypeOK, PCs
<1>2. EntryLocks'
    BY DEF TypeOK, EntryLocks, Locking
<1>3. ListLock'
    BY DEF TypeOK, ListLock, Growing
<1>4. Publishing'
    BY DEF TypeOK, Publishing
<1>5. Calls'
    BY DEF TypeOK, Calls, Growing
<1>6. OnePlace'
    BY DEF TypeOK, OnePlace
<1>7. QuietScan'
    BY DEF TypeOK, QuietScan, Exhausted, Passed
<1> QED BY <1>1, <1>2, <1>3, <1>4, <1>5, <1>6, <1>7

\* The new entry lies beyond us_TotalCount and is not visible yet.
LEMMA EmplaceStep ==
    ASSUME IInv, NEW t \in Threads, Emplace(t)
    PROVE  IInv'
<1> USE ConstantsOK DEF IInv, Emplace, GoTo
<1>1. TypeOK'
    BY DEF TypeOK, PCs
<1>2. EntryLocks'
    BY DEF TypeOK, EntryLocks, Locking, Publishing, ListLock, Growing
<1>3. ListLock'
    BY DEF TypeOK, ListLock, Growing
<1>4. Publishing'
    BY DEF TypeOK, Publishing, ListLock, Growing
<1>5. Calls'
    BY DEF TypeOK, Calls, Growing
<1>6. OnePlace'
    BY DEF TypeOK, OnePlace, Publishing, Calls, Growing
<1>7. QuietScan'
    BY DEF TypeOK, QuietScan, Exhausted, Passed, Calls, Growing
<1> QED BY <1>1, <1>2, <1>3, <1>4, <1>5, <1>6, <1>7

\* The exception leaves the deque as it was and c_Mutex free.
LEMMA EmplaceThrowsStep ==
    ASSUME IInv, NEW t \in Threads, EmplaceThrows(t)
    PROVE  IInv'
<1> USE ConstantsOK DEF IInv, EmplaceThrows, GoTo, Leave
<1>1. TypeOK'
    BY DEF TypeOK, PCs
<1>2. EntryLocks'
    BY DEF TypeOK, EntryLocks, Locking
<1>3. ListLock'
    BY DEF TypeOK, ListLock, Growing
<1>4. Publishing'
    BY DEF TypeOK, Publishing
<1>5. Calls'
    BY DEF TypeOK, Calls, Growing
<1>6. OnePlace'
    BY DEF TypeOK, OnePlace
<1>7. QuietScan'
  <2>1. ASSUME NEW u \in Threads, quiet'[u]
        PROVE  \A v \in Threads : op'[v] # "Add"
    BY <2>1 DEF TypeOK, QuietScan
  <2>2. ASSUME NEW u \in Threads, quiet'[u], Exhausted(u)',
               NEW j \in Visible', Passed(u, j)'
        PROVE  p_Element'[j] = NULL \/ owner'[j] # NULL
    <3>1. CASE u = t
      BY <2>2, <3>1 DEF TypeOK, QuietScan, Exhausted, Passed
    <3>2. CASE u # t
      BY <2>2, <3>2 DEF TypeOK, QuietScan, Exhausted, Passed
    <3> QED BY <3>1, <3>2
  <2> QED BY <2>1, <2>2 DEF QuietScan
<1> QED BY <1>1, <1>2, <1>3, <1>4, <1>5, <1>6, <1>7

\* The new entry becomes visible with the element it holds.
LEMMA PublishTotalStep ==
    ASSUME IInv, NEW t \in Threads, PublishTotal(t)
    PROVE  IInv'
<1> USE ConstantsOK DEF IInv, PublishTotal, GoTo
<1>1. TypeOK'
    BY DEF TypeOK, PCs, Publishing
<1>2. EntryLocks'
    BY DEF TypeOK, EntryLocks, Locking
<1>3. ListLock'
    BY DEF TypeOK, ListLock, Growing
<1>4. Publishing'
    BY DEF TypeOK, Publishing, ListLock, Growing
<1>5. Calls'
    BY DEF TypeOK, Calls, Growing
<1>6. OnePlace'
  <2> DEFINE new == us_TotalCount
  <2>1. /\ new \in Nat /\ Visible' = Visible \union {new}
        /\ p_Element[new] \in hands[t]
    BY DEF TypeOK, Publishing
  <2>2. \A j \in Visible : p_Element[j] # p_Element[new]
    BY <2>1 DEF OnePlace
  <2>3. \A u \in Threads : p_Element[new] \notin hands'[u]
    BY <2>1 DEF OnePlace, TypeOK
  <2>4. \A u \in Threads : hands'[u] \subseteq hands[u]
    BY DEF TypeOK
  <2> HIDE DEF new
  <2> QED BY <2>1, <2>2, <2>3, <2>4 DEF OnePlace
<1>7. QuietScan'
    BY DEF TypeOK, QuietScan, Exhausted, Passed, Calls, Growing
<1> QED BY <1>1, <1>2, <1>3, <1>4, <1>5, <1>6, <1>7

\* The appended element is counted.
LEMMA PublishAvailableStep ==
    ASSUME IInv, NEW t \in Threads, PublishAvailable(t)
    PROVE  IInv'
<1> USE ConstantsOK DEF IInv, PublishAvailable, GoTo
<1>1. TypeOK'
    BY DEF TypeOK, PCs, Wrap
<1>2. EntryLocks'
    BY DEF TypeOK, EntryLocks, Locking
<1>3. ListLock'
    BY DEF TypeOK, ListLock, Growing
<1>4. Publishing'
    BY DEF TypeOK, Publishing
<1>5. Calls'
    BY DEF TypeOK, Calls, Growing
<1>6. OnePlace'
    BY DEF TypeOK, OnePlace
<1>7. QuietScan'
  <2>1. ASSUME NEW u \in Threads, quiet'[u]
        PROVE  \A v \in Threads : op'[v] # "Add"
    BY <2>1 DEF TypeOK, QuietScan
  <2>2. ASSUME NEW u \in Threads, quiet'[u], Exhausted(u)',
               NEW j \in Visible', Passed(u, j)'
        PROVE  p_Element'[j] = NULL \/ owner'[j] # NULL
    <3>1. CASE u = t
      BY <2>2, <3>1 DEF TypeOK, QuietScan, Exhausted, Passed
    <3>2. CASE u # t
      BY <2>2, <3>2 DEF TypeOK, QuietScan, Exhausted, Passed
    <3> QED BY <3>1, <3>2
  <2> QED BY <2>1, <2>2 DEF QuietScan
<1> QED BY <1>1, <1>2, <1>3, <1>4, <1>5, <1>6, <1>7

\* The guard releases c_Mutex at the end of the append.
LEMMA ReleaseStep ==
    ASSUME IInv, NEW t \in Threads, Release(t)
    PROVE  IInv'
<1> USE ConstantsOK DEF IInv, Release, GoTo
<1>1. TypeOK'
    BY DEF TypeOK, PCs
<1>2. EntryLocks'
    BY DEF TypeOK, EntryLocks, Locking
<1>3. ListLock'
    BY DEF TypeOK, ListLock, Growing
<1>4. Publishing'
    BY DEF TypeOK, Publishing
<1>5. Calls'
    BY DEF TypeOK, Calls, Growing
<1>6. OnePlace'
    BY DEF TypeOK, OnePlace
<1>7. QuietScan'
    BY DEF TypeOK, QuietScan, Exhausted, Passed, Calls, Growing
<1> QED BY <1>1, <1>2, <1>3, <1>4, <1>5, <1>6, <1>7

\* The call returns and gives up what it held.
LEMMA ReturnStep ==
    ASSUME IInv, NEW t \in Threads, Return(t)
    PROVE  IInv'
<1> USE ConstantsOK DEF IInv, Return, GoTo, Leave, shared
<1>1. TypeOK'
    BY DEF TypeOK, PCs
<1>2. EntryLocks'
    BY DEF TypeOK, EntryLocks, Locking
<1>3. ListLock'
    BY DEF TypeOK, ListLock, Growing
<1>4. Publishing'
    BY DEF TypeOK, Publishing
<1>5. Calls'
    BY DEF TypeOK, Calls, Growing
<1>6. OnePlace'
    BY DEF TypeOK, OnePlace
<1>7. QuietScan'
  <2>1. ASSUME NEW u \in Threads, quiet'[u]
        PROVE  \A v \in Threads : op'[v] # "Add"
    BY <2>1 DEF TypeOK, QuietScan
  <2>2. ASSUME NEW u \in Threads, quiet'[u], Exhausted(u)',
               NEW j \in Visible', Passed(u, j)'
        PROVE  p_Element'[j] = NULL \/ owner'[j] # NULL
    <3>1. CASE u = t
      BY <2>2, <3>1 DEF TypeOK, QuietScan, Exhausted, Passed
    <3>2. CASE u # t
      BY <2>2, <3>2 DEF TypeOK, QuietScan, Exhausted, Passed
    <3> QED BY <3>1, <3>2
  <2> QED BY <2>1, <2>2 DEF QuietScan
<1> QED BY <1>1, <1>2, <1>3, <1>4, <1>5, <1>6, <1>7

(***************************************************************************)
(* Theorems.                                                               *)
(***************************************************************************)
\* Every step preserves the invariant: one case per action.
LEMMA InductiveStep == ASSUME IInv, [Next]_vars PROVE IInv'
<1>1. CASE UNCHANGED vars
  BY <1>1 DEF vars, shared, IInv, TypeOK, EntryLocks, ListLock, Publishing,
     Calls, OnePlace, QuietScan, Exhausted, Passed
<1>2. ASSUME NEW t \in Threads, Call(t) PROVE IInv'
  BY <1>2, CallAddStep, CallGetStep DEF Call
<1>3. ASSUME NEW t \in Threads, Step(t) PROVE IInv'
  BY <1>3, TryLockStep, SkipLockedStep, IndexMovingMapStep, ScanEndStep,
     SwapInStep, SwapOutStep, PassOverStep, CountStep, UnlockStep, GrowStep,
     EmplaceStep, EmplaceThrowsStep, PublishTotalStep, PublishAvailableStep,
     ReleaseStep, ReturnStep DEF Step
<1> QED BY <1>1, <1>2, <1>3 DEF Next

\* The mutexes, counters and entries of the list are always consistent: the
\* inductive invariant holds in every reachable state (SharedList.h:63-183).
THEOREM Consistent == Spec => []IInv
<1>1. Init => IInv BY InitIInv
<1>2. IInv /\ [Next]_vars => IInv' BY InductiveStep
<1> QED BY <1>1, <1>2, PTL DEF Spec

\* Every variable keeps its type; in particular us_AvailableCount stays a
\* size_t and no loop index leaves the deque (SharedList.h:75-106).
THEOREM TypeCorrect == Spec => []TypeOK
<1>1. IInv => TypeOK BY DEF IInv
<1> QED BY <1>1, Consistent, PTL

\* A claim lasts from try_lock to the swap.
LEMMA ClaimOfEntry ==
    ASSUME IInv, NEW t \in Threads
    PROVE  /\ Claim(t) # {} => op[t] \in Getters /\ pc[t] \in {"inspect", "wild"}
           /\ op[t] \in Getters /\ pc[t] = "inspect"
                 => Claim(t) = {p_Element[i[t]]} \ {NULL}
<1> USE ConstantsOK DEF IInv, Claim
<1>1. Claim(t) # {} => op[t] \in Getters /\ pc[t] \in {"inspect", "wild"}
  BY DEF EntryLocks, TypeOK, Locking
<1>2. op[t] \in Getters /\ pc[t] = "inspect" => Claim(t) = {p_Element[i[t]]} \ {NULL}
  BY DEF EntryLocks, TypeOK, Locking
<1> QED BY <1>1, <1>2

\* A claim stays as long as its getter, the entry and its owner do.
LEMMA ClaimStays ==
    ASSUME IInv, NEW u \in Threads,
           us_TotalCount' = us_TotalCount, op'[u] = op[u], i'[u] = i[u],
           i[u] \in Visible => /\ owner'[i[u]] = u <=> owner[i[u]] = u
                               /\ owner[i[u]] = u => p_Element'[i[u]] = p_Element[i[u]]
    PROVE  Claim(u)' = Claim(u)
BY DEF Claim

\* A step of the list is a step of the store, or changes nothing of it.
LEMMA StoreStep == ASSUME IInv, [Next]_vars PROVE [Store!StoreNext]_(Store!storeVars)
<1> DEFINE claims == [t \in Threads |-> Claim(t)]
<1> USE ConstantsOK DEF IInv, Store!storeVars
<1>1. CASE UNCHANGED vars
  BY <1>1 DEF vars, shared, Stored, Claim
<1>2. ASSUME NEW t \in Threads, NEW e \in Elements, CallAdd(t, e)
      PROVE  Store!CallAdd(t, e)
  <2> USE <1>2 DEF CallAdd, Begin, StartScan, shared
  <2>1. Claim(t)' = Claim(t)
    BY DEF Claim, Calls, TypeOK
  <2>2. \A u \in Threads \ {t} : Claim(u)' = Claim(u)
    BY ClaimStays DEF TypeOK
  <2> QED BY <2>1, <2>2 DEF Stored, Store!CallAdd, Store!Begin, Store!Overlap,
        Store!Held, Calls, TypeOK
<1>3. ASSUME NEW t \in Threads, NEW f \in Getters, CallGet(t, f)
      PROVE  Store!CallGet(t, f)
  <2> USE <1>3 DEF CallGet, Begin, StartScan, shared
  <2>1. \A j \in Visible : owner[j] # t
    BY DEF EntryLocks, Locking, Calls, TypeOK
  <2>2. Claim(t)' = Claim(t)
    BY <2>1 DEF Claim, Calls, TypeOK
  <2>3. \A u \in Threads \ {t} : Claim(u)' = Claim(u)
    BY ClaimStays DEF TypeOK
  <2> QED BY <2>2, <2>3 DEF Stored, Store!CallGet, Store!Begin, Store!Overlap,
        Calls, TypeOK
<1>4. ASSUME NEW t \in Threads, TryLock(t)
      PROVE  (\E e \in Elements : Store!Claim(t, e)) \/ UNCHANGED Store!storeVars
  <2> DEFINE e == p_Element[i[t]]
  <2>1. UNCHANGED <<Stored, op, hands, quiet>>
    BY <1>4 DEF TryLock, Stored
  <2>2. claims[t] = {}
    BY <1>4, ClaimOfEntry DEF TryLock
  <2>3. claims' = [claims EXCEPT ![t] = IF op[t] \in Getters THEN {e} \ {NULL} ELSE {}]
    <3>1. ASSUME NEW u \in Threads \ {t} PROVE Claim(u)' = Claim(u)
      BY <1>4 DEF TryLock, EntryFree, Claim, TypeOK
    <3>2. op[t] \notin Getters => Claim(t)' = {}
      BY <1>4 DEF TryLock, Claim
    <3>3. op[t] \in Getters => Claim(t)' = {e} \ {NULL}
      BY <1>4 DEF TryLock, InRange, EntryFree, Claim, TypeOK, EntryLocks, Locking
    <3> HIDE DEF e
    <3> QED BY <3>1, <3>2, <3>3
  <2>4. CASE op[t] \in Getters /\ e # NULL
    <3>1. e \in Stored /\ e \in Elements
      BY <1>4, <2>4 DEF TryLock, InRange, Stored, TypeOK
    <3>2. \A u \in Threads : e \notin Claim(u)
      BY <1>4, <2>4 DEF TryLock, InRange, EntryFree, Claim, OnePlace, TypeOK
    <3>3. op[t] = "GetElement" => hands[t] = {}
      BY <1>4 DEF TryLock, Calls
    <3>4. Store!Claim(t, e)
      <4> HIDE DEF e
      <4> QED BY <2>1, <2>2, <2>3, <2>4, <3>1, <3>2, <3>3
            DEF Store!Claim, Store!Claimed
    <3> QED BY <3>1, <3>4
  <2>5. CASE ~(op[t] \in Getters /\ e # NULL)
    <3>1. claims' = claims
      BY <2>2, <2>3, <2>5
    <3> QED BY <2>1, <3>1
  <2> QED BY <2>4, <2>5
<1>5. ASSUME NEW t \in Threads,
             \/ IndexMovingMap(t) \/ ScanEnd(t) \/ PassOver(t) \/ Count(t)
             \/ Grow(t) \/ PublishAvailable(t) \/ Release(t)
      PROVE  UNCHANGED Store!storeVars
  BY <1>5 DEF IndexMovingMap, ScanEnd, PassOver, Count, Grow,
     PublishAvailable, Release, shared, Stored, Claim
<1>6. ASSUME NEW t \in Threads, SkipLocked(t) \/ Unlock(t)
      PROVE  UNCHANGED Store!storeVars
  <2> USE <1>6 DEF SkipLocked, Unlock, shared
  <2>1. Claim(t) = {} /\ op'[t] = op[t]
    BY ClaimOfEntry
  <2>2. \A j \in Visible : owner'[j] # t
    <3>1. CASE SkipLocked(t)
      BY <3>1 DEF EntryLocks, Locking, TypeOK
    <3>2. CASE Unlock(t)
      BY <3>2 DEF EntryLocks, TypeOK
    <3> QED BY <3>1, <3>2
  <2>3. Claim(t)' = {}
    BY <2>2 DEF Claim
  <2>4. \A u \in Threads \ {t} : Claim(u)' = Claim(u)
    BY ClaimStays DEF TypeOK, EntryLocks, Locking
  <2>5. Stored' = Stored
    BY DEF Stored
  <2>6. UNCHANGED <<op, hands, quiet>>
    OBVIOUS
  <2>7. \A u \in Threads : Claim(u)' = Claim(u)
    BY <2>1, <2>3, <2>4
  <2> QED BY <2>5, <2>6, <2>7
<1>7. ASSUME NEW t \in Threads, SwapIn(t) PROVE Store!Put(t)
  <2>1. PICK e \in hands[t] : p_Element' = [p_Element EXCEPT ![i[t]] = e]
    BY <1>7 DEF SwapIn
  <2>2. hands[t] = {e} /\ e # NULL
    BY <1>7, <2>1 DEF SwapIn, Calls, TypeOK
  <2>3. i[t] \in Visible /\ p_Element[i[t]] = NULL
    BY <1>7 DEF SwapIn, EntryEmpty, EntryLocks, Locking, TypeOK
  <2>4. Stored' = Stored \union hands[t]
    BY <1>7, <2>1, <2>2, <2>3 DEF SwapIn, Stored, TypeOK
  <2>5. Claim(t)' = Claim(t)
    BY <1>7 DEF SwapIn, Claim
  <2>6. \A u \in Threads \ {t} : Claim(u)' = Claim(u)
    BY <1>7, ClaimStays DEF SwapIn, TypeOK, EntryLocks, Locking
  <2> QED BY <1>7, <2>4, <2>5, <2>6 DEF SwapIn, Store!Put, Calls
<1>8. ASSUME NEW t \in Threads, SwapOut(t) PROVE Store!Take(t)
  <2> DEFINE e == p_Element[i[t]]
  <2>1. /\ i[t] \in Visible /\ e \in Elements /\ e # NULL
        /\ owner[i[t]] = t
        /\ UNCHANGED <<owner, us_TotalCount, i, op, quiet>>
        /\ p_Element' = [p_Element EXCEPT ![i[t]] = NULL]
        /\ hands' = [hands EXCEPT ![t] = @ \union {e}]
    BY <1>8 DEF SwapOut, EntryEmpty, TypeOK, EntryLocks, Locking
  <2>2. Claim(t) = {e}
    BY <1>8, <2>1, ClaimOfEntry DEF SwapOut
  <2>3. \A j \in Visible : j # i[t] => p_Element[j] # e
    BY <2>1 DEF OnePlace
  <2>4. Stored' = Stored \ {e}
    BY <2>1, <2>3 DEF Stored, TypeOK
  <2>5. Claim(t)' = {}
    BY <2>1 DEF Claim, TypeOK
  <2>6. \A u \in Threads \ {t} : Claim(u)' = Claim(u)
    BY <1>8, <2>1, ClaimStays DEF SwapOut, TypeOK
  <2> HIDE DEF e
  <2> QED BY <2>1, <2>2, <2>4, <2>5, <2>6 DEF Store!Take
<1>9. ASSUME NEW t \in Threads, Emplace(t) PROVE UNCHANGED Store!storeVars
  <2>1. size \notin Visible /\ UNCHANGED <<us_TotalCount, owner, op, i, hands, quiet>>
    BY <1>9 DEF Emplace, TypeOK, Publishing, ListLock, Growing
  <2>2. \A j \in Visible : p_Element'[j] = p_Element[j]
    BY <1>9, <2>1 DEF Emplace, TypeOK
  <2>3. \A u \in Threads : Claim(u)' = Claim(u)
    BY <2>1, <2>2, ClaimStays
  <2>4. Stored' = Stored
    BY <2>1, <2>2 DEF Stored
  <2> QED BY <2>1, <2>3, <2>4
<1>10. ASSUME NEW t \in Threads, EmplaceThrows(t) PROVE Store!Reject(t)
  <2>1. \A u \in Threads : Claim(u)' = Claim(u)
    BY <1>10 DEF EmplaceThrows, Leave, Claim, Calls, Growing, TypeOK
  <2> QED BY <1>10, <2>1 DEF EmplaceThrows, Leave, Stored, Store!Reject,
        Store!Finish, Calls, Growing
<1>11. ASSUME NEW t \in Threads, PublishTotal(t) PROVE Store!Put(t)
  <2>1. Stored' = Stored \union hands[t]
    BY <1>11 DEF PublishTotal, Stored, TypeOK, Publishing, Calls, Growing
  <2>2. \A u \in Threads : Claim(u)' = Claim(u)
    <3>1. \A u \in Threads : i[u] = us_TotalCount /\ i[u] \in Slots => owner[i[u]] # u
      BY DEF TypeOK, EntryLocks
    <3>2. us_TotalCount' = us_TotalCount + 1 /\ us_TotalCount \in Slots
      BY <1>11 DEF PublishTotal, TypeOK, Publishing
    <3> QED BY <1>11, <3>1, <3>2 DEF PublishTotal, Claim, TypeOK
  <2> QED BY <1>11, <2>1, <2>2 DEF PublishTotal, Store!Put, Calls, Growing
<1>12. ASSUME NEW t \in Threads, Return(t) PROVE Store!Return(t)
  <2>1. claims[t] = {}
    BY <1>12, ClaimOfEntry DEF Return
  <2>2. Exhausted(t) /\ quiet[t] => Stored \subseteq Store!Claimed
    <3>1. SUFFICES ASSUME Exhausted(t), quiet[t], NEW j \in Visible, p_Element[j] # NULL
                   PROVE  \E u \in Threads : p_Element[j] \in Claim(u)
      BY DEF Stored, Store!Claimed
    <3>2. owner[j] \in Threads
      BY <1>12, <3>1 DEF Return, QuietScan, Passed, TypeOK
    <3>3. i[owner[j]] = j /\ pc[owner[j]] # "idle"
      <4>1. j \in Slots /\ owner[j] # NULL
        BY <3>2, ConstantsOK DEF TypeOK
      <4> QED BY <4>1 DEF EntryLocks, Locking
    <3>4. op[owner[j]] \in Getters
      BY <3>1, <3>2, <3>3 DEF QuietScan, TypeOK, Calls
    <3>5. Claim(owner[j]) = {p_Element[j]}
      BY <3>1, <3>2, <3>3, <3>4 DEF Claim
    <3> QED BY <3>2, <3>5
  <2>3. op[t] # "none" /\ (op[t] = "Add" => hands[t] = {})
    BY <1>12 DEF Return, Calls
  <2>4. \A u \in Threads \ {t} : Claim(u)' = Claim(u)
    BY <1>12, ClaimStays DEF Return, Leave, shared, TypeOK
  <2>5. Claim(t)' = {}
    BY <1>12 DEF Return, Leave, Claim, TypeOK
  <2>6. Store!Finish(t)
    BY <1>12, <2>1, <2>4, <2>5 DEF Return, Leave, shared, Stored, Store!Finish
  <2> QED BY <2>1, <2>2, <2>3, <2>6 DEF Exhausted, Store!Return, Store!Exhausted
<1> QED
  BY <1>1, <1>2, <1>3, <1>4, <1>5, <1>6, <1>7, <1>8, <1>9, <1>10, <1>11, <1>12
     DEF Next, Call, Step, Store!StoreNext

\* The list keeps the promise of ElementStore: no element is lost or handed
\* out twice, and a getter that no Add overlapped misses only what
\* other getters are taking, for any number of threads (SharedList.h:63-183).
THEOREM ListImplementsStore == Spec => ImplementsStore
<1>1. Init => Store!StoreInit
  BY DEF Init, Store!StoreInit, Stored, Claim
<1>2. IInv /\ [Next]_vars => [Store!StoreNext]_(Store!storeVars)
  BY StoreStep
<1> QED BY <1>1, <1>2, Consistent, PTL DEF Spec, ImplementsStore, Store!StoreSpec

(***************************************************************************)
(* The counter.  us_AvailableCount is a size_t, so first what % does.      *)
(***************************************************************************)
\* Quotient and remainder.
LEMMA DivMod ==
    ASSUME NEW a \in Int, NEW N \in Nat \ {0}
    PROVE  a = N * (a \div N) + (a % N) /\ a % N \in 0 .. (N - 1) /\ a \div N \in Int
BY SMTT(30)

\* Two numbers of one residue below N differ by no multiple of N.
LEMMA NoMultipleBetween ==
    ASSUME NEW N \in Nat \ {0}, NEW k \in Int, NEW r \in Int,
           0 <= r, r < N, 0 <= N * k + r, N * k + r < N
    PROVE  k = 0
<1>1. CASE k >= 1
    <2>1. N * k >= N
        BY <1>1, SMTT(30)
    <2> QED BY <2>1
<1>2. CASE k <= -1
    <2>1. N * k <= -N
        BY <1>2, SMTT(30)
    <2> QED BY <2>1
<1> QED BY <1>1, <1>2

\* The remainder is the only number below N in its residue class.
LEMMA ModUnique ==
    ASSUME NEW N \in Nat \ {0}, NEW q \in Int, NEW r \in 0 .. (N - 1)
    PROVE  (N * q + r) % N = r
<1> DEFINE a == N * q + r
<1>1. a \in Int
    BY SMT
<1>2. a = N * (a \div N) + (a % N) /\ a % N \in 0 .. (N - 1) /\ a \div N \in Int
    BY <1>1, DivMod
<1>3. N * (q - a \div N) + r = a % N
    <2>1. N * (q - a \div N) = N * q - N * (a \div N)
        BY <1>2, SMT
    <2> QED BY <1>2, <2>1, SMT
<1>4. q - a \div N = 0
    BY <1>2, <1>3, NoMultipleBetween
<1> QED BY <1>3, <1>4

\* A sum may be wrapped after every addition or once at the end.
LEMMA ModAdd ==
    ASSUME NEW N \in Nat \ {0}, NEW a \in Int, NEW d \in Int
    PROVE  ((a % N) + d) % N = (a + d) % N
<1> DEFINE b == (a % N) + d
           q == (a \div N) + (b \div N)
<1>1. a = N * (a \div N) + (a % N) /\ a % N \in 0 .. (N - 1) /\ a \div N \in Int
    BY DivMod
<1>2. b \in Int
    BY <1>1
<1>3. b = N * (b \div N) + (b % N) /\ b % N \in 0 .. (N - 1) /\ b \div N \in Int
    BY <1>2, DivMod
<1>4. a + d = N * q + (b % N)
    <2>1. N * q = N * (a \div N) + N * (b \div N)
        BY <1>1, <1>3, SMT
    <2> HIDE DEF q
    <2> QED BY <1>1, <1>2, <1>3, <2>1, SMT
<1>5. q \in Int
    BY <1>1, <1>3
<1> HIDE DEF q, b
<1> QED BY <1>3, <1>4, <1>5, ModUnique DEF b

\* Calls that have moved an element and not counted it yet.
Adding == Counting({"Add"}) \union Appending
Taking == Counting(Getters)

CountInv == IsFiniteSet(Stored) /\ CountExact

\* What the counter stands for is an integer.
LEMMA BalanceInt ==
    ASSUME CountInv
    PROVE  /\ IsFiniteSet(Adding) /\ Cardinality(Adding) \in Nat
           /\ IsFiniteSet(Taking) /\ Cardinality(Taking) \in Nat
           /\ Cardinality(Stored) \in Nat
<1>1. Adding \in SUBSET Threads /\ Taking \in SUBSET Threads
    BY DEF Adding, Taking, Counting, Appending
<1>2. IsFiniteSet(Adding) /\ IsFiniteSet(Taking)
    BY <1>1, ConstantsOK, FS_Subset
<1> QED BY <1>2, FS_CardinalityType DEF CountInv

\* A step that moves no element and counts none.
LEMMA NothingCounted ==
    ASSUME CountInv, Stored' = Stored, Adding' = Adding, Taking' = Taking,
           us_AvailableCount' = us_AvailableCount
    PROVE  CountInv'
BY DEF CountInv, CountExact, Adding, Taking, Wrap

\* An element appears in the list and waits to be counted.
LEMMA ElementAppears ==
    ASSUME CountInv, NEW e, NEW t, e \notin Stored, t \notin Adding,
           Stored' = Stored \union {e}, Adding' = Adding \union {t}, Taking' = Taking,
           us_AvailableCount' = us_AvailableCount
    PROVE  CountInv'
<1>1. IsFiniteSet(Stored') /\ Cardinality(Stored') = Cardinality(Stored) + 1
    BY FS_AddElement DEF CountInv
<1>2. Cardinality(Adding') = Cardinality(Adding) + 1
    BY BalanceInt, FS_AddElement
<1>3. Cardinality(Stored) - Cardinality(Adding) + Cardinality(Taking)
        = Cardinality(Stored') - Cardinality(Adding') + Cardinality(Taking')
    BY <1>1, <1>2, BalanceInt
<1> QED BY <1>1, <1>3 DEF CountInv, CountExact, Adding, Taking, Wrap

\* A getter takes an element and has not counted it yet.
LEMMA ElementLeaves ==
    ASSUME CountInv, NEW e, NEW t, e \in Stored, t \notin Taking,
           Stored' = Stored \ {e}, Taking' = Taking \union {t}, Adding' = Adding,
           us_AvailableCount' = us_AvailableCount
    PROVE  CountInv'
<1>1. IsFiniteSet(Stored') /\ Cardinality(Stored') = Cardinality(Stored) - 1
    BY FS_RemoveElement DEF CountInv
<1>2. Cardinality(Taking') = Cardinality(Taking) + 1
    BY BalanceInt, FS_AddElement
<1>3. Cardinality(Stored) - Cardinality(Adding) + Cardinality(Taking)
        = Cardinality(Stored') - Cardinality(Adding') + Cardinality(Taking')
    BY <1>1, <1>2, BalanceInt
<1> QED BY <1>1, <1>3 DEF CountInv, CountExact, Adding, Taking, Wrap

\* An Add counts its element.
LEMMA AddCounts ==
    ASSUME CountInv, NEW t \in Adding, Adding' = Adding \ {t}, Taking' = Taking,
           Stored' = Stored, us_AvailableCount' = Wrap(us_AvailableCount + 1)
    PROVE  CountInv'
<1>1. Cardinality(Adding') = Cardinality(Adding) - 1
    BY BalanceInt, FS_RemoveElement
<1> DEFINE n == Cardinality(Stored) - Cardinality(Adding) + Cardinality(Taking)
           m == Cardinality(Stored') - Cardinality(Adding') + Cardinality(Taking')
<1>2. n \in Int /\ m = n + 1
    BY <1>1, BalanceInt
<1>3. us_AvailableCount = n % (SizeMax + 1)
    BY DEF CountInv, CountExact, Adding, Taking, Wrap
<1>4. us_AvailableCount' = m % (SizeMax + 1)
    <2> HIDE DEF n, m
    <2> DEFINE N == SizeMax + 1
    <2>1. N \in Nat \ {0}
        BY ConstantsOK
    <2> HIDE DEF N
    <2>2. \A d \in Int : ((n % N) + d) % N = (n + d) % N
        BY <1>2, <2>1, ModAdd, Zenon
    <2> QED BY <1>2, <1>3, <2>2 DEF Wrap, N
<1> QED BY <1>4 DEF CountInv, CountExact, Adding, Taking, Wrap

\* A getter counts what it took.
LEMMA GetterCounts ==
    ASSUME CountInv, NEW t \in Taking, Taking' = Taking \ {t}, Adding' = Adding,
           Stored' = Stored, us_AvailableCount' = Wrap(us_AvailableCount + -1)
    PROVE  CountInv'
<1>1. Cardinality(Taking') = Cardinality(Taking) - 1
    BY BalanceInt, FS_RemoveElement
<1> DEFINE n == Cardinality(Stored) - Cardinality(Adding) + Cardinality(Taking)
           m == Cardinality(Stored') - Cardinality(Adding') + Cardinality(Taking')
<1>2. n \in Int /\ m = n + -1
    BY <1>1, BalanceInt
<1>3. us_AvailableCount = n % (SizeMax + 1)
    BY DEF CountInv, CountExact, Adding, Taking, Wrap
<1>4. us_AvailableCount' = m % (SizeMax + 1)
    <2> HIDE DEF n, m
    <2> DEFINE N == SizeMax + 1
    <2>1. N \in Nat \ {0}
        BY ConstantsOK
    <2> HIDE DEF N
    <2>2. \A d \in Int : ((n % N) + d) % N = (n + d) % N
        BY <1>2, <2>1, ModAdd, Zenon
    <2> QED BY <1>2, <1>3, <2>2 DEF Wrap, N
<1> QED BY <1>4 DEF CountInv, CountExact, Adding, Taking, Wrap

\* The steps that move and count are the five below; no other touches the
\* elements a scan can see, or the counter.
LEMMA QuietStep ==
    ASSUME IInv, CountInv, NEW t \in Threads,
           \/ Call(t) \/ TryLock(t) \/ SkipLocked(t) \/ IndexMovingMap(t) \/ ScanEnd(t)
           \/ PassOver(t) \/ Unlock(t) \/ Grow(t) \/ Emplace(t) \/ EmplaceThrows(t)
           \/ Release(t) \/ Return(t)
    PROVE  CountInv'
<1>1. us_AvailableCount' = us_AvailableCount
    BY DEF Call, CallAdd, CallGet, Begin, StartScan, TryLock, SkipLocked, IndexMovingMap,
       ScanEnd, PassOver, Unlock, Grow, Emplace, EmplaceThrows, Release, Return, shared
<1>2. Stored' = Stored
    <2>1. CASE Emplace(t)
        <3>1. us_TotalCount = size
            BY <2>1 DEF Emplace, IInv, TypeOK, ListLock, Publishing, Growing
        <3> QED BY <2>1, <3>1 DEF Emplace, IInv, TypeOK, Stored
    <2>2. CASE ~Emplace(t)
        BY <2>2 DEF Call, CallAdd, CallGet, Begin, StartScan, TryLock, SkipLocked,
           IndexMovingMap, ScanEnd, PassOver, Unlock, Grow, EmplaceThrows, Release, Return,
           shared, Stored
    <2> QED BY <2>1, <2>2
<1>3. Adding' = Adding /\ Taking' = Taking
    <2>1. pc[t] \notin {"count", "avail"} /\ pc'[t] \notin {"count", "avail"}
        BY DEF IInv, TypeOK, GoTo, Leave, Indexing, Call, CallAdd, CallGet, Begin, StartScan,
           TryLock, SkipLocked, IndexMovingMap, ScanEnd, PassOver, Unlock, Grow, Emplace,
           EmplaceThrows, Release, Return
    <2>2. \A u \in Threads \ {t} : pc'[u] = pc[u] /\ op'[u] = op[u]
        BY DEF IInv, TypeOK, GoTo, Leave, Call, CallAdd, CallGet, Begin, StartScan, TryLock,
           SkipLocked, IndexMovingMap, ScanEnd, PassOver, Unlock, Grow, Emplace,
           EmplaceThrows, Release, Return, shared
    <2> QED BY <2>1, <2>2 DEF Adding, Taking, Counting, Appending
<1> QED BY <1>1, <1>2, <1>3, NothingCounted

\* What a thread has in hand is not stored.
LEMMA HeldIsNotStored ==
    ASSUME OnePlace, NEW t \in Threads, NEW e \in hands[t]
    PROVE  e \notin Stored
BY DEF OnePlace, Stored

\* The element of an Add is nowhere in the list when it is swapped in.
LEMMA SwapInCounted == ASSUME IInv, CountInv, NEW t \in Threads, SwapIn(t) PROVE CountInv'
<1> USE DEF IInv, TypeOK, SwapIn, GoTo, EntryEmpty
<1>1. PICK e \in hands[t] : p_Element' = [p_Element EXCEPT ![i[t]] = e]
    OBVIOUS
<1>2. i[t] \in Visible /\ p_Element[i[t]] = NULL /\ e # NULL
    BY ConstantsOK DEF EntryLocks, Locking
<1>3. e \notin Stored
    BY HeldIsNotStored
<1>4. Stored' = Stored \union {e}
    <2>1. \A j \in Slots : p_Element'[j] = IF j = i[t] THEN e ELSE p_Element[j]
        BY <1>1
    <2>2. Visible' = Visible /\ Visible \subseteq Slots
        BY ConstantsOK
    <2> QED BY <1>2, <2>1, <2>2 DEF Stored
<1>5. t \notin Adding /\ Adding' = Adding \union {t} /\ Taking' = Taking
    BY DEF Adding, Taking, Counting, Appending
<1> QED BY <1>3, <1>4, <1>5, ElementAppears

\* No other entry holds the element a getter takes.
LEMMA SwapOutCounted == ASSUME IInv, CountInv, NEW t \in Threads, SwapOut(t) PROVE CountInv'
<1> USE DEF IInv, TypeOK, SwapOut, GoTo, EntryEmpty
<1> DEFINE e == p_Element[i[t]]
<1>1. i[t] \in Visible /\ e # NULL
    BY DEF EntryLocks, Locking
<1>2. e \in Stored /\ Stored' = Stored \ {e}
    BY <1>1, ConstantsOK DEF Stored, OnePlace
<1>3. t \notin Taking /\ Taking' = Taking \union {t} /\ Adding' = Adding
    BY DEF Adding, Taking, Counting, Appending
<1> HIDE DEF e
<1> QED BY <1>2, <1>3, ElementLeaves

\* The entry that becomes visible holds an element no other entry holds.
LEMMA PublishTotalCounted ==
    ASSUME IInv, CountInv, NEW t \in Threads, PublishTotal(t) PROVE CountInv'
<1> USE DEF IInv, TypeOK, PublishTotal, GoTo
<1> DEFINE e == p_Element[us_TotalCount]
<1>1. us_TotalCount \in Slots /\ e \in hands[t] /\ e # NULL
    BY ConstantsOK DEF Publishing
<1>2. e \notin Stored /\ Stored' = Stored \union {e}
    BY <1>1, HeldIsNotStored DEF Stored
<1>3. t \notin Adding /\ Adding' = Adding \union {t} /\ Taking' = Taking
    BY DEF Adding, Taking, Counting, Appending
<1> HIDE DEF e
<1> QED BY <1>2, <1>3, ElementAppears

\* One of the two increments of an Add, or the decrement of a getter.
LEMMA CountCounted ==
    ASSUME IInv, CountInv, NEW t \in Threads, Count(t) \/ PublishAvailable(t)
    PROVE  CountInv'
<1>1. Stored' = Stored
    BY DEF Stored, Count, PublishAvailable
<1> USE DEF IInv, TypeOK, Count, PublishAvailable, GoTo
<1>2. CASE PublishAvailable(t) \/ op[t] = "Add"
    <2>1. t \in Adding /\ Adding' = Adding \ {t} /\ Taking' = Taking
        BY <1>2 DEF Adding, Taking, Counting, Appending, Calls, Growing
    <2>2. us_AvailableCount' = Wrap(us_AvailableCount + 1)
        BY <1>2 DEF Delta
    <2> QED BY <1>1, <2>1, <2>2, AddCounts
<1>3. CASE Count(t) /\ op[t] # "Add"
    <2>1. op[t] \in Getters
        BY <1>3 DEF Calls
    <2>2. t \in Taking /\ Taking' = Taking \ {t} /\ Adding' = Adding
        BY <1>3, <2>1 DEF Adding, Taking, Counting, Appending
    <2>3. us_AvailableCount' = Wrap(us_AvailableCount + -1)
        BY <1>3 DEF Delta
    <2> QED BY <1>1, <2>2, <2>3, GetterCounts
<1> QED BY <1>2, <1>3

\* us_AvailableCount is the number of stored elements, off by the calls between
\* moving and counting, modulo size_t (SharedList.h:84-88, 104-106, 137-140).
THEOREM CounterStaysExact == Spec => []CountExact
<1>1. Init => CountInv
    <2>1. ASSUME Init PROVE CountInv
        <3>1. Stored = {} /\ Adding = {} /\ Taking = {}
            BY <2>1 DEF Init, Stored, Adding, Taking, Counting, Appending
        <3>2. 0 % (SizeMax + 1) = 0
            <4> DEFINE N == SizeMax + 1
            <4>1. N \in Nat \ {0}
                BY ConstantsOK
            <4> HIDE DEF N
            <4>2. (N * 0 + 0) % N = 0 /\ N * 0 + 0 = 0
                BY <4>1, ModUnique
            <4> QED BY <4>2 DEF N
        <3>3. Cardinality(Stored) - Cardinality(Adding) + Cardinality(Taking) = 0
            BY <3>1, FS_EmptySet
        <3>4. us_AvailableCount = 0 /\ IsFiniteSet(Stored)
            BY <2>1, <3>1, FS_EmptySet DEF Init
        <3> QED BY <3>2, <3>3, <3>4 DEF CountInv, CountExact, Adding, Taking, Wrap
    <2> QED BY <2>1
<1>2. ASSUME IInv, CountInv, [Next]_vars PROVE CountInv'
    <2>1. ASSUME NEW t \in Threads, Call(t) \/ Step(t) PROVE CountInv'
        BY <1>2, <2>1, QuietStep, SwapInCounted, SwapOutCounted, PublishTotalCounted,
           CountCounted DEF Step
    <2>2. CASE UNCHANGED vars
        <3>1. Stored' = Stored /\ Adding' = Adding /\ Taking' = Taking
            BY <2>2 DEF vars, shared, Stored, Adding, Taking, Counting, Appending
        <3> QED BY <1>2, <2>2, <3>1, NothingCounted DEF vars, shared
    <2> QED BY <1>2, <2>1, <2>2 DEF Next
<1>3. CountInv => CountExact
    BY DEF CountInv
<1> QED BY <1>1, <1>2, <1>3, Consistent, PTL DEF Spec

(***************************************************************************)
(* The list's own mutex, and the scans that do not take it.                *)
(***************************************************************************)
\* However a scan ends, no Add that has to grow the list waits for a thread that
\* will not release c_Mutex, emplace_back throwing included (SharedList.h:99-106).
\* It is not so for the mutexes of the entries, which a wild thread may keep.
THEOREM GrowthIsExclusive == Spec => []OneGrower
<1>1. IInv => OneGrower
  BY DEF IInv, TypeOK, ListLock, OneGrower
<1> QED BY <1>1, Consistent, PTL

\* The deque never replaces its node map while it has the sizes the list reaches.
MapStays == \A n \in Relocates : n > MaxEntries

\* A thread is not wild, if nothing relocates the map: nothing else the scans do
\* without c_Mutex is undefined.
LEMMA OnlyMovesAreWild ==
  ASSUME MapStays, IInv, NoWildIndex, [Next]_vars
  PROVE  NoWildIndex'
<1>1. \A t \in Threads : ~MapMoving(t)
  BY ConstantsOK DEF MapStays, MapMoving, IInv, TypeOK
<1>2. CASE UNCHANGED vars
  BY <1>2 DEF vars, NoWildIndex
<1>3. ASSUME NEW t \in Threads, Call(t) PROVE NoWildIndex'
  BY <1>3 DEF IInv, TypeOK, Call, CallAdd, CallGet, Begin, StartScan, GoTo, NoWildIndex
<1>4. ASSUME NEW t \in Threads, Step(t) PROVE NoWildIndex'
  <2>1. ~IndexMovingMap(t)
    BY <1>1 DEF IndexMovingMap
  <2>2. PICK l \in PCs \ {"wild"} : pc' = [pc EXCEPT ![t] = l]
    <3>1. SkipLocked(t) => pc' = [pc EXCEPT ![t] = "scan"]
      BY DEF SkipLocked, IInv, TypeOK
    <3> QED
      BY <1>4, <2>1, <3>1 DEF Step, TryLock, ScanEnd, SwapIn, SwapOut, PassOver,
         Count, Unlock, Grow, Emplace, EmplaceThrows, PublishTotal, PublishAvailable,
         Release, Return, Leave, GoTo, PCs
  <2> QED
    BY <2>2 DEF NoWildIndex, IInv, TypeOK
<1> QED BY <1>2, <1>3, <1>4 DEF Next

\* The move of the node map is all there is to the unlocked index: a list that
\* stays within its first map is scanned safely while it grows, although the scans
\* read the deque without c_Mutex (SharedList.h:75-106, 125-157).
THEOREM SafeWithinOneMap ==
  ASSUME MapStays
  PROVE  Spec => []NoWildIndex
<1>1. Init => NoWildIndex
  BY DEF Init, NoWildIndex
<1>2. IInv /\ NoWildIndex /\ [Next]_vars => NoWildIndex'
  BY OnlyMovesAreWild
<1> QED BY <1>1, <1>2, Consistent, PTL DEF Spec
=============================================================================
