----------------------------- MODULE SharedList -----------------------------
(***************************************************************************)
(* SharedList<T> (src/src/SharedList.h): a deque of entries, each with a   *)
(* mutex and a pointer, shared by threads that scan it with try_lock.      *)
(* Entries are reused but never removed; a full list grows under c_Mutex,  *)
(* which the scans do not take.                                            *)
(*                                                                         *)
(* One action per step another thread can observe.  The test of p_Element  *)
(* and its swap are one action: p_Element is only touched under the mutex  *)
(* of its entry.  So are the loop's test i < us_TotalCount and the         *)
(* try_lock that follows, because us_TotalCount never decreases.           *)
(***************************************************************************)
EXTENDS Integers, FiniteSets

CONSTANTS Threads, Elements,
          NULL,        \* null pointer, and the owner of a free mutex
          MaxEntries,  \* bound: beyond it emplace_back can only throw
          SizeMax,     \* largest value of size_t
          Relocates    \* deque sizes at which emplace_back moves the node map

ASSUME ConstantsOK ==
    /\ NULL \notin Threads \union Elements
    /\ MaxEntries \in Nat
    /\ SizeMax \in Nat
    /\ Relocates \subseteq Nat
    /\ IsFiniteSet(Threads)

VARIABLES p_Element,          \* p_Element[j]: the pointer in entry j
          owner,              \* owner[j]: the holder of dq_Element[j].c_Mutex
          size,               \* dq_Element.size()
          us_TotalCount,
          us_AvailableCount,
          c_Mutex,            \* the holder of the list's own mutex
          pc, i,              \* control point and loop index of each thread
          op, hands,          \* running call and its p_Element / p_Result
          quiet               \* history: no Add overlapped this getter so far

shared == <<p_Element, owner, size, us_TotalCount, us_AvailableCount, c_Mutex>>
vars == <<shared, pc, i, op, hands, quiet>>

Slots == 0 .. (MaxEntries - 1)

\* The entries a scan can reach.
Visible == 0 .. (us_TotalCount - 1)
Stored == {p_Element[j] : j \in Visible} \ {NULL}

\* A getter that owns the entry of an element is going to take it.
Claim(t) ==
    IF op[t] \in {"GetElement", "GetElements"} /\ i[t] \in Visible /\ owner[i[t]] = t
    THEN {p_Element[i[t]]} \ {NULL}
    ELSE {}

Store == INSTANCE ElementStore
            WITH stored <- Stored, claim <- [t \in Threads |-> Claim(t)]

Getters == Store!Getters

PCs == {"idle", "scan", "inspect", "count", "unlock", "grow", "emplace",
        "total", "avail", "release", "return", "wild"}

TypeOK ==
    /\ p_Element \in [Slots -> Elements \union {NULL}]
    /\ owner \in [Slots -> Threads \union {NULL}]
    /\ size \in 0 .. MaxEntries
    /\ us_TotalCount \in 0 .. MaxEntries
    /\ us_AvailableCount \in 0 .. SizeMax
    /\ c_Mutex \in Threads \union {NULL}
    /\ pc \in [Threads -> PCs]
    /\ i \in [Threads -> 0 .. MaxEntries]
    /\ op \in [Threads -> {"none", "Add"} \union Getters]
    /\ hands \in [Threads -> SUBSET Elements]
    /\ quiet \in [Threads -> BOOLEAN]

Init ==
    /\ p_Element = [j \in Slots |-> NULL]
    /\ owner = [j \in Slots |-> NULL]
    /\ size = 0
    /\ us_TotalCount = 0
    /\ us_AvailableCount = 0
    /\ c_Mutex = NULL
    /\ pc = [t \in Threads |-> "idle"]
    /\ i = [t \in Threads |-> 0]
    /\ op = [t \in Threads |-> "none"]
    /\ hands = [t \in Threads |-> {}]
    /\ quiet = [t \in Threads |-> FALSE]

(***************************************************************************)
(* Arithmetic of std::atomic<size_t>.                                      *)
(***************************************************************************)
Wrap(n) == n % (SizeMax + 1)

GoTo(t, l) == pc' = [pc EXCEPT ![t] = l]

(***************************************************************************)
(* Calls.  An element is one reference, so it is in one place.             *)
(***************************************************************************)
StartScan(t) ==
    /\ pc[t] = "idle"
    /\ GoTo(t, "scan")
    /\ i' = [i EXCEPT ![t] = 0]
    /\ UNCHANGED shared

Begin(t, f, args) ==
    /\ StartScan(t)
    /\ op' = [op EXCEPT ![t] = f]
    /\ hands' = [hands EXCEPT ![t] = args]
    /\ quiet' = [u \in Threads |->
          /\ f # "Add"
          /\ IF u = t THEN \A o \in Threads : op[o] # "Add" ELSE quiet[u]]

CallAdd(t, e) ==
    /\ e \notin Stored \union UNION {hands[u] : u \in Threads}
    /\ Begin(t, "Add", {e})

CallGet(t, f) == Begin(t, f, {})

(***************************************************************************)
(* The scan of Add, GetElement and GetElements.                            *)
(***************************************************************************)
InRange(t) == i[t] < us_TotalCount

\* The deque's node map, which operator[] reads, is being replaced by
\* another thread.
MapMoving(t) ==
    \E o \in Threads \ {t} : pc[o] = "emplace" /\ size \in Relocates

\* Mutant: the result of try_lock is ignored.
EntryAlwaysFree(t) == TRUE

EntryFree(t) == owner[i[t]] = NULL

TryLock(t) ==
    /\ pc[t] = "scan" /\ InRange(t) /\ ~MapMoving(t)
    /\ EntryFree(t)
    /\ owner' = [owner EXCEPT ![i[t]] = t]
    /\ GoTo(t, "inspect")
    /\ UNCHANGED <<p_Element, size, us_TotalCount, us_AvailableCount, c_Mutex,
                   i, op, hands, quiet>>

SkipLocked(t) ==
    /\ pc[t] = "scan" /\ InRange(t) /\ ~MapMoving(t)
    /\ ~EntryFree(t)
    /\ i' = [i EXCEPT ![t] = @ + 1]
    /\ UNCHANGED <<shared, pc, op, hands, quiet>>

\* The next statement evaluates dq_Element[i].
Indexing(t) == pc[t] \in {"inspect", "unlock"} \/ (pc[t] = "scan" /\ InRange(t))

\* The index is taken through a map that is being replaced: undefined
\* behaviour, and nothing the thread does afterwards is modelled.
IndexMovingMap(t) ==
    /\ Indexing(t) /\ MapMoving(t)
    /\ GoTo(t, "wild")
    /\ UNCHANGED <<shared, i, op, hands, quiet>>

ScanEnd(t) ==
    /\ pc[t] = "scan" /\ ~InRange(t)
    /\ GoTo(t, IF op[t] = "Add" THEN "grow" ELSE "return")
    /\ UNCHANGED <<shared, i, op, hands, quiet>>

EntryEmpty(t) == p_Element[i[t]] = NULL

\* Add's swap of its element into an empty entry.
SwapIn(t) ==
    /\ pc[t] = "inspect" /\ ~MapMoving(t)
    /\ op[t] = "Add" /\ EntryEmpty(t)
    /\ \E e \in hands[t] : p_Element' = [p_Element EXCEPT ![i[t]] = e]
    /\ hands' = [hands EXCEPT ![t] = {}]
    /\ GoTo(t, "count")
    /\ UNCHANGED <<owner, size, us_TotalCount, us_AvailableCount, c_Mutex,
                   i, op, quiet>>

\* A getter's swap, or push_back and reset, of a stored element.
SwapOut(t) ==
    /\ pc[t] = "inspect" /\ ~MapMoving(t)
    /\ op[t] \in Getters /\ ~EntryEmpty(t)
    /\ hands' = [hands EXCEPT ![t] = @ \union {p_Element[i[t]]}]
    /\ p_Element' = [p_Element EXCEPT ![i[t]] = NULL]
    /\ GoTo(t, "count")
    /\ UNCHANGED <<owner, size, us_TotalCount, us_AvailableCount, c_Mutex,
                   i, op, quiet>>

\* The entry is of no use to this call.
PassOver(t) ==
    /\ pc[t] = "inspect" /\ ~MapMoving(t)
    /\ (op[t] = "Add") # EntryEmpty(t)
    /\ GoTo(t, "unlock")
    /\ UNCHANGED <<shared, i, op, hands, quiet>>

\* Mutant: GetElements forgets to count what it takes.
DeltaOneGetter(f) == IF f = "Add" THEN 1 ELSE IF f = "GetElement" THEN -1 ELSE 0

Delta(f) == IF f = "Add" THEN 1 ELSE -1

Count(t) ==
    /\ pc[t] = "count"
    /\ us_AvailableCount' = Wrap(us_AvailableCount + Delta(op[t]))
    /\ GoTo(t, "unlock")
    /\ UNCHANGED <<p_Element, owner, size, us_TotalCount, c_Mutex,
                   i, op, hands, quiet>>

Done(t) ==
    \/ op[t] = "Add" /\ hands[t] = {}
    \/ op[t] = "GetElement" /\ hands[t] # {}

Unlock(t) ==
    /\ pc[t] = "unlock" /\ ~MapMoving(t)
    /\ owner' = [owner EXCEPT ![i[t]] = NULL]
    /\ i' = [i EXCEPT ![t] = @ + 1]
    /\ GoTo(t, IF Done(t) THEN "return" ELSE "scan")
    /\ UNCHANGED <<p_Element, size, us_TotalCount, us_AvailableCount, c_Mutex,
                   op, hands, quiet>>

(***************************************************************************)
(* Add without a free entry: append one under c_Mutex.                     *)
(***************************************************************************)
Grow(t) ==
    /\ pc[t] = "grow" /\ c_Mutex = NULL
    /\ c_Mutex' = t
    /\ GoTo(t, "emplace")
    /\ UNCHANGED <<p_Element, owner, size, us_TotalCount, us_AvailableCount,
                   i, op, hands, quiet>>

Emplace(t) ==
    /\ pc[t] = "emplace" /\ size < MaxEntries
    /\ \E e \in hands[t] : p_Element' = [p_Element EXCEPT ![size] = e]
    /\ size' = size + 1
    /\ GoTo(t, "total")
    /\ UNCHANGED <<owner, us_TotalCount, us_AvailableCount, c_Mutex,
                   i, op, hands, quiet>>

Leave(t) ==
    /\ GoTo(t, "idle")
    /\ op' = [op EXCEPT ![t] = "none"]
    /\ hands' = [hands EXCEPT ![t] = {}]
    /\ quiet' = [quiet EXCEPT ![t] = FALSE]

\* Mutant: lock and unlock instead of a guard.
KeptByException(t) == t

\* c_Guard is destroyed.
Unguarded(t) == NULL

\* emplace_back throws: c_Guard releases c_Mutex and Add throws.
EmplaceThrows(t) ==
    /\ pc[t] = "emplace"
    /\ c_Mutex' = Unguarded(t)
    /\ Leave(t)
    /\ UNCHANGED <<p_Element, owner, size, us_TotalCount, us_AvailableCount, i>>

\* us_TotalCount += 1 makes the new entry visible to every scan.
PublishTotal(t) ==
    /\ pc[t] = "total"
    /\ us_TotalCount' = us_TotalCount + 1
    /\ hands' = [hands EXCEPT ![t] = {}]
    /\ GoTo(t, "avail")
    /\ UNCHANGED <<p_Element, owner, size, us_AvailableCount, c_Mutex,
                   i, op, quiet>>

PublishAvailable(t) ==
    /\ pc[t] = "avail"
    /\ us_AvailableCount' = Wrap(us_AvailableCount + 1)
    /\ GoTo(t, "release")
    /\ UNCHANGED <<p_Element, owner, size, us_TotalCount, c_Mutex,
                   i, op, hands, quiet>>

Release(t) ==
    /\ pc[t] = "release"
    /\ c_Mutex' = NULL
    /\ GoTo(t, "return")
    /\ UNCHANGED <<p_Element, owner, size, us_TotalCount, us_AvailableCount,
                   i, op, hands, quiet>>

Return(t) ==
    /\ pc[t] = "return"
    /\ Leave(t)
    /\ UNCHANGED <<shared, i>>

Call(t) ==
    \/ \E e \in Elements : CallAdd(t, e)
    \/ \E f \in Getters : CallGet(t, f)

Step(t) ==
    \/ TryLock(t) \/ SkipLocked(t) \/ IndexMovingMap(t) \/ ScanEnd(t)
    \/ SwapIn(t) \/ SwapOut(t) \/ PassOver(t) \/ Count(t) \/ Unlock(t)
    \/ Grow(t) \/ Emplace(t) \/ EmplaceThrows(t)
    \/ PublishTotal(t) \/ PublishAvailable(t) \/ Release(t)
    \/ Return(t)

Next == \E t \in Threads : Call(t) \/ Step(t)

Spec == Init /\ [][Next]_vars

(***************************************************************************)
(* Properties.                                                             *)
(***************************************************************************)

\* The list keeps the promise of ElementStore: no element is lost or handed
\* out twice however the scans, the reuse of entries and the growth of the
\* deque interleave, and a getter that no Add overlapped misses only what other
\* getters are taking.
ImplementsStore == Store!StoreSpec

Counting(f) == {t \in Threads : pc[t] = "count" /\ op[t] \in f}
Appending == {t \in Threads : pc[t] = "avail"}

\* us_AvailableCount is the number of stored elements, off by exactly the
\* calls that are between moving an element and counting it, modulo the
\* width of size_t (SharedList.h:84-85, 104-106, 137-140).
CountExact ==
    us_AvailableCount =
        Wrap(Cardinality(Stored)
             - Cardinality(Counting({"Add"}) \union Appending)
             + Cardinality(Counting(Getters)))

Growing == {"emplace", "total", "avail", "release"}

\* One thread appends at a time, and a held c_Mutex is held by the thread that
\* appends: no Add that has to grow the list waits for a call that has ended, by an
\* exception or not, or for one that went wild (SharedList.h:99-113).
OneGrower ==
    /\ \A t, u \in Threads : pc[t] \in Growing /\ pc[u] \in Growing => t = u
    /\ c_Mutex # NULL => pc[c_Mutex] \in Growing

\* "Lock for outside multithreading" (SharedList.h:101): c_Mutex keeps the
\* scans of other threads away from the deque while emplace_back changes it.
NoWildIndex == \A t \in Threads : pc[t] # "wild"
=============================================================================
