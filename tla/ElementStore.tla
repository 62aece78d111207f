---------------------------- MODULE ElementStore ----------------------------
(***************************************************************************)
(* What SharedList<T> promises to the threads that share it: every element *)
(* handed to Add is stored once and leaves through one getter, and a       *)
(* getter that no Add overlapped reports "nothing" only when every stored  *)
(* element is about to leave through another getter.  A call is three      *)
(* kinds of step: Call..., the effects (Put, Claim, Take, Reject) and      *)
(* Return, so calls of different threads overlap.  There is no promise     *)
(* about the order of the elements, and none about a getter that overlaps  *)
(* an Add: it may miss any element, because the Add may have locked its    *)
(* entry at that moment (SharedList.h:75-96, 130-133).                     *)
(*                                                                         *)
(* An element is one reference handed to Add, not the object it points to: *)
(* the program may store the same client twice.                            *)
(***************************************************************************)
EXTENDS FiniteSets

CONSTANTS Threads,    \* callers of the list
          Elements    \* references that can be handed to Add

VARIABLES stored,     \* elements in the list
          op,         \* op[t]: the member function t is executing, or "none"
          hands,      \* hands[t]: the argument of Add, or the result of a getter
          claim,      \* claim[t]: the stored element the getter t will take
          quiet       \* quiet[t]: no Add overlapped the getter t so far

storeVars == <<stored, op, hands, claim, quiet>>

Getters == {"GetElement", "GetElements"}

StoreTypeOK ==
    /\ stored \subseteq Elements
    /\ op \in [Threads -> {"none", "Add"} \union Getters]
    /\ hands \in [Threads -> SUBSET Elements]
    /\ claim \in [Threads -> SUBSET Elements]
    /\ quiet \in [Threads -> BOOLEAN]

StoreInit ==
    /\ stored = {}
    /\ op = [t \in Threads |-> "none"]
    /\ hands = [t \in Threads |-> {}]
    /\ claim = [t \in Threads |-> {}]
    /\ quiet = [t \in Threads |-> FALSE]

(***************************************************************************)
(* A call begins.  A getter is quiet if it starts while no Add runs, until *)
(* one starts.                                                             *)
(***************************************************************************)
Overlap(t, f) ==
    [u \in Threads |->
        /\ f # "Add"
        /\ IF u = t THEN \A o \in Threads : op[o] # "Add" ELSE quiet[u]]

Begin(t, f, args) ==
    /\ op[t] = "none"
    /\ op' = [op EXCEPT ![t] = f]
    /\ hands' = [hands EXCEPT ![t] = args]
    /\ quiet' = Overlap(t, f)
    /\ UNCHANGED <<stored, claim>>

Held == UNION {hands[t] : t \in Threads}
Claimed == UNION {claim[t] : t \in Threads}

CallAdd(t, e) ==
    /\ e \notin stored \union Held
    /\ Begin(t, "Add", {e})

CallGet(t, f) == Begin(t, f, {})

\* The element becomes visible to the getters.
Put(t) ==
    /\ op[t] = "Add"
    /\ hands[t] # {}
    /\ stored' = stored \union hands[t]
    /\ hands' = [hands EXCEPT ![t] = {}]
    /\ UNCHANGED <<op, claim, quiet>>

\* A getter has come to an element: nobody else can take it now.
Claim(t, e) ==
    /\ op[t] \in Getters
    /\ op[t] = "GetElement" => hands[t] = {}
    /\ claim[t] = {}
    /\ e \in stored \ Claimed
    /\ claim' = [claim EXCEPT ![t] = {e}]
    /\ UNCHANGED <<stored, op, hands, quiet>>

Take(t) ==
    /\ claim[t] # {}
    /\ stored' = stored \ claim[t]
    /\ hands' = [hands EXCEPT ![t] = @ \union claim[t]]
    /\ claim' = [claim EXCEPT ![t] = {}]
    /\ UNCHANGED <<op, quiet>>

Finish(t) ==
    /\ op' = [op EXCEPT ![t] = "none"]
    /\ hands' = [hands EXCEPT ![t] = {}]
    /\ quiet' = [quiet EXCEPT ![t] = FALSE]
    /\ UNCHANGED <<stored, claim>>

\* Add leaves with an exception: the list has not kept the element.
Reject(t) ==
    /\ op[t] = "Add"
    /\ hands[t] # {}
    /\ Finish(t)

\* The result says that nothing was left.
Exhausted(t) ==
    op[t] = "GetElements" \/ (op[t] = "GetElement" /\ hands[t] = {})

Return(t) ==
    /\ op[t] # "none"
    /\ op[t] = "Add" => hands[t] = {}
    /\ claim[t] = {}
    /\ Exhausted(t) /\ quiet[t] => stored \subseteq Claimed
    /\ Finish(t)

StoreNext ==
    \E t \in Threads :
        \/ \E e \in Elements : CallAdd(t, e) \/ Claim(t, e)
        \/ \E f \in Getters : CallGet(t, f)
        \/ Put(t)
        \/ Take(t)
        \/ Reject(t)
        \/ Return(t)

StoreSpec == StoreInit /\ [][StoreNext]_storeVars
=============================================================================
