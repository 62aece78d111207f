----------------------------- MODULE ClientSend -----------------------------
(***************************************************************************)
(* Client::Send (src/src/Server/Client.cpp) and the callback of the        *)
(* streams it opens (StreamSendCallback, src/src/Server/MsQuic/MsQuic.cpp).*)
(* Every reply gets a stream and a StreamSendContext.  MsQuic is given a   *)
(* pointer to its v_Bytes and reads them at any time until it reports      *)
(* SEND_COMPLETE: nothing is copied.  Contexts are kept and used again.    *)
(*                                                                         *)
(* Only the worker inside Perform sends (ClientPerform), so the callbacks  *)
(* are the one other actor.  Bytes are abstracted to what a receiver could *)
(* tell apart: the reply they came from and the QUIC_BUFFER headers before *)
(* it.  c_Send has one user and its order promises nothing: it is a set.   *)
(***************************************************************************)
EXTENDS Naturals, FiniteSets, Sequences

CONSTANTS Messages,
          None,          \* no message; the text of empty bytes
          MaxFailures    \* bound: failed attempts to send

ASSUME ValuesOK == None \notin Messages /\ MaxFailures \in Nat

VARIABLES c_Send,            \* replies waiting
          v_Data,            \* v_Data[m]: the bytes of the NetMessage object m
          l_StreamContext,   \* the contexts: e_State and v_Bytes
          pc,
          p_Send,            \* the reply in hand
          p_Context,         \* index of the context in hand, or of the scan
          flight,            \* replies MsQuic accepted and has not completed
          context,           \* context[m]: the context of the stream of m
          made, sent, lost,  \* history: replies created, completed, dropped
          retried,           \* history: replies that failed and went back to c_Send
          stuck,             \* history: contexts abandoned by an exception of Add
          young,             \* history: contexts with a reply ever since made
          overtaken,         \* history: replies whose young context got another
          failures           \* history: failed attempts, to MaxFailures

queue == <<c_Send, v_Data>>
turn == <<pc, p_Send, p_Context>>
quic == <<flight, context>>
tale == <<made, sent, lost, retried, stuck, failures>>
uses == <<young, overtaken>>
history == <<tale, uses>>
vars == <<queue, l_StreamContext, turn, quic, history>>

Text(m) == [headers |-> 0, of |-> m]

Framed(b) == [b EXCEPT !.headers = @ + 1]

Bytes == [headers : 0 .. MaxFailures + 1, of : Messages \union {None}]
States == {"FREE", "IN_USE", "COMPLETED"}
Indices == 1 .. Len(l_StreamContext)

\* From choosing a context to the end of the attempt.
Trying == {"open", "start", "send"}

TypeOK ==
    /\ c_Send \subseteq Messages
    /\ v_Data \in [Messages -> Bytes]
    /\ \A n \in Indices : l_StreamContext[n].e_State \in States
                       /\ l_StreamContext[n].v_Bytes \in Bytes
    /\ pc \in {"perform", "get", "scan", "thrown"} \union Trying
    /\ p_Send \in Messages \union {None}
    /\ p_Context \in 0 .. Len(l_StreamContext) + 1
    /\ flight \subseteq Messages
    /\ \A m \in flight : context[m] \in Indices
    /\ pc \in Trying => p_Context \in Indices
    /\ young \subseteq Indices

\* The replies whose bytes context n holds or is to hold.
Users(n) ==
    {m \in flight : context[m] = n} \union
        (IF pc \in Trying /\ p_Context = n THEN {p_Send} ELSE {})

Init ==
    /\ c_Send = {}
    /\ v_Data = [m \in Messages |-> Text(m)]
    /\ l_StreamContext = <<>>
    /\ pc = "perform" /\ p_Send = None /\ p_Context = 0
    /\ flight = {}
    /\ context = [m \in Messages |-> 0]
    /\ made = {} /\ sent = {} /\ lost = {} /\ retried = {} /\ stuck = {}
    /\ young = {} /\ overtaken = {}
    /\ failures = 0

\* Perform leaves a reply of its handlers in c_Send.
Reply(m) ==
    /\ pc = "perform" /\ m \notin made
    /\ c_Send' = c_Send \union {m}
    /\ made' = made \union {m}
    /\ UNCHANGED <<v_Data, l_StreamContext, turn, quic, sent, lost, retried, stuck, failures, uses>>

BeginSend ==
    /\ pc = "perform"
    /\ pc' = "get"
    /\ UNCHANGED <<queue, l_StreamContext, p_Send, p_Context, quic, history>>

\* Mutant: Send ends after one turn of its loop.
OneTurn == TRUE

AllSent == c_Send = {}

NothingLeft ==
    /\ pc = "get" /\ AllSent
    /\ pc' = "perform"
    /\ UNCHANGED <<queue, l_StreamContext, p_Send, p_Context, quic, history>>

GetElement ==
    /\ pc = "get"
    /\ \E m \in c_Send : c_Send' = c_Send \ {m} /\ p_Send' = m
    /\ p_Context' = 1
    /\ pc' = "scan"
    /\ UNCHANGED <<v_Data, l_StreamContext, quic, history>>

(***************************************************************************)
(* The search for a context, one entry at a time: a callback may complete  *)
(* an entry that was already passed.                                       *)
(***************************************************************************)
\* Mutant: a context in use is taken as well.
AlwaysReusable(c) == TRUE

Reusable(c) == c.e_State \in {"FREE", "COMPLETED"}

SkipContext ==
    /\ pc = "scan" /\ p_Context \in Indices
    /\ ~Reusable(l_StreamContext[p_Context])
    /\ p_Context' = p_Context + 1
    /\ UNCHANGED <<queue, l_StreamContext, pc, p_Send, quic, history>>

\* The bytes of the reply and of the context change places, and the header is
\* inserted.  A reply MsQuic still reads from this context has lost its bytes: they
\* are now in the other reply's message, and gone with it.
Fill(contexts) ==
    /\ l_StreamContext' =
           [contexts EXCEPT ![p_Context].v_Bytes = Framed(v_Data[p_Send])]
    /\ v_Data' = [v_Data EXCEPT ![p_Send] = contexts[p_Context].v_Bytes]
    /\ overtaken' = overtaken \union (IF p_Context \in young THEN Users(p_Context) ELSE {})
    /\ pc' = "open"
    /\ UNCHANGED <<c_Send, p_Send, p_Context, quic, tale>>

\* Mutant: a context that is used again is not marked either.
NotMarked(contexts, n) == contexts

MarkedInUse(contexts, n) == [contexts EXCEPT ![n].e_State = "IN_USE"]

UseContext ==
    /\ pc = "scan" /\ p_Context \in Indices
    /\ Reusable(l_StreamContext[p_Context])
    /\ Fill(MarkedInUse(l_StreamContext, p_Context))
    /\ UNCHANGED young

\* A new context: FREE, the state its constructor gives it.
NewContext ==
    /\ pc = "scan" /\ p_Context \notin Indices
    /\ Fill(Append(l_StreamContext, [e_State |-> "FREE", v_Bytes |-> Text(None)]))
    /\ young' = young \union {p_Context}

\* emplace_back throws: p_Send goes out of scope.
NewContextThrows ==
    /\ pc = "scan" /\ p_Context \notin Indices /\ failures < MaxFailures
    /\ lost' = lost \union {p_Send}
    /\ failures' = failures + 1
    /\ pc' = "thrown"
    /\ UNCHANGED <<queue, l_StreamContext, p_Send, p_Context, quic, made, sent, retried, stuck, uses>>

(***************************************************************************)
(* StreamOpen, StreamStart, StreamSend.                                    *)
(***************************************************************************)
Proceed(from, to) ==
    /\ pc = from
    /\ pc' = to
    /\ UNCHANGED <<queue, l_StreamContext, p_Send, p_Context, quic, history>>

StreamOpen == Proceed("open", "start")
StreamStart == Proceed("start", "send")

\* MsQuic keeps the pointer.
StreamSend ==
    /\ pc = "send"
    /\ flight' = flight \union {p_Send}
    /\ context' = [context EXCEPT ![p_Send] = p_Context]
    /\ pc' = "get"
    /\ UNCHANGED <<queue, l_StreamContext, p_Send, p_Context, history>>

\* Reply m is done with context n: the context is young until nobody uses it.
Leaves(m, n) ==
    /\ young' = IF Users(n) = {m} THEN young \ {n} ELSE young
    /\ UNCHANGED overtaken

\* Mutant: the failure branch does not give the context back.
ContextKept(contexts, n) == contexts

ContextFreed(contexts, n) == [contexts EXCEPT ![n].e_State = "FREE"]

\* Mutant: the failure branch does not return the reply.
NotReturned(m) == {}

Returned(m) == {m}

\* One of the three fails: the reply returns to c_Send with whatever bytes it
\* has now, and Send throws.
AttemptFails ==
    /\ pc \in Trying /\ failures < MaxFailures
    /\ c_Send' = c_Send \union Returned(p_Send)
    /\ l_StreamContext' = ContextFreed(l_StreamContext, p_Context)
    /\ retried' = retried \union {p_Send}
    /\ failures' = failures + 1
    /\ pc' = "thrown"
    /\ Leaves(p_Send, p_Context)
    /\ UNCHANGED <<v_Data, p_Send, p_Context, quic, made, sent, lost, stuck>>

\* The Add of the failure branch throws, and the rest of the branch is
\* skipped; or the insertion of the header throws, before StreamOpen.
ReturnThrows ==
    /\ pc \in Trying /\ failures < MaxFailures
    /\ lost' = lost \union {p_Send}
    /\ stuck' = stuck \union {p_Context}
    /\ failures' = failures + 1
    /\ pc' = "thrown"
    /\ Leaves(p_Send, p_Context)
    /\ UNCHANGED <<queue, l_StreamContext, p_Send, p_Context, quic, made, sent, retried>>

\* SEND_COMPLETE, also when MsQuic cancels the send.
SendComplete(m) ==
    /\ m \in flight
    /\ flight' = flight \ {m}
    /\ sent' = sent \union {m}
    /\ l_StreamContext' = [l_StreamContext EXCEPT ![context[m]].e_State = "COMPLETED"]
    /\ Leaves(m, context[m])
    /\ UNCHANGED <<queue, turn, context, made, lost, retried, stuck, failures>>

\* Perform has caught the exception, returns false, and is called again.
Caught ==
    /\ pc = "thrown"
    /\ pc' = "perform"
    /\ UNCHANGED <<queue, l_StreamContext, p_Send, p_Context, quic, history>>

Send ==
    \/ BeginSend \/ NothingLeft \/ GetElement
    \/ SkipContext \/ UseContext \/ NewContext \/ NewContextThrows
    \/ StreamOpen \/ StreamStart \/ StreamSend
    \/ AttemptFails \/ ReturnThrows \/ Caught

Next == Send \/ \E m \in Messages : Reply(m) \/ SendComplete(m)

Spec == Init /\ [][Next]_vars

(***************************************************************************)
(* Properties.                                                             *)
(***************************************************************************)

\* A context is in use only for a reason: MsQuic has a send of it, the worker
\* holds it, or an exception of Add abandoned it.  So the list grows only as
\* far as sends overlap, whatever fails (Client.cpp:357-377, 404, 412, 424).
NoContextLeak ==
    \A n \in Indices : l_StreamContext[n].e_State = "IN_USE" =>
        \/ \E m \in flight : context[m] = n
        \/ pc \in Trying /\ p_Context = n
        \/ n \in stuck

InHand == IF pc \in Trying \union {"scan"} THEN {p_Send} ELSE {}
Places == <<c_Send, InHand, flight, sent, lost>>

\* A reply is in one place at a time: waiting, in the worker's hand, with
\* MsQuic, completed, or dropped by an exception of an allocation
\* (Client.cpp:334, 375, 403, 410, 422).
RepliesKept ==
    /\ made = UNION {Places[n] : n \in DOMAIN Places}
    /\ \A n, o \in DOMAIN Places : n # o => Places[n] \cap Places[o] = {}

\* A reply is waiting until MsQuic accepts it or an exception drops it.
CallOfSend ==
    IF pc = "perform" THEN "none" ELSE IF pc = "thrown" THEN "thrown" ELSE "runs"

Outbox == INSTANCE Outbox WITH
    waiting <- Cardinality(c_Send \union InHand),
    call <- CallOfSend

\* Send keeps its side of the agreement with Perform: it returns only when every
\* reply was handed over, drops at most the reply in hand when it throws, and none is
\* added or lost in between (Client.cpp:329-430).
ImplementsOutbox == Outbox!Spec

\* A new context is not marked while its first send is under way, so a second
\* reply may be given it before MsQuic has completed the first; but never a
\* third one: once overtaken, a context is given out again only for each
\* completion (Client.cpp:357-377, MsQuic.cpp:249).
AtMostTwoPerContext == \A n \in Indices : Cardinality(Users(n)) <= 2

\* What MsQuic reads for a reply in flight.
Reads(m) == l_StreamContext[context[m]].v_Bytes

\* Of the replies whose context is not given away under them, those at their first
\* attempt are read with the bytes they were made of at any time from StreamSend to
\* SEND_COMPLETE, and those that failed before never are: the failure branch leaves
\* the bytes in the context, and the reply returns with what the context held.  A
\* context is given away only as long as it has not once been without a reply
\* since it was made; after that its mark protects every send (Client.cpp:360-386,
\* 403, 410, 422, MsQuic.cpp:249).
OnlyFirstAttemptIntact ==
    \A m \in flight \ overtaken : Reads(m) = [headers |-> 1, of |-> m] <=> m \notin retried
=============================================================================
