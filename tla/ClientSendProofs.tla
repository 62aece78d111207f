-------------------------- MODULE ClientSendProofs --------------------------
(***************************************************************************)
(* Proofs about ClientSend, for any number of replies and of failures: who *)
(* has a reply, what a context may hold, and how often a failure lets the  *)
(* headers before a reply grow.                                            *)
(***************************************************************************)
EXTENDS ClientSend, FiniteSetTheorems, TLAPS

Holding == pc \in Trying \union {"scan"}

Blocks == [headers : Nat, of : Messages \union {None}]
Contexts == [e_State : States, v_Bytes : Blocks]

VarTypes ==
    /\ c_Send \subseteq Messages /\ flight \subseteq Messages
    /\ v_Data \in [Messages -> Blocks]
    /\ l_StreamContext \in Seq(Contexts)
    /\ pc \in {"perform", "get", "scan", "thrown"} \union Trying
    /\ p_Send \in Messages \union {None}
    /\ Holding => p_Send \in Messages
    /\ p_Context \in 0 .. Len(l_StreamContext) + 1
    /\ pc = "scan" => p_Context # 0
    /\ pc \in Trying => p_Context \in Indices
    /\ context \in [Messages -> Nat]
    /\ \A m \in flight : context[m] \in Indices
    /\ failures \in 0 .. MaxFailures
    /\ young \subseteq Indices

\* A header is added per attempt, and only a failed attempt is followed by
\* another one.
HeadersGrow ==
    /\ \A m \in Messages : /\ v_Data[m].headers <= failures + 1
                           /\ m \in c_Send \/ m \notin made \/ (pc = "scan" /\ m = p_Send) =>
                                 v_Data[m].headers <= failures
    /\ \A n \in Indices : l_StreamContext[n].v_Bytes.headers <= failures + 1

\* A reply is in one place.
OnePlace ==
    /\ made = c_Send \union InHand \union flight \union sent \union lost
    /\ Holding => p_Send \notin c_Send \union flight \union sent \union lost
    /\ c_Send \cap flight = {} /\ c_Send \cap sent = {} /\ c_Send \cap lost = {}
    /\ flight \cap sent = {} /\ flight \cap lost = {} /\ sent \cap lost = {}

\* A context has two users only while it is marked as used.
FewUsers ==
    \A n \in Indices :
        /\ \A a, b, c \in Users(n) : a = b \/ b = c \/ a = c
        /\ l_StreamContext[n].e_State # "IN_USE" => \A a, b \in Users(n) : a = b

\* A context that has once been left by all its users is marked from then on as
\* long as it has one, and has no second.
Settled ==
    \A n \in Indices : n \notin young =>
        /\ \A a, b \in Users(n) : a = b
        /\ l_StreamContext[n].e_State # "IN_USE" => Users(n) = {}

\* A reply has its bytes until its first attempt, and never again without a header
\* before them, since every context's bytes have one.  The context in hand holds
\* them at that attempt and no other, and so does one in flight until another
\* reply gets it.
BytesIntact ==
    /\ \A n \in Indices : l_StreamContext[n].v_Bytes.headers >= 1
    /\ \A m \in Messages :
          /\ m \in c_Send \/ m \notin made \/ (pc = "scan" /\ m = p_Send) =>
                m \in retried \/ v_Data[m] = Text(m)
          /\ m \in retried \/ (pc \in Trying /\ m = p_Send) => v_Data[m] # Text(m)
    /\ pc \in Trying =>
          (l_StreamContext[p_Context].v_Bytes = [headers |-> 1, of |-> p_Send]
              <=> p_Send \notin retried)
    /\ OnlyFirstAttemptIntact

Consistent ==
    /\ VarTypes /\ HeadersGrow /\ OnePlace
    /\ FewUsers /\ Settled /\ BytesIntact /\ NoContextLeak

USE DEF Indices, Holding, Reads

\* A header more before the bytes.
LEMMA FramedBytes ==
  ASSUME NEW b \in Blocks
  PROVE  Framed(b) \in Blocks /\ Framed(b) = [headers |-> b.headers + 1, of |-> b.of]
BY DEF Framed, Blocks

\* One context of a list is exchanged.
LEMMA Replaced ==
  ASSUME NEW s \in Seq(Contexts), NEW n \in 1 .. Len(s), NEW r \in Contexts
  PROVE  /\ [s EXCEPT ![n] = r] \in Seq(Contexts)
         /\ Len([s EXCEPT ![n] = r]) = Len(s)
         /\ \A k \in 1 .. Len(s) : [s EXCEPT ![n] = r][k] = IF k = n THEN r ELSE s[k]
OBVIOUS

\* Its state alone.
LEMMA Marked ==
  ASSUME NEW s \in Seq(Contexts), NEW n \in 1 .. Len(s), NEW e \in States
  PROVE  LET t == [s EXCEPT ![n].e_State = e]
         IN  /\ t \in Seq(Contexts) /\ Len(t) = Len(s)
             /\ \A k \in 1 .. Len(s) : /\ t[k].v_Bytes = s[k].v_Bytes
                                        /\ t[k].e_State = IF k = n THEN e ELSE s[k].e_State
  <1> DEFINE r == [s[n] EXCEPT !.e_State = e]
  <1>1. s[n] \in Contexts
    OBVIOUS
  <1>2. r \in Contexts /\ r.e_State = e /\ r.v_Bytes = s[n].v_Bytes
    BY <1>1 DEF Contexts
  <1> DEFINE u == [s EXCEPT ![n] = r]
  <1>3. [s EXCEPT ![n].e_State = e] = u
    OBVIOUS
  <1>4. u \in Seq(Contexts) /\ Len(u) = Len(s)
        /\ \A k \in 1 .. Len(s) : u[k] = IF k = n THEN r ELSE s[k]
    BY <1>2, Replaced
  <1> HIDE DEF r, u
  <1> QED
    BY <1>2, <1>3, <1>4

\* Its bytes alone.
LEMMA Loaded ==
  ASSUME NEW s \in Seq(Contexts), NEW n \in 1 .. Len(s), NEW b \in Blocks
  PROVE  LET t == [s EXCEPT ![n].v_Bytes = b]
         IN  /\ t \in Seq(Contexts) /\ Len(t) = Len(s)
             /\ \A k \in 1 .. Len(s) : /\ t[k].e_State = s[k].e_State
                                        /\ t[k].v_Bytes = IF k = n THEN b ELSE s[k].v_Bytes
  <1> DEFINE r == [s[n] EXCEPT !.v_Bytes = b]
  <1>1. s[n] \in Contexts
    OBVIOUS
  <1>2. r \in Contexts /\ r.v_Bytes = b /\ r.e_State = s[n].e_State
    BY <1>1 DEF Contexts
  <1> DEFINE u == [s EXCEPT ![n] = r]
  <1>3. [s EXCEPT ![n].v_Bytes = b] = u
    OBVIOUS
  <1>4. u \in Seq(Contexts) /\ Len(u) = Len(s)
        /\ \A k \in 1 .. Len(s) : u[k] = IF k = n THEN r ELSE s[k]
    BY <1>2, Replaced
  <1> HIDE DEF r, u
  <1> QED
    BY <1>2, <1>3, <1>4

\* A reply leaves its context.
LEMMA LeavesStep ==
  ASSUME Settled, young \subseteq Indices, NEW m, NEW k \in Indices, Leaves(m, k),
         Users(k) = Users(k)' \union {m}, m \notin Users(k)',
         \A n : Users(n)' \subseteq Users(n),
         Len(l_StreamContext') = Len(l_StreamContext),
         \A n \in Indices : n # k => l_StreamContext'[n].e_State = l_StreamContext[n].e_State
  PROVE  Settled' /\ young' \subseteq Indices'
  <1>1. young' \subseteq young /\ \A n : n \in young /\ n \notin young' => n = k /\ Users(k) = {m}
    BY DEF Leaves
  <1>2. ASSUME NEW n \in Indices, n \notin young'
        PROVE  /\ \A a, b \in Users(n)' : a = b
               /\ l_StreamContext'[n].e_State # "IN_USE" => Users(n)' = {}
    <2>1. CASE n = k
      <3>1. \A a, b \in Users(k) : a = b
        BY <1>1, <1>2, <2>1 DEF Settled
      <3>2. Users(k)' = {}
        BY <3>1
      <3> QED
        BY <2>1, <3>2
    <2>2. CASE n # k
      BY <1>1, <1>2, <2>2 DEF Settled
    <2> QED
      BY <2>1, <2>2
  <1> QED
    BY <1>1, <1>2 DEF Settled

LEMMA InitConsistent == Init => Consistent
BY ValuesOK DEF Init, Consistent, VarTypes, HeadersGrow, OnePlace, FewUsers, Settled, BytesIntact, Users,
   NoContextLeak, OnlyFirstAttemptIntact, InHand, Text, Trying, Blocks, Contexts

\* A reply is made, taken, or found to be the last; or the exception is caught.
LEMMA QueueStep ==
  ASSUME Consistent,
         (\E m \in Messages : Reply(m)) \/ BeginSend \/ NothingLeft \/ Caught \/ GetElement
         \/ SkipContext
  PROVE  Consistent'
  <1> USE ValuesOK DEF Consistent, VarTypes, HeadersGrow, OnePlace, FewUsers, Settled, BytesIntact, Users,
          NoContextLeak, OnlyFirstAttemptIntact, InHand, Trying, turn, queue, quic, history, tale, uses
  <1>1. ASSUME NEW m \in Messages, Reply(m) PROVE Consistent'
    BY <1>1 DEF Reply
  <1>2. CASE BeginSend
    BY <1>2 DEF BeginSend
  <1>3. CASE NothingLeft \/ Caught
    <2>1. CASE NothingLeft
      BY <2>1 DEF NothingLeft
    <2>2. CASE Caught
      BY <2>2 DEF Caught
    <2> QED
      BY <1>3, <2>1, <2>2
  <1>4. CASE GetElement
    <2> USE <1>4 DEF GetElement
    <2>1. VarTypes' /\ HeadersGrow' /\ OnePlace'
      OBVIOUS
    <2>2. BytesIntact' /\ NoContextLeak'
      OBVIOUS
    <2>3. \A n : Users(n)' = Users(n)
      BY DEF Users
    <2>4. FewUsers' /\ Settled'
      BY <2>3
    <2> QED
      BY <2>1, <2>2, <2>4
  <1>5. CASE SkipContext
    <2> USE <1>5 DEF SkipContext
    <2>1. VarTypes'
      OBVIOUS
    <2>2. HeadersGrow' /\ OnePlace' /\ BytesIntact' /\ NoContextLeak'
      OBVIOUS
    <2>3. \A n : Users(n)' = Users(n)
      BY DEF Users
    <2>4. FewUsers' /\ Settled'
      BY <2>3
    <2> QED
      BY <2>1, <2>2, <2>4
  <1> QED
    BY <1>1, <1>2, <1>3, <1>4, <1>5

\* The MsQuic calls up to the send.
LEMMA ProceedStep ==
  ASSUME Consistent, StreamOpen \/ StreamStart
  PROVE  Consistent'
  <1> USE ValuesOK DEF Consistent, Trying, queue, quic, history, tale, uses
  <1>1. /\ pc \in Trying /\ pc' \in Trying
        /\ UNCHANGED <<queue, l_StreamContext, p_Send, p_Context, quic, history>>
    BY DEF StreamOpen, StreamStart, Proceed
  <1>2. VarTypes' /\ HeadersGrow'
    BY <1>1 DEF VarTypes, HeadersGrow
  <1>3. OnePlace'
    BY <1>1 DEF OnePlace, InHand
  <1>4. FewUsers' /\ Settled' /\ NoContextLeak'
    BY <1>1 DEF FewUsers, Settled, Users, NoContextLeak
  <1>5. BytesIntact'
    BY <1>1 DEF BytesIntact, OnlyFirstAttemptIntact
  <1> QED
    BY <1>2, <1>3, <1>4, <1>5

\* What the choice of a context establishes, whether it is used again or new:
\* contexts are those before, but for the state of the one in hand.
LEMMA FillStep ==
  ASSUME Consistent, pc = "scan", NEW contexts \in Seq(Contexts),
         p_Context \in 1 .. Len(contexts),
         Len(contexts) \in {Len(l_StreamContext), Len(l_StreamContext) + 1},
         p_Context = Len(contexts) \/ Len(contexts) = Len(l_StreamContext),
         \A n \in Indices : contexts[n].v_Bytes = l_StreamContext[n].v_Bytes
                          /\ (n # p_Context => contexts[n].e_State = l_StreamContext[n].e_State),
         p_Context \in Indices =>
             l_StreamContext[p_Context].e_State # "IN_USE" /\ contexts[p_Context].e_State = "IN_USE",
         p_Context \notin Indices => contexts[p_Context] = [e_State |-> "FREE", v_Bytes |-> Text(None)],
         young' = IF p_Context \in Indices THEN young ELSE young \union {p_Context},
         Fill(contexts)
  PROVE  Consistent'
  <1> USE ValuesOK DEF Consistent
  <1>0. /\ l_StreamContext' = [contexts EXCEPT ![p_Context].v_Bytes = Framed(v_Data[p_Send])]
        /\ v_Data' = [v_Data EXCEPT ![p_Send] = contexts[p_Context].v_Bytes]
        /\ pc' = "open"
        /\ overtaken' = overtaken \union (IF p_Context \in young THEN Users(p_Context) ELSE {})
        /\ UNCHANGED <<c_Send, p_Send, p_Context, flight, context, made, sent, lost,
                       retried, stuck, failures>>
    BY DEF Fill, quic, tale
  <1>1. p_Send \in Messages /\ v_Data[p_Send] \in Blocks /\ Framed(v_Data[p_Send]) \in Blocks
        /\ Framed(v_Data[p_Send]) = [headers |-> v_Data[p_Send].headers + 1, of |-> v_Data[p_Send].of]
        /\ v_Data[p_Send].headers \in Nat
    BY FramedBytes DEF VarTypes, Blocks
  <1>2. l_StreamContext' \in Seq(Contexts) /\ Len(l_StreamContext') = Len(contexts)
    BY <1>0, <1>1, Loaded
  <1>3. \A n \in 1 .. Len(contexts) :
           /\ l_StreamContext'[n].e_State = contexts[n].e_State
           /\ l_StreamContext'[n].v_Bytes =
                 IF n = p_Context THEN Framed(v_Data[p_Send]) ELSE contexts[n].v_Bytes
    BY <1>0, <1>1, Loaded
  <1>4. Len(contexts) \in Nat /\ Len(l_StreamContext) \in Nat /\ failures \in Nat
    BY DEF VarTypes
  <1>5. contexts[p_Context].v_Bytes \in Blocks
    <2>1. contexts[p_Context] \in Contexts
      OBVIOUS
    <2> QED
      BY <2>1 DEF Contexts
  <1>6. contexts[p_Context].v_Bytes.headers <= failures + 1
    BY <1>4 DEF HeadersGrow, Text
  <1>7. VarTypes'
    <2>1. v_Data' \in [Messages -> Blocks]
      BY <1>0, <1>5 DEF VarTypes
    <2>2. Indices \subseteq Indices' /\ p_Context \in Indices' /\ Len(l_StreamContext') \in Nat
      BY <1>2, <1>4
    <2>3. pc' = "open" /\ pc' \in Trying
      BY <1>0 DEF Trying
    <2>4. p_Context' = p_Context
      BY <1>0
    <2>5. p_Context' \in 0 .. Len(l_StreamContext') + 1
      BY <1>2, <1>4, <2>4
    <2> QED
      BY <1>0, <1>1, <1>2, <2>1, <2>2, <2>3, <2>5 DEF VarTypes
  <1>8. HeadersGrow'
    <2>1. \A m \in Messages : v_Data'[m] = IF m = p_Send THEN contexts[p_Context].v_Bytes
                                                       ELSE v_Data[m]
      BY <1>0, <1>1 DEF VarTypes
    <2>2. p_Send \in made /\ p_Send \notin c_Send
      BY DEF OnePlace, InHand
    <2>3. v_Data[p_Send].headers <= failures
      BY <1>1 DEF HeadersGrow
    <2>4. \A n \in 1 .. Len(contexts) : l_StreamContext'[n].v_Bytes.headers <= failures + 1
      BY <1>1, <1>3, <1>4, <2>3 DEF HeadersGrow
    <2> QED
      BY <1>0, <1>2, <1>6, <2>1, <2>2, <2>4 DEF HeadersGrow
  <1>9. OnePlace'
    BY <1>0 DEF OnePlace, InHand, Trying
  <1>10. FewUsers' /\ Settled'
    <2>1. PICK k \in 1 .. Len(contexts) : k = p_Context
      OBVIOUS
    <2>2. ASSUME NEW n \in 1 .. Len(contexts), n # k
          PROVE  Users(n)' = Users(n) /\ n \in Indices
                 /\ l_StreamContext'[n].e_State = l_StreamContext[n].e_State
      BY <1>0, <1>3, <1>4, <2>1, <2>2 DEF Users, Trying
    <2>3. Users(k)' = Users(k) \union {p_Send}
      BY <1>0, <2>1 DEF Users, Trying
    <2>4. k \notin Indices => Users(k) = {}
      BY <2>1 DEF Users, Trying, VarTypes
    <2>5. \A a, b \in Users(k) : a = b
      BY <2>1, <2>4 DEF FewUsers
    <2>6. \A a, b, c \in Users(k)' : a = b \/ b = c \/ a = c
      BY <2>3, <2>5
    <2>7. l_StreamContext'[k].e_State # "IN_USE" => \A a, b \in Users(k)' : a = b
      BY <1>3, <2>1, <2>3, <2>4
    <2>8. ASSUME NEW n \in 1 .. Len(contexts)
          PROVE  /\ \A a, b, c \in Users(n)' : a = b \/ b = c \/ a = c
                 /\ l_StreamContext'[n].e_State # "IN_USE" => \A a, b \in Users(n)' : a = b
      BY <2>2, <2>6, <2>7 DEF FewUsers
    <2>9. FewUsers'
      BY <1>2, <2>8 DEF FewUsers
    <2>10. k \notin young' => Users(k)' = {p_Send} /\ l_StreamContext'[k].e_State = "IN_USE"
      BY <1>3, <2>1, <2>3 DEF Settled
    <2>11. ASSUME NEW n \in 1 .. Len(contexts), n \notin young'
           PROVE  /\ \A a, b \in Users(n)' : a = b
                  /\ l_StreamContext'[n].e_State # "IN_USE" => Users(n)' = {}
      <3>1. CASE n = k
        BY <2>10, <2>11, <3>1
      <3>2. CASE n # k
        BY <2>2, <2>11, <3>2 DEF Settled
      <3> QED
        BY <3>1, <3>2
    <2> QED
      BY <1>2, <2>9, <2>11 DEF Settled
  <1>11. BytesIntact'
    <2>1. v_Data[p_Send] = Text(p_Send) <=> Framed(v_Data[p_Send]) = [headers |-> 1, of |-> p_Send]
      BY <1>1 DEF Text, Blocks
    <2>2. p_Send \in made /\ p_Send \notin c_Send
      BY DEF OnePlace, InHand
    <2>3. l_StreamContext'[p_Context].v_Bytes = [headers |-> 1, of |-> p_Send]
             <=> p_Send \notin retried
      BY <1>1, <1>3, <2>1 DEF BytesIntact
    <2>4. \A m \in Messages : m # p_Send => v_Data'[m] = v_Data[m]
      BY <1>0, <1>1 DEF VarTypes
    <2>5. ASSUME NEW m \in flight, context[m] = p_Context PROVE m \in overtaken'
      <3>1. p_Context \in Indices /\ m \in Users(p_Context)
        BY <2>5 DEF VarTypes, Users
      <3>2. p_Context \in young
        BY <3>1 DEF Settled
      <3> QED
        BY <1>0, <3>1, <3>2
    <2>6. ASSUME NEW m \in flight, context[m] # p_Context PROVE Reads(m)' = Reads(m)
      <3>1. context[m] \in Indices /\ context[m] \in 1 .. Len(contexts)
        BY <1>4 DEF VarTypes
      <3> QED
        BY <1>0, <1>3, <2>6, <3>1
    <2>7. OnlyFirstAttemptIntact'
      BY <1>0, <2>5, <2>6 DEF BytesIntact, OnlyFirstAttemptIntact
    <2>8. v_Data'[p_Send] # Text(p_Send)
      <3>1. contexts[p_Context].v_Bytes # Text(p_Send)
        BY <1>1, <1>4 DEF BytesIntact, Text
      <3> QED
        BY <1>0, <1>1, <3>1 DEF VarTypes
    <2>9. \A n \in 1 .. Len(contexts) : l_StreamContext'[n].v_Bytes.headers >= 1
      BY <1>1, <1>3, <1>4 DEF BytesIntact
    <2>10. \A m \in Messages : m \in retried => v_Data'[m] # Text(m)
      BY <2>4, <2>8 DEF BytesIntact
    <2> QED
      BY <1>0, <1>1, <1>2, <2>2, <2>3, <2>4, <2>7, <2>8, <2>9, <2>10 DEF BytesIntact, Text
  <1>12. NoContextLeak'
    <2>1. \A n \in 1 .. Len(contexts) : n # p_Context =>
             n \in Indices /\ l_StreamContext'[n].e_State = l_StreamContext[n].e_State
      BY <1>3, <1>4
    <2> QED
      BY <1>0, <1>2, <2>1 DEF NoContextLeak, Trying
  <1> QED
    BY <1>7, <1>8, <1>9, <1>10, <1>11, <1>12

\* A context is chosen.
LEMMA ChooseStep ==
  ASSUME Consistent, UseContext \/ NewContext
  PROVE  Consistent'
  <1>1. l_StreamContext \in Seq(Contexts) /\ p_Context \in 0 .. Len(l_StreamContext) + 1
        /\ (pc = "scan" => p_Context # 0)
    BY DEF Consistent, VarTypes
  <1>2. CASE UseContext
    <2> DEFINE C == [l_StreamContext EXCEPT ![p_Context].e_State = "IN_USE"]
    <2>1. Fill(C) /\ pc = "scan" /\ p_Context \in Indices /\ young' = young
          /\ l_StreamContext[p_Context].e_State # "IN_USE"
      BY <1>2 DEF UseContext, MarkedInUse, Reusable
    <2>2. "IN_USE" \in States
      BY DEF States
    <2>3. C \in Seq(Contexts) /\ Len(C) = Len(l_StreamContext)
      BY <1>1, <2>1, <2>2, Marked
    <2>4. \A n \in Indices : C[n].v_Bytes = l_StreamContext[n].v_Bytes
                          /\ (n # p_Context => C[n].e_State = l_StreamContext[n].e_State)
      BY <1>1, <2>1, <2>2, Marked
    <2>5. C[p_Context].e_State = "IN_USE"
      BY <1>1, <2>1, <2>2, Marked
    <2> HIDE DEF C
    <2> QED
      BY <2>1, <2>3, <2>4, <2>5, FillStep
  <1>3. CASE NewContext
    <2> DEFINE N == [e_State |-> "FREE", v_Bytes |-> Text(None)]
               C == Append(l_StreamContext, N)
    <2>1. N \in Contexts
      BY DEF States, Text, Contexts, Blocks
    <2> HIDE DEF N
    <2>2. C \in Seq(Contexts) /\ Len(C) = Len(l_StreamContext) + 1 /\ Len(C) \in Nat
      BY <1>1, <2>1
    <2>3. pc = "scan" /\ Fill(C) /\ p_Context \notin Indices /\ young' = young \union {p_Context}
      BY <1>3 DEF NewContext, N
    <2>4. p_Context = Len(C) /\ C[p_Context] = N
      BY <1>1, <2>1, <2>2, <2>3
    <2>5. \A n \in Indices : C[n] = l_StreamContext[n] /\ n # p_Context
      BY <1>1, <2>1, <2>2, <2>3
    <2> HIDE DEF C
    <2> QED
      BY <2>2, <2>3, <2>4, <2>5, FillStep DEF N
  <1> QED
    BY <1>2, <1>3

\* MsQuic takes the bytes of the context in hand.
LEMMA SendStep ==
  ASSUME Consistent, StreamSend
  PROVE  Consistent'
  <1> USE ValuesOK DEF Consistent
  <1>0. /\ pc = "send" /\ pc \in Trying /\ pc' = "get" /\ pc' \notin Trying /\ "send" # "scan"
        /\ flight' = flight \union {p_Send}
        /\ context' = [context EXCEPT ![p_Send] = p_Context]
        /\ UNCHANGED <<c_Send, v_Data, l_StreamContext, p_Send, p_Context, made, sent, lost,
                       retried, stuck, failures, young, overtaken>>
    BY DEF StreamSend, queue, history, tale, uses, Trying
  <1>1. p_Send \in Messages /\ p_Context \in Indices /\ p_Context \in Nat /\ p_Send \notin flight
    BY <1>0 DEF VarTypes, OnePlace
  <1>2. l_StreamContext[p_Context] \in Contexts
    BY <1>1 DEF VarTypes
  <1>3. VarTypes'
    BY <1>0, <1>1, <1>2 DEF VarTypes, Contexts
  <1>4. HeadersGrow'
    BY <1>0, <1>1 DEF HeadersGrow, VarTypes
  <1>5. OnePlace'
    BY <1>0 DEF OnePlace, InHand
  <1>6. FewUsers' /\ Settled' /\ NoContextLeak'
    <2>1. \A n \in Nat : Users(n)' \subseteq Users(n)
      BY <1>0, <1>1 DEF Users, VarTypes
    <2>2. Len(l_StreamContext) \in Nat
      BY DEF VarTypes
    <2>3. FewUsers' /\ Settled'
      BY <1>0, <2>1, <2>2 DEF FewUsers, Settled
    <2>4. context'[p_Send] = p_Context /\ \A m \in flight : context'[m] = context[m]
      BY <1>0, <1>1 DEF VarTypes
    <2> QED
      BY <1>0, <2>3, <2>4 DEF NoContextLeak
  <1>7. BytesIntact'
    BY <1>0, <1>1 DEF BytesIntact, OnlyFirstAttemptIntact, VarTypes
  <1> QED
    BY <1>3, <1>4, <1>5, <1>6, <1>7

\* An attempt fails, and the context and the reply go back.
LEMMA FailsStep ==
  ASSUME Consistent, AttemptFails
  PROVE  Consistent'
  <1> USE ValuesOK DEF Consistent
  <1>0. /\ pc \in Trying /\ pc # "scan" /\ pc' = "thrown" /\ pc' \notin Trying \union {"scan"}
        /\ failures < MaxFailures
        /\ c_Send' = c_Send \union {p_Send}
        /\ l_StreamContext' = [l_StreamContext EXCEPT ![p_Context].e_State = "FREE"]
        /\ retried' = retried \union {p_Send}
        /\ failures' = failures + 1
        /\ Leaves(p_Send, p_Context) /\ overtaken' = overtaken
        /\ UNCHANGED <<v_Data, p_Send, p_Context, flight, context, made, sent, lost, stuck>>
    BY DEF AttemptFails, Returned, ContextFreed, Leaves, quic, Trying
  <1>1. p_Send \in Messages /\ p_Context \in Indices /\ failures \in Nat
        /\ Len(l_StreamContext) \in Nat
    BY <1>0 DEF VarTypes
  <1>2. /\ l_StreamContext' \in Seq(Contexts) /\ Len(l_StreamContext') = Len(l_StreamContext)
        /\ \A k \in Indices :
              /\ l_StreamContext'[k].v_Bytes = l_StreamContext[k].v_Bytes
              /\ l_StreamContext'[k].e_State =
                    IF k = p_Context THEN "FREE" ELSE l_StreamContext[k].e_State
    <2>1. l_StreamContext \in Seq(Contexts) /\ "FREE" \in States
      BY DEF VarTypes, States
    <2> QED
      BY <1>0, <1>1, <2>1, Marked
  <1>3. PICK k \in Indices : k = p_Context
    BY <1>1
  <1>4. /\ \A n : Users(n)' \subseteq Users(n)
        /\ Users(k) = Users(k)' \union {p_Send} /\ p_Send \notin Users(k)'
    BY <1>0, <1>3 DEF Users, OnePlace
  <1>5. Settled' /\ young' \subseteq Indices'
    BY <1>0, <1>2, <1>3, <1>4, LeavesStep DEF VarTypes
  <1>6. VarTypes'
    BY <1>0, <1>1, <1>2, <1>5 DEF VarTypes
  <1>7. HeadersGrow'
    <2>1. \A m \in Messages : v_Data[m].headers \in Nat
      BY DEF VarTypes, Blocks
    <2>2. \A n \in Indices : l_StreamContext[n].v_Bytes.headers \in Nat
      <3>1. \A n \in Indices : l_StreamContext[n] \in Contexts
        BY DEF VarTypes
      <3> QED
        BY <3>1 DEF Contexts, Blocks
    <2>3. \A m \in Messages : v_Data'[m].headers <= failures'
      BY <1>0, <2>1 DEF HeadersGrow
    <2>4. \A n \in Indices : l_StreamContext'[n].v_Bytes.headers <= failures'
      BY <1>0, <1>2, <2>2 DEF HeadersGrow
    <2>5. \A m \in Messages : v_Data'[m].headers <= failures' + 1
      BY <1>0, <1>1, <2>1, <2>3
    <2>6. \A n \in Indices : l_StreamContext'[n].v_Bytes.headers <= failures' + 1
      BY <1>0, <1>1, <1>2, <2>2, <2>4
    <2> QED
      BY <1>2, <2>3, <2>5, <2>6 DEF HeadersGrow
  <1>8. OnePlace'
    BY <1>0 DEF OnePlace, InHand
  <1>9. FewUsers' /\ NoContextLeak'
    <2>1. \A a, b \in Users(k)' : a = b
      BY <1>4 DEF FewUsers
    <2>2. FewUsers'
      BY <1>2, <1>3, <1>4, <2>1 DEF FewUsers
    <2> QED
      BY <1>0, <1>2, <2>2 DEF NoContextLeak
  <1>10. BytesIntact'
    BY <1>0, <1>2 DEF BytesIntact, OnlyFirstAttemptIntact, OnePlace, VarTypes
  <1> QED
    BY <1>5, <1>6, <1>7, <1>8, <1>9, <1>10

\* An allocation fails, and the reply is lost.
LEMMA ThrowsStep ==
  ASSUME Consistent, NewContextThrows \/ ReturnThrows
  PROVE  Consistent'
  <1> USE ValuesOK DEF Consistent
  <1>0. /\ pc \in Trying \union {"scan"} /\ pc' = "thrown" /\ pc' \notin Trying \union {"scan"}
        /\ failures < MaxFailures /\ failures' = failures + 1
        /\ lost' = lost \union {p_Send}
        /\ pc \in Trying => stuck' = stuck \union {p_Context}
        /\ stuck \subseteq stuck'
        /\ \/ pc = "scan" /\ young' = young
           \/ pc \in Trying /\ Leaves(p_Send, p_Context)
        /\ UNCHANGED <<c_Send, v_Data, l_StreamContext, p_Send, p_Context, flight, context,
                       made, sent, retried, overtaken>>
    BY DEF NewContextThrows, ReturnThrows, Leaves, queue, quic, uses, Trying
  <1>1. failures \in Nat /\ Len(l_StreamContext) \in Nat
    BY DEF VarTypes
  <1>2. Settled' /\ young' \subseteq Indices'
    <2>1. \A n : Users(n)' \subseteq Users(n)
      BY <1>0 DEF Users
    <2>2. CASE young' = young
      BY <1>0, <2>1, <2>2 DEF Settled, VarTypes
    <2>3. CASE pc \in Trying /\ Leaves(p_Send, p_Context)
      <3>1. PICK k \in Indices : k = p_Context
        BY <2>3 DEF VarTypes
      <3>2. Users(k) = Users(k)' \union {p_Send} /\ p_Send \notin Users(k)'
        BY <1>0, <2>3, <3>1 DEF Users, OnePlace
      <3> QED
        BY <1>0, <2>1, <2>3, <3>1, <3>2, LeavesStep DEF VarTypes
    <2> QED
      BY <1>0, <2>2, <2>3
  <1>3. VarTypes'
    BY <1>0, <1>1, <1>2 DEF VarTypes
  <1>4. HeadersGrow'
    <2>1. \A m \in Messages : v_Data[m].headers \in Nat
      BY DEF VarTypes, Blocks
    <2>2. \A n \in Indices : l_StreamContext[n].v_Bytes.headers \in Nat
      <3>1. \A n \in Indices : l_StreamContext[n] \in Contexts
        BY DEF VarTypes
      <3> QED
        BY <3>1 DEF Contexts, Blocks
    <2> QED
      BY <1>0, <1>1, <2>1, <2>2 DEF HeadersGrow
  <1>5. OnePlace'
    BY <1>0 DEF OnePlace, InHand
  <1>6. FewUsers' /\ NoContextLeak'
    <2>1. \A n : Users(n)' \subseteq Users(n)
      BY <1>0 DEF Users
    <2>2. FewUsers'
      BY <1>0, <2>1 DEF FewUsers
    <2> QED
      BY <1>0, <2>2 DEF NoContextLeak
  <1>7. BytesIntact'
    BY <1>0 DEF BytesIntact, OnlyFirstAttemptIntact
  <1> QED
    BY <1>2, <1>3, <1>4, <1>5, <1>6, <1>7

\* MsQuic is done with the bytes of a reply.
LEMMA CompleteStep ==
  ASSUME Consistent, NEW m \in Messages, SendComplete(m)
  PROVE  Consistent'
  <1> USE ValuesOK DEF Consistent
  <1>0. /\ m \in flight /\ flight' = flight \ {m} /\ sent' = sent \union {m}
        /\ l_StreamContext' = [l_StreamContext EXCEPT ![context[m]].e_State = "COMPLETED"]
        /\ Leaves(m, context[m]) /\ overtaken' = overtaken
        /\ UNCHANGED <<c_Send, v_Data, pc, p_Send, p_Context, context, made, lost, retried,
                       stuck, failures>>
    BY DEF SendComplete, Leaves, queue, turn
  <1>1. PICK k \in Indices : k = context[m]
    BY <1>0 DEF VarTypes
  <1>2. /\ l_StreamContext' \in Seq(Contexts) /\ Len(l_StreamContext') = Len(l_StreamContext)
        /\ \A n \in Indices :
              /\ l_StreamContext'[n].v_Bytes = l_StreamContext[n].v_Bytes
              /\ l_StreamContext'[n].e_State =
                    IF n = k THEN "COMPLETED" ELSE l_StreamContext[n].e_State
    <2>1. l_StreamContext \in Seq(Contexts) /\ "COMPLETED" \in States
      BY DEF VarTypes, States
    <2> QED
      BY <1>0, <1>1, <2>1, Marked
  <1>3. /\ \A n : Users(n)' \subseteq Users(n)
        /\ Users(k) = Users(k)' \union {m} /\ m \notin Users(k)'
    BY <1>0, <1>1 DEF Users, OnePlace
  <1>4. Settled' /\ young' \subseteq Indices'
    BY <1>0, <1>1, <1>2, <1>3, LeavesStep DEF VarTypes
  <1>5. VarTypes'
    BY <1>0, <1>2, <1>4 DEF VarTypes
  <1>6. HeadersGrow'
    BY <1>0, <1>2 DEF HeadersGrow
  <1>7. OnePlace'
    BY <1>0 DEF OnePlace, InHand
  <1>8. FewUsers' /\ NoContextLeak'
    <2>1. \A a, b \in Users(k)' : a = b
      BY <1>3 DEF FewUsers
    <2>2. FewUsers'
      BY <1>2, <1>3, <2>1 DEF FewUsers
    <2> QED
      BY <1>0, <1>1, <1>2, <2>2 DEF NoContextLeak
  <1>9. BytesIntact'
    BY <1>0, <1>2 DEF BytesIntact, OnlyFirstAttemptIntact, VarTypes
  <1> QED
    BY <1>4, <1>5, <1>6, <1>7, <1>8, <1>9

LEMMA NextConsistent == Consistent /\ [Next]_vars => Consistent'
  <1> SUFFICES ASSUME Consistent, [Next]_vars PROVE Consistent'
    OBVIOUS
  <1>1. CASE Send
    BY <1>1, QueueStep, ChooseStep, ProceedStep, SendStep, FailsStep, ThrowsStep DEF Send
  <1>2. ASSUME NEW m \in Messages, Reply(m) \/ SendComplete(m) PROVE Consistent'
    BY <1>2, QueueStep, CompleteStep
  <1>3. CASE UNCHANGED vars
    BY <1>3 DEF vars, queue, turn, quic, history, tale, uses, Consistent, VarTypes, HeadersGrow,
                OnePlace, FewUsers, Settled, Users, BytesIntact, OnlyFirstAttemptIntact, NoContextLeak, InHand
  <1> QED
    BY <1>1, <1>2, <1>3 DEF Next

\* The inductive invariant of sending: who has a reply, and whose bytes a context
\* holds (Client.cpp:329-430, MsQuic.cpp:241-266).
THEOREM SendingConsistent == Spec => []Consistent
BY InitConsistent, NextConsistent, PTL DEF Spec

\* Every variable keeps its type; no reply has more headers than attempts were
\* made.
THEOREM TypeCorrect == Spec => []TypeOK
  <1>1. Consistent => TypeOK
    <2> SUFFICES ASSUME Consistent PROVE TypeOK
      OBVIOUS
    <2> USE DEF Consistent
    <2>1. ASSUME NEW b \in Blocks, b.headers <= failures + 1 PROVE b \in Bytes
      BY <2>1, ValuesOK DEF Blocks, Bytes, VarTypes
    <2>2. v_Data \in [Messages -> Bytes]
      BY <2>1 DEF VarTypes, HeadersGrow
    <2>3. ASSUME NEW n \in Indices
          PROVE  l_StreamContext[n].e_State \in States /\ l_StreamContext[n].v_Bytes \in Bytes
      <3>1. l_StreamContext[n] \in Contexts
        BY DEF VarTypes
      <3> QED
        BY <2>1, <3>1 DEF HeadersGrow, Contexts
    <2> QED
      BY <2>2, <2>3 DEF VarTypes, TypeOK
  <1> QED
    BY <1>1, SendingConsistent, PTL

\* A context in use has a send, the worker, or an exception that left it
\* (Client.cpp:357-425).
THEOREM ContextsReturn == Spec => []NoContextLeak
  <1>1. Consistent => NoContextLeak
    BY DEF Consistent
  <1> QED
    BY <1>1, SendingConsistent, PTL

\* A reply is in one place at a time (Client.cpp:334-422).
THEOREM RepliesStay == Spec => []RepliesKept
  <1>1. Consistent => RepliesKept
    <2> SUFFICES ASSUME OnePlace PROVE RepliesKept
      BY DEF Consistent
    <2>1. DOMAIN Places = 1 .. 5 /\ Places[1] = c_Send /\ Places[2] = InHand /\ Places[3] = flight
          /\ Places[4] = sent /\ Places[5] = lost
      BY DEF Places
    <2>2. \A n \in DOMAIN Places : n = 1 \/ n = 2 \/ n = 3 \/ n = 4 \/ n = 5
      BY <2>1
    <2>3. UNION {Places[n] : n \in DOMAIN Places} =
             Places[1] \union Places[2] \union Places[3] \union Places[4] \union Places[5]
      BY <2>1, <2>2
    <2>4. \A n, o \in DOMAIN Places : n # o => Places[n] \cap Places[o] = {}
      BY <2>1, <2>2 DEF OnePlace, InHand
    <2> QED
      BY <2>1, <2>3, <2>4 DEF OnePlace, RepliesKept
  <1> QED
    BY <1>1, SendingConsistent, PTL

\* A context never has three replies (Client.cpp:357-377).
THEOREM TwoPerContext == Spec => []AtMostTwoPerContext
  <1>1. ASSUME NEW S, \A a, b, c \in S : a = b \/ b = c \/ a = c
        PROVE  Cardinality(S) <= 2
    <2>1. CASE S = {}
      BY <2>1, FS_EmptySet
    <2>2. CASE S # {}
      <3>1. PICK a \in S : TRUE
        BY <2>2
      <3>2. PICK b \in S : S = {a} \union {b}
        <4>1. CASE S = {a}
          BY <4>1
        <4>2. CASE S # {a}
          <5>1. PICK b \in S : b # a
            BY <3>1, <4>2
          <5> QED
            BY <1>1, <3>1, <5>1
        <4> QED
          BY <4>1, <4>2
      <3>3. IsFiniteSet({a}) /\ Cardinality({a}) = 1
        BY FS_Singleton
      <3>4. Cardinality({a} \union {b}) = IF b \in {a} THEN 1 ELSE 2
        BY <3>3, FS_AddElement
      <3> QED
        BY <3>2, <3>4
    <2> QED
      BY <2>1, <2>2
  <1>2. Consistent => AtMostTwoPerContext
    BY <1>1 DEF Consistent, FewUsers, Users, AtMostTwoPerContext
  <1> QED
    BY <1>2, SendingConsistent, PTL

\* As long as a reply's context is not given away under it, MsQuic reads the reply's
\* own bytes until the send is complete if this is the first attempt at it, and
\* never if one has failed before (Client.cpp:360-422, MsQuic.cpp:249).
THEOREM OnlyFirstAttemptsIntact == Spec => []OnlyFirstAttemptIntact
  <1>1. Consistent => OnlyFirstAttemptIntact
    BY DEF Consistent, BytesIntact
  <1> QED
    BY <1>1, SendingConsistent, PTL

(***************************************************************************)
(* Send implements Outbox.                                                 *)
(***************************************************************************)
Waiting == c_Send \union InHand

\* The replies that wait are finitely many at any time.
LEMMA FiniteStep == IsFiniteSet(c_Send) /\ [Next]_vars => IsFiniteSet(c_Send)'
  <1> SUFFICES ASSUME IsFiniteSet(c_Send), [Next]_vars PROVE IsFiniteSet(c_Send')
    OBVIOUS
  <1>1. c_Send' \subseteq c_Send \/ \E m : c_Send' = c_Send \union {m}
    BY DEF Next, Send, BeginSend, NothingLeft, GetElement, SkipContext, UseContext, NewContext, Fill,
           NewContextThrows, StreamOpen, StreamStart, Proceed, StreamSend, AttemptFails, Returned,
           ReturnThrows, Caught, Reply, SendComplete, vars, queue
  <1> QED
    BY <1>1, FS_Subset, FS_AddElement

\* One reply more or less in what waits.
LEMMA OneMore ==
  ASSUME NEW S, IsFiniteSet(S), NEW m, m \notin S
  PROVE  /\ Cardinality(S) \in Nat
         /\ Cardinality(S \union {m}) \in Nat
         /\ Cardinality(S \union {m}) = Cardinality(S) + 1
BY FS_AddElement, FS_CardinalityType

\* A call of Send begins or returns, or Perform ends after its exception.
LEMMA BoundsRefine ==
  ASSUME Consistent, IsFiniteSet(c_Send), BeginSend \/ NothingLeft \/ Caught
  PROVE  [Outbox!Next]_Outbox!outboxVars
  <1> USE DEF Outbox!Next, Outbox!outboxVars
  <1>1. Waiting = c_Send /\ Waiting' = c_Send /\ pc \notin Trying
    BY DEF Waiting, InHand, Trying, BeginSend, NothingLeft, Caught, queue
  <1>2. CASE BeginSend
    BY <1>1, <1>2 DEF BeginSend, CallOfSend, Outbox!Begin, Waiting
  <1>3. CASE NothingLeft
    <2>1. Cardinality(Waiting) = 0
      BY <1>1, <1>3, FS_EmptySet DEF NothingLeft, AllSent
    <2> QED
      BY <1>1, <1>3, <2>1 DEF NothingLeft, CallOfSend, Outbox!End, Waiting
  <1>4. CASE Caught
    BY <1>1, <1>4 DEF Caught, CallOfSend, Outbox!Retry, Waiting
  <1> QED
    BY <1>2, <1>3, <1>4

\* A reply is added.
LEMMA ReplyRefines ==
  ASSUME Consistent, IsFiniteSet(c_Send), NEW m \in Messages, Reply(m)
  PROVE  Outbox!Reply
  <1>1. Waiting = c_Send /\ Waiting' = c_Send \union {m} /\ m \notin c_Send
    BY DEF Waiting, InHand, Trying, Reply, turn, Consistent, OnePlace
  <1>2. Cardinality(Waiting') = Cardinality(Waiting) + 1
    BY <1>1, OneMore
  <1> QED
    BY <1>2 DEF Reply, turn, CallOfSend, Outbox!Reply, Waiting

\* The steps between GetElement and StreamSend.
LEMMA HandlingRefines ==
  ASSUME Consistent, GetElement \/ SkipContext \/ UseContext \/ NewContext \/ StreamOpen \/ StreamStart
  PROVE  UNCHANGED Outbox!outboxVars
  <1>1. Waiting' = Waiting /\ pc \notin {"perform", "thrown"} /\ pc' \notin {"perform", "thrown"}
    BY DEF Consistent, OnePlace, VarTypes, Waiting, InHand, Trying, GetElement, SkipContext,
           UseContext, NewContext, Fill, StreamOpen, StreamStart, Proceed, queue
  <1> QED
    BY <1>1 DEF CallOfSend, Outbox!outboxVars, Waiting

\* The reply in hand leaves with MsQuic, or the call ends with an exception.
LEMMA EndsRefine ==
  ASSUME Consistent, IsFiniteSet(c_Send), StreamSend \/ AttemptFails \/ NewContextThrows \/ ReturnThrows
  PROVE  Outbox!Hand \/ Outbox!Fail
  <1>1. /\ Waiting = c_Send \union {p_Send} /\ p_Send \notin c_Send /\ CallOfSend = "runs"
        /\ Waiting' = IF AttemptFails THEN Waiting ELSE c_Send
    BY DEF Consistent, OnePlace, Waiting, InHand, Trying, CallOfSend, StreamSend, AttemptFails, Returned,
           NewContextThrows, ReturnThrows, queue
  <1>2. /\ Cardinality(Waiting) \in Nat /\ Cardinality(c_Send) \in Nat
        /\ Cardinality(Waiting) = Cardinality(c_Send) + 1
    BY <1>1, OneMore
  <1>3. CASE StreamSend
    <2>1. Waiting' = c_Send /\ CallOfSend' = "runs"
      BY <1>1, <1>3 DEF StreamSend, AttemptFails, CallOfSend
    <2>2. /\ Cardinality(Waiting) > 0
          /\ Cardinality(Waiting') = Cardinality(Waiting) - 1
      BY <1>2, <2>1
    <2> QED
      BY <1>1, <2>1, <2>2 DEF Outbox!Hand, Waiting
  <1>4. CASE AttemptFails \/ NewContextThrows \/ ReturnThrows
    <2>1. CallOfSend' = "thrown"
      BY <1>4 DEF AttemptFails, NewContextThrows, ReturnThrows, CallOfSend
    <2>2. /\ Cardinality(Waiting) > 0
          /\ Cardinality(Waiting') \in {Cardinality(Waiting), Cardinality(Waiting) - 1}
      BY <1>1, <1>2
    <2> QED
      BY <1>1, <2>1, <2>2 DEF Outbox!Fail, Waiting
  <1> QED
    BY <1>3, <1>4

\* A step of Send is a step of the outbox or leaves it alone.
LEMMA NextRefines ==
  ASSUME Consistent, IsFiniteSet(c_Send), [Next]_vars
  PROVE  [Outbox!Next]_Outbox!outboxVars
  <1>1. CASE Send
    BY <1>1, BoundsRefine, HandlingRefines, EndsRefine DEF Send, Outbox!Next
  <1>2. ASSUME NEW m \in Messages, Reply(m) PROVE Outbox!Next
    BY <1>2, ReplyRefines DEF Outbox!Next
  <1>3. ASSUME NEW m \in Messages, SendComplete(m) PROVE UNCHANGED Outbox!outboxVars
    BY <1>3 DEF SendComplete, queue, turn, InHand, CallOfSend, Outbox!outboxVars
  <1>4. CASE UNCHANGED vars
    BY <1>4 DEF vars, queue, turn, InHand, CallOfSend, Outbox!outboxVars
  <1> QED
    BY <1>1, <1>2, <1>3, <1>4 DEF Next

\* Send implements the agreement with Perform: a call that returns has handed over
\* every reply, one that throws has dropped at most one (Client.cpp:329-430).
THEOREM SendImplementsOutbox == Spec => ImplementsOutbox
  <1>1. Init => Outbox!Init
    BY FS_EmptySet DEF Init, InHand, Trying, CallOfSend, Outbox!Init
  <1>2. Init => IsFiniteSet(c_Send)
    BY FS_EmptySet DEF Init
  <1>3. Spec => []IsFiniteSet(c_Send)
    BY <1>2, FiniteStep, PTL DEF Spec
  <1>4. Consistent /\ IsFiniteSet(c_Send) /\ [Next]_vars => [Outbox!Next]_Outbox!outboxVars
    BY NextRefines
  <1> QED
    BY <1>1, <1>3, <1>4, SendingConsistent, PTL DEF Spec, ImplementsOutbox, Outbox!Spec
=============================================================================
