------------------------ MODULE StreamRecieveProofs ------------------------
(***************************************************************************)
(* Proofs about StreamRecieve, for any streams, any sizes and any setting  *)
(* of the server.                                                          *)
(***************************************************************************)
EXTENDS StreamRecieve, FiniteSetTheorems, TLAPS

Receiving(s) == phase[s] = "receiving"

\* A receiving stream has a context, with what was received of it.
Attached ==
    \A s \in Streams : Receiving(s) =>
        /\ context[s] \in DOMAIN l_Recieved
        /\ l_Recieved[context[s]] = [e_State |-> "IN_USE", v_Bytes |-> Pieces(s, pieces[s])]

\* It is the context of no other receiving stream.
Exclusive ==
    \A s, t \in Streams : Receiving(s) /\ Receiving(t) /\ context[s] = context[t] => s = t

\* While streams may start, a context that is not free has a receiving stream.
Held ==
    connection = "open" =>
        \A n \in DOMAIN l_Recieved :
            \/ l_Recieved[n].e_State = "FREE"
            \/ \E s \in Streams : Receiving(s) /\ context[s] = n

NotBegun == \A s \in Streams : phase[s] = "unopened" => pieces[s] = 0

Ended == connection = "closed" => \A s \in Streams : ~Receiving(s)

Consistent ==
    /\ TypeOK
    /\ Attached /\ Exclusive /\ Held /\ NotBegun /\ Ended
    /\ WholeStreams /\ ContextsBounded

\* The first n pieces of a stream are bytes, and one more piece makes n + 1.
LEMMA PiecesGrow ==
  ASSUME NEW s \in Streams, NEW n \in Nat
  PROVE  /\ Pieces(s, n) \in Bytes
         /\ Append(Pieces(s, n), <<s, n + 1>>) = Pieces(s, n + 1)
         /\ Pieces(s, 0) = <<>>
BY DEF Pieces, Bytes

\* The setting is a number of its type (Server.cpp:152).
LEMMA SettingIsCount == PeerUnidiStreamCount \in Nat
  <1>1. i_MaxClientCount * CLIENT_STREAMS_MULTIPLIER \in Nat
    BY SettingsOK
  <1> QED
    BY <1>1, SettingsOK DEF PeerUnidiStreamCount

\* The initial state is consistent.
LEMMA InitConsistent == Init => Consistent
  <1> SUFFICES ASSUME Init PROVE Consistent
    OBVIOUS
  <1>1. TypeOK
    BY SettingsOK DEF Init, TypeOK, Bytes
  <1> QED
    BY <1>1, SettingIsCount
    DEF Init, Consistent, Attached, Exclusive, Held, NotBegun, Ended, WholeStreams,
        ContextsBounded, Receiving

\* A connection without a free context has as many receiving streams as contexts.
LEMMA RoomForContext ==
  ASSUME Consistent, connection = "open", FreeContexts = {},
         Cardinality(Open) < PeerUnidiStreamCount
  PROVE  Len(l_Recieved) + 1 <= PeerUnidiStreamCount
  <1> DEFINE N == 1 .. Len(l_Recieved)
             f == [n \in N |-> CHOOSE s \in Streams : Receiving(s) /\ context[s] = n]
  <1>1. Len(l_Recieved) \in Nat /\ DOMAIN l_Recieved = N
    BY DEF Consistent, TypeOK
  <1>2. \A n \in N : \E s \in Streams : Receiving(s) /\ context[s] = n
    BY <1>1 DEF Consistent, Held, FreeContexts
  <1>3. \A n \in N : f[n] \in Open /\ context[f[n]] = n
    BY <1>2 DEF Open, Receiving
  <1>4. f \in Injection(N, Open)
    BY <1>3 DEF Injection, IsInjective
  <1>5. IsFiniteSet(Open)
    BY SettingsOK, FS_Subset DEF Open
  <1>6. Cardinality(N) <= Cardinality(Open)
    BY <1>4, <1>5, FS_Injection
  <1>7. Cardinality(N) = Len(l_Recieved)
    <2>1. 1 \in Int /\ Len(l_Recieved) \in Int
      BY <1>1
    <2>2. Cardinality(N) = IF 1 > Len(l_Recieved) THEN 0 ELSE Len(l_Recieved) - 1 + 1
      BY <2>1, FS_Interval
    <2> QED
      BY <1>1, <2>2
  <1>8. Cardinality(Open) \in Nat
    BY <1>5, FS_CardinalityType
  <1> QED
    BY <1>1, <1>6, <1>7, <1>8, SettingIsCount

\* A stream starts in a context that is free, or in a new one (MsQuic.cpp:130-169).
LEMMA StartStep ==
  ASSUME Consistent, NEW s \in Streams, PeerStreamStarted(s)
  PROVE  Consistent'
  <1>b. /\ TypeOK /\ Attached /\ Exclusive /\ Held /\ NotBegun /\ Ended
        /\ WholeStreams /\ ContextsBounded
    BY DEF Consistent
  <1>c. /\ connection = "open" /\ phase[s] = "unopened"
        /\ phase' = [phase EXCEPT ![s] = "receiving"]
        /\ UNCHANGED <<pieces, c_Recieved, connection>>
    BY DEF PeerStreamStarted, Move
  <1>0. PICK n \in Nat :
          /\ context' = [context EXCEPT ![s] = n]
          /\ n \in 1 .. Len(l_Recieved')
          /\ l_Recieved'[n] = Fresh
          /\ \A k \in 1 .. Len(l_Recieved') :
                k # n => k \in 1 .. Len(l_Recieved) /\ l_Recieved'[k] = l_Recieved[k]
          /\ n \in 1 .. Len(l_Recieved) => l_Recieved[n].e_State = "FREE"
          /\ l_Recieved' \in Seq([e_State : StreamStates, v_Bytes : Bytes])
          /\ Len(l_Recieved') <= PeerUnidiStreamCount
          /\ Len(l_Recieved) <= Len(l_Recieved')
    <2>1. Fresh \in [e_State : StreamStates, v_Bytes : Bytes]
      BY DEF Fresh, StreamStates, Bytes
    <2>2. /\ l_Recieved \in Seq([e_State : StreamStates, v_Bytes : Bytes])
          /\ Len(l_Recieved) \in Nat
          /\ DOMAIN l_Recieved = 1 .. Len(l_Recieved)
      BY <1>b DEF TypeOK
    <2>3. CASE StartInUnused(s)
      <3>1. PICK n \in 1 .. Len(l_Recieved) :
              /\ l_Recieved[n].e_State = "FREE"
              /\ l_Recieved' = [l_Recieved EXCEPT ![n] = Fresh]
              /\ context' = [context EXCEPT ![s] = n]
        BY <2>2, <2>3 DEF StartInUnused, FirstFree, FreeContexts, Cleared
      <3>2. /\ l_Recieved' \in Seq([e_State : StreamStates, v_Bytes : Bytes])
            /\ Len(l_Recieved') = Len(l_Recieved)
        BY <2>1, <2>2, <3>1
      <3>3. /\ l_Recieved'[n] = Fresh
            /\ \A k \in 1 .. Len(l_Recieved) : k # n => l_Recieved'[k] = l_Recieved[k]
        BY <2>2, <3>1
      <3>4. n \in Nat /\ Len(l_Recieved') <= PeerUnidiStreamCount
        BY <1>b, <2>2, <3>2 DEF ContextsBounded
      <3>5. Len(l_Recieved) <= Len(l_Recieved')
        BY <2>2, <3>2
      <3> QED
        BY <3>1, <3>2, <3>3, <3>4, <3>5
    <2>4. CASE StartInNew(s)
      <3>1. /\ l_Recieved' = Append(l_Recieved, Fresh)
            /\ context' = [context EXCEPT ![s] = Len(l_Recieved) + 1]
        BY <2>4 DEF StartInNew
      <3>2. /\ l_Recieved' \in Seq([e_State : StreamStates, v_Bytes : Bytes])
            /\ Len(l_Recieved') = Len(l_Recieved) + 1
            /\ l_Recieved'[Len(l_Recieved) + 1] = Fresh
            /\ \A k \in 1 .. Len(l_Recieved) : l_Recieved'[k] = l_Recieved[k]
        BY <2>1, <2>2, <3>1
      <3>3. Len(l_Recieved) + 1 <= PeerUnidiStreamCount
        BY <1>c, <2>4, RoomForContext DEF PeerStreamStarted, StartInNew
      <3> DEFINE n == Len(l_Recieved) + 1
      <3>4. n \in Nat /\ n \in 1 .. Len(l_Recieved') /\ ~(n \in 1 .. Len(l_Recieved))
        BY <2>2, <3>2
      <3>5. \A k \in 1 .. Len(l_Recieved') : k # n => k \in 1 .. Len(l_Recieved)
        BY <2>2, <3>2
      <3> HIDE DEF n
      <3>6. Len(l_Recieved') <= PeerUnidiStreamCount /\ Len(l_Recieved) <= Len(l_Recieved')
        BY <2>2, <3>2, <3>3
      <3>7. context' = [context EXCEPT ![s] = n] /\ l_Recieved'[n] = Fresh
        BY <3>1, <3>2 DEF n
      <3> QED
        BY <3>2, <3>4, <3>5, <3>6, <3>7
    <2> QED
      BY <2>3, <2>4 DEF PeerStreamStarted
  <1>a. /\ DOMAIN l_Recieved = 1 .. Len(l_Recieved) /\ Len(l_Recieved) \in Nat
        /\ DOMAIN l_Recieved' = 1 .. Len(l_Recieved') /\ Len(l_Recieved') \in Nat
    BY <1>0, <1>b DEF TypeOK
  <1>1. TypeOK'
    BY <1>0, <1>a, <1>b, <1>c DEF TypeOK
  <1>2. pieces[s] = 0 /\ Pieces(s, pieces'[s]) = <<>>
    BY <1>b, <1>c, PiecesGrow DEF NotBegun
  <1>3. \A t \in Streams : t # s /\ Receiving(t) => context[t] # n
    <2> SUFFICES ASSUME NEW t \in Streams, Receiving(t), context[t] = n PROVE FALSE
      OBVIOUS
    <2>a. /\ n \in DOMAIN l_Recieved
          /\ l_Recieved[n] = [e_State |-> "IN_USE", v_Bytes |-> Pieces(t, pieces[t])]
      BY <1>b DEF Attached
    <2>1. n \in 1 .. Len(l_Recieved) /\ l_Recieved[n].e_State = "IN_USE"
      BY <1>a, <2>a
    <2> QED
      BY <1>0, <2>1
  <1>4. Attached'
    <2> SUFFICES ASSUME NEW t \in Streams, Receiving(t)'
                 PROVE  /\ context'[t] \in DOMAIN l_Recieved'
                        /\ l_Recieved'[context'[t]]
                              = [e_State |-> "IN_USE", v_Bytes |-> Pieces(t, pieces'[t])]
      BY DEF Attached
    <2>1. CASE t = s
      BY <1>0, <1>a, <1>b, <1>2, <2>1 DEF TypeOK, Fresh
    <2>2. CASE t # s
      <3>1. Receiving(t) /\ context'[t] = context[t] /\ context[t] # n
        BY <1>0, <1>b, <1>c, <1>3, <2>2 DEF Receiving, TypeOK
      <3>2. context[t] \in 1 .. Len(l_Recieved)
        BY <1>a, <1>b, <3>1 DEF Attached
      <3>3. context[t] \in 1 .. Len(l_Recieved')
        BY <1>0, <1>a, <3>2
      <3> QED
        BY <1>0, <1>a, <1>b, <1>c, <3>1, <3>3 DEF Attached
    <2> QED
      BY <2>1, <2>2
  <1>5. Exclusive'
    BY <1>0, <1>b, <1>c, <1>3 DEF Exclusive, Receiving, TypeOK
  <1>6. Held'
    <2> SUFFICES ASSUME NEW k \in 1 .. Len(l_Recieved')
                 PROVE  \/ l_Recieved'[k].e_State = "FREE"
                        \/ \E t \in Streams : Receiving(t)' /\ context'[t] = k
      BY <1>a DEF Held
    <2>1. CASE k = n
      BY <1>0, <1>b, <1>c, <2>1 DEF Receiving, TypeOK
    <2>2. CASE k # n
      <3>1. k \in DOMAIN l_Recieved /\ l_Recieved'[k] = l_Recieved[k]
        BY <1>0, <1>a, <2>2
      <3>2. CASE l_Recieved[k].e_State = "FREE"
        BY <3>1, <3>2
      <3>3. CASE \E t \in Streams : Receiving(t) /\ context[t] = k
        <4>1. PICK t \in Streams : Receiving(t) /\ context[t] = k
          BY <3>3
        <4>2. t # s
          BY <1>c, <4>1 DEF Receiving
        <4> QED
          BY <1>0, <1>b, <1>c, <4>1, <4>2 DEF Receiving, TypeOK
      <3> QED
        BY <1>b, <1>c, <3>1, <3>2, <3>3 DEF Held
    <2> QED
      BY <2>1, <2>2
  <1>7. NotBegun' /\ Ended'
    BY <1>b, <1>c DEF NotBegun, Ended, Receiving, TypeOK
  <1>8. WholeStreams'
    BY <1>b, <1>c DEF WholeStreams, TypeOK
  <1>9. ContextsBounded'
    BY <1>0 DEF ContextsBounded
  <1> QED
    BY <1>1, <1>4, <1>5, <1>6, <1>7, <1>8, <1>9 DEF Consistent

\* Bytes of a stream go to the end of its own context (MsQuic.cpp:191-203).
LEMMA RecieveStep ==
  ASSUME Consistent, NEW s \in Streams, Recieve(s)
  PROVE  Consistent'
  <1> DEFINE Longer == [e_State |-> "IN_USE", v_Bytes |-> Pieces(s, pieces[s] + 1)]
  <1>b. /\ TypeOK /\ Attached /\ Exclusive /\ Held /\ NotBegun /\ Ended
        /\ WholeStreams /\ ContextsBounded
    BY DEF Consistent
  <1>c. /\ phase[s] = "receiving" /\ pieces[s] < MaxPieces
        /\ pieces' = [pieces EXCEPT ![s] = @ + 1]
        /\ UNCHANGED <<context, phase, c_Recieved, connection>>
    BY DEF Recieve
  <1>0. /\ context[s] \in DOMAIN l_Recieved
        /\ pieces[s] \in Nat
        /\ l_Recieved[context[s]] = [e_State |-> "IN_USE", v_Bytes |-> Pieces(s, pieces[s])]
        /\ l_Recieved[context[s]].v_Bytes = Pieces(s, pieces[s])
    BY <1>b, <1>c DEF Attached, Receiving, TypeOK
  <1>1. l_Recieved' = [l_Recieved EXCEPT ![context[s]] = Longer]
    <2>1. Append(Pieces(s, pieces[s]), <<s, pieces[s] + 1>>) = Pieces(s, pieces[s] + 1)
      BY <1>0, PiecesGrow
    <2>2. ASSUME NEW v, NEW w
          PROVE  [[e_State |-> "IN_USE", v_Bytes |-> v] EXCEPT !.v_Bytes = w]
                    = [e_State |-> "IN_USE", v_Bytes |-> w]
      OBVIOUS
    <2>3. [l_Recieved[context[s]] EXCEPT !.v_Bytes = Append(@, <<s, pieces[s] + 1>>)] = Longer
      BY <1>0, <2>1, <2>2, Zenon
    <2> QED
      BY <2>3, Zenon DEF Recieve
  <1>2. TypeOK'
    <2>1. Longer \in [e_State : StreamStates, v_Bytes : Bytes]
      BY <1>0, PiecesGrow DEF StreamStates
    <2> HIDE DEF Longer
    <2>2. /\ l_Recieved' \in Seq([e_State : StreamStates, v_Bytes : Bytes])
          /\ Len(l_Recieved') = Len(l_Recieved)
      BY <1>0, <1>1, <1>b, <2>1 DEF TypeOK
    <2>3. pieces' \in [Streams -> 0 .. MaxPieces]
      BY <1>b, <1>c, SettingsOK DEF TypeOK
    <2> QED
      BY <1>b, <1>c, <2>2, <2>3 DEF TypeOK
  <1> USE <1>b, <1>c
  <1>3. Attached'
    BY <1>0, <1>1 DEF Attached, Exclusive, Receiving, TypeOK
  <1>4. Held'
    BY <1>0, <1>1 DEF Held, Receiving, TypeOK
  <1>5. Exclusive' /\ NotBegun' /\ Ended'
    BY DEF Exclusive, NotBegun, Ended, Receiving, TypeOK
  <1>6. WholeStreams'
    BY DEF WholeStreams, TypeOK
  <1>7. ContextsBounded'
    BY <1>1 DEF ContextsBounded, TypeOK
  <1> QED
    BY <1>2, <1>3, <1>4, <1>5, <1>6, <1>7 DEF Consistent

\* A stream that ends or is aborted gives its context back, and is not
\* receiving any more (MsQuic.cpp:205-225).
LEMMA FreeStep ==
  ASSUME Consistent, NEW s \in Streams, Receiving(s),
         NEW p \in {"ended", "aborted"}, Move(s, p),
         NEW b \in Bytes,
         l_Recieved' = [l_Recieved EXCEPT ![context[s]] = [e_State |-> "FREE", v_Bytes |-> b]],
         UNCHANGED <<context, pieces, connection>>
  PROVE  /\ l_Recieved' \in Seq([e_State : StreamStates, v_Bytes : Bytes])
         /\ Len(l_Recieved') = Len(l_Recieved)
         /\ Attached' /\ Exclusive' /\ Held' /\ NotBegun' /\ Ended' /\ ContextsBounded'
  <1> USE DEF Consistent, Move
  <1>0. context[s] \in DOMAIN l_Recieved
    BY DEF Attached
  <1>1. /\ l_Recieved' \in Seq([e_State : StreamStates, v_Bytes : Bytes])
        /\ Len(l_Recieved') = Len(l_Recieved)
    BY <1>0 DEF TypeOK, StreamStates
  <1>2. Attached'
    BY <1>0, <1>1 DEF Attached, Exclusive, Receiving, TypeOK
  <1>3. Held'
    BY <1>0 DEF Held, Exclusive, Receiving, TypeOK
  <1>4. Exclusive' /\ NotBegun' /\ Ended'
    BY DEF Exclusive, NotBegun, Ended, Receiving, TypeOK
  <1> QED
    BY <1>1, <1>2, <1>3, <1>4 DEF ContextsBounded

\* An aborted stream leaves its bytes behind in a free context.
LEMMA AbortStep ==
  ASSUME Consistent, NEW s \in Streams, PeerSendAborted(s)
  PROVE  Consistent'
  <1>0. /\ Receiving(s) /\ Move(s, "aborted")
        /\ context[s] \in DOMAIN l_Recieved
        /\ l_Recieved[context[s]] = [e_State |-> "IN_USE", v_Bytes |-> Pieces(s, pieces[s])]
        /\ Pieces(s, pieces[s]) \in Bytes
    BY PiecesGrow DEF PeerSendAborted, Consistent, Attached, Receiving, TypeOK
  <1>1. l_Recieved' = [l_Recieved EXCEPT ![context[s]] =
                          [e_State |-> "FREE", v_Bytes |-> Pieces(s, pieces[s])]]
    <2>1. [l_Recieved[context[s]] EXCEPT !.e_State = "FREE"]
            = [e_State |-> "FREE", v_Bytes |-> Pieces(s, pieces[s])]
      BY <1>0
    <2> QED
      BY <2>1, Zenon DEF PeerSendAborted, SetState, AbortedFrees
  <1>2. /\ l_Recieved' \in Seq([e_State : StreamStates, v_Bytes : Bytes])
        /\ Len(l_Recieved') = Len(l_Recieved)
        /\ Attached' /\ Exclusive' /\ Held' /\ NotBegun' /\ Ended' /\ ContextsBounded'
    BY <1>0, <1>1, FreeStep DEF PeerSendAborted
  <1>3. TypeOK'
    BY <1>2 DEF Consistent, TypeOK, PeerSendAborted, Move
  <1>4. WholeStreams'
    BY DEF Consistent, WholeStreams, TypeOK, PeerSendAborted, Move
  <1> QED
    BY <1>2, <1>3, <1>4 DEF Consistent

\* A stream that ends gives the client its bytes, or none.
LEMMA EndStep ==
  ASSUME Consistent, NEW s \in Streams, PeerSendShutdown(s)
  PROVE  Consistent'
  <1> DEFINE Whole == Pieces(s, pieces[s])
  <1>0. /\ Receiving(s) /\ Move(s, "ended")
        /\ context[s] \in DOMAIN l_Recieved
        /\ l_Recieved[context[s]] = [e_State |-> "IN_USE", v_Bytes |-> Whole]
        /\ Whole \in Bytes /\ <<>> \in Bytes
    BY PiecesGrow DEF PeerSendShutdown, Consistent, Attached, Receiving, TypeOK, Bytes
  <1>1. PICK b \in Bytes :
          l_Recieved' = [l_Recieved EXCEPT ![context[s]] = [e_State |-> "FREE", v_Bytes |-> b]]
    BY <1>0 DEF PeerSendShutdown, Store, AddThrows, ConstructorThrows, Swapped, SetState
  <1>2. /\ l_Recieved' \in Seq([e_State : StreamStates, v_Bytes : Bytes])
        /\ Len(l_Recieved') = Len(l_Recieved)
        /\ Attached' /\ Exclusive' /\ Held' /\ NotBegun' /\ Ended' /\ ContextsBounded'
    BY <1>0, <1>1, FreeStep DEF PeerSendShutdown
  <1>3. \/ c_Recieved' = c_Recieved
        \/ /\ c_Recieved' = c_Recieved \union {[from |-> s, v_Data |-> Whole]}
           /\ Whole # <<>>
    BY <1>0 DEF PeerSendShutdown, Store, AddThrows, ConstructorThrows, MessageOf, SizeValid
  <1>4. TypeOK'
    BY <1>0, <1>2, <1>3 DEF Consistent, TypeOK, PeerSendShutdown, Move
  <1>5. WholeStreams'
    BY <1>3 DEF Consistent, WholeStreams, TypeOK, PeerSendShutdown, Move
  <1> QED
    BY <1>2, <1>4, <1>5 DEF Consistent

\* A stream is closed after its end, its abort, or the end of the connection.
LEMMA CloseStep ==
  ASSUME Consistent, NEW s \in Streams, StreamShutdownComplete(s)
  PROVE  Consistent'
  <1> USE DEF Consistent, StreamShutdownComplete, Move
  <1>1. TypeOK' /\ Attached' /\ Exclusive' /\ NotBegun' /\ Ended'
    BY DEF TypeOK, Attached, Exclusive, NotBegun, Ended, Receiving
  <1>2. Held'
    BY DEF TypeOK, Held, Receiving
  <1>3. WholeStreams' /\ ContextsBounded'
    BY DEF TypeOK, WholeStreams, ContextsBounded
  <1> QED
    BY <1>1, <1>2, <1>3

\* The end of the connection takes the contexts with it.
LEMMA ConnectionStep ==
  ASSUME Consistent, ConnectionShutdown \/ ConnectionShutdownComplete
  PROVE  Consistent'
  <1>1. CASE ConnectionShutdown
    BY <1>1 DEF ConnectionShutdown, Consistent, TypeOK, Attached, Exclusive, Held, NotBegun,
                Ended, WholeStreams, ContextsBounded, Receiving
  <1>2. CASE ConnectionShutdownComplete
    <2> USE <1>2 DEF ConnectionShutdownComplete, Consistent
    <2>1. \A s \in Streams : ~Receiving(s) /\ ~Receiving(s)'
      BY DEF Open, Receiving
    <2>2. TypeOK'
      BY DEF TypeOK
    <2>3. Attached' /\ Exclusive' /\ Held' /\ NotBegun' /\ Ended'
      BY <2>1 DEF Attached, Exclusive, Held, NotBegun, Ended
    <2> QED
      BY <2>2, <2>3, SettingIsCount DEF WholeStreams, ContextsBounded
  <1> QED
    BY <1>1, <1>2

\* Every step keeps the contexts consistent.
LEMMA NextConsistent == Consistent /\ [Next]_vars => Consistent'
  <1> SUFFICES ASSUME Consistent, [Next]_vars PROVE Consistent'
    OBVIOUS
  <1>1. CASE ConnectionShutdown \/ ConnectionShutdownComplete
    BY <1>1, ConnectionStep
  <1>2. ASSUME NEW s \in Streams, PeerStreamStarted(s) \/ StreamCallback(s)
        PROVE  Consistent'
    BY <1>2, StartStep, RecieveStep, AbortStep, EndStep, CloseStep DEF StreamCallback
  <1>3. CASE UNCHANGED vars
    BY <1>3 DEF vars, Consistent, TypeOK, Attached, Exclusive, Held, NotBegun, Ended,
                WholeStreams, ContextsBounded, Receiving
  <1> QED
    BY <1>1, <1>2, <1>3 DEF Next

\* The inductive invariant of the receive contexts: a receiving stream has one
\* of its own, with its bytes and no others (MsQuic.cpp:130-237).
THEOREM ContextsConsistent == Spec => []Consistent
BY InitConsistent, NextConsistent, PTL DEF Spec

\* Every variable keeps its type; no message without bytes reaches the client.
THEOREM TypeCorrect == Spec => []TypeOK
  <1>1. Consistent => TypeOK
    BY DEF Consistent
  <1> QED
    BY <1>1, ContextsConsistent, PTL

\* What the client is given is one stream, whole and in order, for any number of
\* streams, pieces and contexts.
THEOREM StreamsArriveWhole == Spec => []WholeStreams
  <1>1. Consistent => WholeStreams
    BY DEF Consistent
  <1> QED
    BY <1>1, ContextsConsistent, PTL

\* A connection has no more contexts than its peer may open streams.
THEOREM ContextsStayBounded == Spec => []ContextsBounded
  <1>1. Consistent => ContextsBounded
    BY DEF Consistent
  <1> QED
    BY <1>1, ContextsConsistent, PTL

\* The multiplier and the width of the setting as they are built
\* (Server.cpp:32, 152; QUIC_SETTINGS of msquic.h).
AsBuilt == CLIENT_STREAMS_MULTIPLIER = 128 /\ StreamCounts = 65536

\* What the cut leaves of the product: the streams of i_MaxClientCount % 512
\* clients, whatever the configuration says (Server.cpp:152).
THEOREM StreamsOfSetting ==
  ASSUME AsBuilt
  PROVE  PeerUnidiStreamCount = 128 * (i_MaxClientCount % 512)
  <1> DEFINE m == i_MaxClientCount
             q == m \div 512
             r == m % 512
  <1>1. m \in Nat
    BY SettingsOK
  <1>2. q \in Nat /\ r \in 0 .. 511 /\ m = 512 * q + r
    BY <1>1, SMT
  <1> HIDE DEF m, q, r
  <1>3. m * 128 = 65536 * q + 128 * r
    BY <1>2
  <1>4. (65536 * q + 128 * r) % 65536 = 128 * r
    BY <1>2, SMT
  <1>5. (m * 128) % 65536 = 128 * r
    BY <1>3, <1>4
  <1> QED
    BY <1>5 DEF PeerUnidiStreamCount, AsBuilt, m, r

\* No stream of the peer is ever started, and nothing reaches the client.
Deaf == (\A s \in Streams : phase[s] = "unopened") /\ c_Recieved = {}

\* Without a stream in the setting no peer ever starts one.
LEMMA NoStreamsNoMessages ==
  ASSUME PeerUnidiStreamCount = 0
  PROVE  Spec => []Deaf
  <1>1. Init => Deaf
    BY DEF Init, Deaf
  <1>2. ASSUME Deaf, [Next]_vars
        PROVE  Deaf'
    <2>1. \A s \in Streams : ~PeerStreamStarted(s)
      <3>1. Open \in SUBSET Streams
        BY DEF Open
      <3>2. Cardinality(Open) \in Nat
        BY <3>1, SettingsOK, FS_Subset, FS_CardinalityType
      <3> QED
        BY <3>2 DEF PeerStreamStarted
    <2>2. \A s \in Streams : ~StreamCallback(s)
      BY <1>2 DEF Deaf, StreamCallback, Recieve, PeerSendAborted, PeerSendShutdown,
         StreamShutdownComplete
    <2>3. UNCHANGED <<phase, c_Recieved>>
      BY <1>2, <2>1, <2>2 DEF Next, vars, ConnectionShutdown, ConnectionShutdownComplete
    <2> QED
      BY <1>2, <2>3 DEF Deaf
  <1> QED
    BY <1>1, <1>2, PTL DEF Spec

\* A server for any multiple of 512 clients never receives a message, whatever its
\* peers do; one for any other number has the streams of a client or more
\* (Server.cpp:152).
THEOREM DeafAtMultiples ==
  ASSUME AsBuilt
  PROVE  /\ i_MaxClientCount % 512 = 0 => (Spec => []Deaf)
         /\ i_MaxClientCount % 512 # 0 => PeerUnidiStreamCount >= CLIENT_STREAMS_MULTIPLIER
  <1>1. i_MaxClientCount % 512 = 0 => PeerUnidiStreamCount = 0
    BY StreamsOfSetting
  <1>2. i_MaxClientCount % 512 \in 0 .. 511
    BY SettingsOK, SMT
  <1>3. i_MaxClientCount % 512 # 0 => PeerUnidiStreamCount >= CLIENT_STREAMS_MULTIPLIER
    BY <1>2, StreamsOfSetting DEF AsBuilt
  <1> QED
    BY <1>1, <1>3, NoStreamsNoMessages

\* The default of Configuration, 1024 clients, is one of them: as delivered, the
\* server never receives a message (Configuration.cpp:78, Server.cpp:152).
THEOREM DefaultIsDeaf ==
  ASSUME AsBuilt, i_MaxClientCount = 1024
  PROVE  Spec => []Deaf
  <1>1. i_MaxClientCount % 512 = 0
    BY SMT
  <1> QED
    BY <1>1, DeafAtMultiples
=============================================================================
