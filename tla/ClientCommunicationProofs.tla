---------------------- MODULE ClientCommunicationProofs ----------------------
(***************************************************************************)
(* Proofs about ClientCommunication, for any sessions, mailboxes, sizes    *)
(* and number of messages.                                                 *)
(***************************************************************************)
EXTENDS ClientCommunication, TLAPS

\* A row is what its writer stored.
Signed(r) ==
    /\ r.message_id <= last
    /\ writer[r.message_id] \in Sessions
    /\ r.user = c_UserInfo[writer[r.message_id]].user
    /\ r.device = c_UserInfo[writer[r.message_id]].device
    /\ r.actor_type = c_UserInfo[writer[r.message_id]].type

Rows == message_data \union {c_Row[s] : s \in {t \in Sessions : ~Idle(t)}}

AllSigned == \A r \in Rows : Signed(r)

OneRow == \A r, x \in Rows : r.message_id = x.message_id => r = x

FetchedMatches == \A s \in Sessions : ~Idle(s) => Matches(c_Row[s], c_UserInfo[s])

ReturnedIsGone == \A r \in message_data : retrieved[r.message_id] = << >>

\* What is fetched twice, or was returned since it was fetched, is raced.
FetchedTwice ==
    \A s, t \in Sessions :
        ~Idle(s) /\ s # t /\ c_Row[s] = c_Row[t] => c_Row[s].message_id \in raced

FetchedLate ==
    \A s \in Sessions :
        ~Idle(s) /\ retrieved[c_Row[s].message_id] # << >> => c_Row[s].message_id \in raced

\* A message not yet stored has no history.
Fresh == \A m \in Ids : last < m => retrieved[m] = << >>

Delivered(m, s) ==
    /\ writer[m] \in Sessions
    /\ c_UserInfo[s].user = c_UserInfo[writer[m]].user
    /\ Collated[c_UserInfo[s].device] = Collated[c_UserInfo[writer[m]].device]
    /\ {c_UserInfo[writer[m]].type, c_UserInfo[s].type} = {CLIENT_APP, CLIENT_PLATFORM}

AllDelivered == \A m \in Ids : \A n \in 1 .. Len(retrieved[m]) : Delivered(m, retrieved[m][n])

Consistent ==
    /\ TypeOK
    /\ AllSigned /\ OneRow /\ FetchedMatches /\ ReturnedIsGone
    /\ FetchedTwice /\ FetchedLate /\ Fresh
    /\ AllDelivered /\ DuplicateNeedsRace /\ NothingLost

\* Base64 makes room for what it has encoded (Base64.cpp:32-48, 81-97).
LEMMA EncodedFits == \A n \in Nat : n <= Room(Encoded(n))
  <1>1. ASSUME NEW n \in Nat
        PROVE  n <= Room(Encoded(n))
    <2>1. PICK q \in Nat : q = (n + 2) \div 3 /\ n <= 3 * q
      BY SMT
    <2>2. (4 * q) \div 4 = q
      BY SMT
    <2> QED
      BY <2>1, <2>2 DEF Room, Encoded
  <1> QED
    BY <1>1

LEMMA InitConsistent == Init => Consistent
  <1> SUFFICES ASSUME Init PROVE Consistent
    OBVIOUS
  <1>1. TypeOK
    BY SizesOK DEF Init, TypeOK, Ids
  <1>2. \A s \in Sessions : Idle(s)
    BY DEF Init, Idle
  <1>3. Rows = {}
    BY <1>2 DEF Init, Rows
  <1>4. \A m \in Ids : retrieved[m] = << >>
    BY DEF Init
  <1>5. NothingLost
    BY DEF Init, NothingLost
  <1>6. AllDelivered /\ DuplicateNeedsRace
    BY <1>4 DEF AllDelivered, DuplicateNeedsRace
  <1> QED
    BY <1>1, <1>2, <1>3, <1>4, <1>5, <1>6
       DEF Init, Consistent, AllSigned, OneRow, FetchedMatches, ReturnedIsGone,
           FetchedTwice, FetchedLate, Fresh

\* Every row is a row, and a fetched one is among them.
LEMMA RowsAreRows ==
    ASSUME TypeOK
    PROVE  /\ Rows \subseteq Row
           /\ \A s \in Sessions : ~Idle(s) => c_Row[s] \in Rows /\ c_Row[s] \in Row
  BY DEF TypeOK, Rows, Idle

LEMMA StoreConsistent ==
    ASSUME Consistent, NEW s \in Sessions, StoreMessage(s)
    PROVE  Consistent'
  <1> USE DEF Consistent
  <1> DEFINE id == last + 1
  <1>0. TypeOK /\ id \in Ids
    BY SizesOK DEF StoreMessage, TypeOK, Ids
  <1>1. PICK r \in Row :
           /\ message_data' = message_data \union {r}
           /\ r = [message_id |-> id, user |-> c_UserInfo[s].user,
                   device |-> c_UserInfo[s].device, actor_type |-> c_UserInfo[s].type,
                   length |-> r.length]
           /\ Encoded(r.length) <= us_MDMessageDataSize
    <2>1. PICK n \in 0 .. MaxLength :
             /\ Storable(n)
             /\ message_data' = message_data \union
                   {[message_id |-> last + 1, user |-> c_UserInfo[s].user,
                     device |-> c_UserInfo[s].device,
                     actor_type |-> c_UserInfo[s].type, length |-> n]}
      BY DEF StoreMessage
    <2>2. c_UserInfo[s] \in UserInfo
      BY <1>0 DEF TypeOK
    <2>3. n \in 1 .. MaxLength
      BY <2>1, SizesOK DEF Storable
    <2> DEFINE row == [message_id |-> id, user |-> c_UserInfo[s].user,
                       device |-> c_UserInfo[s].device,
                       actor_type |-> c_UserInfo[s].type, length |-> n]
    <2>4. row \in Row /\ row.length = n
      BY <2>2, <2>3, <1>0 DEF Row, UserInfo
    <2>5. Encoded(n) <= us_MDMessageDataSize
      BY <2>1 DEF Storable
    <2> HIDE DEF id
    <2>6. row = [message_id |-> id, user |-> c_UserInfo[s].user,
                 device |-> c_UserInfo[s].device, actor_type |-> c_UserInfo[s].type,
                 length |-> row.length]
      BY <2>4
    <2>7. message_data' = message_data \union {row}
      BY <2>1 DEF id
    <2> QED
      BY <2>4, <2>5, <2>6, <2>7
  <1>2. /\ r.message_id = id
        /\ r.user = c_UserInfo[s].user
        /\ r.device = c_UserInfo[s].device
        /\ r.actor_type = c_UserInfo[s].type
    BY <1>1
  <1>3. /\ last' = id
        /\ writer' = [writer EXCEPT ![id] = s]
        /\ UNCHANGED <<c_UserInfo, c_Row, retrieved, failed, raced>>
    BY DEF StoreMessage
  <1>4. \A m \in Ids : m <= last => m # id /\ writer'[m] = writer[m]
    BY <1>0, <1>3 DEF TypeOK, Ids
  <1>5. Rows' = Rows \union {r}
    BY <1>1, <1>3 DEF Rows, Idle
  <1>6. \A x \in Rows : x.message_id \in Ids /\ x.message_id <= last /\ x.message_id # id
    BY <1>0, <1>4, RowsAreRows DEF AllSigned, Signed, Row
  <1>7. TypeOK'
    BY <1>0, <1>1, <1>3, SizesOK DEF TypeOK, Ids
  <1>8. AllSigned'
    <2>1. Signed(r)'
      BY <1>0, <1>2, <1>3 DEF Signed, TypeOK, Ids
    <2>2. ASSUME NEW x \in Rows PROVE Signed(x)'
      BY <1>0, <1>3, <1>4, <1>6 DEF AllSigned, Signed, TypeOK, Ids
    <2> QED
      BY <2>1, <2>2, <1>5 DEF AllSigned
  <1>9. OneRow'
    BY <1>2, <1>5, <1>6 DEF OneRow
  <1>10. ReturnedIsGone'
    <2>1. retrieved[id] = << >>
      BY <1>0 DEF Fresh, TypeOK, Ids
    <2> QED
      BY <2>1, <1>1, <1>2, <1>3 DEF ReturnedIsGone
  <1>11. Fresh'
    BY <1>0, <1>3 DEF Fresh, TypeOK, Ids
  <1>12. AllDelivered'
    <2>1. ASSUME NEW m \in Ids, NEW n \in 1 .. Len(retrieved[m])
          PROVE  Delivered(m, retrieved[m][n])'
      <3>1. m <= last
        BY <1>0 DEF Fresh, TypeOK, Ids
      <3> QED
        BY <3>1, <1>3, <1>4 DEF AllDelivered, Delivered
    <2> QED
      BY <2>1, <1>3 DEF AllDelivered
  <1>13. NothingLost'
    <2>1. ASSUME NEW m \in 1 .. last', m # id
          PROVE  m \in 1 .. last
      BY <2>1, <1>0, <1>3 DEF TypeOK, Ids
    <2> QED
      BY <2>1, <1>1, <1>2, <1>3 DEF NothingLost
  <1>14. (FetchedMatches /\ FetchedTwice /\ FetchedLate /\ DuplicateNeedsRace)'
    BY <1>3 DEF FetchedMatches, FetchedTwice, FetchedLate, DuplicateNeedsRace, Idle, Matches
  <1> QED
    BY <1>7, <1>8, <1>9, <1>10, <1>11, <1>12, <1>13, <1>14

LEMMA SelectConsistent ==
    ASSUME Consistent, NEW s \in Sessions, Select(s)
    PROVE  Consistent'
  <1> USE DEF Consistent
  <1>0. TypeOK
    OBVIOUS
  <1>1. PICK r \in message_data :
           /\ Matches(r, c_UserInfo[s])
           /\ c_Row' = [c_Row EXCEPT ![s] = r]
           /\ raced' = IF \E t \in Sessions : c_Row[t] = r
                       THEN raced \union {r.message_id} ELSE raced
    BY DEF Select
  <1>2. UNCHANGED <<c_UserInfo, message_data, last, writer, retrieved, failed>> /\ Idle(s)
    BY DEF Select
  <1>3. r \in Row /\ r \in Rows /\ r # None /\ r.message_id \in Ids
    BY <1>0, NoneIsNoRow DEF TypeOK, Rows, Row
  <1>4. raced \subseteq raced' /\ raced' \subseteq Ids
    BY <1>0, <1>1, <1>3 DEF TypeOK
  <1>5. /\ c_Row'[s] = r
        /\ \A t \in Sessions : t # s => c_Row'[t] = c_Row[t]
    BY <1>0, <1>1 DEF TypeOK
  <1>6. Rows' \subseteq Rows
    BY <1>2, <1>3, <1>5 DEF Rows, Idle
  <1>7. TypeOK'
    BY <1>0, <1>1, <1>2, <1>3, <1>4 DEF TypeOK
  <1>8. (AllSigned /\ OneRow)'
    BY <1>2, <1>6 DEF AllSigned, OneRow, Signed
  <1>9. FetchedMatches'
    BY <1>1, <1>2, <1>5 DEF FetchedMatches, Idle, Matches
  <1>10. FetchedTwice'
    <2>1. ASSUME NEW t \in Sessions, t # s, c_Row[t] = r
          PROVE  r.message_id \in raced'
      BY <2>1, <1>1
    <2> QED
      BY <2>1, <1>4, <1>5 DEF FetchedTwice, Idle
  <1>11. FetchedLate'
    <2>1. retrieved[r.message_id] = << >>
      BY DEF ReturnedIsGone
    <2> QED
      BY <2>1, <1>2, <1>4, <1>5 DEF FetchedLate, Idle
  <1>12. (ReturnedIsGone /\ Fresh /\ AllDelivered /\ NothingLost)'
    BY <1>2 DEF ReturnedIsGone, Fresh, AllDelivered, Delivered, NothingLost
  <1>13. DuplicateNeedsRace'
    BY <1>2, <1>4 DEF DuplicateNeedsRace
  <1> QED
    BY <1>7, <1>8, <1>9, <1>10, <1>11, <1>12, <1>13

\* What remains when a session lets go of its row and the row is deleted or not.
LEMMA ReturnRows ==
    ASSUME Consistent, NEW s \in Sessions, ~Idle(s), Return(s),
           message_data' = message_data \/ message_data' = Without(message_data, c_Row[s]),
           UNCHANGED <<c_UserInfo, last, writer, raced>>
    PROVE  /\ Rows' \subseteq Rows
           /\ message_data' \subseteq message_data
           /\ \A t \in Sessions : ~Idle(t)' => t # s /\ ~Idle(t) /\ c_Row'[t] = c_Row[t]
           /\ c_Row' \in [Sessions -> Row \union {None}]
           /\ (AllSigned /\ OneRow /\ FetchedMatches /\ FetchedTwice)'
  <1> USE DEF Consistent
  <1>0. TypeOK
    OBVIOUS
  <1>1. message_data' \subseteq message_data
    BY DEF Without
  <1>2. \A t \in Sessions : ~Idle(t)' => t # s /\ ~Idle(t) /\ c_Row'[t] = c_Row[t]
    BY <1>0 DEF TypeOK, Return, Idle
  <1>3. Rows' \subseteq Rows
    BY <1>1, <1>2 DEF Rows
  <1>4. c_Row' \in [Sessions -> Row \union {None}]
    BY <1>0 DEF TypeOK, Return
  <1>5. (AllSigned /\ OneRow)'
    BY <1>3 DEF AllSigned, OneRow, Signed
  <1>6. FetchedMatches'
    <2> SUFFICES ASSUME NEW t \in Sessions, ~Idle(t)'
                 PROVE  Matches(c_Row[t], c_UserInfo[t])'
      BY DEF FetchedMatches
    <2>1. ~Idle(t) /\ c_Row'[t] = c_Row[t] /\ c_UserInfo' = c_UserInfo
      BY <1>2
    <2> QED
      BY <2>1 DEF FetchedMatches, Matches
  <1>7. FetchedTwice'
    <2> SUFFICES ASSUME NEW t \in Sessions, NEW u \in Sessions, ~Idle(t)', t # u,
                        c_Row'[t] = c_Row'[u]
                 PROVE  c_Row'[t].message_id \in raced'
      BY DEF FetchedTwice
    <2>1. ~Idle(u)' /\ raced' = raced
      BY DEF Idle
    <2> QED
      BY <2>1, <1>2 DEF FetchedTwice
  <1> QED
    BY <1>1, <1>2, <1>3, <1>4, <1>5, <1>6, <1>7

LEMMA RemoveConsistent ==
    ASSUME Consistent, NEW s \in Sessions, Remove(s)
    PROVE  Consistent'
  <1> USE DEF Consistent
  <1> DEFINE r == c_Row[s]
             id == r.message_id
  <1>0. TypeOK
    OBVIOUS
  <1>1. /\ ~Idle(s) /\ Return(s)
        /\ message_data' = Without(message_data, r)
        /\ retrieved' = [retrieved EXCEPT ![id] = Append(@, s)]
        /\ UNCHANGED <<c_UserInfo, last, writer, failed, raced>>
    BY DEF Remove
  <1>2. /\ Rows' \subseteq Rows
        /\ message_data' \subseteq message_data
        /\ \A t \in Sessions : ~Idle(t)' => t # s /\ ~Idle(t) /\ c_Row'[t] = c_Row[t]
        /\ c_Row' \in [Sessions -> Row \union {None}]
        /\ (AllSigned /\ OneRow /\ FetchedMatches /\ FetchedTwice)'
    BY <1>1, ReturnRows
  <1>3. r \in Rows /\ r \in Row /\ id \in Ids
    BY <1>0, <1>1, RowsAreRows DEF Row
  <1> HIDE DEF r, id
  <1>4. /\ retrieved \in [Ids -> Seq(Sessions)]
        /\ retrieved[id] \in Seq(Sessions)
        /\ Len(retrieved[id]) \in Nat
    BY <1>0, <1>3 DEF TypeOK
  <1>5. /\ retrieved'[id] = Append(retrieved[id], s)
        /\ \A m \in Ids : m # id => retrieved'[m] = retrieved[m]
        /\ retrieved' \in [Ids -> Seq(Sessions)]
    BY <1>1, <1>3, <1>4
  <1>6. /\ Len(retrieved'[id]) = Len(retrieved[id]) + 1
        /\ retrieved'[id] # << >>
        /\ retrieved'[id][Len(retrieved[id]) + 1] = s
        /\ \A n \in 1 .. Len(retrieved[id]) : retrieved'[id][n] = retrieved[id][n]
    BY <1>4, <1>5
  <1>7. TypeOK'
    BY <1>0, <1>1, <1>2, <1>5 DEF TypeOK
  <1>8. ReturnedIsGone'
    BY <1>0, <1>1, <1>2, <1>5 DEF ReturnedIsGone, Without, TypeOK, Row, id
  <1>9. FetchedLate'
    <2> SUFFICES ASSUME NEW t \in Sessions, ~Idle(t)',
                        retrieved'[c_Row[t].message_id] # << >>
                 PROVE  c_Row[t].message_id \in raced
      BY <1>1, <1>2 DEF FetchedLate
    <2>1. t # s /\ ~Idle(t) /\ c_Row[t] \in Rows /\ c_Row[t] \in Row
      BY <1>0, <1>2, RowsAreRows
    <2>2. CASE c_Row[t].message_id = id
      BY <2>1, <2>2, <1>3 DEF OneRow, FetchedTwice, r, id
    <2>3. CASE c_Row[t].message_id # id
      BY <2>1, <2>3, <1>5 DEF FetchedLate, Row
    <2> QED
      BY <2>2, <2>3
  <1>10. Signed(r)
    BY <1>3 DEF AllSigned
  <1>11. Fresh'
    BY <1>0, <1>1, <1>3, <1>5, <1>10 DEF Fresh, Signed, TypeOK, Ids, id
  <1>12. AllDelivered'
    <2>1. Delivered(id, s)
      <3>1. Matches(r, c_UserInfo[s])
        BY <1>1 DEF FetchedMatches, r
      <3> QED
        BY <3>1, <1>10 DEF Matches, Signed, Delivered, SenderType, CLIENT_APP, CLIENT_PLATFORM, id
    <2>2. ASSUME NEW m \in Ids, NEW n \in 1 .. Len(retrieved'[m])
          PROVE  Delivered(m, retrieved'[m][n])
      <3>1. CASE m = id /\ n = Len(retrieved[id]) + 1
        BY <3>1, <2>1, <1>6
      <3>2. CASE m = id /\ n # Len(retrieved[id]) + 1
        <4>1. n \in 1 .. Len(retrieved[id])
          BY <3>2, <1>4, <1>6
        <4> QED
          BY <4>1, <3>2, <1>6 DEF AllDelivered
      <3>3. CASE m # id
        BY <3>3, <1>5 DEF AllDelivered
      <3> QED
        BY <3>1, <3>2, <3>3
    <2>3. ASSUME NEW m \in Ids, NEW n \in 1 .. Len(retrieved'[m])
          PROVE  Delivered(m, retrieved[m][n])'
      BY <2>2, <1>1 DEF Delivered
    <2> QED
      BY <2>3 DEF AllDelivered
  <1>13. DuplicateNeedsRace'
    <2>1. CASE Len(retrieved[id]) > 0
      <3>1. retrieved[id] # << >>
        BY <2>1
      <3>2. id \in raced
        BY <3>1, <1>1 DEF FetchedLate, r, id
      <3> QED
        BY <3>2, <1>1, <1>5 DEF DuplicateNeedsRace
    <2>2. CASE Len(retrieved[id]) = 0
      BY <2>2, <1>1, <1>5, <1>6 DEF DuplicateNeedsRace
    <2> QED
      BY <2>1, <2>2, <1>4
  <1>14. NothingLost'
    <2> SUFFICES ASSUME NEW m \in 1 .. last
                 PROVE  \/ \E x \in message_data' : x.message_id = m
                        \/ Len(retrieved'[m]) > 0
                        \/ m \in failed
      BY <1>1 DEF NothingLost
    <2>1. m \in Ids
      BY <1>0, SizesOK DEF TypeOK, Ids
    <2>2. CASE m = id
      BY <2>2, <1>4, <1>6
    <2>3. CASE m # id
      BY <2>1, <2>3, <1>1, <1>5 DEF NothingLost, Without, id
    <2> QED
      BY <2>2, <2>3
  <1> QED
    BY <1>2, <1>7, <1>8, <1>9, <1>11, <1>12, <1>13, <1>14

LEMMA RemoveFailsConsistent ==
    ASSUME Consistent, NEW s \in Sessions, RemoveFails(s)
    PROVE  Consistent'
  <1> USE DEF Consistent
  <1>0. TypeOK
    OBVIOUS
  <1>1. /\ ~Idle(s) /\ Return(s)
        /\ message_data' = message_data \/ message_data' = Without(message_data, c_Row[s])
        /\ failed' = failed \union {c_Row[s].message_id}
        /\ UNCHANGED <<c_UserInfo, last, writer, retrieved, raced>>
    BY DEF RemoveFails
  <1>2. /\ message_data' \subseteq message_data
        /\ \A t \in Sessions : ~Idle(t)' => t # s /\ ~Idle(t) /\ c_Row'[t] = c_Row[t]
        /\ c_Row' \in [Sessions -> Row \union {None}]
        /\ (AllSigned /\ OneRow /\ FetchedMatches /\ FetchedTwice)'
    BY <1>1, ReturnRows
  <1>3. c_Row[s].message_id \in Ids
    BY <1>0, <1>1, RowsAreRows DEF Row
  <1>4. TypeOK'
    BY <1>0, <1>1, <1>2, <1>3 DEF TypeOK
  <1>5. (ReturnedIsGone /\ Fresh /\ AllDelivered /\ DuplicateNeedsRace)'
    BY <1>1, <1>2 DEF ReturnedIsGone, Fresh, AllDelivered, Delivered, DuplicateNeedsRace
  <1>6. FetchedLate'
    BY <1>1, <1>2 DEF FetchedLate
  <1>7. NothingLost'
    BY <1>1 DEF NothingLost, Without
  <1> QED
    BY <1>2, <1>4, <1>5, <1>6, <1>7

LEMMA NextConsistent == Consistent /\ [Next]_vars => Consistent'
  <1> SUFFICES ASSUME Consistent, [Next]_vars PROVE Consistent'
    OBVIOUS
  <1>1. ASSUME NEW s \in Sessions, StoreMessage(s) PROVE Consistent'
    BY <1>1, StoreConsistent
  <1>2. ASSUME NEW s \in Sessions, Select(s) PROVE Consistent'
    BY <1>2, SelectConsistent
  <1>3. ASSUME NEW s \in Sessions, Remove(s) PROVE Consistent'
    BY <1>3, RemoveConsistent
  <1>4. ASSUME NEW s \in Sessions, RemoveFails(s) PROVE Consistent'
    BY <1>4, RemoveFailsConsistent
  <1>5. CASE UNCHANGED vars
    <2>1. /\ UNCHANGED <<c_UserInfo, message_data, last, c_Row>>
          /\ UNCHANGED <<writer, retrieved, failed, raced>>
      BY <1>5 DEF vars, history
    <2>2. Rows' = Rows /\ \A s \in Sessions : Idle(s)' <=> Idle(s)
      BY <2>1 DEF Rows, Idle
    <2>3. (TypeOK /\ AllSigned /\ OneRow)'
      BY <2>1, <2>2 DEF Consistent, TypeOK, AllSigned, Signed, OneRow
    <2>4. (FetchedMatches /\ ReturnedIsGone /\ FetchedTwice /\ FetchedLate)'
      BY <2>1, <2>2 DEF Consistent, FetchedMatches, Matches, ReturnedIsGone, FetchedTwice, FetchedLate
    <2>5. (Fresh /\ AllDelivered /\ DuplicateNeedsRace /\ NothingLost)'
      BY <2>1 DEF Consistent, Fresh, AllDelivered, Delivered, DuplicateNeedsRace, NothingLost
    <2> QED
      BY <2>3, <2>4, <2>5 DEF Consistent
  <1> QED
    BY <1>1, <1>2, <1>3, <1>4, <1>5 DEF Next

\* The inductive invariant: every row is as its writer signed it, one row per
\* id, what is fetched belongs to the session that has fetched it, and what is
\* returned is no longer in the table (ClientCommunication.cpp:36-184).
THEOREM MailboxesConsistent == Spec => []Consistent
  BY InitConsistent, NextConsistent, PTL DEF Spec

\* Rows keep their types and what is stored fits its column
\* (ClientCommunication.cpp:152-157).
THEOREM TypeCorrect == Spec => []TypeOK
  <1>1. Consistent => TypeOK
    BY DEF Consistent
  <1> QED
    BY <1>1, MailboxesConsistent, PTL

\* A message reaches only the other side of its device
\* (ClientCommunication.cpp:44-87, 164-176).
THEOREM DeliveredToOtherSide == Spec => []OtherSideOnly
  <1>1. Consistent => OtherSideOnly
    BY SizesOK DEF Consistent, AllDelivered, Delivered, OtherSideOnly
  <1> QED
    BY <1>1, MailboxesConsistent, PTL

\* Only sessions of one side that race for a message both get it
\* (ClientCommunication.cpp:66-115).
THEOREM OnceWithoutRace == Spec => []DuplicateNeedsRace
  <1>1. Consistent => DuplicateNeedsRace
    BY DEF Consistent
  <1> QED
    BY <1>1, MailboxesConsistent, PTL

\* A message that is neither stored nor returned was reported as an error
\* (ClientCommunication.cpp:108-132).
THEOREM StoredUntilReturned == Spec => []NothingLost
  <1>1. Consistent => NothingLost
    BY DEF Consistent
  <1> QED
    BY <1>1, MailboxesConsistent, PTL

\* Every message in the table fits its column and decodes (Base64.cpp:32-48, 81-97,
\* ClientCommunication.cpp:152-157).
THEOREM RowsDecode == Spec => []StoredDecodes
  <1>1. TypeOK => StoredDecodes
    BY EncodedFits DEF TypeOK, StoredDecodes, Row
  <1> QED
    BY <1>1, TypeCorrect, PTL

(***************************************************************************)
(* What a removal takes.                                                   *)
(***************************************************************************)
\* The id of a fetched row names this row alone, so that removing the id removes
\* what was fetched and nothing stored since.
LEMMA WithoutIsOneRow ==
    ASSUME Consistent, NEW s \in Sessions, ~Idle(s),
           NEW r \in message_data, r \notin Without(message_data, c_Row[s])
    PROVE  r = c_Row[s] /\ Without(message_data, c_Row[s]) = message_data \ {r}
  <1>1. c_Row[s] \in Rows /\ message_data \subseteq Rows
    BY DEF Rows
  <1>2. \A x \in message_data : x.message_id = c_Row[s].message_id => x = c_Row[s]
    BY <1>1 DEF Consistent, OneRow
  <1>3. r.message_id = c_Row[s].message_id
    BY DEF Without
  <1>4. r = c_Row[s]
    BY <1>2, <1>3
  <1>5. \A x \in message_data : x.message_id # c_Row[s].message_id <=> x # r
    BY <1>2, <1>4
  <1> QED
    BY <1>4, <1>5 DEF Without

LEMMA StepTakesFetched == Consistent /\ [Next]_vars => TakesFetched
  <1> SUFFICES ASSUME Consistent, [Next]_vars,
                      NEW r \in message_data, r \notin message_data'
               PROVE  /\ message_data' = message_data \ {r}
                      /\ \E s \in Sessions : TakesRow(s, r)
    BY DEF TakesFetched
  <1>0. TypeOK
    BY DEF Consistent
  <1>1. PICK s \in Sessions : Remove(s) \/ RemoveFails(s)
    BY DEF Next, StoreMessage, Select, vars
  <1>2. ~Idle(s) /\ message_data' = Without(message_data, c_Row[s])
    BY <1>1 DEF Remove, RemoveFails
  <1>3. r = c_Row[s] /\ message_data' = message_data \ {r}
    BY <1>2, WithoutIsOneRow
  <1>4. Matches(r, c_UserInfo[s])
    BY <1>2, <1>3 DEF Consistent, FetchedMatches
  <1>5. r.message_id \in Ids
    BY <1>0 DEF TypeOK, Row
  <1>6. CASE Remove(s)
    <2>1. retrieved' = [retrieved EXCEPT ![r.message_id] = Append(@, s)]
      BY <1>3, <1>6 DEF Remove
    <2>2. retrieved \in [Ids -> Seq(Sessions)]
      BY <1>0 DEF TypeOK
    <2>3. retrieved'[r.message_id] = Append(retrieved[r.message_id], s)
      BY <1>5, <2>1, <2>2
    <2> QED
      BY <1>3, <1>4, <2>3 DEF TakesRow
  <1>7. CASE RemoveFails(s)
    BY <1>3, <1>4, <1>7 DEF RemoveFails, TakesRow
  <1> QED
    BY <1>1, <1>6, <1>7

\* No session's removal touches the mail of another, or mail that has arrived
\* since its select: every row that leaves the table leaves alone, and is the very
\* row a session of the receiving side had fetched (ClientCommunication.cpp:66-115).
THEOREM MailLeavesFetched == Spec => RemovesFetched
  <1>1. Consistent /\ [Next]_vars => [TakesFetched]_vars
    BY StepTakesFetched
  <1> QED
    BY <1>1, MailboxesConsistent, PTL DEF Spec, RemovesFetched
=============================================================================
