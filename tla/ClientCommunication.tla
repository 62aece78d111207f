------------------------- MODULE ClientCommunication -------------------------
(***************************************************************************)
(* The mailboxes of src/src/Server/Client/ClientCommunication.cpp: what    *)
(* authenticated clients store in and retrieve from the table message_data *)
(* (src/sql/build_db.sql) on behalf of Client::Perform.                    *)
(*                                                                         *)
(* A session is a client whose HandleAuthProof succeeded: its UserInfo no  *)
(* longer changes (IdentityFrozen of ClientAuthentication).  One worker at *)
(* a time serves a session (OneWorkerInside of ClientPerform), different   *)
(* workers serve different sessions, also those of the same device, each   *)
(* over a database session of its own.  A statement is atomic and may      *)
(* fail.  The data of a message is its length.  The database compares text *)
(* without regard to case (utf8_general_ci), so it may take one device key *)
(* for another.                                                            *)
(***************************************************************************)
EXTENDS Integers, FiniteSets, Sequences

CONSTANTS Sessions,
          Users,
          Devices,                 \* device keys
          Collated,                \* Collated[d]: what a comparison sees of d
          None,
          us_MDMessageDataSize,    \* DatabaseTable.h:188
          MaxId,                   \* bound: messages stored
          MaxLength                \* bound: length of a message

ASSUME SizesOK ==
    /\ DOMAIN Collated = Devices
    /\ us_MDMessageDataSize \in Nat
    /\ MaxId \in Nat
    /\ MaxLength \in Nat
    /\ None \notin Sessions

\* UserInfo.h:30-40.  The type is a byte of the client's choice; CLIENT_OTHER stands
\* for every value that is neither.
CLIENT_APP == 0
CLIENT_PLATFORM == 1
CLIENT_OTHER == 2
ClientTypes == {CLIENT_APP, CLIENT_PLATFORM, CLIENT_OTHER}

VARIABLES c_UserInfo,      \* per session
          message_data,    \* the rows of the table
          last,            \* the last message_id given out
          c_Row,           \* per session: the row RetrieveMessage has fetched
          writer,          \* history: the session that stored a message
          retrieved,       \* history: the sessions a message was returned to
          failed,          \* history: messages whose removal reported an error
          raced            \* history: messages two sessions had fetched at once

history == <<writer, retrieved, failed, raced>>
vars == <<c_UserInfo, message_data, last, c_Row, history>>

Ids == 1 .. MaxId

UserInfo == [user : Users, device : Devices, type : ClientTypes]

Row == [message_id : Ids, user : Users, device : Devices,
        actor_type : ClientTypes, length : 1 .. MaxLength]

ASSUME NoneIsNoRow == None \notin Row

(***************************************************************************)
(* Base64.cpp: the number of characters of ToString, and the room ToBytes  *)
(* makes for the bytes of so many characters.                              *)
(***************************************************************************)
\* Mutant: no padding.
EncodedUnpadded(n) == (4 * n + 2) \div 3

Encoded(n) == 4 * ((n + 2) \div 3)

Room(chars) == (chars \div 4) * 3

TypeOK ==
    /\ c_UserInfo \in [Sessions -> UserInfo]
    /\ message_data \subseteq Row
    /\ \A r \in message_data : Encoded(r.length) <= us_MDMessageDataSize
    /\ last \in 0 .. MaxId
    /\ c_Row \in [Sessions -> Row \union {None}]
    /\ writer \in [Ids -> Sessions \union {None}]
    /\ retrieved \in [Ids -> Seq(Sessions)]
    /\ failed \subseteq Ids
    /\ raced \subseteq Ids

Init ==
    /\ c_UserInfo \in [Sessions -> UserInfo]
    /\ message_data = {}
    /\ last = 0
    /\ c_Row = [s \in Sessions |-> None]
    /\ writer = [m \in Ids |-> None]
    /\ retrieved = [m \in Ids |-> << >>]
    /\ failed = {}
    /\ raced = {}

Idle(s) == c_Row[s] = None

(***************************************************************************)
(* StoreMessage.  A message it refuses, or whose insertion fails, changes  *)
(* nothing.                                                                *)
(***************************************************************************)
Storable(n) == 0 < n /\ Encoded(n) <= us_MDMessageDataSize

StoreMessage(s) ==
    /\ Idle(s) /\ last < MaxId
    /\ \E n \in 0 .. MaxLength :
          /\ Storable(n)
          /\ message_data' = message_data \union
                {[message_id |-> last + 1,
                  user |-> c_UserInfo[s].user,
                  device |-> c_UserInfo[s].device,
                  actor_type |-> c_UserInfo[s].type,
                  length |-> n]}
    /\ last' = last + 1
    /\ writer' = [writer EXCEPT ![last + 1] = s]
    /\ UNCHANGED <<c_UserInfo, c_Row, retrieved, failed, raced>>

(***************************************************************************)
(* RetrieveMessage: select, limit(1), without an order.  A session of      *)
(* another type, an empty result and a failing statement answer            *)
(* MSG_NO_DATA and change nothing.                                         *)
(***************************************************************************)
\* Mutant: a client is sent what its own side has stored.
SenderIsReciever(type) == type

SenderType(type) == IF type = CLIENT_APP THEN CLIENT_PLATFORM ELSE CLIENT_APP

Matches(r, info) ==
    /\ info.type \in {CLIENT_APP, CLIENT_PLATFORM}
    /\ r.user = info.user
    /\ Collated[r.device] = Collated[info.device]
    /\ r.actor_type = SenderType(info.type)

Select(s) ==
    /\ Idle(s)
    /\ \E r \in message_data :
          /\ Matches(r, c_UserInfo[s])
          /\ c_Row' = [c_Row EXCEPT ![s] = r]
          /\ raced' = IF \E t \in Sessions : c_Row[t] = r
                      THEN raced \union {r.message_id} ELSE raced
    /\ UNCHANGED <<c_UserInfo, message_data, last, writer, retrieved, failed>>

\* Mutants: the row stays; the whole mailbox is emptied; the condition of the select
\* is used again, with its limit of one.
WithoutNone(rows, r) == rows
Mailbox(rows, r) ==
    {x \in rows : <<x.user, x.device, x.actor_type>> = <<r.user, r.device, r.actor_type>>}
WithoutMailbox(rows, r) == rows \ Mailbox(rows, r)
WithoutSelected(rows, r) ==
    IF Mailbox(rows, r) = {} THEN rows
                             ELSE rows \ {CHOOSE x \in Mailbox(rows, r) : TRUE}

\* The rows but the one with the id of r.  That there is none is no error.
Without(rows, r) == {x \in rows : x.message_id # r.message_id}

Return(s) == c_Row' = [c_Row EXCEPT ![s] = None]

Remove(s) ==
    /\ ~Idle(s)
    /\ message_data' = Without(message_data, c_Row[s])
    /\ retrieved' = [retrieved EXCEPT ![c_Row[s].message_id] = Append(@, s)]
    /\ Return(s)
    /\ UNCHANGED <<c_UserInfo, last, writer, failed, raced>>

\* The statement throws, before the database has carried it out or after: the
\* client is told MSG_NO_DATA.
RemoveFails(s) ==
    /\ ~Idle(s)
    /\ \/ UNCHANGED message_data
       \/ message_data' = Without(message_data, c_Row[s])
    /\ failed' = failed \union {c_Row[s].message_id}
    /\ Return(s)
    /\ UNCHANGED <<c_UserInfo, last, writer, retrieved, raced>>

Next == \E s \in Sessions :
    StoreMessage(s) \/ Select(s) \/ Remove(s) \/ RemoveFails(s)

Spec == Init /\ [][Next]_vars

(***************************************************************************)
(* Properties.                                                             *)
(***************************************************************************)

\* A message is returned only to the other side of the device it was stored
\* for: to a session of the user and the device of the session that stored it, as
\* far as the database tells devices apart; an app's message to a platform and a
\* platform's to an app, however long it stayed in the table
\* (ClientCommunication.cpp:44-87, 164-176).
OtherSideOnly ==
    \A m \in Ids : \A n \in 1 .. Len(retrieved[m]) :
        LET from == c_UserInfo[writer[m]]
            to == c_UserInfo[retrieved[m][n]]
        IN /\ writer[m] # None
           /\ to.user = from.user
           /\ Collated[to.device] = Collated[from.device]
           /\ {from.type, to.type} = {CLIENT_APP, CLIENT_PLATFORM}

\* Nothing locks the row between select and remove (ClientCommunication.cpp:
\* 66-115), so a message can be returned more than once; but only when two
\* sessions of the same side of a device had fetched it at the same time.
DuplicateNeedsRace == \A m \in Ids : Len(retrieved[m]) > 1 => m \in raced

\* A stored message is in the table until it is returned; otherwise a removal
\* of it has reported an error (ClientCommunication.cpp:108-115, 125-132).
NothingLost ==
    \A m \in 1 .. last :
        \/ \E r \in message_data : r.message_id = m
        \/ Len(retrieved[m]) > 0
        \/ m \in failed

\* What StoreMessage has written fits its column and decodes: ToBytes makes room
\* for every byte of it, so that no row stays in front of its mailbox for ever
\* (ClientCommunication.cpp:93-100, 152-157, Base64.cpp:32-48).
StoredDecodes ==
    \A r \in message_data :
        /\ Encoded(r.length) <= us_MDMessageDataSize
        /\ r.length <= Room(Encoded(r.length))

\* Session s takes row r out of the table: a row it had fetched for the other side
\* of its device, which it now gets, unless the statement has reported an error.
TakesRow(s, r) ==
    /\ c_Row[s] = r
    /\ Matches(r, c_UserInfo[s])
    /\ \/ retrieved'[r.message_id] = Append(retrieved[r.message_id], s)
       \/ r.message_id \in failed'

TakesFetched ==
    \A r \in message_data : r \notin message_data' =>
        /\ message_data' = message_data \ {r}
        /\ \E s \in Sessions : TakesRow(s, r)

\* A removal, which names only an id and comes after the select it belongs to,
\* takes one row and the very one its session had fetched: not another message of
\* the mailbox, and none stored since (ClientCommunication.cpp:66-115).
RemovesFetched == [][TakesFetched]_vars
=============================================================================
