------------------------ MODULE ClientAuthentication ------------------------
(***************************************************************************)
(* The authentication of one client (src/src/Server/Client/                *)
(* ClientAuthentication.cpp) against a database the operator changes with  *)
(* the commands of src/src/CLI.cpp while requests run.  A request makes    *)
(* two queries and no transaction joins them.  Client::Perform admits the  *)
(* client to its mailbox by what the authentication has left.              *)
(*                                                                         *)
(* One client is enough: authentication only reads the database, and       *)
(* c_PerformMutex admits one handler of a client at a time (ClientPerform).*)
(* A mail, a password and a device key are opaque values.  A query         *)
(* compares text without regard to case (utf8_general_ci) and the program  *)
(* exactly, so mails stand for what a query tells apart.  The database     *)
(* numbers accounts upwards, never twice, and refuses what would leave a   *)
(* device without its account (src/sql/build_db.sql).                      *)
(***************************************************************************)
EXTENDS Naturals

CONSTANTS Mails, Passwords, Keys,
          Collated,      \* Collated[k]: what a comparison of k in a query sees
          Undecodable,   \* a password column that is not base64 of 48 bytes
          Empty,         \* the empty string
          MaxId          \* bound on the number of accounts ever created

ASSUME ValuesOK ==
    /\ DOMAIN Collated = Keys
    /\ {Undecodable, Empty} \cap (Passwords \union Keys) = {}
    /\ MaxId \in Nat

CLIENT_APP == 0
CLIENT_PLATFORM == 1
ClientTypes == {CLIENT_APP, CLIENT_PLATFORM}
UnknownType == 2               \* stands for every other uint8_t

MSG_AUTH_CHALLENGE == 2
MSG_AUTH_RESULT == 4

ERR_NONE == 0
ERR_SG_ERROR == 2
ERR_SA_ACCOUNT == 4
ERR_SA_UNK_ACTOR == 7
ERR_SA_NO_DEVICE == 8

VARIABLES accounts,      \* rows of user_account
          devices,       \* rows of user_device_list: <<user id, device key>>
          nextId,        \* the AUTO_INCREMENT counter of user_account
          c_UserInfo,
          pc,            \* "idle", or "devices" between the two queries
          reply,         \* the last NetMessage made: its first bytes
          enrolled,      \* history: <<user id, password, device key>> that
                         \* were in the database together
          used           \* history: those a mailbox was used as

database == <<accounts, devices, nextId>>
client == <<c_UserInfo, pc, reply>>
history == <<enrolled, used>>
vars == <<database, client, history>>

Ids == 1 .. MaxId

Row == [user_id : Ids, mail_address : Mails, password : Passwords \union {Undecodable}]

Enrolments(A, D) ==
    {e \in Ids \X Passwords \X Keys :
        /\ <<e[1], e[3]>> \in D
        /\ \E r \in A : r.user_id = e[1] /\ r.password = e[2]}

TypeOK ==
    /\ accounts \subseteq Row
    /\ devices \subseteq Ids \X Keys
    /\ nextId \in 1 .. MaxId + 1
    /\ c_UserInfo \in [u32_UserID : Ids \union {0}, s_DeviceKey : Keys \union {Empty},
                       u8_ClientType : ClientTypes \union {UnknownType},
                       b_Authenticated : BOOLEAN, s_Password : Passwords \union {Empty}]
    /\ pc \in {"idle", "devices"}
    /\ reply \in {<<>>, <<MSG_AUTH_CHALLENGE>>}
                 \union {<<MSG_AUTH_RESULT, e>> : e \in 0 .. ERR_SA_NO_DEVICE}
    /\ enrolled \subseteq Ids \X Passwords \X Keys
    /\ used \subseteq (Ids \union {0}) \X (Passwords \union {Empty}) \X (Keys \union {Empty})

\* The tables may hold rows the command line did not write.
Init ==
    /\ accounts \in {{}} \union {{r} : r \in {q \in Row : q.user_id = 1}}
    /\ devices = {}
    /\ nextId = IF accounts = {} THEN 1 ELSE 2
    /\ c_UserInfo = [u32_UserID |-> 0, s_DeviceKey |-> Empty,
                     u8_ClientType |-> CLIENT_APP,
                     b_Authenticated |-> FALSE, s_Password |-> Empty]
    /\ pc = "idle"
    /\ reply = <<>>
    /\ enrolled = {}
    /\ used = {}

(***************************************************************************)
(* The command line.                                                       *)
(***************************************************************************)
Commit ==
    /\ enrolled' = enrolled \union Enrolments(accounts', devices')
    /\ UNCHANGED <<client, used>>

CreateAccount(m, p) ==
    /\ nextId \in Ids
    /\ accounts' = accounts \union
           {[user_id |-> nextId, mail_address |-> m, password |-> p]}
    /\ nextId' = nextId + 1
    /\ UNCHANGED devices
    /\ Commit

RemoveAccount(r) ==
    /\ r \in accounts
    /\ \A d \in devices : d[1] # r.user_id
    /\ accounts' = accounts \ {r}
    /\ UNCHANGED <<devices, nextId>>
    /\ Commit

AddDevice(id, k) ==
    /\ \E r \in accounts : r.user_id = id
    /\ devices' = devices \union {<<id, k>>}
    /\ UNCHANGED <<accounts, nextId>>
    /\ Commit

RemoveDevice(id, k) ==
    /\ devices' = {d \in devices : d[1] # id \/ Collated[d[2]] # Collated[k]}
    /\ UNCHANGED <<accounts, nextId>>
    /\ Commit

(***************************************************************************)
(* HandleAuthRequest.                                                      *)
(***************************************************************************)
AuthResult(e) == <<MSG_AUTH_RESULT, e>>

Answer(info, message) ==
    /\ c_UserInfo' = info
    /\ reply' = message
    /\ pc' = "idle"
    /\ UNCHANGED <<database, history>>

\* Mutant: the request is served again whatever came before it.
NeverAuthenticated == FALSE

Authenticated == c_UserInfo.b_Authenticated

RequestAgain ==
    /\ pc = "idle" /\ Authenticated
    /\ Answer(c_UserInfo, AuthResult(ERR_NONE))

\* The type is stored before it is looked at.
Typed(type) == [c_UserInfo EXCEPT !.u8_ClientType = type]

RequestUnknownActor ==
    /\ pc = "idle" /\ ~Authenticated
    /\ Answer(Typed(UnknownType), AuthResult(ERR_SA_UNK_ACTOR))

\* The query of user_account fails: what an earlier request left stays.
AccountError(type) ==
    /\ pc = "idle" /\ ~Authenticated
    /\ Answer(Typed(type), AuthResult(ERR_SG_ERROR))

Matching(m) == {r \in accounts : r.mail_address = m}

\* No row, or more than one: mail addresses are not unique.
AccountUnclear(type, m) ==
    /\ pc = "idle" /\ ~Authenticated
    /\ \A r \in Matching(m) : Matching(m) # {r}
    /\ Answer(Typed(type), AuthResult(ERR_SA_ACCOUNT))

\* Mutant: the length of what was decoded is not looked at.
ReadableAlways(r) == TRUE

Readable(r) == r.password # Undecodable

PasswordUnreadable(type, m) ==
    /\ pc = "idle" /\ ~Authenticated
    /\ \E r \in Matching(m) :
          /\ Matching(m) = {r}
          /\ ~Readable(r)
          /\ Answer([Typed(type) EXCEPT !.u32_UserID = r.user_id, !.s_Password = Empty],
                    AuthResult(ERR_SA_ACCOUNT))

AccountFound(type, m, k) ==
    /\ pc = "idle" /\ ~Authenticated
    /\ \E r \in Matching(m) :
          /\ Matching(m) = {r}
          /\ Readable(r)
          /\ c_UserInfo' = [Typed(type) EXCEPT !.u32_UserID = r.user_id,
                                !.s_Password = r.password, !.s_DeviceKey = k]
    /\ pc' = "devices"
    /\ UNCHANGED <<database, reply, history>>

\* Mutant: a request that ends without a challenge leaves the password.
PasswordKept == c_UserInfo

PasswordReset == [c_UserInfo EXCEPT !.s_Password = Empty]

DeviceListed == <<c_UserInfo.u32_UserID, c_UserInfo.s_DeviceKey>> \in devices

DeviceMissing ==
    /\ pc = "devices" /\ ~DeviceListed
    /\ Answer(PasswordReset, AuthResult(ERR_SA_NO_DEVICE))

DeviceError ==
    /\ pc = "devices"
    /\ Answer(PasswordReset, AuthResult(ERR_SG_ERROR))

Challenge ==
    /\ pc = "devices" /\ DeviceListed
    /\ Answer(c_UserInfo, <<MSG_AUTH_CHALLENGE>>)

(***************************************************************************)
(* HandleAuthProof.  The box in the proof opens with the key it was made   *)
(* with; what it contains is not looked at.                                *)
(***************************************************************************)
\* v_Data[0] is overwritten.
Failed(message) == [message EXCEPT ![1] = ERR_SA_ACCOUNT]

ProofAgain ==
    /\ pc = "idle" /\ Authenticated
    /\ Answer(c_UserInfo, AuthResult(ERR_NONE))

ProofAccepted(key) ==
    /\ pc = "idle" /\ ~Authenticated
    /\ c_UserInfo.s_Password = key
    /\ Answer([c_UserInfo EXCEPT !.b_Authenticated = TRUE], AuthResult(ERR_NONE))

ProofRefused(key) ==
    /\ pc = "idle" /\ ~Authenticated
    /\ c_UserInfo.s_Password # key      \* also when there is no password
    /\ Answer(c_UserInfo, Failed(AuthResult(ERR_NONE)))

(***************************************************************************)
(* MSG_GET_DATA, MSG_TEXT and MSG_LOCATION (Client.cpp:169-194).  What     *)
(* becomes of the mailbox is in ClientCommunication.  Perform disconnects  *)
(* a client it refuses, which stops no message that has already come.      *)
(***************************************************************************)
Identity == <<c_UserInfo.u32_UserID, c_UserInfo.s_Password, c_UserInfo.s_DeviceKey>>

\* Mutant: a client that has a challenge to answer is let in.
AdmittedByRequest == c_UserInfo.s_Password # Empty

Admitted == Authenticated

UseMailbox ==
    /\ pc = "idle" /\ Admitted
    /\ used' = used \union {Identity}
    /\ UNCHANGED <<database, client, enrolled>>

HandleAuthRequest ==
    \/ RequestAgain
    \/ RequestUnknownActor
    \/ \E type \in ClientTypes :
          \/ AccountError(type)
          \/ \E m \in Mails :
                \/ AccountUnclear(type, m)
                \/ PasswordUnreadable(type, m)
                \/ \E k \in Keys : AccountFound(type, m, k)
    \/ DeviceMissing \/ DeviceError \/ Challenge

HandleAuthProof ==
    \/ ProofAgain
    \/ \E key \in Passwords : ProofAccepted(key) \/ ProofRefused(key)

UpdateCLI ==
    \/ \E m \in Mails, p \in Passwords : CreateAccount(m, p)
    \/ \E r \in accounts : RemoveAccount(r)
    \/ \E id \in Ids, k \in Keys : AddDevice(id, k) \/ RemoveDevice(id, k)

Next == UpdateCLI \/ HandleAuthRequest \/ HandleAuthProof \/ UseMailbox

Spec == Init /\ [][Next]_vars

(***************************************************************************)
(* Properties.                                                             *)
(***************************************************************************)
\* Whatever requests succeeded, failed half way or came twice, and whatever the
\* operator changed between the two queries: a client that can prove itself,
\* or has, stands for an account, a password and a device that were in the
\* database together (ClientAuthentication.cpp:116-161).
IdentityEnrolled ==
    pc = "idle" /\ (Authenticated \/ c_UserInfo.s_Password # Empty)
        => Identity \in enrolled

\* An authenticated client never becomes another one: no later request or
\* proof changes its user, its device or its type (ClientAuthentication.cpp:
\* 55, 187), which select the messages it gets and stores.
IdentityFrozen ==
    [][c_UserInfo.b_Authenticated => c_UserInfo' = c_UserInfo]_vars

\* A client uses the mailbox of one account and device only: those it proved
\* itself for, which were in the database together, and it is authenticated as
\* them for good.  What requests that failed half way have left of other
\* accounts is never used, in whatever order messages come (Client.cpp:132-194,
\* ClientAuthentication.cpp:54-161, 184-226).
MailboxNeedsProof ==
    used # {} => Authenticated /\ used = {Identity} /\ Identity \in enrolled

\* "Directly giving auth proof is okay and will fail"
\* (ClientAuthentication.cpp:193): a result without error goes to an
\* authenticated client only.
ResultTellsTruth == reply = AuthResult(ERR_NONE) => c_UserInfo.b_Authenticated
=============================================================================
