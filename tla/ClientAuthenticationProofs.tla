--------------------- MODULE ClientAuthenticationProofs ---------------------
(***************************************************************************)
(* Proofs about ClientAuthentication.  The two queries of a request see    *)
(* different states of the database, so the argument has to carry what the *)
(* first one saw to the second one: ids are never used twice, passwords    *)
(* never change, and a device cannot outlive its account.                  *)
(***************************************************************************)
EXTENDS ClientAuthentication, TLAPS

RowsKeyed ==
    \A q, r \in accounts :
        /\ q.user_id = r.user_id => q = r
        /\ r.user_id < nextId

DevicesOwned == \A d \in devices : \E r \in accounts : r.user_id = d[1]

NowEnrolled == Enrolments(accounts, devices) \subseteq enrolled

\* What the first query saw, as far as it still matters at the second one.
Pending ==
    pc = "devices" =>
        /\ ~Authenticated
        /\ c_UserInfo.u32_UserID \in Ids
        /\ c_UserInfo.s_Password \in Passwords
        /\ c_UserInfo.s_DeviceKey \in Keys
        /\ c_UserInfo.u32_UserID < nextId
        /\ \A r \in accounts :
              r.user_id = c_UserInfo.u32_UserID => r.password = c_UserInfo.s_Password

IInv ==
    /\ TypeOK
    /\ RowsKeyed
    /\ DevicesOwned
    /\ NowEnrolled
    /\ Pending
    /\ IdentityEnrolled

\* The tables before the server and the command line have written to them
\* satisfy the invariant.
LEMMA InitIInv == ASSUME Init PROVE IInv
<1> USE ValuesOK DEF Init, Ids, Row, ClientTypes, CLIENT_APP, CLIENT_PLATFORM
<1>1. TypeOK
    <2>1. accounts \subseteq Row /\ nextId \in 1 .. MaxId + 1
        OBVIOUS
    <2> QED BY DEF TypeOK
<1>2. RowsKeyed
    BY DEF RowsKeyed
<1>3. DevicesOwned /\ NowEnrolled
    BY DEF DevicesOwned, NowEnrolled, Enrolments
<1>4. Pending /\ IdentityEnrolled
    BY DEF Pending, IdentityEnrolled, Authenticated
<1> QED BY <1>1, <1>2, <1>3, <1>4 DEF IInv

\* Whatever the command line commits, the enrolments of the new tables are
\* recorded, and what was recorded stays.
LEMMA CommitRecords ==
    ASSUME TypeOK, Commit
    PROVE  /\ NowEnrolled'
           /\ enrolled' \subseteq Ids \X Passwords \X Keys
           /\ enrolled \subseteq enrolled'
           /\ Identity' = Identity
BY DEF TypeOK, Commit, NowEnrolled, Enrolments, Identity, client

\* A new account has a fresh id, which no pending request stands for.
LEMMA CreateAccountStep ==
    ASSUME IInv, NEW m \in Mails, NEW p \in Passwords, CreateAccount(m, p)
    PROVE  IInv'
<1> USE ValuesOK, CommitRecords DEF IInv, CreateAccount
<1>1. TypeOK'
    <2>1. [user_id |-> nextId, mail_address |-> m, password |-> p] \in Row
        BY DEF Row
    <2>2. accounts' \subseteq Row /\ nextId' \in 1 .. MaxId + 1
        BY <2>1 DEF TypeOK, Ids
    <2> QED BY <2>2 DEF TypeOK, Commit, client
<1>2. RowsKeyed'
    BY DEF TypeOK, RowsKeyed, Ids, Row
<1>3. DevicesOwned'
    BY DEF DevicesOwned
<1>4. Pending'
    BY DEF Pending, Commit, client, Authenticated, Ids
<1>5. IdentityEnrolled'
    BY DEF IdentityEnrolled, Commit, client, Authenticated
<1> QED BY <1>1, <1>2, <1>3, <1>4, <1>5

\* An account leaves only when no device refers to it.
LEMMA RemoveAccountStep ==
    ASSUME IInv, NEW r \in accounts, RemoveAccount(r)
    PROVE  IInv'
<1> USE CommitRecords DEF IInv, RemoveAccount
<1>1. TypeOK'
    BY DEF TypeOK, Commit, client
<1>2. RowsKeyed'
    BY DEF RowsKeyed
<1>3. DevicesOwned'
    BY DEF DevicesOwned
<1>4. Pending'
    BY DEF Pending, Commit, client, Authenticated
<1>5. IdentityEnrolled'
    BY DEF IdentityEnrolled, Commit, client, Authenticated
<1> QED BY <1>1, <1>2, <1>3, <1>4, <1>5

\* A device is listed for an account that exists.
LEMMA AddDeviceStep ==
    ASSUME IInv, NEW id \in Ids, NEW k \in Keys, AddDevice(id, k)
    PROVE  IInv'
<1> USE CommitRecords DEF IInv, AddDevice
<1>1. TypeOK'
    <2>1. devices' \subseteq Ids \X Keys
        BY DEF TypeOK
    <2> QED BY <2>1 DEF TypeOK, Commit, client
<1>2. RowsKeyed'
    BY DEF RowsKeyed
<1>3. DevicesOwned'
    BY DEF DevicesOwned
<1>4. Pending'
    BY DEF Pending, Commit, client, Authenticated
<1>5. IdentityEnrolled'
    BY DEF IdentityEnrolled, Commit, client, Authenticated
<1> QED BY <1>1, <1>2, <1>3, <1>4, <1>5

\* A device leaves; what was enrolled with it stays in the history.
LEMMA RemoveDeviceStep ==
    ASSUME IInv, NEW id \in Ids, NEW k \in Keys, RemoveDevice(id, k)
    PROVE  IInv'
<1> USE CommitRecords DEF IInv, RemoveDevice
<1>1. TypeOK'
    BY DEF TypeOK, Commit, client
<1>2. RowsKeyed'
    BY DEF RowsKeyed
<1>3. DevicesOwned'
    BY DEF DevicesOwned
<1>4. Pending'
    BY DEF Pending, Commit, client, Authenticated
<1>5. IdentityEnrolled'
    BY DEF IdentityEnrolled, Commit, client, Authenticated
<1> QED BY <1>1, <1>2, <1>3, <1>4, <1>5

\* An answer that leaves the client's identity alone, or takes its password
\* away, or was preceded by the check of both queries, is harmless.
LEMMA AnswerStep ==
    ASSUME IInv, NEW info, NEW message, Answer(info, message), TypeOK',
           \/ info.s_Password = Empty /\ ~info.b_Authenticated
           \/ <<info.u32_UserID, info.s_Password, info.s_DeviceKey>> \in enrolled
    PROVE  IInv'
<1> USE DEF IInv, Answer, database, history
<1>1. RowsKeyed' /\ DevicesOwned' /\ NowEnrolled'
    BY DEF RowsKeyed, DevicesOwned, NowEnrolled
<1>2. Pending'
    BY DEF Pending
<1>3. IdentityEnrolled'
    BY DEF IdentityEnrolled, Identity, Authenticated
<1> QED BY <1>1, <1>2, <1>3

\* A request handled without a query of the devices.
LEMMA RefusedStep ==
    ASSUME IInv,
           \/ RequestAgain
           \/ RequestUnknownActor
           \/ \E type \in ClientTypes :
                 \/ AccountError(type)
                 \/ \E m \in Mails : AccountUnclear(type, m)
    PROVE  IInv'
<1> DEFINE Info == {c_UserInfo} \union {Typed(type) : type \in ClientTypes \union {UnknownType}}
<1>1. PICK info \in Info, e \in {ERR_NONE, ERR_SA_UNK_ACTOR, ERR_SG_ERROR, ERR_SA_ACCOUNT} :
          pc = "idle" /\ Answer(info, AuthResult(e))
    BY DEF RequestAgain, RequestUnknownActor, AccountError, AccountUnclear
<1>2. /\ info \in [u32_UserID : Ids \union {0}, s_DeviceKey : Keys \union {Empty},
                    u8_ClientType : ClientTypes \union {UnknownType},
                    b_Authenticated : BOOLEAN, s_Password : Passwords \union {Empty}]
      /\ <<info.u32_UserID, info.s_Password, info.s_DeviceKey>> = Identity
      /\ info.s_Password = c_UserInfo.s_Password
      /\ info.b_Authenticated = c_UserInfo.b_Authenticated
    BY DEF IInv, TypeOK, Typed, Identity
<1>3. TypeOK'
    BY <1>1, <1>2 DEF IInv, TypeOK, Answer, database, history, AuthResult, ERR_NONE,
       ERR_SA_UNK_ACTOR, ERR_SG_ERROR, ERR_SA_ACCOUNT, ERR_SA_NO_DEVICE
<1>4. \/ info.s_Password = Empty /\ ~info.b_Authenticated
      \/ <<info.u32_UserID, info.s_Password, info.s_DeviceKey>> \in enrolled
    BY <1>1, <1>2 DEF IInv, IdentityEnrolled, Authenticated
<1> QED BY <1>1, <1>3, <1>4, AnswerStep

\* A row whose password cannot be decoded leaves the client without one.
LEMMA PasswordUnreadableStep ==
    ASSUME IInv, NEW type \in ClientTypes, NEW m \in Mails, PasswordUnreadable(type, m)
    PROVE  IInv'
<1>1. PICK r \in accounts :
          /\ pc = "idle" /\ ~Authenticated
          /\ Answer([Typed(type) EXCEPT !.u32_UserID = r.user_id, !.s_Password = Empty],
                    AuthResult(ERR_SA_ACCOUNT))
    BY DEF PasswordUnreadable, Matching
<1> DEFINE info == [Typed(type) EXCEPT !.u32_UserID = r.user_id, !.s_Password = Empty]
<1>2. /\ info \in [u32_UserID : Ids \union {0}, s_DeviceKey : Keys \union {Empty},
                    u8_ClientType : ClientTypes \union {UnknownType},
                    b_Authenticated : BOOLEAN, s_Password : Passwords \union {Empty}]
      /\ info.s_Password = Empty
      /\ ~info.b_Authenticated
    BY <1>1 DEF IInv, TypeOK, Typed, Row, Authenticated
<1>3. TypeOK'
    BY <1>1, <1>2 DEF IInv, TypeOK, Answer, database, history, AuthResult, ERR_SA_ACCOUNT,
       ERR_SA_NO_DEVICE
<1> HIDE DEF info
<1> QED BY <1>1, <1>2, <1>3, AnswerStep DEF info

\* The first query found the one account with the mail address.
LEMMA AccountFoundStep ==
    ASSUME IInv, NEW type \in ClientTypes, NEW m \in Mails, NEW k \in Keys,
           AccountFound(type, m, k)
    PROVE  IInv'
<1>1. PICK r \in accounts :
          /\ r.password # Undecodable
          /\ c_UserInfo' = [Typed(type) EXCEPT !.u32_UserID = r.user_id,
                                !.s_Password = r.password, !.s_DeviceKey = k]
    BY DEF AccountFound, Matching, Readable
<1>2. r.user_id \in Ids /\ r.password \in Passwords /\ r.user_id < nextId
    BY <1>1 DEF IInv, TypeOK, Row, RowsKeyed
<1>3. /\ c_UserInfo'.u32_UserID = r.user_id
      /\ c_UserInfo'.s_Password = r.password
      /\ c_UserInfo'.s_DeviceKey = k
      /\ ~c_UserInfo'.b_Authenticated
      /\ c_UserInfo' \in [u32_UserID : Ids \union {0}, s_DeviceKey : Keys \union {Empty},
                          u8_ClientType : ClientTypes \union {UnknownType},
                          b_Authenticated : BOOLEAN, s_Password : Passwords \union {Empty}]
    BY <1>1, <1>2 DEF IInv, TypeOK, Typed, AccountFound, Authenticated
<1>4. TypeOK' /\ RowsKeyed' /\ DevicesOwned' /\ NowEnrolled'
    BY <1>3 DEF IInv, TypeOK, RowsKeyed, DevicesOwned, NowEnrolled, AccountFound,
       database, history
<1>5. Pending'
    BY <1>2, <1>3 DEF IInv, Pending, RowsKeyed, AccountFound, database, history,
       Authenticated
<1>6. IdentityEnrolled'
    BY DEF IdentityEnrolled, AccountFound
<1> QED BY <1>4, <1>5, <1>6 DEF IInv

\* The second query fails or does not list the device.
LEMMA DeviceRefusedStep ==
    ASSUME IInv, DeviceMissing \/ DeviceError
    PROVE  IInv'
<1>1. PICK e \in {ERR_SA_NO_DEVICE, ERR_SG_ERROR} :
          pc = "devices" /\ Answer(PasswordReset, AuthResult(e))
    BY DEF DeviceMissing, DeviceError
<1>2. TypeOK'
    BY <1>1 DEF IInv, TypeOK, Answer, database, history, AuthResult, PasswordReset,
       ERR_SG_ERROR, ERR_SA_NO_DEVICE
<1>3. PasswordReset.s_Password = Empty /\ ~PasswordReset.b_Authenticated
    BY <1>1 DEF IInv, PasswordReset, Pending, Authenticated
<1> QED BY <1>1, <1>2, <1>3, AnswerStep

\* The device is listed, so its account still exists, has the id and the
\* password the first query saw, and the three are enrolled at this moment.
LEMMA ChallengeStep ==
    ASSUME IInv, Challenge
    PROVE  IInv'
<1>1. PICK r \in accounts :
          r.user_id = c_UserInfo.u32_UserID /\ r.password = c_UserInfo.s_Password
    BY DEF IInv, Challenge, DeviceListed, DevicesOwned, Pending
<1>2. Identity \in Enrolments(accounts, devices)
    BY <1>1 DEF IInv, Challenge, DeviceListed, Pending, Enrolments, Identity
<1>3. Identity \in enrolled
    BY <1>2 DEF IInv, NowEnrolled
<1>4. TypeOK'
    BY DEF IInv, TypeOK, Challenge, Answer, database, history
<1> QED BY <1>3, <1>4, AnswerStep DEF Challenge, Identity

\* A proof changes nothing but b_Authenticated, and that only when the client
\* has a password.
LEMMA ProofStep ==
    ASSUME IInv, HandleAuthProof
    PROVE  IInv'
<1>1. CASE ProofAgain \/ \E key \in Passwords : ProofRefused(key)
    <2>1. PICK message \in {AuthResult(ERR_NONE), Failed(AuthResult(ERR_NONE))} :
              pc = "idle" /\ Answer(c_UserInfo, message)
        BY <1>1 DEF ProofAgain, ProofRefused
    <2>2. message \in {<<MSG_AUTH_RESULT, e>> : e \in 0 .. ERR_SA_NO_DEVICE}
        BY DEF Failed, AuthResult, ERR_NONE, ERR_SA_NO_DEVICE, ERR_SA_ACCOUNT,
           MSG_AUTH_RESULT
    <2>3. TypeOK'
        BY <2>1, <2>2 DEF IInv, TypeOK, Answer, database, history
    <2>4. \/ c_UserInfo.s_Password = Empty /\ ~c_UserInfo.b_Authenticated
          \/ <<c_UserInfo.u32_UserID, c_UserInfo.s_Password, c_UserInfo.s_DeviceKey>>
                \in enrolled
        BY <2>1 DEF IInv, IdentityEnrolled, Identity, Authenticated
    <2> QED BY <2>1, <2>3, <2>4, AnswerStep
<1>2. ASSUME NEW key \in Passwords, ProofAccepted(key) PROVE IInv'
    <2> DEFINE info == [c_UserInfo EXCEPT !.b_Authenticated = TRUE]
    <2>1. pc = "idle" /\ Answer(info, AuthResult(ERR_NONE))
        BY <1>2 DEF ProofAccepted
    <2>2. /\ info.u32_UserID = c_UserInfo.u32_UserID
          /\ info.s_Password = c_UserInfo.s_Password
          /\ info.s_DeviceKey = c_UserInfo.s_DeviceKey
        OBVIOUS
    <2>3. TypeOK'
        <3>1. info \in [u32_UserID : Ids \union {0}, s_DeviceKey : Keys \union {Empty},
                        u8_ClientType : ClientTypes \union {UnknownType},
                        b_Authenticated : BOOLEAN, s_Password : Passwords \union {Empty}]
            BY DEF IInv, TypeOK
        <3> HIDE DEF info
        <3> QED BY <2>1, <3>1 DEF IInv, TypeOK, Answer, database, history, AuthResult,
           ERR_NONE, ERR_SA_NO_DEVICE
    <2>4. c_UserInfo.s_Password # Empty
        BY <1>2, ValuesOK DEF ProofAccepted
    <2>5. <<info.u32_UserID, info.s_Password, info.s_DeviceKey>> \in enrolled
        BY <2>1, <2>4 DEF IInv, IdentityEnrolled, Identity
    <2> HIDE DEF info
    <2> QED BY <2>1, <2>3, <2>5, AnswerStep
<1> QED BY <1>1, <1>2 DEF HandleAuthProof

\* The mailbox is used; nothing else happens.
LEMMA UseMailboxStep ==
    ASSUME IInv, UseMailbox
    PROVE  IInv'
<1>1. TypeOK'
    <2>1. Identity \in (Ids \union {0}) \X (Passwords \union {Empty}) \X (Keys \union {Empty})
        BY DEF IInv, TypeOK, Identity
    <2> HIDE DEF Identity
    <2> QED BY <2>1 DEF IInv, TypeOK, UseMailbox, database, client
<1>2. RowsKeyed' /\ DevicesOwned' /\ NowEnrolled' /\ Pending'
    BY DEF IInv, UseMailbox, database, client, RowsKeyed, DevicesOwned, NowEnrolled,
       Pending, Authenticated
<1>3. IdentityEnrolled'
    BY DEF IInv, UseMailbox, client, IdentityEnrolled, Identity, Authenticated
<1> QED BY <1>1, <1>2, <1>3 DEF IInv

\* A step that changes nothing keeps the invariant.
LEMMA StutterStep == ASSUME IInv, UNCHANGED vars PROVE IInv'
BY DEF IInv, TypeOK, RowsKeyed, DevicesOwned, NowEnrolled, Pending,
   IdentityEnrolled, Identity, Authenticated, vars, database, client, history

\* The invariant holds in every reachable state, for every set of mails,
\* passwords and keys and every number of accounts.
THEOREM Consistent == Spec => []IInv
<1>1. ASSUME IInv, [Next]_vars PROVE IInv'
    <2>1. CASE UpdateCLI
        BY <1>1, <2>1, CreateAccountStep, RemoveAccountStep, AddDeviceStep,
           RemoveDeviceStep DEF UpdateCLI
    <2>2. CASE HandleAuthRequest
        BY <1>1, <2>2, RefusedStep, PasswordUnreadableStep, AccountFoundStep,
           DeviceRefusedStep, ChallengeStep DEF HandleAuthRequest
    <2>3. CASE HandleAuthProof
        BY <1>1, <2>3, ProofStep
    <2>4. CASE UseMailbox
        BY <1>1, <2>4, UseMailboxStep
    <2>5. CASE UNCHANGED vars
        BY <1>1, <2>5, StutterStep
    <2> QED BY <1>1, <2>1, <2>2, <2>3, <2>4, <2>5 DEF Next
<1> QED BY InitIInv, <1>1, PTL DEF Spec

\* Every variable keeps its type: no request leaves the client with a password
\* that is none.
THEOREM TypeCorrect == Spec => []TypeOK
<1>1. IInv => TypeOK
    BY DEF IInv
<1> QED BY <1>1, Consistent, PTL

\* A client that can prove itself, or has, stands for an account, a password
\* and a device that were in the database together, although the two queries
\* of its request saw different states of it (ClientAuthentication.cpp:76-161).
THEOREM ClientsAreEnrolled == Spec => []IdentityEnrolled
<1>1. IInv => IdentityEnrolled
    BY DEF IInv
<1> QED BY <1>1, Consistent, PTL

\* Every step leaves an authenticated client as it is: the tests at
\* ClientAuthentication.cpp:55 and 187 and the end of the pending query.
LEMMA FrozenStep ==
    ASSUME IInv, [Next]_vars, c_UserInfo.b_Authenticated
    PROVE  c_UserInfo' = c_UserInfo
<1>1. pc = "idle"
    BY DEF IInv, TypeOK, Pending, Authenticated
<1>2. CASE UpdateCLI
    BY <1>2 DEF UpdateCLI, CreateAccount, RemoveAccount, AddDevice, RemoveDevice,
       Commit, client
<1>3. CASE HandleAuthRequest
    BY <1>1, <1>3 DEF HandleAuthRequest, RequestAgain, RequestUnknownActor,
       AccountError, AccountUnclear, PasswordUnreadable, AccountFound,
       DeviceMissing, DeviceError, Challenge, Answer, Authenticated
<1>4. CASE HandleAuthProof
    BY <1>4 DEF HandleAuthProof, ProofAgain, ProofAccepted, ProofRefused, Answer,
       Authenticated
<1>5. CASE UseMailbox
    BY <1>5 DEF UseMailbox, client
<1>6. CASE UNCHANGED vars
    BY <1>6 DEF vars, client
<1> QED BY <1>2, <1>3, <1>4, <1>5, <1>6 DEF Next

\* An authenticated client never becomes another one.
THEOREM IdentityStays == Spec => IdentityFrozen
<1>1. ASSUME IInv, [Next]_vars
      PROVE  [c_UserInfo.b_Authenticated => c_UserInfo' = c_UserInfo]_vars
    BY <1>1, FrozenStep
<1> QED BY <1>1, Consistent, PTL DEF Spec, IdentityFrozen

\* A step other than UseMailbox uses no mailbox and forgets no enrolment.
LEMMA UsedStep ==
    ASSUME IInv, [Next]_vars, ~UseMailbox
    PROVE  used' = used /\ enrolled \subseteq enrolled'
<1>1. CASE UpdateCLI
    BY <1>1 DEF UpdateCLI, CreateAccount, RemoveAccount, AddDevice, RemoveDevice, Commit
<1>2. CASE HandleAuthRequest
    BY <1>2 DEF HandleAuthRequest, RequestAgain, RequestUnknownActor,
       AccountError, AccountUnclear, PasswordUnreadable, AccountFound,
       DeviceMissing, DeviceError, Challenge, Answer, history
<1>3. CASE HandleAuthProof
    BY <1>3 DEF HandleAuthProof, ProofAgain, ProofAccepted, ProofRefused, Answer, history
<1>4. CASE UNCHANGED vars
    BY <1>4 DEF vars, history
<1> QED BY <1>1, <1>2, <1>3, <1>4 DEF Next

\* A client uses only the mailbox it has proved itself for.
THEOREM MailboxesNeedProof == Spec => []MailboxNeedsProof
<1>1. Init => MailboxNeedsProof
    BY DEF Init, MailboxNeedsProof
<1>2. ASSUME IInv, MailboxNeedsProof, [Next]_vars
      PROVE  MailboxNeedsProof'
    <2>1. CASE UseMailbox
        <3>1. Authenticated /\ Identity \in enrolled
            BY <1>2, <2>1 DEF UseMailbox, Admitted, IInv, IdentityEnrolled
        <3>2. used' = {Identity}
            BY <1>2, <2>1 DEF UseMailbox, MailboxNeedsProof
        <3> QED BY <2>1, <3>1, <3>2 DEF UseMailbox, MailboxNeedsProof, Identity,
               Authenticated, client
    <2>2. CASE ~UseMailbox /\ used # {}
        <3>1. c_UserInfo' = c_UserInfo
            BY <1>2, <2>2, FrozenStep DEF MailboxNeedsProof, Authenticated
        <3> QED BY <1>2, <2>2, <3>1, UsedStep DEF MailboxNeedsProof, Identity, Authenticated
    <2>3. CASE ~UseMailbox /\ used = {}
        BY <1>2, <2>3, UsedStep DEF MailboxNeedsProof
    <2> QED BY <2>1, <2>2, <2>3
<1> QED BY <1>1, <1>2, Consistent, PTL DEF Spec
=============================================================================
