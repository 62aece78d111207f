# Verification of mrhnetserver

TLA+ models of the MRH net server (the C++ sources in `src/src`, the tables in
`src/sql/build_db.sql`), configurations that check them with TLC, and proofs
checked with TLAPS. Paths such as `Client.cpp:110` are relative to `src/src`
and its directories (`SharedList.h`, `Main.cpp`, `CLI.cpp`; `Job/`, `Server/`,
`Server/Client/`, `Server/MsQuic/`).

## 1. The system

Apps and platform services connect over QUIC, authenticate, and leave
short messages for each other in a database. The server is one process:

    MsQuic threads --callbacks--> ClientPool --AddJob--> JobList --GetJob--> workers
         |                            |                                        |
    ConnectionContext              Client  <------------- Perform -------------+
         |                    c_Recieved, c_Send                               |
    ListenerContext           l_StreamContext  --StreamSend--> MsQuic       Database

| Part | State | Operations | Correct when |
|------|-------|------------|--------------|
| `SharedList<T>` (`SharedList.h`) | deque of entries with a mutex each, two counters, `c_Mutex` | `Add`, `GetElement`, `GetElements` | no element lost or given out twice; the counter follows |
| `JobList` (`Job/`) | a `SharedList<Job>`, condition variable, `b_Locked` | `AddJob`, `GetJob`, `Lock` | a stored job gets a worker; after `Lock` workers leave |
| `ThreadPool`, `main` | `b_Run` of each, the job in hand, the objects of `main` | making and joining the threads, their loop, SIGTERM, the way out, also by an exception | the program ends, no job after the lock but the one in hand; nobody uses an object that is gone |
| `Client` (`Server/Client.cpp`) | `c_Recieved`, `c_Send`, `c_PerformMutex`, `c_UserInfo`, `l_StreamContext` | `RecieveNetMessage`, `Perform`, `Send`, `Disconnect` | one worker inside; no message and no reply left behind; contexts come back |
| `ClientPool`, connections (`Server/MsQuic/MsQuic.cpp`) | members with a mutex each, `i_ClientConnections`, contexts | `ListenerCallback`, `ConnectionCallback`, `AddClient`, `RemoveClient` | an id leads to the own client; the limit |
| `Server` | listener, configuration, `ListenerContext` | constructor, `Start`, `Stop`, destructor | what is opened is closed; nothing used after it is released |
| `ClientAuthentication` | `c_UserInfo`; reads two tables | `HandleAuthRequest`, `HandleAuthProof` | who is authenticated is enrolled, and stays who he is |
| `ClientCommunication` | the table `message_data` | `StoreMessage`, `RetrieveMessage` | the other side of the device gets each message, and it alone |
| `CLI` | the tables, `b_Run`, its thread | create and remove accounts and devices; start, stop | the thread ends with `main` |
| `Base64`, `NetMessage` | none | conversions | decoding undoes encoding |
| receiving streams | `l_Recieved` of a connection | `PEER_STREAM_STARTED`, `StreamRecieveCallback` | a message is assembled from its own stream |
| `Configuration` | a file | parsing at start | modelled only: opening may fail, the default number of clients |
| `Logger` | a file | output | not modelled |

What makes it hard: the scans of `SharedList` take no common lock; `GetJob`
looks and sleeps in two steps; several workers may hold jobs of one client;
MsQuic runs callbacks of different connections in parallel and keeps reading a
send buffer after `StreamSend` returned; failures throw half way; a request
reads the database twice while an operator changes it; a message is
selected and removed by two statements; `main` may leave by an exception at any of
its constructors, with threads and callbacks running. The list of hazards, each with its line and
the properties that watch it, is in `PROJECT.json`.

## 2. The modules

Each `MC*.tla` instantiates one module for TLC, and the `.cfg` files of the same
name give the constants their values. Three modules are abstract, each stating what other
modules promise or rely on: `ElementStore`, `Outbox` and `MainPhases`.

**ElementStore** is the abstract specification of a list: a set `stored`, calls
that begin, take effect (`Put`, `Claim` then `Take`, `Reject`) and return. It
says what callers may rely on: an element leaves once, and a getter that no
`Add` overlapped comes back empty only if all stored elements are claimed by
other getters. There is no promise for a getter that overlaps an `Add`, which may
hold the mutex of the very entry, and none about order.

**SharedList** is the code, one action per step another thread can see: `try_lock`,
the look and swap under it, the counter, the unlock; for the growth, the guard,
`emplace_back` and the two counters. Indexing while `emplace_back` replaces
the node map of the deque is undefined behaviour: the thread becomes `wild` and
does nothing more. `Unguarded` is the `lock_guard` when `emplace_back` throws. `Stored` and `Claim` are the refinement mapping to
`ElementStore`. Abstracted: the list is as long as `MaxEntries` and may fail to grow at
any size; `size_t` wraps at `SizeMax + 1`; `Relocates` says at which sizes the node
map moves (the library decides, any set is allowed).

**JobList** has the constructor of the pool (`Spawn`; `SpawnFails` terminates the program
if threads run already, else `main` leaves), the loops of `ThreadPool::Update` and of
`main`, `GetJob`, `AddJob`, the callbacks that call it, SIGTERM and the way out of `main`.
When the database of `main` throws (`Connect`) the pool is joined and nobody locks the list.
`StopServer` only ends the listener; callbacks of the connections go on until `CloseServer`.
The module uses `ElementStore` for `c_JobList`; `ListImplementsStore` justifies that. `Wait`
has no predicate, as in the code; `Notify` wakes one waiter, if there is one;
`SpuriousWake` may wake any. A failing `AddJob` drops a worker's job (`AddFails`)
and ends the program in a callback (`Abort`, `DataRecieved` is `noexcept`).

**ClientPerform** is one client between the callbacks of its connection and the
workers: `c_Recieved` through `ElementStore`, `c_Send` and the job list as
numbers. A `try_lock` that fails sends the job back. `Client::Disconnected` has no
caller, so `p_Connection` is never NULL and `Perform` returns `b_Result`. `Send` may succeed
or fail at every reply whatever has become of the connection: the code tests nothing, and
nothing is assumed of the answer of MsQuic to a handle that is closed.

**ClientSend** is the inside of `Send` that `ClientPerform` leaves out: the search for
a context while callbacks complete others, the swap of the bytes, the header
inserted before them, the three MsQuic calls and their failure branches. The bytes
are reduced to the reply they came from and the number of headers before it. `StreamSend`
copies nothing: MsQuic keeps a pointer to the bytes of the context, so what it reads for
a reply in flight is what the context holds at that moment (`Reads`), up to `SEND_COMPLETE`.
`young` and `overtaken` record which contexts have had a reply ever since they were made
and the replies whose young context was given to another one. `UseContext` and `NewContext`
end with the swap and the header (`Fill`), which no other thread can see half done.

**Connections** has `ListenerCallback`, `AddClient` step by step, the end of a
connection with `RemoveClient`, and the `Server` of `main`: its constructor, `Start` with
the branch of each call that may fail, `Stop` and the destructor. `handles` is what is
open; `Opened` and `Undone` say, for each failing call, what came before it and what its
branch closes. `Start` is one step: nothing runs beside it before the listener is started.
`Stop` is two: `CloseListener` lets no callback of the listener begin, and `Stop` goes on
when those that run have returned. A connection whose configuration fails is `rejected` and
stays so, since no callback follows; it owns nothing, but its client and its count remain.

**NetServer** extends `Connections` to the process. `main` makes the objects in `Order`
(`Alive` are those that exist), and any of them may throw: the rest is not made and the
others are destroyed in reverse, with the calls of `Connections` for the `Server`. Around
that are `sodium_init`, the forks of a daemon, the number of threads (`ThreadCount`), and the
thread of the command line, which is made before the server and joined at the very end. Two
paths terminate the program in the code: a pool whose later thread cannot be made, and
a command line that is stopped when its thread was never made.

**StreamRecieve** is the receiving side of one connection: `PEER_STREAM_STARTED`,
the events of a stream, and `RecieveNetMessage` with the constructor of
`NetMessage`, which swaps the bytes out of the context. Callbacks of a connection are sequential, so
each is one action; what interleaves is the streams. Bytes are pieces named by their
stream and position. `PeerUnidiStreamCount` is the setting of `Start`, cut to 16 bits.

**Outbox** is what `Perform` and `Send` agree on about the replies that wait: added only
while nobody sends, all handed over by a call of `Send` that returns, at most one dropped
by a call that throws, which Perform does not forget before it ends. `ClientSend` has the inside of `Send` and adds replies at will;
`ClientPerform` has the replies of the handlers and takes `Send` for a loop over a number.
`waiting` maps to `c_Send` with the reply in hand in the one and to `c_Send` in the other,
`call` to the places inside it and, after an exception, to `b_Result`; that both implement `Outbox` is why the two
modules may be read as one client.

**MainPhases** is the way of `main` from the start of the server to the end of its destructor,
and when callbacks of connections may run beside it. `JobList` and `NetServer` each have one half
of that in detail; `Phase` maps the places of `main` in the first, and the objects that exist and
the stage of the server in the second. A phase in which the one let data arrive, or in
which it waited for something other than the other does, would break the refinement.

**ClientAuthentication** has the two handlers and the four commands of the command line.
A request is two steps, one per query, and the tables may change in between.
`UseMailbox` is what `Client::Perform` admits once a client is authenticated. A client that
was told to disconnect may still do it: its messages that have come are performed. The
error of a proof overwrites the first byte of the reply, as in the code.

**ClientCommunication** has the sessions of any users, devices and types, the select and the
remove of `RetrieveMessage` as two steps, failing statements, and the
sizes of `Base64`.

In the last two, `Collated` stands for the collation `utf8_general_ci`: it maps a device key
to what a comparison inside the database sees of it. `HandleAuthRequest`
compares keys itself, exactly.

How they fit: `ElementStore` is implemented by `SharedList` and used by `JobList` and
`ClientPerform`; `Outbox` is implemented by `ClientSend` and `ClientPerform`; `MainPhases` by
`JobList` and `NetServer`; `ClientPerform` promises progress only as long as workers take the
jobs in the list (`JobsTaken`), which `JobList` shows they may not, and gives `ClientSend`, `ClientAuthentication` and
`ClientCommunication` the one worker they assume (`OneWorkerInside`);
`ClientAuthentication` gives `ClientCommunication` fixed identities (`IdentityFrozen`);
`NetServer` runs `Connections` (theorem `ProcessRunsConnections`: every behaviour of the
process is one of that module) and leaves what the threads do with jobs to `JobList`;
`Connections` gives the callbacks of a connection its own client (`OwnClient`), and
`StreamRecieve` the messages `ClientPerform` starts from.

## 3. The runs

| Run | Instance | Shows |
|-----|----------|-------|
| `shared_list` | 3 threads, 3 elements, 3 entries, `SizeMax` 7 | `ImplementsStore`, `CountExact`, `OneGrower` |
| `job_list` | 2 pool threads and main, 1 callback, 2 jobs | `StallNeedsMiss`, `OneJobAfterLock`, `JobsKept`, `JoinWaitsForSleepers`, `SigTermEndsLoop`, `ImplementsMainPhases` |
| `client_perform` | 3 workers, 3 messages | `NoBacklog`, `OneWorkerInside`, `RecievedIsProcessed`, `RestsUnlessSendsFail`, `ImplementsOutbox` |
| `client_send` | 3 replies, 2 failures | `NoContextLeak`, `RepliesKept`, `AtMostTwoPerContext`, `OnlyFirstAttemptIntact`, `ImplementsOutbox` |
| `connections` | the process: 3 connections, limit 1, 2 callbacks at a time, 3 members, 6 hardware threads | `OwnClient`, `OnlyRefusedStay`, `OvershootBounded`, `CounterExact`, `NothingLeftOpen`, `UsedIsAlive`, `EndsClean`, `EndsUnlessHeld`, `ImplementsMainPhases` |
| `stream_recieve` | 4 streams, 3 at a time, 2 pieces each | `TypeOK`, `WholeStreams`, `ContextsBounded` |
| `client_authentication` | 2 mails, 2 passwords, 3 keys (2 alike), 2 accounts | `TypeOK`, `IdentityEnrolled`, `MailboxNeedsProof`, `IdentityFrozen` |
| `client_communication` | 3 sessions, 2 users, 3 keys (2 alike), 2 messages | `OtherSideOnly`, `DuplicateNeedsRace`, `NothingLost`, `StoredDecodes`, `RemovesFetched` |

Where a run does not check the `TypeOK` of its module, `TypeCorrect` of its proofs says that
it holds for every instance. The bounds:

* `shared_list`: an Add that grows, a getter that scans behind it and one that takes need
  three threads; three entries cover reuse, growth at a size where the map moves
  (2) and where it does not, and a full list. `SizeMax` only has to exceed the
  number of elements and threads together for the wrap to be told from a count.
* `job_list`: the lost wakeup needs a sleeper, a looker and an adder; with three
  workers (main is one) one can be kicked, one busy and one in the gap at the time
  of `Lock`.
* `client_perform`: one worker inside, one turned away and one that takes the job
  the second puts back; three messages let one arrive while each of the others is
  at a different stage. `jobs` and `c_Send` need no bound: messages bound both.
* `client_send`: a third reply can meet the contexts two others have left in every
  combination of free, in flight and completed; `MaxFailures` 2 has a
  retry fail again.
* `connections`: with limit 1 and two callbacks in parallel the limit is met and passed;
  the third connection reuses a member while another is added, and three members leave
  room for each connection to get its own. 6 hardware threads give a pool of two
  threads: both, one or none can be made.
* `stream_recieve`: two streams run side by side while a third leaves a context and a
  fourth takes it; two pieces tell order, and a stream without bytes is included.
* `client_authentication`: two accounts may share a mail, exchange passwords and
  devices; the ids are bounded by `MaxId`, which is also the number of creations.
* `client_communication`: two sessions of one side race while the third is the other side,
  another device or another user; lengths 0 to 4 are below, at and above
  the column of 4 characters, which holds 3 bytes.

Symmetry is used only in runs without liveness properties.

Four runs check what the repository's own comments say and the code does not do. Their
counterexamples, in short:

1. `shared_list_index` — "Lock for outside multithreading" (`SharedList.h:101`):
   the scans do not take that lock, and one indexes the deque while
   `emplace_back` rebuilds its map.
2. `job_list_served` — "This function blocks until a job is available."
   (`JobList.h:87`): main is in its loop and the thread of the pool in its own, both
   between `GetElement` and `wait`. A callback stores a job and notifies nobody, and both go
   to sleep over it. A start that fails is no counterexample (`Started`), and with a wait
   that looks into the list again there is none.
3. `client_authentication_result` — "Directly giving auth proof is okay and
   will fail" (`ClientAuthentication.cpp:193`): the error is written over the id
   of the message, and the result byte stays `ERR_NONE`. The client is still not
   authenticated on the server.
4. `connections_stop` — "will never be used in callbacks after stopping!"
   (`Server.cpp:203`): a connection that ends after `Stop` decrements a counter in the
   deleted `ListenerContext`.

Other deviations are stated by properties that hold, at their exact extent:
`AtMostTwoPerContext` (a new context stays FREE during its first send, so a
second reply can be given its buffer), `OnlyFirstAttemptIntact` (a *retried* reply is
never sent with its own bytes, but with those its context held before; and a reply
whose new context is given to another one loses them while MsQuic reads),
`OvershootBounded` (the limit can be passed), `CounterExact` and `OnlyRefusedStay` (a
connection whose configuration fails, `MsQuic.cpp:63`, is refused but counted for good, and
its client stays in the pool), `StallNeedsMiss`,
`JoinWaitsForSleepers` and `SigTermEndsLoop` (the gap before the wait; SIGTERM
wakes nobody; a list that is not locked when the database of `main` throws), `RestsUnlessSendsFail` ("can't work on a disconnected client!",
`Client.cpp:252`: nothing sets the `p_Connection` that is tested there, so a job with a
reply left on a closed connection is retried for ever), `OtherSideOnly` (device keys that differ in case share a mailbox),
`DuplicateNeedsRace`. Two are theorems without a run, since on such an instance nothing else happens:
`DeafAtMultiples` (`i_MaxClientCount * 128` does not fit the 16 bits of `PeerUnidiStreamCount`,
`Server.cpp:152`: what is left are the streams of `i_MaxClientCount % 512` clients, so any
multiple of 512 leaves none, and `DefaultIsDeaf`: 1024, the default of `Configuration.cpp:78`, is
one) and
`OneThreadNeverServes` (one hardware thread gives a pool of none, which throws,
`Main.cpp:310`). Without a property: an unknown client type is stored before it is
refused (`ClientAuthentication.cpp:61`); a repeated `MSG_AUTH_REQUEST` of an
authenticated client is answered with success and disconnects it (`Client.cpp:144`).

### Fairness

`JobList!FairSpec`: every worker, every callback, the start and the shutdown sequence take
enabled steps eventually (threads are scheduled; a performed job returns, since
its loop ends with an empty `c_Recieved`). Nothing is assumed of SIGTERM, of new
data, of spurious wakeups, or of clients that have to leave before the server can be closed.

`ClientPerform!FairSpec`: a callback that has begun
ends, and a worker with a job in hand goes on with it and puts it back. Taking a job from
the list is *not* fair, since `job_list_served` shows that a job can stay there. The two
liveness properties have the condition in the open: `JobsTaken` says that the list is empty
again and again, or jobs of this client are taken again and again. Without it TLC
refutes both. The network is not fair: sends may fail for ever, and connections need not end.

`NetServer!NetFairSpec`: the way out of `main`, a command line that has its line, and a
callback of a connection that has begun take their enabled steps. Nothing is assumed of
clients that connect or leave, of the console, of SIGTERM, or of the join of the
pool, which `JobList` shows can wait for ever; so `EndsUnlessHeld` names exactly these as
what may hold the end.

The other modules check safety only and state no fairness.

## 4. The proofs

Checked by TLAPS for every value of the constants, under the `ASSUME`s of the
modules (distinct values, natural bounds, in `JobList` a pool that is not empty,
finite sets of threads, messages or streams). Each proof module states an inductive
invariant, one lemma per action or per group of alike ones, and the theorem `Spec => []...`.

| Module | Invariant, in words | Theorems |
|--------|---------------------|----------|
| `SharedListProofs` | `EntryLocks`, `ListLock`: who holds which mutex at which step. `Publishing`, `Calls`: who holds which element. `OnePlace`: an element is in one place. `QuietScan`: behind a getter that no Add overlapped, an entry is empty or locked. `CountInv`: the stored elements are finitely many, and the counter is their number, off by the calls between moving and counting | `Consistent`, `TypeCorrect`, `ListImplementsStore` (the refinement: each step is a step of `ElementStore` or a stutter), `CounterStaysExact`, `GrowthIsExclusive`, `SafeWithinOneMap` |
| `JobListProofs` | `StoredIsServed`: while a job is stored, somebody is awake or adding, or a miss is recorded; `LockedOut`: nobody reaches a job past a locked list twice; `OneAtATime`: a thread has one job in hand. `OneHolder`: a job is in the list, on its way, or with one worker. `MainPlace`, `OnlyUnkickedStay`: where `main` is, its callbacks may be; and whom its notification has not reached | `Consistent`, `TypeCorrect`, `OneWayToStall`, `LockStopsJobs`, `NoJobLost` (an action property), `JobHasOneHolder`, `RetriesAccepted`, `LockWakesSleepers`, `JobsFollowPhases` (a refinement) |
| `ClientPerformProofs` | `LockHeld`: the mutex is held by the one inside; `MessagesCovered`, `RepliesCovered`: whatever waits has a worker, a job or a callback that is yet to look at it | `Consistent`, `TypeCorrect`, `MutualExclusion`, `NothingLeftBehind`, `PerformImplementsOutbox` (a refinement) |
| `ClientAuthenticationProofs` | `Pending`: the account the first query saw still has this password if it still exists; `DevicesOwned`: no device outlives its account, so at the second query it does exist | `Consistent`, `TypeCorrect`, `ClientsAreEnrolled`, `IdentityStays`, `MailboxesNeedProof` |
| `ClientCommunicationProofs` | `AllSigned`, `OneRow`: a row, in the table or fetched, is as its writer stored it; `FetchedTwice`, `FetchedLate`: two copies of a message are raced | `MailboxesConsistent`, `TypeCorrect`, `DeliveredToOtherSide`, `OnceWithoutRace`, `StoredUntilReturned`, `RowsDecode`, `MailLeavesFetched` (an action property) |
| `StreamRecieveProofs` | `Attached`, `Exclusive`: a receiving stream has a context of its own with its bytes and no others. `Held`: while streams may start, a context is free or has a receiving stream, so that without a free one there are as many streams as contexts | `ContextsConsistent`, `StreamsArriveWhole`, `ContextsStayBounded`, `TypeCorrect`, `StreamsOfSetting`, `DeafAtMultiples`, `DefaultIsDeaf` |
| `ClientSendProofs` | `OnePlace`: a reply waits, is in hand, in flight, sent or lost. `FewUsers`: a context has two replies only while it is marked as used, never three. `Settled`: a context that is not young has a reply only while it is marked as used, and then one. `BytesIntact`: a reply has its own bytes until its first attempt and, if nobody overtakes it, to the end of that; once it was retried it has those of others. `HeadersGrow`: a header is added per failure, so that types stay bounded | `SendingConsistent`, `TypeCorrect`, `ContextsReturn`, `RepliesStay`, `TwoPerContext`, `OnlyFirstAttemptsIntact`, `SendImplementsOutbox` (a refinement) |
| `NetServerProofs` | `PoolInv`: a scan holds the mutex of its member, the pool grows for one connection at a time, an id is that of a counted member, its own, and a member holds the client of the connection with its id, refused ones included (`OwnMember`, `Placed`). `CountInv`: the counter, and the room the parallel callbacks leave under the limit. `HandleInv`: what is open at each stage of the `Server`. `Places`, `Console`: which objects of `main` exist at each of its steps, and where its thread of the command line is. `HeldInside`: who holds a mutex of the pool is at a step that waits for none | `ConnectionsConsistent`, `TypeCorrect`, `ClientsAreOwn`, `OnlyRefusedLeftBehind`, `LimitHolds`, `CountsConnections`, `ServerCloses`; `ProcessConsistent`, `ProcessRunsConnections` (a refinement), `ReferencesHold`, `ReturnsClean`; `PoolCannotDeadlock`; `ConnectionsFollowPhases` (a refinement); `OneThreadHasNoPool`, `OneThreadNeverServes` |

None of the properties is inductive alone. `NoBacklog`, for one, speaks of a client at rest; that
it is reached without a backlog needs, at every moment, the next look that is
still to come.

The theorems about `Connections` and those about the process are in one module: since
`ProcessRunsConnections` holds, the invariants of the first are those of the second too.

The refinements go step by step: the initial states map to initial states, and under the
inductive invariant every action of the detailed module maps to one action of the abstract one or
to a stutter. What makes them hold is the invariant: that `Send` is left with an empty
`c_Send` and nothing in hand, that a database session is only made while the server runs, that
`RegistrationClose` outlasts the callbacks.

`SafeWithinOneMap` is conditional: with `MapStays` (no growth the list reaches replaces the node
map) the property `NoWildIndex`, which `shared_list_index` refutes, holds. It says that the move of
the map is all there is to that finding. The constant `Relocates` satisfies the
condition when the map of a new deque has room for the list.

Only model-checked: the liveness properties (`RecievedIsProcessed`,
`RestsUnlessSendsFail`, `JoinWaitsForSleepers`, `SigTermEndsLoop`, `EndsUnlessHeld`), since the
prover does not handle fairness. Two have a safety part that is proved: `LockWakesSleepers`
(once `Lock` has notified, only threads that had passed the lock test still look or sleep) of
`JoinWaitsForSleepers`, and `PoolCannotDeadlock` (a callback that waits for a mutex waits for one
that waits for nothing) of `EndsUnlessHeld`. Every other property of a passing run is a theorem.

## 5. Not modelled

* Undefined behaviour beyond its occurrence: what a `wild` thread does, what
  MsQuic does with a closed handle other than to succeed or fail, what the memory of a
  deleted context holds, and what is read for a reply in `overtaken`, whose bytes have gone
  to another `NetMessage` and are freed with it.
* `try_lock` failing without a holder (the standard allows it; the mutexes
  used do not do it), and moves of memory order: the counters are sequentially consistent atomics.
* Functions without a caller: `JobList::Unlock`, `SharedList::GetElementsCount`
  and, outside `SharedList`, `GetElements`; `ClientPool::SendableAvailable`,
  `Client::RecieveDataAvailable`, `Client::Disconnected`.
* Allocation failures inside handlers other than those of the lists and contexts.
* Stream handles: `StreamClose` after a failed start with
  `SHUTDOWN_ON_FAIL`, and streams left open when `Add` throws.
* The nonce: the code generates it and never compares it.
* Removal of an account with messages, which the database refuses like one with devices.
* The conversions of `NetMessageV1` and `Base64::ToBytesPart`: planned, see below.
* An `emplace_back` in `PEER_STREAM_STARTED` that throws out of the callback.
* `Logger`, the console, the contents of the configuration file: text and I/O. A value
  that is no number leaves the default; it all happens before anything else runs.
* The handler of crash signals, which exits; the command line's parameters; the parents of
  the forks of a daemon, which exit.
* What MsQuic or the C library does when an exception reaches it.

Assumed of MsQuic: callbacks of one connection are sequential; `ListenerClose`
returns after the listener's callbacks, `RegistrationClose` after the end of the connections; a refused connection gets none; a send is completed once;
a stream's end or abort is the last event before its `SHUTDOWN_COMPLETE`; a peer has at
most `PeerUnidiStreamCount` streams open.
Assumed of MySQL: statements are atomic; ids increase and are not used again.

## 6. Plan

Done: the list and its specification, the job list from the start of its threads to their
join, the client between workers and callbacks, authentication, sending, connections and
the server, the process around them, mailboxes, receiving streams; proofs of every safety
property; the two places where separate models of one thing meet, sending and the phases of
`main`, each with its abstract specification and both refinements proved.

Left:

1. A composition of authentication with mailboxes: `UseMailbox` says who may use one, but the
   tables of messages and of devices are in two modules.
2. A composition of `JobList` with `ClientPerform` (a client's backlog under lost
   wakeups and dropped retries), in which `JobsTaken` would follow or fail instead of being a condition.
3. `Codec`: sizes and positions of `NetMessageV1` and `Base64::ToBytesPart` as
   operators against a reference.
