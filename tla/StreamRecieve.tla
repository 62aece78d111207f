---------------------------- MODULE StreamRecieve ----------------------------
(***************************************************************************)
(* The streams a peer opens on one connection: PEER_STREAM_STARTED of      *)
(* ConnectionCallback and StreamRecieveCallback                            *)
(* (src/src/Server/MsQuic/MsQuic.cpp), down to the message that            *)
(* RecieveNetMessage stores (src/src/Server/Client.cpp).                   *)
(*                                                                         *)
(* MsQuic runs the callbacks of a connection and of its streams inline, one *)
(* after the other, so each action is a whole callback; streams run in any *)
(* order.  After the end or the abort of a stream comes only its           *)
(* SHUTDOWN_COMPLETE; a connection that shuts down may let a stream have   *)
(* that without either.  A stream counts against the limit of the peer     *)
(* until then.                                                             *)
(* Bytes come in pieces, named by their stream and position.               *)
(***************************************************************************)
EXTENDS Naturals, Sequences, FiniteSets

CONSTANTS Streams,
          MaxPieces,                 \* bound on the pieces of a stream
          i_MaxClientCount,
          CLIENT_STREAMS_MULTIPLIER,
          StreamCounts               \* values of a uint16_t, the type of the setting

ASSUME SettingsOK ==
    /\ IsFiniteSet(Streams)
    /\ MaxPieces \in Nat
    /\ i_MaxClientCount \in Nat \ {0}          \* Server.cpp:102
    /\ CLIENT_STREAMS_MULTIPLIER \in Nat
    /\ StreamCounts \in Nat \ {0}

VARIABLES l_Recieved,    \* the contexts of the connection
          context,       \* context[s]: the callback context of the stream
          phase,
          pieces,        \* history: pieces of the stream MsQuic has delivered
          c_Recieved,    \* history: what the client was given at the end of a stream
          connection

vars == <<l_Recieved, context, phase, pieces, c_Recieved, connection>>

StreamStates == {"FREE", "IN_USE", "COMPLETED"}

\* The first n pieces of a stream, in order.
Pieces(s, n) == [k \in 1 .. n |-> <<s, k>>]

\* Streams the peer has open, as MsQuic counts them.
Open == {s \in Streams : phase[s] \in {"receiving", "ended", "aborted"}}

\* As Server::Start sets it: the product is cut to the type of the setting.
PeerUnidiStreamCount == (i_MaxClientCount * CLIENT_STREAMS_MULTIPLIER) % StreamCounts

Bytes == Seq(Streams \X Nat)

TypeOK ==
    /\ l_Recieved \in Seq([e_State : StreamStates, v_Bytes : Bytes])
    /\ context \in [Streams -> 0 .. Len(l_Recieved)]
    /\ phase \in [Streams -> {"unopened", "receiving", "ended", "aborted",
                             "closed", "discarded"}]
    /\ pieces \in [Streams -> 0 .. MaxPieces]
    /\ c_Recieved \subseteq [from : Streams, v_Data : Bytes \ {<<>>}]
    /\ connection \in {"open", "shutdown", "closed"}

Init ==
    /\ l_Recieved = <<>>
    /\ context = [s \in Streams |-> 0]
    /\ phase = [s \in Streams |-> "unopened"]
    /\ pieces = [s \in Streams |-> 0]
    /\ c_Recieved = {}
    /\ connection = "open"

Move(s, p) == phase' = [phase EXCEPT ![s] = p]

FreeContexts == {n \in DOMAIN l_Recieved : l_Recieved[n].e_State = "FREE"}

\* A context that is used from now on.
Fresh == [e_State |-> "IN_USE", v_Bytes |-> <<>>]

\* Mutant: v_Bytes is not cleared.
NotCleared(c) == [c EXCEPT !.e_State = "IN_USE"]

Cleared(c) == Fresh

FirstFree(n) == n \in FreeContexts /\ \A k \in FreeContexts : n <= k

StartInUnused(s) ==
    \E n \in DOMAIN l_Recieved :
        /\ FirstFree(n)
        /\ l_Recieved' = [l_Recieved EXCEPT ![n] = Cleared(@)]
        /\ context' = [context EXCEPT ![s] = n]

StartInNew(s) ==
    /\ FreeContexts = {}
    /\ l_Recieved' = Append(l_Recieved, Fresh)
    /\ context' = [context EXCEPT ![s] = Len(l_Recieved) + 1]

PeerStreamStarted(s) ==
    /\ connection = "open" /\ phase[s] = "unopened"
    /\ Cardinality(Open) < PeerUnidiStreamCount
    /\ StartInUnused(s) \/ StartInNew(s)
    /\ Move(s, "receiving")
    /\ UNCHANGED <<pieces, c_Recieved, connection>>

SetState(s, e) == l_Recieved' = [l_Recieved EXCEPT ![context[s]].e_State = e]

Recieve(s) ==
    /\ phase[s] = "receiving" /\ pieces[s] < MaxPieces
    /\ pieces' = [pieces EXCEPT ![s] = @ + 1]
    /\ l_Recieved' = [l_Recieved EXCEPT
                         ![context[s]].v_Bytes = Append(@, <<s, pieces[s] + 1>>)]
    /\ UNCHANGED <<context, phase, c_Recieved, connection>>

\* Mutant: an aborted stream is treated like one that ended.
AbortedCompletes == "COMPLETED"

AbortedFrees == "FREE"

PeerSendAborted(s) ==
    /\ phase[s] = "receiving"
    /\ SetState(s, AbortedFrees)
    /\ Move(s, "aborted")
    /\ UNCHANGED <<context, pieces, c_Recieved, connection>>

(***************************************************************************)
(* The end of the stream: DataRecieved, RecieveNetMessage and the          *)
(* constructor of NetMessage, which swaps the bytes out of the context.    *)
(***************************************************************************)
Swapped(s) ==
    l_Recieved' = [l_Recieved EXCEPT ![context[s]] = [e_State |-> "FREE", v_Bytes |-> <<>>]]

MessageOf(s) == l_Recieved[context[s]].v_Bytes

\* Mutant: a stream without bytes makes a message.
AnySize(s) == TRUE

SizeValid(s) == Len(MessageOf(s)) >= 1

Store(s) ==
    /\ SizeValid(s)
    /\ c_Recieved' = c_Recieved \union {[from |-> s, v_Data |-> MessageOf(s)]}
    /\ Swapped(s)

\* The list cannot take the message: it is gone with its bytes.
AddThrows(s) ==
    /\ SizeValid(s)
    /\ Swapped(s)
    /\ UNCHANGED c_Recieved

\* Too short, or no memory for a message: the bytes stay in the context.
ConstructorThrows(s) ==
    /\ SetState(s, "FREE")
    /\ UNCHANGED c_Recieved

PeerSendShutdown(s) ==
    /\ phase[s] = "receiving"
    /\ Store(s) \/ AddThrows(s) \/ ConstructorThrows(s)
    /\ Move(s, "ended")
    /\ UNCHANGED <<context, pieces, connection>>

\* StreamClose.  The context of a stream that gets no end stays in use.
StreamShutdownComplete(s) ==
    /\ \/ phase[s] = "ended" /\ Move(s, "closed")
       \/ phase[s] = "aborted" /\ Move(s, "discarded")
       \/ phase[s] = "receiving" /\ connection = "shutdown" /\ Move(s, "discarded")
    /\ UNCHANGED <<l_Recieved, context, pieces, c_Recieved, connection>>

\* The connection is shut down, by whichever side: nothing starts any more.
ConnectionShutdown ==
    /\ connection = "open"
    /\ connection' = "shutdown"
    /\ UNCHANGED <<l_Recieved, context, phase, pieces, c_Recieved>>

\* SHUTDOWN_COMPLETE of the connection, after that of its streams: the
\* ConnectionContext is deleted with its contexts.
ConnectionShutdownComplete ==
    /\ connection = "shutdown" /\ Open = {}
    /\ connection' = "closed"
    /\ l_Recieved' = <<>>
    /\ context' = [s \in Streams |-> 0]
    /\ UNCHANGED <<phase, pieces, c_Recieved>>

StreamCallback(s) ==
    Recieve(s) \/ PeerSendAborted(s) \/ PeerSendShutdown(s) \/ StreamShutdownComplete(s)

Next ==
    \/ ConnectionShutdown \/ ConnectionShutdownComplete
    \/ \E s \in Streams : PeerStreamStarted(s) \/ StreamCallback(s)

Spec == Init /\ [][Next]_vars

(***************************************************************************)
(* Properties.                                                             *)
(***************************************************************************)

\* What the client is given when the peer ends a stream is that stream, whole and
\* in order: nothing of a stream that used the context before, was aborted or
\* could not be stored, and nothing of one that runs beside it
\* (MsQuic.cpp:134-162, 198, 207, 222).
WholeStreams ==
    \A m \in c_Recieved : /\ phase[m.from] \in {"ended", "closed"}
                          /\ m.v_Data = Pieces(m.from, pieces[m.from])

\* A connection never has more contexts than streams it may have open, however
\* many streams come and go: every way a stream can end gives its context back
\* (MsQuic.cpp:155, 207, 223).
ContextsBounded == Len(l_Recieved) <= PeerUnidiStreamCount
=============================================================================
