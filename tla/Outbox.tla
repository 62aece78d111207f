------------------------------- MODULE Outbox -------------------------------
(***************************************************************************)
(* What Perform and Send of one client agree on about c_Send, the replies  *)
(* that wait (src/src/Server/Client.cpp:100-255, 329-430).  ClientPerform  *)
(* and ClientSend model the two sides, each with its own view of the       *)
(* other; both are shown to implement this specification, so that neither  *)
(* assumes of the other what it does not do:                               *)
(*                                                                         *)
(*   - replies are added only while no call of Send is under way;          *)
(*   - a call that returns has handed every reply over;                    *)
(*   - one that throws has dropped at most the reply it was busy with, and *)
(*     leaves the others for the next call;                                *)
(*   - the exception is not forgotten before Perform ends.                 *)
(***************************************************************************)
EXTENDS Naturals

VARIABLES waiting,    \* replies nobody has handed to MsQuic or dropped
          call        \* Send is not called, runs, or has thrown

outboxVars == <<waiting, call>>

Init == waiting = 0 /\ call = "none"

\* A handler leaves a reply.
Reply ==
    /\ call = "none"
    /\ waiting' = waiting + 1
    /\ UNCHANGED call

Begin ==
    /\ call = "none"
    /\ call' = "runs"
    /\ UNCHANGED waiting

\* StreamSend succeeds.
Hand ==
    /\ call = "runs" /\ waiting > 0
    /\ waiting' = waiting - 1
    /\ UNCHANGED call

\* Send throws; the reply in hand went back to c_Send or is lost.
Fail ==
    /\ call = "runs" /\ waiting > 0
    /\ waiting' \in {waiting, waiting - 1}
    /\ call' = "thrown"

\* GetElement returned NULL, and Send returns.
End ==
    /\ call = "runs" /\ waiting = 0
    /\ call' = "none"
    /\ UNCHANGED waiting

\* Perform, which has caught the exception, returns false.
Retry ==
    /\ call = "thrown"
    /\ call' = "none"
    /\ UNCHANGED waiting

Next == Reply \/ Begin \/ Hand \/ Fail \/ End \/ Retry

Spec == Init /\ [][Next]_outboxVars
=============================================================================
