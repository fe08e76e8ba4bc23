---------------------------- MODULE LatestValue ----------------------------
(***************************************************************************)
(* What a latest-value clock-domain crossing promises its users.           *)
(*                                                                         *)
(* The source offers versions 0, 1, 2, ... of a value; the destination     *)
(* register shows one of the versions offered so far, never goes back to   *)
(* an older one, and may skip versions.  Nothing is promised while the two *)
(* domains are going through a reset ("up" is FALSE); a reset ends with    *)
(* both sides at version 0.                                                *)
(***************************************************************************)
EXTENDS Integers

VARIABLES
  up,        \* both domains are past their latest common reset
  offered,   \* the newest version the source has asked to transfer
  delivered  \* the version the destination register shows

vars == <<up, offered, delivered>>

Init == ~up /\ offered = 0 /\ delivered = 0

\* The source may offer the next version; the destination may move forward
\* to any version that was offered before this step.
Transfer ==
  /\ up /\ up'
  /\ offered' \in offered .. (offered + 1)
  /\ delivered' \in delivered .. offered

\* A reset is in progress: the two registers are cleared at different times.
Down == ~up'

Restart == ~up /\ up' /\ offered' = 0 /\ delivered' = 0

Next == Transfer \/ Down \/ Restart

Spec == Init /\ [][Next]_vars
=============================================================================
