------------------------------ MODULE FrameLink -------------------------------
(***************************************************************************)
(* What channels and sessions expect of the frames between them: a queue   *)
(* of whole messages, in the order they were encoded, until the transport  *)
(* is cut.  Modules Channel and Session use such a queue.                  *)
(***************************************************************************)
EXTENDS Naturals, Sequences

CONSTANT Msgs

VARIABLES
  inflight,   \* messages encoded and not yet decoded
  taken,      \* messages decoded, in order
  broken      \* the transport was cut

lvars == <<inflight, taken, broken>>

LInit ==
  /\ inflight = <<>>
  /\ taken = <<>>
  /\ broken = FALSE

LPut ==
  /\ ~broken
  /\ \E m \in Msgs : inflight' = Append(inflight, m)
  /\ UNCHANGED <<taken, broken>>

LGet ==
  /\ inflight # <<>>
  /\ taken' = Append(taken, Head(inflight))
  /\ inflight' = Tail(inflight)
  /\ UNCHANGED broken

LCut ==
  /\ broken' = TRUE
  /\ UNCHANGED <<inflight, taken>>

LNext == LPut \/ LGet \/ LCut

LSpec == LInit /\ [][LNext]_lvars

\* While the transport holds, what was encoded is decoded.
LFairSpec == LSpec /\ WF_lvars(~broken /\ LGet)

===============================================================================
