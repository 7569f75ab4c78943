------------------------------- MODULE CmuxMC ---------------------------------
(* Instances of module Cmux for TLC. *)
EXTENDS Cmux

OnlyA == {"A"}
OnlyB == {"B"}

\* A opens one channel, both ends may close it, and A the session; or A opens two,
\* which only A closes.  B accepts and writes.
SomeUses ==
  {[opens |-> 1, open |-> OnlyA, cancel |-> OnlyA, accept |-> OnlyB,
    write |-> OnlyB, close |-> Ends, abort |-> OnlyA],
   [opens |-> 2, open |-> OnlyA, cancel |-> OnlyA, accept |-> OnlyB,
    write |-> OnlyB, close |-> OnlyA, abort |-> {}]}

\* A opens, and cancels; A opens and both ends close; A opens more channels than
\* there are ids.
CancelUses ==
  {[opens |-> 1, open |-> OnlyA, cancel |-> OnlyA, accept |-> OnlyB,
    write |-> {}, close |-> {}, abort |-> {}]}
RaceUses ==
  {[opens |-> 2, open |-> OnlyA, cancel |-> {}, accept |-> OnlyB,
    write |-> {}, close |-> {}, abort |-> {}]}
WrapUses ==
  {[opens |-> 3, open |-> OnlyA, cancel |-> {}, accept |-> OnlyB,
    write |-> OnlyB, close |-> OnlyA, abort |-> {}]}
===============================================================================
