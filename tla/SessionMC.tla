------------------------------ MODULE SessionMC -------------------------------
(* Instances of module Session for TLC. *)
EXTENDS Session

Both == {"A", "B"}
OnlyA == {"A"}
OnlyB == {"B"}
Nobody == {}
===============================================================================
