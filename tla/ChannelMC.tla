------------------------------ MODULE ChannelMC -------------------------------
(* Small instances of Channel. *)
EXTENDS Channel

Both == Ends
OnlyA == {"A"}
OnlyB == {"B"}
Nobody == {}

===============================================================================
