------------------------------- MODULE ServerMC -------------------------------
(* Instances of Server for TLC. *)
EXTENDS Server

AllKinds == {"net", "ws", "io"}
IOKinds == {"io"}
===============================================================================
