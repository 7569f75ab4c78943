------------------------------- MODULE BufferMC -------------------------------
(* Reads of zero to two bytes against writes of zero to two bytes. *)
EXTENDS Buffer

ReadSizes == 0 .. 2

===============================================================================
