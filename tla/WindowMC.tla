------------------------------- MODULE WindowMC -------------------------------
(* Two goroutines on one window; integers are two bits wide. *)
EXTENDS Window

\* Every uint32 there is, zero included: sums reach and pass the modulus.
AllUint32 == 0 .. Modulus - 1

===============================================================================
