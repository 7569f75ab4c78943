------------------------------- MODULE RelayMC --------------------------------
(* Instances of Relay for TLC: every kind of relay between every kind of application. *)
EXTENDS Relay

Relaying(style, c, b, faults, short) ==
  [kind : {"proxy", "handler"}, style : {style}, items : {[client |-> c, backend |-> b]},
   faults : {faults}, short : {short}]

\* Each application writes more than the window without faults, one writes with them.
AllUses ==
  Relaying("free", 2, 1, FALSE, {}) \union Relaying("free", 1, 2, FALSE, {})
    \union Relaying("free", 1, 0, TRUE, {}) \union Relaying("free", 0, 1, TRUE, {})
    \union Relaying("echo", 3, 0, FALSE, {}) \union Relaying("echo", 2, 0, TRUE, {})

PlainUses == Relaying("free", 1, 1, FALSE, {})
ShortUses == Relaying("echo", 2, 0, FALSE, {"b"})
===============================================================================
