-------------------------------- MODULE RpcMC ---------------------------------
(* Calls of every style. *)
EXTENDS Rpc

Handling(a, stream, r, receive, respond, v) ==
  [caller |-> [args |-> a, stream |-> stream, replies |-> r],
   handler |-> [receive |-> receive, respond |-> respond, values |-> v]]

\* The handler receives all the args, and the caller reads as many replies as the
\* handler returns, or none of one.
Matching ==
  {Handling(1, FALSE, 1, 1, "return", 1), Handling(1, FALSE, 2, 1, "return", 2),
   Handling(2, TRUE, 1, 2, "return", 1), Handling(1, FALSE, 0, 1, "none", 0),
   Handling(1, FALSE, 1, 1, "continue", 2)}

Failing == {Handling(1, FALSE, 1, 1, "error", 0)}

\* NotFoundHandler: it returns an error, and receives nothing.
Unknown == {Handling(1, FALSE, 1, 0, "error", 0)}

Hanging == {Handling(1, FALSE, 1, 1, "hang", 0)}
Streaming == {Handling(2, TRUE, 1, 2, "return", 1)}
Continued == {Handling(1, FALSE, 1, 1, "continue", 2)}
Single == {Handling(1, FALSE, 1, 1, "return", 1)}

\* All of these; also too few and too many values.
AllStyles ==
  Matching \cup Failing \cup Unknown \cup Hanging
    \cup {Handling(1, FALSE, 2, 1, "return", 1), Handling(1, FALSE, 1, 1, "return", 2)}

===============================================================================
