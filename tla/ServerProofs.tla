----------------------------- MODULE ServerProofs -----------------------------
(***************************************************************************)
(* Proofs about Server: for any set of connections and any mix of          *)
(* listeners a session in service ends only for a cause of its own.        *)
(*                                                                         *)
(* That a session in service whose loop has ended was hung up, or failed   *)
(* on a packet, is not inductive: the transport is closed long before the  *)
(* loop notices, often before Respond is started at all.  Inv therefore    *)
(* follows a closed transport from the moment it is closed, through every  *)
(* place at which its connection can be.                                   *)
(***************************************************************************)
EXTENDS Server, TLAPS

\* Leaves that name no prover go to the SMT solver, and then to Zenon.
USE SMTT(30), Z3T(30), ZenonT(30)

Types ==
  /\ kind \in {"net", "ws", "io"}
  /\ conn \in [Conns -> {"none", "dialed", "up"}]
  /\ sess \in [Conns -> {"none", "live", "ended"}]
  /\ handler \in [Conns -> {"none", "send", "wait", "done"}]
  /\ respond \in [Conns -> {"none", "accept", "returned"}]
  /\ calls \in [Conns -> 0 .. MaxCalls]

\* Who closed the transport of c, by where c is: not yet dialed, waiting to be
\* accepted, on its way through the WebSocket handler, or in service.
Blame(c) ==
  /\ conn[c] = "none" => c \notin gone /\ kind # "io"
  /\ sess[c] = "ended" => c \in gone \union failed
  /\ conn[c] = "dialed" /\ c \in gone => c \in hung \union failed \/ listener = "closed"
  /\ handler[c] = "send" => respond[c] = "none" /\ (c \in gone => c \in hung \union failed)
  /\ respond[c] = "accept" /\ c \in gone =>
       c \in hung \union failed \/ (kind = "io" /\ listener = "closed")

\* The sessions of a stream listener have one transport, which only the peer, a loop
\* that failed on a packet and the listener's Close end.
OneStream ==
  kind = "io" =>
    /\ gone \in {{}, Conns} /\ hung \in {{}, Conns} /\ failed \in {{}, Conns}
    /\ gone = Conns => hung = Conns \/ failed = Conns \/ listener = "closed"

Inv == Types /\ TypeOK /\ OneStream /\ \A c \in Conns : Blame(c)

-------------------------------------------------------------------------------

\* The invariant holds when the server starts, whatever the listener.
LEMMA InitInv == Init => Inv
  BY ServerAssumption DEF Init, Inv, Types, TypeOK, OneStream, Blame

\* Dial, HangUp and the ends of a session's loop preserve it.
LEMMA PeerInv ==
  ASSUME Inv, NEW c \in Conns, Dial(c) \/ HangUp(c) \/ LoopEnds(c) \/ LoopFails(c)
  PROVE  Inv'
<1>1. CASE Dial(c)
  BY <1>1 DEF Dial, serverVars, Inv, Types, TypeOK, OneStream, Blame
<1>2. CASE HangUp(c)
  BY <1>2 DEF HangUp, Transport, serverVars, Inv, Types, TypeOK, OneStream, Blame
<1>3. CASE LoopEnds(c)
  BY <1>3 DEF LoopEnds, serverVars, Inv, Types, TypeOK, OneStream, Blame
<1>4. CASE LoopFails(c)
  BY <1>4 DEF LoopFails, Transport, Closes, serverVars, Inv, Types, TypeOK, OneStream, Blame
<1> QED
  BY <1>1, <1>2, <1>3, <1>4

\* So do the ways in which a connection comes to be served.
LEMMA AcceptInv ==
  ASSUME Inv, NEW c \in Conns, Accept(c) \/ HandlerStarts(c) \/ HandlerSends(c)
  PROVE  Inv'
<1>1. CASE Accept(c)
  BY <1>1 DEF Accept, New, Responding, Inv, Types, TypeOK, OneStream, Blame
<1>2. CASE HandlerStarts(c)
  BY <1>2 DEF HandlerStarts, New, Inv, Types, TypeOK, OneStream, Blame
<1>3. CASE HandlerSends(c)
  BY <1>3 DEF HandlerSends, Responding, AfterSend, Inv, Types, TypeOK, OneStream, Blame
<1> QED
  BY <1>1, <1>2, <1>3

\* So do the ways out of the WebSocket handler, each of which closes the session:
\* one that panicked is not in service, one that waited has ended.
LEMMA HandlerInv ==
  ASSUME Inv, NEW c \in Conns, HandlerPanics(c) \/ HandlerEnds(c)
  PROVE  Inv'
<1>1. CASE HandlerPanics(c)
  BY <1>1 DEF HandlerPanics, Inv, Types, TypeOK, OneStream, Blame
<1>2. CASE HandlerEnds(c)
  BY <1>2 DEF HandlerEnds, Inv, Types, TypeOK, OneStream, Blame
<1> QED
  BY <1>1, <1>2

\* So do the steps of Respond; its deferred Close meets a
\* session that has ended.
LEMMA RespondInv ==
  ASSUME Inv, NEW c \in Conns,
         RespondAccepts(c) \/ CallEnds(c) \/ RespondReturns(c) \/ Forget(c)
  PROVE  Inv'
<1>1. CASE RespondAccepts(c)
  BY <1>1, ServerAssumption DEF RespondAccepts, Inv, Types, TypeOK, OneStream, Blame
<1>2. CASE CallEnds(c)
  BY <1>2, ServerAssumption DEF CallEnds, Inv, Types, TypeOK, OneStream, Blame
<1>3. CASE RespondReturns(c)
  BY <1>3 DEF RespondReturns, Closes, Inv, Types, TypeOK, OneStream, Blame
<1>4. CASE Forget(c)
  BY <1>4 DEF Forget, Inv, Types, TypeOK, OneStream, Blame
<1> QED
  BY <1>1, <1>2, <1>3, <1>4

\* So does closing the listener: only connections that nobody has accepted are
\* lost, or the one stream.
LEMMA ListenerInv ==
  ASSUME Inv, CloseAccepted \/ CloseListener \/ ServeReturns
  PROVE  Inv'
<1>1. CASE CloseAccepted
  BY <1>1 DEF CloseAccepted, Inv, Types, TypeOK, OneStream, Blame
<1>2. CASE CloseListener
  <2> PICK lost \in SUBSET Conns :
        /\ gone' = gone \union lost
        /\ kind = "io" => lost \in {{}, Conns}
        /\ kind # "io" => \A c \in lost : conn[c] = "dialed"
    BY <1>2 DEF CloseListener, Inv, Types
  <2> QED
    BY <1>2 DEF CloseListener, Inv, Types, TypeOK, OneStream, Blame
<1>3. CASE ServeReturns
  BY <1>3 DEF ServeReturns, Inv, Types, TypeOK, OneStream, Blame
<1> QED
  BY <1>1, <1>2, <1>3

\* The invariant is inductive.
LEMMA NextInv == Inv /\ [Next]_vars => Inv'
<1> SUFFICES ASSUME Inv, [Next]_vars
             PROVE  Inv'
  OBVIOUS
<1>1. CASE UNCHANGED vars
  BY <1>1 DEF vars, serverVars, Inv, Types, TypeOK, OneStream, Blame
<1>2. CASE Next
  <2>1. CASE CloseAccepted \/ CloseListener \/ ServeReturns
    BY <2>1, ListenerInv
  <2>2. ASSUME NEW c \in Conns,
               Dial(c) \/ HangUp(c) \/ ServerStep(c) \/ RespondAccepts(c) \/ CallEnds(c)
        PROVE  Inv'
    BY <2>2, PeerInv, AcceptInv, HandlerInv, RespondInv DEF ServerStep
  <2> QED
    BY <1>2, <2>1, <2>2 DEF Next
<1> QED
  BY <1>1, <1>2

\* The invariant holds in every state of every behaviour.
LEMMA Invariance == Spec => []Inv
  BY InitInv, NextInv, PTL DEF Spec

\* Every session has one place in the server, for any number of connections and
\* any bound on calls (the loops and listeners of src/rpc/server.go and src/mux).
THEOREM TypeCorrect == Spec => []TypeOK
<1>1. Inv => TypeOK
  BY DEF Inv
<1> QED
  BY <1>1, Invariance, PTL

\* What ends a session in service (Respond of src/rpc/server.go) came over its own
\* transport: its peer's Close, or a packet its loop could not handle.  Closing a network
\* listener, the WebSocket handler's return and the end of another session do not.  The
\* sessions of a stream listener share the transport, and its listener closes it.
THEOREM EndsAreCaused == Spec => []EndsForOwnCause
<1>1. Inv => EndsForOwnCause
  BY DEF Inv, Blame, EndsForOwnCause
<1> QED
  BY <1>1, Invariance, PTL

===============================================================================
