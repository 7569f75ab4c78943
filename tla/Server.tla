-------------------------------- MODULE Server --------------------------------
(***************************************************************************)
(* Serving sessions: the accept loops ServeMux and Respond of              *)
(* src/rpc/server.go, over the listeners of src/mux/listen_net.go,         *)
(* listen_ws.go and listen_io.go, while peers (src/talk) dial, call and    *)
(* hang up and the program closes the listener.                            *)
(*                                                                         *)
(* A WebSocket listener has an HTTP server, whose handler makes a session  *)
(* of each connection, hands it to Accept over the unbuffered channel      *)
(* accepted, and waits for the session to end.  A stream listener makes a  *)
(* session of its one transport in every Accept.                           *)
(*                                                                         *)
(* Of a session only its life is kept (its steps are in module Session):   *)
(* it ends when its transport has been closed by either side, or when its  *)
(* loop meets a packet it cannot handle: a frame for a channel that is not *)
(* there, or bytes that are no frame, as when two sessions of a stream     *)
(* listener read one stream.                                               *)
(***************************************************************************)
EXTENDS Naturals

CONSTANTS
  Conns,       \* connections, and the sessions on them
  MaxCalls,    \* bound on the channels a session serves at a time
  Kinds        \* kinds of listener

ASSUME ServerAssumption == MaxCalls \in Nat /\ Kinds \subseteq {"net", "ws", "io"}

VARIABLES
  kind,
  listener,    \* "open", "closing" (accepted is closed), "closed"
  serve,       \* ServeMux: it is in Accept, or has returned
  conn,        \* conn[c]: "none", "dialed", or "up" once the server has it
  gone,        \* connections whose transport has been closed,
  hung,        \* those whose peer did so,
  failed,      \* and those on which a loop met a packet it could not handle
  sess,        \* sess[c]: "none", "live", or "ended" once the loop has
  handler,     \* handler[c]: the HTTP handler: "none", "send", "wait", "done"
  respond,     \* respond[c]: Respond: "none", "accept", "returned"
  calls        \* calls[c]: goroutines that respond to a call

serverVars == <<listener, serve, handler, respond, calls>>
vars == <<kind, conn, gone, hung, failed, sess, serverVars>>

Init ==
  /\ kind \in Kinds
  /\ listener = "open" /\ serve = "accept" /\ gone = {} /\ hung = {} /\ failed = {}
  /\ conn = [c \in Conns |-> IF kind = "io" THEN "dialed" ELSE "none"]
  /\ sess = [c \in Conns |-> "none"]
  /\ handler = [c \in Conns |-> "none"]
  /\ respond = [c \in Conns |-> "none"]
  /\ calls = [c \in Conns |-> 0]

-------------------------------------------------------------------------------
(* Transports and sessions *)

\* The sessions of a stream listener share their transport.
Transport(c) == IF kind = "io" THEN Conns ELSE {c}

\* What session.Close closes: ioduplex.Close leaves the reader open, and with it the
\* sessions that read from it, when the writer's Close fails.
Closes(c) == IF kind = "io" THEN {{}, Conns} ELSE {{c}}

\* Dial: the connection waits to be accepted.
Dial(c) ==
  /\ conn[c] = "none" /\ listener # "closed"
  /\ conn' = [conn EXCEPT ![c] = "dialed"]
  /\ UNCHANGED <<kind, gone, hung, failed, sess, serverVars>>

\* Peer.Close.
HangUp(c) ==
  /\ conn[c] # "none" /\ c \notin gone
  /\ gone' = gone \union Transport(c) /\ hung' = hung \union Transport(c)
  /\ UNCHANGED <<kind, conn, failed, sess, serverVars>>

\* session.loop ends, on a transport that has been closed: Wait returns, and the
\* Accept under way returns io.EOF.
LoopEnds(c) ==
  /\ sess[c] = "live" /\ c \in gone
  /\ sess' = [sess EXCEPT ![c] = "ended"]
  /\ UNCHANGED <<kind, conn, gone, hung, failed, serverVars>>

\* It ends on any error of onePacket, and closes the transport itself.
LoopFails(c) ==
  /\ sess[c] = "live"
  /\ sess' = [sess EXCEPT ![c] = "ended"]
  /\ failed' = failed \union Transport(c)
  /\ \E closed \in Closes(c) : gone' = gone \union closed
  /\ UNCHANGED <<kind, conn, hung, serverVars>>

-------------------------------------------------------------------------------
(* Listeners and ServeMux *)

\* A mistake to catch: ServeMux responds itself.
RespondingAlone(c) ==
  /\ serve = "accept" /\ \A x \in Conns : respond[x] # "accept"
  /\ respond' = [respond EXCEPT ![c] = "accept"]

\* ServeMux takes a session from Accept and starts Respond for it.
Responding(c) == serve = "accept" /\ respond' = [respond EXCEPT ![c] = "accept"]

\* The connection is accepted, and mux.New makes a session on it.
New(c) ==
  /\ conn[c] = "dialed"
  /\ conn' = [conn EXCEPT ![c] = "up"]
  /\ sess' = [sess EXCEPT ![c] = "live"]

\* netListener.Accept and ioListener.Accept, which does not look whether the
\* listener has been closed.
Accept(c) ==
  /\ kind = "io" \/ (kind = "net" /\ listener = "open")
  /\ New(c) /\ Responding(c)
  /\ UNCHANGED <<kind, gone, hung, failed, listener, serve, handler, calls>>

\* The HTTP server of ListenWS starts the handler for a connection, even after the
\* listener was closed if it had accepted the connection before,
HandlerStarts(c) ==
  /\ kind = "ws" /\ (listener # "closed" \/ c \notin gone)
  /\ New(c)
  /\ handler' = [handler EXCEPT ![c] = "send"]
  /\ UNCHANGED <<kind, gone, hung, failed, listener, serve, respond, calls>>

\* A mistake to catch: the handler returns at once, and closes the session.
AfterSendReturn(c) == handler' = [handler EXCEPT ![c] = "done"] /\ gone' = gone \union {c}

AfterSend(c) == handler' = [handler EXCEPT ![c] = "wait"] /\ UNCHANGED gone

\* which sends the session to wsListener.Accept,
HandlerSends(c) ==
  /\ handler[c] = "send" /\ listener = "open"
  /\ Responding(c) /\ AfterSend(c)
  /\ UNCHANGED <<kind, conn, hung, failed, sess, listener, serve, calls>>

\* A mistake to catch: the session is left open.
HandlerPanicsOpen(c) ==
  /\ handler[c] = "send" /\ listener # "open"
  /\ handler' = [handler EXCEPT ![c] = "done"]
  /\ UNCHANGED <<kind, conn, gone, hung, failed, sess, listener, serve, respond, calls>>

\* or panics, when accepted has been closed, and
HandlerPanics(c) ==
  /\ handler[c] = "send" /\ listener # "open"
  /\ handler' = [handler EXCEPT ![c] = "done"] /\ gone' = gone \union {c}
  /\ UNCHANGED <<kind, conn, hung, failed, sess, listener, serve, respond, calls>>

\* which waits for the session's end; on every way out the session is closed.
HandlerEnds(c) ==
  /\ handler[c] = "wait" /\ sess[c] = "ended"
  /\ handler' = [handler EXCEPT ![c] = "done"] /\ gone' = gone \union {c}
  /\ UNCHANGED <<kind, conn, hung, failed, sess, listener, serve, respond, calls>>

\* Listener.Close, called once: wsListener.Close closes accepted first,
CloseAccepted ==
  /\ listener = "open" /\ kind = "ws"
  /\ listener' = "closing"
  /\ UNCHANGED <<kind, conn, gone, hung, failed, sess, serve, handler, respond, calls>>

\* and the socket; connections nobody accepted are lost (of those to the HTTP server
\* any), and the transport of a stream listener with all its sessions (see Closes).
CloseListener ==
  LET waiting == {c \in Conns : conn[c] = "dialed"} IN
  /\ listener = IF kind = "ws" THEN "closing" ELSE "open"
  /\ listener' = "closed"
  /\ \E lost \in CASE kind = "io" -> {{}, Conns} [] kind = "net" -> {waiting} [] OTHER -> SUBSET waiting :
       gone' = gone \union lost
  /\ UNCHANGED <<kind, conn, hung, failed, sess, serve, handler, respond, calls>>

\* A mistake to catch: wsListener.Accept does not see that accepted is closed.
AcceptFailsNet == kind = "net" /\ listener = "closed"

AcceptFails == (kind = "ws" /\ listener # "open") \/ (kind = "net" /\ listener = "closed")

ServeReturns ==
  /\ serve = "accept" /\ AcceptFails
  /\ serve' = "returned"
  /\ UNCHANGED <<kind, conn, gone, hung, failed, sess, listener, handler, respond, calls>>

-------------------------------------------------------------------------------
(* Respond *)

\* A channel is accepted, and a goroutine responds to the call,
RespondAccepts(c) ==
  /\ respond[c] = "accept" /\ sess[c] = "live" /\ calls[c] < MaxCalls
  /\ calls' = [calls EXCEPT ![c] = @ + 1]
  /\ UNCHANGED <<kind, conn, gone, hung, failed, sess, listener, serve, handler, respond>>
CallEnds(c) ==
  /\ calls[c] > 0
  /\ calls' = [calls EXCEPT ![c] = @ - 1]
  /\ UNCHANGED <<kind, conn, gone, hung, failed, sess, listener, serve, handler, respond>>

\* A mistake to catch: Respond goes on after io.EOF.
RespondGoesOn(c) ==
  /\ respond[c] = "accept" /\ sess[c] = "ended"
  /\ \E closed \in Closes(c) : gone' = gone \union closed
  /\ UNCHANGED <<kind, conn, hung, failed, sess, listener, serve, handler, respond, calls>>

\* until Accept returns io.EOF; the session is closed.
RespondReturns(c) ==
  /\ respond[c] = "accept" /\ sess[c] = "ended"
  /\ respond' = [respond EXCEPT ![c] = "returned"]
  /\ \E closed \in Closes(c) : gone' = gone \union closed
  /\ UNCHANGED <<kind, conn, hung, failed, sess, listener, serve, handler, calls>>

\* The next session of a stream listener may have the name of one that is over.
Forget(c) ==
  /\ kind = "io" /\ respond[c] = "returned" /\ calls[c] = 0
  /\ conn' = [conn EXCEPT ![c] = "dialed"]
  /\ sess' = [sess EXCEPT ![c] = "none"]
  /\ respond' = [respond EXCEPT ![c] = "none"]
  /\ UNCHANGED <<kind, gone, hung, failed, listener, serve, handler, calls>>

ServerStep(c) ==
  \/ LoopEnds(c) \/ LoopFails(c) \/ Accept(c) \/ RespondReturns(c) \/ Forget(c)
  \/ HandlerStarts(c) \/ HandlerSends(c) \/ HandlerPanics(c) \/ HandlerEnds(c)

Next ==
  \/ \E c \in Conns : Dial(c) \/ HangUp(c) \/ ServerStep(c) \/ RespondAccepts(c) \/ CallEnds(c)
  \/ CloseAccepted \/ CloseListener \/ ServeReturns

Spec == Init /\ [][Next]_vars

\* Goroutines go on when they can, Close of the listener is completed, and a handler
\* returns when its channel has ended with the session.
Fairness ==
  /\ \A c \in Conns : /\ WF_vars(LoopEnds(c)) /\ WF_vars(RespondReturns(c))
                       /\ WF_vars(Accept(c) \/ Forget(c))
                       /\ WF_vars(HandlerStarts(c) \/ HandlerSends(c) \/ HandlerPanics(c) \/ HandlerEnds(c))
                       /\ WF_vars(sess[c] = "ended" /\ CallEnds(c))
  /\ WF_vars(listener = "closing" /\ CloseListener)
  /\ WF_vars(ServeReturns)

FairSpec == Spec /\ Fairness

-------------------------------------------------------------------------------
(* Properties *)

\* A session is served by one Respond, with a handler if it came by WebSocket.
TypeOK ==
  /\ listener \in {"open", "closing", "closed"} /\ serve \in {"accept", "returned"}
  /\ hung \subseteq gone /\ gone \union failed \subseteq Conns
  /\ \A c \in Conns :
       /\ calls[c] \in 0 .. MaxCalls
       /\ (sess[c] = "none") = (conn[c] # "up")
       /\ respond[c] # "none" => sess[c] # "none"
       /\ (handler[c] = "none") = (kind # "ws" \/ sess[c] = "none")

\* What happens to others never ends a session in service: not the closing of a
\* network listener, nor the HTTP handler, nor the end of other sessions.  It ends when
\* its peer has hung up or its loop met a packet it could not handle; the sessions of
\* a stream listener share these, and end when the listener is closed.
EndsForOwnCause ==
  \A c \in Conns :
    respond[c] = "accept" /\ sess[c] = "ended" =>
      c \in hung \union failed \/ (kind = "io" /\ listener = "closed")

\* Every peer that dials is served, however long others stay, as long as it does
\* not hang up and the listener is open.
EveryConnServed ==
  \A c \in Conns :
    (conn[c] = "dialed") ~> (respond[c] # "none" \/ c \in gone \/ listener # "open")

\* "ServeMux will Accept sessions until the Listener is closed": it returns, and
\* "Any blocked Accept operations will be unblocked and return errors."
ServeMuxReturns == (kind # "io" /\ listener # "open") ~> (serve = "returned")

\* The same for every listener.
ServeMuxAlwaysReturns == (listener # "open") ~> (serve = "returned")

\* A session made while the listener was being closed, which no Accept returns any
\* more, is closed: the handler's send panics, and its deferred Close runs.
NoOrphans ==
  \A c \in Conns :
    (sess[c] = "live" /\ listener = "closed") ~> (respond[c] # "none" \/ sess[c] = "ended")

\* When the transport is closed, or the loop has ended on a packet, the server keeps no
\* goroutine for the session: the loop, Respond, the handler and the calls all end.
SessionsReleased ==
  \A c \in Conns :
    (sess[c] = "ended" \/ (sess[c] = "live" /\ c \in gone)) ~>
      (sess[c] = "ended" /\ respond[c] # "accept" /\ handler[c] \in {"none", "done"} /\ calls[c] = 0)

===============================================================================
