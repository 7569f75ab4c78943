--------------------------------- MODULE Rpc ----------------------------------
(***************************************************************************)
(* One call of src/rpc over one open channel: Client.Call with the         *)
(* goroutine that watches its context (client.go), Server.respond with its *)
(* handler (server.go) and the responder (rpc.go).                         *)
(*                                                                         *)
(* The channel is that of modules Channel and Session, reduced to what a   *)
(* call can see: frames in order, a Close that is answered by the peer's   *)
(* loop, a window that is closed then, and a session that ends when a      *)
(* frame arrives for a slot that is free.  One frame carries one value, as *)
(* FrameCodec writes it.                                                   *)
(***************************************************************************)
EXTENDS Naturals, Sequences

CONSTANTS
  Calls,        \* the calls: what a caller sends and expects (args, stream,
                \* replies), what its handler does (receive, respond, values)
  Cancels,      \* whether the context may be cancelled,
  Aborts,       \* the session closed,
  Starves,      \* the stream of args left open without a value,
  Mismatch      \* whether the ends use different codecs

\* What a caller and a handler may be.
Callers == [args : Nat, stream : BOOLEAN, replies : Nat]
Handlers == [receive : Nat, values : Nat,
             respond : {"return", "none", "error", "continue", "hang"}]

ASSUME RpcAssumption ==
  /\ Calls \subseteq [caller : Callers, handler : Handlers]
  /\ {Cancels, Aborts, Starves, Mismatch} \subseteq BOOLEAN

Ends == {"C", "S"}   \* the caller, the responder
Peer(e) == IF e = "C" THEN "S" ELSE "C"

VARIABLES
  cli, beh,             \* the caller and the handler of this call
  wire, pend, eof,      \* frames under way to an end, values to be read, end of them
  sentClose, winClosed, listed,   \* as in Channel
  dead,                 \* why the session ended
  out,                  \* the value an end's Write reserved window for
  cpc, res, todo, replies,   \* Call: next step, error, args not encoded, replies read
  header,               \* the ResponseHeader it decoded
  ctx, watcher,         \* the context was cancelled; the goroutine that watches it
  spc, left, cont       \* respond: next step, values left, header.Continue

chan == <<wire, pend, eof, sentClose, winClosed, listed, dead>>
call == <<cpc, res, todo, replies, header>>
serve == <<spc, left, cont>>
vars == <<cli, beh, chan, out, call, ctx, watcher, serve>>

\* A value on the channel; err and cont are those of a ResponseHeader.
Value(type, n) == [type |-> type, n |-> n, err |-> FALSE, cont |-> FALSE]
Header(err, ct) == [type |-> "header", n |-> 0, err |-> err, cont |-> ct]
NoValue == Value("none", 0)

\* The CallHeader and the args a call sends.
Request(c) == <<Value("call", 0)>> \o [i \in 1 .. c.args |-> Value("arg", i)]

Init ==
  /\ \E c \in Calls : cli = c.caller /\ beh = c.handler
  /\ wire = [e \in Ends |-> <<>>] /\ pend = [e \in Ends |-> <<>>]
  /\ eof = [e \in Ends |-> FALSE]
  /\ sentClose = [e \in Ends |-> FALSE] /\ winClosed = [e \in Ends |-> FALSE]
  /\ listed = [e \in Ends |-> TRUE] /\ dead = "nil"
  /\ out = [e \in Ends |-> NoValue]
  /\ cpc = "request" /\ res = "nil" /\ todo = Request(cli) /\ replies = <<>>
  /\ header = NoValue
  /\ ctx = FALSE /\ watcher = "watch"
  /\ spc = "decode" /\ left = 0 /\ cont = FALSE

-------------------------------------------------------------------------------
(* The channel *)

\* A mistake to catch: sentClose is set and nothing is sent.
CloseChannelSilent(e) ==
  /\ sentClose' = [sentClose EXCEPT ![e] = TRUE]
  /\ UNCHANGED <<wire, pend, eof, winClosed, listed, dead>>

\* channel.Close: once, and into a living session.
CloseChannel(e) ==
  /\ sentClose' = [sentClose EXCEPT ![e] = TRUE]
  /\ wire' = IF sentClose[e] \/ dead # "nil" THEN wire
             ELSE [wire EXCEPT ![Peer(e)] = Append(@, Value("close", 0))]
  /\ UNCHANGED <<pend, eof, winClosed, listed, dead>>

\* channel.Write reserves window for a value; or fails.
Reserve(e, v) == ~winClosed[e] /\ out[e] = NoValue /\ out' = [out EXCEPT ![e] = v]
WriteFails(e) == winClosed[e] /\ out[e] = NoValue

\* The Data frame is encoded; or that fails.
Encoded(e) ==
  /\ out[e] # NoValue
  /\ dead = "nil"
  /\ wire' = [wire EXCEPT ![Peer(e)] = Append(@, out[e])]
  /\ out' = [out EXCEPT ![e] = NoValue]
  /\ UNCHANGED <<pend, eof, sentClose, winClosed, listed, dead>>
EncodeFails(e) ==
  /\ out[e] # NoValue
  /\ dead # "nil"
  /\ out' = [out EXCEPT ![e] = NoValue]

\* A value is read; or the end of them is.
ReadOK(e) ==
  /\ pend[e] # <<>>
  /\ pend' = [pend EXCEPT ![e] = Tail(@)]
  /\ UNCHANGED <<wire, eof, sentClose, winClosed, listed, dead>>
ReadEOF(e) == pend[e] = <<>> /\ eof[e]

\* A mistake to catch: the end of a channel does not end its buffer.
ShutNoEof(e) ==
  /\ listed' = [listed EXCEPT ![e] = FALSE]
  /\ sentClose' = [sentClose EXCEPT ![e] = TRUE]
  /\ winClosed' = [winClosed EXCEPT ![e] = TRUE]
  /\ UNCHANGED eof

\* The session's loop at e.
Shut(e) ==
  /\ listed' = [listed EXCEPT ![e] = FALSE]
  /\ eof' = [eof EXCEPT ![e] = TRUE]
  /\ sentClose' = [sentClose EXCEPT ![e] = TRUE]
  /\ winClosed' = [winClosed EXCEPT ![e] = TRUE]

Loop(e) ==
  LET v == Head(wire[e])
      rest == [wire EXCEPT ![e] = Tail(@)] IN
  /\ dead = "nil" /\ wire[e] # <<>>
  /\ IF ~listed[e]
     THEN /\ dead' = "invalidChannel" /\ wire' = rest
          /\ UNCHANGED <<pend, eof, sentClose, winClosed, listed>>
     ELSE IF v.type = "close"
     THEN /\ wire' = IF sentClose[e] THEN rest ELSE [rest EXCEPT ![Peer(e)] = Append(@, v)]
          /\ Shut(e)
          /\ UNCHANGED <<pend, dead>>
     ELSE /\ pend' = [pend EXCEPT ![e] = Append(@, v)] /\ wire' = rest
          /\ UNCHANGED <<eof, sentClose, winClosed, listed, dead>>
  /\ UNCHANGED <<cli, beh, out, call, ctx, watcher, serve>>

LoopEnds(e) ==
  /\ dead # "nil" /\ listed[e]
  /\ Shut(e)
  /\ UNCHANGED <<wire, pend, dead, cli, beh, out, call, ctx, watcher, serve>>

CloseSession ==
  /\ Aborts /\ dead = "nil"
  /\ dead' = "closed"
  /\ UNCHANGED <<wire, pend, eof, sentClose, winClosed, listed, cli, beh, out, call,
                 ctx, watcher, serve>>

-------------------------------------------------------------------------------
(* Client.Call, once the channel is open *)

\* The application has no value for the stream of args.
Starved == Starves /\ cli.stream /\ todo # <<>> /\ Head(todo).type = "arg"

\* The header and the args are encoded one after the other.
CallWrite ==
  /\ cpc = "request" /\ ~Starved
  /\ \/ Reserve("C", Head(todo)) /\ cpc' = "encode" /\ UNCHANGED res
     \/ WriteFails("C") /\ cpc' = "close" /\ res' = "err" /\ UNCHANGED out
  /\ UNCHANGED <<todo, replies, header, cli, beh, chan, ctx, watcher, serve>>

CallEncode ==
  /\ cpc = "encode"
  /\ \/ /\ Encoded("C")
        /\ todo' = Tail(todo)
        /\ cpc' = IF Len(todo) = 1 THEN "header" ELSE "request"
        /\ UNCHANGED res
     \/ /\ EncodeFails("C")
        /\ cpc' = "close" /\ res' = "err"
        /\ UNCHANGED <<todo, chan>>
  /\ UNCHANGED <<replies, header, cli, beh, ctx, watcher, serve>>

\* Where call goes when it is done with header h: to its deferred Close, if any.
Finish(h) == IF h.cont THEN "check" ELSE "close"

\* Mistakes to catch: the error in the header is overlooked; call returns with the
\* header and reads no reply.
CallHeaderBlind ==
  /\ cpc = "header"
  /\ \/ /\ ReadOK("C")
        /\ header' = Head(pend["C"])
        /\ cpc' = "reply"
        /\ UNCHANGED res
     \/ /\ ReadEOF("C")
        /\ cpc' = "close" /\ res' = "err"
        /\ UNCHANGED <<header, chan>>
  /\ UNCHANGED <<todo, replies, cli, beh, out, ctx, watcher, serve>>
CallHeaderOnly ==
  /\ cpc = "header"
  /\ \/ /\ ReadOK("C")
        /\ header' = Head(pend["C"])
        /\ cpc' = Finish(header')
        /\ res' = IF header'.err THEN "RemoteError" ELSE "nil"
     \/ /\ ReadEOF("C")
        /\ cpc' = "close" /\ res' = "err"
        /\ UNCHANGED <<header, chan>>
  /\ UNCHANGED <<todo, replies, cli, beh, out, ctx, watcher, serve>>

\* The response header is decoded; with an error in it no reply is read.
CallHeader ==
  /\ cpc = "header"
  /\ \/ /\ ReadOK("C")
        /\ header' = Head(pend["C"])
        /\ cpc' = IF header'.err THEN Finish(header') ELSE "reply"
        /\ res' = IF header'.err THEN "RemoteError" ELSE "nil"
     \/ /\ ReadEOF("C")
        /\ cpc' = "close" /\ res' = "err"
        /\ UNCHANGED <<header, chan>>
  /\ UNCHANGED <<todo, replies, cli, beh, out, ctx, watcher, serve>>

\* The replies are decoded; without any, one value is read and thrown away, and
\* so is the error of reading it.
CallReply ==
  LET last == Len(replies) + 1 >= cli.replies IN
  /\ cpc = "reply"
  /\ \/ /\ ReadOK("C")
        /\ replies' = IF cli.replies = 0 THEN <<>> ELSE Append(replies, Head(pend["C"]))
        /\ cpc' = IF last THEN Finish(header) ELSE "reply"
        /\ UNCHANGED res
     \/ /\ ReadEOF("C")
        /\ res' = IF cli.replies = 0 THEN "nil" ELSE "err"
        /\ cpc' = Finish(header)
        /\ UNCHANGED <<replies, chan>>
  /\ UNCHANGED <<todo, header, cli, beh, out, ctx, watcher, serve>>

CallClose ==
  /\ cpc = "close"
  /\ CloseChannel("C")
  /\ cpc' = "check"
  /\ UNCHANGED <<res, todo, replies, header, cli, beh, out, ctx, watcher, serve>>

\* Call looks at the context and returns, closing done.
CallReturn ==
  /\ cpc = "check"
  /\ res' = IF ctx THEN "ctx" ELSE res
  /\ cpc' = "done"
  /\ UNCHANGED <<todo, replies, header, cli, beh, chan, out, ctx, watcher, serve>>

\* The context may be cancelled at any time, and usually is after the call.
Cancel ==
  /\ Cancels /\ ~ctx
  /\ ctx' = TRUE
  /\ UNCHANGED <<cli, beh, chan, out, call, watcher, serve>>

\* A mistake to catch: the watcher goes away without a Close.
WatchCancelSilent ==
  /\ watcher = "watch" /\ ctx
  /\ watcher' = "closed"
  /\ UNCHANGED <<cli, beh, chan, out, call, ctx, serve>>

\* The watcher's select: when both cases are ready either may be taken.
WatchCancel ==
  /\ watcher = "watch" /\ ctx
  /\ CloseChannel("C")
  /\ watcher' = IF cpc = "done" THEN "closedLate" ELSE "closed"
  /\ UNCHANGED <<cli, beh, out, call, ctx, serve>>
WatchDone ==
  /\ watcher = "watch" /\ cpc = "done"
  /\ watcher' = "gone"
  /\ UNCHANGED <<cli, beh, chan, out, call, ctx, serve>>

\* Response.Receive, on a response that is continued.
ResponseReceive ==
  /\ cpc = "done" /\ res = "nil" /\ header.cont
  /\ ReadOK("C")
  /\ UNCHANGED <<cli, beh, out, call, ctx, watcher, serve>>

-------------------------------------------------------------------------------
(* Server.respond and the handler *)

\* The CallHeader is decoded, or respond returns at once.
ServeDecode ==
  /\ spc = "decode"
  /\ \/ /\ ReadOK("S")
        /\ spc' = IF Mismatch THEN "done" ELSE "receive"
        /\ left' = beh.receive
     \/ ReadEOF("S") /\ spc' = "done" /\ UNCHANGED <<left, chan>>
  /\ UNCHANGED <<cont, cli, beh, out, call, ctx, watcher>>

\* The handler calls Receive; at the end of the args it goes on without.
ServeReceive ==
  /\ spc = "receive" /\ left > 0
  /\ \/ ReadOK("S") /\ left' = left - 1
     \/ ReadEOF("S") /\ left' = 0 /\ UNCHANGED chan
  /\ UNCHANGED <<spc, cont, cli, beh, out, call, ctx, watcher>>

\* Return or Continue; or Return by respond, for a handler that did neither.
ServeRespond ==
  /\ spc = "receive" /\ left = 0
  /\ beh.respond # "hang"
  /\ cont' = (beh.respond = "continue")
  /\ spc' = "header"
  /\ UNCHANGED <<left, cli, beh, chan, out, call, ctx, watcher>>

\* The values responder.respond sends: those given; one nil with an error, or when
\* none is given.
Values == IF beh.respond = "error" \/ beh.values = 0 THEN 1 ELSE beh.values

\* The next value of the response: the header, then the values.
ServeWrite ==
  /\ spc \in {"header", "values"}
  /\ spc = "values" => left > 0
  /\ \/ /\ Reserve("S", IF spc = "header" THEN Header(beh.respond = "error", cont)
                        ELSE Value("value", Values - left + 1))
        /\ spc' = IF spc = "header" THEN "encodeHeader" ELSE "encodeValue"
     \/ WriteFails("S") /\ spc' = "final" /\ UNCHANGED out
  /\ UNCHANGED <<left, cont, cli, beh, chan, call, ctx, watcher>>

ServeEncode ==
  /\ spc \in {"encodeHeader", "encodeValue"}
  /\ \/ /\ Encoded("S")
        /\ spc' = "values"
        /\ left' = IF spc = "encodeHeader" THEN Values ELSE left - 1
     \/ /\ EncodeFails("S")
        /\ spc' = "final"
        /\ UNCHANGED <<left, chan>>
  /\ UNCHANGED <<cont, cli, beh, call, ctx, watcher>>

\* Return closes the channel after the values; a handler that continued does,
\* when it has sent what it wants.
ServeClose ==
  /\ spc = "values" /\ left = 0
  /\ CloseChannel("S")
  /\ spc' = "final"
  /\ UNCHANGED <<left, cont, cli, beh, out, call, ctx, watcher>>

\* The end of respond.
ServeEnd ==
  /\ spc = "final"
  /\ IF cont THEN UNCHANGED chan ELSE CloseChannel("S")
  /\ spc' = "done"
  /\ UNCHANGED <<left, cont, cli, beh, out, call, ctx, watcher>>

-------------------------------------------------------------------------------

Call ==
  CallWrite \/ CallEncode \/ CallHeader \/ CallReply \/ CallClose \/ CallReturn

Serve ==
  ServeDecode \/ ServeReceive \/ ServeRespond \/ ServeWrite \/ ServeEncode
  \/ ServeClose \/ ServeEnd

Loops == \E e \in Ends : Loop(e) \/ LoopEnds(e)

Next ==
  \/ Call \/ WatchCancel \/ WatchDone \/ ResponseReceive
  \/ Serve \/ Loops
  \/ Cancel \/ CloseSession

Spec == Init /\ [][Next]_vars

\* Goroutines that can go on do; the context need not be cancelled, nor the session
\* closed, nor a continued response read.
Fairness ==
  /\ WF_vars(Call) /\ WF_vars(WatchCancel \/ WatchDone) /\ WF_vars(Serve)
  /\ \A e \in Ends : WF_vars(Loop(e) \/ LoopEnds(e))

FairSpec == Spec /\ Fairness

-------------------------------------------------------------------------------
(* Properties *)

\* Each goroutine is at one of its steps, and what is decoded first by each side
\* is the header of the other.
TypeOK ==
  /\ cpc \in {"request", "encode", "header", "reply", "close", "check", "done"}
  /\ spc \in {"decode", "receive", "header", "values", "encodeHeader",
              "encodeValue", "final", "done"}
  /\ res \in {"nil", "err", "RemoteError", "ctx"} /\ left \in Nat
  /\ watcher \in {"watch", "closed", "closedLate", "gone"}
  /\ dead \in {"nil", "closed", "invalidChannel"}
  /\ header.type \in {"none", "header"}
  /\ spc = "decode" /\ pend["S"] # <<>> => Head(pend["S"]).type = "call"
  /\ \A i \in 1 .. Len(replies) : replies[i].type = "value"

\* What Call reports is what the handler did: no error means that the handler did
\* not return one and that the replies are its values, in order and complete; a
\* RemoteError means that it did; whatever is cancelled or closed meanwhile.
ReplyFaithful ==
  cpc = "done" =>
    /\ res = "nil" => /\ beh.respond # "error" /\ header.type = "header"
                      /\ Len(replies) = cli.replies
                      /\ \A i \in 1 .. Len(replies) : replies[i].n = i
    /\ res = "RemoteError" => beh.respond = "error"

\* A call does not harm the session it is made on: no frame of it arrives when
\* its slot is free.
SessionSurvives == dead # "invalidChannel"

\* The call is left alone, its handler receives every arg and returns what the
\* caller reads, and no error.
Orderly ==
  /\ ~ctx
  /\ beh.receive = cli.args
  /\ beh.respond \in {"return", "none"} => Values = (IF cli.replies = 0 THEN 1 ELSE cli.replies)
  /\ beh.respond # "error"

\* An orderly call does not, although both ends close the channel.
OrderlyCallsHarmless == Orderly => SessionSurvives

\* "... meaning the underlying channel will be kept open for either streaming back
\* more results or using the channel as a full duplex byte stream."
ContinuedStaysOpen ==
  cpc = "done" /\ res = "nil" /\ header.cont => watcher # "closedLate"

\* A call returns unless its handler never does: with the replies, or because the
\* handler sent too few, failed, or the session ended.
CallReturns == cpc # "done" /\ beh.respond # "hang" ~> cpc = "done"

\* "If the handler does not call Continue, the channel will be closed."
RespondReleases == spc = "done" /\ ~cont ~> ~listed["S"]

\* "If the context is cancelled before the call completes, call Close() to abort
\* the current operation": Call returns, even from a handler that never does.
CancelAborts == ctx ~> cpc = "done"

===============================================================================
