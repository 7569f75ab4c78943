-------------------------------- MODULE Relay ---------------------------------
(***************************************************************************)
(* A relay between two channels: Proxy of src/mux/proxy.go, ProxyHandler   *)
(* of src/rpc/proxy.go, and the services Stream and Bytes of               *)
(* src/interop/service.go, which are one more ProxyHandler.                *)
(*                                                                         *)
(*   client <--- front session ---> a | b <--- back session ---> backend   *)
(*                                                                         *)
(* Two goroutines copy what arrives at a to b ("up") and what arrives at b *)
(* to a ("down").  The kinds of relay differ in what a goroutine does when *)
(* its copy has ended.  At the two ends are either applications that do    *)
(* anything, or the client of src/cmd/qtalk/check.go and the echo of       *)
(* src/interop/callbacks.go, whose copy is named "echo".                   *)
(*                                                                         *)
(* A channel is what module Channel shows it to be: data, EOF and Close    *)
(* arrive in order, a Write waits for window and fails once the channel    *)
(* has been closed.  What the relay sends arrives at once, what it is sent *)
(* later: an application that has not seen a frame yet is one that took    *)
(* its step before the frame was sent.                                     *)
(***************************************************************************)
EXTENDS Integers, Sequences

CONSTANTS
  Window,      \* items a channel takes that nobody has read
  Uses         \* kind of the relay, style of the applications, how often each calls
               \* Write, whether the sessions may be cut and Open fail, and the ends
               \* whose Write reports 0 bytes

ASSUME RelayAssumption ==
  /\ Window \in Nat \ {0}
  /\ \A u \in Uses : /\ u.kind \in {"proxy", "handler"} /\ u.style \in {"free", "echo"}
                     /\ u.items.client \in Nat /\ u.items.backend \in Nat
                     /\ u.faults \in BOOLEAN /\ u.short \subseteq {"a", "b"}

Ends == {"client", "a", "b", "backend"}
Other(e) == CASE e = "client" -> "a" [] e = "a" -> "client"
              [] e = "b" -> "backend" [] e = "backend" -> "b"

Copies == {"up", "down", "echo"}
Src(d) == CASE d = "up" -> "a" [] d = "down" -> "b" [] d = "echo" -> "backend"
Dst(d) == CASE d = "up" -> "b" [] d = "down" -> "a" [] d = "echo" -> "backend"

VARIABLES
  chan,     \* chan[e]: the channel as e has it
  relay,    \* "open", "header", "run", "closing", "failed" or "done"
  copy,     \* copy[d]: where the goroutine is, and the item it has read
  cut,      \* a session has ended
  use

vars == <<chan, relay, copy, cut, use>>

\* in: what is on its way to it; win: items it may send; half: CloseWrite was
\* called; closed: the peer's Close was handled.  History: got is what Read
\* returned, saw that it returned io.EOF, wrote the number of Writes that succeeded,
\* fin the number of the next one when the end of the stream was announced, quit
\* that Close was called, each kept for the applications only.
Channel ==
  [in |-> <<>>, buf |-> <<>>, eof |-> FALSE, win |-> Window, half |-> FALSE,
   sentClose |-> FALSE, closed |-> FALSE,
   got |-> <<>>, saw |-> FALSE, wrote |-> 0, fin |-> 0, quit |-> FALSE]

Init ==
  /\ chan = [e \in Ends |-> Channel]
  /\ relay = "open"
  /\ copy = [d \in Copies |-> [pc |-> "read", item |-> <<>>]]
  /\ cut = FALSE
  /\ use \in Uses

-------------------------------------------------------------------------------
(* Channels *)

Frame(type, item) == [type |-> type, item |-> item]
Apps == {"client", "backend"}
Far(e) == IF e = "client" THEN "backend" ELSE "client"

\* channel.handle, in the session's loop at e: the channels c with frame f handled.
\* A Close is answered, unless it is itself the answer.
Gone(x) == [x EXCEPT !.eof = TRUE, !.closed = TRUE, !.sentClose = TRUE]
Queued(x, f) == [x EXCEPT !.in = Append(@, f)]
Handled(c, e, f) ==
  CASE f.type = "Data" -> [c EXCEPT ![e].buf = Append(@, f.item)]
    [] f.type = "EOF" -> [c EXCEPT ![e].eof = TRUE]
    [] f.type = "Close" ->
         [c EXCEPT ![e] = Gone(@),
                   ![Other(e)] = IF c[e].sentClose THEN @
                                 ELSE IF e \in Apps THEN Queued(@, f) ELSE Gone(@)]

\* channel.send by e on the channels c: nothing after a Close.
Sent(c, e, f) ==
  IF c[e].sentClose /\ f.type # "Data" THEN c
  ELSE LET d == [c EXCEPT ![e].sentClose = @ \/ f.type = "Close"] IN
       IF e \in Apps THEN [d EXCEPT ![Other(e)] = Queued(@, f)] ELSE Handled(d, Other(e), f)

\* channel.Write of one item: it is sent, waits for window, or fails.  It is one step:
\* a Close may come between reserve and Encode, and the Data then ends the session at
\* the peer (module Session), which is Cut, or changes nothing for a channel that both
\* ends have closed by then.
WriteFails(e) == chan[e].half \/ chan[e].closed
Written(e, item) ==
  Sent([chan EXCEPT ![e].wrote = IF e \in Apps THEN @ + 1 ELSE @, ![e].win = @ - 1], e, Frame("Data", item))
WriteOK(e, item) == ~WriteFails(e) /\ chan[e].win > 0 /\ chan' = Written(e, item)

\* channel.Read takes an item from buf and returns the window for it, which is not
\* sent any more after a Close.
Taken(e) ==
  [chan EXCEPT ![e].buf = Tail(@),
               ![Other(e)].win = IF chan[e].sentClose THEN @ ELSE @ + 1]
AtEOF(e) == chan[e].buf = <<>> /\ chan[e].eof

\* channel.Close and channel.CloseWrite.
Announced(c, e) ==
  IF e \in Apps /\ c[e].fin = 0 /\ ~c[e].sentClose THEN [c EXCEPT ![e].fin = c[e].wrote + 1] ELSE c
Closing(c, e) == Sent(Announced(c, e), e, Frame("Close", <<>>))
Close(e) == chan' = Closing(chan, e)
CloseWrite(e) == chan' = Sent([Announced(chan, e) EXCEPT ![e].half = TRUE], e, Frame("EOF", <<>>))

\* The session's loop, at the relay.
Handle(e) ==
  /\ chan[e].in # <<>>
  /\ chan' = Handled([chan EXCEPT ![e].in = Tail(@)], e, Head(chan[e].in))
  /\ UNCHANGED <<relay, copy, cut>>

\* A session ends with its channels, and what is under way is lost.
Cut(e) ==
  LET gone == {e, Other(e)} IN
  /\ use.faults /\ ~chan[e].closed
  /\ chan' = [x \in Ends |-> IF x \in gone THEN [Gone(chan[x]) EXCEPT !.in = <<>>] ELSE chan[x]]
  /\ cut' = TRUE
  /\ UNCHANGED <<relay, copy>>

-------------------------------------------------------------------------------
(* The relay *)

\* Proxy and ProxyHandler open the second channel.
Opened ==
  /\ relay = "open" /\ ~chan["b"].closed
  /\ relay' = IF use.kind = "proxy" THEN "run" ELSE "header"
  /\ UNCHANGED <<chan, copy, cut>>

\* ProxyHandler sends the call header.
SendHeader ==
  /\ relay = "header" /\ ~WriteFails("b")
  /\ relay' = "run"
  /\ UNCHANGED <<chan, copy, cut>>

\* When Open fails Proxy closes the first channel, and ProxyHandler returns the
\* error, after which respond closes it.  When the header cannot be sent, the second
\* channel, whose session has ended, is closed before.
Refused ==
  LET reply == use.kind = "handler" /\ ~WriteFails("a") IN
  /\ \/ relay = "open" /\ use.faults
     \/ relay = "header" /\ WriteFails("b")
  /\ relay' = "failed"
  /\ chan' = Closing(IF reply THEN Written("a", <<"error", 1>>) ELSE chan, "a")
  /\ UNCHANGED <<copy, cut>>

Running == relay \in {"run", "closing", "done"}
Copying(d, pc) == Running /\ copy[d].pc = pc /\ (d = "echo" => use.style = "echo")

\* A mistake to catch: the loops of the two directions share the variable.
StoredShared(d, item) == [x \in Copies |-> [pc |-> IF x = d THEN "write" ELSE copy[x].pc, item |-> item]]

Stored(d, item) == [copy EXCEPT ![d] = [pc |-> "write", item |-> item]]

\* io.Copy: Read, until it returns io.EOF,
CopyRead(d) ==
  /\ Copying(d, "read")
  /\ \/ /\ chan[Src(d)].buf # <<>>
        /\ copy' = Stored(d, Head(chan[Src(d)].buf))
        /\ chan' = Taken(Src(d))
     \/ /\ AtEOF(Src(d))
        /\ copy' = [copy EXCEPT ![d].pc = "end"]
        /\ UNCHANGED chan
  /\ UNCHANGED <<relay, cut>>

\* Where a Write leaves io.Copy: it ends with the error, or when fewer bytes are
\* reported than were read.
AfterWrite(d, ok) == [pc |-> IF ok /\ Dst(d) \notin use.short THEN "read" ELSE "end", item |-> <<>>]

\* and Write, until it fails.
CopyWrite(d) ==
  /\ Copying(d, "write")
  /\ \/ /\ WriteOK(Dst(d), copy[d].item)
        /\ copy' = [copy EXCEPT ![d] = AfterWrite(d, TRUE)]
     \/ /\ WriteFails(Dst(d))
        /\ copy' = [copy EXCEPT ![d] = AfterWrite(d, FALSE)]
        /\ UNCHANGED chan
  /\ UNCHANGED <<relay, cut>>

\* Mistakes to catch: the end of a copy is not passed on; it always ends both
\* directions; it never does.
PassEndNot(d) == UNCHANGED chan
PassEndClose(d) == Close(Dst(d))
PassEndHalf(d) == CloseWrite(Dst(d))

\* What follows the copy: the end of the stream is passed on; ProxyHandler closes
\* the first channel when the second has ended, and the echo closes its own.
PassEnd(d) ==
  IF d = "echo" \/ (d = "down" /\ use.kind = "handler") THEN Close(Dst(d)) ELSE CloseWrite(Dst(d))

CopyEnd(d) ==
  /\ Copying(d, "end")
  /\ PassEnd(d)
  /\ copy' = [copy EXCEPT ![d].pc = "done"]
  /\ UNCHANGED <<relay, cut>>

\* proxy waits for both goroutines and closes both channels.
CloseFirst ==
  /\ relay = "run" /\ use.kind = "proxy"
  /\ copy["up"].pc = "done" /\ copy["down"].pc = "done"
  /\ Close("a")
  /\ relay' = "closing"
  /\ UNCHANGED <<copy, cut>>
CloseSecond ==
  /\ relay = "closing"
  /\ Close("b")
  /\ relay' = "done"
  /\ UNCHANGED <<copy, cut>>

-------------------------------------------------------------------------------
(* The applications *)

\* The client and the backend may do anything, until they call Close; the echo is a
\* copy, and its client writes all items and half-closes.
Active(e) == ~chan[e].quit /\ (e = "client" \/ (Running /\ use.style = "free"))

AppWrite(e) ==
  /\ Active(e) /\ chan[e].wrote < use.items[e]
  /\ WriteOK(e, <<e, chan[e].wrote + 1>>)
  /\ UNCHANGED <<relay, copy, cut>>
AppCloseWrite(e) ==
  /\ Active(e) /\ ~chan[e].half
  /\ use.style = "echo" => chan[e].wrote = use.items[e] \/ WriteFails(e)
  /\ CloseWrite(e)
  /\ UNCHANGED <<relay, copy, cut>>
AppClose(e) ==
  /\ Active(e) /\ use.style = "free" /\ ~chan[e].sentClose
  /\ chan' = [Closing(chan, e) EXCEPT ![e].quit = TRUE]
  /\ UNCHANGED <<relay, copy, cut>>
AppRead(e) ==
  /\ Active(e)
  /\ \/ /\ chan[e].buf # <<>>
        /\ chan' = [Taken(e) EXCEPT ![e].got = Append(@, Head(chan[e].buf))]
     \/ /\ AtEOF(e) /\ ~chan[e].saw
        /\ chan' = [chan EXCEPT ![e].saw = TRUE]
  /\ UNCHANGED <<relay, copy, cut>>

RelayStep == Opened \/ SendHeader \/ Refused \/ CloseFirst \/ CloseSecond
CopyStep(d) == CopyRead(d) \/ CopyWrite(d) \/ CopyEnd(d)

Next ==
  /\ UNCHANGED use
  /\ \/ RelayStep
     \/ \E d \in Copies : CopyStep(d)
     \/ \E e \in Ends \ Apps : Handle(e) \/ Cut(e)
     \/ \E e \in Apps : AppWrite(e) \/ AppCloseWrite(e) \/ AppClose(e) \/ AppRead(e)

Spec == Init /\ [][Next]_vars

\* Scheduling: loops, the goroutines of the relay and the echo go on whenever they
\* can, applications read what arrives, and the client of the echo writes.
Fairness ==
  /\ WF_vars(UNCHANGED use /\ RelayStep)
  /\ \A d \in Copies : WF_vars(UNCHANGED use /\ CopyStep(d))
  /\ \A e \in Ends \ Apps : WF_vars(UNCHANGED use /\ Handle(e))
  /\ \A e \in Apps : WF_vars(UNCHANGED use /\ AppRead(e))
  /\ WF_vars(UNCHANGED use /\ use.style = "echo" /\ (AppWrite("client") \/ AppCloseWrite("client")))

FairSpec == Spec /\ Fairness

-------------------------------------------------------------------------------
(* Properties *)

\* Every channel's state has its type; no end takes more than its window.
TypeOK ==
  /\ relay \in {"open", "header", "run", "closing", "failed", "done"} /\ cut \in BOOLEAN
  /\ \A d \in Copies : copy[d].pc \in {"read", "write", "end", "done"}
  /\ \A e \in Ends :
       /\ chan[e].win \in 0 .. Window /\ chan[e].fin \in Nat
       /\ Len(chan[e].buf) <= Window
       /\ \A i \in 1 .. Len(chan[e].in) : chan[e].in[i].type \in {"Data", "EOF", "Close"}
       /\ e \in Apps => chan[e].in = <<>>

\* What an application reads through the relay is a prefix of what the other one
\* wrote, of what it wrote itself when the other one echoes, or the error of a
\* call that could not be passed on: io.Copy, or Receive and Send, in each
\* direction neither mixes the directions nor loses or repeats an item.
Intact ==
  \A e \in Apps :
    LET origin == IF use.style = "echo" THEN "client" ELSE Far(e) IN
    \/ chan[e].got = [i \in 1 .. Len(chan[e].got) |-> <<origin, i>>]
    \/ e = "client" /\ relay = "failed" /\ chan[e].got = <<<<"error", 1>>>>

Complete(e) ==
  chan[e].saw /\ ~chan[e].quit /\ ~cut /\ relay # "failed" =>
    chan[Far(e)].fin > 0 /\ Len(chan[e].got) >= chan[Far(e)].fin - 1

\* End to end, io.EOF means complete: an application that reads io.EOF, and has not
\* closed the channel itself, has read everything the other one wrote before the
\* end of its stream.  ProxyHandler guarantees this to the backend only as long as
\* the backend has not ended its own stream.
EOFMeansComplete ==
  use.short = {} =>
    \A e \in Apps : Complete(e) \/ (use.kind = "handler" /\ e = "backend" /\ chan[e].fin > 0)

\* The same without the exception: what "regardless of call style"
\* (src/rpc/proxy.go) promises of a call that goes on after the backend has ended
\* its stream.
HalfCloseKept == \A e \in Apps : Complete(e)

Released == chan["a"].closed /\ chan["b"].closed

\* The relay lets go of both channels.  After Proxy: once both applications have
\* ended their streams.  After ProxyHandler: once the backend has closed its
\* channel.  After a failed Open: of the first one at once.
ChannelsReleased ==
  /\ (use.kind = "proxy" /\ Running /\ \A e \in Apps : chan[e].fin > 0) ~> Released
  /\ (use.kind = "handler" /\ Running /\ chan["backend"].sentClose) ~> Released
  /\ (relay = "failed") ~> chan["a"].closed

\* The same for ProxyHandler when the backend only half-closes: what Proxy does,
\* and what the one who opens a channel must do for its id to be used again.
HandlerReleases == (Running /\ \A e \in Apps : chan[e].fin > 0) ~> Released

\* The check of src/cmd/qtalk/check.go: a client that writes everything, half-closes
\* and then reads until io.EOF gets everything back from the echo, whatever the
\* window ("byte stream buffer does not match"), unless a session is cut.
EchoReturns ==
  (use.style = "echo") ~>
    (cut \/ relay = "failed" \/ (chan["client"].saw /\ Len(chan["client"].got) = use.items.client /\ Released))

===============================================================================
