------------------------------- MODULE Channel --------------------------------
(***************************************************************************)
(* One open channel of src/mux between two sessions A and B: both ends of  *)
(* src/mux/channel.go, and of each session (src/mux/session.go) the loop   *)
(* that reads frames from the transport and hands them to the channel.     *)
(*                                                                         *)
(* At each end run, concurrently: the loop; a goroutine that Writes; one   *)
(* that Reads; one that calls CloseWrite or Close; and the owner of the    *)
(* session, who may Close it.  One action is one critical section, or one  *)
(* packet handled by the loop, so Write is Reserve and EncodeData in turn, *)
(* and Read is three steps: take the bytes, grow myWindow, send the frame. *)
(* The receive buffer is the queue of module ByteQueue (module Buffer      *)
(* implements it), the send window that of module Window.                  *)
(***************************************************************************)
EXTENDS Integers, Sequences

CONSTANTS
  WindowSize,   \* channelWindowSize
  MaxPacket,    \* channelMaxPacket, the maximum payload both ends announce
  Modulus,      \* 2^32: window sizes and frame lengths are uint32
  WriteSizes,   \* len(data) of a Write
  ReadSizes,    \* len(data) of a Read
  MaxBytes,     \* bound on the bytes the goroutine of one end Writes
  Capacity,     \* frames the transport buffers; Encode blocks while it is full
  WriteEnds,    \* ends whose application calls Write,
  EOFEnds,      \* CloseWrite,
  CloseEnds,    \* Close,
  AbortEnds     \* and Session.Close

Ends == {"A", "B"}

ASSUME ChannelAssumption ==
  /\ WindowSize \in Nat \ {0} /\ WindowSize < Modulus
  /\ MaxPacket \in Nat \ {0}
  /\ Modulus \in Nat
  /\ WriteSizes \subseteq Nat \ {0}
  /\ ReadSizes \subseteq Nat \ {0}
  /\ MaxBytes \in Nat
  /\ Capacity \in Nat \ {0}
  /\ WriteEnds \subseteq Ends /\ EOFEnds \subseteq Ends
  /\ CloseEnds \subseteq Ends /\ AbortEnds \subseteq Ends

Peer(e) == IF e = "A" THEN "B" ELSE "A"

VARIABLES
  wire,         \* wire[e]: the frames on their way to e
  tclosed,      \* e closed its side of the transport
  loop,         \* session.loop: "run", or "down" after its teardown
  err,          \* session.err: why loop ended
  inChans,      \* the channel is in session.chans
  sentEOF, sentClose,
  win, winClosed,        \* remoteWin
  myWindow,
  pending, eof,          \* pending: its bytes, and whether it was closed
  wpc, wleft, wspace,    \* Write: next step, bytes left, bytes reserved
  rpc, rn,               \* Read: next step, bytes it took
  epc,                   \* CloseWrite: next step
  asked,        \* bytes passed to Write so far
  sent,         \* history: bytes e encoded in Data frames
  acked,        \* history: bytes e encoded in WindowAdjust frames
  regained,     \* history: bytes e received in WindowAdjust frames
  got,          \* history: the bytes e's Reads returned
  fin,          \* history: value of sent when e first encoded EOF or Close
  sawEOF        \* history: a Read at e returned io.EOF

net == <<wire, sent, acked, fin>>
session == <<tclosed, loop, err, inChans>>
receive == <<myWindow, pending, eof, rpc, rn, got, sawEOF>>
writer == <<wpc, wleft, wspace, asked>>
window == <<win, winClosed, regained>>
flags == <<sentEOF, sentClose, epc>>
vars == <<net, session, receive, writer, window, flags>>

NoFin == -1

\* Both ends right after the open handshake.
Init ==
  /\ wire = [e \in Ends |-> <<>>]
  /\ tclosed = [e \in Ends |-> FALSE]
  /\ loop = [e \in Ends |-> "run"]
  /\ err = [e \in Ends |-> "nil"]
  /\ inChans = [e \in Ends |-> TRUE]
  /\ sentEOF = [e \in Ends |-> FALSE]
  /\ sentClose = [e \in Ends |-> FALSE]
  /\ win = [e \in Ends |-> WindowSize]
  /\ winClosed = [e \in Ends |-> FALSE]
  /\ myWindow = [e \in Ends |-> WindowSize]
  /\ pending = [e \in Ends |-> <<>>]
  /\ eof = [e \in Ends |-> FALSE]
  /\ wpc = [e \in Ends |-> "idle"]
  /\ wleft = [e \in Ends |-> 0]
  /\ wspace = [e \in Ends |-> 0]
  /\ rpc = [e \in Ends |-> "idle"]
  /\ rn = [e \in Ends |-> 0]
  /\ epc = [e \in Ends |-> "idle"]
  /\ asked = [e \in Ends |-> 0]
  /\ sent = [e \in Ends |-> 0]
  /\ acked = [e \in Ends |-> 0]
  /\ regained = [e \in Ends |-> 0]
  /\ got = [e \in Ends |-> <<>>]
  /\ fin = [e \in Ends |-> NoFin]
  /\ sawEOF = [e \in Ends |-> FALSE]

-------------------------------------------------------------------------------
(* Frames and the transport *)

\* A mistake to catch: Write sends the beginning of its data again and again.
FrameAgain(e, type, n) == [type |-> type, n |-> n, pos |-> 0, ack |-> acked[e]]

\* A frame from e.  n is Length of a Data, AdditionalBytes of a WindowAdjust.
\* The bytes of a Data frame are numbered pos+1 .. pos+n, their places in the
\* stream e sends; ack, and pos of the other frames, are history.
Frame(e, type, n) == [type |-> type, n |-> n, pos |-> sent[e], ack |-> acked[e]]

DataBytes(f) == IF f.type = "Data" THEN f.n ELSE 0
CreditBytes(f) == IF f.type = "WindowAdjust" THEN f.n ELSE 0
Payload(f) == [i \in 1 .. f.n |-> f.pos + i]
IsEnd(f) == f.type \in {"EOF", "Close"}

\* frame.Encoder.Encode at e, w being the transport before it: one whole frame
\* is written, under the encoder's mutex.
EncodeOK(w, e, type, n) ==
  LET f == Frame(e, type, n) IN
  /\ ~tclosed[e]
  /\ Len(w[Peer(e)]) < Capacity
  /\ wire' = [w EXCEPT ![Peer(e)] = Append(@, f)]
  /\ sent' = [sent EXCEPT ![e] = @ + DataBytes(f)]
  /\ acked' = [acked EXCEPT ![e] = @ + CreditBytes(f)]
  /\ fin' = IF IsEnd(f) /\ fin[e] = NoFin THEN [fin EXCEPT ![e] = sent[e]] ELSE fin

\* Encode fails once either side closed the transport.
EncodeFails(w, e) ==
  /\ tclosed[e] \/ tclosed[Peer(e)]
  /\ wire' = w
  /\ UNCHANGED <<sent, acked, fin>>

Encode(w, e, type, n) == EncodeOK(w, e, type, n) \/ EncodeFails(w, e)

\* channel.send: nothing is encoded after Close, and Close is remembered even
\* when encoding it fails.
Send(w, e, type, n) ==
  \/ /\ sentClose[e]
     /\ wire' = w
     /\ UNCHANGED <<sent, acked, fin, sentClose>>
  \/ /\ ~sentClose[e]
     /\ sentClose' = IF type = "Close" THEN [sentClose EXCEPT ![e] = TRUE] ELSE sentClose
     /\ Encode(w, e, type, n)

-------------------------------------------------------------------------------
(* The application's calls *)

\* min: b is converted to uint32 before it is compared.
Min32(a, b) == IF a < b % Modulus THEN a ELSE b % Modulus

\* Write starts: the only look at sentEOF.  (A Write after CloseWrite returns
\* io.EOF and changes nothing.)
Write(e, k) ==
  /\ wpc[e] = "idle"
  /\ ~sentEOF[e]
  /\ asked[e] + k =< MaxBytes
  /\ wpc' = [wpc EXCEPT ![e] = "reserve"]
  /\ wleft' = [wleft EXCEPT ![e] = k]
  /\ asked' = [asked EXCEPT ![e] = @ + k]
  /\ UNCHANGED <<wspace, net, session, receive, window, flags>>

\* window.reserve, which blocks on an empty open window; on a closed one Write
\* returns io.EOF.
Reserve(e) ==
  LET ask == Min32(MaxPacket, wleft[e])
      space == IF win[e] < ask THEN win[e] ELSE ask IN
  /\ wpc[e] = "reserve"
  /\ win[e] > 0 \/ winClosed[e]
  /\ win' = [win EXCEPT ![e] = @ - space]
  /\ wspace' = [wspace EXCEPT ![e] = IF winClosed[e] THEN 0 ELSE space]
  /\ wleft' = [wleft EXCEPT ![e] = IF winClosed[e] THEN 0 ELSE @]
  /\ wpc' = [wpc EXCEPT ![e] = IF winClosed[e] THEN "idle" ELSE "encode"]
  /\ UNCHANGED <<asked, winClosed, regained, net, session, receive, flags>>

\* The Data frame is encoded, with no look at sentClose.  Write goes on while
\* there are bytes left, and returns an error of Encode.
EncodeData(e) ==
  /\ wpc[e] = "encode"
  /\ \/ /\ EncodeOK(wire, e, "Data", wspace[e])
        /\ wleft' = [wleft EXCEPT ![e] = @ - wspace[e]]
        /\ wpc' = [wpc EXCEPT ![e] = IF wleft'[e] = 0 THEN "idle" ELSE "reserve"]
     \/ /\ EncodeFails(wire, e)
        /\ wleft' = [wleft EXCEPT ![e] = 0]
        /\ wpc' = [wpc EXCEPT ![e] = "idle"]
  /\ wspace' = [wspace EXCEPT ![e] = 0]
  /\ UNCHANGED <<asked, session, receive, window, flags>>

\* A mistake to catch: Read reports the end before the pending bytes.
ReadEndsEarly(e, k) ==
  /\ rpc[e] = "idle"
  /\ eof[e]
  /\ sawEOF' = [sawEOF EXCEPT ![e] = TRUE]
  /\ UNCHANGED <<rn, rpc, got, pending, myWindow, eof, net, session, writer, window, flags>>

\* Read takes what is pending, or reports the end of a closed buffer.
Read(e, k) ==
  LET n == IF k < Len(pending[e]) THEN k ELSE Len(pending[e]) IN
  /\ rpc[e] = "idle"
  /\ pending[e] # <<>> \/ eof[e]
  /\ got' = [got EXCEPT ![e] = @ \o SubSeq(pending[e], 1, n)]
  /\ pending' = [pending EXCEPT ![e] = SubSeq(@, n + 1, Len(@))]
  /\ sawEOF' = IF n = 0 THEN [sawEOF EXCEPT ![e] = TRUE] ELSE sawEOF
  /\ rn' = [rn EXCEPT ![e] = n]
  /\ rpc' = [rpc EXCEPT ![e] = IF n = 0 THEN "idle" ELSE "grow"]
  /\ UNCHANGED <<myWindow, eof, net, session, writer, window, flags>>

\* A mistake to catch: adjustWindow tells the peer but not myWindow.
GrowWindowForgotten(e) ==
  /\ rpc[e] = "grow"
  /\ rpc' = [rpc EXCEPT ![e] = "adjust"]
  /\ UNCHANGED <<myWindow, pending, eof, rn, got, sawEOF, net, session, writer, window, flags>>

\* adjustWindow, its critical section on windowMu ...
GrowWindow(e) ==
  /\ rpc[e] = "grow"
  /\ myWindow' = [myWindow EXCEPT ![e] = (@ + rn[e]) % Modulus]
  /\ rpc' = [rpc EXCEPT ![e] = "adjust"]
  /\ UNCHANGED <<pending, eof, rn, got, sawEOF, net, session, writer, window, flags>>

\* A mistake to catch: an end that has sent EOF gives no more credit.
SendAdjustUnlessEOF(e) ==
  /\ rpc[e] = "adjust"
  /\ IF sentEOF[e] THEN UNCHANGED <<net, sentClose>> ELSE Send(wire, e, "WindowAdjust", rn[e])
  /\ rpc' = [rpc EXCEPT ![e] = "idle"]
  /\ rn' = [rn EXCEPT ![e] = 0]
  /\ UNCHANGED <<sentEOF, epc, myWindow, pending, eof, got, sawEOF,
                 session, writer, window>>

\* ... and its send.
SendAdjust(e) ==
  /\ rpc[e] = "adjust"
  /\ Send(wire, e, "WindowAdjust", rn[e])
  /\ rpc' = [rpc EXCEPT ![e] = "idle"]
  /\ rn' = [rn EXCEPT ![e] = 0]
  /\ UNCHANGED <<sentEOF, epc, myWindow, pending, eof, got, sawEOF,
                 session, writer, window>>

\* CloseWrite sets sentEOF under no lock, then sends.  (Called once per end.)
CloseWrite(e) ==
  /\ epc[e] = "idle"
  /\ ~sentEOF[e]
  /\ sentEOF' = [sentEOF EXCEPT ![e] = TRUE]
  /\ epc' = [epc EXCEPT ![e] = "send"]
  /\ UNCHANGED <<sentClose, net, session, receive, writer, window>>

SendEOF(e) ==
  /\ epc[e] = "send"
  /\ Send(wire, e, "EOF", 0)
  /\ epc' = [epc EXCEPT ![e] = "idle"]
  /\ UNCHANGED <<sentEOF, session, receive, writer, window>>

\* Close.  (Calls after the first change nothing.)
Close(e) ==
  /\ ~sentClose[e]
  /\ Send(wire, e, "Close", 0)
  /\ UNCHANGED <<sentEOF, epc, session, receive, writer, window>>

\* session.Close closes the transport; the loop finds out by itself.
CloseSession(e) ==
  /\ ~tclosed[e]
  /\ tclosed' = [tclosed EXCEPT ![e] = TRUE]
  /\ UNCHANGED <<loop, err, inChans, net, receive, writer, window, flags>>

-------------------------------------------------------------------------------
(* The loop *)

\* The transport without the frame the loop of e is handling.
Rest(e) == [wire EXCEPT ![e] = Tail(@)]

\* What onePacket, handle and handleData return for a frame.
Verdict(e, f) ==
  CASE ~inChans[e] -> "invalid channel"
    [] inChans[e] /\ f.type = "Data" ->
         IF f.n > MaxPacket THEN "exceeds maximum payload"
         ELSE IF myWindow[e] < f.n THEN "wrote too much" ELSE "nil"
    [] inChans[e] /\ f.type = "WindowAdjust" ->
         IF (win[e] + f.n) % Modulus < f.n THEN "invalid window update" ELSE "nil"
    [] OTHER -> "nil"

\* The loop of e can take frame f, of the given type, without an error.  A
\* transport closed on this side yields no more frames.
Accepts(e, type) ==
  /\ loop[e] = "run" /\ ~tclosed[e]
  /\ wire[e] # <<>>
  /\ Head(wire[e]).type = type
  /\ Verdict(e, Head(wire[e])) = "nil"

\* Mistakes to catch: an EOF dropped; a Close that leaves the window open.
HandleEOFDropped(e) ==
  /\ Accepts(e, "EOF")
  /\ wire' = Rest(e)
  /\ UNCHANGED <<sent, acked, fin, receive, session, writer, window, flags>>
HandleCloseWindowOpen(e) ==
  /\ Accepts(e, "Close")
  /\ IF sentClose[e]
     THEN wire' = Rest(e) /\ UNCHANGED <<sent, acked, fin>>
     ELSE Encode(Rest(e), e, "Close", 0)
  /\ inChans' = [inChans EXCEPT ![e] = FALSE]
  /\ eof' = [eof EXCEPT ![e] = TRUE]
  /\ sentClose' = [sentClose EXCEPT ![e] = TRUE]
  /\ UNCHANGED <<tclosed, loop, err, sentEOF, epc, window,
                 myWindow, pending, rpc, rn, got, sawEOF, writer>>

HandleData(e) ==
  LET f == Head(wire[e]) IN
  /\ Accepts(e, "Data")
  /\ wire' = Rest(e)
  /\ myWindow' = [myWindow EXCEPT ![e] = @ - f.n]
  /\ pending' = [pending EXCEPT ![e] = @ \o Payload(f)]
  /\ UNCHANGED <<sent, acked, fin, eof, rpc, rn, got, sawEOF,
                 session, writer, window, flags>>

HandleEOF(e) ==
  /\ Accepts(e, "EOF")
  /\ wire' = Rest(e)
  /\ eof' = [eof EXCEPT ![e] = TRUE]
  /\ UNCHANGED <<sent, acked, fin, myWindow, pending, rpc, rn, got, sawEOF,
                 session, writer, window, flags>>

HandleWindowAdjust(e) ==
  LET f == Head(wire[e]) IN
  /\ Accepts(e, "WindowAdjust")
  /\ wire' = Rest(e)
  /\ win' = [win EXCEPT ![e] = @ + f.n]
  /\ regained' = [regained EXCEPT ![e] = @ + f.n]
  /\ UNCHANGED <<sent, acked, fin, winClosed, session, receive, writer, flags>>

\* A Close is answered, whatever comes of that; then the channel is forgotten
\* and channel.close ends reading, sending and the window.
HandleClose(e) ==
  /\ Accepts(e, "Close")
  /\ IF sentClose[e]
     THEN wire' = Rest(e) /\ UNCHANGED <<sent, acked, fin>>
     ELSE Encode(Rest(e), e, "Close", 0)
  /\ inChans' = [inChans EXCEPT ![e] = FALSE]
  /\ eof' = [eof EXCEPT ![e] = TRUE]
  /\ sentClose' = [sentClose EXCEPT ![e] = TRUE]
  /\ winClosed' = [winClosed EXCEPT ![e] = TRUE]
  /\ UNCHANGED <<tclosed, loop, err, sentEOF, epc, win, regained,
                 myWindow, pending, rpc, rn, got, sawEOF, writer>>

\* The end of loop: every channel still listed is closed, then the transport,
\* then session.err is set.
Teardown(e, why) ==
  /\ loop' = [loop EXCEPT ![e] = "down"]
  /\ err' = [err EXCEPT ![e] = why]
  /\ tclosed' = [tclosed EXCEPT ![e] = TRUE]
  /\ inChans' = [inChans EXCEPT ![e] = FALSE]
  /\ IF inChans[e]
     THEN /\ eof' = [eof EXCEPT ![e] = TRUE]
          /\ sentClose' = [sentClose EXCEPT ![e] = TRUE]
          /\ winClosed' = [winClosed EXCEPT ![e] = TRUE]
     ELSE UNCHANGED <<eof, sentClose, winClosed>>
  /\ UNCHANGED <<sentEOF, epc, win, regained, myWindow, pending, rpc, rn, got,
                 sawEOF, writer, net>>

\* A frame is refused.
Refuse(e) ==
  /\ loop[e] = "run" /\ ~tclosed[e]
  /\ wire[e] # <<>>
  /\ Verdict(e, Head(wire[e])) # "nil"
  /\ Teardown(e, Verdict(e, Head(wire[e])))

\* Decode fails: the transport was closed here, or there.  What the peer sent
\* before it closed may be lost with the connection.
TransportFails(e) ==
  /\ loop[e] = "run"
  /\ tclosed[e] \/ tclosed[Peer(e)]
  /\ Teardown(e, "EOF")

Loop(e) ==
  \/ HandleData(e) \/ HandleEOF(e) \/ HandleWindowAdjust(e) \/ HandleClose(e)
  \/ Refuse(e) \/ TransportFails(e)

Next ==
  \/ \E e \in WriteEnds, k \in WriteSizes : Write(e, k)
  \/ \E e \in EOFEnds : CloseWrite(e)
  \/ \E e \in CloseEnds : Close(e)
  \/ \E e \in AbortEnds : CloseSession(e)
  \/ \E e \in Ends, k \in ReadSizes : Read(e, k)
  \/ \E e \in Ends : \/ Reserve(e) \/ EncodeData(e)
                     \/ GrowWindow(e) \/ SendAdjust(e)
                     \/ SendEOF(e)
                     \/ Loop(e)

Spec == Init /\ [][Next]_vars

\* Scheduling: a session's loop, and a call under way, go on whenever they can;
\* the application keeps reading.  Nobody has to start a Write or a Close.
Fairness ==
  \A e \in Ends :
    /\ WF_vars(Loop(e))
    /\ WF_vars(Reserve(e)) /\ WF_vars(EncodeData(e))
    /\ WF_vars(\E k \in ReadSizes : Read(e, k))
    /\ WF_vars(GrowWindow(e)) /\ WF_vars(SendAdjust(e))
    /\ WF_vars(SendEOF(e))

FairSpec == Spec /\ Fairness

-------------------------------------------------------------------------------
(* Properties *)

FrameType == {"Data", "WindowAdjust", "EOF", "Close"}
Errors == {"nil", "EOF", "invalid channel", "exceeds maximum payload",
           "wrote too much", "invalid window update"}

Frames == [type : FrameType, n : Nat, pos : Nat, ack : Nat]

NetTypes ==
  /\ wire \in [Ends -> Seq(Frames)]
  /\ sent \in [Ends -> Nat] /\ acked \in [Ends -> Nat]
  /\ fin \in [Ends -> Nat \cup {NoFin}]
SessionTypes ==
  /\ tclosed \in [Ends -> BOOLEAN] /\ inChans \in [Ends -> BOOLEAN]
  /\ loop \in [Ends -> {"run", "down"}] /\ err \in [Ends -> Errors]
ReceiveTypes ==
  /\ myWindow \in [Ends -> Nat] /\ rn \in [Ends -> Nat]
  /\ pending \in [Ends -> Seq(Nat)] /\ got \in [Ends -> Seq(Nat)]
  /\ rpc \in [Ends -> {"idle", "grow", "adjust"}]
  /\ eof \in [Ends -> BOOLEAN] /\ sawEOF \in [Ends -> BOOLEAN]
WriterTypes ==
  /\ wpc \in [Ends -> {"idle", "reserve", "encode"}]
  /\ wleft \in [Ends -> Nat] /\ wspace \in [Ends -> Nat] /\ asked \in [Ends -> Nat]
WindowTypes ==
  /\ win \in [Ends -> Nat] /\ regained \in [Ends -> Nat]
  /\ winClosed \in [Ends -> BOOLEAN]
FlagTypes ==
  /\ sentEOF \in [Ends -> BOOLEAN] /\ sentClose \in [Ends -> BOOLEAN]
  /\ epc \in [Ends -> {"idle", "send"}]

\* Windows, counts and reservations never go below zero, which as uint32 they
\* would do by wrapping; every queue holds frames or bytes.
TypeOK ==
  NetTypes /\ SessionTypes /\ ReceiveTypes /\ WriterTypes /\ WindowTypes /\ FlagTypes

\* Flow control between two ends that run this code never breaks: no Data frame
\* is larger than the receiver announced or than the window it granted, and no
\* WindowAdjust overflows the sender's window, whatever is in flight, being
\* read, or being closed at the time.  (channel.go:213, 246 and 257 are never
\* returned.)
FlowControlHolds ==
  \A e \in Ends : err[e] \in {"nil", "EOF", "invalid channel"}

\* "Since myWindow is managed on our side, and can never exceed the initial
\* window setting, we don't worry about overflow": neither window exceeds the
\* initial setting, so no uint32 in the flow control ever wraps.
WindowsBounded ==
  \A e \in Ends : win[e] =< WindowSize /\ myWindow[e] =< WindowSize

\* Credit is conserved: of the WindowSize bytes the receiver granted at first,
\* each is available to the sender, reserved by a Write, on the wire, waiting
\* to be read, or on its way back.  So no credit leaks and the window reopens
\* fully.  Credit is dropped only when an end is closing or the transport is
\* gone.
CreditConserved ==
  \A e \in Ends :
    LET p == Peer(e) IN
    ~sentClose[p] /\ ~winClosed[e] /\ ~tclosed["A"] /\ ~tclosed["B"] =>
      win[e] + wspace[e] + (sent[e] - Len(got[p]))
        + rn[p] + (acked[p] - regained[e]) = WindowSize

\* The reader gets the bytes the peer sent, in order, with no gap: across
\* frames, partial Reads, the end of the stream and the end of the session.
BytesInOrder ==
  \A e \in Ends : \A i \in 1 .. Len(got[e]) : got[e][i] = i

\* As long as the session lives, io.EOF from Read means that the peer ended its
\* stream and that everything it had sent by then was read.
EOFMeansComplete ==
  \A e \in Ends :
    sawEOF[e] /\ err[e] = "nil" =>
      fin[Peer(e)] # NoFin /\ Len(got[e]) >= fin[Peer(e)]

\* After a Close frame, no EOF, WindowAdjust or second Close follows: whatever
\* goes through channel.send respects Close.
CloseEndsControl ==
  \A e \in Ends : \A i, j \in 1 .. Len(wire[e]) :
    i < j /\ wire[e][i].type = "Close" => wire[e][j].type = "Data"

\* "Close signals end of channel use. No data may be sent after this call."
NoDataAfterClose ==
  \A e \in Ends : \A i, j \in 1 .. Len(wire[e]) :
    i < j /\ wire[e][i].type = "Close" => wire[e][j].type # "Data"

\* "CloseWrite signals the end of sending data."
NoDataAfterEOF ==
  \A e \in Ends : \A i, j \in 1 .. Len(wire[e]) :
    i < j /\ wire[e][i].type = "EOF" => wire[e][j].type # "Data"

\* A Write that has begun returns: a blocked one is released by the reader's
\* WindowAdjust, by Close from either side, or by the end of the session.
WriteReturns ==
  \A e \in Ends : wpc[e] # "idle" ~> wpc[e] = "idle"

\* Close completes: the end that sent it is rid of the channel.
CloseCompletes ==
  \A e \in Ends : sentClose[e] ~> ~inChans[e]

\* An end of stream arrives: the peer's Reads come to io.EOF.
EOFArrives ==
  \A e \in Ends : fin[e] # NoFin ~> sawEOF[Peer(e)]

===============================================================================
