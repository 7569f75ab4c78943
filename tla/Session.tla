------------------------------- MODULE Session --------------------------------
(***************************************************************************)
(* Two sessions of src/mux/session.go over one transport: the open         *)
(* handshake, the list of channels (util_chanlist.go) with the reuse of    *)
(* its slots, Close, and the end of a session.                             *)
(*                                                                         *)
(* At each end run the loop, which handles one packet after another and is *)
(* also the one to hand a new channel to Accept and to answer the peer;    *)
(* one goroutine per call of Open; one that calls Accept again and again;  *)
(* the users of the channels; and the owner of the session.  One action is *)
(* one step of one of them between two points where it may block or be     *)
(* overtaken: a goroutine blocked in Encode is one whose step waits for    *)
(* room on the transport.  What happens inside one open channel is module  *)
(* Channel; here it is left out but for Writes, by both ends and at any    *)
(* time, which may be overtaken by the Close of their own end.             *)
(***************************************************************************)
EXTENDS Integers, Sequences, FiniteSets

CONSTANTS
  MaxOpens,     \* bound on the calls of Open at each end
  Capacity,     \* frames the transport holds; Encode blocks while it is full
  Openers,      \* ends whose application calls Open,
  Cancels,      \* cancels the context of an Open,
  AcceptEnds,   \* calls Accept,
  Writers,      \* calls Write,
  AbortEnds,    \* calls Session.Close
  CloseFrom     \* when an acceptor may Close its channel: once it has read what
                \* its opener sent, "read", or at once, "accepted"

Ends == {"A", "B"}

ASSUME SessionAssumption ==
  /\ MaxOpens \in Nat
  /\ Capacity \in Nat \ {0}
  /\ Openers \subseteq Ends /\ Cancels \subseteq Ends /\ AcceptEnds \subseteq Ends
  /\ Writers \subseteq Ends /\ AbortEnds \subseteq Ends
  /\ CloseFrom \in {"read", "accepted"}

Peer(e) == IF e = "A" THEN "B" ELSE "A"

VARIABLES
  wire,      \* wire[e]: the frames on their way to e
  tclosed,   \* e closed its side of the transport
  chans,     \* chanList.chans: the channel in each slot, 0 for nil
  objs,      \* the channels e ever created, in order; a channel is its place here
  loop,      \* where session.loop is
  offer,     \* the channel handleOpen is offering to Accept
  drop,      \* the channels dropAll returned that are still to be closed, which
             \* happens in the order of their ids
  err,       \* why loop is ending; Wait returns it once loop is "down"
  acc,       \* the goroutine that Accepts
  token      \* closeCh holds its value

vars == <<wire, tclosed, chans, objs, loop, offer, drop, err, acc, token>>

Nil == 0

Init ==
  /\ wire = [e \in Ends |-> <<>>]
  /\ tclosed = [e \in Ends |-> FALSE]
  /\ chans = [e \in Ends |-> <<>>]
  /\ objs = [e \in Ends |-> <<>>]
  /\ loop = [e \in Ends |-> "decode"]
  /\ offer = [e \in Ends |-> Nil]
  /\ drop = [e \in Ends |-> {}]
  /\ err = [e \in Ends |-> "nil"]
  /\ acc = [e \in Ends |-> "idle"]
  /\ token = [e \in Ends |-> FALSE]

-------------------------------------------------------------------------------
(* Frames and the transport *)

\* chan: the receiver's id, sender: the SenderID of Open and OpenConfirm; history:
\* from is the channel that sent the frame, late that its end was closed before.
Frame(type, chan, sender, from) ==
  [type |-> type, chan |-> chan, sender |-> sender, from |-> from, late |-> FALSE]
DataFrame(chan, from, late) == [Frame("Data", chan, 0, from) EXCEPT !.late = late]

\* Encode at e succeeds, or fails because the transport is closed; w is the
\* transport before it.
EncodeOK(w, e, f) ==
  /\ ~tclosed[e]
  /\ Len(w[Peer(e)]) < Capacity
  /\ wire' = [w EXCEPT ![Peer(e)] = Append(@, f)]
EncodeFails(w, e) ==
  /\ tclosed[e] \/ tclosed[Peer(e)]
  /\ wire' = w

-------------------------------------------------------------------------------
(* Channels and the list of channels *)

\* newChannel, but for its place in the list.  call is the state of the Open or
\* of the handleOpen that made the channel, sending that a Close holds writeMu,
\* writing that Writes have reserved space and are yet to encode; history: peer is
\* the channel that asked for this one, heard that Data of that one has arrived.
Channel(dir, id, rid, call, peer) ==
  [dir |-> dir, id |-> id, rid |-> rid, call |-> call, peer |-> peer,
   msg |-> <<>>, closed |-> FALSE, sentClose |-> FALSE, sending |-> FALSE,
   writing |-> FALSE, heard |-> FALSE]

\* chanList.add: the id it returns, which is that of the first free slot or of a
\* new one at the end, and the list it leaves.
FreeId(list) ==
  {id \in 0 .. Len(list) : /\ id < Len(list) => list[id + 1] = Nil
                           /\ \A i \in 1 .. id : list[i] # Nil}
AddChan(list, id, o) ==
  [i \in 1 .. (IF id < Len(list) THEN Len(list) ELSE id + 1) |->
     IF i = id + 1 THEN o ELSE list[i]]

\* chanList.getChan and chanList.remove, of an id on the wire.
GetChan(list, id) == IF id < Len(list) THEN list[id + 1] ELSE Nil
RemoveChan(list, id) == IF id < Len(list) THEN [list EXCEPT ![id + 1] = Nil] ELSE list

\* The state of channel.close: msg is closed, and nothing is sent any more.
Closed(c) == [c EXCEPT !.closed = TRUE, !.sentClose = TRUE]

New(e, c) ==
  /\ chans' = [chans EXCEPT ![e] = AddChan(@, c.id, Len(objs[e]) + 1)]
  /\ objs' = [objs EXCEPT ![e] = Append(@, c)]

Set(e, o, c) == objs' = [objs EXCEPT ![e][o] = c]

-------------------------------------------------------------------------------
(* Open and Accept *)

\* Open: the channel is listed before the peer hears of it, whatever state the
\* session is in.
Open(e) ==
  /\ Cardinality({o \in 1 .. Len(objs[e]) : objs[e][o].dir = "out"}) < MaxOpens
  /\ \E id \in FreeId(chans[e]) : New(e, Channel("out", id, 0, "encode", Nil))
  /\ UNCHANGED <<wire, tclosed, loop, offer, drop, err, acc, token>>

SendOpen(e, o) ==
  LET c == objs[e][o] IN
  /\ c.call = "encode"
  /\ \/ EncodeOK(wire, e, Frame("Open", 0, c.id, o)) /\ Set(e, o, [c EXCEPT !.call = "wait"])
     \/ EncodeFails(wire, e) /\ Set(e, o, [c EXCEPT !.call = "error"])
  /\ UNCHANGED <<tclosed, chans, loop, offer, drop, err, acc, token>>

\* Open's select: a message, a closed msg, or the end of the context.
OpenReply(e, o) ==
  LET c == objs[e][o] IN
  /\ c.call = "wait"
  /\ c.msg # <<>> \/ c.closed
  /\ Set(e, o, IF c.msg # <<>>
               THEN [c EXCEPT !.call = Head(c.msg), !.msg = Tail(@)]
               ELSE [c EXCEPT !.call = "ErrClosed"])
  /\ UNCHANGED <<wire, tclosed, chans, loop, offer, drop, err, acc, token>>

OpenCancelled(e, o) ==
  /\ objs[e][o].call = "wait"
  /\ Set(e, o, [objs[e][o] EXCEPT !.call = "cancelled"])
  /\ UNCHANGED <<wire, tclosed, chans, loop, offer, drop, err, acc, token>>

\* Accept waits for the inbox and for closeCh; after io.EOF it is not called
\* again.
Accept(e) ==
  /\ acc[e] = "idle"
  /\ acc' = [acc EXCEPT ![e] = "wait"]
  /\ UNCHANGED <<wire, tclosed, chans, objs, loop, offer, drop, err, token>>

AcceptEOF(e) ==
  /\ acc[e] = "wait" /\ token[e]
  /\ acc' = [acc EXCEPT ![e] = "EOF"]
  /\ token' = [token EXCEPT ![e] = FALSE]
  /\ UNCHANGED <<wire, tclosed, chans, objs, loop, offer, drop, err>>

-------------------------------------------------------------------------------
(* The users of a channel *)

\* Open returned it, or Accept did.
Held(c) == c.call \in {"OpenConfirm", "accepted"}

\* What its user may Close, and an acceptor when CloseFrom says so.
MayClose(e, o) ==
  LET c == objs[e][o] IN
  /\ Held(c)
  /\ c.dir = "in" => c.heard \/ CloseFrom = "accepted"

\* A mistake to catch: the slot is freed without waiting for the peer's Close.
CloseFreesSlot(e, o) ==
  LET c == objs[e][o] IN
  /\ MayClose(e, o)
  /\ ~c.sentClose
  /\ Set(e, o, [c EXCEPT !.sentClose = TRUE, !.sending = TRUE])
  /\ chans' = [chans EXCEPT ![e] = RemoveChan(@, c.id)]
  /\ UNCHANGED <<wire, tclosed, loop, offer, drop, err, acc, token>>

\* channel.Close: sentClose is set, then the one Close is encoded, under writeMu.
Close(e, o) ==
  LET c == objs[e][o] IN
  /\ MayClose(e, o)
  /\ ~c.sentClose
  /\ Set(e, o, [c EXCEPT !.sentClose = TRUE, !.sending = TRUE])
  /\ UNCHANGED <<wire, tclosed, chans, loop, offer, drop, err, acc, token>>

SendClose(e, o) ==
  LET c == objs[e][o] IN
  /\ c.sending
  /\ EncodeOK(wire, e, Frame("Close", c.rid, 0, o)) \/ EncodeFails(wire, e)
  /\ Set(e, o, [c EXCEPT !.sending = FALSE])
  /\ UNCHANGED <<tclosed, chans, loop, offer, drop, err, acc, token>>

\* channel.Write: space is reserved, unless close has closed the window, and then
\* the Data is encoded; neither looks at sentClose.  Several Writes may be under
\* way: when one has sent its Data, others may still have to.
Write(e, o) ==
  LET c == objs[e][o] IN
  /\ Held(c) /\ ~c.closed
  /\ Set(e, o, [c EXCEPT !.writing = TRUE])
  /\ UNCHANGED <<wire, tclosed, chans, loop, offer, drop, err, acc, token>>

SendData(e, o) ==
  LET c == objs[e][o] IN
  /\ c.writing
  /\ \/ EncodeOK(wire, e, DataFrame(c.rid, o, c.sentClose /\ ~c.sending))
     \/ EncodeFails(wire, e)
  /\ \E more \in BOOLEAN : Set(e, o, [c EXCEPT !.writing = more])
  /\ UNCHANGED <<tclosed, chans, loop, offer, drop, err, acc, token>>

CloseSession(e) ==
  /\ ~tclosed[e]
  /\ tclosed' = [tclosed EXCEPT ![e] = TRUE]
  /\ UNCHANGED <<wire, chans, objs, loop, offer, drop, err, acc, token>>

-------------------------------------------------------------------------------
(* The loop *)

Decoding(e, type) ==
  /\ loop[e] = "decode" /\ ~tclosed[e]
  /\ wire[e] # <<>>
  /\ Head(wire[e]).type = type

\* The transport without the frame the loop of e is handling, and the channel
\* the frame is for.
Rest(e) == [wire EXCEPT ![e] = Tail(@)]
Target(e) == GetChan(chans[e], Head(wire[e]).chan)

\* A mistake to catch: dropAll returns the channels and keeps them.
DropKeepsList(e, why) ==
  /\ drop' = [drop EXCEPT ![e] = {chans[e][i] : i \in 1 .. Len(chans[e])} \ {Nil}]
  /\ loop' = [loop EXCEPT ![e] = "drop"]
  /\ err' = [err EXCEPT ![e] = why]
  /\ UNCHANGED chans

\* The loop ends: dropAll forgets every channel.
Drop(e, why) ==
  /\ drop' = [drop EXCEPT ![e] = {chans[e][i] : i \in 1 .. Len(chans[e])} \ {Nil}]
  /\ chans' = [chans EXCEPT ![e] = <<>>]
  /\ loop' = [loop EXCEPT ![e] = "drop"]
  /\ err' = [err EXCEPT ![e] = why]

\* handleOpen up to its select.  (The MaxPacketSize both ends announce is always
\* within the limits handleOpen and handle check.)
HandleOpen(e) ==
  LET f == Head(wire[e]) IN
  /\ Decoding(e, "Open")
  /\ wire' = Rest(e)
  /\ \E id \in FreeId(chans[e]) : New(e, Channel("in", id, f.sender, "offered", f.from))
  /\ offer' = [offer EXCEPT ![e] = Len(objs[e]) + 1]
  /\ loop' = [loop EXCEPT ![e] = "offer"]
  /\ UNCHANGED <<tclosed, drop, err, acc, token>>

\* The channel goes through the inbox, and Accept returns it: its user runs
\* before the peer is told.
Deliver(e) ==
  /\ loop[e] = "offer" /\ acc[e] = "wait"
  /\ Set(e, offer[e], [objs[e][offer[e]] EXCEPT !.call = "accepted"])
  /\ acc' = [acc EXCEPT ![e] = "idle"]
  /\ loop' = [loop EXCEPT ![e] = "confirm"]
  /\ UNCHANGED <<wire, tclosed, chans, offer, drop, err, token>>

\* Mistakes to catch: no timer; the timeout is answered like an acceptance.
OpenTimeoutNever(e) ==
  /\ loop[e] = "offer" /\ acc[e] = "EOF"
  /\ UNCHANGED vars
OpenTimeoutConfirms(e) ==
  /\ loop[e] = "offer"
  /\ Set(e, offer[e], [objs[e][offer[e]] EXCEPT !.call = "abandoned"])
  /\ loop' = [loop EXCEPT ![e] = "confirm"]
  /\ UNCHANGED <<wire, tclosed, chans, offer, drop, err, acc, token>>

\* openTimeout has passed.
OpenTimeout(e) ==
  /\ loop[e] = "offer"
  /\ Set(e, offer[e], [objs[e][offer[e]] EXCEPT !.call = "abandoned"])
  /\ loop' = [loop EXCEPT ![e] = "fail"]
  /\ UNCHANGED <<wire, tclosed, chans, offer, drop, err, acc, token>>

\* The end of handleOpen: the answer is encoded, or loop ends with the error.
Answer(e) ==
  LET c == objs[e][offer[e]]
      type == IF loop[e] = "confirm" THEN "OpenConfirm" ELSE "OpenFailure" IN
  /\ loop[e] \in {"confirm", "fail"}
  /\ offer' = [offer EXCEPT ![e] = Nil]
  /\ \/ /\ EncodeOK(wire, e, Frame(type, c.rid, c.id, offer[e]))
        /\ loop' = [loop EXCEPT ![e] = "decode"]
        /\ UNCHANGED <<chans, drop, err>>
     \/ EncodeFails(wire, e) /\ Drop(e, "EOF")
  /\ UNCHANGED <<tclosed, objs, acc, token>>

\* handle, for the answers to Open: remoteId is learnt, or the slot is given up.
\* They are errors on a channel the peer opened.
HandleAnswer(e) ==
  LET f == Head(wire[e])
      o == Target(e)
      c == objs[e][o] IN
  /\ Decoding(e, "OpenConfirm") \/ Decoding(e, "OpenFailure")
  /\ o # Nil
  /\ wire' = Rest(e)
  /\ IF c.dir = "in"
     THEN Drop(e, "inboundResponse") /\ UNCHANGED objs
     ELSE /\ Set(e, o, [c EXCEPT !.msg = Append(@, f.type),
                                 !.rid = IF f.type = "OpenConfirm" THEN f.sender ELSE @])
          /\ chans' = IF f.type = "OpenConfirm" THEN chans
                      ELSE [chans EXCEPT ![e] = RemoveChan(@, f.chan)]
          /\ UNCHANGED <<loop, drop, err>>
  /\ UNCHANGED <<tclosed, offer, acc, token>>

HandleData(e) ==
  LET o == Target(e)
      c == objs[e][o] IN
  /\ Decoding(e, "Data")
  /\ o # Nil
  /\ wire' = Rest(e)
  /\ Set(e, o, [c EXCEPT !.heard = @ \/ Head(wire[e]).from = c.peer])
  /\ UNCHANGED <<tclosed, chans, loop, offer, drop, err, acc, token>>

\* Mistakes to catch: no answer is sent; loop waits until the user of the channel
\* has closed it, too.
HandleCloseUnanswered(e) ==
  LET o == Target(e)
      c == objs[e][o] IN
  /\ Decoding(e, "Close")
  /\ o # Nil /\ ~c.sending
  /\ wire' = Rest(e)
  /\ chans' = [chans EXCEPT ![e] = RemoveChan(@, c.id)]
  /\ Set(e, o, Closed(c))
  /\ UNCHANGED <<tclosed, loop, offer, drop, err, acc, token>>

HandleCloseWaits(e) ==
  LET o == Target(e) IN
  /\ Decoding(e, "Close")
  /\ o # Nil /\ ~objs[e][o].sending /\ objs[e][o].sentClose
  /\ wire' = Rest(e)
  /\ chans' = [chans EXCEPT ![e] = RemoveChan(@, objs[e][o].id)]
  /\ Set(e, o, Closed(objs[e][o]))
  /\ UNCHANGED <<tclosed, loop, offer, drop, err, acc, token>>

\* A Close is answered unless one was sent, to whatever remoteId is by now; the
\* slot is free at once.
HandleClose(e) ==
  LET o == Target(e)
      c == objs[e][o] IN
  /\ Decoding(e, "Close")
  /\ o # Nil
  /\ ~c.sending
  /\ IF c.sentClose THEN wire' = Rest(e)
     ELSE \/ EncodeOK(Rest(e), e, Frame("Close", c.rid, 0, o))
          \/ EncodeFails(Rest(e), e)
  /\ chans' = [chans EXCEPT ![e] = RemoveChan(@, c.id)]
  /\ Set(e, o, Closed(c))
  /\ UNCHANGED <<tclosed, loop, offer, drop, err, acc, token>>

\* onePacket fails: a frame for a slot that is empty, or no frame at all.
InvalidChannel(e) ==
  /\ \E type \in {"OpenConfirm", "OpenFailure", "Data", "Close"} : Decoding(e, type)
  /\ Target(e) = Nil
  /\ wire' = Rest(e)
  /\ Drop(e, "invalidChannel")
  /\ UNCHANGED <<tclosed, objs, offer, acc, token>>

DecodeFails(e) ==
  /\ loop[e] = "decode"
  /\ tclosed[e] \/ tclosed[Peer(e)]
  /\ Drop(e, "EOF")
  /\ UNCHANGED <<wire, tclosed, objs, offer, acc, token>>

\* channel.close on what dropAll returned, one after the other; it takes writeMu.
CloseDropped(e) ==
  /\ \E o \in drop[e] :
       /\ \A p \in drop[e] : objs[e][o].id =< objs[e][p].id
       /\ ~objs[e][o].sending
       /\ Set(e, o, Closed(objs[e][o]))
       /\ drop' = [drop EXCEPT ![e] = @ \ {o}]
  /\ UNCHANGED <<wire, tclosed, chans, loop, offer, err, acc, token>>

\* A mistake to catch: Accept is not told.
ShutSilent(e) ==
  /\ loop[e] = "drop" /\ drop[e] = {}
  /\ tclosed' = [tclosed EXCEPT ![e] = TRUE]
  /\ loop' = [loop EXCEPT ![e] = "down"]
  /\ UNCHANGED <<wire, chans, objs, offer, drop, err, acc, token>>

\* The rest of loop: the transport is closed, Accept and Wait are told.
Shut(e) ==
  /\ loop[e] = "drop" /\ drop[e] = {}
  /\ tclosed' = [tclosed EXCEPT ![e] = TRUE]
  /\ token' = [token EXCEPT ![e] = TRUE]
  /\ loop' = [loop EXCEPT ![e] = "down"]
  /\ UNCHANGED <<wire, chans, objs, offer, drop, err, acc>>

-------------------------------------------------------------------------------

Packet(e) ==
  HandleOpen(e) \/ HandleAnswer(e) \/ HandleData(e) \/ HandleClose(e)
  \/ InvalidChannel(e) \/ DecodeFails(e)

Objects(e) == 1 .. Len(objs[e])

User(e, o) == Close(e, o) \/ SendClose(e, o) \/ SendData(e, o)

Next ==
  \/ \E e \in Openers : Open(e)
  \/ \E e \in Cancels : \E o \in Objects(e) : OpenCancelled(e, o)
  \/ \E e \in AcceptEnds : Accept(e) \/ AcceptEOF(e)
  \/ \E e \in Writers : \E o \in Objects(e) : Write(e, o)
  \/ \E e \in AbortEnds : CloseSession(e)
  \/ \E e \in Ends : \E o \in Objects(e) : SendOpen(e, o) \/ OpenReply(e, o) \/ User(e, o)
  \/ \E e \in Ends : \/ Packet(e) \/ Deliver(e) \/ OpenTimeout(e) \/ Answer(e)
                     \/ CloseDropped(e) \/ Shut(e)

Spec == Init /\ [][Next]_vars

\* Scheduling: the loop goes on whenever it can, and so does a call of Open,
\* Close or Accept under way; the timer of handleOpen fires.  Who has to encode gets
\* the encoder's mutex in the end, however many Writes want it, too.  Nobody has to
\* open, write, cancel or close, or to call Accept again.
Fairness ==
  \A e \in Ends :
    /\ SF_vars(Packet(e))
    /\ WF_vars(Deliver(e) \/ OpenTimeout(e))
    /\ SF_vars(Answer(e))
    /\ WF_vars(CloseDropped(e) \/ Shut(e))
    /\ WF_vars(e \in AcceptEnds /\ AcceptEOF(e))
    /\ \A o \in 1 .. 2 * MaxOpens : WF_vars(o \in Objects(e) /\ OpenReply(e, o))
    /\ \A o \in 1 .. 2 * MaxOpens :
         SF_vars(o \in Objects(e) /\ (SendOpen(e, o) \/ SendClose(e, o)))

FairSpec == Spec /\ Fairness

-------------------------------------------------------------------------------
(* Properties *)

Calls == {"encode", "wait", "OpenConfirm", "OpenFailure", "ErrClosed", "error",
          "cancelled", "offered", "accepted", "abandoned"}

\* The types of the state: frames carry ids of slots, lists hold channels the end
\* created, and at most one Accept and one offer are under way at an end.
TypeOK ==
  \A e \in Ends :
    /\ \A i \in 1 .. Len(wire[e]) :
         /\ wire[e][i].type \in {"Open", "OpenConfirm", "OpenFailure", "Data", "Close"}
         /\ {wire[e][i].chan, wire[e][i].sender} \subseteq 0 .. 2 * MaxOpens - 1
         /\ wire[e][i].from \in Objects(Peer(e))
    /\ Len(wire[e]) =< Capacity
    /\ chans[e] \in Seq(Objects(e) \cup {Nil}) /\ drop[e] \subseteq Objects(e)
    /\ \A o \in Objects(e) :
         /\ objs[e][o].dir \in {"in", "out"} /\ objs[e][o].call \in Calls
         /\ {objs[e][o].id, objs[e][o].rid} \subseteq 0 .. 2 * MaxOpens - 1
         /\ objs[e][o].msg \in Seq({"OpenConfirm", "OpenFailure"})
         /\ {objs[e][o].closed, objs[e][o].sentClose, objs[e][o].sending,
             objs[e][o].writing, objs[e][o].heard} \subseteq BOOLEAN
    /\ loop[e] \in {"decode", "offer", "confirm", "fail", "drop", "down"}
    /\ offer[e] \in Objects(e) \cup {Nil} /\ acc[e] \in {"idle", "wait", "EOF"}
    /\ {tclosed[e], token[e]} \subseteq BOOLEAN

Places(s, o) == {i \in 1 .. Len(s) : s[i] = o}

\* A channel the list or dropAll's result still names is named once and is not
\* closed: loop never closes the msg of a channel twice and never sends on a
\* closed one, either of which would panic, in whatever order Close frames,
\* reused slots and the end of the session meet.
ListedAreOpen ==
  \A e \in Ends : \A o \in Objects(e) :
    /\ \A i, j \in Places(chans[e], o) : i = j
    /\ o \in drop[e] => Places(chans[e], o) = {}
    /\ Places(chans[e], o) # {} \/ o \in drop[e] => ~objs[e][o].closed

\* o of e and p of its peer are the two ends of one channel.
Paired(e, o, p) ==
  /\ o \in Objects(e) /\ p \in Objects(Peer(e))
  /\ IF objs[e][o].dir = "in"
     THEN objs[e][o].peer = p /\ objs[Peer(e)][p].dir = "out"
     ELSE objs[Peer(e)][p].peer = o /\ objs[Peer(e)][p].dir = "in"

\* Every frame on its way to a loop that still runs names the slot of the channel
\* that its sender is connected to, unless it is Data that the Close of its own end
\* has overtaken: Close frees and reuses slots under everything else that is sent.
FramesReachPeers ==
  \A e \in Ends : loop[e] \notin {"drop", "down"} =>
    \A i \in 1 .. Len(wire[e]) :
      wire[e][i].type # "Open" /\ ~wire[e][i].late =>
        Paired(e, GetChan(chans[e], wire[e][i].chan), wire[e][i].from)

\* Data never reaches a channel other than the one it was written for.
NoDataAstray ==
  \A e \in Ends : loop[e] \notin {"drop", "down"} =>
    \A i \in 1 .. Len(wire[e]) : wire[e][i].type = "Data" =>
      LET o == GetChan(chans[e], wire[e][i].chan) IN
      o = Nil \/ Paired(e, o, wire[e][i].from)

\* When Open has returned a channel, exactly one channel at the peer was made for
\* it, Accept has returned that one, and each end knows the id of the other.
HandshakeAgrees ==
  \A e \in Ends : \A o \in Objects(e) : objs[e][o].call = "OpenConfirm" =>
    \E p \in Objects(Peer(e)) :
      /\ \A q \in Objects(Peer(e)) : Paired(e, o, q) <=> q = p
      /\ objs[Peer(e)][p].call = "accepted"
      /\ objs[Peer(e)][p].id = objs[e][o].rid
      /\ objs[Peer(e)][p].rid = objs[e][o].id

Opening(e, o) == o \in Objects(e) /\ objs[e][o].call \in {"encode", "wait"}

\* Every Open returns, with a channel, a refusal or an error, as long as the loop of
\* its session runs.
OpenAnswered ==
  \A e \in Ends : \A o \in 1 .. 2 * MaxOpens :
    Opening(e, o) ~> ~Opening(e, o) \/ loop[e] = "down"

\* The same also when the session ends: "channel was closed before open got a
\* response, typically meaning the session/conn was closed."
OpenReturns ==
  \A e \in Ends : \A o \in 1 .. 2 * MaxOpens : Opening(e, o) ~> ~Opening(e, o)

\* Once Close was called on a channel, its slot is free again some day: the peer
\* answers, or the session ends.
CloseFrees ==
  \A e \in Ends : \A o \in 1 .. 2 * MaxOpens :
    o \in Objects(e) /\ objs[e][o].sentClose ~> Places(chans[e], o) = {}

\* When a side closes its transport both sessions end, whatever their loops were
\* waiting for, and no Accept stays blocked.
SessionsEnd ==
  (\E e \in Ends : tclosed[e]) ~> \A e \in Ends : loop[e] = "down" /\ acc[e] # "wait"

\* Packets are processed, unless the session ends: loop never waits for ever with
\* packets to read.
PacketsProcessed ==
  \A e \in Ends : \/ []<>(wire[e] = <<>> \/ loop[e] = "down")
                  \/ []<><<Packet(e)>>_vars

===============================================================================
