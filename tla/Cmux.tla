-------------------------------- MODULE Cmux ----------------------------------
(***************************************************************************)
(* Two sessions of src/x/cbor/mux over one transport: the multiplexer that *)
(* speaks CBOR frames, with the channels opened over it.                   *)
(*                                                                         *)
(* It has the goroutines of module Session and differs from it where it    *)
(* matters: an id is a counter and not a slot that is used again, the loop *)
(* hands the answer to Open over on a Go channel without a buffer, Write   *)
(* knows no window and does not look at sentClose, and the loop reads the  *)
(* map of channels without its lock.  Reading a channel's data is module   *)
(* Buffer, whose code the package repeats; here the data that reached the  *)
(* buffer is kept in order.                                                *)
(***************************************************************************)
EXTENDS Integers, Sequences, FiniteSets

CONSTANTS
  MaxOpens,     \* bound on the calls of Open at each end
  MaxWrites,    \* bound on the calls of Write on each channel
  IdModulus,    \* channel ids are unsigned integers below it
  Capacity,     \* frames the transport holds; Encode blocks while it is full
  Uses          \* what applications do: how many Opens an end calls at most, and the
                \* ends that open, cancel an Open, accept, write (and CloseWrite),
                \* close a channel, and abort (close the session)

Ends == {"A", "B"}

ASSUME CmuxAssumption ==
  /\ {MaxOpens, MaxWrites} \subseteq Nat
  /\ {Capacity, IdModulus} \subseteq Nat \ {0}
  /\ Uses \subseteq [opens : 0 .. MaxOpens, open : SUBSET Ends, cancel : SUBSET Ends,
                     accept : SUBSET Ends, write : SUBSET Ends, close : SUBSET Ends,
                     abort : SUBSET Ends]

Peer(e) == IF e = "A" THEN "B" ELSE "A"

VARIABLES
  wire,    \* wire[e]: the frames on their way to e
  sess,    \* sess[e]: the session at e
  objs,    \* objs[e]: the channels e ever made, in order; a channel is its place here
  use      \* what the applications of this behaviour do

vars == <<wire, sess, objs, use>>

Nil == 0

\* New.  loop: where the loop is, and cur the channel it is busy with; acc: the
\* goroutine that calls Accept; token: closeCh holds its value.  loop is "crash"
\* when the Go runtime has ended the process.
NewSession ==
  [tclosed |-> FALSE, chans |-> {}, counter |-> 0, loop |-> "decode", cur |-> Nil,
   acc |-> "idle", token |-> FALSE]

\* newChannel, but for its place in the map.  call: the Open or onePacket that
\* made it; closed: frames is closed; sending: what is being sent under writeMu;
\* half: how far CloseWrite is, sentEOF once it is not "no"; recv: the data
\* written to pending, eof: who ended it.  History: peer is the channel that
\* asked for this one, wrote the number of Writes that returned, fin the number of
\* the next one when the first EOF or Close was sent.
Channel(dir, id, rid, call, peer) ==
  [dir |-> dir, id |-> id, rid |-> rid, call |-> call, peer |-> peer, closed |-> FALSE,
   sentClose |-> FALSE, sending |-> "none", half |-> "no", writing |-> FALSE,
   recv |-> <<>>, eof |-> "no", wrote |-> 0, fin |-> Nil]

Init ==
  /\ wire = [e \in Ends |-> <<>>]
  /\ sess = [e \in Ends |-> NewSession]
  /\ objs = [e \in Ends |-> <<>>]
  /\ use \in Uses

-------------------------------------------------------------------------------
(* Frames and the transport *)

\* ChannelID and SenderID; from and n are history, or stand for the data: the
\* n-th Write of channel from.
Frame(type, chan, sender, from, n) ==
  [type |-> type, chan |-> chan, sender |-> sender, from |-> from, n |-> n]

\* Encode at e succeeds, or fails because the transport is closed; w is the
\* transport before it.
EncodeOK(w, e, f) ==
  /\ ~sess[e].tclosed
  /\ Len(w[Peer(e)]) < Capacity
  /\ wire' = [w EXCEPT ![Peer(e)] = Append(@, f)]
EncodeFails(w, e) ==
  /\ sess[e].tclosed \/ sess[Peer(e)].tclosed
  /\ wire' = w

-------------------------------------------------------------------------------
(* Channels and the map of channels *)

Objects(e) == 1 .. Len(objs[e])

Set(e, o, c) == objs' = [objs EXCEPT ![e][o] = c]
SetSess(e, s) == sess' = [sess EXCEPT ![e] = s]

\* A mistake to catch: the id is the first one not in the map.
NextIdReused(e) ==
  CHOOSE i \in 1 .. Cardinality(sess[e].chans) + 1 :
    \A o \in sess[e].chans : objs[e][o].id # i

\* chanCounter after its increment, a uint32.
NextId(e) == (sess[e].counter + 1) % IdModulus

\* The session s of e with channel o, which has the given id, in its map.
Listed(e, s, o, id) ==
  [s EXCEPT !.counter = id, !.chans = {p \in @ : objs[e][p].id # id} \cup {o}]

\* The session without channel o in its map.
Unlisted(s, o) == [s EXCEPT !.chans = @ \ {o}]

\* channel.close; by says who ends pending.
Closed(c, by) ==
  [c EXCEPT !.closed = TRUE, !.sentClose = TRUE, !.eof = IF @ = "no" THEN by ELSE @]

\* A mistake to catch: what arrives after the own Close is thrown away.
ReceivedUnlessClosed(c, f) ==
  IF c.sentClose THEN c ELSE [c EXCEPT !.recv = Append(@, <<f.from, f.n>>)]

\* Data is written to pending.
Received(c, f) == [c EXCEPT !.recv = Append(@, <<f.from, f.n>>)]

\* The channel after an EOF or a Close of it was encoded.
Ended(c) == [c EXCEPT !.fin = IF @ = Nil THEN c.wrote + 1 ELSE @]

-------------------------------------------------------------------------------
(* Open and Accept *)

CanOpen(e) ==
  /\ e \in use.open
  /\ Cardinality({o \in Objects(e) : objs[e][o].dir = "out"}) < use.opens

\* Open: newChannel takes chanMu, which the loop holds while it ends.
Open(e) ==
  /\ CanOpen(e)
  /\ sess[e].loop # "sweep"
  /\ SetSess(e, Listed(e, sess[e], Len(objs[e]) + 1, NextId(e)))
  /\ objs' = [objs EXCEPT ![e] = Append(@, Channel("out", NextId(e), 0, "encode", Nil))]
  /\ UNCHANGED wire

SendOpen(e, o) ==
  LET c == objs[e][o] IN
  /\ c.call = "encode"
  /\ \/ EncodeOK(wire, e, Frame("Open", 0, c.id, o, 0)) /\ Set(e, o, [c EXCEPT !.call = "wait"])
     \/ EncodeFails(wire, e) /\ Set(e, o, [c EXCEPT !.call = "error"])
  /\ UNCHANGED sess

\* Open's select, when the loop has an answer for it: frames has no buffer, and
\* the two meet.
OpenReply(e, o) ==
  LET c == objs[e][o] IN
  /\ c.call = "wait"
  /\ sess[e].loop \in {"OpenConfirm", "OpenFailure"} /\ sess[e].cur = o
  /\ Set(e, o, [c EXCEPT !.call = sess[e].loop])
  /\ SetSess(e, [sess[e] EXCEPT !.loop = "decode", !.cur = Nil])
  /\ UNCHANGED wire

\* Open's select, when frames is closed, and when the context has ended: the
\* channel stays in the map.
OpenClosed(e, o) ==
  /\ objs[e][o].call = "wait" /\ objs[e][o].closed
  /\ Set(e, o, [objs[e][o] EXCEPT !.call = "ErrClosed"])
  /\ UNCHANGED <<wire, sess>>
OpenCancelled(e, o) ==
  /\ e \in use.cancel
  /\ objs[e][o].call = "wait"
  /\ Set(e, o, [objs[e][o] EXCEPT !.call = "cancelled"])
  /\ UNCHANGED <<wire, sess>>

\* Accept waits for the inbox and for closeCh; after io.EOF it is not called
\* again.
Accept(e) ==
  /\ e \in use.accept
  /\ sess[e].acc = "idle"
  /\ SetSess(e, [sess[e] EXCEPT !.acc = "wait"])
  /\ UNCHANGED <<wire, objs>>
AcceptEOF(e) ==
  /\ sess[e].acc = "wait" /\ sess[e].token
  /\ SetSess(e, [sess[e] EXCEPT !.acc = "EOF", !.token = FALSE])
  /\ UNCHANGED <<wire, objs>>

-------------------------------------------------------------------------------
(* The users of a channel *)

\* Open returned it, or Accept did.
Held(c) == c.call \in {"OpenConfirm", "accepted"}

\* Write: sentEOF is looked at once, then the Data is encoded, under no lock.
Write(e, o) ==
  LET c == objs[e][o] IN
  /\ e \in use.write
  /\ Held(c) /\ ~c.writing /\ c.wrote < MaxWrites
  /\ c.half = "no"
  /\ Set(e, o, [c EXCEPT !.writing = TRUE])
  /\ UNCHANGED <<wire, sess>>
SendData(e, o) ==
  LET c == objs[e][o] IN
  /\ c.writing
  /\ EncodeOK(wire, e, Frame("Data", c.rid, 0, o, c.wrote + 1)) \/ EncodeFails(wire, e)
  /\ Set(e, o, [c EXCEPT !.writing = FALSE, !.wrote = @ + 1])
  /\ UNCHANGED sess

\* CloseWrite sets sentEOF; its send then takes writeMu, and gives up if a Close
\* was sent.
CloseWrite(e, o) ==
  /\ e \in use.write
  /\ Held(objs[e][o]) /\ objs[e][o].half = "no"
  /\ Set(e, o, [objs[e][o] EXCEPT !.half = "called"])
  /\ UNCHANGED <<wire, sess>>
LockEOF(e, o) ==
  LET c == objs[e][o] IN
  /\ c.half = "called" /\ c.sending = "none"
  /\ Set(e, o, [c EXCEPT !.half = "done", !.sending = IF c.sentClose THEN @ ELSE "EOF"])
  /\ UNCHANGED <<wire, sess>>

\* Close: sentClose is set and the one Close encoded, under writeMu.  (Once it is
\* set, Close does nothing.)
Close(e, o) ==
  LET c == objs[e][o] IN
  /\ e \in use.close
  /\ Held(c) /\ c.sending = "none" /\ ~c.sentClose
  /\ Set(e, o, [c EXCEPT !.sentClose = TRUE, !.sending = "Close"])
  /\ UNCHANGED <<wire, sess>>

\* The Encode of send, and the release of writeMu.
Send(e, o) ==
  LET c == [objs[e][o] EXCEPT !.sending = "none"] IN
  /\ objs[e][o].sending # "none"
  /\ \/ /\ EncodeOK(wire, e, Frame(objs[e][o].sending, c.rid, 0, o, 0))
        /\ Set(e, o, Ended(c))
     \/ EncodeFails(wire, e) /\ Set(e, o, c)
  /\ UNCHANGED sess

CloseSession(e) ==
  /\ e \in use.abort
  /\ ~sess[e].tclosed
  /\ SetSess(e, [sess[e] EXCEPT !.tclosed = TRUE])
  /\ UNCHANGED <<wire, objs>>

-------------------------------------------------------------------------------
(* The loop *)

\* The loop of e has a frame to handle; the rest of the transport, and the channel
\* the frame is for.
Decoding(e, types) ==
  /\ sess[e].loop = "decode" /\ ~sess[e].tclosed
  /\ wire[e] # <<>>
  /\ Head(wire[e]).type \in types
Rest(e) == [wire EXCEPT ![e] = Tail(@)]
Targets(e) == {o \in sess[e].chans : wire[e] # <<>> /\ objs[e][o].id = Head(wire[e]).chan}

ChannelTypes == {"OpenConfirm", "OpenFailure", "Data", "EOF", "Close"}

\* onePacket for an Open, up to its select.
HandleOpen(e) ==
  LET f == Head(wire[e])
      o == Len(objs[e]) + 1 IN
  /\ Decoding(e, {"Open"})
  /\ wire' = Rest(e)
  /\ objs' = [objs EXCEPT ![e] = Append(@, Channel("in", NextId(e), f.sender, "offered", f.from))]
  /\ SetSess(e, [Listed(e, sess[e], o, NextId(e)) EXCEPT !.loop = "offer", !.cur = o])

\* The channel goes through the inbox to Accept, whose caller runs before the
\* peer is told; or acceptTimeout has passed.
Deliver(e) ==
  LET o == sess[e].cur IN
  /\ sess[e].loop = "offer" /\ sess[e].acc = "wait"
  /\ Set(e, o, [objs[e][o] EXCEPT !.call = "accepted"])
  /\ SetSess(e, [sess[e] EXCEPT !.loop = "confirm", !.acc = "idle"])
  /\ UNCHANGED wire

AcceptTimeout(e) ==
  LET o == sess[e].cur IN
  /\ sess[e].loop = "offer"
  /\ Set(e, o, [objs[e][o] EXCEPT !.call = "abandoned"])
  /\ SetSess(e, [sess[e] EXCEPT !.loop = "fail"])
  /\ UNCHANGED wire

\* A mistake to catch: the timeout is answered like an Accept.
VerdictYes(e, c) == Frame("OpenConfirm", c.rid, c.id, sess[e].cur, 0)

\* The answer to the Open for which c was made.
Verdict(e, c) ==
  IF sess[e].loop = "confirm" THEN Frame("OpenConfirm", c.rid, c.id, sess[e].cur, 0)
  ELSE Frame("OpenFailure", c.rid, 0, sess[e].cur, 0)

\* The answer is encoded, or the loop ends with the error.
Answer(e) ==
  /\ sess[e].loop \in {"confirm", "fail"}
  /\ \/ /\ EncodeOK(wire, e, Verdict(e, objs[e][sess[e].cur]))
        /\ SetSess(e, [sess[e] EXCEPT !.loop = "decode", !.cur = Nil])
     \/ /\ EncodeFails(wire, e)
        /\ SetSess(e, [sess[e] EXCEPT !.loop = "sweep", !.cur = Nil])
  /\ UNCHANGED objs

\* handle for the answers to Open, up to the send on frames, in which the loop
\* stays until Open receives.
HandleAnswer(e, o) ==
  LET f == Head(wire[e])
      s == [sess[e] EXCEPT !.loop = f.type, !.cur = o] IN
  /\ Decoding(e, {"OpenConfirm", "OpenFailure"})
  /\ wire' = Rest(e)
  /\ IF f.type = "OpenConfirm"
     THEN Set(e, o, [objs[e][o] EXCEPT !.rid = f.sender]) /\ SetSess(e, s)
     ELSE SetSess(e, Unlisted(s, o)) /\ UNCHANGED objs

HandleData(e, o) ==
  /\ Decoding(e, {"Data"})
  /\ wire' = Rest(e)
  /\ Set(e, o, Received(objs[e][o], Head(wire[e])))
  /\ UNCHANGED sess

HandleEOF(e, o) ==
  /\ Decoding(e, {"EOF"})
  /\ wire' = Rest(e)
  /\ Set(e, o, [objs[e][o] EXCEPT !.eof = IF @ = "no" THEN "frame" ELSE @])
  /\ UNCHANGED sess

\* A mistake to catch: the loop waits until the user has closed the channel, too.
HandleCloseWaits(e, o) ==
  /\ Decoding(e, {"Close"})
  /\ objs[e][o].sending = "none" /\ objs[e][o].sentClose
  /\ wire' = Rest(e)
  /\ Set(e, o, Closed(objs[e][o], "frame"))
  /\ SetSess(e, Unlisted(sess[e], o))

\* A Close is answered unless one was sent; the channel leaves the map and is
\* closed.
HandleClose(e, o) ==
  LET c == objs[e][o] IN
  /\ Decoding(e, {"Close"})
  /\ c.sending = "none"
  /\ \/ c.sentClose /\ wire' = Rest(e) /\ Set(e, o, Closed(c, "frame"))
     \/ /\ ~c.sentClose
        /\ EncodeOK(Rest(e), e, Frame("Close", c.rid, 0, o, 0))
        /\ Set(e, o, Closed(Ended(c), "frame"))
     \/ ~c.sentClose /\ EncodeFails(Rest(e), e) /\ Set(e, o, Closed(c, "frame"))
  /\ SetSess(e, Unlisted(sess[e], o))

\* onePacket fails: a frame for a channel that is not in the map, or no frame.
UnknownChannel(e) ==
  /\ Decoding(e, ChannelTypes)
  /\ Targets(e) = {}
  /\ wire' = Rest(e)
  /\ SetSess(e, [sess[e] EXCEPT !.loop = "sweep"])
  /\ UNCHANGED objs
DecodeFails(e) ==
  /\ sess[e].loop = "decode"
  /\ sess[e].tclosed \/ sess[Peer(e)].tclosed
  /\ SetSess(e, [sess[e] EXCEPT !.loop = "sweep"])
  /\ UNCHANGED <<wire, objs>>

\* The end of the loop.  Under chanMu it closes the channels in any order, each
\* under its writeMu, and empties the map;
Sweep(e, o) ==
  /\ sess[e].loop = "sweep"
  /\ o \in sess[e].chans /\ objs[e][o].sending = "none"
  /\ Set(e, o, Closed(objs[e][o], "end"))
  /\ SetSess(e, Unlisted(sess[e], o))
  /\ UNCHANGED wire
Swept(e) ==
  /\ sess[e].loop = "sweep" /\ sess[e].chans = {}
  /\ SetSess(e, [sess[e] EXCEPT !.loop = "shut", !.counter = 0])
  /\ UNCHANGED <<wire, objs>>

\* A mistake to catch: Accept is not told.
DownSilent(s) == [s EXCEPT !.loop = "down", !.tclosed = TRUE]

\* then the transport is closed, and Accept and Wait are told.
Down(s) == [s EXCEPT !.loop = "down", !.tclosed = TRUE, !.token = TRUE]
Shut(e) ==
  /\ sess[e].loop = "shut"
  /\ SetSess(e, Down(sess[e]))
  /\ UNCHANGED <<wire, objs>>

\* onePacket looks the channel up without chanMu.  When an Open writes the map
\* at that moment the runtime may notice, and ends the process: "concurrent map
\* read and map write".
MapRace(e) ==
  /\ Decoding(e, ChannelTypes)
  /\ CanOpen(e)
  /\ SetSess(e, [sess[e] EXCEPT !.loop = "crash", !.tclosed = TRUE])
  /\ UNCHANGED <<wire, objs>>

-------------------------------------------------------------------------------

Packet(e) ==
  \/ HandleOpen(e)
  \/ \E o \in Targets(e) : \/ HandleAnswer(e, o) \/ HandleData(e, o)
                           \/ HandleEOF(e, o) \/ HandleClose(e, o)
  \/ UnknownChannel(e) \/ DecodeFails(e)

Offer(e) == Deliver(e) \/ AcceptTimeout(e)

End(e) == (\E o \in sess[e].chans : Sweep(e, o)) \/ Swept(e) \/ Shut(e)

\* A step of a call under way on channel o.
Pending(e, o) ==
  \/ SendOpen(e, o) \/ OpenReply(e, o) \/ OpenClosed(e, o)
  \/ SendData(e, o) \/ LockEOF(e, o) \/ Send(e, o)

Running(e) == sess[e].loop # "crash"

Next ==
  /\ UNCHANGED use
  /\ \E e \in Ends : Running(e) /\
       \/ Open(e) \/ Accept(e) \/ AcceptEOF(e) \/ CloseSession(e)
       \/ \E o \in Objects(e) : \/ OpenCancelled(e, o) \/ Write(e, o) \/ CloseWrite(e, o)
                                \/ Close(e, o) \/ Pending(e, o)
       \/ Packet(e) \/ Offer(e) \/ Answer(e) \/ End(e) \/ MapRace(e)

Spec == Init /\ [][Next]_vars

\* Scheduling: the loop goes on whenever it can, and so does a call under way; the
\* timer fires.  Nobody has to open, write, cancel or close, or to call Accept
\* again, and the runtime need not notice a race.
Fairness ==
  \A e \in Ends :
    /\ WF_vars(UNCHANGED use /\ (Packet(e) \/ Offer(e) \/ Answer(e) \/ End(e)))
    /\ WF_vars(UNCHANGED use /\ Running(e) /\ AcceptEOF(e))
    /\ \A o \in 1 .. 2 * MaxOpens :
         WF_vars(UNCHANGED use /\ o \in Objects(e) /\ Running(e) /\ Pending(e, o))

FairSpec == Spec /\ Fairness

-------------------------------------------------------------------------------
(* Properties *)

Calls == {"encode", "wait", "OpenConfirm", "OpenFailure", "ErrClosed", "error",
          "cancelled", "offered", "accepted", "abandoned"}
Ids == 0 .. IdModulus - 1

\* The types of the state.  The map holds channels of the end, and no channel has
\* the id 0, which stands for a remoteId not known yet, before the counter wraps.
TypeOK ==
  \A e \in Ends :
    /\ \A i \in 1 .. Len(wire[e]) :
         /\ wire[e][i].type \in ChannelTypes \cup {"Open"}
         /\ {wire[e][i].chan, wire[e][i].sender} \subseteq Ids
         /\ wire[e][i].from \in Objects(Peer(e)) /\ wire[e][i].n \in 0 .. MaxWrites
    /\ Len(wire[e]) =< Capacity
    /\ sess[e].chans \subseteq Objects(e) /\ sess[e].counter \in Ids
    /\ sess[e].cur \in Objects(e) \cup {Nil} /\ sess[e].acc \in {"idle", "wait", "EOF"}
    /\ sess[e].loop \in {"decode", "offer", "confirm", "fail", "OpenConfirm", "OpenFailure",
                         "sweep", "shut", "down", "crash"}
    /\ {sess[e].tclosed, sess[e].token} \subseteq BOOLEAN
    /\ \A o \in Objects(e) :
         LET c == objs[e][o] IN
         /\ c.dir \in {"in", "out"} /\ c.call \in Calls /\ {c.id, c.rid} \subseteq Ids
         /\ 2 * MaxOpens < IdModulus => c.id # 0
         /\ {c.closed, c.sentClose, c.writing} \subseteq BOOLEAN
         /\ c.sending \in {"none", "EOF", "Close"} /\ c.half \in {"no", "called", "done"}
         /\ c.eof \in {"no", "frame", "end"}
         /\ c.wrote \in 0 .. MaxWrites /\ c.fin \in 0 .. MaxWrites + 1

\* A channel in the map is not closed, and neither is the one whose answer the loop
\* is sending: handle and the end of the loop never close frames twice and never
\* send on it closed, either of which would panic, in whatever order Closes,
\* refusals and the end of the session meet.
ListedAreOpen ==
  \A e \in Ends :
    /\ \A o \in sess[e].chans : ~objs[e][o].closed
    /\ sess[e].loop \in {"OpenConfirm", "OpenFailure"} => ~objs[e][sess[e].cur].closed

\* o of e and p of its peer are the two ends of one channel.
Paired(e, o, p) ==
  /\ o \in Objects(e) /\ p \in Objects(Peer(e))
  /\ IF objs[e][o].dir = "in"
     THEN objs[e][o].peer = p /\ objs[Peer(e)][p].dir = "out"
     ELSE objs[Peer(e)][p].peer = o /\ objs[Peer(e)][p].dir = "in"

\* When Open has returned a channel, exactly one channel at the peer was made for
\* it, Accept has returned that one, and each end knows the id of the other.
HandshakeAgrees ==
  \A e \in Ends : \A o \in Objects(e) : objs[e][o].call = "OpenConfirm" =>
    LET made == {p \in Objects(Peer(e)) : Paired(e, o, p)} IN
    /\ Cardinality(made) = 1
    /\ \A p \in made : /\ objs[Peer(e)][p].call = "accepted"
                       /\ objs[Peer(e)][p].id = objs[e][o].rid
                       /\ objs[Peer(e)][p].rid = objs[e][o].id

\* What a channel has received is what the channel it is connected to wrote, from
\* the first Write on, once each and in order, although Write goes on after a
\* Close and frames of closed channels arrive late: none is taken for another's.
DataFaithful ==
  \A e \in Ends : \A o \in Objects(e) : \A i \in 1 .. Len(objs[e][o].recv) :
    /\ Paired(e, o, objs[e][o].recv[i][1])
    /\ objs[e][o].recv[i][2] = i

\* When a frame of the peer has ended a channel's stream (and not the end of the
\* session), all the peer wrote before its CloseWrite or Close is there: io.EOF
\* from Read does not stand for a truncated stream.
EOFMeansComplete ==
  \A e \in Ends : \A o \in Objects(e) : objs[e][o].eof = "frame" =>
    \E p \in Objects(Peer(e)) :
      /\ Paired(e, o, p)
      /\ objs[Peer(e)][p].fin # Nil
      /\ Len(objs[e][o].recv) >= objs[Peer(e)][p].fin - 1

\* The loop of e is sending an answer to an Open that was cancelled.
Wedged(e) ==
  /\ sess[e].loop \in {"OpenConfirm", "OpenFailure"}
  /\ objs[e][sess[e].cur].call = "cancelled"

Gone(e) == sess[e].loop \in {"down", "crash"}

\* Every Open returns, unless the loop stands still on the answer to a cancelled
\* Open, at this end or, with the transport full, at the other, or the session has
\* ended.  (There are finitely many calls of Open.)
OpenAnswered ==
  \A e \in Ends :
    []<>(\/ \A o \in Objects(e) : objs[e][o].call \notin {"encode", "wait"}
         \/ Gone(e) \/ Wedged(e) \/ Wedged(Peer(e)))

\* The loop comes to every packet: it waits neither for an Accept nor for a user
\* of a channel, and only an Open that was cancelled makes it stop.
PacketsProcessed ==
  \A e \in Ends :
    []<>(\/ sess[e].loop = "decode" /\ wire[e] = <<>>
         \/ Gone(e) \/ Wedged(e) \/ Wedged(Peer(e)))

\* "It will process packets until an error is encountered": the loop comes to
\* every packet, whatever happens to the calls of Open.
ProcessesPackets ==
  \A e \in Ends : []<>((sess[e].loop = "decode" /\ wire[e] = <<>>) \/ Gone(e))

\* When either side's transport is closed, both loops end unless they stand still
\* on a cancelled Open, and an Accept that waits returns.
SessionsEnd ==
  \A e \in Ends :
    (sess["A"].tclosed \/ sess["B"].tclosed)
      ~> \/ sess[e].loop = "crash" \/ Wedged(e)
         \/ sess[e].loop = "down" /\ sess[e].acc # "wait"

\* The race on the map is never noticed.
NoCrash == \A e \in Ends : Running(e)
===============================================================================
