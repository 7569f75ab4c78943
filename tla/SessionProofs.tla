----------------------------- MODULE SessionProofs ----------------------------
(***************************************************************************)
(* The list of channels, for any number of calls of Open, any capacity of  *)
(* the transport and whatever the applications do: loop never closes a     *)
(* channel twice and never sends on a closed one.  Then the open handshake *)
(* and the reuse of slots: when an accepted channel is closed only after   *)
(* it has been read from, every frame but Data that is sent after the      *)
(* Close of its own end reaches the channel that its sender is connected   *)
(* to, and the two ends of a channel that Open returned agree.             *)
(***************************************************************************)
EXTENDS Session, TLAPS

\* Leaves that name no prover go to Zenon.
USE ZenonT(30)

Packets ==
  {f \in [type : {"Open", "OpenConfirm", "OpenFailure", "Data", "Close"},
          chan : Nat, sender : Nat, from : Nat, late : BOOLEAN] :
     f.late => f.type = "Data"}
Channels == [dir : {"in", "out"}, id : Nat, rid : Nat, call : Calls, peer : Nat,
             msg : Seq({"OpenConfirm", "OpenFailure"}), closed : BOOLEAN,
             sentClose : BOOLEAN, sending : BOOLEAN,
             writing : BOOLEAN, heard : BOOLEAN]

Types ==
  /\ wire \in [Ends -> Seq(Packets)]
  /\ chans \in [Ends -> Seq(Nat)]
  /\ objs \in [Ends -> Seq(Channels)]
  /\ loop \in [Ends -> {"decode", "offer", "confirm", "fail", "drop", "down"}]
  /\ offer \in [Ends -> Nat]
  /\ drop \in [Ends -> SUBSET Nat]

\* In a list of the channels cs the channel in a slot has the id of the slot and is
\* not closed; nor is one that is yet to be closed, and it has left the list.
SlotsOK(list, cs, rest) ==
  /\ \A i \in 1 .. Len(list) : list[i] # Nil =>
       list[i] \in 1 .. Len(cs) /\ cs[list[i]].id = i - 1 /\ ~cs[list[i]].closed
  /\ \A o \in rest : /\ o \in 1 .. Len(cs) /\ ~cs[o].closed
                     /\ \A i \in 1 .. Len(list) : list[i] # o

Offering == {"offer", "confirm", "fail"}

ListInv ==
  /\ Types
  /\ \A e \in Ends : /\ SlotsOK(chans[e], objs[e], drop[e])
                     /\ loop[e] \in Offering => offer[e] \in Objects(e)

-------------------------------------------------------------------------------
(* chanList *)

\* chanList.add puts the channel in a slot that is free, or behind the last, and
\* moves no other.
Adds(list, new, at, o) ==
  /\ new \in Seq(Nat) /\ Len(new) >= Len(list) /\ at \in 1 .. Len(new) /\ new[at] = o
  /\ \A i \in 1 .. Len(new) : i # at => i \in 1 .. Len(list) /\ new[i] = list[i]
  /\ \A i \in 1 .. Len(list) : list[i] # Nil => new[i] = list[i]

LEMMA AddChanFacts ==
  ASSUME NEW list \in Seq(Nat), NEW o \in Nat, NEW id \in FreeId(list)
  PROVE  id \in Nat /\ Adds(list, AddChan(list, id, o), id + 1, o)
<1> DEFINE at == id + 1
           top == IF id < Len(list) THEN Len(list) ELSE id + 1
           new == [i \in 1 .. top |-> IF i = at THEN o ELSE list[i]]
<1>1. /\ Len(list) \in Nat /\ id \in Nat /\ at \in 1 .. Len(list) + 1
      /\ at =< Len(list) => list[at] = Nil
      /\ \A i \in 1 .. Len(list) : list[i] \in Nat
  BY SMTT(30) DEF FreeId
<1>2. AddChan(list, id, o) = new
  BY DEF AddChan
<1>3. /\ top \in Nat /\ top >= Len(list) /\ at \in 1 .. top
      /\ \A i \in 1 .. top : i # at => i \in 1 .. Len(list)
      /\ \A i \in 1 .. Len(list) : i \in 1 .. top
  BY <1>1, SMTT(30)
<1> HIDE DEF at, top
<1>4. \A i \in 1 .. top : (IF i = at THEN o ELSE list[i]) \in Nat
  BY <1>1, <1>3
<1>5. new \in Seq(Nat) /\ Len(new) = top
  BY <1>3, <1>4, SMTT(30)
<1>6. \A i \in 1 .. top : new[i] = IF i = at THEN o ELSE list[i]
  OBVIOUS
<1> HIDE DEF new
<1>7. \A i \in 1 .. Len(list) : list[i] # Nil => new[i] = list[i]
  BY <1>1, <1>3, <1>6, SMTT(30)
<1>8. \A i \in 1 .. Len(new) : i # at => i \in 1 .. Len(list) /\ new[i] = list[i]
  BY <1>3, <1>5, <1>6
<1>9. new[at] = o /\ at \in 1 .. Len(new) /\ Len(new) >= Len(list)
  BY <1>3, <1>5, <1>6
<1>10. Adds(list, new, at, o)
  BY <1>5, <1>7, <1>8, <1>9 DEF Adds
<1> QED BY <1>1, <1>2, <1>10 DEF at

LEMMA RemoveChanFacts ==
  ASSUME NEW list \in Seq(Nat), NEW id \in Nat
  PROVE  LET new == RemoveChan(list, id) IN
         /\ new \in Seq(Nat) /\ Len(new) = Len(list)
         /\ \A i \in 1 .. Len(list) : new[i] = IF i = id + 1 THEN Nil ELSE list[i]
<1>1. Nil \in Nat
  BY DEF Nil
<1>2. CASE id < Len(list)
  BY <1>1, <1>2, SMTT(30) DEF RemoveChan
<1>3. CASE ~(id < Len(list))
  <2>1. RemoveChan(list, id) = list /\ \A i \in 1 .. Len(list) : i # id + 1
    BY <1>3, SMTT(30) DEF RemoveChan
  <2> QED BY <2>1
<1> QED BY <1>2, <1>3

\* chanList.getChan finds nothing or the channel with that id.
LEMMA GetChanFacts ==
  ASSUME NEW list \in Seq(Nat), NEW id \in Nat
  PROVE  /\ GetChan(list, id) \in Nat
         /\ GetChan(list, id) # Nil =>
              id + 1 \in 1 .. Len(list) /\ list[id + 1] = GetChan(list, id)
         /\ \A i \in 1 .. Len(list) : i = id + 1 => GetChan(list, id) = list[i]
BY SMTT(30) DEF GetChan, Nil

-------------------------------------------------------------------------------
(* Channels *)

\* What the updates of a channel leave alone.
SameSlot(c, d) == d \in Channels /\ d.id = c.id /\ d.closed = c.closed

LEMMA ChannelFacts ==
  ASSUME NEW c \in Channels
  PROVE  /\ \A k \in Calls : SameSlot(c, [c EXCEPT !.call = k])
         /\ SameSlot(c, [c EXCEPT !.sentClose = TRUE, !.sending = TRUE])
         /\ SameSlot(c, [c EXCEPT !.sending = FALSE])
         /\ \A w \in BOOLEAN : SameSlot(c, [c EXCEPT !.writing = w])
         /\ \A h \in BOOLEAN : SameSlot(c, [c EXCEPT !.heard = h])
         /\ Closed(c) \in Channels /\ Closed(c).id = c.id
BY DEF Channels, SameSlot, Closed

LEMMA MessageFacts ==
  ASSUME NEW c \in Channels
  PROVE  /\ c.msg # <<>> => SameSlot(c, [c EXCEPT !.call = Head(c.msg), !.msg = Tail(@)])
         /\ \A t \in {"OpenConfirm", "OpenFailure"}, r \in Nat :
              SameSlot(c, [c EXCEPT !.msg = Append(@, t), !.rid = r])
<1>1. c.msg \in Seq({"OpenConfirm", "OpenFailure"})
  BY DEF Channels
<1>2. c.msg # <<>> => /\ Head(c.msg) \in {"OpenConfirm", "OpenFailure"}
                      /\ Tail(c.msg) \in Seq({"OpenConfirm", "OpenFailure"})
  BY <1>1, SMTT(30)
<1>3. \A t \in {"OpenConfirm", "OpenFailure"} :
        Append(c.msg, t) \in Seq({"OpenConfirm", "OpenFailure"})
  BY <1>1, SMTT(30)
<1>4. c.msg # <<>> => SameSlot(c, [c EXCEPT !.call = Head(c.msg), !.msg = Tail(@)])
  BY <1>2 DEF Channels, SameSlot, Calls
<1>5. \A t \in {"OpenConfirm", "OpenFailure"}, r \in Nat :
        SameSlot(c, [c EXCEPT !.msg = Append(@, t), !.rid = r])
  BY <1>3 DEF Channels, SameSlot
<1> QED BY <1>4, <1>5

LEMMA NewChannelFacts ==
  ASSUME NEW dir \in {"in", "out"}, NEW id \in Nat, NEW rid \in Nat, NEW call \in Calls,
         NEW peer \in Nat
  PROVE  LET c == Channel(dir, id, rid, call, peer) IN
         c \in Channels /\ c.id = id /\ ~c.closed
BY SMTT(30) DEF Channels, Channel

-------------------------------------------------------------------------------
(* What happens to a list and its channels *)

LEMMA SlotsKeep ==
  ASSUME NEW list, NEW cs \in Seq(Channels), NEW rest, NEW o \in 1 .. Len(cs), NEW c,
         SameSlot(cs[o], c), SlotsOK(list, cs, rest)
  PROVE  SlotsOK(list, [cs EXCEPT ![o] = c], rest)
<1> DEFINE ds == [cs EXCEPT ![o] = c]
<1>1. /\ Len(ds) = Len(cs) /\ ds[o] = c
      /\ \A p \in 1 .. Len(cs) : p # o => ds[p] = cs[p]
  BY SMTT(30) DEF SameSlot
<1> HIDE DEF ds
<1>2. \A p \in 1 .. Len(cs) : ds[p].id = cs[p].id /\ ds[p].closed = cs[p].closed
  BY <1>1 DEF SameSlot
<1> QED BY <1>1, <1>2 DEF SlotsOK, ds

LEMMA SlotsNew ==
  ASSUME NEW list \in Seq(Nat), NEW cs \in Seq(Channels), NEW rest, NEW c \in Channels,
         c.id \in FreeId(list), ~c.closed, SlotsOK(list, cs, rest)
  PROVE  SlotsOK(AddChan(list, c.id, Len(cs) + 1), Append(cs, c), rest)
<1> DEFINE ds == Append(cs, c)
           new == AddChan(list, c.id, Len(cs) + 1)
           at == c.id + 1
<1>1. /\ Len(cs) \in Nat /\ Len(ds) = Len(cs) + 1 /\ ds[Len(cs) + 1] = c
      /\ \A p \in 1 .. Len(cs) : ds[p] = cs[p] /\ p \in 1 .. Len(ds) /\ p # Len(cs) + 1
      /\ Len(cs) + 1 \in 1 .. Len(ds)
  BY SMTT(30)
<1>2. /\ new[at] = Len(cs) + 1 /\ c.id = at - 1
      /\ \A i \in 1 .. Len(new) : i # at => i \in 1 .. Len(list) /\ new[i] = list[i]
  <2>1. c.id \in Nat
    BY DEF Channels
  <2>2. Len(cs) + 1 \in Nat /\ c.id = at - 1
    BY <1>1, <2>1, SMTT(30)
  <2>3. Adds(list, new, at, Len(cs) + 1)
    BY <2>2, AddChanFacts
  <2> HIDE DEF new, at
  <2> QED BY <2>2, <2>3 DEF Adds
<1> HIDE DEF ds, new, at
<1>3. ASSUME NEW i \in 1 .. Len(new), new[i] # Nil
      PROVE  new[i] \in 1 .. Len(ds) /\ ds[new[i]].id = i - 1 /\ ~ds[new[i]].closed
  <2>1. CASE i = at
    BY <1>1, <1>2, <2>1
  <2>2. CASE i # at
    BY <1>1, <1>2, <1>3, <2>2 DEF SlotsOK
  <2> QED BY <2>1, <2>2
<1>4. ASSUME NEW o \in rest
      PROVE  /\ o \in 1 .. Len(ds) /\ ~ds[o].closed
             /\ \A i \in 1 .. Len(new) : new[i] # o
  <2>1. /\ o \in 1 .. Len(cs) /\ ~cs[o].closed
        /\ \A i \in 1 .. Len(list) : list[i] # o
    BY DEF SlotsOK
  <2> QED BY <1>1, <1>2, <2>1
<1> QED BY <1>3, <1>4 DEF SlotsOK, ds, new

LEMMA SlotsRemove ==
  ASSUME NEW list \in Seq(Nat), NEW cs, NEW rest, NEW id \in Nat, SlotsOK(list, cs, rest),
         \A o \in rest : o # Nil
  PROVE  SlotsOK(RemoveChan(list, id), cs, rest)
<1> DEFINE new == RemoveChan(list, id)
<1>1. /\ Len(new) = Len(list)
      /\ \A i \in 1 .. Len(list) : new[i] = Nil \/ new[i] = list[i]
  BY RemoveChanFacts
<1> HIDE DEF new
<1> QED BY <1>1 DEF SlotsOK, new

LEMMA SlotsClose ==
  ASSUME NEW list, NEW cs \in Seq(Channels), NEW rest, NEW o \in 1 .. Len(cs),
         SlotsOK(list, cs, rest), o \notin rest, \A i \in 1 .. Len(list) : list[i] # o
  PROVE  SlotsOK(list, [cs EXCEPT ![o] = Closed(cs[o])], rest)
<1> DEFINE ds == [cs EXCEPT ![o] = Closed(cs[o])]
<1>1. /\ Len(ds) = Len(cs)
      /\ \A p \in 1 .. Len(cs) : p # o => ds[p] = cs[p]
  BY SMTT(30)
<1> HIDE DEF ds
<1> QED BY <1>1 DEF SlotsOK, ds

LEMMA SlotsDrop ==
  ASSUME NEW list \in Seq(Nat), NEW cs, NEW rest, SlotsOK(list, cs, rest)
  PROVE  SlotsOK(<<>>, cs, {list[i] : i \in 1 .. Len(list)} \ {Nil})
<1>1. \A i \in 1 .. Len(<<>>) : FALSE
  BY SMTT(30)
<1>2. ASSUME NEW o \in {list[i] : i \in 1 .. Len(list)} \ {Nil}
      PROVE  o \in 1 .. Len(cs) /\ ~cs[o].closed
  <2>1. PICK i \in 1 .. Len(list) : o = list[i]
    OBVIOUS
  <2> QED BY <1>2, <2>1 DEF SlotsOK
<1> QED BY <1>1, <1>2 DEF SlotsOK

-------------------------------------------------------------------------------
(* Steps *)

Loops == {"decode", "offer", "confirm", "fail", "drop", "down"}

\* What a step does to everything but the channels and their list.
Around ==
  /\ wire' \in [Ends -> Seq(Packets)]
  /\ loop' \in [Ends -> Loops]
  /\ offer' \in [Ends -> Nat]

\* The channel o of e becomes c, and no other changes.
Becomes(e, o, c) ==
  /\ objs' \in [Ends -> Seq(Channels)]
  /\ objs'[e] = [objs[e] EXCEPT ![o] = c] /\ objs'[e][o] = c
  /\ \A p \in Objects(e) : p # o => objs'[e][p] = objs[e][p]
  /\ \A q \in Ends : q # e => objs'[q] = objs[q]
  /\ \A q \in Ends : Objects(q)' = Objects(q) /\ Len(objs'[q]) = Len(objs[q])

LEMMA SetFacts ==
  ASSUME Types, NEW e \in Ends, NEW o \in Objects(e), NEW c \in Channels, Set(e, o, c)
  PROVE  Becomes(e, o, c)
<1>1. objs \in [Ends -> Seq(Channels)] /\ objs[e] \in Seq(Channels)
  BY DEF Types
<1> DEFINE ds == [objs[e] EXCEPT ![o] = c]
<1>2. /\ ds \in Seq(Channels) /\ Len(ds) = Len(objs[e]) /\ ds[o] = c
      /\ \A p \in Objects(e) : p # o => ds[p] = objs[e][p]
  BY <1>1, SMTT(30) DEF Objects
<1>3. objs' = [objs EXCEPT ![e] = ds]
  BY DEF Set
<1> HIDE DEF ds
<1>4. objs'[e] = ds /\ \A q \in Ends : q # e => objs'[q] = objs[q]
  BY <1>1, <1>3
<1>5. objs' \in [Ends -> Seq(Channels)]
  BY <1>1, <1>2, <1>3
<1>6. \A q \in Ends : Len(objs'[q]) = Len(objs[q])
  BY <1>2, <1>4
<1> QED BY <1>2, <1>4, <1>5, <1>6 DEF ds, Objects, Becomes

LEMMA Touched ==
  ASSUME ListInv, Around, NEW e \in Ends, NEW o \in Objects(e), NEW c,
         SameSlot(objs[e][o], c), Set(e, o, c), chans' = chans, drop' = drop,
         \A q \in Ends : loop'[q] \in Offering => offer'[q] \in Objects(q)
  PROVE  ListInv'
<1>0. Types
  BY DEF ListInv
<1>1. /\ c \in Channels /\ objs' \in [Ends -> Seq(Channels)]
      /\ objs'[e] = [objs[e] EXCEPT ![o] = c]
      /\ \A q \in Ends : q # e => objs'[q] = objs[q]
      /\ \A q \in Ends : Objects(q)' = Objects(q)
  <2>1. c \in Channels
    BY DEF SameSlot
  <2>2. Becomes(e, o, c)
    BY <1>0, <2>1, SetFacts
  <2> QED BY <2>1, <2>2 DEF Becomes
<1>2. Types'
  BY <1>0, <1>1 DEF Types, Around, Loops
<1>3. ASSUME NEW q \in Ends
      PROVE  SlotsOK(chans[q], objs'[q], drop[q])
  <2>1. SlotsOK(chans[q], objs[q], drop[q]) /\ objs[q] \in Seq(Channels)
    BY <1>0 DEF ListInv, Types
  <2>2. CASE q = e
    <3>1. o \in 1 .. Len(objs[e])
      BY DEF Objects
    <3>2. SlotsOK(chans[e], objs[e], drop[e]) /\ objs[e] \in Seq(Channels)
      BY <2>1, <2>2
    <3>3. SlotsOK(chans[e], [objs[e] EXCEPT ![o] = c], drop[e])
      BY <3>1, <3>2, SlotsKeep
    <3> QED BY <1>1, <2>2, <3>3
  <2>3. CASE q # e
    BY <1>1, <2>1, <2>3
  <2> QED BY <2>2, <2>3
<1> QED BY <1>1, <1>2, <1>3 DEF ListInv

LEMMA EncodeTypes ==
  ASSUME NEW w \in [Ends -> Seq(Packets)], NEW e \in Ends, NEW f \in Packets,
         EncodeOK(w, e, f) \/ EncodeFails(w, e)
  PROVE  wire' \in [Ends -> Seq(Packets)]
<1>1. Peer(e) \in Ends
  BY DEF Peer, Ends
<1>2. CASE EncodeOK(w, e, f)
  <2>1. Append(w[Peer(e)], f) \in Seq(Packets)
    BY <1>1, SMTT(30)
  <2> QED BY <1>2, <2>1 DEF EncodeOK
<1>3. CASE EncodeFails(w, e)
  BY <1>3 DEF EncodeFails
<1> QED BY <1>2, <1>3

LEMMA FrameTypes ==
  ASSUME NEW t \in {"Open", "OpenConfirm", "OpenFailure", "Data", "Close"},
         NEW chan \in Nat, NEW sender \in Nat, NEW from \in Nat
  PROVE  Frame(t, chan, sender, from) \in Packets
BY DEF Frame, Packets

LEMMA DataFrameTypes ==
  ASSUME NEW chan \in Nat, NEW from \in Nat, NEW late \in BOOLEAN
  PROVE  LET f == DataFrame(chan, from, late) IN
         /\ f \in Packets /\ f.type = "Data" /\ f.chan = chan /\ f.from = from
         /\ f.late = late
BY DEF DataFrame, Frame, Packets

LEMMA ChannelTypes ==
  ASSUME Types, NEW e \in Ends, NEW o \in Objects(e)
  PROVE  /\ o \in Nat /\ objs[e] \in Seq(Channels) /\ objs[e][o] \in Channels
         /\ objs[e][o].id \in Nat /\ objs[e][o].rid \in Nat
<1>1. objs[e] \in Seq(Channels)
  BY DEF Types
<1>2. o \in Nat /\ objs[e][o] \in Channels
  BY <1>1, SMTT(30) DEF Objects
<1>3. objs[e][o].id \in Nat /\ objs[e][o].rid \in Nat
  BY <1>2 DEF Channels
<1> QED BY <1>1, <1>2, <1>3

LEMMA RestTypes ==
  ASSUME Types, NEW e \in Ends, wire[e] # <<>>
  PROVE  /\ Rest(e) \in [Ends -> Seq(Packets)] /\ Head(wire[e]) \in Packets
         /\ Head(wire[e]).chan \in Nat /\ Head(wire[e]).sender \in Nat
         /\ Head(wire[e]).from \in Nat
         /\ Head(wire[e]).late => Head(wire[e]).type = "Data"
<1>1. wire \in [Ends -> Seq(Packets)] /\ wire[e] \in Seq(Packets)
  BY DEF Types
<1>2. Tail(wire[e]) \in Seq(Packets) /\ Head(wire[e]) \in Packets
  BY <1>1, SMTT(30)
<1>3. Rest(e) \in [Ends -> Seq(Packets)]
  BY <1>1, <1>2 DEF Rest
<1>4. /\ Head(wire[e]).chan \in Nat /\ Head(wire[e]).sender \in Nat
      /\ Head(wire[e]).from \in Nat
      /\ Head(wire[e]).late => Head(wire[e]).type = "Data"
  BY <1>2 DEF Packets
<1> QED BY <1>2, <1>3, <1>4

\* The steps of the goroutines that call Open and of the users of the channels.
UserSteps(e, o) ==
  \/ SendOpen(e, o) \/ OpenReply(e, o) \/ OpenCancelled(e, o) \/ Write(e, o)
  \/ User(e, o)

LEMMA UserStep ==
  ASSUME ListInv, NEW e \in Ends, NEW o \in Objects(e), UserSteps(e, o)
  PROVE  ListInv'
<1> DEFINE c == objs[e][o]
<1>0. Types /\ \A q \in Ends : loop[q] \in Offering => offer[q] \in Objects(q)
  BY DEF ListInv
<1>1. /\ o \in Nat /\ c \in Channels /\ c.id \in Nat /\ c.rid \in Nat
      /\ wire \in [Ends -> Seq(Packets)] /\ loop \in [Ends -> Loops]
      /\ offer \in [Ends -> Nat] /\ 0 \in Nat
  BY <1>0, ChannelTypes DEF Types, Loops
<1> HIDE DEF c
<1>2. /\ \A k \in Calls : SameSlot(c, [c EXCEPT !.call = k])
      /\ SameSlot(c, [c EXCEPT !.sentClose = TRUE, !.sending = TRUE])
      /\ SameSlot(c, [c EXCEPT !.sending = FALSE])
      /\ \A w \in BOOLEAN : SameSlot(c, [c EXCEPT !.writing = w])
  BY <1>1, ChannelFacts
<1>3. ASSUME wire' \in [Ends -> Seq(Packets)], NEW d, SameSlot(c, d), Set(e, o, d),
             UNCHANGED <<chans, loop, offer, drop>>
      PROVE  ListInv'
  <2>1. Around /\ \A q \in Ends : loop'[q] \in Offering => offer'[q] \in Objects(q)
    BY <1>0, <1>1, <1>3 DEF Around
  <2> QED BY <1>3, <2>1, Touched DEF c
<1>4. CASE SendOpen(e, o)
  <2>1. Frame("Open", 0, c.id, o) \in Packets
    BY <1>1, FrameTypes
  <2>2. wire' \in [Ends -> Seq(Packets)]
    BY <1>1, <1>4, <2>1, EncodeTypes DEF SendOpen, c
  <2>3. Set(e, o, [c EXCEPT !.call = "wait"]) \/ Set(e, o, [c EXCEPT !.call = "error"])
    BY <1>4 DEF SendOpen, c
  <2>4. UNCHANGED <<chans, loop, offer, drop>>
    BY <1>4 DEF SendOpen
  <2>5. "wait" \in Calls /\ "error" \in Calls
    BY DEF Calls
  <2> QED BY <1>2, <1>3, <2>2, <2>3, <2>4, <2>5
<1>5. CASE OpenReply(e, o)
  <2>1. PICK d : Set(e, o, d) /\ SameSlot(c, d)
    <3>1. CASE c.msg # <<>>
      <4>1. Set(e, o, [c EXCEPT !.call = Head(c.msg), !.msg = Tail(@)])
        BY <1>5, <3>1 DEF OpenReply, c
      <4> QED BY <1>1, <3>1, <4>1, MessageFacts
    <3>2. CASE c.msg = <<>>
      <4>1. Set(e, o, [c EXCEPT !.call = "ErrClosed"])
        BY <1>5, <3>2 DEF OpenReply, c
      <4>2. "ErrClosed" \in Calls
        BY DEF Calls
      <4> QED BY <1>2, <4>1, <4>2
    <3> QED BY <3>1, <3>2
  <2>2. UNCHANGED <<wire, chans, loop, offer, drop>>
    BY <1>5 DEF OpenReply
  <2> QED BY <1>1, <1>3, <2>1, <2>2
<1>6. CASE OpenCancelled(e, o)
  <2>1. Set(e, o, [c EXCEPT !.call = "cancelled"]) /\ "cancelled" \in Calls
    BY <1>6 DEF OpenCancelled, c, Calls
  <2>2. UNCHANGED <<wire, chans, loop, offer, drop>>
    BY <1>6 DEF OpenCancelled
  <2> QED BY <1>1, <1>2, <1>3, <2>1, <2>2
<1>7. CASE Close(e, o)
  <2>1. /\ Set(e, o, [c EXCEPT !.sentClose = TRUE, !.sending = TRUE])
        /\ UNCHANGED <<wire, chans, loop, offer, drop>>
    BY <1>7 DEF Close, c
  <2> QED BY <1>1, <1>2, <1>3, <2>1
<1>8. CASE SendClose(e, o)
  <2>1. Frame("Close", c.rid, 0, o) \in Packets
    BY <1>1, FrameTypes
  <2>2. wire' \in [Ends -> Seq(Packets)]
    BY <1>1, <1>8, <2>1, EncodeTypes DEF SendClose, c
  <2>3. Set(e, o, [c EXCEPT !.sending = FALSE]) /\ UNCHANGED <<chans, loop, offer, drop>>
    BY <1>8 DEF SendClose, c
  <2> QED BY <1>2, <1>3, <2>2, <2>3
<1>9. CASE Write(e, o)
  <2>1. /\ Set(e, o, [c EXCEPT !.writing = TRUE])
        /\ UNCHANGED <<wire, chans, loop, offer, drop>>
    BY <1>9 DEF Write, c
  <2> QED BY <1>1, <1>2, <1>3, <2>1
<1>10. CASE SendData(e, o)
  <2>1. DataFrame(c.rid, o, c.sentClose /\ ~c.sending) \in Packets
    <3>1. (c.sentClose /\ ~c.sending) \in BOOLEAN
      OBVIOUS
    <3> QED BY <1>1, <3>1, DataFrameTypes
  <2>2. wire' \in [Ends -> Seq(Packets)]
    BY <1>1, <1>10, <2>1, EncodeTypes DEF SendData, c
  <2>3. PICK more \in BOOLEAN : Set(e, o, [c EXCEPT !.writing = more])
    BY <1>10 DEF SendData, c
  <2>4. UNCHANGED <<chans, loop, offer, drop>>
    BY <1>10 DEF SendData
  <2> QED BY <1>2, <1>3, <2>2, <2>3, <2>4
<1> QED BY <1>4, <1>5, <1>6, <1>7, <1>8, <1>9, <1>10 DEF UserSteps, User

LEMMA Dropped ==
  ASSUME ListInv, NEW e \in Ends, NEW why, Drop(e, why), objs' = objs,
         wire' \in [Ends -> Seq(Packets)], offer' \in [Ends -> Nat],
         \A q \in Ends : q # e => offer'[q] = offer[q]
  PROVE  ListInv'
<1> DEFINE rest == {chans[e][i] : i \in 1 .. Len(chans[e])} \ {Nil}
<1>0. Types /\ SlotsOK(chans[e], objs[e], drop[e])
  BY DEF ListInv
<1>1. /\ chans' = [chans EXCEPT ![e] = <<>>] /\ drop' = [drop EXCEPT ![e] = rest]
      /\ loop' = [loop EXCEPT ![e] = "drop"]
  BY DEF Drop
<1>2. chans[e] \in Seq(Nat) /\ rest \in SUBSET Nat /\ <<>> \in Seq(Nat)
  BY <1>0, SMTT(30) DEF Types
<1>3. SlotsOK(<<>>, objs[e], rest)
  BY <1>0, <1>2, SlotsDrop
<1> HIDE DEF rest
<1>4. /\ chans'[e] = <<>> /\ drop'[e] = rest /\ loop'[e] = "drop"
      /\ \A q \in Ends : q # e =>
           chans'[q] = chans[q] /\ drop'[q] = drop[q] /\ loop'[q] = loop[q]
  BY <1>0, <1>1 DEF Types
<1>5. /\ chans' \in [Ends -> Seq(Nat)] /\ drop' \in [Ends -> SUBSET Nat]
      /\ loop' \in [Ends -> Loops]
  BY <1>0, <1>1, <1>2 DEF Types, Loops
<1>6. Types'
  BY <1>0, <1>5 DEF Types, Loops
<1>7. "drop" \notin Offering
  BY DEF Offering
<1> QED BY <1>3, <1>4, <1>6, <1>7 DEF ListInv, Objects

LEMMA NewFacts ==
  ASSUME Types, NEW e \in Ends, NEW c \in Channels, c.id \in FreeId(chans[e]), New(e, c)
  PROVE  /\ objs' \in [Ends -> Seq(Channels)] /\ chans' \in [Ends -> Seq(Nat)]
         /\ objs'[e] = Append(objs[e], c)
         /\ chans'[e] = AddChan(chans[e], c.id, Len(objs[e]) + 1)
         /\ Len(objs[e]) + 1 \in Objects(e)'
         /\ \A q \in Ends : Objects(q) \subseteq Objects(q)'
         /\ \A q \in Ends : q # e => objs'[q] = objs[q] /\ chans'[q] = chans[q]
<1>1. /\ objs \in [Ends -> Seq(Channels)] /\ objs[e] \in Seq(Channels)
      /\ chans \in [Ends -> Seq(Nat)] /\ chans[e] \in Seq(Nat) /\ Len(objs[e]) + 1 \in Nat
  BY SMTT(30) DEF Types
<1> DEFINE ds == Append(objs[e], c)
           new == AddChan(chans[e], c.id, Len(objs[e]) + 1)
<1>2. /\ ds \in Seq(Channels) /\ Len(ds) = Len(objs[e]) + 1
      /\ Len(objs[e]) + 1 \in 1 .. Len(ds) /\ 1 .. Len(objs[e]) \subseteq 1 .. Len(ds)
  BY <1>1, SMTT(30)
<1>3. new \in Seq(Nat)
  <2>1. Adds(chans[e], new, c.id + 1, Len(objs[e]) + 1)
    BY <1>1, AddChanFacts
  <2> HIDE DEF new
  <2> QED BY <2>1 DEF Adds
<1>4. objs' = [objs EXCEPT ![e] = ds] /\ chans' = [chans EXCEPT ![e] = new]
  BY DEF New
<1> HIDE DEF ds, new
<1>5. /\ objs' \in [Ends -> Seq(Channels)] /\ chans' \in [Ends -> Seq(Nat)]
      /\ objs'[e] = ds /\ chans'[e] = new
      /\ \A q \in Ends : q # e => objs'[q] = objs[q] /\ chans'[q] = chans[q]
  BY <1>1, <1>2, <1>3, <1>4
<1>6. \A q \in Ends : Objects(q) \subseteq Objects(q)'
  <2> SUFFICES ASSUME NEW q \in Ends PROVE Objects(q) \subseteq Objects(q)'
    OBVIOUS
  <2> QED BY <1>2, <1>5 DEF Objects
<1> QED BY <1>2, <1>5, <1>6 DEF ds, new, Objects

LEMMA Added ==
  ASSUME ListInv, Around, NEW e \in Ends, NEW c \in Channels, New(e, c),
         c.id \in FreeId(chans[e]), ~c.closed, drop' = drop,
         \A q \in Ends : loop'[q] \in Offering => offer'[q] \in Objects(q)'
  PROVE  ListInv'
<1>0. Types /\ SlotsOK(chans[e], objs[e], drop[e])
  BY DEF ListInv
<1>1. /\ objs' \in [Ends -> Seq(Channels)] /\ chans' \in [Ends -> Seq(Nat)]
      /\ objs'[e] = Append(objs[e], c)
      /\ chans'[e] = AddChan(chans[e], c.id, Len(objs[e]) + 1)
      /\ \A q \in Ends : q # e => objs'[q] = objs[q] /\ chans'[q] = chans[q]
  BY <1>0, NewFacts
<1>2. Types'
  BY <1>0, <1>1 DEF Types, Around, Loops
<1>3. chans[e] \in Seq(Nat) /\ objs[e] \in Seq(Channels)
  BY <1>0 DEF Types
<1>4. SlotsOK(AddChan(chans[e], c.id, Len(objs[e]) + 1), Append(objs[e], c), drop[e])
  BY <1>0, <1>3, SlotsNew
<1> QED BY <1>1, <1>2, <1>4 DEF ListInv

\* The channel that a frame reaches, and that a slot of the list names.
LEMMA TargetFacts ==
  ASSUME ListInv, NEW e \in Ends, wire[e] # <<>>, Target(e) # Nil
  PROVE  LET o == Target(e) IN
         /\ o \in Objects(e) /\ objs[e][o].id = Head(wire[e]).chan /\ o \notin drop[e]
         /\ \A i \in 1 .. Len(chans[e]) : chans[e][i] = o => i = objs[e][o].id + 1
<1> DEFINE o == Target(e)
           id == Head(wire[e]).chan
<1>0. Types /\ SlotsOK(chans[e], objs[e], drop[e])
  BY DEF ListInv
<1>1. id \in Nat /\ chans[e] \in Seq(Nat) /\ Len(chans[e]) \in Nat
  BY <1>0, RestTypes, SMTT(30) DEF Types
<1>2. id + 1 \in 1 .. Len(chans[e]) /\ chans[e][id + 1] = o
  BY <1>1, GetChanFacts DEF Target
<1> HIDE DEF id, o
<1>3. o \in Objects(e) /\ objs[e][o].id = id /\ o \notin drop[e]
  <2>1. o # Nil
    BY DEF o
  <2>2. PICK k \in 1 .. Len(chans[e]) : k = id + 1 /\ chans[e][k] = o
    BY <1>2
  <2>3. o \in 1 .. Len(objs[e]) /\ objs[e][o].id = k - 1
    BY <1>0, <2>1, <2>2 DEF SlotsOK
  <2>4. o \notin drop[e]
    BY <1>0, <2>2 DEF SlotsOK
  <2>5. k - 1 = id
    BY <1>1, <2>2, SMTT(30)
  <2> QED BY <2>3, <2>4, <2>5 DEF Objects
<1>4. \A i \in 1 .. Len(chans[e]) : chans[e][i] = o => objs[e][o].id = i - 1
  BY <1>0, <1>2 DEF SlotsOK, o
<1>5. \A i \in 1 .. Len(chans[e]) : chans[e][i] = o => i = objs[e][o].id + 1
  BY <1>1, <1>4, SMTT(30)
<1> QED BY <1>3, <1>5 DEF o, id

-------------------------------------------------------------------------------
(* The loop *)

LEMMA OpenStep ==
  ASSUME ListInv, NEW e \in Ends, Open(e)
  PROVE  ListInv'
<1> PICK id \in FreeId(chans[e]) : New(e, Channel("out", id, 0, "encode", Nil))
  BY DEF Open
<1> DEFINE c == Channel("out", id, 0, "encode", Nil)
<1>0. Types /\ \A q \in Ends : loop[q] \in Offering => offer[q] \in Objects(q)
  BY DEF ListInv
<1>1. id \in Nat
  BY SMTT(30) DEF FreeId
<1>2. c \in Channels /\ c.id \in FreeId(chans[e]) /\ ~c.closed
  <2>1. "encode" \in Calls /\ Nil \in Nat /\ 0 \in Nat
    BY DEF Calls, Nil
  <2> QED BY <1>1, <2>1, NewChannelFacts, SMTT(30)
<1>3. New(e, c) /\ UNCHANGED <<wire, loop, offer, drop>>
  BY DEF Open
<1> HIDE DEF c
<1>4. \A q \in Ends : Objects(q) \subseteq Objects(q)'
  BY <1>0, <1>2, <1>3, NewFacts
<1>5. Around /\ \A q \in Ends : loop'[q] \in Offering => offer'[q] \in Objects(q)'
  BY <1>0, <1>3, <1>4 DEF Around, Types, Loops
<1> QED BY <1>2, <1>3, <1>5, Added

LEMMA HandleOpenStep ==
  ASSUME ListInv, NEW e \in Ends, HandleOpen(e)
  PROVE  ListInv'
<1> DEFINE f == Head(wire[e])
<1> PICK id \in FreeId(chans[e]) : New(e, Channel("in", id, f.sender, "offered", f.from))
  BY DEF HandleOpen
<1> DEFINE c == Channel("in", id, f.sender, "offered", f.from)
<1>0. Types /\ \A q \in Ends : loop[q] \in Offering => offer[q] \in Objects(q)
  BY DEF ListInv
<1>1. id \in Nat
  BY SMTT(30) DEF FreeId
<1>2. Rest(e) \in [Ends -> Seq(Packets)] /\ f.sender \in Nat /\ f.from \in Nat
  BY <1>0, RestTypes DEF HandleOpen, Decoding
<1>3. c \in Channels /\ c.id \in FreeId(chans[e]) /\ ~c.closed
  <2>1. "offered" \in Calls
    BY DEF Calls
  <2> DEFINE sender == f.sender
             from == f.from
  <2>2. id \in Nat /\ sender \in Nat /\ from \in Nat
    BY <1>1, <1>2
  <2> HIDE DEF f, sender, from
  <2>3. LET d == Channel("in", id, sender, "offered", from) IN
        d \in Channels /\ d.id = id /\ ~d.closed
    BY <2>1, <2>2, NewChannelFacts
  <2> QED BY <2>3 DEF sender, from
<1>4. /\ New(e, c) /\ wire' = Rest(e) /\ drop' = drop
      /\ offer' = [offer EXCEPT ![e] = Len(objs[e]) + 1]
      /\ loop' = [loop EXCEPT ![e] = "offer"]
  BY DEF HandleOpen
<1> HIDE DEF c
<1>5. /\ \A q \in Ends : Objects(q) \subseteq Objects(q)'
      /\ Len(objs[e]) + 1 \in Objects(e)'
  BY <1>0, <1>3, <1>4, NewFacts
<1>6. /\ offer'[e] = Len(objs[e]) + 1 /\ Len(objs[e]) + 1 \in Nat
      /\ \A q \in Ends : q # e => offer'[q] = offer[q] /\ loop'[q] = loop[q]
      /\ loop' \in [Ends -> Loops]
  BY <1>0, <1>4, SMTT(30) DEF Types, Loops
<1>7. offer' \in [Ends -> Nat]
  BY <1>0, <1>4, <1>6 DEF Types
<1>8. Around /\ \A q \in Ends : loop'[q] \in Offering => offer'[q] \in Objects(q)'
  BY <1>0, <1>2, <1>4, <1>5, <1>6, <1>7 DEF Around
<1> QED BY <1>3, <1>4, <1>8, Added

LEMMA OfferStep ==
  ASSUME ListInv, NEW e \in Ends, Deliver(e) \/ OpenTimeout(e)
  PROVE  ListInv'
<1> DEFINE o == offer[e]
           c == objs[e][o]
<1>0. Types /\ \A q \in Ends : loop[q] \in Offering => offer[q] \in Objects(q)
  BY DEF ListInv
<1>1. loop[e] \in Offering
  BY DEF Deliver, OpenTimeout, Offering
<1>2. o \in Objects(e) /\ c \in Channels
  BY <1>0, <1>1, ChannelTypes
<1>3. PICK k \in Calls : Set(e, o, [c EXCEPT !.call = k])
  BY DEF Deliver, OpenTimeout, Calls
<1>4. UNCHANGED <<wire, chans, drop, offer>>
  BY DEF Deliver, OpenTimeout
<1>5. loop' \in [Ends -> Loops] /\ \A q \in Ends : q # e => loop'[q] = loop[q]
  <2>1. PICK at \in Loops : loop' = [loop EXCEPT ![e] = at]
    BY DEF Deliver, OpenTimeout, Loops
  <2> QED BY <1>0, <2>1 DEF Types, Loops
<1> HIDE DEF o, c
<1>6. SameSlot(c, [c EXCEPT !.call = k])
  BY <1>2, ChannelFacts
<1>7. Around /\ \A q \in Ends : loop'[q] \in Offering => offer'[q] \in Objects(q)
  BY <1>0, <1>2, <1>4, <1>5 DEF Around, Types, o
<1> QED BY <1>2, <1>3, <1>4, <1>6, <1>7, Touched DEF c

LEMMA AnswerStep ==
  ASSUME ListInv, NEW e \in Ends, Answer(e)
  PROVE  ListInv'
<1> DEFINE o == offer[e]
           c == objs[e][o]
           type == IF loop[e] = "confirm" THEN "OpenConfirm" ELSE "OpenFailure"
           f == Frame(type, c.rid, c.id, o)
<1>0. Types /\ \A q \in Ends : loop[q] \in Offering => offer[q] \in Objects(q)
  BY DEF ListInv
<1>1. loop[e] \in Offering
  BY DEF Answer, Offering
<1>2. o \in Objects(e) /\ o \in Nat /\ c.id \in Nat /\ c.rid \in Nat
  BY <1>0, <1>1, ChannelTypes
<1>3. f \in Packets
  <2>1. type \in {"Open", "OpenConfirm", "OpenFailure", "Data", "Close"}
    OBVIOUS
  <2> HIDE DEF type
  <2> QED BY <1>2, <2>1, FrameTypes
<1>4. /\ offer' = [offer EXCEPT ![e] = Nil] /\ objs' = objs
      /\ \/ /\ EncodeOK(wire, e, f) /\ loop' = [loop EXCEPT ![e] = "decode"]
            /\ UNCHANGED <<chans, drop>>
         \/ EncodeFails(wire, e) /\ Drop(e, "EOF")
  BY DEF Answer
<1> HIDE DEF f
<1>5. wire' \in [Ends -> Seq(Packets)]
  BY <1>0, <1>3, <1>4, EncodeTypes DEF Types
<1>6. offer' \in [Ends -> Nat] /\ \A q \in Ends : q # e => offer'[q] = offer[q]
  BY <1>0, <1>4 DEF Types, Nil
<1>7. CASE Drop(e, "EOF")
  BY <1>4, <1>5, <1>6, <1>7, Dropped
<1>8. CASE loop' = [loop EXCEPT ![e] = "decode"] /\ UNCHANGED <<chans, drop>>
  <2>1. /\ loop' \in [Ends -> Loops] /\ loop'[e] \notin Offering
        /\ \A q \in Ends : q # e => loop'[q] = loop[q]
    BY <1>0, <1>8 DEF Types, Loops, Offering
  <2>2. Types'
    BY <1>0, <1>4, <1>5, <1>6, <1>8, <2>1 DEF Types, Loops
  <2> QED BY <1>0, <1>4, <1>6, <1>8, <2>1, <2>2 DEF ListInv, Objects
<1> QED BY <1>4, <1>7, <1>8

LEMMA HandleDataStep ==
  ASSUME ListInv, NEW e \in Ends, HandleData(e)
  PROVE  ListInv'
<1> DEFINE o == Target(e)
           c == objs[e][o]
           h == c.heard \/ Head(wire[e]).from = c.peer
<1>0. Types /\ \A q \in Ends : loop[q] \in Offering => offer[q] \in Objects(q)
  BY DEF ListInv
<1>1. wire[e] # <<>> /\ o # Nil /\ h \in BOOLEAN
  BY DEF HandleData, Decoding
<1>2. /\ Set(e, o, [c EXCEPT !.heard = h]) /\ wire' = Rest(e)
      /\ UNCHANGED <<chans, loop, offer, drop>>
  BY DEF HandleData
<1>3. o \in Objects(e)
  BY <1>1, TargetFacts
<1> HIDE DEF o
<1>4. c \in Channels
  BY <1>0, <1>3, ChannelTypes
<1> HIDE DEF c, h
<1>5. SameSlot(c, [c EXCEPT !.heard = h])
  BY <1>1, <1>4, ChannelFacts
<1>6. Around /\ \A q \in Ends : loop'[q] \in Offering => offer'[q] \in Objects(q)
  BY <1>0, <1>1, <1>2, RestTypes DEF Around, Types, Loops
<1> QED BY <1>2, <1>3, <1>5, <1>6, Touched DEF c

\* A slot is given up, and the channel that was in it may be closed.
LEMMA GivenUp ==
  ASSUME ListInv, wire' \in [Ends -> Seq(Packets)], NEW e \in Ends, NEW o \in Objects(e),
         NEW c, UNCHANGED <<loop, offer, drop>>, Set(e, o, c),
         chans' = [chans EXCEPT ![e] = RemoveChan(@, objs[e][o].id)],
         SameSlot(objs[e][o], c) \/ (c = Closed(objs[e][o]) /\ o \notin drop[e])
  PROVE  ListInv'
<1> DEFINE new == RemoveChan(chans[e], objs[e][o].id)
<1>0. /\ Types /\ SlotsOK(chans[e], objs[e], drop[e])
      /\ \A q \in Ends : loop[q] \in Offering => offer[q] \in Objects(q)
  BY DEF ListInv
<1>1. /\ objs[e][o] \in Channels /\ objs[e][o].id \in Nat /\ objs[e] \in Seq(Channels)
      /\ o \in 1 .. Len(objs[e]) /\ Len(objs[e]) \in Nat
      /\ chans \in [Ends -> Seq(Nat)] /\ chans[e] \in Seq(Nat)
  <2>1. chans \in [Ends -> Seq(Nat)] /\ chans[e] \in Seq(Nat)
    BY <1>0 DEF Types
  <2>2. /\ objs[e][o] \in Channels /\ objs[e][o].id \in Nat /\ objs[e] \in Seq(Channels)
        /\ o \in 1 .. Len(objs[e])
    BY <1>0, ChannelTypes DEF Objects
  <2> QED BY <2>1, <2>2, SMTT(30)
<1>2. c \in Channels
  BY <1>1, ChannelFacts DEF SameSlot
<1>3. /\ objs' \in [Ends -> Seq(Channels)] /\ objs'[e] = [objs[e] EXCEPT ![o] = c]
      /\ \A q \in Ends : q # e => objs'[q] = objs[q]
      /\ \A q \in Ends : Objects(q)' = Objects(q)
  <2>1. Becomes(e, o, c)
    BY <1>0, <1>2, SetFacts
  <2> QED BY <2>1 DEF Becomes
<1>4. /\ new \in Seq(Nat) /\ Len(new) = Len(chans[e])
      /\ \A i \in 1 .. Len(chans[e]) :
           new[i] = IF i = objs[e][o].id + 1 THEN Nil ELSE chans[e][i]
  <2> DEFINE id == objs[e][o].id
  <2>1. id \in Nat
    BY <1>1
  <2> HIDE DEF id
  <2>2. LET end == RemoveChan(chans[e], id) IN
        /\ end \in Seq(Nat) /\ Len(end) = Len(chans[e])
        /\ \A i \in 1 .. Len(chans[e]) : end[i] = IF i = id + 1 THEN Nil ELSE chans[e][i]
    BY <1>1, <2>1, RemoveChanFacts
  <2> QED BY <2>2 DEF id
<1>5. \A i \in 1 .. Len(new) : new[i] # o
  <2> SUFFICES ASSUME NEW i \in 1 .. Len(chans[e]), new[i] = o PROVE FALSE
    BY <1>4
  <2>1. o # Nil
    BY <1>1, SMTT(30) DEF Nil
  <2>2. i # objs[e][o].id + 1 /\ chans[e][i] = o
    BY <1>4, <2>1
  <2>3. objs[e][o].id = i - 1
    BY <1>0, <2>1, <2>2 DEF SlotsOK
  <2> QED BY <1>1, <2>2, <2>3, SMTT(30)
<1>6. SlotsOK(new, objs[e], drop[e])
  <2>1. \A p \in drop[e] : p # Nil
    <3>1. \A p \in drop[e] : p \in 1 .. Len(objs[e])
      BY <1>0 DEF SlotsOK
    <3> QED BY <1>1, <3>1, SMTT(30) DEF Nil
  <2> QED BY <1>0, <1>1, <2>1, SlotsRemove
<1>7. chans' \in [Ends -> Seq(Nat)] /\ chans'[e] = new
      /\ \A q \in Ends : q # e => chans'[q] = chans[q]
  <2> HIDE DEF new
  <2>1. chans' = [chans EXCEPT ![e] = new]
    BY DEF new
  <2> QED BY <1>1, <1>4, <2>1
<1> HIDE DEF new
<1>8. SlotsOK(new, [objs[e] EXCEPT ![o] = c], drop[e])
  BY <1>1, <1>5, <1>6, SlotsKeep, SlotsClose
<1>9. Types'
  BY <1>0, <1>3, <1>7 DEF Types
<1> QED BY <1>0, <1>3, <1>7, <1>8, <1>9 DEF ListInv

LEMMA HandleCloseStep ==
  ASSUME ListInv, NEW e \in Ends, HandleClose(e)
  PROVE  ListInv'
<1> DEFINE o == Target(e)
           c == objs[e][o]
<1>0. Types
  BY DEF ListInv
<1>1. wire[e] # <<>> /\ o # Nil
  BY DEF HandleClose, Decoding
<1>2. /\ Set(e, o, Closed(c)) /\ chans' = [chans EXCEPT ![e] = RemoveChan(@, c.id)]
      /\ UNCHANGED <<loop, offer, drop>>
  BY DEF HandleClose
<1>3. \/ wire' = Rest(e) \/ EncodeOK(Rest(e), e, Frame("Close", c.rid, 0, o))
      \/ EncodeFails(Rest(e), e)
  BY DEF HandleClose
<1>4. o \in Objects(e) /\ o \notin drop[e]
  BY <1>1, TargetFacts
<1> HIDE DEF o
<1>5. o \in Nat /\ c.rid \in Nat /\ 0 \in Nat
  BY <1>0, <1>4, ChannelTypes
<1>6. wire' \in [Ends -> Seq(Packets)]
  <2>1. Frame("Close", c.rid, 0, o) \in Packets
    BY <1>5, FrameTypes
  <2>2. Rest(e) \in [Ends -> Seq(Packets)]
    BY <1>0, <1>1, RestTypes
  <2> QED BY <1>3, <2>1, <2>2, EncodeTypes
<1> QED BY <1>2, <1>4, <1>6, GivenUp

LEMMA HandleAnswerStep ==
  ASSUME ListInv, NEW e \in Ends, HandleAnswer(e)
  PROVE  ListInv'
<1> DEFINE o == Target(e)
           c == objs[e][o]
           f == Head(wire[e])
<1>0. Types /\ \A q \in Ends : loop[q] \in Offering => offer[q] \in Objects(q)
  BY DEF ListInv
<1>1. /\ wire[e] # <<>> /\ o # Nil /\ f.type \in {"OpenConfirm", "OpenFailure"}
      /\ wire' = Rest(e) /\ offer' = offer
  BY DEF HandleAnswer, Decoding
<1>2. /\ Rest(e) \in [Ends -> Seq(Packets)] /\ f.sender \in Nat
      /\ offer \in [Ends -> Nat] /\ loop \in [Ends -> Loops]
  BY <1>0, <1>1, RestTypes DEF Types, Loops
<1>3. CASE c.dir = "in"
  <2>1. Drop(e, "inboundResponse") /\ objs' = objs
    BY <1>3 DEF HandleAnswer
  <2> QED BY <1>1, <1>2, <2>1, Dropped
<1>4. CASE c.dir # "in"
  <2> DEFINE r == IF f.type = "OpenConfirm" THEN f.sender ELSE c.rid
             d == [c EXCEPT !.msg = Append(@, f.type), !.rid = r]
  <2>1. /\ Set(e, o, d) /\ UNCHANGED <<loop, drop>>
        /\ chans' = IF f.type = "OpenConfirm" THEN chans
                    ELSE [chans EXCEPT ![e] = RemoveChan(@, f.chan)]
    BY <1>4 DEF HandleAnswer
  <2>2. o \in Objects(e) /\ c.id = f.chan
    BY <1>1, TargetFacts
  <2> HIDE DEF o, f
  <2>3. c \in Channels /\ c.rid \in Nat
    BY <1>0, <2>2, ChannelTypes
  <2> HIDE DEF c
  <2>4. SameSlot(c, d)
    BY <1>1, <1>2, <2>3, MessageFacts
  <2> HIDE DEF d
  <2>5. CASE f.type = "OpenConfirm"
    <3>1. Around /\ chans' = chans
          /\ \A q \in Ends : loop'[q] \in Offering => offer'[q] \in Objects(q)
      BY <1>0, <1>1, <1>2, <2>1, <2>5 DEF Around
    <3> QED BY <2>1, <2>2, <2>4, <3>1, Touched DEF c
  <2>6. CASE f.type # "OpenConfirm"
    <3>1. chans' = [chans EXCEPT ![e] = RemoveChan(@, objs[e][o].id)]
      BY <2>1, <2>2, <2>6 DEF c
    <3> QED BY <1>1, <1>2, <2>1, <2>2, <2>4, <3>1, GivenUp DEF c
  <2> QED BY <2>5, <2>6
<1> QED BY <1>3, <1>4

LEMMA DropStep ==
  ASSUME ListInv, NEW e \in Ends, InvalidChannel(e) \/ DecodeFails(e)
  PROVE  ListInv'
<1>0. Types
  BY DEF ListInv
<1>1. \E why : Drop(e, why)
  BY DEF InvalidChannel, DecodeFails
<1>2. objs' = objs /\ offer' = offer
  BY DEF InvalidChannel, DecodeFails
<1>3. wire' \in [Ends -> Seq(Packets)]
  BY <1>0, RestTypes DEF InvalidChannel, DecodeFails, Decoding, Types
<1>4. offer' \in [Ends -> Nat] /\ \A q \in Ends : q # e => offer'[q] = offer[q]
  BY <1>0, <1>2 DEF Types
<1> QED BY <1>1, <1>2, <1>3, <1>4, Dropped

LEMMA CloseDroppedStep ==
  ASSUME ListInv, NEW e \in Ends, CloseDropped(e)
  PROVE  ListInv'
<1>0. /\ Types /\ SlotsOK(chans[e], objs[e], drop[e])
      /\ \A q \in Ends : loop[q] \in Offering => offer[q] \in Objects(q)
  BY DEF ListInv
<1>1. PICK o \in drop[e] : /\ Set(e, o, Closed(objs[e][o]))
                           /\ drop' = [drop EXCEPT ![e] = @ \ {o}]
  BY DEF CloseDropped
<1>2. UNCHANGED <<wire, chans, loop, offer>>
  BY DEF CloseDropped
<1>3. o \in Objects(e) /\ \A i \in 1 .. Len(chans[e]) : chans[e][i] # o
  BY <1>0 DEF SlotsOK, Objects
<1>4. objs[e] \in Seq(Channels) /\ Closed(objs[e][o]) \in Channels
  BY <1>0, <1>3, ChannelTypes, ChannelFacts
<1>5. /\ objs' \in [Ends -> Seq(Channels)]
      /\ objs'[e] = [objs[e] EXCEPT ![o] = Closed(objs[e][o])]
      /\ \A q \in Ends : q # e => objs'[q] = objs[q]
      /\ \A q \in Ends : Objects(q)' = Objects(q)
  <2>1. Becomes(e, o, Closed(objs[e][o]))
    BY <1>0, <1>1, <1>3, <1>4, SetFacts
  <2> QED BY <2>1 DEF Becomes
<1>6. /\ drop' \in [Ends -> SUBSET Nat] /\ drop'[e] = drop[e] \ {o}
      /\ \A q \in Ends : q # e => drop'[q] = drop[q]
  BY <1>0, <1>1 DEF Types
<1>7. SlotsOK(chans[e], objs[e], drop[e] \ {o})
  BY <1>0 DEF SlotsOK
<1>8. SlotsOK(chans[e], [objs[e] EXCEPT ![o] = Closed(objs[e][o])], drop[e] \ {o})
  <2>1. o \in 1 .. Len(objs[e]) /\ o \notin drop[e] \ {o}
    BY <1>3 DEF Objects
  <2> QED BY <1>3, <1>4, <1>7, <2>1, SlotsClose
<1>9. Types'
  BY <1>0, <1>2, <1>5, <1>6 DEF Types
<1> QED BY <1>0, <1>2, <1>5, <1>6, <1>8, <1>9 DEF ListInv

-------------------------------------------------------------------------------

LEMMA ListInit == Init => ListInv
<1> SUFFICES ASSUME Init PROVE ListInv
  OBVIOUS
<1>1. Types
  BY SMTT(30) DEF Init, Types, Nil
<1>2. ASSUME NEW e \in Ends
      PROVE  SlotsOK(chans[e], objs[e], drop[e]) /\ loop[e] \notin Offering
  <2>1. /\ chans[e] = <<>> /\ objs[e] = <<>> /\ drop[e] = {} /\ loop[e] = "decode"
    BY DEF Init
  <2>2. \A i \in 1 .. Len(<<>>) : FALSE
    BY SMTT(30)
  <2> QED BY <2>1, <2>2 DEF SlotsOK, Offering
<1> QED BY <1>1, <1>2 DEF ListInv

LEMMA ListStep ==
  ASSUME SessionAssumption, ListInv, [Next]_vars
  PROVE  ListInv'
<1>1. ASSUME NEW e \in Openers, Open(e)
      PROVE  ListInv'
  BY <1>1, OpenStep DEF SessionAssumption
<1>2. ASSUME NEW e \in Ends, NEW o \in Objects(e), UserSteps(e, o)
      PROVE  ListInv'
  BY <1>2, UserStep
<1>3. ASSUME NEW e \in Ends, Packet(e) \/ Deliver(e) \/ OpenTimeout(e) \/ Answer(e)
                             \/ CloseDropped(e)
      PROVE  ListInv'
  BY <1>3, HandleOpenStep, HandleAnswerStep, HandleDataStep, HandleCloseStep, DropStep,
     OfferStep, AnswerStep, CloseDroppedStep DEF Packet
<1>4. ASSUME UNCHANGED <<wire, chans, objs, offer, drop>>, loop' \in [Ends -> Loops],
             \A e \in Ends : loop'[e] \in Offering => loop[e] \in Offering
      PROVE  ListInv'
  BY <1>4 DEF ListInv, Types, Loops, Objects
<1>5. ASSUME UNCHANGED <<wire, chans, objs, offer, drop, loop>>
      PROVE  ListInv'
  BY <1>4, <1>5 DEF ListInv, Types, Loops
<1>6. ASSUME NEW e \in Ends, Shut(e)
      PROVE  ListInv'
  <2>1. UNCHANGED <<wire, chans, objs, offer, drop>> /\ loop' = [loop EXCEPT ![e] = "down"]
    BY <1>6 DEF Shut
  <2>2. /\ loop' \in [Ends -> Loops]
        /\ \A q \in Ends : loop'[q] \in Offering => loop[q] \in Offering
    BY <2>1 DEF ListInv, Types, Loops, Offering
  <2> QED BY <1>4, <2>1, <2>2
<1>7. ASSUME NEW e, Accept(e) \/ AcceptEOF(e) \/ CloseSession(e)
      PROVE  ListInv'
  BY <1>5, <1>7 DEF Accept, AcceptEOF, CloseSession
<1>8. CASE UNCHANGED vars
  BY <1>5, <1>8 DEF vars
<1>9. CASE Next
  <2>1. Cancels \subseteq Ends /\ Writers \subseteq Ends
    BY DEF SessionAssumption
  <2> QED BY <1>1, <1>2, <1>3, <1>6, <1>7, <1>9, <2>1 DEF Next, UserSteps
<1> QED BY <1>8, <1>9

\* A channel in the list is in one slot, the one its id says.
LEMMA ListInvImplies == ListInv => ListedAreOpen
<1> SUFFICES ASSUME ListInv, NEW e \in Ends, NEW o \in Objects(e)
             PROVE  /\ \A i, j \in Places(chans[e], o) : i = j
                    /\ o \in drop[e] => Places(chans[e], o) = {}
                    /\ Places(chans[e], o) # {} \/ o \in drop[e] => ~objs[e][o].closed
  BY DEF ListedAreOpen
<1>0. Types /\ SlotsOK(chans[e], objs[e], drop[e])
  BY DEF ListInv
<1>1. o \in Nat /\ o # Nil /\ objs[e][o].id \in Nat
  <2>1. o # Nil
    BY SMTT(30) DEF Objects, Nil
  <2> QED BY <1>0, <2>1, ChannelTypes
<1>2. \A i \in Places(chans[e], o) : objs[e][o].id = i - 1 /\ ~objs[e][o].closed
  BY <1>0, <1>1 DEF SlotsOK, Places
<1>3. \A i, j \in Places(chans[e], o) : i = j
  BY <1>1, <1>2, SMTT(30) DEF Places
<1>4. o \in drop[e] => Places(chans[e], o) = {} /\ ~objs[e][o].closed
  BY <1>0 DEF SlotsOK, Places
<1> QED BY <1>2, <1>3, <1>4

\* In every behaviour of two sessions a channel that the list or dropAll's result
\* still names is named once and is open: closing msg and sending on it never panic.
THEOREM ListsNameOpenChannels == Spec => []ListedAreOpen
<1>1. Init => ListInv
  BY ListInit
<1>2. ListInv /\ [Next]_vars => ListInv'
  BY ListStep, SessionAssumption
<1>3. ListInv => ListedAreOpen
  BY ListInvImplies
<1> QED BY <1>1, <1>2, <1>3, PTL DEF Spec

-------------------------------------------------------------------------------
(***************************************************************************)
(* The open handshake                                                      *)
(*                                                                         *)
(* The invariant is a predicate of four things: O the channels, M the      *)
(* frames on their way to an end, S the channels an end still lists (all   *)
(* of them once its loop is ending) and F the channels being offered.  A   *)
(* step is a composition of a few changes of these, and there is one lemma *)
(* for each kind of change.  In every operator v is the peer of q.         *)
(***************************************************************************)

Of(O, q) == 1 .. Len(O[q])
Answers == {"OpenConfirm", "OpenFailure"}

\* The peer's answer has arrived; it was OpenConfirm; Open has returned the channel.
Answered(c) == c.msg # <<>> \/ c.call \in Answers
Confirmed(c) == c.msg = <<"OpenConfirm">> \/ c.call = "OpenConfirm"
Returned(c) == c.call = "OpenConfirm"

SaneIn(c) ==
  /\ c.call \in {"offered", "accepted", "abandoned"}
  /\ c.writing => c.call = "accepted"
  /\ c.sending => c.call = "accepted" /\ c.sentClose
SaneOut(c) ==
  /\ c.call \notin {"offered", "accepted", "abandoned"}
  /\ c.msg \in {<<>>, <<"OpenConfirm">>, <<"OpenFailure">>}
  /\ c.call = "encode" => c.msg = <<>>
  /\ c.writing \/ c.sending => c.call = "OpenConfirm"
  /\ c.sending => c.sentClose
Sane(c) ==
  /\ c.dir \in {"in", "out"}
  /\ c.dir = "in" => SaneIn(c)
  /\ c.dir = "out" => SaneOut(c)

\* The channel p of q was made for o of its peer.
MadeFor(O, q, p, o) == O[q][p].dir = "in" /\ O[q][p].peer = o

\* The channel p that handleOpen made at q, and the one that asked for it.
Pair(O, F, q, v, p) ==
  LET o == O[q][p].peer IN
  /\ o \in Of(O, v) /\ O[v][o].dir = "out" /\ O[v][o].call # "encode"
  /\ O[q][p].rid = O[v][o].id
  /\ \A r \in Of(O, q) : MadeFor(O, q, r, o) => r = p
  /\ O[q][p].heard => Returned(O[v][o])
  /\ O[q][p].sending => Returned(O[v][o]) /\ F[q] # p
  /\ F[q] = p => ~Answered(O[v][o])

\* The peer v accepted, as p, what the channel o of q asked for, and said so.
AcceptedAs(O, F, v, o, rid, p) ==
  MadeFor(O, v, p, o) /\ O[v][p].call = "accepted" /\ O[v][p].id = rid /\ F[v] # p

\* What the frames on their way to q say of the channels x of v that sent them.
OpenSent(O, q, v, f) ==
  LET x == f.from IN
  /\ O[v][x].dir = "out" /\ O[v][x].call # "encode" /\ O[v][x].id = f.sender
  /\ ~Answered(O[v][x])
  /\ \A p \in Of(O, q) : ~MadeFor(O, q, p, x)
AnswerSent(O, F, q, v, f) ==
  LET x == f.from IN
  /\ O[v][x].dir = "in" /\ O[v][x].rid = f.chan /\ O[v][x].id = f.sender
  /\ f.type = "OpenConfirm" => O[v][x].call = "accepted"
  /\ f.type = "OpenFailure" => O[v][x].call = "abandoned"
  /\ F[v] # x /\ ~Answered(O[q][O[v][x].peer])
DataSent(O, v, f) == /\ Held(O[v][f.from])
                     /\ ~f.late => O[v][f.from].rid = f.chan
CloseSent(O, F, q, v, f) ==
  LET x == f.from IN
  /\ O[v][x].rid = f.chan
  /\ O[v][x].sentClose /\ ~O[v][x].sending
  /\ O[v][x].dir = "in" => /\ O[v][x].call = "accepted" /\ F[v] # x
                           /\ Returned(O[q][O[v][x].peer])
  /\ O[v][x].dir = "out" => O[v][x].call = "OpenConfirm"
Sent(O, F, q, v, f) ==
  /\ f.from \in Of(O, v)
  /\ f.type = "Open" => OpenSent(O, q, v, f)
  /\ f.type \in Answers => AnswerSent(O, F, q, v, f)
  /\ f.type = "Data" => DataSent(O, v, f)
  /\ f.type = "Close" => CloseSent(O, F, q, v, f)

\* Nothing but late Data will come any more from the channel x of v.
Finished(O, M, F, q, v, x) ==
  /\ ~O[v][x].sending /\ F[v] # x
  /\ \/ O[v][x].sentClose /\ O[v][x].call \in {"accepted", "OpenConfirm"}
     \/ O[v][x].call = "abandoned"
  /\ \A f \in M[q] : f.type # "Open" /\ ~f.late => f.from # x

Connected(O, q, v, o, x) ==
  /\ O[q][o].dir = "in" => O[q][o].peer = x /\ O[v][x].dir = "out"
  /\ O[q][o].dir # "in" => MadeFor(O, v, x, o)

PairsAt(O, F, q, v) == \A p \in Of(O, q) : O[q][p].dir = "in" => Pair(O, F, q, v, p)
ConfirmedAt(O, F, q, v) ==
  \A o \in Of(O, q) : O[q][o].dir = "out" /\ Confirmed(O[q][o]) =>
    \E p \in Of(O, v) : AcceptedAs(O, F, v, o, O[q][o].rid, p)
FramesAt(O, M, F, q, v) == \A f \in M[q] : Sent(O, F, q, v, f)
ListsAt(O, M, S, F, q, v) ==
  \A o \in Of(O, q) : o \in S[q] \/ \E x \in Of(O, v) : /\ Connected(O, q, v, o, x)
                                                       /\ Finished(O, M, F, q, v, x)

HandAt(O, M, S, F, q, v) ==
  /\ \A p \in Of(O, q) : Sane(O[q][p])
  /\ F[q] \in Of(O, q) => O[q][F[q]].dir = "in"
  /\ PairsAt(O, F, q, v)
  /\ ConfirmedAt(O, F, q, v)
  /\ FramesAt(O, M, F, q, v)
  /\ ListsAt(O, M, S, F, q, v)
Hand(O, M, S, F) == \A q \in Ends : HandAt(O, M, S, F, q, Peer(q))

\* On the wire nothing but late Data follows a Close or an OpenFailure of the same
\* channel, and what follows an Open or an OpenConfirm is Data or Close.
Before(f, g) == f.from = g.from /\ ~g.late =>
                  /\ f.type \notin {"Close", "OpenFailure"}
                  /\ f.type = "Data" \/ g.type \in {"Data", "Close"}
Ordered(s) == \A i, j \in 1 .. Len(s) : i < j => Before(s[i], s[j])

\* M and S of the state.
Wires(w) == [q \in Ends |-> {w[q][i] : i \in 1 .. Len(w[q])}]
On == Wires(wire)
Live(q) == loop[q] \notin {"drop", "down"}
Sure == [q \in Ends |->
          {o \in Objects(q) : Live(q) => GetChan(chans[q], objs[q][o].id) = o}]

OffersAt(q) ==
  /\ loop[q] = "offer" => objs[q][offer[q]].call = "offered"
  /\ loop[q] = "confirm" => objs[q][offer[q]].call = "accepted"
  /\ loop[q] = "fail" => objs[q][offer[q]].call = "abandoned"
  /\ loop[q] \in Offering => objs[q][offer[q]].dir = "in"
  /\ loop[q] \notin Offering => offer[q] = Nil

HandInv ==
  /\ ListInv
  /\ Hand(objs, On, Sure, offer)
  /\ \A q \in Ends : Ordered(wire[q]) /\ OffersAt(q)

-------------------------------------------------------------------------------
(* Changes of the channels *)

\* What no step undoes.
Later(c, d) ==
  /\ d.dir = c.dir /\ d.id = c.id /\ d.peer = c.peer
  /\ c.call # "encode" => d.call # "encode"
  /\ c.call \in {"accepted", "abandoned", "OpenConfirm"} => d.call = c.call
  /\ c.sentClose => d.sentClose
  /\ c.sentClose /\ d.sending => c.sending

\* Nobody is about to answer the channel p of q.
Unasked(O, M, F, q, v, p) ==
  /\ \A f \in M[v] : f.type = "Open" => f.from # p
  /\ \A f \in M[q] : f.type \in Answers => O[v][f.from].peer # p
  /\ \A r \in Of(O, v) : MadeFor(O, v, r, p) => F[v] # r

\* The channel p of q may become d.
Step(O, M, F, q, v, p, d) ==
  /\ Later(O[q][p], d) /\ Sane(d)
  /\ Answered(d) => Answered(O[q][p]) \/ Unasked(O, M, F, q, v, p)
  /\ \/ d.rid = O[q][p].rid
     \/ /\ d.dir = "out"
        /\ \A f \in M[v] : f.from = p => f.type \notin {"Data", "Close"}
  /\ d.dir = "out" /\ Confirmed(d) =>
       \/ Confirmed(O[q][p]) /\ d.rid = O[q][p].rid
       \/ \E r \in Of(O, v) : AcceptedAs(O, F, v, p, d.rid, r)
  /\ d.dir = "in" =>
       /\ d.heard => O[q][p].heard \/ Returned(O[v][d.peer])
       /\ d.sending => O[q][p].sending \/ (Returned(O[v][d.peer]) /\ F[q] # p)

LEMMA PeerFacts ==
  ASSUME NEW q \in Ends
  PROVE  Peer(q) \in Ends /\ Peer(q) # q /\ Peer(Peer(q)) = q
BY DEF Peer, Ends

LEMMA Directions == "in" # "out"
OBVIOUS

LEMMA HandBoth ==
  ASSUME NEW O, NEW M, NEW S, NEW F, Hand(O, M, S, F), NEW q \in Ends
  PROVE  /\ Peer(q) \in Ends /\ HandAt(O, M, S, F, q, Peer(q))
         /\ HandAt(O, M, S, F, Peer(q), q)
<1>1. Peer(q) \in Ends /\ Peer(Peer(q)) = q
  BY PeerFacts
<1>2. HandAt(O, M, S, F, Peer(q), Peer(Peer(q)))
  BY <1>1 DEF Hand
<1>3. HandAt(O, M, S, F, Peer(q), q)
  BY <1>1, <1>2
<1> QED BY <1>1, <1>3 DEF Hand

LEMMA ReturnedKept ==
  ASSUME NEW c, NEW d, Later(c, d), Returned(c)
  PROVE  Returned(d)
BY DEF Later, Returned

\* Every channel of q is as it was or made a step.
Evolution(O, P, M, F, q, v) ==
  /\ Of(P, q) = Of(O, q)
  /\ \A p \in Of(O, q) : Step(O, M, F, q, v, p, P[q][p])

LEMMA EvolvePairs ==
  ASSUME NEW O, NEW P, NEW M, NEW F, NEW q, NEW v, PairsAt(O, F, q, v),
         Evolution(O, P, M, F, q, v), Evolution(O, P, M, F, v, q)
  PROVE  PairsAt(P, F, q, v)
<1> SUFFICES ASSUME NEW p \in Of(O, q), P[q][p].dir = "in"
             PROVE  Pair(P, F, q, v, p)
  BY DEF PairsAt, Evolution
<1> DEFINE o == O[q][p].peer
<1>1. Step(O, M, F, q, v, p, P[q][p])
  BY DEF Evolution
<1>2. P[q][p].peer = o /\ O[q][p].dir = "in" /\ P[q][p].rid = O[q][p].rid
  BY <1>1 DEF Step, Later
<1>3. Pair(O, F, q, v, p)
  BY <1>2 DEF PairsAt
<1>4. /\ o \in Of(O, v) /\ O[v][o].dir = "out" /\ O[v][o].call # "encode"
      /\ O[q][p].rid = O[v][o].id
      /\ \A r \in Of(O, q) : MadeFor(O, q, r, o) => r = p
      /\ O[q][p].heard => Returned(O[v][o])
      /\ O[q][p].sending => Returned(O[v][o]) /\ F[q] # p
      /\ F[q] = p => ~Answered(O[v][o])
  BY <1>3 DEF Pair
<1> HIDE DEF o
<1>5. Step(O, M, F, v, q, o, P[v][o])
  BY <1>4 DEF Evolution
<1>6. /\ P[v][o].dir = O[v][o].dir /\ P[v][o].id = O[v][o].id
      /\ Returned(O[v][o]) => Returned(P[v][o])
      /\ Later(O[v][o], P[v][o])
  BY <1>5, ReturnedKept DEF Step, Later
<1>7. P[v][o].call # "encode"
  BY <1>4, <1>6 DEF Later
<1>8. ASSUME NEW r \in Of(P, q), MadeFor(P, q, r, o)
      PROVE  r = p
  <2>1. r \in Of(O, q) /\ Step(O, M, F, q, v, r, P[q][r])
    BY DEF Evolution
  <2>2. MadeFor(O, q, r, o)
    BY <1>8, <2>1 DEF Later, Step, MadeFor
  <2> QED BY <1>4, <2>1, <2>2
<1>9. P[q][p].heard => Returned(P[v][o])
  BY <1>1, <1>2, <1>4, <1>6 DEF Step
<1>10. P[q][p].sending => Returned(P[v][o]) /\ F[q] # p
  BY <1>1, <1>2, <1>4, <1>6 DEF Step
<1>11. F[q] = p => ~Answered(P[v][o])
  <2> SUFFICES ASSUME F[q] = p, Answered(P[v][o]) PROVE FALSE
    OBVIOUS
  <2>1. Unasked(O, M, F, v, q, o)
    BY <1>4, <1>5 DEF Step
  <2>2. MadeFor(O, q, p, o)
    BY <1>2 DEF MadeFor, o
  <2> QED BY <2>1, <2>2 DEF Unasked
<1>12. o \in Of(P, v)
  BY <1>4 DEF Evolution
<1> QED BY <1>2, <1>4, <1>6, <1>7, <1>8, <1>9, <1>10, <1>11, <1>12 DEF Pair

LEMMA EvolveConfirmed ==
  ASSUME NEW O, NEW P, NEW M, NEW F, NEW q, NEW v, ConfirmedAt(O, F, q, v),
         Evolution(O, P, M, F, q, v), Evolution(O, P, M, F, v, q)
  PROVE  ConfirmedAt(P, F, q, v)
<1> SUFFICES ASSUME NEW o \in Of(O, q), P[q][o].dir = "out", Confirmed(P[q][o])
             PROVE  \E p \in Of(P, v) : AcceptedAs(P, F, v, o, P[q][o].rid, p)
  BY DEF ConfirmedAt, Evolution
<1>1. Step(O, M, F, q, v, o, P[q][o])
  BY DEF Evolution
<1>2. O[q][o].dir = "out"
  BY <1>1 DEF Step, Later
<1>3. PICK p \in Of(O, v) : AcceptedAs(O, F, v, o, P[q][o].rid, p)
  <2>1. CASE Confirmed(O[q][o]) /\ P[q][o].rid = O[q][o].rid
    BY <1>2, <2>1 DEF ConfirmedAt
  <2>2. CASE \E r \in Of(O, v) : AcceptedAs(O, F, v, o, P[q][o].rid, r)
    BY <2>2
  <2> QED BY <1>1, <2>1, <2>2 DEF Step
<1>4. Step(O, M, F, v, q, p, P[v][p]) /\ p \in Of(P, v)
  BY DEF Evolution
<1>5. AcceptedAs(P, F, v, o, P[q][o].rid, p)
  BY <1>3, <1>4 DEF Step, AcceptedAs, MadeFor, Later
<1> QED BY <1>4, <1>5

LEMMA EvolveLists ==
  ASSUME NEW O, NEW P, NEW M, NEW S, NEW F, NEW q, NEW v, ListsAt(O, M, S, F, q, v),
         Evolution(O, P, M, F, q, v), Evolution(O, P, M, F, v, q)
  PROVE  ListsAt(P, M, S, F, q, v)
<1> SUFFICES ASSUME NEW o \in Of(O, q), o \notin S[q]
             PROVE  \E x \in Of(P, v) : /\ Connected(P, q, v, o, x)
                                        /\ Finished(P, M, F, q, v, x)
  BY DEF ListsAt, Evolution
<1>1. PICK x \in Of(O, v) : Connected(O, q, v, o, x) /\ Finished(O, M, F, q, v, x)
  BY DEF ListsAt
<1>2. Step(O, M, F, q, v, o, P[q][o]) /\ Step(O, M, F, v, q, x, P[v][x]) /\ x \in Of(P, v)
  BY DEF Evolution
<1>3. /\ P[q][o].dir = O[q][o].dir /\ P[q][o].peer = O[q][o].peer
      /\ P[v][x].dir = O[v][x].dir /\ P[v][x].peer = O[v][x].peer
      /\ Later(O[v][x], P[v][x]) /\ Sane(P[v][x])
  BY <1>2 DEF Step, Later
<1>4. Connected(P, q, v, o, x)
  BY <1>1, <1>3 DEF Connected, MadeFor
<1>5. CASE O[v][x].sentClose /\ O[v][x].call \in {"accepted", "OpenConfirm"}
  <2>1. /\ P[v][x].sentClose /\ P[v][x].call \in {"accepted", "OpenConfirm"}
        /\ ~P[v][x].sending
    BY <1>1, <1>3, <1>5 DEF Later, Finished
  <2> QED BY <1>1, <1>2, <1>4, <2>1 DEF Finished
<1>6. CASE O[v][x].call = "abandoned"
  <2>1. P[v][x].call = "abandoned"
    BY <1>3, <1>6 DEF Later
  <2>2. ~P[v][x].sending
    BY <1>3, <2>1 DEF Sane, SaneIn, SaneOut
  <2> QED BY <1>1, <1>2, <1>4, <2>1, <2>2 DEF Finished
<1> QED BY <1>1, <1>5, <1>6 DEF Finished

LEMMA EvolveFrames ==
  ASSUME NEW O, NEW P, NEW M, NEW F, NEW q, NEW v,
         FramesAt(O, M, F, q, v), PairsAt(O, F, v, q),
         Evolution(O, P, M, F, q, v), Evolution(O, P, M, F, v, q)
  PROVE  FramesAt(P, M, F, q, v)
<1> SUFFICES ASSUME NEW f \in M[q] PROVE Sent(P, F, q, v, f)
  BY DEF FramesAt
<1> DEFINE x == f.from
<1>1. Sent(O, F, q, v, f) /\ x \in Of(O, v)
  BY DEF FramesAt, Sent
<1>2. Step(O, M, F, v, q, x, P[v][x]) /\ x \in Of(P, v)
  BY <1>1 DEF Evolution
<1>3. /\ P[v][x].dir = O[v][x].dir /\ P[v][x].id = O[v][x].id
      /\ P[v][x].peer = O[v][x].peer
      /\ P[v][x].dir = "in" => P[v][x].rid = O[v][x].rid
      /\ Later(O[v][x], P[v][x]) /\ Sane(P[v][x])
  BY <1>2 DEF Step, Later
<1> HIDE DEF x
<1>4. ASSUME f.type = "Open"
      PROVE  OpenSent(P, q, v, f)
  <2>1. OpenSent(O, q, v, f)
    BY <1>1, <1>4 DEF Sent
  <2>2. P[v][x].dir = "out" /\ P[v][x].call # "encode" /\ P[v][x].id = f.sender
    BY <1>3, <2>1 DEF OpenSent, Later, x
  <2>3. ~Answered(P[v][x])
    BY <1>2, <1>4, <2>1 DEF OpenSent, Step, Unasked, x
  <2>4. ASSUME NEW p \in Of(P, q), MadeFor(P, q, p, x)
        PROVE  FALSE
    <3>1. p \in Of(O, q) /\ Step(O, M, F, q, v, p, P[q][p])
      BY DEF Evolution
    <3>2. MadeFor(O, q, p, x)
      BY <2>4, <3>1 DEF Later, Step, MadeFor
    <3> QED BY <2>1, <3>1, <3>2 DEF OpenSent, x
  <2> QED BY <2>2, <2>3, <2>4 DEF OpenSent, x
<1>5. ASSUME P[v][x].dir = "in"
      PROVE  /\ O[v][x].peer \in Of(O, q)
             /\ Step(O, M, F, q, v, O[v][x].peer, P[q][O[v][x].peer])
  <2>1. Pair(O, F, v, q, x)
    BY <1>1, <1>3, <1>5 DEF PairsAt
  <2>2. O[v][x].peer \in Of(O, q)
    BY <2>1 DEF Pair
  <2> QED BY <2>2 DEF Evolution
<1>6. ASSUME f.type \in Answers
      PROVE  AnswerSent(P, F, q, v, f)
  <2>1. AnswerSent(O, F, q, v, f)
    BY <1>1, <1>6 DEF Sent
  <2>2. /\ P[v][x].dir = "in" /\ P[v][x].rid = f.chan /\ P[v][x].id = f.sender
        /\ F[v] # x /\ ~Answered(O[q][O[v][x].peer])
    BY <1>3, <2>1 DEF AnswerSent, x
  <2>3. /\ f.type = "OpenConfirm" => P[v][x].call = "accepted"
        /\ f.type = "OpenFailure" => P[v][x].call = "abandoned"
    BY <1>3, <2>1 DEF AnswerSent, Later, x
  <2>4. ~Answered(P[q][P[v][x].peer])
    BY <1>3, <1>5, <1>6, <2>2 DEF Step, Unasked, x
  <2> QED BY <2>2, <2>3, <2>4 DEF AnswerSent, x
<1>7. ASSUME f.type = "Data"
      PROVE  DataSent(P, v, f)
  <2>1. DataSent(O, v, f)
    BY <1>1, <1>7 DEF Sent
  <2>2. P[v][x].rid = O[v][x].rid
    BY <1>2, <1>7 DEF Step, x
  <2>3. Held(P[v][x])
    BY <1>3, <2>1 DEF DataSent, Later, Held, x
  <2> QED BY <2>1, <2>2, <2>3 DEF DataSent, x
<1>8. ASSUME f.type = "Close"
      PROVE  CloseSent(P, F, q, v, f)
  <2>1. CloseSent(O, F, q, v, f)
    BY <1>1, <1>8 DEF Sent
  <2>2. P[v][x].rid = f.chan
    BY <1>2, <1>8, <2>1 DEF Step, CloseSent, x
  <2>3. P[v][x].sentClose /\ ~P[v][x].sending
    BY <1>3, <2>1 DEF CloseSent, Later, x
  <2>4. P[v][x].dir = "in" => /\ P[v][x].call = "accepted" /\ F[v] # x
                              /\ Returned(P[q][P[v][x].peer])
    <3> SUFFICES ASSUME P[v][x].dir = "in"
                 PROVE  /\ P[v][x].call = "accepted" /\ F[v] # x
                        /\ Returned(P[q][P[v][x].peer])
      OBVIOUS
    <3>1. O[v][x].call = "accepted" /\ F[v] # x /\ Returned(O[q][O[v][x].peer])
      BY <1>3, <2>1 DEF CloseSent, x
    <3>2. Later(O[q][O[v][x].peer], P[q][O[v][x].peer])
      BY <1>5 DEF Step
    <3>3. Returned(P[q][P[v][x].peer])
      BY <1>3, <3>1, <3>2, ReturnedKept
    <3> QED BY <1>3, <3>1, <3>3 DEF Later
  <2>5. P[v][x].dir = "out" => P[v][x].call = "OpenConfirm"
    BY <1>3, <2>1 DEF CloseSent, Later, x
  <2> QED BY <2>2, <2>3, <2>4, <2>5 DEF CloseSent, x
<1> QED BY <1>2, <1>4, <1>6, <1>7, <1>8 DEF Sent, x

LEMMA Evolve ==
  ASSUME NEW O, NEW P, NEW M, NEW S, NEW F, Hand(O, M, S, F),
         \A q \in Ends : Evolution(O, P, M, F, q, Peer(q))
  PROVE  Hand(P, M, S, F)
<1> SUFFICES ASSUME NEW q \in Ends PROVE HandAt(P, M, S, F, q, Peer(q))
  BY DEF Hand
<1> DEFINE v == Peer(q)
<1>1. HandAt(O, M, S, F, q, v) /\ HandAt(O, M, S, F, v, q)
  BY HandBoth
<1>2. Evolution(O, P, M, F, q, v) /\ Evolution(O, P, M, F, v, q)
  <2>1. Peer(q) \in Ends /\ Peer(Peer(q)) = q
    BY PeerFacts
  <2>2. Evolution(O, P, M, F, Peer(q), Peer(Peer(q)))
    BY <2>1
  <2>3. Evolution(O, P, M, F, Peer(q), q)
    BY <2>1, <2>2
  <2> QED BY <2>3
<1> HIDE DEF v
<1>3. \A p \in Of(P, q) : Sane(P[q][p])
  BY <1>2 DEF Later, Step, Evolution
<1>4. F[q] \in Of(P, q) => P[q][F[q]].dir = "in"
  BY <1>1, <1>2 DEF Later, Step, Evolution, HandAt
<1>5. /\ PairsAt(O, F, q, v) /\ ConfirmedAt(O, F, q, v) /\ FramesAt(O, M, F, q, v)
      /\ ListsAt(O, M, S, F, q, v) /\ PairsAt(O, F, v, q)
  BY <1>1 DEF HandAt
<1>6. PairsAt(P, F, q, v)
  BY <1>2, <1>5, EvolvePairs
<1>7. ConfirmedAt(P, F, q, v)
  BY <1>2, <1>5, EvolveConfirmed
<1>8. FramesAt(P, M, F, q, v)
  BY <1>2, <1>5, EvolveFrames
<1>9. ListsAt(P, M, S, F, q, v)
  BY <1>2, <1>5, EvolveLists
<1> QED BY <1>3, <1>4, <1>6, <1>7, <1>8, <1>9 DEF HandAt, v

\* One channel makes a step.
OneChanged(O, P, e, o) ==
  /\ \A q \in Ends : Of(P, q) = Of(O, q)
  /\ \A q \in Ends : \A p \in Of(O, q) : q # e \/ p # o => P[q][p] = O[q][p]

LEMMA Touch ==
  ASSUME NEW O, NEW P, NEW M, NEW S, NEW F, Hand(O, M, S, F), NEW e \in Ends, NEW o,
         OneChanged(O, P, e, o), Step(O, M, F, e, Peer(e), o, P[e][o])
  PROVE  Hand(P, M, S, F)
<1>1. ASSUME NEW q \in Ends, NEW p \in Of(O, q)
      PROVE  Step(O, M, F, q, Peer(q), p, P[q][p])
  <2>1. CASE q = e /\ p = o
    BY <2>1
  <2>2. CASE P[q][p] = O[q][p]
    <3>1. HandAt(O, M, S, F, q, Peer(q))
      BY DEF Hand
    <3>2. Sane(O[q][p])
      BY <3>1 DEF HandAt
    <3>3. Later(O[q][p], O[q][p])
      BY DEF Later
    <3>4. Step(O, M, F, q, Peer(q), p, O[q][p])
      BY <3>2, <3>3 DEF Step
    <3> QED BY <2>2, <3>4
  <2> QED BY <2>1, <2>2 DEF OneChanged
<1>2. \A q \in Ends : Evolution(O, P, M, F, q, Peer(q))
  BY <1>1 DEF Evolution, OneChanged
<1> QED BY <1>2, Evolve

-------------------------------------------------------------------------------
(* Changes of the rest *)

\* A frame is taken off the wire to e.
LEMMA Pop ==
  ASSUME NEW O, NEW M, NEW N, NEW S, NEW F, Hand(O, M, S, F),
         \A q \in Ends : N[q] \subseteq M[q]
  PROVE  Hand(O, N, S, F)
<1> SUFFICES ASSUME NEW q \in Ends PROVE HandAt(O, N, S, F, q, Peer(q))
  BY DEF Hand
<1> DEFINE v == Peer(q)
<1>1. HandAt(O, M, S, F, q, v) /\ N[q] \subseteq M[q]
  BY DEF Hand
<1> HIDE DEF v
<1>2. FramesAt(O, N, F, q, v)
  BY <1>1 DEF HandAt, FramesAt
<1>3. \A x : Finished(O, M, F, q, v, x) => Finished(O, N, F, q, v, x)
  BY <1>1 DEF Finished
<1>4. ListsAt(O, N, S, F, q, v)
  BY <1>1, <1>3 DEF HandAt, ListsAt
<1> QED BY <1>1, <1>2, <1>4 DEF HandAt, v

\* The frame f is put on the wire to e; unless it is an Open or late, the channel it
\* is for is listed.
Pushed(M, N, e, f) == N[e] = M[e] \union {f} /\ \A q \in Ends : q # e => N[q] = M[q]
Pushable(O, S, F, e, v, f) ==
  /\ Sent(O, F, e, v, f)
  /\ f.type # "Open" /\ ~f.late =>
       \A o \in Of(O, e) : Connected(O, e, v, o, f.from) => o \in S[e]

LEMMA Push ==
  ASSUME NEW O, NEW M, NEW N, NEW S, NEW F, Hand(O, M, S, F), NEW e \in Ends, NEW f,
         Pushed(M, N, e, f), Pushable(O, S, F, e, Peer(e), f)
  PROVE  Hand(O, N, S, F)
<1> SUFFICES ASSUME NEW q \in Ends PROVE HandAt(O, N, S, F, q, Peer(q))
  BY DEF Hand
<1> DEFINE v == Peer(q)
<1>1. HandAt(O, M, S, F, q, v)
  BY DEF Hand
<1>2. \A g \in N[q] : g \in M[q] \/ (q = e /\ g = f)
  <2>1. CASE q = e
    BY <2>1 DEF Pushed
  <2>2. CASE q # e
    BY <2>2 DEF Pushed
  <2> QED BY <2>1, <2>2
<1>3. FramesAt(O, N, F, q, v)
  BY <1>1, <1>2 DEF HandAt, FramesAt, Pushable
<1>4. ASSUME NEW o \in Of(O, q), o \notin S[q]
      PROVE  \E x \in Of(O, v) : Connected(O, q, v, o, x) /\ Finished(O, N, F, q, v, x)
  <2>1. PICK x \in Of(O, v) : Connected(O, q, v, o, x) /\ Finished(O, M, F, q, v, x)
    BY <1>1, <1>4 DEF HandAt, ListsAt
  <2>2. \A g \in N[q] : g.type # "Open" /\ ~g.late => g.from # x
    BY <1>2, <1>4, <2>1 DEF Finished, Pushable
  <2> QED BY <2>1, <2>2 DEF Finished
<1>5. ListsAt(O, N, S, F, q, v)
  BY <1>4 DEF ListsAt
<1> QED BY <1>1, <1>3, <1>5 DEF HandAt

\* A slot is given up whose peer is finished, or a loop ends.
LEMMA Relist ==
  ASSUME NEW O, NEW M, NEW S, NEW T, NEW F, Hand(O, M, S, F),
         \A q \in Ends : \A o \in Of(O, q) : o \in S[q] =>
           \/ o \in T[q]
           \/ \E x \in Of(O, Peer(q)) : /\ Connected(O, q, Peer(q), o, x)
                                        /\ Finished(O, M, F, q, Peer(q), x)
  PROVE  Hand(O, M, T, F)
<1> SUFFICES ASSUME NEW q \in Ends PROVE HandAt(O, M, T, F, q, Peer(q))
  BY DEF Hand
<1>1. HandAt(O, M, S, F, q, Peer(q))
  BY DEF Hand
<1>2. ListsAt(O, M, T, F, q, Peer(q))
  BY <1>1 DEF HandAt, ListsAt
<1> QED BY <1>1, <1>2 DEF HandAt

\* The offer of e is over.
LEMMA Unoffer ==
  ASSUME NEW O, NEW M, NEW S, NEW F, NEW G, Hand(O, M, S, F), NEW e \in Ends,
         G[e] \notin Of(O, e), \A q \in Ends : q # e => G[q] = F[q]
  PROVE  Hand(O, M, S, G)
<1> SUFFICES ASSUME NEW q \in Ends PROVE HandAt(O, M, S, G, q, Peer(q))
  BY DEF Hand
<1> DEFINE v == Peer(q)
<1>1. v \in Ends /\ HandAt(O, M, S, F, q, v) /\ HandAt(O, M, S, F, v, q)
  BY HandBoth
<1>2. /\ \A p \in Of(O, q) : G[q] = p => F[q] = p
      /\ \A p \in Of(O, v) : G[v] = p => F[v] = p
  BY <1>1
<1> HIDE DEF v
<1>3. PairsAt(O, G, q, v)
  BY <1>1, <1>2 DEF HandAt, PairsAt, Pair
<1>4. ConfirmedAt(O, G, q, v)
  BY <1>1, <1>2 DEF HandAt, ConfirmedAt, AcceptedAs
<1>5. FramesAt(O, M, G, q, v)
  BY <1>1, <1>2 DEF HandAt, FramesAt, Sent, AnswerSent, CloseSent
<1>6. ListsAt(O, M, S, G, q, v)
  BY <1>1, <1>2 DEF HandAt, ListsAt, Finished
<1>7. G[q] \in Of(O, q) => O[q][G[q]].dir = "in"
  BY <1>1, <1>2 DEF HandAt
<1> QED BY <1>1, <1>3, <1>4, <1>5, <1>6, <1>7 DEF HandAt, v

\* What newChannel makes for Open, and for handleOpen when the frames in M[e] are
\* left on the wire.
NewOut(O, F, G, e, n, c) ==
  /\ c.dir = "out" /\ c.call = "encode"
  /\ G[e] = F[e] /\ F[e] # n
NewIn(O, M, G, e, v, n, c) ==
  /\ c.dir = "in" /\ ~c.heard /\ ~c.sending
  /\ c.peer \in Of(O, v) /\ O[v][c.peer].dir = "out" /\ O[v][c.peer].call # "encode"
  /\ c.rid = O[v][c.peer].id /\ ~Answered(O[v][c.peer])
  /\ \A p \in Of(O, e) : ~MadeFor(O, e, p, c.peer)
  /\ \A f \in M[e] : f.type = "Open" => f.from # c.peer
  /\ G[e] = n

\* The channel n is added to those of e, and listed.
Grows(O, P, S, T, e, n) ==
  /\ n \notin Of(O, e) /\ Of(P, e) = Of(O, e) \union {n}
  /\ \A q \in Ends : q # e => Of(P, q) = Of(O, q)
  /\ \A q \in Ends : \A p \in Of(O, q) : P[q][p] = O[q][p]
  /\ n \in T[e] /\ \A q \in Ends : S[q] \subseteq T[q]
OthersKeep(F, G, e) == \A q \in Ends : q # e => G[q] = F[q]

LEMMA Add ==
  ASSUME NEW O, NEW P, NEW M, NEW S, NEW T, NEW F, NEW G, Hand(O, M, S, F),
         NEW e \in Ends, NEW n, Grows(O, P, S, T, e, n), OthersKeep(F, G, e),
         Sane(P[e][n]),
         NewOut(O, F, G, e, n, P[e][n]) \/ NewIn(O, M, G, e, Peer(e), n, P[e][n])
  PROVE  Hand(P, M, T, G)
<1> SUFFICES ASSUME n \notin Of(O, e), Of(P, e) = Of(O, e) \union {n},
                    \A q \in Ends : q # e => Of(P, q) = Of(O, q),
                    \A q \in Ends : \A p \in Of(O, q) : P[q][p] = O[q][p],
                    \A q \in Ends : S[q] \subseteq T[q], n \in T[e],
                    \A q \in Ends : q # e => G[q] = F[q]
             PROVE  Hand(P, M, T, G)
  BY DEF Grows, OthersKeep
<1> SUFFICES ASSUME NEW q \in Ends PROVE HandAt(P, M, T, G, q, Peer(q))
  BY DEF Hand
<1> DEFINE v == Peer(q)
<1>1. /\ v \in Ends /\ v # q
      /\ HandAt(O, M, S, F, q, v) /\ HandAt(O, M, S, F, v, q)
  BY HandBoth, PeerFacts
<1>2. /\ \A p \in Of(P, q) : p \in Of(O, q) \/ (q = e /\ p = n)
      /\ \A p \in Of(O, q) : p \in Of(P, q) /\ P[q][p] = O[q][p]
      /\ \A p \in Of(O, v) : p \in Of(P, v) /\ P[v][p] = O[v][p]
      /\ \A p \in Of(O, q) : G[q] = p => F[q] = p
      /\ \A p \in Of(O, v) : G[v] = p => F[v] = p
  <2>1. \A w \in Ends : \A p \in Of(P, w) : p \in Of(O, w) \/ (w = e /\ p = n)
    OBVIOUS
  <2>2. \A w \in Ends : \A p \in Of(O, w) : p \in Of(P, w) /\ P[w][p] = O[w][p]
    OBVIOUS
  <2>3. \A w \in Ends : \A p \in Of(O, w) : G[w] = p => F[w] = p
    BY DEF NewOut, NewIn
  <2> QED BY <1>1, <2>1, <2>2, <2>3
<1>3. ASSUME q = e, P[e][n].dir = "in"
      PROVE  NewIn(O, M, G, q, v, n, P[q][n])
  BY <1>3, Directions DEF NewOut
<1>4. ASSUME q = e, P[e][n].dir = "out"
      PROVE  ~Confirmed(P[q][n]) /\ G[q] # n
  <2>1. P[e][n].call = "encode" /\ G[q] # n
    BY <1>4, Directions DEF NewOut, NewIn
  <2>2. P[e][n].msg = <<>>
    BY <1>4, <2>1 DEF Sane, SaneOut
  <2> QED BY <1>4, <2>1, <2>2, SMTT(30) DEF Confirmed
<1>5. /\ n \in T[e] /\ S[q] \subseteq T[q] /\ n \notin Of(O, e)
      /\ Sane(P[e][n])
  OBVIOUS
<1> HIDE DEF v
<1>6. \A p \in Of(P, q) : Sane(P[q][p])
  BY <1>1, <1>2, <1>5 DEF HandAt
<1>7. G[q] \in Of(P, q) => P[q][G[q]].dir = "in"
  <2> SUFFICES ASSUME G[q] \in Of(P, q) PROVE P[q][G[q]].dir = "in"
    OBVIOUS
  <2>1. CASE G[q] \in Of(O, q)
    BY <1>1, <1>2, <2>1 DEF HandAt
  <2>2. CASE q = e /\ G[q] = n
    <3>1. P[e][n].dir # "out"
      BY <1>4, <2>2
    <3> QED BY <1>5, <2>2, <3>1 DEF Sane
  <2> QED BY <1>2, <2>1, <2>2
<1>8. PairsAt(P, G, q, v)
  <2> SUFFICES ASSUME NEW p \in Of(P, q), P[q][p].dir = "in" PROVE Pair(P, G, q, v, p)
    BY DEF PairsAt
  <2>1. CASE p \in Of(O, q)
    <3> DEFINE o == O[q][p].peer
    <3>1. Pair(O, F, q, v, p) /\ P[q][p] = O[q][p]
      BY <1>1, <1>2, <2>1 DEF HandAt, PairsAt
    <3>2. o \in Of(O, v) /\ P[v][o] = O[v][o] /\ o \in Of(P, v)
      BY <1>2, <3>1 DEF Pair
    <3>3. ASSUME NEW r \in Of(P, q), MadeFor(P, q, r, o)
          PROVE  r = p
      <4>1. CASE r \in Of(O, q)
        <5>1. MadeFor(O, q, r, o)
          BY <1>2, <3>3, <4>1 DEF MadeFor
        <5> QED BY <3>1, <4>1, <5>1 DEF Pair
      <4>2. CASE q = e /\ r = n
        <5>1. NewIn(O, M, G, q, v, n, P[q][n]) /\ P[q][n].peer = o
          BY <1>3, <3>3, <4>2 DEF MadeFor
        <5>2. MadeFor(O, q, p, o)
          BY <3>1 DEF MadeFor
        <5> QED BY <2>1, <4>2, <5>1, <5>2 DEF NewIn
      <4> QED BY <1>2, <4>1, <4>2
    <3>4. G[q] = p => F[q] = p
      BY <1>2, <2>1
    <3> HIDE DEF o
    <3>5. /\ O[v][o].dir = "out" /\ O[v][o].call # "encode" /\ O[q][p].rid = O[v][o].id
          /\ O[q][p].heard => Returned(O[v][o])
          /\ O[q][p].sending => Returned(O[v][o]) /\ F[q] # p
          /\ F[q] = p => ~Answered(O[v][o])
      BY <3>1 DEF Pair, o
    <3>6. P[q][p].peer = o
      BY <3>1 DEF o
    <3> QED BY <3>1, <3>2, <3>3, <3>4, <3>5, <3>6 DEF Pair
  <2>2. CASE q = e /\ p = n
    <3> DEFINE o == P[q][n].peer
    <3>1. NewIn(O, M, G, q, v, n, P[q][n])
      BY <1>3, <2>2
    <3>2. o \in Of(O, v) /\ P[v][o] = O[v][o] /\ o \in Of(P, v)
      BY <1>2, <3>1 DEF NewIn
    <3>3. ASSUME NEW r \in Of(P, q), MadeFor(P, q, r, o)
          PROVE  r = n
      <4> SUFFICES ASSUME r \in Of(O, q) PROVE FALSE
        BY <1>2
      <4>1. MadeFor(O, q, r, o)
        BY <1>2, <3>3 DEF MadeFor
      <4> QED BY <3>1, <4>1 DEF NewIn
    <3> HIDE DEF o
    <3>4. /\ O[v][o].dir = "out" /\ O[v][o].call # "encode" /\ P[q][n].rid = O[v][o].id
          /\ ~P[q][n].heard /\ ~P[q][n].sending /\ ~Answered(O[v][o])
      BY <3>1 DEF NewIn, o
    <3>5. P[q][p].peer = o
      BY <2>2 DEF o
    <3> QED BY <2>2, <3>2, <3>3, <3>4, <3>5 DEF Pair
  <2> QED BY <1>2, <2>1, <2>2
<1>9. ConfirmedAt(P, G, q, v)
  <2> SUFFICES ASSUME NEW o \in Of(P, q), P[q][o].dir = "out", Confirmed(P[q][o])
               PROVE  \E p \in Of(P, v) : AcceptedAs(P, G, v, o, P[q][o].rid, p)
    BY DEF ConfirmedAt
  <2>1. o \in Of(O, q) /\ P[q][o] = O[q][o]
    BY <1>2, <1>4
  <2>2. PICK p \in Of(O, v) : AcceptedAs(O, F, v, o, O[q][o].rid, p)
    BY <1>1, <2>1 DEF HandAt, ConfirmedAt
  <2>3. AcceptedAs(P, G, v, o, P[q][o].rid, p) /\ p \in Of(P, v)
    BY <1>2, <2>1, <2>2 DEF AcceptedAs, MadeFor
  <2> QED BY <2>3
<1>10. FramesAt(P, M, G, q, v)
  <2> SUFFICES ASSUME NEW f \in M[q] PROVE Sent(P, G, q, v, f)
    BY DEF FramesAt
  <2> DEFINE x == f.from
  <2>1. Sent(O, F, q, v, f) /\ x \in Of(O, v)
    BY <1>1 DEF HandAt, FramesAt, Sent
  <2>2. x \in Of(P, v) /\ P[v][x] = O[v][x] /\ (G[v] = x => F[v] = x)
    BY <1>2, <2>1
  <2>3. O[v][x].dir = "in" => P[q][O[v][x].peer] = O[q][O[v][x].peer]
    BY <1>1, <1>2, <2>1 DEF HandAt, PairsAt, Pair
  <2> HIDE DEF x
  <2>4. f.type = "Open" => OpenSent(P, q, v, f)
    <3> SUFFICES ASSUME f.type = "Open" PROVE OpenSent(P, q, v, f)
      OBVIOUS
    <3>1. OpenSent(O, q, v, f)
      BY <2>1 DEF Sent
    <3>2. ASSUME NEW p \in Of(P, q), MadeFor(P, q, p, x)
          PROVE  FALSE
      <4>1. CASE p \in Of(O, q)
        BY <1>2, <3>1, <3>2, <4>1 DEF OpenSent, MadeFor, x
      <4>2. CASE q = e /\ p = n
        BY <1>3, <3>2, <4>2 DEF NewIn, MadeFor, x
      <4> QED BY <1>2, <4>1, <4>2
    <3> QED BY <2>2, <3>1, <3>2 DEF OpenSent, x
  <2>5. f.type \in Answers => AnswerSent(P, G, q, v, f)
    BY <2>1, <2>2, <2>3 DEF Sent, AnswerSent, x
  <2>6. f.type = "Data" => DataSent(P, v, f)
    BY <2>1, <2>2 DEF Sent, DataSent, x
  <2>7. f.type = "Close" => CloseSent(P, G, q, v, f)
    BY <2>1, <2>2, <2>3 DEF Sent, CloseSent, x
  <2> QED BY <2>2, <2>4, <2>5, <2>6, <2>7 DEF Sent, x
<1>11. ListsAt(P, M, T, G, q, v)
  <2> SUFFICES ASSUME NEW o \in Of(P, q), o \notin T[q]
               PROVE  \E x \in Of(P, v) : /\ Connected(P, q, v, o, x)
                                          /\ Finished(P, M, G, q, v, x)
    BY DEF ListsAt
  <2>1. o \in Of(O, q) /\ o \notin S[q] /\ P[q][o] = O[q][o]
    BY <1>2, <1>5
  <2>2. PICK x \in Of(O, v) : Connected(O, q, v, o, x) /\ Finished(O, M, F, q, v, x)
    BY <1>1, <2>1 DEF HandAt, ListsAt
  <2>3. x \in Of(P, v) /\ P[v][x] = O[v][x] /\ (G[v] = x => F[v] = x)
    BY <1>2
  <2>4. Connected(P, q, v, o, x)
    BY <2>1, <2>2, <2>3 DEF Connected, MadeFor
  <2>5. Finished(P, M, G, q, v, x)
    BY <2>2, <2>3 DEF Finished
  <2> QED BY <2>3, <2>4, <2>5
<1> QED BY <1>6, <1>7, <1>8, <1>9, <1>10, <1>11 DEF HandAt, v

-------------------------------------------------------------------------------
(* Whom a frame is for *)

LEMMA OneOther ==
  ASSUME NEW O, NEW F, NEW q, NEW v, PairsAt(O, F, v, q), NEW o,
         NEW x \in Of(O, v), NEW y \in Of(O, v),
         Connected(O, q, v, o, x), Connected(O, q, v, o, y)
  PROVE  x = y
<1>1. CASE O[q][o].dir = "in"
  BY <1>1 DEF Connected
<1>2. CASE O[q][o].dir # "in"
  <2>1. MadeFor(O, v, x, o) /\ MadeFor(O, v, y, o)
    BY <1>2 DEF Connected
  <2>2. Pair(O, F, v, q, x) /\ O[v][x].peer = o
    BY <2>1 DEF PairsAt, MadeFor
  <2> QED BY <2>1, <2>2 DEF Pair
<1> QED BY <1>1, <1>2

\* Every frame but Open and late Data names the slot of a channel that is listed and connected to
\* its sender.
LEMMA Reaches ==
  ASSUME NEW O, NEW M, NEW S, NEW F, Hand(O, M, S, F), NEW q \in Ends, NEW f \in M[q],
         f.type \in {"OpenConfirm", "OpenFailure", "Data", "Close"}, ~f.late
  PROVE  \E o \in Of(O, q) : /\ o \in S[q] /\ O[q][o].id = f.chan
                             /\ Connected(O, q, Peer(q), o, f.from)
<1> DEFINE v == Peer(q)
           x == f.from
<1>1. HandAt(O, M, S, F, q, v) /\ HandAt(O, M, S, F, v, q)
  BY HandBoth
<1>2. Sent(O, F, q, v, f) /\ x \in Of(O, v) /\ Sane(O[v][x])
  BY <1>1 DEF HandAt, FramesAt, Sent
<1>3. PICK o \in Of(O, q) : O[q][o].id = f.chan /\ Connected(O, q, v, o, x)
  <2> HIDE DEF v, x
  <2>1. CASE O[v][x].dir = "in"
    <3>1. O[v][x].rid = f.chan
      BY <1>2, <2>1, Directions DEF Sent, AnswerSent, DataSent, CloseSent, Answers, x
    <3>2. Pair(O, F, v, q, x)
      BY <1>1, <1>2, <2>1 DEF HandAt, PairsAt
    <3> DEFINE o == O[v][x].peer
    <3>3. o \in Of(O, q) /\ O[q][o].dir = "out" /\ O[q][o].id = f.chan
      BY <3>1, <3>2 DEF Pair
    <3>4. Connected(O, q, v, o, x)
      BY <2>1, <3>3, Directions DEF Connected, MadeFor
    <3> QED BY <3>3, <3>4
  <2>2. CASE O[v][x].dir = "out"
    <3>1. O[v][x].rid = f.chan /\ O[v][x].call = "OpenConfirm"
      <4>1. O[v][x].call # "accepted"
        BY <1>2, <2>2, Directions DEF Sane, SaneOut
      <4> QED BY <1>2, <2>2, <4>1, Directions
                 DEF Sent, AnswerSent, DataSent, CloseSent, Answers, Held, x
    <3>2. PICK o \in Of(O, q) : AcceptedAs(O, F, q, x, O[v][x].rid, o)
      BY <1>1, <1>2, <2>2, <3>1 DEF HandAt, ConfirmedAt, Confirmed
    <3>3. O[q][o].id = f.chan /\ Connected(O, q, v, o, x)
      BY <2>2, <3>1, <3>2 DEF AcceptedAs, MadeFor, Connected
    <3> QED BY <3>3
  <2> QED BY <1>2, <2>1, <2>2 DEF Sane
<1>4. o \in S[q]
  <2> SUFFICES ASSUME o \notin S[q] PROVE FALSE
    OBVIOUS
  <2>1. PICK y \in Of(O, v) : Connected(O, q, v, o, y) /\ Finished(O, M, F, q, v, y)
    BY <1>1 DEF HandAt, ListsAt
  <2>2. PairsAt(O, F, v, q)
    BY <1>1 DEF HandAt
  <2> HIDE DEF v, x
  <2>3. x = y
    BY <1>2, <1>3, <2>1, <2>2, OneOther
  <2> QED BY <2>1, <2>3 DEF Finished, x
<1> QED BY <1>3, <1>4

-------------------------------------------------------------------------------
(* The wires *)

\* f may follow what is on the wire to e.
Follows(w, e, f) == Ordered(w[e]) /\ \A g \in Wires(w)[e] : Before(g, f)

LEMMA WiresAppend ==
  ASSUME NEW w \in [Ends -> Seq(Packets)], NEW e \in Ends, NEW f \in Packets, NEW u,
         u = [w EXCEPT ![e] = Append(@, f)]
  PROVE  /\ Pushed(Wires(w), Wires(u), e, f)
         /\ \A q \in Ends : q # e => u[q] = w[q]
         /\ Follows(w, e, f) => Ordered(u[e])
<1> DEFINE s == w[e]
           t == Append(s, f)
<1>1. s \in Seq(Packets) /\ Len(s) \in Nat
  BY SMTT(30)
<1>2. u[e] = t /\ \A q \in Ends : q # e => u[q] = w[q]
  OBVIOUS
<1>3. /\ Len(t) = Len(s) + 1 /\ t[Len(s) + 1] = f
      /\ \A i \in 1 .. Len(s) : t[i] = s[i]
  BY <1>1, SMTT(30)
<1> HIDE DEF t, s
<1>4. /\ \A i \in 1 .. Len(t) : i \in 1 .. Len(s) \/ i = Len(s) + 1
      /\ \A i \in 1 .. Len(s) : i \in 1 .. Len(t)
      /\ Len(s) + 1 \in 1 .. Len(t)
  BY <1>1, <1>3, SMTT(30)
<1>5. {t[i] : i \in 1 .. Len(t)} = {s[i] : i \in 1 .. Len(s)} \union {f}
  BY <1>3, <1>4
<1>6. Wires(u)[e] = Wires(w)[e] \union {f}
  BY <1>2, <1>5 DEF Wires, s
<1>7. \A q \in Ends : q # e => Wires(u)[q] = Wires(w)[q]
  BY <1>2 DEF Wires
<1>8. ASSUME \A g \in Wires(w)[e] : Before(g, f), Ordered(s)
      PROVE  Ordered(t)
  <2> SUFFICES ASSUME NEW i \in 1 .. Len(t), NEW j \in 1 .. Len(t), i < j
               PROVE  Before(t[i], t[j])
    BY DEF Ordered
  <2>1. i \in 1 .. Len(s)
    BY <1>1, <1>3, SMTT(30)
  <2>2. CASE j \in 1 .. Len(s)
    BY <1>3, <1>8, <2>1, <2>2 DEF Ordered
  <2>3. CASE j = Len(s) + 1
    <3>1. s[i] \in Wires(w)[e]
      BY <2>1 DEF Wires, s
    <3> QED BY <1>3, <1>8, <2>1, <2>3, <3>1
  <2> QED BY <1>4, <2>2, <2>3
<1> QED BY <1>2, <1>6, <1>7, <1>8 DEF s, Pushed, Follows

LEMMA WiresTail ==
  ASSUME Types, NEW e \in Ends, wire[e] # <<>>, Ordered(wire[e])
  PROVE  /\ Head(wire[e]) \in On[e]
         /\ \A q \in Ends : Wires(Rest(e))[q] \subseteq On[q]
         /\ \A q \in Ends : q # e => Wires(Rest(e))[q] = On[q] /\ Rest(e)[q] = wire[q]
         /\ \A g \in Wires(Rest(e))[e] : Before(Head(wire[e]), g)
         /\ Ordered(Rest(e)[e])
<1> DEFINE s == wire[e]
           t == Tail(s)
           u == Rest(e)
<1>1. wire \in [Ends -> Seq(Packets)] /\ s \in Seq(Packets) /\ Len(s) \in Nat \ {0}
  BY SMTT(30) DEF Types
<1>2. u[e] = t /\ \A q \in Ends : q # e => u[q] = wire[q]
  BY <1>1 DEF Rest
<1>3. /\ Len(t) = Len(s) - 1 /\ Head(s) = s[1]
      /\ \A i \in 1 .. Len(t) : t[i] = s[i + 1]
  BY <1>1, SMTT(30)
<1> HIDE DEF t, s, u
<1>4. 1 \in 1 .. Len(s) /\ \A i \in 1 .. Len(t) : i + 1 \in 1 .. Len(s) /\ 1 < i + 1
  BY <1>1, <1>3, SMTT(30)
<1>5. s[1] \in {s[i] : i \in 1 .. Len(s)}
  BY <1>4
<1>6. {t[i] : i \in 1 .. Len(t)} \subseteq {s[i] : i \in 1 .. Len(s)}
  <2> SUFFICES ASSUME NEW i \in 1 .. Len(t)
               PROVE  t[i] \in {s[j] : j \in 1 .. Len(s)}
    OBVIOUS
  <2>1. t[i] = s[i + 1] /\ i + 1 \in 1 .. Len(s)
    BY <1>3, <1>4
  <2> QED BY <2>1
<1>7. Wires(u)[e] = {t[i] : i \in 1 .. Len(t)} /\ On[e] = {s[i] : i \in 1 .. Len(s)}
  BY <1>2 DEF Wires, On, s
<1>8. \A q \in Ends : q # e => Wires(u)[q] = On[q]
  BY <1>2 DEF Wires, On
<1>9. \A q \in Ends : Wires(u)[q] \subseteq On[q]
  BY <1>6, <1>7, <1>8
<1>10. \A g \in Wires(u)[e] : Before(s[1], g)
  <2> SUFFICES ASSUME NEW i \in 1 .. Len(t) PROVE Before(s[1], t[i])
    BY <1>7
  <2>1. Before(s[1], s[i + 1])
    BY <1>4 DEF Ordered, s
  <2> QED BY <1>3, <2>1
<1>11. Ordered(t)
  <2> SUFFICES ASSUME NEW i \in 1 .. Len(t), NEW j \in 1 .. Len(t), i < j
               PROVE  Before(t[i], t[j])
    BY DEF Ordered
  <2>1. i + 1 < j + 1
    BY <1>1, <1>3, SMTT(30)
  <2>2. Before(s[i + 1], s[j + 1])
    BY <1>4, <2>1 DEF Ordered, s
  <2> QED BY <1>3, <2>2
<1> QED BY <1>2, <1>3, <1>5, <1>7, <1>8, <1>9, <1>10, <1>11 DEF s, u

-------------------------------------------------------------------------------
(* The users of the channels *)

LEMMA SetHand ==
  ASSUME Types, NEW M, NEW S, Hand(objs, M, S, offer), NEW e \in Ends, NEW o \in Objects(e),
         NEW d \in Channels, Set(e, o, d), Step(objs, M, offer, e, Peer(e), o, d)
  PROVE  Hand(objs', M, S, offer)
<1>1. Becomes(e, o, d)
  BY SetFacts
<1>2. OneChanged(objs, objs', e, o)
  BY <1>1 DEF OneChanged, Becomes, Of, Objects
<1>3. Step(objs, M, offer, e, Peer(e), o, objs'[e][o])
  BY <1>1 DEF Becomes
<1> QED BY <1>2, <1>3, Touch

LEMMA SureSame ==
  ASSUME Types, NEW e \in Ends, NEW o \in Objects(e), NEW d \in Channels, Set(e, o, d),
         d.id = objs[e][o].id, chans' = chans, \A q \in Ends : Live(q)' = Live(q)
  PROVE  Sure' = Sure
<1>1. /\ \A q \in Ends : Objects(q)' = Objects(q)
      /\ \A q \in Ends : \A p \in Objects(q) : objs'[q][p].id = objs[q][p].id
  <2>1. Becomes(e, o, d)
    BY SetFacts
  <2> QED BY <2>1 DEF Becomes
<1>2. ASSUME NEW q \in Ends
      PROVE  {o_1 \in Objects(q)' : Live(q)' => GetChan(chans'[q], objs'[q][o_1].id) = o_1}
               = {o_1 \in Objects(q) : Live(q) => GetChan(chans[q], objs[q][o_1].id) = o_1}
  BY <1>1
<1> QED BY <1>2 DEF Sure

LEMMA OffersKept ==
  ASSUME HandInv, NEW e \in Ends, NEW o \in Objects(e), NEW d \in Channels, Set(e, o, d),
         d.dir = objs[e][o].dir, d.dir = "in" => d.call = objs[e][o].call,
         UNCHANGED <<loop, offer>>
  PROVE  \A q \in Ends : OffersAt(q)'
<1> SUFFICES ASSUME NEW q \in Ends PROVE OffersAt(q)'
  OBVIOUS
<1>0. Types /\ OffersAt(q) /\ (loop[q] \in Offering => offer[q] \in Objects(q))
  BY DEF HandInv, ListInv
<1>1. /\ objs'[e][o] = d
      /\ \A p \in Objects(e) : p # o => objs'[e][p] = objs[e][p]
      /\ \A w \in Ends : w # e => objs'[w] = objs[w]
  <2>1. Becomes(e, o, d)
    BY <1>0, SetFacts
  <2> QED BY <2>1 DEF Becomes
<1>2. CASE loop[q] \in Offering
  <2>1. objs[q][offer[q]].dir = "in"
    BY <1>0, <1>2 DEF OffersAt
  <2>2. /\ objs'[q][offer[q]].dir = objs[q][offer[q]].dir
        /\ objs'[q][offer[q]].call = objs[q][offer[q]].call
    BY <1>0, <1>1, <1>2, <2>1
  <2> QED BY <1>0, <2>2 DEF OffersAt
<1>3. CASE loop[q] \notin Offering
  <2>1. loop[q] # "offer" /\ loop[q] # "confirm" /\ loop[q] # "fail"
    BY <1>3 DEF Offering
  <2> QED BY <1>0, <1>3, <2>1 DEF OffersAt
<1> QED BY <1>2, <1>3

LEMMA Settle ==
  ASSUME HandInv, ListInv', NEW e \in Ends, NEW o \in Objects(e), NEW d \in Channels,
         Set(e, o, d), Step(objs, On, offer, e, Peer(e), o, d),
         d.dir = "in" => d.call = objs[e][o].call, UNCHANGED <<wire, chans, loop, offer>>
  PROVE  HandInv'
<1>0. Types /\ Hand(objs, On, Sure, offer) /\ \A q \in Ends : Ordered(wire[q])
  BY DEF HandInv, ListInv
<1>1. d.dir = objs[e][o].dir /\ d.id = objs[e][o].id
  BY DEF Step, Later
<1>2. Hand(objs', On, Sure, offer)
  BY <1>0, SetHand
<1>3. Sure' = Sure
  <2>1. \A q \in Ends : Live(q)' = Live(q)
    BY DEF Live
  <2> QED BY <1>0, <1>1, <2>1, SureSame
<1>4. On' = On
  BY DEF On
<1>5. Hand(objs', On', Sure', offer')
  BY <1>2, <1>3, <1>4
<1>6. \A q \in Ends : OffersAt(q)'
  BY <1>1, OffersKept
<1> QED BY <1>0, <1>5, <1>6 DEF HandInv

\* The channel a frame of o would be for is listed as long as o is not finished.
LEMMA PartnerListed ==
  ASSUME NEW O, NEW M, NEW S, NEW F, Hand(O, M, S, F), NEW e \in Ends, NEW v, v = Peer(e),
         NEW o \in Of(O, e), ~Finished(O, M, F, v, e, o),
         NEW p \in Of(O, v), Connected(O, v, e, p, o)
  PROVE  p \in S[v]
<1> SUFFICES ASSUME p \notin S[v] PROVE FALSE
  OBVIOUS
<1>1. HandAt(O, M, S, F, v, e) /\ PairsAt(O, F, e, v)
  <2>1. HandAt(O, M, S, F, v, e) /\ HandAt(O, M, S, F, e, v)
    BY HandBoth
  <2> QED BY <2>1 DEF HandAt
<1>2. PICK x \in Of(O, e) : Connected(O, v, e, p, x) /\ Finished(O, M, F, v, e, x)
  BY <1>1 DEF HandAt, ListsAt
<1>3. x = o
  BY <1>1, <1>2, OneOther
<1> QED BY <1>2, <1>3

\* A frame is put on the transport w.
LEMMA Sends ==
  ASSUME NEW O, NEW S, NEW F, NEW w \in [Ends -> Seq(Packets)], Hand(O, Wires(w), S, F),
         \A q \in Ends : Ordered(w[q]), NEW e \in Ends, NEW v, v = Peer(e),
         NEW f \in Packets, EncodeOK(w, e, f), \A g \in Wires(w)[v] : Before(g, f),
         Pushable(O, S, F, v, e, f)
  PROVE  Hand(O, Wires(wire'), S, F) /\ \A q \in Ends : Ordered(wire'[q])
<1>1. v \in Ends /\ Peer(v) = e
  BY PeerFacts
<1>2. wire' = [w EXCEPT ![v] = Append(@, f)]
  BY DEF EncodeOK
<1>3. Follows(w, v, f)
  BY <1>1 DEF Follows
<1>4. /\ Pushed(Wires(w), Wires(wire'), v, f)
      /\ \A q \in Ends : q # v => wire'[q] = w[q]
      /\ Ordered(wire'[v])
  BY <1>1, <1>2, <1>3, WiresAppend
<1>5. Pushable(O, S, F, v, Peer(v), f)
  BY <1>1
<1>6. Hand(O, Wires(wire'), S, F)
  BY <1>1, <1>4, <1>5, Push
<1>7. \A q \in Ends : Ordered(wire'[q])
  BY <1>4
<1> QED BY <1>6, <1>7

\* A channel that is not finished sends a frame.
LEMMA SettlePush ==
  ASSUME HandInv, ListInv', NEW e \in Ends, NEW o \in Objects(e), NEW d \in Channels,
         Set(e, o, d), Step(objs, On, offer, e, Peer(e), o, d),
         d.dir = "in" => d.call = objs[e][o].call, UNCHANGED <<chans, loop, offer>>,
         NEW f \in Packets, EncodeOK(wire, e, f), f.from = o,
         Sent(objs', offer, Peer(e), e, f), \A g \in On[Peer(e)] : Before(g, f),
         f.type = "Open" \/ f.late \/ ~Finished(objs, On, offer, Peer(e), e, o)
  PROVE  HandInv'
<1> DEFINE v == Peer(e)
<1>0. /\ Types /\ Hand(objs, On, Sure, offer) /\ \A q \in Ends : Ordered(wire[q])
      /\ wire \in [Ends -> Seq(Packets)]
  BY DEF HandInv, ListInv, Types
<1>1. d.dir = objs[e][o].dir /\ d.id = objs[e][o].id /\ d.peer = objs[e][o].peer
  BY DEF Step, Later
<1>2. Hand(objs', On, Sure, offer)
  BY <1>0, SetHand
<1>3. Sure' = Sure
  <2>1. \A q \in Ends : Live(q)' = Live(q)
    BY DEF Live
  <2> QED BY <1>0, <1>1, <2>1, SureSame
<1>4. v \in Ends /\ v # e /\ Peer(v) = e
  BY PeerFacts
<1>5. ASSUME f.type # "Open", ~f.late, NEW p \in Of(objs', v), Connected(objs', v, e, p, o)
      PROVE  p \in Sure[v]
  <2>1. /\ objs'[e][o] = d /\ objs'[v] = objs[v] /\ p \in Of(objs, v) /\ o \in Of(objs, e)
    <3>1. Becomes(e, o, d)
      BY <1>0, SetFacts
    <3> QED BY <1>4, <3>1 DEF Of, Objects, Becomes
  <2>2. Connected(objs, v, e, p, o)
    BY <1>1, <1>5, <2>1 DEF Connected, MadeFor
  <2> QED BY <1>0, <1>5, <2>1, <2>2, PartnerListed
<1> HIDE DEF v
<1>6. Hand(objs', Wires(wire'), Sure, offer) /\ \A q \in Ends : Ordered(wire'[q])
  <2>1. Pushable(objs', Sure, offer, v, e, f)
    BY <1>5 DEF Pushable, v
  <2>2. Hand(objs', Wires(wire), Sure, offer) /\ \A g \in Wires(wire)[v] : Before(g, f)
    BY <1>2 DEF On, v
  <2> QED BY <1>0, <2>1, <2>2, Sends DEF v
<1>7. Hand(objs', Wires(wire'), Sure', offer')
  BY <1>3, <1>6
<1>8. \A q \in Ends : OffersAt(q)'
  BY <1>1, OffersKept
<1> QED BY <1>6, <1>7, <1>8 DEF HandInv, On

-------------------------------------------------------------------------------
(* The steps of a channel *)

LEMMA CallFields ==
  ASSUME NEW c \in Channels, NEW k
  PROVE  LET d == [c EXCEPT !.call = k] IN
         /\ d.dir = c.dir /\ d.id = c.id /\ d.peer = c.peer /\ d.rid = c.rid
         /\ d.msg = c.msg /\ d.writing = c.writing /\ d.call = k
         /\ d.sentClose = c.sentClose /\ d.sending = c.sending /\ d.heard = c.heard
BY DEF Channels

LEMMA CloseFields ==
  ASSUME NEW c \in Channels
  PROVE  LET d == [c EXCEPT !.sentClose = TRUE, !.sending = TRUE] IN
         /\ d.dir = c.dir /\ d.id = c.id /\ d.peer = c.peer /\ d.rid = c.rid
         /\ d.msg = c.msg /\ d.writing = c.writing /\ d.call = c.call
         /\ d.sentClose /\ d.sending /\ d.heard = c.heard
BY DEF Channels

LEMMA SendingFields ==
  ASSUME NEW c \in Channels
  PROVE  LET d == [c EXCEPT !.sending = FALSE] IN
         /\ d.dir = c.dir /\ d.id = c.id /\ d.peer = c.peer /\ d.rid = c.rid
         /\ d.msg = c.msg /\ d.writing = c.writing /\ d.call = c.call
         /\ d.sentClose = c.sentClose /\ ~d.sending /\ d.heard = c.heard
BY DEF Channels

LEMMA WriteFields ==
  ASSUME NEW c \in Channels, NEW w
  PROVE  LET d == [c EXCEPT !.writing = w] IN
         /\ d.dir = c.dir /\ d.id = c.id /\ d.peer = c.peer /\ d.rid = c.rid
         /\ d.msg = c.msg /\ d.writing = w /\ d.call = c.call
         /\ d.sentClose = c.sentClose /\ d.sending = c.sending /\ d.heard = c.heard
BY DEF Channels

LEMMA HeardFields ==
  ASSUME NEW c \in Channels, NEW h
  PROVE  LET d == [c EXCEPT !.heard = h] IN
         /\ d.dir = c.dir /\ d.id = c.id /\ d.peer = c.peer /\ d.rid = c.rid
         /\ d.msg = c.msg /\ d.writing = c.writing /\ d.call = c.call
         /\ d.sentClose = c.sentClose /\ d.sending = c.sending /\ d.heard = h
BY DEF Channels

LEMMA ClosedFields ==
  ASSUME NEW c \in Channels
  PROVE  LET d == Closed(c) IN
         /\ d.dir = c.dir /\ d.id = c.id /\ d.peer = c.peer /\ d.rid = c.rid
         /\ d.msg = c.msg /\ d.writing = c.writing /\ d.call = c.call
         /\ d.sentClose /\ d.sending = c.sending /\ d.heard = c.heard
BY DEF Channels, Closed

\* A step that learns nothing from the peer.
LEMMA OwnStep ==
  ASSUME NEW O, NEW M, NEW F, NEW q, NEW v, NEW p, NEW d,
         Later(O[q][p], d), Sane(d), Answered(d) => Answered(O[q][p]),
         Confirmed(d) => Confirmed(O[q][p]), d.rid = O[q][p].rid,
         d.dir = "in" =>
           /\ d.heard => O[q][p].heard
           /\ d.sending => O[q][p].sending \/ (Returned(O[v][d.peer]) /\ F[q] # p)
  PROVE  Step(O, M, F, q, v, p, d)
BY DEF Step

LEMMA CallStep ==
  ASSUME NEW c \in Channels, Sane(c), NEW k \in {"wait", "error", "ErrClosed", "cancelled"},
         c.call \in {"encode", "wait"}, NEW d, d = [c EXCEPT !.call = k]
  PROVE  /\ Later(c, d) /\ Sane(d) /\ (Answered(d) => Answered(c))
         /\ (Confirmed(d) => Confirmed(c)) /\ d.rid = c.rid /\ d.dir = "out"
<1>1. /\ d.dir = c.dir /\ d.id = c.id /\ d.peer = c.peer /\ d.rid = c.rid
      /\ d.msg = c.msg /\ d.writing = c.writing /\ d.call = k
      /\ d.sentClose = c.sentClose /\ d.sending = c.sending
  BY CallFields
<1>2. /\ k \notin {"offered", "accepted", "abandoned", "encode", "OpenConfirm"}
      /\ k \notin Answers
      /\ c.call \notin {"offered", "accepted", "abandoned", "OpenConfirm"}
  BY DEF Answers
<1>3. c.dir = "out"
  BY <1>2 DEF Sane, SaneIn
<1>4. ~c.writing /\ ~c.sending /\ c.msg \in {<<>>, <<"OpenConfirm">>, <<"OpenFailure">>}
  BY <1>2, <1>3 DEF Sane, SaneOut
<1>5. Later(c, d)
  BY <1>1, <1>2, <1>4 DEF Later
<1>6. Sane(d)
  BY <1>1, <1>2, <1>3, <1>4, Directions DEF Sane, SaneOut
<1>7. (Answered(d) => Answered(c)) /\ (Confirmed(d) => Confirmed(c))
  BY <1>1, <1>2 DEF Answered, Confirmed
<1> QED BY <1>1, <1>3, <1>5, <1>6, <1>7

LEMMA OneMessage ==
  ASSUME NEW t
  PROVE  Head(<<t>>) = t /\ Tail(<<t>>) = <<>> /\ Append(<<>>, t) = <<t>> /\ <<t>> # <<>>
  BY SMTT(30)

LEMMA ReplyStep ==
  ASSUME NEW c \in Channels, Sane(c), c.call = "wait", c.msg # <<>>, NEW d,
         d = [c EXCEPT !.call = Head(c.msg), !.msg = Tail(@)]
  PROVE  /\ Later(c, d) /\ Sane(d) /\ (Answered(d) => Answered(c))
         /\ (Confirmed(d) => Confirmed(c)) /\ d.rid = c.rid /\ d.dir = "out"
<1>1. c.dir = "out"
  BY DEF Sane, SaneIn
<1>2. c.msg \in {<<"OpenConfirm">>, <<"OpenFailure">>} /\ ~c.writing /\ ~c.sending
  BY <1>1 DEF Sane, SaneOut
<1>3. /\ Tail(c.msg) = <<>> /\ Head(c.msg) \in {"OpenConfirm", "OpenFailure"}
      /\ c.msg = <<Head(c.msg)>>
  <2>1. \A t : Head(<<t>>) = t /\ Tail(<<t>>) = <<>>
    BY OneMessage
  <2> QED BY <1>2, <2>1
<1>4. /\ d.dir = c.dir /\ d.id = c.id /\ d.peer = c.peer /\ d.rid = c.rid
      /\ d.msg = <<>> /\ d.writing = c.writing /\ d.call = Head(c.msg)
      /\ d.sentClose = c.sentClose /\ d.sending = c.sending
  <2> DEFINE k == Head(c.msg)
             m == Tail(c.msg)
  <2>1. d = [c EXCEPT !.call = k, !.msg = m]
    OBVIOUS
  <2> HIDE DEF k, m
  <2>2. /\ d.dir = c.dir /\ d.id = c.id /\ d.peer = c.peer /\ d.rid = c.rid
        /\ d.msg = m /\ d.writing = c.writing /\ d.call = k
        /\ d.sentClose = c.sentClose /\ d.sending = c.sending
    BY <2>1 DEF Channels
  <2> QED BY <1>3, <2>2 DEF k, m
<1>5. Later(c, d)
  BY <1>2, <1>3, <1>4 DEF Later
<1>6. Sane(d)
  <2>1. d.call \in {"OpenConfirm", "OpenFailure"}
    BY <1>3, <1>4
  <2>2. d.call \notin {"offered", "accepted", "abandoned", "encode"}
    BY <2>1
  <2> QED BY <1>1, <1>2, <1>4, <2>2, Directions DEF Sane, SaneOut
<1>7. Answered(c) /\ (Confirmed(d) => Confirmed(c))
  <2>1. Confirmed(d) => d.call = "OpenConfirm"
    BY <1>4, SMTT(30) DEF Confirmed
  <2>2. d.call = "OpenConfirm" => c.msg = <<"OpenConfirm">>
    BY <1>3, <1>4
  <2> QED BY <2>1, <2>2 DEF Answered, Confirmed
<1> QED BY <1>1, <1>4, <1>5, <1>6, <1>7

LEMMA CloseStep ==
  ASSUME NEW c \in Channels, Sane(c), Held(c), ~c.sentClose, NEW d,
         d = [c EXCEPT !.sentClose = TRUE, !.sending = TRUE]
  PROVE  /\ Later(c, d) /\ Sane(d) /\ (Answered(d) => Answered(c))
         /\ (Confirmed(d) => Confirmed(c)) /\ d.rid = c.rid /\ d.dir = c.dir
         /\ d.peer = c.peer /\ d.call = c.call /\ (d.heard => c.heard)
<1>1. /\ d.dir = c.dir /\ d.id = c.id /\ d.peer = c.peer /\ d.rid = c.rid
      /\ d.msg = c.msg /\ d.writing = c.writing /\ d.call = c.call
      /\ d.sentClose /\ d.sending /\ d.heard = c.heard
  BY CloseFields
<1>2. Later(c, d)
  BY <1>1 DEF Later
<1>3. (c.dir = "in" => c.call = "accepted") /\ (c.dir = "out" => c.call = "OpenConfirm")
  BY DEF Sane, SaneIn, SaneOut, Held
<1>4. Sane(d)
  BY <1>1, <1>3 DEF Sane, SaneIn, SaneOut
<1>5. (Answered(d) => Answered(c)) /\ (Confirmed(d) => Confirmed(c))
  BY <1>1 DEF Answered, Confirmed
<1> QED BY <1>1, <1>2, <1>4, <1>5

LEMMA SendingStep ==
  ASSUME NEW c \in Channels, Sane(c), NEW d, d = [c EXCEPT !.sending = FALSE]
  PROVE  /\ Later(c, d) /\ Sane(d) /\ (Answered(d) => Answered(c))
         /\ (Confirmed(d) => Confirmed(c)) /\ d.rid = c.rid /\ d.dir = c.dir
         /\ d.peer = c.peer /\ d.call = c.call /\ (d.heard => c.heard) /\ ~d.sending
         /\ d.sentClose = c.sentClose /\ d.writing = c.writing
<1>1. /\ d.dir = c.dir /\ d.id = c.id /\ d.peer = c.peer /\ d.rid = c.rid
      /\ d.msg = c.msg /\ d.writing = c.writing /\ d.call = c.call
      /\ d.sentClose = c.sentClose /\ ~d.sending /\ d.heard = c.heard
  BY SendingFields
<1>2. Later(c, d)
  BY <1>1 DEF Later
<1>3. Sane(d)
  BY <1>1 DEF Sane, SaneIn, SaneOut
<1>4. (Answered(d) => Answered(c)) /\ (Confirmed(d) => Confirmed(c))
  BY <1>1 DEF Answered, Confirmed
<1> QED BY <1>1, <1>2, <1>3, <1>4

LEMMA WriteStep ==
  ASSUME NEW c \in Channels, Sane(c), Held(c), NEW w \in BOOLEAN, NEW d,
         d = [c EXCEPT !.writing = w]
  PROVE  /\ Later(c, d) /\ Sane(d) /\ (Answered(d) => Answered(c))
         /\ (Confirmed(d) => Confirmed(c)) /\ d.rid = c.rid /\ d.dir = c.dir
         /\ d.call = c.call /\ d.heard = c.heard /\ d.sending = c.sending
<1>1. /\ d.dir = c.dir /\ d.id = c.id /\ d.peer = c.peer /\ d.rid = c.rid
      /\ d.msg = c.msg /\ d.writing = w /\ d.call = c.call
      /\ d.sentClose = c.sentClose /\ d.sending = c.sending /\ d.heard = c.heard
  BY WriteFields
<1>2. (c.dir = "in" => c.call = "accepted") /\ (c.dir = "out" => c.call = "OpenConfirm")
  BY DEF Sane, SaneIn, SaneOut, Held
<1>3. Later(c, d)
  BY <1>1 DEF Later
<1>4. Sane(d)
  BY <1>1, <1>2 DEF Sane, SaneIn, SaneOut
<1>5. (Answered(d) => Answered(c)) /\ (Confirmed(d) => Confirmed(c))
  BY <1>1 DEF Answered, Confirmed
<1> QED BY <1>1, <1>3, <1>4, <1>5

-------------------------------------------------------------------------------
(* The actions of the users *)

\* What is known of a channel o of e, of its peer v, and of the frames it sent.
LEMMA HandFacts ==
  ASSUME HandInv, NEW e \in Ends, NEW o \in Objects(e)
  PROVE  LET v == Peer(e) IN
         /\ Types /\ Hand(objs, On, Sure, offer) /\ v \in Ends /\ v # e /\ Peer(v) = e
         /\ HandAt(objs, On, Sure, offer, e, v) /\ HandAt(objs, On, Sure, offer, v, e)
         /\ o \in Nat /\ o \in Of(objs, e) /\ objs[e][o] \in Channels /\ Sane(objs[e][o])
<1>1. Types /\ Hand(objs, On, Sure, offer)
  BY DEF HandInv, ListInv
<1>2. /\ Peer(e) \in Ends /\ Peer(e) # e /\ Peer(Peer(e)) = e
  BY PeerFacts
<1>3. /\ HandAt(objs, On, Sure, offer, e, Peer(e))
      /\ HandAt(objs, On, Sure, offer, Peer(e), e)
  BY <1>1, HandBoth
<1>4. o \in Nat /\ o \in Of(objs, e) /\ objs[e][o] \in Channels
  BY <1>1, ChannelTypes DEF Of, Objects
<1>5. Sane(objs[e][o])
  BY <1>3, <1>4 DEF HandAt
<1> QED BY <1>1, <1>2, <1>3, <1>4, <1>5

LEMMA SentFacts ==
  ASSUME NEW O, NEW M, NEW S, NEW F, NEW q, NEW v, HandAt(O, M, S, F, q, v), NEW g \in M[q]
  PROVE  Sent(O, F, q, v, g)
BY DEF HandAt, FramesAt

LEMMA CancelHand ==
  ASSUME HandInv, ListInv', NEW e \in Ends, NEW o \in Objects(e), OpenCancelled(e, o)
  PROVE  HandInv'
<1> DEFINE c == objs[e][o]
           d == [c EXCEPT !.call = "cancelled"]
<1>1. c \in Channels /\ Sane(c)
  BY HandFacts
<1>2. Set(e, o, d) /\ UNCHANGED <<wire, chans, loop, offer>> /\ c.call = "wait"
  BY DEF OpenCancelled
<1>3. /\ Later(c, d) /\ Sane(d) /\ (Answered(d) => Answered(c))
      /\ (Confirmed(d) => Confirmed(c)) /\ d.rid = c.rid /\ d.dir = "out"
  <2> HIDE DEF c
  <2>1. c.call \in {"encode", "wait"}
    BY <1>2
  <2> QED BY <1>1, <2>1, CallStep
<1>4. d \in Channels
  <2>1. "cancelled" \in Calls
    BY DEF Calls
  <2> QED BY <1>1, <2>1, ChannelFacts DEF SameSlot
<1> HIDE DEF d
<1>5. Step(objs, On, offer, e, Peer(e), o, d)
  BY <1>3, OwnStep, Directions
<1> QED BY <1>2, <1>3, <1>4, <1>5, Settle, Directions

LEMMA ReplyHand ==
  ASSUME HandInv, ListInv', NEW e \in Ends, NEW o \in Objects(e), OpenReply(e, o)
  PROVE  HandInv'
<1> DEFINE c == objs[e][o]
<1>1. c \in Channels /\ Sane(c)
  BY HandFacts
<1>2. UNCHANGED <<wire, chans, loop, offer>> /\ c.call = "wait"
  BY DEF OpenReply
<1>3. PICK d \in Channels :
        /\ Set(e, o, d) /\ Later(c, d) /\ Sane(d) /\ (Answered(d) => Answered(c))
        /\ (Confirmed(d) => Confirmed(c)) /\ d.rid = c.rid /\ d.dir = "out"
  <2>1. CASE c.msg # <<>>
    <3> DEFINE d == [c EXCEPT !.call = Head(c.msg), !.msg = Tail(@)]
    <3>1. Set(e, o, d)
      BY <2>1 DEF OpenReply
    <3> HIDE DEF c
    <3>2. d \in Channels
      BY <1>1, <2>1, MessageFacts DEF SameSlot
    <3>3. /\ Later(c, d) /\ Sane(d) /\ (Answered(d) => Answered(c))
          /\ (Confirmed(d) => Confirmed(c)) /\ d.rid = c.rid /\ d.dir = "out"
      BY <1>1, <1>2, <2>1, ReplyStep
    <3> HIDE DEF d
    <3> QED BY <3>1, <3>2, <3>3
  <2>2. CASE c.msg = <<>>
    <3> DEFINE d == [c EXCEPT !.call = "ErrClosed"]
    <3>1. Set(e, o, d)
      BY <2>2 DEF OpenReply
    <3> HIDE DEF c
    <3>2. "ErrClosed" \in Calls /\ c.call \in {"encode", "wait"}
      BY <1>2 DEF Calls
    <3>3. d \in Channels
      BY <1>1, <3>2, ChannelFacts DEF SameSlot
    <3>4. /\ Later(c, d) /\ Sane(d) /\ (Answered(d) => Answered(c))
          /\ (Confirmed(d) => Confirmed(c)) /\ d.rid = c.rid /\ d.dir = "out"
      BY <1>1, <3>2, CallStep
    <3> HIDE DEF d
    <3> QED BY <3>1, <3>3, <3>4
  <2> QED BY <2>1, <2>2
<1>4. Step(objs, On, offer, e, Peer(e), o, d)
  BY <1>3, OwnStep, Directions
<1> QED BY <1>2, <1>3, <1>4, Settle, Directions

LEMMA WriteHand ==
  ASSUME HandInv, ListInv', NEW e \in Ends, NEW o \in Objects(e), Write(e, o)
  PROVE  HandInv'
<1> DEFINE c == objs[e][o]
           d == [c EXCEPT !.writing = TRUE]
<1>1. c \in Channels /\ Sane(c)
  BY HandFacts
<1>2. Set(e, o, d) /\ UNCHANGED <<wire, chans, loop, offer>> /\ Held(c)
  BY DEF Write
<1> HIDE DEF c
<1>3. /\ Later(c, d) /\ Sane(d) /\ (Answered(d) => Answered(c))
      /\ (Confirmed(d) => Confirmed(c)) /\ d.rid = c.rid /\ d.dir = c.dir
      /\ d.call = c.call /\ d.heard = c.heard /\ d.sending = c.sending
  BY <1>1, <1>2, WriteStep
<1>4. d \in Channels
  BY <1>1, ChannelFacts DEF SameSlot
<1> HIDE DEF d
<1>5. Step(objs, On, offer, e, Peer(e), o, d)
  BY <1>3, OwnStep DEF c
<1> QED BY <1>2, <1>3, <1>4, <1>5, Settle DEF c

\* When an accepted channel is closed only after it has been read from, Open has
\* returned its peer by then.
LEMMA CloseHand ==
  ASSUME CloseFrom = "read", HandInv, ListInv', NEW e \in Ends, NEW o \in Objects(e),
         Close(e, o)
  PROVE  HandInv'
<1> DEFINE v == Peer(e)
           c == objs[e][o]
           d == [c EXCEPT !.sentClose = TRUE, !.sending = TRUE]
<1>1. /\ c \in Channels /\ Sane(c) /\ o \in Of(objs, e)
      /\ HandAt(objs, On, Sure, offer, e, v) /\ HandAt(objs, On, Sure, offer, v, e)
  BY HandFacts
<1>2. /\ Set(e, o, d) /\ UNCHANGED <<wire, chans, loop, offer>>
      /\ Held(c) /\ ~c.sentClose
      /\ c.dir = "in" => c.heard
  BY DEF Close, MayClose
<1>3. /\ Later(c, d) /\ Sane(d) /\ (Answered(d) => Answered(c))
      /\ (Confirmed(d) => Confirmed(c)) /\ d.rid = c.rid /\ d.dir = c.dir
      /\ d.peer = c.peer /\ d.call = c.call /\ (d.heard => c.heard)
  <2> HIDE DEF c
  <2> QED BY <1>1, <1>2, CloseStep
<1>4. d \in Channels
  <2> HIDE DEF c
  <2> QED BY <1>1, ChannelFacts DEF SameSlot
<1> HIDE DEF d, v
<1>5. ASSUME c.dir = "in"
      PROVE  Returned(objs[v][c.peer]) /\ offer[e] # o
  <2>1. Pair(objs, offer, e, v, o)
    BY <1>1, <1>5 DEF HandAt, PairsAt
  <2> QED BY <1>2, <1>5, <2>1 DEF Pair, Returned, Answered, Answers
<1>6. Step(objs, On, offer, e, v, o, d)
  BY <1>3, <1>5, OwnStep
<1> QED BY <1>2, <1>3, <1>4, <1>6, Settle DEF v

\* Data that is not late is sent by a channel that is not finished.
LEMMA SendDataHand ==
  ASSUME HandInv, ListInv', NEW e \in Ends, NEW o \in Objects(e), SendData(e, o)
  PROVE  HandInv'
<1> PICK more \in BOOLEAN : Set(e, o, [objs[e][o] EXCEPT !.writing = more])
  BY DEF SendData
<1> DEFINE v == Peer(e)
           c == objs[e][o]
           d == [c EXCEPT !.writing = more]
           late == c.sentClose /\ ~c.sending
           f == DataFrame(c.rid, o, late)
<1>1. /\ c \in Channels /\ Sane(c) /\ o \in Of(objs, e) /\ Types /\ o \in Nat
      /\ HandAt(objs, On, Sure, offer, v, e) /\ v \in Ends /\ v # e /\ c.rid \in Nat
  BY HandFacts, ChannelTypes
<1>2. /\ Set(e, o, d) /\ UNCHANGED <<chans, loop, offer>> /\ c.writing
      /\ EncodeOK(wire, e, f) \/ wire' = wire
  BY DEF SendData, EncodeFails
<1> HIDE DEF c
<1>3. Held(c)
  BY <1>1, <1>2 DEF Sane, SaneIn, SaneOut, Held
<1>4. /\ Later(c, d) /\ Sane(d) /\ (Answered(d) => Answered(c))
      /\ (Confirmed(d) => Confirmed(c)) /\ d.rid = c.rid /\ d.dir = c.dir
      /\ d.call = c.call /\ d.heard = c.heard /\ d.sending = c.sending
  BY <1>1, <1>3, WriteStep
<1>5. d \in Channels
  BY <1>1, ChannelFacts DEF SameSlot
<1>6. late \in BOOLEAN
  OBVIOUS
<1>7. late <=> c.sentClose /\ ~c.sending
  OBVIOUS
<1> HIDE DEF late
<1>8. f \in Packets /\ f.type = "Data" /\ f.chan = c.rid /\ f.from = o /\ f.late = late
  BY <1>1, <1>6, DataFrameTypes
<1> HIDE DEF d, f, v
<1>9. Step(objs, On, offer, e, v, o, d)
  BY <1>4, OwnStep DEF c
<1>10. CASE wire' = wire
  BY <1>2, <1>4, <1>5, <1>9, <1>10, Settle DEF v, c
<1>11. CASE EncodeOK(wire, e, f)
  <2>1. Becomes(e, o, d)
    BY <1>1, <1>2, <1>5, SetFacts
  <2>2. objs'[e][o] = d /\ o \in Of(objs', e)
    BY <1>1, <2>1 DEF Becomes, Of
  <2>3. Held(d)
    BY <1>3, <1>4 DEF Held
  <2>4. Sent(objs', offer, v, e, f)
    BY <1>4, <1>8, <2>2, <2>3 DEF Sent, DataSent, Answers
  <2>5. ASSUME NEW g \in On[v]
        PROVE  Before(g, f)
    <3> SUFFICES ASSUME g.from = o, ~late, g.type \in {"Close", "OpenFailure"} PROVE FALSE
      BY <1>8 DEF Before
    <3>1. Sent(objs, offer, v, e, g)
      BY <1>1, SentFacts
    <3>2. CASE g.type = "Close"
      BY <1>7, <3>1, <3>2 DEF Sent, CloseSent, c
    <3>3. CASE g.type = "OpenFailure"
      BY <1>3, <3>1, <3>3 DEF Sent, AnswerSent, Answers, Held, c
    <3> QED BY <3>2, <3>3
  <2>6. f.late \/ ~Finished(objs, On, offer, v, e, o)
    BY <1>3, <1>7, <1>8 DEF Finished, Held, c
  <2> QED BY <1>2, <1>4, <1>5, <1>8, <1>9, <1>11, <2>4, <2>5, <2>6, SettlePush DEF v, c
<1> QED BY <1>2, <1>10, <1>11

LEMMA SendCloseHand ==
  ASSUME HandInv, ListInv', NEW e \in Ends, NEW o \in Objects(e), SendClose(e, o)
  PROVE  HandInv'
<1> DEFINE v == Peer(e)
           c == objs[e][o]
           d == [c EXCEPT !.sending = FALSE]
           f == Frame("Close", c.rid, 0, o)
<1>1. /\ c \in Channels /\ Sane(c) /\ o \in Of(objs, e) /\ Types /\ o \in Nat
      /\ HandAt(objs, On, Sure, offer, v, e) /\ HandAt(objs, On, Sure, offer, e, v)
      /\ v \in Ends /\ v # e
  BY HandFacts
<1>2. /\ Set(e, o, d) /\ UNCHANGED <<chans, loop, offer>> /\ c.sending
      /\ EncodeOK(wire, e, f) \/ wire' = wire
  BY DEF SendClose, EncodeFails
<1>3. /\ c.sentClose
      /\ c.dir = "in" => c.call = "accepted"
      /\ c.dir = "out" => c.call = "OpenConfirm"
  <2> HIDE DEF c
  <2> QED BY <1>1, <1>2 DEF Sane, SaneIn, SaneOut
<1>4. /\ Later(c, d) /\ Sane(d) /\ (Answered(d) => Answered(c))
      /\ (Confirmed(d) => Confirmed(c)) /\ d.rid = c.rid /\ d.dir = c.dir
      /\ d.peer = c.peer /\ d.call = c.call /\ (d.heard => c.heard) /\ ~d.sending
      /\ d.sentClose = c.sentClose /\ d.writing = c.writing
  <2> HIDE DEF c
  <2> QED BY <1>1, SendingStep
<1>5. d \in Channels
  <2> HIDE DEF c
  <2> QED BY <1>1, ChannelFacts DEF SameSlot
<1>6. f \in Packets
  <2>1. c.rid \in Nat /\ 0 \in Nat
    BY <1>1, ChannelTypes
  <2> HIDE DEF c
  <2> QED BY <1>1, <2>1, FrameTypes
<1>7. f.type = "Close" /\ f.chan = c.rid /\ f.from = o
  <2> HIDE DEF c
  <2> QED BY DEF Frame
<1> HIDE DEF d, f, v
<1>8. Step(objs, On, offer, e, v, o, d)
  BY <1>4, OwnStep
<1>9. CASE wire' = wire
  BY <1>2, <1>4, <1>5, <1>8, <1>9, Settle DEF v
<1>10. CASE EncodeOK(wire, e, f)
  <2>1. Becomes(e, o, d)
    BY <1>1, <1>2, <1>5, SetFacts
  <2>2. objs'[e][o] = d /\ o \in Of(objs', e) /\ objs'[v] = objs[v]
    BY <1>1, <2>1 DEF Becomes, Of
  <2>3. c.dir = "in" => Returned(objs[v][c.peer]) /\ offer[e] # o
    BY <1>1, <1>2 DEF HandAt, PairsAt, Pair
  <2>4. CloseSent(objs', offer, v, e, f)
    BY <1>3, <1>4, <1>7, <2>2, <2>3 DEF CloseSent
  <2>5. Sent(objs', offer, v, e, f)
    BY <1>7, <2>2, <2>4 DEF Sent, Answers
  <2>6. ASSUME NEW g \in On[v]
        PROVE  Before(g, f)
    <3> SUFFICES ASSUME g.from = o, g.type \in {"Close", "OpenFailure"} PROVE FALSE
      BY <1>7 DEF Before
    <3>1. Sent(objs, offer, v, e, g)
      BY <1>1, SentFacts
    <3> HIDE DEF c
    <3>2. CASE g.type = "Close"
      BY <1>2, <3>1, <3>2 DEF Sent, CloseSent, c
    <3>3. CASE g.type = "OpenFailure"
      BY <1>3, <3>1, <3>3 DEF Sent, AnswerSent, Answers, c
    <3> QED BY <3>2, <3>3
  <2>7. ~Finished(objs, On, offer, v, e, o)
    BY <1>2 DEF Finished
  <2> QED BY <1>2, <1>4, <1>5, <1>6, <1>7, <1>8, <1>10, <2>5, <2>6, <2>7, SettlePush DEF v
<1> QED BY <1>2, <1>9, <1>10

LEMMA SendOpenHand ==
  ASSUME HandInv, ListInv', NEW e \in Ends, NEW o \in Objects(e), SendOpen(e, o)
  PROVE  HandInv'
<1> DEFINE v == Peer(e)
           c == objs[e][o]
           f == Frame("Open", 0, c.id, o)
<1>1. /\ c \in Channels /\ Sane(c) /\ o \in Of(objs, e) /\ Types /\ o \in Nat
      /\ HandAt(objs, On, Sure, offer, v, e) /\ v \in Ends /\ v # e
  BY HandFacts
<1>2. PICK k \in {"wait", "error"} :
        /\ Set(e, o, [c EXCEPT !.call = k]) /\ UNCHANGED <<chans, loop, offer>>
        /\ c.call = "encode" /\ (EncodeOK(wire, e, f) \/ wire' = wire)
  BY DEF SendOpen, EncodeFails
<1> DEFINE d == [c EXCEPT !.call = k]
<1>3. c.dir = "out" /\ c.msg = <<>>
  <2> HIDE DEF c
  <2> QED BY <1>1, <1>2 DEF Sane, SaneIn, SaneOut
<1>4. /\ Later(c, d) /\ Sane(d) /\ (Answered(d) => Answered(c))
      /\ (Confirmed(d) => Confirmed(c)) /\ d.rid = c.rid /\ d.dir = "out"
  <2> HIDE DEF c
  <2>1. k \in {"wait", "error", "ErrClosed", "cancelled"} /\ c.call \in {"encode", "wait"}
    BY <1>2
  <2> QED BY <1>1, <2>1, CallStep
<1>5. d \in Channels /\ d.call = k /\ d.id = c.id
  <2> HIDE DEF c
  <2>1. k \in Calls
    BY DEF Calls
  <2> QED BY <1>1, <2>1, ChannelFacts, CallFields DEF SameSlot
<1>6. f \in Packets
  <2>1. c.id \in Nat /\ 0 \in Nat
    BY <1>1, ChannelTypes
  <2> HIDE DEF c
  <2> QED BY <1>1, <2>1, FrameTypes
<1>7. f.type = "Open" /\ f.sender = c.id /\ f.from = o
  <2> HIDE DEF c
  <2> QED BY DEF Frame
<1>8. Set(e, o, d) /\ UNCHANGED <<chans, loop, offer>>
  BY <1>2
<1> HIDE DEF d, f, v
<1>9. Step(objs, On, offer, e, v, o, d)
  BY <1>4, OwnStep, Directions
<1>10. CASE wire' = wire
  BY <1>4, <1>5, <1>8, <1>9, <1>10, Settle, Directions DEF v
<1>11. CASE EncodeOK(wire, e, f)
  <2>1. Becomes(e, o, d)
    BY <1>1, <1>5, <1>8, SetFacts
  <2>2. objs'[e][o] = d /\ o \in Of(objs', e) /\ Of(objs', v) = Of(objs, v) /\ objs'[v] = objs[v]
    BY <1>1, <2>1 DEF Becomes, Of
  <2>3. ~Answered(d)
    BY <1>2, <1>3, <1>4 DEF Answered, Answers
  <2>4. ASSUME NEW p \in Of(objs, v), MadeFor(objs, v, p, o)
        PROVE  FALSE
    BY <1>1, <1>2, <2>4 DEF HandAt, PairsAt, Pair, MadeFor
  <2>5. d.call # "encode"
    BY <1>5
  <2>6. OpenSent(objs', v, e, f)
    BY <1>4, <1>5, <1>7, <2>2, <2>3, <2>4, <2>5 DEF OpenSent, MadeFor
  <2>7. Sent(objs', offer, v, e, f)
    BY <1>7, <2>2, <2>6 DEF Sent, Answers
  <2>8. ASSUME NEW g \in On[v]
        PROVE  Before(g, f)
    <3> SUFFICES ASSUME g.from = o PROVE FALSE
      BY <1>7 DEF Before
    <3>1. Sent(objs, offer, v, e, g)
      BY <1>1, SentFacts
    <3>2. g.type \in {"Open", "OpenConfirm", "OpenFailure", "Data", "Close"}
      <4>1. \A q \in Ends : \A i \in 1 .. Len(wire[q]) : wire[q][i] \in Packets
        BY <1>1, SMTT(30) DEF Types
      <4>2. g \in Packets
        BY <1>1, <4>1 DEF On, Wires
      <4> QED BY <4>2 DEF Packets
    <3> HIDE DEF c
    <3>3. CASE g.type = "Open"
      BY <1>2, <3>1, <3>3 DEF Sent, OpenSent, c
    <3>4. CASE g.type \in Answers
      BY <1>3, <3>1, <3>4, Directions DEF Sent, AnswerSent, c
    <3>5. CASE g.type = "Data"
      BY <1>2, <3>1, <3>5 DEF Sent, DataSent, Held, c
    <3>6. CASE g.type = "Close"
      BY <1>2, <1>3, <3>1, <3>6 DEF Sent, CloseSent, c
    <3> QED BY <3>2, <3>3, <3>4, <3>5, <3>6 DEF Answers
  <2> QED BY <1>4, <1>5, <1>6, <1>7, <1>8, <1>9, <1>11, <2>7, <2>8, SettlePush, Directions DEF v
<1> QED BY <1>2, <1>10, <1>11

-------------------------------------------------------------------------------
(* The loop *)

LEMMA Conclude ==
  ASSUME ListInv', NEW M, M = Wires(wire'), Hand(objs', M, Sure', offer'),
         \A q \in Ends : Ordered(wire'[q]), \A q \in Ends : OffersAt(q)'
  PROVE  HandInv'
BY DEF HandInv, On

\* An answer and a Close find their channel in its slot as long as the loop runs.
LEMMA Received ==
  ASSUME HandInv, NEW e \in Ends, wire[e] # <<>>, Live(e),
         Head(wire[e]).type \in {"OpenConfirm", "OpenFailure", "Close"}
  PROVE  LET o == Target(e) IN
         /\ o \in Of(objs, e) /\ o \in Objects(e) /\ o \in Nat /\ o # Nil /\ o \in Sure[e]
         /\ objs[e][o].id = Head(wire[e]).chan
         /\ Connected(objs, e, Peer(e), o, Head(wire[e]).from)
         /\ Sent(objs, offer, e, Peer(e), Head(wire[e]))
<1> DEFINE f == Head(wire[e])
<1>1. Types /\ Hand(objs, On, Sure, offer) /\ Ordered(wire[e])
  BY DEF HandInv, ListInv
<1>2. f \in On[e]
  BY <1>1, WiresTail
<1> HIDE DEF f
<1>3. f.type \in {"OpenConfirm", "OpenFailure", "Data", "Close"} /\ ~f.late
  <2>1. f.late => f.type = "Data"
    BY <1>1, RestTypes DEF f
  <2> QED BY <2>1 DEF f
<1>4. PICK o \in Of(objs, e) : /\ o \in Sure[e] /\ objs[e][o].id = f.chan
                               /\ Connected(objs, e, Peer(e), o, f.from)
  BY <1>1, <1>2, <1>3, Reaches
<1>5. GetChan(chans[e], f.chan) = o
  BY <1>4 DEF Sure
<1>6. o \in Objects(e) /\ o \in Nat /\ o # Nil
  BY SMTT(30) DEF Of, Objects, Nil
<1>7. Sent(objs, offer, e, Peer(e), f)
  BY <1>1, <1>2, HandBoth, SentFacts
<1>8. Target(e) = o
  BY <1>5 DEF Target, f
<1> QED BY <1>4, <1>6, <1>7, <1>8 DEF f

LEMMA OnlyDataLate ==
  ASSUME Types, NEW e \in Ends, wire[e] # <<>>, \A q \in Ends : Ordered(wire[q])
  PROVE  \A g \in Wires(Rest(e))[e] : g.late => g.type = "Data"
<1>1. wire \in [Ends -> Seq(Packets)]
  BY DEF Types
<1>2. \A i \in 1 .. Len(wire[e]) : wire[e][i] \in Packets
  BY <1>1, SMTT(30)
<1>3. \A g \in On[e] : g \in Packets
  BY <1>2 DEF On, Wires
<1>4. \A g \in On[e] : g.late => g.type = "Data"
  BY <1>3 DEF Packets
<1>5. Wires(Rest(e))[e] \subseteq On[e]
  BY WiresTail
<1> QED BY <1>4, <1>5

\* The frame is taken off the wire.
LEMMA Popped ==
  ASSUME HandInv, NEW e \in Ends, wire[e] # <<>>
  PROVE  /\ Hand(objs, Wires(Rest(e)), Sure, offer)
         /\ \A q \in Ends : Ordered(Rest(e)[q])
         /\ \A g \in Wires(Rest(e))[e] : Before(Head(wire[e]), g)
         /\ \A q \in Ends : Wires(Rest(e))[q] \subseteq On[q]
<1>1. Types /\ Hand(objs, On, Sure, offer) /\ \A q \in Ends : Ordered(wire[q])
  BY DEF HandInv, ListInv
<1>2. /\ \A q \in Ends : Wires(Rest(e))[q] \subseteq On[q]
      /\ \A q \in Ends : q # e => Rest(e)[q] = wire[q]
      /\ \A g \in Wires(Rest(e))[e] : Before(Head(wire[e]), g)
      /\ Ordered(Rest(e)[e])
  BY <1>1, WiresTail
<1>3. Hand(objs, Wires(Rest(e)), Sure, offer)
  BY <1>1, <1>2, Pop
<1>4. \A q \in Ends : Ordered(Rest(e)[q])
  BY <1>1, <1>2
<1> QED BY <1>2, <1>3, <1>4

\* What OffersAt says when the loop of e is not offering, and of an end that does
\* not step.
LEMMA OffersElse ==
  ASSUME HandInv, NEW e \in Ends, NEW q \in Ends, q # e, loop'[q] = loop[q],
         offer'[q] = offer[q], objs'[q] = objs[q]
  PROVE  OffersAt(q)'
BY DEF HandInv, OffersAt

LEMMA OffersNone ==
  ASSUME NEW e \in Ends, loop'[e] \in {"decode", "drop", "down"}, offer'[e] = Nil
  PROVE  OffersAt(e)'
<1>1. /\ loop'[e] # "offer" /\ loop'[e] # "confirm" /\ loop'[e] # "fail"
      /\ loop'[e] \notin Offering
  BY DEF Offering
<1> QED BY <1>1 DEF OffersAt

LEMMA OfferNil ==
  ASSUME HandInv, NEW e \in Ends, loop[e] \in {"decode", "drop", "down"}
  PROVE  offer[e] = Nil
<1>1. loop[e] \notin Offering
  BY DEF Offering
<1> QED BY <1>1 DEF HandInv, OffersAt

\* The loop of e ends.
LEMMA DropHand ==
  ASSUME HandInv, ListInv', NEW e \in Ends, NEW why, Drop(e, why), objs' = objs,
         NEW M, M = Wires(wire'), Hand(objs, M, Sure, offer'),
         \A q \in Ends : Ordered(wire'[q]),
         offer'[e] = Nil, \A q \in Ends : q # e => offer'[q] = offer[q]
  PROVE  HandInv'
<1>0. Types
  BY DEF HandInv, ListInv
<1>1. /\ loop'[e] = "drop" /\ ~Live(e)'
      /\ \A q \in Ends : q # e => /\ loop'[q] = loop[q] /\ chans'[q] = chans[q]
                                  /\ Live(q)' = Live(q)
  BY <1>0 DEF Drop, Types, Live
<1>2. ASSUME NEW q \in Ends, NEW o \in Of(objs, q), o \in Sure[q]
      PROVE  o \in Sure'[q]
  <2>1. o \in Objects(q)' /\ o \in Objects(q)
    BY DEF Of, Objects
  <2>2. CASE q = e
    BY <1>1, <2>1, <2>2 DEF Sure
  <2>3. CASE q # e
    BY <1>1, <1>2, <2>1, <2>3 DEF Sure
  <2> QED BY <2>2, <2>3
<1>3. Hand(objs', M, Sure', offer')
  <2>1. Hand(objs, M, Sure', offer')
    BY <1>2, Relist
  <2> QED BY <2>1
<1>4. OffersAt(e)'
  BY <1>1, OffersNone
<1>5. \A q \in Ends : OffersAt(q)'
  BY <1>1, <1>4, OffersElse
<1> QED BY <1>3, <1>5, Conclude

LEMMA FailHand ==
  ASSUME HandInv, ListInv', NEW e \in Ends, InvalidChannel(e) \/ DecodeFails(e)
  PROVE  HandInv'
<1>1. Hand(objs, On, Sure, offer) /\ \A q \in Ends : Ordered(wire[q])
  BY DEF HandInv
<1>2. PICK why : Drop(e, why)
  BY DEF InvalidChannel, DecodeFails
<1>3. objs' = objs /\ offer' = offer /\ loop[e] = "decode"
  BY DEF InvalidChannel, DecodeFails, Decoding
<1>4. offer'[e] = Nil
  BY <1>3, OfferNil
<1>5. Hand(objs, Wires(wire'), Sure, offer') /\ \A q \in Ends : Ordered(wire'[q])
  <2>1. CASE DecodeFails(e)
    <3>1. wire' = wire
      BY <2>1 DEF DecodeFails
    <3> QED BY <1>1, <1>3, <3>1 DEF On
  <2>2. CASE InvalidChannel(e)
    <3>1. wire' = Rest(e) /\ wire[e] # <<>>
      BY <2>2 DEF InvalidChannel, Decoding
    <3> QED BY <1>3, <3>1, Popped
  <2> QED BY <2>1, <2>2
<1> QED BY <1>2, <1>3, <1>4, <1>5, DropHand

LEMMA OfferHand ==
  ASSUME HandInv, ListInv', NEW e \in Ends, Deliver(e) \/ OpenTimeout(e)
  PROVE  HandInv'
<1> DEFINE o == offer[e]
           c == objs[e][o]
<1>0. /\ Types /\ Hand(objs, On, Sure, offer) /\ \A q \in Ends : Ordered(wire[q])
      /\ OffersAt(e) /\ (loop[e] \in Offering => o \in Objects(e))
  BY DEF HandInv, ListInv
<1>1. /\ loop[e] = "offer" /\ loop[e] \in Offering
      /\ UNCHANGED <<wire, chans, offer>>
  BY DEF Deliver, OpenTimeout, Offering
<1>2. PICK k \in {"accepted", "abandoned"} :
        /\ Set(e, o, [c EXCEPT !.call = k])
        /\ loop' = [loop EXCEPT ![e] = IF k = "accepted" THEN "confirm" ELSE "fail"]
  <2>1. CASE Deliver(e)
    <3>1. /\ Set(e, o, [c EXCEPT !.call = "accepted"])
          /\ loop' = [loop EXCEPT ![e] = "confirm"]
      BY <2>1 DEF Deliver
    <3> QED BY <3>1
  <2>2. CASE OpenTimeout(e)
    <3>1. /\ Set(e, o, [c EXCEPT !.call = "abandoned"])
          /\ loop' = [loop EXCEPT ![e] = "fail"]
      BY <2>2 DEF OpenTimeout
    <3>2. "abandoned" # "accepted"
      OBVIOUS
    <3> QED BY <3>1, <3>2
  <2> QED BY <2>1, <2>2
<1> DEFINE d == [c EXCEPT !.call = k]
<1>3. o \in Objects(e) /\ c.call = "offered" /\ c.dir = "in"
  BY <1>0, <1>1 DEF OffersAt
<1>4. c \in Channels /\ Sane(c)
  BY <1>3, HandFacts
<1>5. Set(e, o, d)
  BY <1>2
<1> HIDE DEF c
<1>6. /\ d.dir = c.dir /\ d.id = c.id /\ d.peer = c.peer /\ d.rid = c.rid
      /\ d.msg = c.msg /\ d.writing = c.writing /\ d.call = k
      /\ d.sentClose = c.sentClose /\ d.sending = c.sending /\ d.heard = c.heard
  BY <1>4, CallFields
<1>7. d \in Channels
  <2>1. k \in Calls
    BY DEF Calls
  <2> QED BY <1>4, <2>1, ChannelFacts DEF SameSlot
<1> HIDE DEF d, o
<1>8. ~c.sending /\ ~c.writing
  BY <1>3, <1>4 DEF Sane, SaneIn
<1>9. Later(c, d)
  BY <1>3, <1>6 DEF Later
<1>10. Sane(d)
  BY <1>3, <1>6, <1>8 DEF Sane, SaneIn
<1>11. (Answered(d) => Answered(c)) /\ (Confirmed(d) => Confirmed(c))
  BY <1>6 DEF Answered, Answers, Confirmed
<1>12. Step(objs, On, offer, e, Peer(e), o, d)
  BY <1>6, <1>8, <1>9, <1>10, <1>11, OwnStep DEF c
<1>13. Hand(objs', On, Sure, offer)
  BY <1>0, <1>3, <1>5, <1>7, <1>12, SetHand
<1>14. /\ loop'[e] = IF k = "accepted" THEN "confirm" ELSE "fail"
       /\ \A q \in Ends : q # e => loop'[q] = loop[q]
       /\ \A q \in Ends : Live(q)' = Live(q)
  BY <1>0, <1>1, <1>2 DEF Types, Live
<1>15. Sure' = Sure
  BY <1>0, <1>1, <1>3, <1>5, <1>6, <1>7, <1>14, SureSame DEF c
<1>16. Hand(objs', On, Sure', offer')
  BY <1>1, <1>13, <1>15
<1>17. ASSUME NEW q \in Ends
       PROVE  OffersAt(q)'
  <2>1. Becomes(e, o, d)
    BY <1>0, <1>3, <1>5, <1>7, SetFacts
  <2>2. CASE q = e
    <3>1. objs'[e][offer'[e]] = d
      BY <1>1, <2>1 DEF Becomes, o
    <3>2. /\ loop'[e] \in {"confirm", "fail"} /\ loop'[e] \in Offering
          /\ loop'[e] = "confirm" => d.call = "accepted"
          /\ loop'[e] = "fail" => d.call = "abandoned"
      BY <1>6, <1>14 DEF Offering
    <3>3. loop'[e] # "offer"
      BY <3>2
    <3> QED BY <1>3, <1>6, <2>2, <3>1, <3>2, <3>3 DEF OffersAt
  <2>3. CASE q # e
    BY <1>1, <1>14, <2>1, <2>3, OffersElse DEF Becomes
  <2> QED BY <2>2, <2>3
<1> QED BY <1>0, <1>1, <1>16, <1>17, Conclude DEF On

LEMMA ClosedStep ==
  ASSUME NEW c \in Channels, Sane(c), ~c.sending, NEW d, d = Closed(c)
  PROVE  /\ Later(c, d) /\ Sane(d) /\ (Answered(d) => Answered(c))
         /\ (Confirmed(d) => Confirmed(c)) /\ d.rid = c.rid /\ d.dir = c.dir
         /\ d.peer = c.peer /\ d.call = c.call /\ (d.heard => c.heard) /\ ~d.sending
         /\ d.sentClose /\ d.writing = c.writing /\ d.id = c.id /\ d \in Channels
<1>1. /\ d.dir = c.dir /\ d.id = c.id /\ d.peer = c.peer /\ d.rid = c.rid
      /\ d.msg = c.msg /\ d.writing = c.writing /\ d.call = c.call
      /\ d.sentClose /\ d.sending = c.sending /\ d.heard = c.heard
  BY ClosedFields
<1>2. Later(c, d)
  BY <1>1 DEF Later
<1>3. Sane(d)
  BY <1>1 DEF Sane, SaneIn, SaneOut
<1>4. (Answered(d) => Answered(c)) /\ (Confirmed(d) => Confirmed(c))
  BY <1>1 DEF Answered, Confirmed
<1>5. d \in Channels
  BY ChannelFacts
<1> QED BY <1>1, <1>2, <1>3, <1>4, <1>5

LEMMA CloseDroppedHand ==
  ASSUME HandInv, ListInv', NEW e \in Ends, CloseDropped(e)
  PROVE  HandInv'
<1>1. PICK o \in drop[e] : ~objs[e][o].sending /\ Set(e, o, Closed(objs[e][o]))
  BY DEF CloseDropped
<1>2. o \in Objects(e)
  BY <1>1 DEF HandInv, ListInv, SlotsOK, Objects
<1> DEFINE c == objs[e][o]
           d == Closed(c)
<1>3. c \in Channels /\ Sane(c)
  BY <1>2, HandFacts
<1>4. Set(e, o, d) /\ ~c.sending
  BY <1>1
<1> HIDE DEF c
<1>5. /\ Later(c, d) /\ Sane(d) /\ (Answered(d) => Answered(c))
      /\ (Confirmed(d) => Confirmed(c)) /\ d.rid = c.rid
      /\ d.call = c.call /\ (d.heard => c.heard) /\ ~d.sending /\ d \in Channels
  BY <1>3, <1>4, ClosedStep
<1> HIDE DEF d
<1>6. Step(objs, On, offer, e, Peer(e), o, d)
  BY <1>5, OwnStep DEF c
<1>7. UNCHANGED <<wire, chans, loop, offer>>
  BY DEF CloseDropped
<1> QED BY <1>2, <1>4, <1>5, <1>6, <1>7, Settle DEF c

LEMMA ShutHand ==
  ASSUME HandInv, ListInv', NEW e \in Ends, Shut(e)
  PROVE  HandInv'
<1>1. Types /\ Hand(objs, On, Sure, offer) /\ \A q \in Ends : Ordered(wire[q])
  BY DEF HandInv, ListInv
<1>2. /\ UNCHANGED <<wire, chans, objs, offer>>
      /\ loop[e] = "drop" /\ loop'[e] = "down"
      /\ \A q \in Ends : q # e => loop'[q] = loop[q]
  BY <1>1 DEF Shut, Types
<1>3. \A q \in Ends : Live(q)' = Live(q)
  BY <1>2 DEF Live
<1>4. Sure' = Sure
  <2>1. ASSUME NEW q \in Ends
        PROVE  {o \in Objects(q)' : Live(q)' => GetChan(chans'[q], objs'[q][o].id) = o}
                 = {o \in Objects(q) : Live(q) => GetChan(chans[q], objs[q][o].id) = o}
    BY <1>2, <1>3 DEF Objects
  <2> QED BY <2>1 DEF Sure
<1>5. Hand(objs', On, Sure', offer')
  BY <1>1, <1>2, <1>4
<1>6. OffersAt(e)'
  BY <1>2, OfferNil, OffersNone
<1>7. \A q \in Ends : OffersAt(q)'
  BY <1>2, <1>6, OffersElse
<1> QED BY <1>1, <1>2, <1>5, <1>7, Conclude DEF On

\* Steps that leave the channels and the transport alone.
LEMMA IdleHand ==
  ASSUME HandInv, ListInv', UNCHANGED <<wire, chans, objs, loop, offer>>
  PROVE  HandInv'
<1>1. Hand(objs, On, Sure, offer) /\ \A q \in Ends : Ordered(wire[q]) /\ OffersAt(q)
  BY DEF HandInv
<1>2. On' = On /\ Sure' = Sure
  BY DEF On, Sure, Live, Objects
<1>3. \A q \in Ends : OffersAt(q)'
  BY <1>1 DEF OffersAt
<1>4. Hand(objs', On', Sure', offer')
  BY <1>1, <1>2
<1> QED BY <1>1, <1>3, <1>4 DEF HandInv

LEMMA HandleDataHand ==
  ASSUME HandInv, ListInv', NEW e \in Ends, HandleData(e)
  PROVE  HandInv'
<1> DEFINE v == Peer(e)
           f == Head(wire[e])
           o == Target(e)
           c == objs[e][o]
           h == c.heard \/ f.from = c.peer
           d == [c EXCEPT !.heard = h]
           N == Wires(Rest(e))
<1>1. /\ wire[e] # <<>> /\ f.type = "Data" /\ o # Nil
      /\ wire' = Rest(e) /\ Set(e, o, d) /\ UNCHANGED <<chans, loop, offer>>
  BY DEF HandleData, Decoding
<1>2. o \in Objects(e)
  BY <1>1, TargetFacts DEF HandInv
<1>3. Sent(objs, offer, e, v, f)
  <2>1. f \in On[e] /\ HandAt(objs, On, Sure, offer, e, v)
    BY <1>1, WiresTail, HandBoth DEF HandInv, ListInv
  <2> HIDE DEF f, v
  <2> QED BY <2>1, SentFacts
<1>4. Hand(objs, N, Sure, offer) /\ \A q \in Ends : Ordered(wire'[q])
  BY <1>1, Popped
<1> HIDE DEF o
<1>5. /\ c \in Channels /\ Sane(c) /\ Types /\ o \in Of(objs, e)
      /\ HandAt(objs, On, Sure, offer, e, v) /\ HandAt(objs, On, Sure, offer, v, e)
      /\ h \in BOOLEAN
  BY <1>2, HandFacts
<1>6. h => c.heard \/ f.from = c.peer
  OBVIOUS
<1> HIDE DEF c, h
<1>7. /\ d.dir = c.dir /\ d.id = c.id /\ d.peer = c.peer /\ d.rid = c.rid
      /\ d.msg = c.msg /\ d.writing = c.writing /\ d.call = c.call
      /\ d.sentClose = c.sentClose /\ d.sending = c.sending /\ d.heard = h
  BY <1>5, HeardFields
<1>8. d \in Channels
  BY <1>5, ChannelFacts DEF SameSlot
<1> HIDE DEF d, N, f, v
<1>9. ASSUME c.dir = "in", f.from = c.peer
      PROVE  Returned(objs[v][c.peer])
  <2>1. Held(objs[v][c.peer])
    BY <1>1, <1>3, <1>9 DEF Sent, DataSent
  <2>2. /\ c.peer \in Of(objs, v) /\ objs[v][c.peer].dir = "out"
    BY <1>5, <1>9 DEF HandAt, PairsAt, Pair, c
  <2>3. Sane(objs[v][c.peer])
    BY <1>5, <2>2 DEF HandAt
  <2> DEFINE y == objs[v][c.peer]
  <2>4. Held(y) /\ y.dir = "out" /\ Sane(y)
    BY <2>1, <2>2, <2>3
  <2> HIDE DEF y
  <2>5. Returned(y)
    BY <2>4 DEF Sane, SaneOut, Held, Returned
  <2> QED BY <2>5 DEF y
<1>10. Step(objs, N, offer, e, v, o, d)
  <2>1. Later(c, d)
    BY <1>7 DEF Later
  <2>2. Sane(d)
    BY <1>5, <1>7 DEF Sane, SaneIn, SaneOut
  <2>3. (Answered(d) => Answered(c)) /\ (Confirmed(d) => Confirmed(c))
    BY <1>7 DEF Answered, Confirmed
  <2>4. d.dir = "in" => (d.heard => c.heard \/ Returned(objs[v][d.peer]))
    BY <1>6, <1>7, <1>9
  <2> QED BY <1>7, <2>1, <2>2, <2>3, <2>4 DEF Step, c
<1>11. Hand(objs', N, Sure, offer)
  BY <1>1, <1>2, <1>4, <1>5, <1>8, <1>10, SetHand DEF v
<1>12. Sure' = Sure
  <2>1. \A q \in Ends : Live(q)' = Live(q)
    BY <1>1 DEF Live
  <2> QED BY <1>1, <1>2, <1>5, <1>7, <1>8, <2>1, SureSame DEF c
<1>13. \A q \in Ends : OffersAt(q)'
  BY <1>1, <1>2, <1>7, <1>8, OffersKept DEF c
<1>14. Hand(objs', N, Sure', offer') /\ N = Wires(wire')
  BY <1>1, <1>11, <1>12 DEF N
<1> QED BY <1>4, <1>13, <1>14, Conclude

\* A channel in its slot stays there when another is added, and the new one is in
\* the slot it was given.
SlotAdded(list, new, id, n) ==
  /\ \A k \in Nat : GetChan(list, k) # Nil => GetChan(new, k) = GetChan(list, k)
  /\ GetChan(new, id) = n

LEMMA AddedSlots ==
  ASSUME NEW list \in Seq(Nat), NEW n \in Nat, NEW id \in FreeId(list), NEW new,
         new = AddChan(list, id, n)
  PROVE  SlotAdded(list, new, id, n)
<1> DEFINE at == id + 1
<1>1. /\ new \in Seq(Nat) /\ Len(new) >= Len(list) /\ at \in 1 .. Len(new) /\ new[at] = n
      /\ id \in Nat
      /\ \A i \in 1 .. Len(list) : list[i] # Nil => new[i] = list[i]
  BY AddChanFacts DEF Adds
<1>2. Len(new) \in Nat /\ Len(list) \in Nat
  BY <1>1, SMTT(30)
<1>3. ASSUME NEW k \in Nat, GetChan(list, k) # Nil
      PROVE  GetChan(new, k) = GetChan(list, k)
  <2>1. k + 1 \in 1 .. Len(list) /\ list[k + 1] = GetChan(list, k)
    BY <1>3, GetChanFacts
  <2>2. k < Len(new) /\ new[k + 1] = list[k + 1]
    BY <1>1, <1>2, <1>3, <2>1, SMTT(30)
  <2> QED BY <2>1, <2>2 DEF GetChan
<1>4. GetChan(new, id) = n
  <2>1. id < Len(new)
    BY <1>1, <1>2, SMTT(30)
  <2> QED BY <1>1, <2>1 DEF GetChan
<1> QED BY <1>3, <1>4 DEF SlotAdded

Appends(e, n, c) ==
  /\ Grows(objs, objs', Sure, Sure', e, n) /\ objs'[e][n] = c
  /\ \A q \in Ends : q # e => objs'[q] = objs[q]

LEMMA Appended ==
  ASSUME Types, NEW e \in Ends, NEW c \in Channels, New(e, c), c.id \in FreeId(chans[e]),
         \A q \in Ends : Live(q)' = Live(q)
  PROVE  Appends(e, Len(objs[e]) + 1, c)
<1> DEFINE n == Len(objs[e]) + 1
<1>1. /\ objs'[e] = Append(objs[e], c) /\ chans'[e] = AddChan(chans[e], c.id, n)
      /\ n \in Objects(e)' /\ \A q \in Ends : Objects(q) \subseteq Objects(q)'
      /\ \A q \in Ends : q # e => objs'[q] = objs[q] /\ chans'[q] = chans[q]
  BY NewFacts
<1>2. objs[e] \in Seq(Channels) /\ chans[e] \in Seq(Nat) /\ n \in Nat
  BY SMTT(30) DEF Types
<1>3. /\ n \notin Of(objs, e) /\ Of(objs', e) = Of(objs, e) \union {n}
      /\ \A p \in Of(objs, e) : objs'[e][p] = objs[e][p]
      /\ objs'[e][n] = c
  BY <1>1, <1>2, SMTT(30) DEF Of
<1>4. \A q \in Ends : q # e => Of(objs', q) = Of(objs, q)
  BY <1>1 DEF Of
<1>5. \A q \in Ends : \A p \in Of(objs, q) : objs'[q][p] = objs[q][p]
  BY <1>1, <1>3
<1> HIDE DEF n
<1>6. /\ \A id \in Nat : GetChan(chans[e], id) # Nil =>
                           GetChan(chans'[e], id) = GetChan(chans[e], id)
      /\ GetChan(chans'[e], c.id) = n
  <2>1. SlotAdded(chans[e], chans'[e], c.id, n)
    BY <1>1, <1>2, AddedSlots
  <2> QED BY <2>1 DEF SlotAdded
<1>7. n \in Sure'[e]
  BY <1>1, <1>3, <1>6 DEF Sure
<1>8. ASSUME NEW q \in Ends, NEW p \in Sure[q]
      PROVE  p \in Sure'[q]
  <2>1. /\ p \in Objects(q) /\ p \in Of(objs, q) /\ p \in Objects(q)'
        /\ Live(q) => GetChan(chans[q], objs[q][p].id) = p
    BY <1>1 DEF Sure, Of, Objects
  <2>2. p # Nil /\ objs[q][p].id \in Nat
    BY <2>1, ChannelTypes, SMTT(30) DEF Objects, Nil
  <2>3. objs'[q][p] = objs[q][p]
    BY <1>5, <2>1
  <2>4. Live(q) => GetChan(chans'[q], objs[q][p].id) = p
    BY <1>1, <1>6, <2>1, <2>2
  <2> QED BY <2>1, <2>3, <2>4 DEF Sure
<1>9. \A q \in Ends : Sure[q] \subseteq Sure'[q]
  BY <1>8
<1>10. Grows(objs, objs', Sure, Sure', e, n)
  BY <1>3, <1>4, <1>5, <1>7, <1>9 DEF Grows
<1> QED BY <1>1, <1>3, <1>10 DEF Appends, n

LEMMA OpenHand ==
  ASSUME HandInv, ListInv', NEW e \in Ends, Open(e)
  PROVE  HandInv'
<1> PICK id \in FreeId(chans[e]) : New(e, Channel("out", id, 0, "encode", Nil))
  BY DEF Open
<1> DEFINE n == Len(objs[e]) + 1
           c == Channel("out", id, 0, "encode", Nil)
<1>0. /\ Types /\ Hand(objs, On, Sure, offer)
      /\ \A q \in Ends : Ordered(wire[q]) /\ OffersAt(q)
      /\ \A q \in Ends : loop[q] \in Offering => offer[q] \in Objects(q)
  BY DEF HandInv, ListInv
<1>1. New(e, c) /\ UNCHANGED <<wire, loop, offer>>
  BY DEF Open
<1>2. id \in Nat
  BY SMTT(30) DEF FreeId
<1>3. /\ c.dir = "out" /\ c.id = id /\ c.call = "encode"
      /\ c.msg = <<>> /\ ~c.sending /\ ~c.writing
  BY DEF Channel
<1>4. c \in Channels
  <2>1. "out" \in {"in", "out"} /\ "encode" \in Calls /\ 0 \in Nat /\ Nil \in Nat
    BY DEF Calls, Nil
  <2> QED BY <1>2, <2>1, NewChannelFacts
<1>5. \A q \in Ends : Live(q)' = Live(q)
  BY <1>1 DEF Live
<1> HIDE DEF c
<1>6. Appends(e, n, c)
  BY <1>0, <1>1, <1>3, <1>4, <1>5, Appended
<1>7. Sane(c)
  BY <1>3 DEF Sane, SaneOut
<1>8. offer[e] # n
  <2>1. CASE loop[e] \in Offering
    BY <1>0, <1>6, <2>1 DEF Appends, Grows, Of, Objects
  <2>2. CASE loop[e] \notin Offering
    <3>1. offer[e] = Nil
      BY <1>0, <2>2 DEF OffersAt
    <3>2. n # Nil
      BY <1>0, SMTT(30) DEF Types, Nil
    <3> QED BY <3>1, <3>2
  <2> QED BY <2>1, <2>2
<1> HIDE DEF n
<1>9. NewOut(objs, offer, offer, e, n, c)
  BY <1>3, <1>8 DEF NewOut
<1>10. Hand(objs', On, Sure', offer)
  <2>1. Grows(objs, objs', Sure, Sure', e, n) /\ objs'[e][n] = c
    BY <1>6 DEF Appends
  <2>2. OthersKeep(offer, offer, e)
    BY DEF OthersKeep
  <2> QED BY <1>0, <1>7, <1>9, <2>1, <2>2, Add
<1>11. ASSUME NEW q \in Ends
       PROVE  OffersAt(q)'
  <2>1. CASE loop[q] \in Offering
    <3>1. objs'[q][offer[q]] = objs[q][offer[q]]
      BY <1>0, <1>6, <2>1 DEF Appends, Grows, Of, Objects
    <3> QED BY <1>0, <1>1, <3>1 DEF OffersAt
  <2>2. CASE loop[q] \notin Offering
    <3>1. loop[q] # "offer" /\ loop[q] # "confirm" /\ loop[q] # "fail"
      BY <2>2 DEF Offering
    <3> QED BY <1>0, <1>1, <2>2, <3>1 DEF OffersAt
  <2> QED BY <2>1, <2>2
<1>12. Hand(objs', On, Sure', offer') /\ On = Wires(wire')
  BY <1>1, <1>10 DEF On
<1> QED BY <1>0, <1>1, <1>11, <1>12, Conclude

LEMMA HandleOpenHand ==
  ASSUME HandInv, ListInv', NEW e \in Ends, HandleOpen(e)
  PROVE  HandInv'
<1> DEFINE v == Peer(e)
           f == Head(wire[e])
<1> PICK id \in FreeId(chans[e]) : New(e, Channel("in", id, f.sender, "offered", f.from))
  BY DEF HandleOpen
<1> DEFINE n == Len(objs[e]) + 1
           c == Channel("in", id, f.sender, "offered", f.from)
           N == Wires(Rest(e))
<1>0. Types /\ Hand(objs, On, Sure, offer) /\ \A q \in Ends : Ordered(wire[q])
  BY DEF HandInv, ListInv
<1>1. /\ New(e, c) /\ wire' = Rest(e) /\ wire[e] # <<>> /\ f.type = "Open"
      /\ loop[e] = "decode" /\ loop' = [loop EXCEPT ![e] = "offer"]
      /\ offer' = [offer EXCEPT ![e] = n]
  BY DEF HandleOpen, Decoding
<1>2. id \in Nat
  BY SMTT(30) DEF FreeId
<1>3. /\ c.dir = "in" /\ c.id = id /\ c.rid = f.sender /\ c.call = "offered"
      /\ c.peer = f.from /\ ~c.sending /\ ~c.writing /\ ~c.heard
  <2> HIDE DEF f
  <2> QED BY DEF Channel
<1>4. c \in Channels
  <2>1. f.sender \in Nat /\ f.from \in Nat
    BY <1>0, <1>1, RestTypes
  <2> HIDE DEF f
  <2>2. "in" \in {"in", "out"} /\ "offered" \in Calls
    BY DEF Calls
  <2> QED BY <1>2, <2>1, <2>2, NewChannelFacts
<1>5. /\ loop'[e] = "offer" /\ offer'[e] = n
      /\ \A q \in Ends : q # e => loop'[q] = loop[q] /\ offer'[q] = offer[q]
      /\ \A q \in Ends : Live(q)' = Live(q)
  BY <1>0, <1>1 DEF Types, Live
<1>6. /\ Hand(objs, N, Sure, offer) /\ \A q \in Ends : Ordered(wire'[q])
      /\ \A g \in N[e] : Before(f, g)
  BY <1>1, Popped
<1> HIDE DEF c, N
<1>7. Appends(e, n, c)
  BY <1>0, <1>1, <1>3, <1>4, <1>5, Appended
<1>8. Sane(c)
  BY <1>3 DEF Sane, SaneIn
<1>9. Sent(objs, offer, e, v, f)
  <2>1. f \in On[e] /\ HandAt(objs, On, Sure, offer, e, v)
    BY <1>0, <1>1, WiresTail, HandBoth
  <2> HIDE DEF f, v
  <2> QED BY <2>1, SentFacts
<1>10. \A g \in N[e] : g.late => g.type = "Data"
  BY <1>0, <1>1, OnlyDataLate DEF N
<1> HIDE DEF n, f, v
<1>11. ASSUME NEW g \in N[e], g.type = "Open"
       PROVE  g.from # f.from
  <2>1. Before(f, g) /\ g.type \notin {"Data", "Close"} /\ ~g.late /\ f.type # "Data"
    BY <1>1, <1>6, <1>10, <1>11
  <2> QED BY <2>1 DEF Before
<1>12. NewIn(objs, N, offer', e, v, n, c)
  BY <1>1, <1>3, <1>5, <1>9, <1>11 DEF NewIn, Sent, OpenSent
<1>13. Hand(objs', N, Sure', offer')
  <2>1. Grows(objs, objs', Sure, Sure', e, n) /\ objs'[e][n] = c
    BY <1>7 DEF Appends
  <2>2. OthersKeep(offer, offer', e)
    BY <1>5 DEF OthersKeep
  <2>3. NewIn(objs, N, offer', e, Peer(e), n, c)
    BY <1>12 DEF v
  <2> QED BY <1>6, <1>8, <2>1, <2>2, <2>3, Add
<1>14. ASSUME NEW q \in Ends
       PROVE  OffersAt(q)'
  <2>1. CASE q = e
    <3>1. objs'[e][offer'[e]] = c /\ loop'[e] \in Offering
      BY <1>5, <1>7 DEF Appends, Offering
    <3>2. loop'[e] # "confirm" /\ loop'[e] # "fail"
      BY <1>5
    <3> QED BY <1>3, <2>1, <3>1, <3>2 DEF OffersAt
  <2>2. CASE q # e
    BY <1>5, <1>7, <2>2, OffersElse DEF Appends
  <2> QED BY <2>1, <2>2
<1>15. N = Wires(wire')
  BY <1>1 DEF N
<1> QED BY <1>6, <1>13, <1>14, <1>15, Conclude

LEMMA AnswerHand ==
  ASSUME HandInv, ListInv', NEW e \in Ends, Answer(e)
  PROVE  HandInv'
<1> DEFINE v == Peer(e)
           o == offer[e]
           c == objs[e][o]
           t == IF loop[e] = "confirm" THEN "OpenConfirm" ELSE "OpenFailure"
           f == Frame(t, c.rid, c.id, o)
<1>0. /\ Types /\ Hand(objs, On, Sure, offer) /\ \A q \in Ends : Ordered(wire[q])
      /\ OffersAt(e) /\ (loop[e] \in Offering => o \in Objects(e))
  BY DEF HandInv, ListInv
<1>1. loop[e] \in {"confirm", "fail"} /\ loop[e] \in Offering
  BY DEF Answer, Offering
<1>2. o \in Objects(e) /\ c.dir = "in"
  BY <1>0, <1>1 DEF OffersAt
<1>3. /\ t \in Answers /\ t \in {"Open", "OpenConfirm", "OpenFailure", "Data", "Close"}
      /\ t = "OpenConfirm" => c.call = "accepted"
      /\ t = "OpenFailure" => c.call = "abandoned"
  <2> HIDE DEF c
  <2> QED BY <1>0, <1>1 DEF OffersAt, Answers, c
<1>4. /\ objs' = objs /\ offer'[e] = Nil
      /\ \A q \in Ends : q # e => offer'[q] = offer[q]
      /\ \/ EncodeOK(wire, e, f) /\ loop' = [loop EXCEPT ![e] = "decode"] /\ chans' = chans
         \/ wire' = wire /\ Drop(e, "EOF")
  <2>1. /\ objs' = objs /\ offer' = [offer EXCEPT ![e] = Nil]
        /\ \/ EncodeOK(wire, e, f) /\ loop' = [loop EXCEPT ![e] = "decode"] /\ chans' = chans
           \/ wire' = wire /\ Drop(e, "EOF")
    BY DEF Answer, EncodeFails
  <2>2. offer \in [Ends -> Nat]
    BY <1>0 DEF Types
  <2> HIDE DEF f
  <2> QED BY <2>1, <2>2
<1>5. /\ o \in Of(objs, e) /\ c.rid \in Nat /\ c.id \in Nat /\ o \in Nat
      /\ v \in Ends /\ v # e /\ Peer(v) = e
      /\ HandAt(objs, On, Sure, offer, e, v) /\ HandAt(objs, On, Sure, offer, v, e)
  BY <1>0, <1>2, HandFacts, ChannelTypes
<1>6. f.type = t /\ f.chan = c.rid /\ f.sender = c.id /\ f.from = o
  <2> HIDE DEF t, c, o
  <2> QED BY DEF Frame
<1>7. f \in Packets
  <2> HIDE DEF t, c, o
  <2> QED BY <1>3, <1>5, FrameTypes
<1> HIDE DEF f, t, v, o
<1>8. Hand(objs, On, Sure, offer')
  <2>1. Nil \notin Of(objs, e)
    BY SMTT(30) DEF Of, Nil
  <2> QED BY <1>0, <1>4, <2>1, Unoffer
<1>9. CASE wire' = wire /\ Drop(e, "EOF")
  BY <1>0, <1>4, <1>8, <1>9, DropHand DEF On
<1>10. CASE EncodeOK(wire, e, f) /\ loop' = [loop EXCEPT ![e] = "decode"] /\ chans' = chans
  <2>1. ~Answered(objs[v][c.peer])
    BY <1>2, <1>5 DEF HandAt, PairsAt, Pair, o
  <2>2. offer'[e] # o
    BY <1>2, <1>4, SMTT(30) DEF Objects, Nil
  <2>3. AnswerSent(objs, offer', v, e, f)
    BY <1>2, <1>3, <1>6, <2>1, <2>2 DEF AnswerSent
  <2>4. Sent(objs, offer', v, e, f)
    <3>1. f.type # "Open" /\ f.type # "Data" /\ f.type # "Close"
      BY <1>3, <1>6 DEF Answers
    <3> QED BY <1>5, <1>6, <2>3, <3>1 DEF Sent
  <2>5. ASSUME NEW p \in Of(objs, v), Connected(objs, v, e, p, o)
        PROVE  p \in Sure[v]
    <3>1. ~Finished(objs, On, offer, v, e, o)
      BY DEF Finished, o
    <3> QED BY <1>0, <1>5, <2>5, <3>1, PartnerListed DEF v
  <2>6. Pushable(objs, Sure, offer', v, e, f)
    BY <1>6, <2>4, <2>5 DEF Pushable
  <2>7. ASSUME NEW g \in On[v]
        PROVE  Before(g, f)
    <3> SUFFICES ASSUME g.from = o, g.type # "Data" PROVE FALSE
      BY <1>6 DEF Before
    <3>1. Sent(objs, offer, v, e, g)
      BY <1>5, SentFacts
    <3>2. g.type \in {"Open", "OpenConfirm", "OpenFailure", "Data", "Close"}
      <4>1. \A q \in Ends : \A i \in 1 .. Len(wire[q]) : wire[q][i] \in Packets
        BY <1>0, SMTT(30) DEF Types
      <4>2. g \in Packets
        BY <1>5, <4>1 DEF On, Wires
      <4> QED BY <4>2 DEF Packets
    <3>3. CASE g.type = "Open"
      BY <1>2, <3>1, <3>3, Directions DEF Sent, OpenSent
    <3>4. CASE g.type \in Answers
      BY <3>1, <3>4 DEF Sent, AnswerSent, o
    <3>5. CASE g.type = "Close"
      BY <1>2, <3>1, <3>5 DEF Sent, CloseSent, o
    <3> QED BY <3>2, <3>3, <3>4, <3>5 DEF Answers
  <2>8. Hand(objs, Wires(wire'), Sure, offer') /\ \A q \in Ends : Ordered(wire'[q])
    <3>1. wire \in [Ends -> Seq(Packets)]
      BY <1>0 DEF Types
    <3>2. /\ Hand(objs, Wires(wire), Sure, offer')
          /\ \A g \in Wires(wire)[v] : Before(g, f)
      BY <1>8, <2>7 DEF On
    <3> QED BY <1>0, <1>7, <1>10, <2>6, <3>1, <3>2, Sends DEF v
  <2>9. /\ loop'[e] = "decode" /\ \A q \in Ends : q # e => loop'[q] = loop[q]
        /\ \A q \in Ends : Live(q)' = Live(q)
    BY <1>0, <1>1, <1>10 DEF Types, Live
  <2>10. Sure' = Sure
    <3>1. ASSUME NEW q \in Ends
          PROVE  {p \in Objects(q)' : Live(q)' => GetChan(chans'[q], objs'[q][p].id) = p}
                   = {p \in Objects(q) : Live(q) => GetChan(chans[q], objs[q][p].id) = p}
      BY <1>4, <1>10, <2>9 DEF Objects
    <3> QED BY <3>1 DEF Sure
  <2>11. Hand(objs', Wires(wire'), Sure', offer')
    BY <1>4, <2>8, <2>10
  <2>12. OffersAt(e)'
    BY <1>4, <2>9, OffersNone
  <2>13. \A q \in Ends : OffersAt(q)'
    BY <1>4, <2>9, <2>12, OffersElse
  <2> QED BY <2>8, <2>11, <2>13, Conclude
<1> QED BY <1>4, <1>9, <1>10

LEMMA RemovedSlots ==
  ASSUME NEW list \in Seq(Nat), NEW id \in Nat, NEW k \in Nat, k # id
  PROVE  GetChan(RemoveChan(list, id), k) = GetChan(list, k)
<1> DEFINE new == RemoveChan(list, id)
<1>1. /\ Len(new) = Len(list)
      /\ \A i \in 1 .. Len(list) : new[i] = IF i = id + 1 THEN Nil ELSE list[i]
  BY RemoveChanFacts
<1> HIDE DEF new
<1>2. CASE k < Len(list)
  <2>1. k + 1 \in 1 .. Len(list) /\ k + 1 # id + 1
    BY <1>2, SMTT(30)
  <2>2. new[k + 1] = list[k + 1]
    BY <1>1, <2>1
  <2> QED BY <1>1, <1>2, <2>2 DEF GetChan, new
<1>3. CASE ~(k < Len(list))
  BY <1>1, <1>3 DEF GetChan, new
<1> QED BY <1>2, <1>3

\* The slot of o is given up: nothing will come for o any more.
GaveUp(e, o) ==
  /\ chans' = [chans EXCEPT ![e] = RemoveChan(@, objs[e][o].id)]
  /\ loop' = loop /\ offer' = offer /\ o \in Sure[e] /\ Live(e)

LEMMA RemovedHand ==
  ASSUME Types, NEW e \in Ends, NEW o \in Objects(e), NEW d \in Channels, Set(e, o, d),
         d.id = objs[e][o].id, GaveUp(e, o), NEW N, Hand(objs', N, Sure, offer),
         NEW x \in Of(objs', Peer(e)), Connected(objs', e, Peer(e), o, x),
         Finished(objs', N, offer, e, Peer(e), x)
  PROVE  Hand(objs', N, Sure', offer') /\ \A p \in Sure[Peer(e)] : p \in Sure'[Peer(e)]
<1>1. Becomes(e, o, d)
  BY SetFacts
<1>2. /\ \A q \in Ends : Objects(q)' = Objects(q) /\ Live(q)' = Live(q)
      /\ \A q \in Ends : \A p \in Objects(q) : objs'[q][p].id = objs[q][p].id
      /\ chans'[e] = RemoveChan(chans[e], objs[e][o].id) /\ chans[e] \in Seq(Nat)
      /\ \A q \in Ends : q # e => chans'[q] = chans[q]
  <2>1. \A q \in Ends : Objects(q)' = Objects(q) /\ Live(q)' = Live(q)
    BY <1>1 DEF Becomes, Live, GaveUp
  <2>2. \A q \in Ends : \A p \in Objects(q) : objs'[q][p].id = objs[q][p].id
    BY <1>1 DEF Becomes
  <2>3. chans \in [Ends -> Seq(Nat)]
    BY DEF Types
  <2> QED BY <2>1, <2>2, <2>3 DEF GaveUp
<1>3. GetChan(chans[e], objs[e][o].id) = o
  BY DEF Sure, GaveUp
<1>4. ASSUME NEW q \in Ends, NEW p \in Sure[q], q # e \/ p # o
      PROVE  p \in Sure'[q]
  <2>1. p \in Objects(q) /\ (Live(q) => GetChan(chans[q], objs[q][p].id) = p)
    BY DEF Sure
  <2>2. CASE q # e
    BY <1>2, <2>1, <2>2 DEF Sure
  <2>3. CASE q = e /\ Live(q)
    <3>1. objs[e][p].id \in Nat /\ objs[e][o].id \in Nat
      BY <2>1, <2>3, ChannelTypes
    <3>2. objs[e][p].id # objs[e][o].id
      BY <1>3, <1>4, <2>1, <2>3
    <3>3. GetChan(chans'[e], objs[e][p].id) = GetChan(chans[e], objs[e][p].id)
      BY <1>2, <3>1, <3>2, RemovedSlots
    <3>4. GetChan(chans'[e], objs'[e][p].id) = p
      BY <1>2, <2>1, <2>3, <3>3
    <3> QED BY <1>2, <2>1, <2>3, <3>4 DEF Sure
  <2>4. CASE ~Live(q)
    BY <1>2, <2>1, <2>4 DEF Sure
  <2> QED BY <2>2, <2>3, <2>4
<1>5. Hand(objs', N, Sure', offer)
  <2>1. ASSUME NEW q \in Ends, NEW p \in Of(objs', q), p \in Sure[q]
        PROVE  \/ p \in Sure'[q]
               \/ \E y \in Of(objs', Peer(q)) : /\ Connected(objs', q, Peer(q), p, y)
                                                /\ Finished(objs', N, offer, q, Peer(q), y)
    BY <1>4, <2>1
  <2> QED BY <2>1, Relist
<1>6. Hand(objs', N, Sure', offer')
  BY <1>5 DEF GaveUp
<1>7. Peer(e) \in Ends /\ Peer(e) # e
  BY PeerFacts
<1> QED BY <1>4, <1>6, <1>7

\* The two ends of a channel that got a Close.
Closing(O, F, e, v, o, f) ==
  /\ f.from \in Of(O, v) /\ F[v] # f.from /\ CloseSent(O, F, e, v, f)
  /\ O[v][f.from].call \in {"accepted", "OpenConfirm"}
  /\ O[e][o].dir = "in" => /\ O[e][o].call = "accepted" /\ F[e] # o
                           /\ O[e][o].peer = f.from /\ Returned(O[v][f.from])
  /\ O[e][o].dir = "out" => Returned(O[e][o])

LEMMA ClosingFacts ==
  ASSUME NEW O, NEW M, NEW S, NEW F, NEW e, NEW v, HandAt(O, M, S, F, e, v),
         HandAt(O, M, S, F, v, e), NEW f, Sent(O, F, e, v, f), f.type = "Close",
         NEW o \in Of(O, e), Connected(O, e, v, o, f.from)
  PROVE  Closing(O, F, e, v, o, f)
<1> DEFINE x == f.from
<1>1. x \in Of(O, v) /\ CloseSent(O, F, e, v, f)
  BY DEF Sent
<1>2. Sane(O[v][x]) /\ Sane(O[e][o])
  BY <1>1 DEF HandAt
<1> HIDE DEF x
<1>3. /\ O[v][x].dir = "in" => O[v][x].call = "accepted" /\ F[v] # x /\ Returned(O[e][O[v][x].peer])
      /\ O[v][x].dir = "out" => O[v][x].call = "OpenConfirm"
      /\ O[v][x].sentClose
      /\ O[v][x].dir \in {"in", "out"}
  BY <1>1, <1>2 DEF CloseSent, Sane, x
<1>4. O[v][x].call \in {"accepted", "OpenConfirm"}
  BY <1>3
<1>5. F[v] # x
  BY <1>1, <1>3 DEF HandAt
<1>6. ASSUME O[e][o].dir = "in"
      PROVE  O[e][o].call = "accepted" /\ F[e] # o /\ O[e][o].peer = x /\ Returned(O[v][x])
  <2>1. O[e][o].peer = x /\ O[v][x].dir = "out"
    BY <1>6 DEF Connected, x
  <2>2. Returned(O[v][x]) /\ Confirmed(O[v][x])
    BY <1>3, <2>1 DEF Returned, Confirmed
  <2>3. PICK p \in Of(O, e) : AcceptedAs(O, F, e, x, O[v][x].rid, p)
    BY <1>1, <2>1, <2>2 DEF HandAt, ConfirmedAt, x
  <2>4. p = o
    BY <1>6, <2>1, <2>3 DEF HandAt, PairsAt, Pair, AcceptedAs
  <2> QED BY <2>1, <2>2, <2>3, <2>4 DEF AcceptedAs
<1>7. ASSUME O[e][o].dir = "out"
      PROVE  Returned(O[e][o])
  <2>1. O[v][x].dir = "in" /\ O[v][x].peer = o
    BY <1>7, Directions DEF Connected, MadeFor, x
  <2> QED BY <1>3, <2>1
<1> QED BY <1>1, <1>4, <1>5, <1>6, <1>7 DEF x, Closing

LEMMA HandleCloseHand ==
  ASSUME HandInv, ListInv', NEW e \in Ends, HandleClose(e)
  PROVE  HandInv'
<1> DEFINE v == Peer(e)
           f == Head(wire[e])
           x == f.from
           o == Target(e)
           c == objs[e][o]
           d == Closed(c)
           N == Wires(Rest(e))
           r == Frame("Close", c.rid, 0, o)
<1>1. /\ wire[e] # <<>> /\ f.type = "Close" /\ loop[e] = "decode" /\ ~c.sending
      /\ chans' = [chans EXCEPT ![e] = RemoveChan(@, c.id)]
      /\ Set(e, o, d) /\ UNCHANGED <<loop, offer>>
      /\ \/ wire' = Rest(e)
         \/ ~c.sentClose /\ EncodeOK(Rest(e), e, r)
  BY DEF HandleClose, Decoding, EncodeFails
<1>2. Live(e) /\ f.type \in {"OpenConfirm", "OpenFailure", "Close"}
  BY <1>1 DEF Live
<1>3. /\ o \in Objects(e) /\ o \in Of(objs, e) /\ o \in Sure[e]
      /\ Connected(objs, e, v, o, x) /\ Sent(objs, offer, e, v, f)
  BY <1>1, <1>2, Received
<1>4. /\ Hand(objs, N, Sure, offer) /\ \A q \in Ends : Ordered(Rest(e)[q])
      /\ \A g \in N[e] : Before(f, g)
      /\ \A q \in Ends : N[q] \subseteq On[q]
  BY <1>1, Popped
<1> HIDE DEF o, f
<1>5. /\ c \in Channels /\ Sane(c) /\ Types /\ v \in Ends /\ v # e /\ o \in Nat
      /\ HandAt(objs, On, Sure, offer, e, v) /\ HandAt(objs, On, Sure, offer, v, e)
  BY <1>3, HandFacts
<1>6. /\ x \in Of(objs, v) /\ offer[v] # x /\ CloseSent(objs, offer, e, v, f)
      /\ objs[v][x].call \in {"accepted", "OpenConfirm"}
      /\ c.dir = "in" => /\ c.call = "accepted" /\ offer[e] # o
                         /\ c.peer = x /\ Returned(objs[v][x])
      /\ c.dir = "out" => Returned(c)
  <2>1. Closing(objs, offer, e, v, o, f)
    BY <1>1, <1>3, <1>5, ClosingFacts
  <2> QED BY <2>1 DEF Closing
<1> HIDE DEF c, v, N
<1>7. /\ Later(c, d) /\ Sane(d) /\ (Answered(d) => Answered(c))
      /\ (Confirmed(d) => Confirmed(c)) /\ d.rid = c.rid /\ d.dir = c.dir
      /\ d.peer = c.peer /\ d.call = c.call /\ (d.heard => c.heard) /\ ~d.sending
      /\ d.sentClose /\ d.writing = c.writing /\ d.id = c.id /\ d \in Channels
  BY <1>1, <1>5, ClosedStep
<1> HIDE DEF d
<1>8. Hand(objs', N, Sure, offer)
  <2>1. Step(objs, N, offer, e, v, o, d)
    BY <1>7, OwnStep DEF c
  <2> QED BY <1>1, <1>3, <1>4, <1>5, <1>7, <2>1, SetHand DEF v
<1>9. /\ objs'[e][o] = d /\ objs'[v] = objs[v] /\ o \in Of(objs', e)
      /\ Of(objs', v) = Of(objs, v)
  <2>1. Becomes(e, o, d)
    BY <1>1, <1>3, <1>5, <1>7, SetFacts
  <2> QED BY <1>3, <1>5, <2>1 DEF Becomes, Of
<1>10. Connected(objs', e, v, o, x)
  BY <1>3, <1>7, <1>9 DEF Connected, MadeFor, c
<1>11. Finished(objs', N, offer, e, v, x)
  <2>1. \A g \in N[e] : ~g.late => g.from # x
    <3>1. f.type \in {"Close", "OpenFailure"}
      BY <1>1
    <3> QED BY <1>4, <3>1 DEF Before
  <2> QED BY <1>6, <1>9, <2>1 DEF Finished, CloseSent
<1>12. /\ Hand(objs', N, Sure', offer')
       /\ \A p \in Sure[v] : p \in Sure'[v]
  <2>1. GaveUp(e, o)
    BY <1>1, <1>2, <1>3 DEF GaveUp, c
  <2>2. d.id = objs[e][o].id /\ x \in Of(objs', v)
    BY <1>6, <1>7, <1>9 DEF c
  <2> HIDE DEF x
  <2> QED BY <1>1, <1>3, <1>5, <1>7, <1>8, <1>10, <1>11, <2>1, <2>2, RemovedHand DEF v
<1>13. \A q \in Ends : OffersAt(q)'
  BY <1>1, <1>3, <1>7, OffersKept DEF c
<1>14. CASE wire' = Rest(e)
  <2>1. N = Wires(wire')
    BY <1>14 DEF N
  <2> QED BY <1>4, <1>12, <1>13, <1>14, <2>1, Conclude
<1>15. CASE ~c.sentClose /\ EncodeOK(Rest(e), e, r)
  <2>1. r.type = "Close" /\ r.chan = c.rid /\ r.from = o
    BY DEF Frame
  <2>2. r \in Packets
    <3>1. c.rid \in Nat /\ 0 \in Nat
      BY <1>3, <1>5, ChannelTypes DEF c
    <3> QED BY <1>5, <3>1, FrameTypes
  <2> HIDE DEF r
  <2>3. /\ c.dir = "in" => c.call = "accepted"
        /\ c.dir = "out" => c.call = "OpenConfirm"
        /\ c.dir \in {"in", "out"}
    BY <1>5, <1>6, <1>15 DEF Sane, SaneIn, Returned
  <2>4. CloseSent(objs', offer', v, e, r)
    BY <1>1, <1>6, <1>7, <1>9, <2>1, <2>3 DEF CloseSent
  <2>5. Sent(objs', offer', v, e, r)
    BY <1>9, <2>1, <2>4 DEF Sent, Answers
  <2>6. ASSUME NEW p \in Of(objs', v), Connected(objs', v, e, p, o)
        PROVE  p \in Sure'[v]
    <3>1. p \in Of(objs, v) /\ Connected(objs, v, e, p, o)
      BY <1>7, <1>9, <2>6 DEF Connected, MadeFor, c
    <3>2. ~Finished(objs, N, offer, v, e, o)
      <4>1. c.call # "abandoned"
        BY <2>3
      <4> QED BY <1>15, <4>1 DEF Finished, c
    <3>3. p \in Sure[v]
      BY <1>3, <1>4, <3>1, <3>2, PartnerListed DEF v
    <3> QED BY <1>12, <3>3
  <2>7. Pushable(objs', Sure', offer', v, e, r)
    BY <2>1, <2>5, <2>6 DEF Pushable
  <2>8. ASSUME NEW g \in N[v]
        PROVE  Before(g, r)
    <3> SUFFICES ASSUME g.from = o, g.type \in {"Close", "OpenFailure"} PROVE FALSE
      BY <2>1 DEF Before
    <3>1. Sent(objs, offer, v, e, g)
      <4>1. g \in On[v]
        BY <1>4, <1>5
      <4> QED BY <1>5, <4>1, SentFacts
    <3>2. CASE g.type = "Close"
      BY <1>15, <3>1, <3>2 DEF Sent, CloseSent, c
    <3>3. CASE g.type = "OpenFailure"
      BY <2>3, <3>1, <3>3 DEF Sent, AnswerSent, Answers, c
    <3> QED BY <3>2, <3>3
  <2>9. Hand(objs', Wires(wire'), Sure', offer') /\ \A q \in Ends : Ordered(wire'[q])
    <3>1. Rest(e) \in [Ends -> Seq(Packets)]
      BY <1>1, <1>5, RestTypes
    <3>2. /\ Hand(objs', Wires(Rest(e)), Sure', offer')
          /\ \A g \in Wires(Rest(e))[v] : Before(g, r)
      BY <1>12, <2>8 DEF N
    <3> QED BY <1>4, <1>15, <2>2, <2>7, <3>1, <3>2, Sends DEF v
  <2> QED BY <1>13, <2>9, Conclude
<1> QED BY <1>1, <1>14, <1>15

\* What is known when the answer of x arrives at o.
Answering(O, F, e, v, o, f) ==
  /\ f.from \in Of(O, v) /\ AnswerSent(O, F, e, v, f)
  /\ MadeFor(O, v, f.from, o) /\ O[e][o].dir = "out"
  /\ O[e][o].msg = <<>> /\ O[e][o].call \notin Answers /\ O[e][o].call # "encode"
  /\ \A r \in Of(O, v) : MadeFor(O, v, r, o) => r = f.from

LEMMA AnsweringFacts ==
  ASSUME NEW O, NEW M, NEW S, NEW F, NEW e, NEW v, HandAt(O, M, S, F, e, v),
         HandAt(O, M, S, F, v, e), NEW f, Sent(O, F, e, v, f), f.type \in Answers,
         NEW o \in Of(O, e), Connected(O, e, v, o, f.from)
  PROVE  Answering(O, F, e, v, o, f)
<1> DEFINE x == f.from
<1>1. x \in Of(O, v) /\ AnswerSent(O, F, e, v, f)
  BY DEF Sent
<1>2. Sane(O[e][o])
  BY DEF HandAt
<1>3. O[v][x].dir = "in" /\ ~Answered(O[e][O[v][x].peer])
  BY <1>1 DEF AnswerSent
<1>4. O[e][o].dir = "out" /\ MadeFor(O, v, x, o)
  BY <1>2, <1>3, Directions DEF Connected, Sane
<1>5. Pair(O, F, v, e, x) /\ O[v][x].peer = o
  BY <1>1, <1>3, <1>4 DEF HandAt, PairsAt, MadeFor
<1>6. /\ O[e][o].call # "encode"
      /\ \A r \in Of(O, v) : MadeFor(O, v, r, o) => r = x
  BY <1>5 DEF Pair
<1>7. O[e][o].msg = <<>> /\ O[e][o].call \notin Answers
  BY <1>3, <1>5 DEF Answered
<1> QED BY <1>1, <1>4, <1>6, <1>7 DEF Answering

LEMMA AnswerArrives ==
  ASSUME NEW c \in Channels, Sane(c), c.dir = "out", c.msg = <<>>, c.call \notin Answers,
         c.call # "encode", NEW t \in Answers, NEW rid \in Nat, NEW d,
         d = [c EXCEPT !.msg = Append(@, t), !.rid = rid]
  PROVE  /\ Later(c, d) /\ Sane(d) /\ d.rid = rid /\ d.dir = "out" /\ d.id = c.id
         /\ (Confirmed(d) => t = "OpenConfirm") /\ d \in Channels
<1>1. /\ d.dir = c.dir /\ d.id = c.id /\ d.peer = c.peer /\ d.rid = rid
      /\ d.msg = Append(c.msg, t) /\ d.writing = c.writing /\ d.call = c.call
      /\ d.sentClose = c.sentClose /\ d.sending = c.sending /\ d.heard = c.heard
  BY DEF Channels
<1>2. d.msg = <<t>>
  BY <1>1, OneMessage
<1>3. Later(c, d)
  BY <1>1 DEF Later
<1>4. Sane(d)
  <2>1. d.msg \in {<<>>, <<"OpenConfirm">>, <<"OpenFailure">>}
    BY <1>2 DEF Answers
  <2>2. SaneOut(d)
    BY <1>1, <2>1 DEF Sane, SaneOut
  <2> QED BY <1>1, <2>2, Directions DEF Sane
<1>5. Confirmed(d) => t = "OpenConfirm"
  <2>1. d.call # "OpenConfirm"
    BY <1>1 DEF Answers
  <2>2. <<t>>[1] = t /\ <<"OpenConfirm">>[1] = "OpenConfirm"
    OBVIOUS
  <2>3. <<t>> = <<"OpenConfirm">> => t = "OpenConfirm"
    BY <2>2
  <2> QED BY <1>2, <2>1, <2>3 DEF Confirmed
<1>6. d \in Channels
  BY MessageFacts DEF SameSlot, Answers
<1> QED BY <1>1, <1>3, <1>4, <1>5, <1>6

LEMMA HandleAnswerHand ==
  ASSUME HandInv, ListInv', NEW e \in Ends, HandleAnswer(e)
  PROVE  HandInv'
<1> DEFINE v == Peer(e)
           f == Head(wire[e])
           x == f.from
           o == Target(e)
           c == objs[e][o]
           rid == IF f.type = "OpenConfirm" THEN f.sender ELSE c.rid
           d == [c EXCEPT !.msg = Append(@, f.type), !.rid = rid]
           N == Wires(Rest(e))
<1>1. /\ wire[e] # <<>> /\ f.type \in Answers /\ loop[e] = "decode"
      /\ wire' = Rest(e) /\ offer' = offer
  BY DEF HandleAnswer, Decoding, Answers
<1>2. /\ Live(e) /\ f.type \in {"OpenConfirm", "OpenFailure", "Close"}
      /\ f.type \in {"OpenConfirm", "OpenFailure"}
  BY <1>1 DEF Live, Answers
<1>3. /\ o \in Objects(e) /\ o \in Of(objs, e) /\ o \in Sure[e] /\ c.id = f.chan
      /\ Connected(objs, e, v, o, x) /\ Sent(objs, offer, e, v, f)
  BY <1>1, <1>2, Received
<1>4. /\ Hand(objs, N, Sure, offer) /\ \A q \in Ends : Ordered(Rest(e)[q])
      /\ \A g \in N[e] : Before(f, g)
      /\ \A q \in Ends : N[q] \subseteq On[q]
  BY <1>1, Popped
<1>5. /\ c \in Channels /\ Sane(c) /\ Types /\ v \in Ends /\ v # e /\ c.rid \in Nat
      /\ HandAt(objs, On, Sure, offer, e, v) /\ HandAt(objs, On, Sure, offer, v, e)
  BY <1>3, HandFacts, ChannelTypes
<1>6. Answering(objs, offer, e, v, o, f)
  <2> HIDE DEF o, f, v
  <2> QED BY <1>1, <1>3, <1>5, AnsweringFacts
<1>7. c.dir = "out" /\ c.dir # "in"
  BY <1>6, Directions DEF Answering
<1>8. /\ Set(e, o, d) /\ loop' = loop
      /\ chans' = IF f.type = "OpenConfirm" THEN chans
                  ELSE [chans EXCEPT ![e] = RemoveChan(@, f.chan)]
  BY <1>7 DEF HandleAnswer
<1>9. rid \in Nat
  <2>1. f.sender \in Nat
    BY <1>1, <1>5, RestTypes
  <2> QED BY <1>5, <2>1
<1> HIDE DEF o, f
<1>10. /\ c.msg = <<>> /\ c.call \notin Answers /\ c.call # "encode"
       /\ x \in Of(objs, v) /\ AnswerSent(objs, offer, e, v, f) /\ MadeFor(objs, v, x, o)
       /\ \A r \in Of(objs, v) : MadeFor(objs, v, r, o) => r = x
  BY <1>6 DEF Answering
<1> HIDE DEF c, v, N, rid
<1>11. /\ Later(c, d) /\ Sane(d) /\ d.rid = rid /\ d.dir = "out" /\ d.id = c.id
       /\ (Confirmed(d) => f.type = "OpenConfirm") /\ d \in Channels
  BY <1>1, <1>5, <1>7, <1>9, <1>10, AnswerArrives
<1> HIDE DEF d
<1>12. Unasked(objs, N, offer, e, v, o)
  <2>1. ASSUME NEW g \in N[v], g.type = "Open"
        PROVE  g.from # o
    <3>1. g \in On[v]
      BY <1>4, <1>5
    <3>2. Sent(objs, offer, v, e, g)
      BY <1>5, <3>1, SentFacts
    <3> QED BY <1>10, <2>1, <3>2 DEF Sent, OpenSent
  <2>2. ASSUME NEW g \in N[e], g.type \in Answers
        PROVE  objs[v][g.from].peer # o
    <3> SUFFICES ASSUME objs[v][g.from].peer = o PROVE FALSE
      OBVIOUS
    <3>1. g \in On[e]
      BY <1>4
    <3>2. Sent(objs, offer, e, v, g)
      BY <1>5, <3>1, SentFacts
    <3>3. g.from = x
      BY <1>10, <2>2, <3>2 DEF Sent, AnswerSent, MadeFor
    <3>4. g.type \notin {"Data", "Close"} /\ f.type # "Data"
      BY <1>1, <2>2 DEF Answers
    <3>5. ~g.late
      BY <1>1, <1>5, <2>2, <3>4, OnlyDataLate DEF N, HandInv
    <3> QED BY <1>4, <3>3, <3>4, <3>5 DEF Before
  <2>3. offer[v] # x
    BY <1>10 DEF AnswerSent
  <2> QED BY <1>10, <2>1, <2>2, <2>3 DEF Unasked
<1>13. ASSUME NEW g \in N[v], g.from = o
       PROVE  g.type \notin {"Data", "Close"}
  <2>1. g \in On[v]
    BY <1>4, <1>5
  <2>2. Sent(objs, offer, v, e, g)
    BY <1>5, <2>1, SentFacts
  <2>3. c.call # "OpenConfirm"
    BY <1>10 DEF Answers
  <2>4. g.type # "Data"
    <3>1. ~Held(c)
      BY <1>5, <1>7, <2>3 DEF Sane, SaneOut, Held
    <3> QED BY <1>13, <2>2, <3>1 DEF Sent, DataSent, c
  <2>5. g.type # "Close"
    BY <1>7, <1>13, <2>2, <2>3 DEF Sent, CloseSent, c
  <2> QED BY <2>4, <2>5
<1>14. Confirmed(d) => AcceptedAs(objs, offer, v, o, d.rid, x)
  BY <1>10, <1>11 DEF AcceptedAs, AnswerSent, rid
<1>15. Step(objs, N, offer, e, v, o, d)
  BY <1>7, <1>10, <1>11, <1>12, <1>13, <1>14, Directions DEF Step, c
<1>16. Hand(objs', N, Sure, offer)
  BY <1>3, <1>4, <1>5, <1>8, <1>11, <1>15, SetHand DEF v
<1>17. \A q \in Ends : OffersAt(q)'
  BY <1>1, <1>3, <1>7, <1>8, <1>11, OffersKept DEF c
<1>18. Hand(objs', N, Sure', offer')
  <2>1. CASE f.type = "OpenConfirm"
    <3>1. chans' = chans /\ \A q \in Ends : Live(q)' = Live(q)
      BY <1>8, <2>1 DEF Live
    <3>2. Sure' = Sure
      BY <1>3, <1>5, <1>8, <1>11, <3>1, SureSame DEF c
    <3> QED BY <1>1, <1>16, <3>2
  <2>2. CASE f.type = "OpenFailure"
    <3>1. f.type # "OpenConfirm" /\ f.type \in {"Close", "OpenFailure"}
      BY <2>2
    <3>2. GaveUp(e, o)
      BY <1>1, <1>2, <1>3, <1>8, <3>1 DEF GaveUp, c
    <3>3. /\ objs'[e][o] = d /\ objs'[v] = objs[v] /\ Of(objs', v) = Of(objs, v)
      <4>1. Becomes(e, o, d)
        BY <1>3, <1>5, <1>8, <1>11, SetFacts
      <4> QED BY <1>5, <4>1 DEF Becomes, Of
    <3>4. Connected(objs', e, v, o, x)
      BY <1>10, <1>11, <3>3, Directions DEF Connected, MadeFor
    <3>5. objs[v][x].call = "abandoned" /\ offer[v] # x /\ Sane(objs[v][x])
      BY <1>5, <1>10, <2>2 DEF AnswerSent, HandAt
    <3>6. ~objs[v][x].sending
      <4> DEFINE y == objs[v][x]
      <4>1. Sane(y) /\ y.call = "abandoned"
        BY <3>5
      <4> HIDE DEF y
      <4>2. ~y.sending
        BY <4>1 DEF Sane, SaneIn, SaneOut
      <4> QED BY <4>2 DEF y
    <3>7. \A g \in N[e] : ~g.late => g.from # x
      BY <1>4, <3>1 DEF Before
    <3>8. Finished(objs', N, offer, e, v, x)
      BY <3>3, <3>5, <3>6, <3>7 DEF Finished
    <3>9. d.id = objs[e][o].id /\ x \in Of(objs', v)
      BY <1>10, <1>11, <3>3 DEF c
    <3> HIDE DEF x
    <3> QED BY <1>3, <1>5, <1>8, <1>11, <1>16, <3>2, <3>4, <3>8, <3>9, RemovedHand DEF v
  <2> QED BY <1>2, <2>1, <2>2
<1>19. N = Wires(wire') /\ \A q \in Ends : Ordered(wire'[q])
  BY <1>1, <1>4 DEF N
<1> QED BY <1>17, <1>18, <1>19, Conclude

-------------------------------------------------------------------------------
(* The theorems *)

LEMMA HandInit == Init => HandInv
<1> SUFFICES ASSUME Init PROVE HandInv
  OBVIOUS
<1>1. ListInv
  BY ListInit
<1>2. \A q \in Ends : /\ wire[q] = <<>> /\ objs[q] = <<>> /\ offer[q] = Nil
                      /\ loop[q] = "decode"
  BY DEF Init
<1>3. \A q \in Ends : Of(objs, q) = {} /\ On[q] = {}
  BY <1>2, SMTT(30) DEF Of, On, Wires
<1>4. \A q \in Ends : Peer(q) \in Ends
  BY PeerFacts
<1>5. Hand(objs, On, Sure, offer)
  BY <1>3, <1>4 DEF Hand, HandAt, PairsAt, ConfirmedAt, FramesAt, ListsAt
<1>6. ASSUME NEW q \in Ends
      PROVE  Ordered(wire[q]) /\ OffersAt(q)
  <2>1. Ordered(wire[q])
    BY <1>2, SMTT(30) DEF Ordered
  <2>2. loop[q] # "offer" /\ loop[q] # "confirm" /\ loop[q] # "fail"
    BY <1>2
  <2>3. loop[q] \notin Offering
    BY <2>2 DEF Offering
  <2> QED BY <1>2, <2>1, <2>2, <2>3 DEF OffersAt
<1> QED BY <1>1, <1>5, <1>6 DEF HandInv

LEMMA HandStep ==
  ASSUME SessionAssumption, CloseFrom = "read", HandInv, [Next]_vars
  PROVE  HandInv'
<1>0. ListInv'
  <2>1. ListInv
    BY DEF HandInv
  <2> QED BY <2>1, ListStep
<1>1. Openers \subseteq Ends /\ Cancels \subseteq Ends /\ Writers \subseteq Ends
  BY DEF SessionAssumption
<1>2. CASE UNCHANGED vars
  <2>1. UNCHANGED <<wire, chans, objs, loop, offer>>
    BY <1>2 DEF vars
  <2> QED BY <1>0, <2>1, IdleHand
<1>3. ASSUME NEW e \in Openers, Open(e)
      PROVE  HandInv'
  BY <1>0, <1>1, <1>3, OpenHand
<1>4. ASSUME NEW e \in Cancels, NEW o \in Objects(e), OpenCancelled(e, o)
      PROVE  HandInv'
  BY <1>0, <1>1, <1>4, CancelHand
<1>5. ASSUME NEW e \in Writers, NEW o \in Objects(e), Write(e, o)
      PROVE  HandInv'
  BY <1>0, <1>1, <1>5, WriteHand
<1>6. ASSUME NEW e, Accept(e) \/ AcceptEOF(e) \/ CloseSession(e)
      PROVE  HandInv'
  <2>1. UNCHANGED <<wire, chans, objs, loop, offer>>
    BY <1>6 DEF Accept, AcceptEOF, CloseSession
  <2> QED BY <1>0, <2>1, IdleHand
<1>7. ASSUME NEW e \in Ends, NEW o \in Objects(e),
             SendOpen(e, o) \/ OpenReply(e, o) \/ User(e, o)
      PROVE  HandInv'
  <2>1. CASE SendOpen(e, o)
    BY <1>0, <2>1, SendOpenHand
  <2>2. CASE OpenReply(e, o)
    BY <1>0, <2>2, ReplyHand
  <2>3. CASE Close(e, o)
    BY <1>0, <2>3, CloseHand
  <2>4. CASE SendClose(e, o)
    BY <1>0, <2>4, SendCloseHand
  <2>5. CASE SendData(e, o)
    BY <1>0, <2>5, SendDataHand
  <2> QED BY <1>7, <2>1, <2>2, <2>3, <2>4, <2>5 DEF User
<1>8. ASSUME NEW e \in Ends,
             \/ Packet(e) \/ Deliver(e) \/ OpenTimeout(e) \/ Answer(e)
             \/ CloseDropped(e) \/ Shut(e)
      PROVE  HandInv'
  <2>1. CASE HandleOpen(e)
    BY <1>0, <2>1, HandleOpenHand
  <2>2. CASE HandleAnswer(e)
    BY <1>0, <2>2, HandleAnswerHand
  <2>3. CASE HandleData(e)
    BY <1>0, <2>3, HandleDataHand
  <2>4. CASE HandleClose(e)
    BY <1>0, <2>4, HandleCloseHand
  <2>5. CASE InvalidChannel(e) \/ DecodeFails(e)
    BY <1>0, <2>5, FailHand
  <2>6. CASE Deliver(e) \/ OpenTimeout(e)
    BY <1>0, <2>6, OfferHand
  <2>7. CASE Answer(e)
    BY <1>0, <2>7, AnswerHand
  <2>8. CASE CloseDropped(e)
    BY <1>0, <2>8, CloseDroppedHand
  <2>9. CASE Shut(e)
    BY <1>0, <2>9, ShutHand
  <2> QED BY <1>8, <2>1, <2>2, <2>3, <2>4, <2>5, <2>6, <2>7, <2>8, <2>9 DEF Packet
<1> QED BY <1>2, <1>3, <1>4, <1>5, <1>6, <1>7, <1>8 DEF Next

LEMMA HandInvFrames == HandInv => FramesReachPeers
<1> SUFFICES ASSUME HandInv, NEW e \in Ends, loop[e] \notin {"drop", "down"},
                    NEW i \in 1 .. Len(wire[e]), wire[e][i].type # "Open",
                    ~wire[e][i].late
             PROVE  Paired(e, GetChan(chans[e], wire[e][i].chan), wire[e][i].from)
  BY DEF FramesReachPeers
<1> DEFINE f == wire[e][i]
           v == Peer(e)
<1>1. Types /\ Hand(objs, On, Sure, offer)
  BY DEF HandInv, ListInv
<1>2. f \in On[e]
  BY DEF On, Wires
<1>3. f.type \in {"OpenConfirm", "OpenFailure", "Data", "Close"} /\ ~f.late
  <2>1. f \in Packets
    BY <1>1, SMTT(30) DEF Types
  <2>2. f.type \in {"Open", "OpenConfirm", "OpenFailure", "Data", "Close"}
    BY <2>1 DEF Packets
  <2> QED BY <2>2
<1>4. v \in Ends /\ HandAt(objs, On, Sure, offer, e, v)
  BY <1>1, HandBoth
<1>5. f.from \in Objects(v)
  <2>1. Sent(objs, offer, e, v, f)
    BY <1>2, <1>4, SentFacts
  <2> QED BY <2>1 DEF Sent, Of, Objects
<1> HIDE DEF f
<1>6. PICK o \in Of(objs, e) : /\ o \in Sure[e] /\ objs[e][o].id = f.chan
                               /\ Connected(objs, e, v, o, f.from)
  BY <1>1, <1>2, <1>3, Reaches
<1>7. o \in Objects(e) /\ GetChan(chans[e], f.chan) = o
  BY <1>6 DEF Sure, Live
<1>8. Paired(e, o, f.from)
  BY <1>5, <1>6, <1>7 DEF Paired, Connected, MadeFor
<1> QED BY <1>7, <1>8 DEF f

LEMMA HandInvAgrees == HandInv => HandshakeAgrees
<1> SUFFICES ASSUME HandInv, NEW e \in Ends, NEW o \in Objects(e),
                    objs[e][o].call = "OpenConfirm"
             PROVE  \E p \in Objects(Peer(e)) :
                      /\ \A q \in Objects(Peer(e)) : Paired(e, o, q) <=> q = p
                      /\ objs[Peer(e)][p].call = "accepted"
                      /\ objs[Peer(e)][p].id = objs[e][o].rid
                      /\ objs[Peer(e)][p].rid = objs[e][o].id
  BY DEF HandshakeAgrees
<1> DEFINE v == Peer(e)
<1>1. /\ v \in Ends /\ o \in Of(objs, e) /\ Sane(objs[e][o])
      /\ HandAt(objs, On, Sure, offer, e, v) /\ HandAt(objs, On, Sure, offer, v, e)
  BY HandFacts
<1>2. objs[e][o].dir = "out" /\ objs[e][o].dir # "in"
  <2> DEFINE c == objs[e][o]
  <2>1. Sane(c) /\ c.call = "OpenConfirm"
    BY <1>1
  <2> HIDE DEF c
  <2>2. c.dir = "out" /\ c.dir # "in"
    BY <2>1 DEF Sane, SaneIn
  <2> QED BY <2>2 DEF c
<1> HIDE DEF v
<1>3. PICK p \in Of(objs, v) : AcceptedAs(objs, offer, v, o, objs[e][o].rid, p)
  BY <1>1, <1>2 DEF HandAt, ConfirmedAt, Confirmed
<1>4. Pair(objs, offer, v, e, p) /\ objs[v][p].peer = o /\ objs[v][p].dir = "in"
  BY <1>1, <1>3 DEF HandAt, PairsAt, AcceptedAs, MadeFor
<1>5. /\ objs[v][p].rid = objs[e][o].id
      /\ \A r \in Of(objs, v) : MadeFor(objs, v, r, o) => r = p
  BY <1>4 DEF Pair
<1>6. p \in Objects(v) /\ Paired(e, o, p)
  BY <1>2, <1>3, <1>4 DEF Paired, Of, Objects, v
<1>7. ASSUME NEW q \in Objects(v), Paired(e, o, q)
      PROVE  q = p
  BY <1>2, <1>5, <1>7 DEF Paired, MadeFor, Of, Objects, v
<1>8. \A q \in Objects(v) : Paired(e, o, q) <=> q = p
  BY <1>6, <1>7
<1>9. objs[v][p].call = "accepted" /\ objs[v][p].id = objs[e][o].rid
  BY <1>3 DEF AcceptedAs
<1> QED BY <1>5, <1>6, <1>8, <1>9 DEF v

\* For any number of calls of Open, any capacity of the transport, and whatever the
\* applications open, write, cancel and close, as long as they Close an accepted
\* channel only after a read of what its opener wrote: every frame on its way to a
\* loop that still runs names the slot of the channel that its sender is connected
\* to (getChan in session.onePacket), so that a reused slot receives nothing that was
\* meant for its former channel.  The one exception is Data that left after the
\* Close of its own end, which nothing in channel.Write prevents.
THEOREM FramesReachTheirChannel ==
  CloseFrom = "read" => (Spec => []FramesReachPeers)
<1> SUFFICES ASSUME CloseFrom = "read" PROVE Spec => []FramesReachPeers
  OBVIOUS
<1>1. Init => HandInv
  BY HandInit
<1>2. HandInv /\ [Next]_vars => HandInv'
  BY HandStep, SessionAssumption
<1>3. HandInv => FramesReachPeers
  BY HandInvFrames
<1> QED BY <1>1, <1>2, <1>3, PTL DEF Spec

\* Under the same conditions: when Open has returned a channel, exactly one channel
\* at the peer was made for it, Accept has returned that one, and each end knows the
\* id of the other (handleOpen and the answers in channel.handle).
THEOREM HandshakesAgree ==
  CloseFrom = "read" => (Spec => []HandshakeAgrees)
<1> SUFFICES ASSUME CloseFrom = "read" PROVE Spec => []HandshakeAgrees
  OBVIOUS
<1>1. Init => HandInv
  BY HandInit
<1>2. HandInv /\ [Next]_vars => HandInv'
  BY HandStep, SessionAssumption
<1>3. HandInv => HandshakeAgrees
  BY HandInvAgrees
<1> QED BY <1>1, <1>2, <1>3, PTL DEF Spec

===============================================================================
