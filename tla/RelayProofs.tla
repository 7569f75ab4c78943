------------------------------ MODULE RelayProofs -----------------------------
(***************************************************************************)
(* The relay: for any windows, any number of items and whatever the        *)
(* applications, the sessions and the copies do, what arrives is intact,   *)
(* and io.EOF means that it is complete.  First what each operation does   *)
(* to the two ends of a channel; then the streams, from the application    *)
(* that writes through the relay to the one that reads; then their ends.   *)
(***************************************************************************)
EXTENDS Relay, TLAPS

\* Leaves that name no prover go to Zenon.
USE ZenonT(30)

\* The items, the error of a refused call and the empty one of a frame without data.
Item == ({"client", "backend", "error"} \X Nat) \union {<<>>}
Frames == [type : {"Data", "EOF", "Close"}, item : Item]
Channels ==
  [in : Seq(Frames), buf : Seq(Item), eof : BOOLEAN, win : Int, half : BOOLEAN,
   sentClose : BOOLEAN, closed : BOOLEAN,
   got : Seq(Item), saw : BOOLEAN, wrote : Nat, fin : Nat, quit : BOOLEAN]
Chans == [Ends -> Channels]

\* D is C but for the two ends of a channel.
Only(C, D, e) == D \in Chans /\ \A x \in Ends : x # e /\ x # Other(e) => D[x] = C[x]

\* The two ends of a channel.
LEMMA OtherFacts ==
  ASSUME NEW e \in Ends
  PROVE  /\ Other(e) \in Ends /\ Other(e) # e /\ Other(Other(e)) = e
         /\ Other(e) \in Apps <=> e \notin Apps
BY DEF Ends, Other, Apps

\* The channels C with new records for the two ends of one, or for one end.
With(C, e, u, v) == [C EXCEPT ![e] = u, ![Other(e)] = v]

LEMMA Update ==
  ASSUME NEW C \in Chans, NEW e \in Ends, NEW u \in Channels, NEW v \in Channels, NEW D,
         D = With(C, e, u, v)
  PROVE  Only(C, D, e) /\ D[e] = u /\ D[Other(e)] = v
BY OtherFacts DEF Only, Chans, With

\* A Close is on its way; no item is.
HasClose(in) == \E i \in 1 .. Len(in) : in[i].type = "Close"
NoData(in) == \A i \in 1 .. Len(in) : in[i].type # "Data"

\* The arithmetic of the streams: sums, lengths, what the head and the tail of a list
\* are, and lists of frames that grow by one.
LEMMA Sums ==
  ASSUME NEW n \in Nat
  PROVE  /\ n + 1 \in Nat /\ n + 0 = n /\ n + Len(<<>>) = n /\ n + 0 + Len(<<>>) = n
         /\ (n + 1) + 0 = n + 1
BY SMTT(30)

LEMMA Lengths ==
  ASSUME NEW T, NEW s \in Seq(T), NEW n \in Nat
  PROVE  Len(s) \in Nat /\ n + Len(s) \in Nat
BY SMTT(30)

LEMMA Heads ==
  ASSUME NEW T, NEW s \in Seq(T), s # <<>>
  PROVE  /\ Head(s) \in T /\ 1 \in 1 .. Len(s) /\ Head(s) = s[1]
         /\ \A i \in 1 .. Len(Tail(s)) : i + 1 \in 1 .. Len(s) /\ Tail(s)[i] = s[i + 1]
         /\ \A n \in Nat : n + 1 + Len(Tail(s)) = n + 0 + Len(s)
BY SMTT(30)

LEMMA Moved ==
  ASSUME NEW T, NEW g \in Seq(T), NEW b \in Seq(T), b # <<>>
  PROVE  Len(Append(g, Head(b))) + Len(Tail(b)) = Len(g) + Len(b)
BY SMTT(30)

LEMMA Below ==
  ASSUME NEW m \in Nat, NEW w \in Nat, NEW l \in Nat, m =< w, w =< m + l, m # w
  PROVE  1 \in 1 .. l /\ m + 1 =< w
BY SMTT(30)

LEMMA AtLeast ==
  ASSUME NEW n \in Nat
  PROVE  n >= n
BY SMTT(30)

LEMMA NoDataAppend ==
  ASSUME NEW in \in Seq(Frames), NEW f \in Frames, f.type # "Data", NoData(in)
  PROVE  NoData(Append(in, f))
BY SMTT(30) DEF NoData

LEMMA NoneClose == ~HasClose(<<>>)
BY SMTT(30) DEF HasClose

LEMMA ZeroIsNot == ~(0 > 0)
BY SMTT(30)

-------------------------------------------------------------------------------
(* What a channel keeps: the record d follows c. *)

\* The parts of a record: what is on its way, the flags, what was read, what was
\* written.
Lists(c, d) == d.in = c.in /\ d.buf = c.buf
Flags(c, d) ==
  d.eof = c.eof /\ d.half = c.half /\ d.sentClose = c.sentClose /\ d.closed = c.closed
Reads(c, d) == d.got = c.got /\ d.saw = c.saw
Writes(c, d) == d.wrote = c.wrote /\ d.fin = c.fin /\ d.quit = c.quit

\* What a step may do to an end: one predicate for each kind of change, which names
\* what changes and says that all else stays.
IsWrote(c, d, w) ==
  /\ d \in Channels /\ Lists(c, d) /\ Flags(c, d) /\ Reads(c, d)
  /\ d.wrote = w /\ d.fin = c.fin /\ d.quit = c.quit
IsIn(c, d, s) ==
  /\ d \in Channels /\ Flags(c, d) /\ Reads(c, d) /\ Writes(c, d)
  /\ d.in = s /\ d.buf = c.buf
IsBuf(c, d, s, g) ==
  /\ d \in Channels /\ Flags(c, d) /\ Writes(c, d)
  /\ d.in = c.in /\ d.buf = s /\ d.got = g /\ d.saw = c.saw
IsEnded(c, d, n, h, s, q) ==
  /\ d \in Channels /\ Lists(c, d) /\ Reads(c, d)
  /\ d.eof = c.eof /\ d.half = h /\ d.sentClose = s /\ d.closed = c.closed
  /\ d.wrote = c.wrote /\ d.fin = n /\ d.quit = q
IsEOF(c, d, s) ==
  /\ d \in Channels /\ Reads(c, d) /\ Writes(c, d)
  /\ d.in = s /\ d.buf = c.buf
  /\ d.eof = TRUE /\ d.half = c.half /\ d.sentClose = c.sentClose /\ d.closed = c.closed
IsGone(c, d, s) ==
  /\ d \in Channels /\ Reads(c, d) /\ Writes(c, d)
  /\ d.in = s /\ d.buf = c.buf
  /\ d.eof = TRUE /\ d.half = c.half /\ d.sentClose = TRUE /\ d.closed = TRUE

IsSaw(c, d) ==
  /\ d \in Channels /\ Lists(c, d) /\ Flags(c, d) /\ Writes(c, d)
  /\ d.got = c.got /\ d.saw = TRUE
IsMoved(c, d, s, b) ==
  /\ d \in Channels /\ Flags(c, d) /\ Reads(c, d) /\ Writes(c, d)
  /\ d.in = s /\ d.buf = b
IsClosing(c, d, s) ==
  /\ d \in Channels /\ Reads(c, d) /\ Writes(c, d)
  /\ d.in = s /\ d.buf = c.buf
  /\ d.eof = c.eof /\ d.half = c.half /\ d.sentClose = TRUE /\ d.closed = c.closed

\* The updates of a record are changes of these kinds.
LEMMA RecWrote ==
  ASSUME NEW c \in Channels, NEW w \in Nat, NEW k \in Int
  PROVE  IsWrote(c, [[c EXCEPT !.wrote = w, !.win = k] EXCEPT !.sentClose = c.sentClose], w)
BY DEF Channels, Lists, Flags, Reads, IsWrote

LEMMA RecWin ==
  ASSUME NEW c \in Channels, NEW k \in Int
  PROVE  IsWrote(c, [c EXCEPT !.win = k], c.wrote)
BY DEF Channels, Lists, Flags, Reads, IsWrote

LEMMA RecIn ==
  ASSUME NEW c \in Channels, NEW s \in Seq(Frames)
  PROVE  IsIn(c, [c EXCEPT !.in = s], s)
BY DEF Channels, Flags, Reads, Writes, IsIn

LEMMA RecBuf ==
  ASSUME NEW c \in Channels, NEW s \in Seq(Item)
  PROVE  IsBuf(c, [c EXCEPT !.buf = s], s, c.got)
BY DEF Channels, Flags, Writes, IsBuf

LEMMA RecSaw ==
  ASSUME NEW c \in Channels
  PROVE  IsSaw(c, [c EXCEPT !.saw = TRUE])
BY DEF Channels, Lists, Flags, Writes, IsSaw

LEMMA RecGotten ==
  ASSUME NEW c \in Channels, NEW g \in Seq(Item)
  PROVE  IsBuf(c, [c EXCEPT !.got = g], c.buf, g)
BY DEF Channels, Flags, Writes, IsBuf

LEMMA RecMoved ==
  ASSUME NEW c \in Channels, NEW s \in Seq(Frames), NEW b \in Seq(Item)
  PROVE  IsMoved(c, [[c EXCEPT !.in = s] EXCEPT !.buf = b], s, b)
BY DEF Channels, Flags, Reads, Writes, IsMoved

LEMMA RecClosing ==
  ASSUME NEW c \in Channels, NEW s \in Seq(Frames)
  PROVE  /\ IsClosing(c, [c EXCEPT !.sentClose = TRUE], c.in)
         /\ IsClosing(c, [[c EXCEPT !.sentClose = TRUE] EXCEPT !.in = s], s)
BY DEF Channels, Reads, Writes, IsClosing

LEMMA RecEnded ==
  ASSUME NEW c \in Channels, NEW n \in Nat, NEW b \in BOOLEAN
  PROVE  /\ IsEnded(c, [c EXCEPT !.fin = n], n, c.half, c.sentClose, c.quit)
         /\ IsEnded(c, [c EXCEPT !.half = b], c.fin, b, c.sentClose, c.quit)
         /\ IsEnded(c, [c EXCEPT !.sentClose = b], c.fin, c.half, b, c.quit)
         /\ IsEnded(c, [c EXCEPT !.quit = b], c.fin, c.half, c.sentClose, b)
BY DEF Channels, Lists, Reads, IsEnded

LEMMA RecEOF ==
  ASSUME NEW c \in Channels, NEW s \in Seq(Frames)
  PROVE  /\ IsEOF(c, [c EXCEPT !.eof = TRUE], c.in)
         /\ IsEOF(c, [[c EXCEPT !.in = s] EXCEPT !.eof = TRUE], s)
BY DEF Channels, Reads, Writes, IsEOF

LEMMA RecGone ==
  ASSUME NEW c \in Channels, NEW s \in Seq(Frames)
  PROVE  /\ IsGone(c, Gone(c), c.in)
         /\ IsGone(c, Gone([c EXCEPT !.in = s]), s)
         /\ IsGone(c, [Gone(c) EXCEPT !.in = s], s)
BY DEF Channels, Reads, Writes, IsGone, Gone

-------------------------------------------------------------------------------
(* What the operations on a channel do to its two ends *)

\* Write: an item is counted and sent, by an application as a frame,
Counted(C, e) == [C EXCEPT ![e].wrote = IF e \in Apps THEN @ + 1 ELSE @, ![e].win = @ - 1]

LEMMA AppWrites ==
  ASSUME NEW C \in Chans, NEW e \in Apps, NEW i \in Item, NEW D,
         D = Sent(Counted(C, e), e, Frame("Data", i))
  PROVE  /\ Only(C, D, e)
         /\ IsWrote(C[e], D[e], C[e].wrote + 1)
         /\ IsIn(C[Other(e)], D[Other(e)], Append(C[Other(e)].in, Frame("Data", i)))
<1> DEFINE c == C[e]
           o == C[Other(e)]
           f == Frame("Data", i)
           u == [[c EXCEPT !.wrote = c.wrote + 1, !.win = c.win - 1] EXCEPT !.sentClose = c.sentClose]
           v == [o EXCEPT !.in = Append(o.in, f)]
<1>1. e \in Ends /\ Other(e) \in Ends /\ Other(e) # e
  BY OtherFacts DEF Ends, Apps
<1>2. c \in Channels /\ o \in Channels /\ f \in Frames /\ f.type = "Data"
  BY <1>1 DEF Chans, Frames, Frame
<1>3. c.wrote + 1 \in Nat /\ c.win - 1 \in Int /\ Append(o.in, f) \in Seq(Frames) /\ c.sentClose \in BOOLEAN
  <2> HIDE DEF c, o, f
  <2> QED BY <1>2, SMTT(30) DEF Channels
<1>4. IsWrote(c, u, c.wrote + 1) /\ IsIn(o, v, Append(o.in, f))
  <2> HIDE DEF c, o, f
  <2> QED BY <1>2, <1>3, RecWrote, RecIn
<1>5. D = With(C, e, u, v)
  BY <1>1, <1>2, <1>3 DEF Sent, Counted, Queued, Chans, Channels, With
<1>6. u \in Channels /\ v \in Channels
  BY <1>4 DEF IsWrote, IsIn
<1> HIDE DEF u, v
<1>7. Only(C, D, e) /\ D[e] = u /\ D[Other(e)] = v
  BY <1>1, <1>5, <1>6, Update, SMTT(30)
<1> QED
  BY <1>4, <1>7

\* by the relay straight into the buffer of the application.
LEMMA RelayWrites ==
  ASSUME NEW C \in Chans, NEW e \in Ends \ Apps, NEW i \in Item, NEW D,
         D = Sent(Counted(C, e), e, Frame("Data", i))
  PROVE  /\ Only(C, D, e)
         /\ IsWrote(C[e], D[e], C[e].wrote)
         /\ IsBuf(C[Other(e)], D[Other(e)], Append(C[Other(e)].buf, i), C[Other(e)].got)
<1> DEFINE c == C[e]
           o == C[Other(e)]
           u == [[c EXCEPT !.wrote = c.wrote, !.win = c.win - 1] EXCEPT !.sentClose = c.sentClose]
           v == [o EXCEPT !.buf = Append(o.buf, i)]
<1>1. e \in Ends /\ Other(e) \in Ends /\ Other(e) # e /\ e \notin Apps
  BY OtherFacts
<1>2. c \in Channels /\ o \in Channels
  BY <1>1 DEF Chans
<1>3. c.wrote \in Nat /\ c.win - 1 \in Int /\ Append(o.buf, i) \in Seq(Item) /\ c.sentClose \in BOOLEAN
  <2> HIDE DEF c, o
  <2> QED BY <1>2, SMTT(30) DEF Channels
<1>4. IsWrote(c, u, c.wrote) /\ IsBuf(o, v, Append(o.buf, i), o.got)
  <2> HIDE DEF c, o
  <2> QED BY <1>2, <1>3, RecWrote, RecBuf
<1>5. D = With(C, e, u, v)
  <2>1. Frame("Data", i).type = "Data" /\ Frame("Data", i).item = i
    BY DEF Frame
  <2> QED BY <1>1, <1>2, <1>3, <2>1 DEF Sent, Handled, Counted, Chans, Channels, With
<1>6. u \in Channels /\ v \in Channels
  BY <1>4 DEF IsWrote, IsBuf
<1> HIDE DEF u, v
<1>7. Only(C, D, e) /\ D[e] = u /\ D[Other(e)] = v
  BY <1>1, <1>5, <1>6, Update, SMTT(30)
<1> QED
  BY <1>4, <1>7

\* Read: the first item leaves the buffer, and the window is returned.
LEMMA ReadTakes ==
  ASSUME chan \in Chans, NEW e \in Ends, chan[e].buf # <<>>, NEW D, D = Taken(e)
  PROVE  /\ Only(chan, D, e)
         /\ IsBuf(chan[e], D[e], Tail(chan[e].buf), chan[e].got)
         /\ IsWrote(chan[Other(e)], D[Other(e)], chan[Other(e)].wrote)
<1> DEFINE c == chan[e]
           o == chan[Other(e)]
           k == IF c.sentClose THEN o.win ELSE o.win + 1
           u == [c EXCEPT !.buf = Tail(c.buf)]
           v == [o EXCEPT !.win = k]
<1>1. e \in Ends /\ Other(e) \in Ends /\ Other(e) # e
  BY OtherFacts
<1>2. c \in Channels /\ o \in Channels
  BY <1>1 DEF Chans
<1>3. k \in Int /\ Tail(c.buf) \in Seq(Item)
  <2>1. c.buf # <<>>
    OBVIOUS
  <2> HIDE DEF c, o
  <2> QED BY <1>2, <2>1, SMTT(30) DEF Channels
<1>4. IsBuf(c, u, Tail(c.buf), c.got) /\ IsWrote(o, v, o.wrote)
  <2> HIDE DEF c, o, k
  <2> QED BY <1>2, <1>3, RecWin, RecBuf
<1>5. D = With(chan, e, u, v)
  BY <1>1 DEF Taken, Chans, With
<1>6. u \in Channels /\ v \in Channels
  BY <1>4 DEF IsWrote, IsBuf
<1> HIDE DEF u, v
<1>7. Only(chan, D, e) /\ D[e] = u /\ D[Other(e)] = v
  BY <1>1, <1>5, <1>6, Update, SMTT(30)
<1> QED
  BY <1>4, <1>7

Put(C, e, u) == [C EXCEPT ![e] = u]

LEMMA UpdateOne ==
  ASSUME NEW C \in Chans, NEW e \in Ends, NEW u \in Channels, NEW D,
         D = Put(C, e, u)
  PROVE  Only(C, D, e) /\ D[e] = u /\ D[Other(e)] = C[Other(e)]
BY OtherFacts DEF Only, Chans, Put

\* The channels C when e has half-closed its channel, and when it has left it.
Halved(C, e) == [C EXCEPT ![e].half = TRUE]
Left(C, e) == [C EXCEPT ![e].quit = TRUE]

LEMMA Halves ==
  ASSUME NEW C \in Chans, NEW e \in Ends, NEW D, D = Halved(C, e)
  PROVE  /\ Only(C, D, e) /\ D[Other(e)] = C[Other(e)]
         /\ IsEnded(C[e], D[e], C[e].fin, TRUE, C[e].sentClose, C[e].quit)
<1>1. C[e] \in Channels
  BY DEF Chans
<1>2. IsEnded(C[e], [C[e] EXCEPT !.half = TRUE], C[e].fin, TRUE, C[e].sentClose, C[e].quit)
  <2>1. C[e].fin \in Nat
    BY <1>1 DEF Channels
  <2> QED BY <1>1, <2>1, RecEnded
<1>3. [C[e] EXCEPT !.half = TRUE] \in Channels
  BY <1>2 DEF IsEnded
<1>4. Only(C, D, e) /\ D[e] = [C[e] EXCEPT !.half = TRUE] /\ D[Other(e)] = C[Other(e)]
  <2> DEFINE u == [C[e] EXCEPT !.half = TRUE]
  <2>1. D = Put(C, e, u)
    BY DEF Put, Halved
  <2> HIDE DEF u
  <2>2. Only(C, D, e) /\ D[e] = u /\ D[Other(e)] = C[Other(e)]
    <3>1. u \in Channels
      BY <1>3 DEF u
    <3> QED BY <2>1, <3>1, UpdateOne, SMTT(30)
  <2> QED BY <2>2 DEF u
<1> QED
  BY <1>2, <1>4

LEMMA Quits ==
  ASSUME NEW C \in Chans, NEW e \in Ends, NEW D, D = Left(C, e)
  PROVE  /\ Only(C, D, e) /\ D[Other(e)] = C[Other(e)]
         /\ IsEnded(C[e], D[e], C[e].fin, C[e].half, C[e].sentClose, TRUE)
<1>1. C[e] \in Channels
  BY DEF Chans
<1>2. IsEnded(C[e], [C[e] EXCEPT !.quit = TRUE], C[e].fin, C[e].half, C[e].sentClose, TRUE)
  <2>1. C[e].fin \in Nat
    BY <1>1 DEF Channels
  <2> QED BY <1>1, <2>1, RecEnded
<1>3. [C[e] EXCEPT !.quit = TRUE] \in Channels
  BY <1>2 DEF IsEnded
<1>4. Only(C, D, e) /\ D[e] = [C[e] EXCEPT !.quit = TRUE] /\ D[Other(e)] = C[Other(e)]
  <2> DEFINE u == [C[e] EXCEPT !.quit = TRUE]
  <2>1. D = Put(C, e, u)
    BY DEF Put, Left
  <2> HIDE DEF u
  <2>2. Only(C, D, e) /\ D[e] = u /\ D[Other(e)] = C[Other(e)]
    <3>1. u \in Channels
      BY <1>3 DEF u
    <3> QED BY <2>1, <3>1, UpdateOne, SMTT(30)
  <2> QED BY <2>2 DEF u
<1> QED
  BY <1>2, <1>4

\* The end that is announced by CloseWrite and Close.
Fin(c) == IF c.fin = 0 /\ ~c.sentClose THEN c.wrote + 1 ELSE c.fin

LEMMA Announces ==
  ASSUME NEW C \in Chans, NEW e \in Ends, NEW D, D = Announced(C, e)
  PROVE  /\ Only(C, D, e) /\ D[Other(e)] = C[Other(e)]
         /\ IsEnded(C[e], D[e], IF e \in Apps THEN Fin(C[e]) ELSE C[e].fin,
                    C[e].half, C[e].sentClose, C[e].quit)
<1>1. C[e] \in Channels
  BY DEF Chans
<1>2. C[e].wrote + 1 \in Nat
  BY <1>1, SMTT(30) DEF Channels
<1>3. CASE e \in Apps /\ C[e].fin = 0 /\ ~C[e].sentClose
  <2> DEFINE u == [C[e] EXCEPT !.fin = C[e].wrote + 1]
  <2>1. IsEnded(C[e], u, C[e].wrote + 1, C[e].half, C[e].sentClose, C[e].quit)
    BY <1>1, <1>2, RecEnded
  <2>2. u \in Channels
    BY <2>1 DEF IsEnded
  <2>3. D = Put(C, e, u)
    BY <1>3 DEF Announced, Put
  <2> HIDE DEF u
  <2>4. Only(C, D, e) /\ D[e] = u /\ D[Other(e)] = C[Other(e)]
    BY <2>2, <2>3, UpdateOne, SMTT(30)
  <2>5. Fin(C[e]) = C[e].wrote + 1
    BY <1>3 DEF Fin
  <2> QED
    BY <1>3, <2>1, <2>4, <2>5
<1>4. CASE ~(e \in Apps /\ C[e].fin = 0 /\ ~C[e].sentClose)
  <2>1. D = C
    BY <1>4 DEF Announced
  <2>2. (IF e \in Apps THEN Fin(C[e]) ELSE C[e].fin) = C[e].fin
    BY <1>4 DEF Fin
  <2>3. Only(C, C, e) /\ IsEnded(C[e], C[e], C[e].fin, C[e].half, C[e].sentClose, C[e].quit)
    BY <1>1 DEF Only, IsEnded, Lists, Reads
  <2> QED
    BY <2>1, <2>2, <2>3
<1> QED
  BY <1>3, <1>4

\* A control frame sent by an application, and by the relay, on a channel where no
\* Close was sent.
LEMMA AppSends ==
  ASSUME NEW C \in Chans, NEW e \in Apps, NEW f \in Frames, ~C[e].sentClose, NEW D,
         D = Sent(C, e, f)
  PROVE  /\ Only(C, D, e)
         /\ IsEnded(C[e], D[e], C[e].fin, C[e].half, f.type = "Close", C[e].quit)
         /\ IsIn(C[Other(e)], D[Other(e)], Append(C[Other(e)].in, f))
<1> DEFINE c == C[e]
           o == C[Other(e)]
           b == f.type = "Close"
           u == [c EXCEPT !.sentClose = b]
           v == [o EXCEPT !.in = Append(o.in, f)]
<1>1. e \in Ends /\ Other(e) \in Ends /\ Other(e) # e
  BY OtherFacts DEF Ends, Apps
<1>2. c \in Channels /\ o \in Channels /\ ~c.sentClose
  BY <1>1 DEF Chans
<1>3. Append(o.in, f) \in Seq(Frames) /\ c.fin \in Nat /\ b \in BOOLEAN
  <2> HIDE DEF c, o
  <2> QED BY <1>2, SMTT(30) DEF Channels
<1>4. IsEnded(c, u, c.fin, c.half, b, c.quit) /\ IsIn(o, v, Append(o.in, f))
  <2> HIDE DEF c, o, b
  <2> QED BY <1>2, <1>3, RecEnded, RecIn
<1>5. D = With(C, e, u, v)
  BY <1>1, <1>2 DEF Sent, Queued, Chans, With
<1>6. u \in Channels /\ v \in Channels
  BY <1>4 DEF IsEnded, IsIn
<1> HIDE DEF u, v
<1>7. Only(C, D, e) /\ D[e] = u /\ D[Other(e)] = v
  BY <1>1, <1>5, <1>6, Update, SMTT(30)
<1> QED
  BY <1>4, <1>7

\* The frames EOF and Close of the relay reach the application at once.
LEMMA RelaySendsEOF ==
  ASSUME NEW C \in Chans, NEW e \in Ends \ Apps, ~C[e].sentClose, NEW D,
         D = Sent(C, e, Frame("EOF", <<>>))
  PROVE  /\ Only(C, D, e)
         /\ IsEnded(C[e], D[e], C[e].fin, C[e].half, FALSE, C[e].quit)
         /\ IsEOF(C[Other(e)], D[Other(e)], C[Other(e)].in)
<1> DEFINE c == C[e]
           o == C[Other(e)]
           u == [c EXCEPT !.sentClose = FALSE]
           v == [o EXCEPT !.eof = TRUE]
<1>1. e \in Ends /\ Other(e) \in Ends /\ Other(e) # e /\ e \notin Apps
  BY OtherFacts
<1>2. c \in Channels /\ o \in Channels /\ ~c.sentClose
  BY <1>1 DEF Chans
<1>3. c.fin \in Nat /\ o.in \in Seq(Frames)
  <2> HIDE DEF c, o
  <2> QED BY <1>2 DEF Channels
<1>4. IsEnded(c, u, c.fin, c.half, FALSE, c.quit) /\ IsEOF(o, v, o.in)
  <2> HIDE DEF c, o
  <2> QED BY <1>2, <1>3, RecEnded, RecEOF
<1>5. D = With(C, e, u, v)
  <2>1. Frame("EOF", <<>>).type = "EOF"
    BY DEF Frame
  <2> QED BY <1>1, <1>2, <2>1 DEF Sent, Handled, Chans, With
<1>6. u \in Channels /\ v \in Channels
  BY <1>4 DEF IsEnded, IsEOF
<1> HIDE DEF u, v
<1>7. Only(C, D, e) /\ D[e] = u /\ D[Other(e)] = v
  BY <1>1, <1>5, <1>6, Update, SMTT(30)
<1> QED
  BY <1>4, <1>7

CloseFrame == Frame("Close", <<>>)

LEMMA RelaySendsClose ==
  ASSUME NEW C \in Chans, NEW e \in Ends \ Apps, ~C[e].sentClose, NEW D,
         D = Sent(C, e, CloseFrame)
  PROVE  /\ Only(C, D, e)
         /\ IsClosing(C[e], D[e], IF C[Other(e)].sentClose THEN C[e].in
                                  ELSE Append(C[e].in, CloseFrame))
         /\ IsGone(C[Other(e)], D[Other(e)], C[Other(e)].in)
<1> DEFINE c == C[e]
           o == C[Other(e)]
           u == IF o.sentClose THEN [c EXCEPT !.sentClose = TRUE]
                ELSE [[c EXCEPT !.sentClose = TRUE] EXCEPT !.in = Append(c.in, CloseFrame)]
           v == Gone(o)
<1>   e \in Ends /\ Other(e) \in Ends /\ Other(e) # e /\ e \notin Apps /\ Other(Other(e)) = e
      /\ Other(e) \in Apps
  BY OtherFacts
<1>   c \in Channels /\ o \in Channels /\ ~c.sentClose /\ CloseFrame \in Frames
      /\ CloseFrame.type = "Close"
  BY DEF Chans, CloseFrame, Frame, Frames, Item
<1>1. c.in \in Seq(Frames) /\ Append(c.in, CloseFrame) \in Seq(Frames) /\ o.in \in Seq(Frames)
      /\ o.sentClose \in BOOLEAN
  <2> HIDE DEF c, o
  <2> QED BY SMTT(30) DEF Channels
<1>2. /\ IsClosing(c, u, IF o.sentClose THEN c.in ELSE Append(c.in, CloseFrame))
      /\ IsGone(o, v, o.in)
  <2> HIDE DEF c, o
  <2>1. IsGone(o, v, o.in)
    BY <1>1, RecGone
  <2>2. IsClosing(c, [c EXCEPT !.sentClose = TRUE], c.in)
    BY <1>1, RecClosing
  <2>3. IsClosing(c, [[c EXCEPT !.sentClose = TRUE] EXCEPT !.in = Append(c.in, CloseFrame)],
                  Append(c.in, CloseFrame))
    BY <1>1, RecClosing
  <2> QED BY <2>1, <2>2, <2>3
<1>3. D = With(C, e, u, v)
  <2>1. CASE o.sentClose
    <3> DEFINE d == [C EXCEPT ![e].sentClose = TRUE]
    <3>1. D = Handled(d, Other(e), CloseFrame)
      BY DEF Sent
    <3>2. d[e] = u /\ d[Other(e)] = o /\ d \in [Ends -> Channels \union {u}]
      BY <2>1 DEF Chans
    <3>3. D = [d EXCEPT ![Other(e)] = v, ![e] = u]
      <4> HIDE DEF d, u, v, o
      <4>1. D = [d EXCEPT ![Other(e)] = Gone(d[Other(e)]), ![e] = d[e]]
        BY <2>1, <3>1, <3>2 DEF Handled
      <4> QED BY <3>2, <4>1 DEF v
    <3> QED BY <3>3 DEF Chans, With
  <2>2. CASE ~o.sentClose
    <3> DEFINE d == [C EXCEPT ![e].sentClose = TRUE]
               w == [c EXCEPT !.sentClose = TRUE]
    <3>1. D = Handled(d, Other(e), CloseFrame)
      BY DEF Sent
    <3>2. d[e] = w /\ d[Other(e)] = o /\ DOMAIN d = Ends
      BY DEF Chans
    <3>3. w.in = c.in
      BY DEF Channels
    <3>4. D = [d EXCEPT ![Other(e)] = v, ![e] = u]
      <4> HIDE DEF d, v, o, w
      <4>1. D = [d EXCEPT ![Other(e)] = Gone(d[Other(e)]), ![e] = Queued(d[e], CloseFrame)]
        BY <2>2, <3>1, <3>2 DEF Handled
      <4>2. u = Queued(w, CloseFrame)
        BY <2>2, <3>3 DEF w, Queued
      <4> HIDE DEF u
      <4> QED BY <3>2, <4>1, <4>2 DEF v
    <3> QED BY <3>4 DEF Chans, With
  <2> QED BY <2>1, <2>2
<1>4. u \in Channels /\ v \in Channels
  BY <1>2 DEF IsClosing, IsGone
<1> HIDE DEF u, v
<1>5. Only(C, D, e) /\ D[e] = u /\ D[Other(e)] = v
  BY <1>3, <1>4, Update, SMTT(30)
<1> QED
  BY <1>2, <1>5

\* Two changes of the same channel.
LEMMA OnlyTrans ==
  ASSUME NEW C, NEW D, NEW E, NEW e, Only(C, D, e), Only(D, E, e)
  PROVE  Only(C, E, e)
BY DEF Only

\* CloseWrite and Close, by an application and by the relay.
LEMMA AppClosesWrite ==
  ASSUME NEW C \in Chans, NEW e \in Apps, NEW D,
         D = Sent([Announced(C, e) EXCEPT ![e].half = TRUE], e, Frame("EOF", <<>>))
  PROVE  /\ Only(C, D, e)
         /\ IsEnded(C[e], D[e], Fin(C[e]), TRUE, C[e].sentClose, C[e].quit)
         /\ C[e].sentClose => D[Other(e)] = C[Other(e)]
         /\ ~C[e].sentClose =>
              IsIn(C[Other(e)], D[Other(e)], Append(C[Other(e)].in, Frame("EOF", <<>>)))
<1> DEFINE P == Announced(C, e)
           Q == Halved(P, e)
           f == Frame("EOF", <<>>)
<1>   e \in Ends /\ f \in Frames /\ f.type = "EOF" /\ C[e] \in Channels
  BY DEF Ends, Apps, Frame, Frames, Item, Chans
<1>1. D = Sent(Q, e, f)
  BY DEF Halved
<1> HIDE DEF P, Q, f
<1>2. /\ Only(C, P, e) /\ P[Other(e)] = C[Other(e)]
      /\ IsEnded(C[e], P[e], Fin(C[e]), C[e].half, C[e].sentClose, C[e].quit)
  BY Announces DEF P
<1>3. P \in Chans
  BY <1>2 DEF Only
<1>4. /\ Only(P, Q, e) /\ Q[Other(e)] = P[Other(e)]
      /\ IsEnded(P[e], Q[e], P[e].fin, TRUE, P[e].sentClose, P[e].quit)
  BY <1>3, Halves DEF Q
<1>   /\ Only(C, Q, e) /\ Q[Other(e)] = C[Other(e)] /\ Q \in Chans
      /\ IsEnded(C[e], Q[e], Fin(C[e]), TRUE, C[e].sentClose, C[e].quit)
  BY <1>2, <1>4, OnlyTrans DEF IsEnded, Lists, Reads, Only
<1>5. Q[e].sentClose = C[e].sentClose
  BY DEF IsEnded
<1>6. CASE C[e].sentClose
  <2>1. D = Q
    BY <1>1, <1>5, <1>6 DEF Sent
  <2> QED
    BY <1>6, <2>1
<1>7. CASE ~C[e].sentClose
  <2>1. /\ Only(Q, D, e)
        /\ IsEnded(Q[e], D[e], Q[e].fin, Q[e].half, f.type = "Close", Q[e].quit)
        /\ IsIn(Q[Other(e)], D[Other(e)], Append(Q[Other(e)].in, f))
    BY <1>1, <1>5, <1>7, AppSends
  <2>2. (f.type = "Close") = FALSE /\ C[e].sentClose = FALSE
    BY <1>7 DEF Channels
  <2>3. IsEnded(C[e], D[e], Fin(C[e]), TRUE, C[e].sentClose, C[e].quit)
    BY <2>1, <2>2 DEF IsEnded, Lists, Reads
  <2> QED
    BY <1>7, <2>1, <2>3, OnlyTrans DEF f
<1> QED
  BY <1>6, <1>7

LEMMA RelayClosesWrite ==
  ASSUME NEW C \in Chans, NEW e \in Ends \ Apps, NEW D,
         D = Sent([Announced(C, e) EXCEPT ![e].half = TRUE], e, Frame("EOF", <<>>))
  PROVE  /\ Only(C, D, e)
         /\ IsEnded(C[e], D[e], C[e].fin, TRUE, C[e].sentClose, C[e].quit)
         /\ C[e].sentClose => D[Other(e)] = C[Other(e)]
         /\ ~C[e].sentClose => IsEOF(C[Other(e)], D[Other(e)], C[Other(e)].in)
<1> DEFINE Q == Halved(C, e)
           f == Frame("EOF", <<>>)
<1>   e \in Ends /\ f.type = "EOF" /\ C[e] \in Channels
  BY DEF Frame, Chans
<1>1. D = Sent(Q, e, f)
  BY DEF Halved, Announced
<1> HIDE DEF Q
<1>   /\ Only(C, Q, e) /\ Q[Other(e)] = C[Other(e)]
      /\ IsEnded(C[e], Q[e], C[e].fin, TRUE, C[e].sentClose, C[e].quit)
  BY Halves DEF Q
<1>2. Q \in Chans /\ Q[e].sentClose = C[e].sentClose
  BY DEF IsEnded, Only
<1>3. CASE C[e].sentClose
  <2>1. D = Q
    BY <1>1, <1>2, <1>3 DEF Sent
  <2> QED
    BY <1>3, <2>1
<1>4. CASE ~C[e].sentClose
  <2>1. /\ Only(Q, D, e)
        /\ IsEnded(Q[e], D[e], Q[e].fin, Q[e].half, FALSE, Q[e].quit)
        /\ IsEOF(Q[Other(e)], D[Other(e)], Q[Other(e)].in)
    BY <1>1, <1>2, <1>4, RelaySendsEOF
  <2>2. C[e].sentClose = FALSE
    BY <1>4 DEF Channels
  <2>3. IsEnded(C[e], D[e], C[e].fin, TRUE, C[e].sentClose, C[e].quit)
    BY <2>1, <2>2 DEF IsEnded, Lists, Reads
  <2> QED
    BY <1>4, <2>1, <2>3, OnlyTrans
<1> QED
  BY <1>3, <1>4

LEMMA AppCloses ==
  ASSUME NEW C \in Chans, NEW e \in Apps, NEW D, D = Closing(C, e)
  PROVE  /\ Only(C, D, e)
         /\ IsEnded(C[e], D[e], Fin(C[e]), C[e].half, TRUE, C[e].quit)
         /\ C[e].sentClose => D[Other(e)] = C[Other(e)]
         /\ ~C[e].sentClose => IsIn(C[Other(e)], D[Other(e)], Append(C[Other(e)].in, CloseFrame))
<1> DEFINE P == Announced(C, e)
<1>   e \in Ends /\ CloseFrame \in Frames /\ CloseFrame.type = "Close" /\ C[e] \in Channels
  BY DEF Ends, Apps, CloseFrame, Frame, Frames, Item, Chans
<1>1. D = Sent(P, e, CloseFrame)
  BY DEF Closing, CloseFrame
<1> HIDE DEF P
<1>   /\ Only(C, P, e) /\ P[Other(e)] = C[Other(e)]
      /\ IsEnded(C[e], P[e], Fin(C[e]), C[e].half, C[e].sentClose, C[e].quit)
  BY Announces DEF P
<1>2. P \in Chans /\ P[e].sentClose = C[e].sentClose
  BY DEF IsEnded, Only
<1>3. CASE C[e].sentClose
  <2>1. D = P /\ C[e].sentClose = TRUE
    BY <1>1, <1>2, <1>3 DEF Sent, Channels
  <2> QED
    BY <1>3, <2>1
<1>4. CASE ~C[e].sentClose
  <2>1. /\ Only(P, D, e)
        /\ IsEnded(P[e], D[e], P[e].fin, P[e].half, CloseFrame.type = "Close", P[e].quit)
        /\ IsIn(P[Other(e)], D[Other(e)], Append(P[Other(e)].in, CloseFrame))
    BY <1>1, <1>2, <1>4, AppSends
  <2>2. (CloseFrame.type = "Close") = TRUE
    OBVIOUS
  <2>3. IsEnded(C[e], D[e], Fin(C[e]), C[e].half, TRUE, C[e].quit)
    BY <2>1, <2>2 DEF IsEnded, Lists, Reads
  <2> QED
    BY <1>4, <2>1, <2>3, OnlyTrans
<1> QED
  BY <1>3, <1>4

LEMMA RelayCloses ==
  ASSUME NEW C \in Chans, NEW e \in Ends \ Apps, NEW D, D = Closing(C, e)
  PROVE  /\ C[e].sentClose => D = C
         /\ ~C[e].sentClose =>
              /\ Only(C, D, e)
              /\ IsClosing(C[e], D[e], IF C[Other(e)].sentClose THEN C[e].in
                                       ELSE Append(C[e].in, CloseFrame))
              /\ IsGone(C[Other(e)], D[Other(e)], C[Other(e)].in)
<1>1. D = Sent(C, e, CloseFrame)
  BY DEF Closing, CloseFrame, Announced
<1>2. CloseFrame.type = "Close"
  BY DEF CloseFrame, Frame
<1>3. C[e].sentClose => D = C
  BY <1>1, <1>2 DEF Sent
<1> QED
  BY <1>1, <1>3, RelaySendsClose

\* handle: the frame leaves the queue.
Dequeued(C, e) == [C EXCEPT ![e].in = Tail(@)]

\* The frame f at the head of what arrives at the end e of the relay is handled.
LEMMA Handles ==
  ASSUME NEW C \in Chans, NEW e \in Ends \ Apps, C[e].in # <<>>, NEW f, f = Head(C[e].in),
         NEW D, D = Handled(Dequeued(C, e), e, f)
  PROVE  /\ Only(C, D, e) /\ f \in Frames
         /\ f.type = "Data" => /\ D[Other(e)] = C[Other(e)]
                               /\ IsMoved(C[e], D[e], Tail(C[e].in), Append(C[e].buf, f.item))
         /\ f.type = "EOF" => /\ D[Other(e)] = C[Other(e)]
                              /\ IsEOF(C[e], D[e], Tail(C[e].in))
         /\ f.type = "Close" => /\ IsGone(C[e], D[e], Tail(C[e].in))
                                /\ C[e].sentClose => D[Other(e)] = C[Other(e)]
                                /\ ~C[e].sentClose => IsGone(C[Other(e)], D[Other(e)], C[Other(e)].in)
<1> DEFINE c == C[e]
           o == C[Other(e)]
           s == Tail(c.in)
           B == Dequeued(C, e)
<1>   e \in Ends /\ Other(e) \in Ends /\ Other(e) # e /\ e \notin Apps
  BY OtherFacts
<1>   c \in Channels /\ o \in Channels
  BY DEF Chans
<1>   s \in Seq(Frames) /\ f \in Frames /\ f.item \in Item /\ f.type \in {"Data", "EOF", "Close"}
  <2>1. c.in # <<>> /\ f = Head(c.in)
    OBVIOUS
  <2> HIDE DEF c
  <2>2. c.in \in Seq(Frames)
    BY DEF Channels
  <2> DEFINE q == c.in
  <2>3. q \in Seq(Frames) /\ q # <<>>
    BY <2>1, <2>2
  <2> HIDE DEF q
  <2>4. Tail(q) \in Seq(Frames) /\ Head(q) \in Frames
    BY <2>3, SMTT(30)
  <2>5. s \in Seq(Frames) /\ f \in Frames
    BY <2>1, <2>4 DEF q
  <2> QED BY <2>5 DEF Frames
<1>1. Append(c.buf, f.item) \in Seq(Item) /\ o.in \in Seq(Frames)
  <2> HIDE DEF c, o
  <2> QED BY SMTT(30) DEF Channels
<1>2. B[e] = [c EXCEPT !.in = s] /\ B[Other(e)] = o /\ DOMAIN B = Ends
  BY DEF Dequeued, Chans
<1>3. B \in [Ends -> Channels \union {[c EXCEPT !.in = s]}]
  BY DEF Dequeued, Chans
<1>4. CASE f.type = "Data"
  <2> DEFINE u == [[c EXCEPT !.in = s] EXCEPT !.buf = Append(c.buf, f.item)]
  <2>1. IsMoved(c, u, s, Append(c.buf, f.item))
    <3> HIDE DEF c, s
    <3> QED BY <1>1, RecMoved
  <2>2. u \in Channels
    BY <2>1 DEF IsMoved
  <2>3. D = Put(C, e, u)
    <3>1. [c EXCEPT !.in = s].buf = c.buf
      BY DEF Channels
    <3>2. D = [B EXCEPT ![e].buf = Append(@, f.item)]
      BY <1>4 DEF Handled
    <3> QED BY <3>1, <3>2 DEF Put, Dequeued, Chans
  <2> HIDE DEF u, B
  <2>4. Only(C, D, e) /\ D[e] = u /\ D[Other(e)] = o
    BY <2>2, <2>3, UpdateOne, SMTT(30)
  <2> QED BY <1>4, <2>1, <2>4
<1>5. CASE f.type = "EOF"
  <2> DEFINE u == [[c EXCEPT !.in = s] EXCEPT !.eof = TRUE]
  <2>1. IsEOF(c, u, s)
    <3> HIDE DEF c, s
    <3> QED BY RecEOF
  <2>2. u \in Channels
    BY <2>1 DEF IsEOF
  <2>3. D = Put(C, e, u)
    <3>1. D = [B EXCEPT ![e].eof = TRUE]
      BY <1>5 DEF Handled
    <3> QED BY <3>1 DEF Put, Dequeued, Chans
  <2> HIDE DEF u, B
  <2>4. Only(C, D, e) /\ D[e] = u /\ D[Other(e)] = o
    BY <2>2, <2>3, UpdateOne, SMTT(30)
  <2> QED BY <1>5, <2>1, <2>4
<1>6. CASE f.type = "Close"
  <2> DEFINE u == Gone([c EXCEPT !.in = s])
             v == IF c.sentClose THEN o ELSE Gone(o)
  <2>1. IsGone(c, u, s) /\ IsGone(o, Gone(o), o.in)
    <3> HIDE DEF c, s, o
    <3> QED BY <1>1, RecGone
  <2>2. u \in Channels /\ v \in Channels
    BY <2>1 DEF IsGone
  <2>3. D = With(C, e, u, v)
    <3>1. [c EXCEPT !.in = s].sentClose = c.sentClose
      BY DEF Channels
    <3> DEFINE w == [c EXCEPT !.in = s]
    <3>2. D = Handled(B, e, f)
      OBVIOUS
    <3>3. D = [B EXCEPT ![e] = Gone(w), ![Other(e)] = v]
      <4> HIDE DEF B, w, o, v
      <4>1. B[e].sentClose = c.sentClose
        BY <1>2, <3>1 DEF w
      <4>2. D = [B EXCEPT ![e] = Gone(B[e]), ![Other(e)] = IF c.sentClose THEN B[Other(e)] ELSE Gone(B[Other(e)])]
        <5>1. [B EXCEPT ![e] = Gone(B[e])][Other(e)] = B[Other(e)]
          BY <1>2
        <5> QED BY <1>6, <3>2, <4>1, <5>1 DEF Handled
      <4> QED BY <1>2, <4>2 DEF v, w
    <3> HIDE DEF v
    <3> QED BY <3>3 DEF With, Dequeued, Chans
  <2> HIDE DEF u, B
  <2>4. Only(C, D, e) /\ D[e] = u /\ D[Other(e)] = v
    <3> HIDE DEF v
    <3> QED BY <2>2, <2>3, Update, SMTT(30)
  <2> QED BY <1>6, <2>1, <2>4
<1> QED
  BY <1>4, <1>5, <1>6

\* A session that is cut ends the channel at both ends.
LEMMA Cuts ==
  ASSUME chan \in Chans, NEW e \in Ends \ Apps, Cut(e)
  PROVE  /\ Only(chan, chan', e)
         /\ IsGone(chan[e], chan'[e], <<>>) /\ IsGone(chan[Other(e)], chan'[Other(e)], <<>>)
<1> DEFINE u == [Gone(chan[e]) EXCEPT !.in = <<>>]
           v == [Gone(chan[Other(e)]) EXCEPT !.in = <<>>]
<1>   e \in Ends /\ Other(e) \in Ends /\ Other(e) # e /\ <<>> \in Seq(Frames)
  BY OtherFacts, SMTT(30)
<1>1. chan[e] \in Channels /\ chan[Other(e)] \in Channels
  BY DEF Chans
<1>2. IsGone(chan[e], u, <<>>) /\ IsGone(chan[Other(e)], v, <<>>)
  BY <1>1, RecGone
<1>3. u \in Channels /\ v \in Channels
  BY <1>2 DEF IsGone
<1>4. chan' = With(chan, e, u, v)
  BY DEF Cut, Chans, With
<1> HIDE DEF u, v
<1>5. Only(chan, chan', e) /\ chan'[e] = u /\ chan'[Other(e)] = v
  BY <1>3, <1>4, Update, SMTT(30)
<1> QED
  BY <1>2, <1>5

\* The application keeps the item it has read, or sees io.EOF.
Keeps(C, e, g) == [C EXCEPT ![e].got = g]
Sees(C, e) == [C EXCEPT ![e].saw = TRUE]

LEMMA AppKeeps ==
  ASSUME NEW C \in Chans, NEW e \in Ends, NEW g \in Seq(Item), NEW D, D = Keeps(C, e, g)
  PROVE  /\ Only(C, D, e) /\ D[Other(e)] = C[Other(e)]
         /\ IsBuf(C[e], D[e], C[e].buf, g)
<1> DEFINE u == [C[e] EXCEPT !.got = g]
<1>1. C[e] \in Channels
  BY DEF Chans
<1>2. IsBuf(C[e], u, C[e].buf, g)
  BY <1>1, RecGotten
<1>3. u \in Channels
  BY <1>2 DEF IsBuf
<1>4. D = Put(C, e, u)
  BY DEF Put, Keeps
<1> HIDE DEF u
<1>5. Only(C, D, e) /\ D[e] = u /\ D[Other(e)] = C[Other(e)]
  BY <1>3, <1>4, UpdateOne, SMTT(30)
<1> QED
  BY <1>2, <1>5

LEMMA AppSees ==
  ASSUME NEW C \in Chans, NEW e \in Ends, NEW D, D = Sees(C, e)
  PROVE  /\ Only(C, D, e) /\ D[Other(e)] = C[Other(e)]
         /\ IsSaw(C[e], D[e])
<1> DEFINE u == [C[e] EXCEPT !.saw = TRUE]
<1>1. C[e] \in Channels
  BY DEF Chans
<1>2. IsSaw(C[e], u)
  BY <1>1, RecSaw
<1>3. u \in Channels
  BY <1>2 DEF IsSaw
<1>4. D = Put(C, e, u)
  BY DEF Put, Sees
<1> HIDE DEF u
<1>5. Only(C, D, e) /\ D[e] = u /\ D[Other(e)] = C[Other(e)]
  BY <1>3, <1>4, UpdateOne, SMTT(30)
<1> QED
  BY <1>2, <1>5

LEMMA AppReads ==
  ASSUME chan \in Chans, NEW e \in Ends, chan[e].buf # <<>>, NEW D,
         D = [Taken(e) EXCEPT ![e].got = Append(@, Head(chan[e].buf))]
  PROVE  /\ Only(chan, D, e)
         /\ IsBuf(chan[e], D[e], Tail(chan[e].buf), Append(chan[e].got, Head(chan[e].buf)))
         /\ IsWrote(chan[Other(e)], D[Other(e)], chan[Other(e)].wrote)
<1> DEFINE P == Taken(e)
           g == Append(chan[e].got, Head(chan[e].buf))
<1>1. /\ Only(chan, P, e)
      /\ IsBuf(chan[e], P[e], Tail(chan[e].buf), chan[e].got)
      /\ IsWrote(chan[Other(e)], P[Other(e)], chan[Other(e)].wrote)
  BY ReadTakes
<1>2. P \in Chans /\ P[e].got = chan[e].got
  BY <1>1 DEF IsBuf, Only
<1>3. g \in Seq(Item)
  <2> DEFINE c == chan[e]
  <2>1. c \in Channels /\ c.buf # <<>>
    BY DEF Chans
  <2> HIDE DEF c
  <2>2. Append(c.got, Head(c.buf)) \in Seq(Item)
    BY <2>1, SMTT(30) DEF Channels
  <2> QED BY <2>2 DEF c
<1>4. D = Keeps(P, e, g)
  BY <1>2 DEF Keeps
<1> HIDE DEF P, g
<1>5. /\ Only(P, D, e) /\ D[Other(e)] = P[Other(e)]
      /\ IsBuf(P[e], D[e], P[e].buf, g)
  BY <1>2, <1>3, <1>4, AppKeeps
<1>6. IsBuf(chan[e], D[e], Tail(chan[e].buf), g)
  BY <1>1, <1>5 DEF IsBuf, Flags, Writes
<1> QED
  BY <1>1, <1>5, <1>6, OnlyTrans DEF g

-------------------------------------------------------------------------------
(* A stream on its way *)

\* A copy, which still reads and writes; the item that it holds.
Goroutine == [pc : {"read", "write", "end", "done"}, item : Item]
Alive(k) == k.pc \in {"read", "write"}
Held(k) == IF k.pc = "write" THEN 1 ELSE 0

\* s holds the items of o after the first n.
Items(s, o, n) == \A i \in 1 .. Len(s) : s[i] = <<o, n + i>>

\* f is the k-th frame of a stream with w items of o: one of them, or an
\* announcement of the end.
Place(f, k, w, o) ==
  /\ k =< w => f.type = "Data" /\ f.item = <<o, k>>
  /\ k > w => f.type # "Data"

\* in holds the frames of the stream after the first n; or the session was cut.
Flow(w, in, n, o, lost) ==
  \/ lost /\ in = <<>>
  \/ /\ n =< w /\ w =< n + Len(in)
     /\ \A i \in 1 .. Len(in) : Place(in[i], n + i, w, o)

\* Of the w items of o, n were taken from yb, to which k copies what rb holds.
Carried(w, in, rb, k, yb, o, n, lost) ==
  /\ Items(yb, o, n)
  /\ Alive(k) =>
       /\ k.pc = "write" => k.item = <<o, n + Len(yb) + 1>>
       /\ Items(rb, o, n + Len(yb) + Held(k))
       /\ Flow(w, in, n + Len(yb) + Held(k) + Len(rb), o, lost)

\* One more item, and one less.
LEMMA ItemsAppend ==
  ASSUME NEW s \in Seq(Item), NEW o, NEW n \in Nat, Items(s, o, n), NEW x \in Item,
         x = <<o, n + Len(s) + 1>>
  PROVE  Items(Append(s, x), o, n)
<1> SUFFICES ASSUME NEW i \in 1 .. Len(Append(s, x)) PROVE Append(s, x)[i] = <<o, n + i>>
  BY DEF Items
<1>1. CASE i \in 1 .. Len(s)
  <2>1. Append(s, x)[i] = s[i]
    BY <1>1, SMTT(30)
  <2> QED BY <1>1, <2>1 DEF Items
<1>2. CASE i = Len(s) + 1
  <2>1. Append(s, x)[i] = x /\ n + i = n + Len(s) + 1
    BY <1>2, SMTT(30)
  <2> QED BY <2>1
<1>3. Len(Append(s, x)) = Len(s) + 1 /\ Len(s) \in Nat
  BY SMTT(30)
<1> QED
  BY <1>1, <1>2, <1>3, SMTT(30)

LEMMA ItemsTail ==
  ASSUME NEW s \in Seq(Item), NEW o, NEW n \in Nat, Items(s, o, n), s # <<>>
  PROVE  Head(s) = <<o, n + 1>> /\ Items(Tail(s), o, n + 1) /\ Len(Tail(s)) = Len(s) - 1
BY SMTT(30) DEF Items

\* The frames of the stream, without the first one, and with one more.
LEMMA PlacesTail ==
  ASSUME NEW w \in Nat, NEW in \in Seq(Frames), NEW n \in Nat, NEW o, in # <<>>,
         \A i \in 1 .. Len(in) : Place(in[i], n + i, w, o)
  PROVE  /\ Place(Head(in), n + 1, w, o)
         /\ \A i \in 1 .. Len(Tail(in)) : Place(Tail(in)[i], (n + 1) + i, w, o)
<1>1. 1 \in 1 .. Len(in) /\ Head(in) = in[1]
  BY SMTT(30)
<1>2. \A i \in 1 .. Len(Tail(in)) : i + 1 \in 1 .. Len(in) /\ Tail(in)[i] = in[i + 1]
  BY SMTT(30)
<1>3. \A i \in 1 .. Len(Tail(in)) : (n + 1) + i = n + (i + 1)
  BY SMTT(30)
<1> QED
  BY <1>1, <1>2, <1>3

LEMMA PlacesAppend ==
  ASSUME NEW w \in Nat, NEW in \in Seq(Frames), NEW n \in Nat, NEW o, NEW f \in Frames,
         \A i \in 1 .. Len(in) : Place(in[i], n + i, w, o),
         Place(f, n + Len(in) + 1, w, o)
  PROVE  \A i \in 1 .. Len(Append(in, f)) : Place(Append(in, f)[i], n + i, w, o)
<1> TAKE i \in 1 .. Len(Append(in, f))
<1>1. CASE i \in 1 .. Len(in)
  <2>1. Append(in, f)[i] = in[i]
    BY <1>1, SMTT(30)
  <2> QED BY <1>1, <2>1
<1>2. CASE i = Len(in) + 1
  <2>1. Append(in, f)[i] = f /\ n + i = n + Len(in) + 1
    BY <1>2, SMTT(30)
  <2> QED BY <2>1
<1>3. Len(Append(in, f)) = Len(in) + 1 /\ Len(in) \in Nat
  BY SMTT(30)
<1> QED
  BY <1>1, <1>2, <1>3, SMTT(30)

\* What happens to the frames on their way: a new item, a new end, the arrival of an
\* item, the arrival of an end.
LEMMA FlowWrite ==
  ASSUME NEW w \in Nat, NEW in \in Seq(Frames), NEW n \in Nat, NEW o, NEW lost \in BOOLEAN,
         Flow(w, in, n, o, lost), ~lost, \A i \in 1 .. Len(in) : in[i].type = "Data",
         NEW f \in Frames, f.type = "Data", f.item = <<o, w + 1>>
  PROVE  Flow(w + 1, Append(in, f), n, o, lost)
<1>   /\ n =< w /\ w =< n + Len(in)
      /\ \A i \in 1 .. Len(in) : Place(in[i], n + i, w, o)
  BY DEF Flow
<1>1. w = n + Len(in)
  <2>1. CASE in = <<>>
    BY <2>1, SMTT(30)
  <2>2. CASE in # <<>>
    <3>1. Len(in) \in 1 .. Len(in)
      BY <2>2, SMTT(30)
    <3>2. Place(in[Len(in)], n + Len(in), w, o) /\ in[Len(in)].type = "Data"
      BY <3>1
    <3>3. ~(n + Len(in) > w)
      BY <3>2 DEF Place
    <3> QED BY <3>3, SMTT(30)
  <2> QED BY <2>1, <2>2
<1>2. \A i \in 1 .. Len(in) : Place(in[i], n + i, w + 1, o)
  <2> TAKE i \in 1 .. Len(in)
  <2>1. Place(in[i], n + i, w, o) /\ n + i =< w /\ n + i =< w + 1 /\ ~(n + i > w + 1)
    BY <1>1, SMTT(30)
  <2> QED BY <2>1 DEF Place
<1>3. Place(f, n + Len(in) + 1, w + 1, o)
  BY <1>1, SMTT(30) DEF Place
<1>4. \A i \in 1 .. Len(Append(in, f)) : Place(Append(in, f)[i], n + i, w + 1, o)
  <2>1. w + 1 \in Nat
    BY SMTT(30)
  <2> QED BY <1>2, <1>3, <2>1, PlacesAppend
<1>5. n =< w + 1 /\ w + 1 =< n + Len(Append(in, f))
  BY <1>1, SMTT(30)
<1> QED
  BY <1>4, <1>5 DEF Flow

LEMMA FlowEnd ==
  ASSUME NEW w \in Nat, NEW in \in Seq(Frames), NEW n \in Nat, NEW o, NEW lost \in BOOLEAN,
         Flow(w, in, n, o, lost), ~lost, NEW f \in Frames, f.type # "Data"
  PROVE  Flow(w, Append(in, f), n, o, lost)
<1>   /\ n =< w /\ w =< n + Len(in)
      /\ \A i \in 1 .. Len(in) : Place(in[i], n + i, w, o)
  BY DEF Flow
<1>1. Place(f, n + Len(in) + 1, w, o)
  BY SMTT(30) DEF Place
<1>2. \A i \in 1 .. Len(Append(in, f)) : Place(Append(in, f)[i], n + i, w, o)
  BY <1>1, PlacesAppend
<1>3. w =< n + Len(Append(in, f))
  BY SMTT(30)
<1> QED
  BY <1>2, <1>3 DEF Flow

Arrives(w, in, n, o, lost) ==
  Head(in).item = <<o, n + 1>> /\ Flow(w, Tail(in), n + 1, o, lost)

LEMMA FlowData ==
  ASSUME NEW w \in Nat, NEW in \in Seq(Frames), NEW n \in Nat, NEW o, NEW lost \in BOOLEAN,
         Flow(w, in, n, o, lost), in # <<>>, Head(in).type = "Data"
  PROVE  Arrives(w, in, n, o, lost)
<1>1. /\ n =< w /\ w =< n + Len(in)
      /\ \A i \in 1 .. Len(in) : Place(in[i], n + i, w, o)
  BY DEF Flow
<1>2. /\ Place(Head(in), n + 1, w, o)
      /\ \A i \in 1 .. Len(Tail(in)) : Place(Tail(in)[i], (n + 1) + i, w, o)
  BY <1>1, PlacesTail
<1>3. n + 1 =< w /\ Head(in).item = <<o, n + 1>>
  BY <1>2, SMTT(30) DEF Place
<1>4. w =< (n + 1) + Len(Tail(in))
  BY <1>1, SMTT(30)
<1> QED
  BY <1>2, <1>3, <1>4 DEF Flow, Arrives

LEMMA FlowDrop ==
  ASSUME NEW w \in Nat, NEW in \in Seq(Frames), NEW n \in Nat, NEW o, NEW lost \in BOOLEAN,
         Flow(w, in, n, o, lost), in # <<>>, Head(in).type # "Data"
  PROVE  /\ Flow(w, Tail(in), n, o, lost) /\ w = n
         /\ \A i \in 1 .. Len(in) : in[i].type # "Data"
<1>   /\ n =< w /\ w =< n + Len(in)
      /\ \A i \in 1 .. Len(in) : Place(in[i], n + i, w, o)
  BY DEF Flow
<1>1. /\ Place(Head(in), n + 1, w, o)
      /\ \A i \in 1 .. Len(Tail(in)) : Place(Tail(in)[i], (n + 1) + i, w, o)
  BY PlacesTail
<1>   w = n
  BY <1>1, SMTT(30) DEF Place
<1>2. \A i \in 1 .. Len(in) : in[i].type # "Data"
  <2> TAKE i \in 1 .. Len(in)
  <2>1. Place(in[i], n + i, w, o) /\ n + i > w
    BY SMTT(30)
  <2> QED BY <2>1 DEF Place
<1>3. \A i \in 1 .. Len(Tail(in)) : Place(Tail(in)[i], n + i, w, o)
  <2> TAKE i \in 1 .. Len(Tail(in))
  <2>1. Place(Tail(in)[i], (n + 1) + i, w, o) /\ (n + 1) + i > w /\ ~(n + i =< w)
    BY <1>1, SMTT(30)
  <2> QED BY <2>1 DEF Place
<1>4. w =< n + Len(Tail(in))
  BY SMTT(30)
<1> QED
  BY <1>2, <1>3, <1>4 DEF Flow

\* The number of items of the stream that have arrived at the relay.
At(rb, k, yb, n) == n + Len(yb) + Held(k) + Len(rb)

LEMMA AtNat ==
  ASSUME NEW rb \in Seq(Item), NEW k, NEW yb \in Seq(Item), NEW n \in Nat
  PROVE  At(rb, k, yb, n) \in Nat /\ n + Len(yb) \in Nat /\ n + Len(yb) + Held(k) \in Nat
BY SMTT(30) DEF At, Held

\* What the steps on its way do to a stream: an item, or an announcement of the end,
\* is sent,
LEMMA CarryWrite ==
  ASSUME NEW w \in Nat, NEW in \in Seq(Frames), NEW rb \in Seq(Item), NEW k \in Goroutine,
         NEW yb \in Seq(Item), NEW o, NEW n \in Nat, NEW lost \in BOOLEAN,
         Carried(w, in, rb, k, yb, o, n, lost), ~lost,
         \A i \in 1 .. Len(in) : in[i].type = "Data",
         NEW f \in Frames, f.type = "Data", f.item = <<o, w + 1>>
  PROVE  Carried(w + 1, Append(in, f), rb, k, yb, o, n, lost)
<1>1. CASE ~Alive(k)
  BY <1>1 DEF Carried
<1>2. CASE Alive(k)
  <2>1. Flow(w, in, At(rb, k, yb, n), o, lost)
    BY <1>2 DEF Carried, At
  <2>2. Flow(w + 1, Append(in, f), At(rb, k, yb, n), o, lost)
    BY <2>1, AtNat, FlowWrite
  <2> QED BY <1>2, <2>2 DEF Carried, At
<1> QED BY <1>1, <1>2

LEMMA CarryEnd ==
  ASSUME NEW w \in Nat, NEW in \in Seq(Frames), NEW rb \in Seq(Item), NEW k \in Goroutine,
         NEW yb \in Seq(Item), NEW o, NEW n \in Nat, NEW lost \in BOOLEAN,
         Carried(w, in, rb, k, yb, o, n, lost), ~lost,
         NEW f \in Frames, f.type # "Data"
  PROVE  Carried(w, Append(in, f), rb, k, yb, o, n, lost)
<1>1. CASE ~Alive(k)
  BY <1>1 DEF Carried
<1>2. CASE Alive(k)
  <2>1. Flow(w, in, At(rb, k, yb, n), o, lost)
    BY <1>2 DEF Carried, At
  <2>2. Flow(w, Append(in, f), At(rb, k, yb, n), o, lost)
    BY <2>1, AtNat, FlowEnd
  <2> QED BY <1>2, <2>2 DEF Carried, At
<1> QED BY <1>1, <1>2

\* and handled at the relay,
LEMMA CarryData ==
  ASSUME NEW w \in Nat, NEW in \in Seq(Frames), NEW rb \in Seq(Item), NEW k \in Goroutine,
         NEW yb \in Seq(Item), NEW o, NEW n \in Nat, NEW lost \in BOOLEAN,
         Carried(w, in, rb, k, yb, o, n, lost),
         in # <<>>, Head(in).type = "Data"
  PROVE  Carried(w, Tail(in), Append(rb, Head(in).item), k, yb, o, n, lost)
<1>1. CASE ~Alive(k)
  BY <1>1 DEF Carried
<1>2. CASE Alive(k)
  <2>1. Flow(w, in, At(rb, k, yb, n), o, lost)
    BY <1>2 DEF Carried, At
  <2>2. /\ Head(in).item = <<o, At(rb, k, yb, n) + 1>>
        /\ Flow(w, Tail(in), At(rb, k, yb, n) + 1, o, lost)
    <3> DEFINE b == At(rb, k, yb, n)
    <3>1. b \in Nat /\ Flow(w, in, b, o, lost)
      BY <2>1, AtNat
    <3> HIDE DEF b
    <3>2. Arrives(w, in, b, o, lost)
      BY <3>1, FlowData
    <3> QED BY <3>2 DEF b, Arrives
  <2>3. Head(in).item \in Item
    <3>1. Head(in) \in Frames
      BY SMTT(30)
    <3> QED BY <3>1 DEF Frames
  <2> DEFINE x == Head(in).item
             m == n + Len(yb) + Held(k)
  <2>4. Items(rb, o, m)
    BY <1>2 DEF Carried
  <2>5. x \in Item /\ x = <<o, m + Len(rb) + 1>>
    BY <2>2, <2>3 DEF At
  <2>6. m \in Nat
    BY AtNat
  <2> HIDE DEF x, m
  <2>7. Items(Append(rb, x), o, m) /\ Len(Append(rb, x)) = Len(rb) + 1
    BY <2>4, <2>5, <2>6, ItemsAppend, SMTT(30)
  <2>8. At(rb, k, yb, n) + 1 = m + Len(Append(rb, x))
    <3>1. At(rb, k, yb, n) = m + Len(rb) /\ Len(rb) \in Nat
      BY SMTT(30) DEF At, m
    <3> QED BY <2>6, <2>7, <3>1, SMTT(30)
  <2>9. Flow(w, Tail(in), m + Len(Append(rb, x)), o, lost)
    BY <2>2, <2>8
  <2> QED BY <1>2, <2>7, <2>9 DEF Carried, x, m
<1> QED BY <1>1, <1>2

LEMMA CarryDrop ==
  ASSUME NEW w \in Nat, NEW in \in Seq(Frames), NEW rb \in Seq(Item), NEW k \in Goroutine,
         NEW yb \in Seq(Item), NEW o, NEW n \in Nat, NEW lost \in BOOLEAN,
         Carried(w, in, rb, k, yb, o, n, lost),
         in # <<>>, Head(in).type # "Data"
  PROVE  /\ Carried(w, Tail(in), rb, k, yb, o, n, lost)
         /\ Alive(k) => /\ w = At(rb, k, yb, n)
                        /\ \A i \in 1 .. Len(in) : in[i].type # "Data"
<1>1. CASE ~Alive(k)
  BY <1>1 DEF Carried
<1>2. CASE Alive(k)
  <2>1. Flow(w, in, At(rb, k, yb, n), o, lost)
    BY <1>2 DEF Carried, At
  <2>2. /\ Flow(w, Tail(in), At(rb, k, yb, n), o, lost) /\ w = At(rb, k, yb, n)
        /\ \A i \in 1 .. Len(in) : in[i].type # "Data"
    <3> DEFINE b == At(rb, k, yb, n)
    <3>1. b \in Nat /\ Flow(w, in, b, o, lost)
      BY <2>1, AtNat
    <3> HIDE DEF b
    <3>2. /\ Flow(w, Tail(in), b, o, lost) /\ w = b
          /\ \A i \in 1 .. Len(in) : in[i].type # "Data"
      BY <3>1, FlowDrop, SMTT(30)
    <3> QED BY <3>2 DEF b
  <2> QED BY <1>2, <2>2 DEF Carried, At
<1> QED BY <1>1, <1>2

\* read by the copy, and written,
LEMMA CarryRead ==
  ASSUME NEW w \in Nat, NEW in \in Seq(Frames), NEW rb \in Seq(Item), NEW k \in Goroutine,
         NEW yb \in Seq(Item), NEW o, NEW n \in Nat, NEW lost \in BOOLEAN,
         Carried(w, in, rb, k, yb, o, n, lost), k.pc = "read", rb # <<>>,
         NEW l \in Goroutine, l.pc = "write", l.item = Head(rb)
  PROVE  Carried(w, in, Tail(rb), l, yb, o, n, lost)
<1> DEFINE m == n + Len(yb)
<1>1. Alive(k) /\ Alive(l) /\ Held(k) = 0 /\ Held(l) = 1
  BY DEF Alive, Held
<1>2. m \in Nat /\ Len(rb) \in Nat
  BY SMTT(30)
<1>3. Items(yb, o, n) /\ Items(rb, o, m + 0) /\ Flow(w, in, m + 0 + Len(rb), o, lost)
  BY <1>1 DEF Carried
<1> HIDE DEF m
<1>4. Items(rb, o, m) /\ m + 0 + Len(rb) = m + 1 + (Len(rb) - 1)
  <2>1. m + 0 = m
    BY <1>2, SMTT(30)
  <2> QED BY <1>2, <1>3, <2>1, SMTT(30)
<1>5. Head(rb) = <<o, m + 1>> /\ Items(Tail(rb), o, m + 1) /\ Len(Tail(rb)) = Len(rb) - 1
  BY <1>2, <1>4, ItemsTail
<1>6. Flow(w, in, m + 1 + Len(Tail(rb)), o, lost)
  BY <1>3, <1>4, <1>5
<1> QED
  BY <1>1, <1>3, <1>5, <1>6 DEF Carried, m

LEMMA CarryPass ==
  ASSUME NEW w \in Nat, NEW in \in Seq(Frames), NEW rb \in Seq(Item), NEW k \in Goroutine,
         NEW yb \in Seq(Item), NEW o, NEW n \in Nat, NEW lost \in BOOLEAN,
         Carried(w, in, rb, k, yb, o, n, lost), k.pc = "write",
         NEW l \in Goroutine, l.pc # "write"
  PROVE  Carried(w, in, rb, l, Append(yb, k.item), o, n, lost)
<1> DEFINE m == n + Len(yb)
           z == Append(yb, k.item)
<1>1. Alive(k) /\ Held(k) = 1 /\ Held(l) = 0
  BY DEF Alive, Held
<1>2. m \in Nat /\ Len(yb) \in Nat /\ Len(rb) \in Nat
  BY SMTT(30)
<1>3. /\ Items(yb, o, n) /\ k.item = <<o, m + 1>> /\ Items(rb, o, m + 1)
      /\ Flow(w, in, m + 1 + Len(rb), o, lost)
  BY <1>1 DEF Carried
<1>4. k.item \in Item
  BY DEF Goroutine
<1>5. Items(z, o, n)
  BY <1>3, <1>4, ItemsAppend
<1>6. n + Len(z) + 0 = m + 1
  BY <1>4, SMTT(30)
<1> HIDE DEF m, z
<1>7. Items(rb, o, n + Len(z) + Held(l)) /\ Flow(w, in, n + Len(z) + Held(l) + Len(rb), o, lost)
  BY <1>1, <1>3, <1>6
<1> QED
  BY <1>5, <1>7 DEF Carried, z

\* and taken by the application.
Takes(w, in, rb, k, yb, o, n, lost) ==
  Head(yb) = <<o, n + 1>> /\ Carried(w, in, rb, k, Tail(yb), o, n + 1, lost)

LEMMA CarryTake ==
  ASSUME NEW w \in Nat, NEW in \in Seq(Frames), NEW rb \in Seq(Item), NEW k \in Goroutine,
         NEW yb \in Seq(Item), NEW o, NEW n \in Nat, NEW lost \in BOOLEAN,
         Carried(w, in, rb, k, yb, o, n, lost), yb # <<>>
  PROVE  Takes(w, in, rb, k, yb, o, n, lost)
<1>1. Items(yb, o, n)
  BY DEF Carried
<1>2. Head(yb) = <<o, n + 1>> /\ Items(Tail(yb), o, n + 1) /\ Len(Tail(yb)) = Len(yb) - 1
  BY <1>1, ItemsTail
<1>3. n + 1 + Len(Tail(yb)) = n + Len(yb)
  BY <1>2, SMTT(30)
<1> QED
  BY <1>2, <1>3 DEF Carried, Takes

-------------------------------------------------------------------------------
(* The streams of the relay: x writes, Writer(x) copies, Far(x) reads *)

\* The copy that carries what x writes; the echo; whose items they are.
Writer(x) == IF x = "client" THEN "up" ELSE "down"
Echoing(x) == x = "backend" /\ use.style = "echo"
Origin(x) == IF use.style = "echo" THEN "client" ELSE x

\* The number of items taken from buf, by the application or by its echo, while
\* somebody takes them.
Rcvd(y) == IF Echoing(y) THEN chan[y].wrote + Held(copy["echo"]) ELSE Len(chan[y].got)
Taking(y) == Echoing(y) => Alive(copy["echo"])

\* What x wrote is on its way to Far(x), or there.
Stream(x) ==
  Carried(chan[x].wrote, chan[Other(x)].in, chan[Other(x)].buf, copy[Writer(x)],
          chan[Far(x)].buf, Origin(x), Rcvd(Far(x)), cut /\ chan[x].closed)

\* What Far(x) has read; the echo writes what it has read, and sees no io.EOF.
Got(x) ==
  /\ Items(chan[Far(x)].got, Origin(x), 0)
  /\ Echoing(Far(x)) =>
       /\ chan[Far(x)].got = <<>> /\ ~chan[Far(x)].saw
       /\ copy["echo"].pc = "write" => copy["echo"].item = <<Origin(x), chan[Far(x)].wrote + 1>>
Hop(x) == Got(x) /\ (Taking(Far(x)) => Stream(x))

\* The announcement of the end is on its way.
HasEnd(in) == \E i \in 1 .. Len(in) : in[i].type # "Data"

\* After the announcement of the end an application sends no items.
Stopped(x) ==
  /\ HasEnd(chan[Other(x)].in) => chan[x].half \/ chan[x].sentClose
  /\ chan[x].sentClose =>
       chan[x].closed \/ chan[x].quit \/ (Echoing(x) /\ copy["echo"].pc = "done")
  /\ chan[x].closed => chan[x].sentClose
  /\ Echoing(x) => ~chan[x].half /\ ~chan[x].quit

\* What the client reads of a call that is refused; before that, nothing.
Failure == <<<<"error", 1>>>>
Before ==
  relay \in {"open", "header"} =>
    /\ chan["client"].got = <<>> /\ chan["client"].buf = <<>>
    /\ \A d \in Copies : copy[d].pc = "read"
Failed ==
  relay = "failed" =>
    \/ chan["client"].got = <<>> /\ chan["client"].buf \in {<<>>, Failure}
    \/ chan["client"].got = Failure /\ chan["client"].buf = <<>>

\* The type invariant.
Types ==
  /\ chan \in Chans /\ copy \in [Copies -> Goroutine]
  /\ relay \in {"open", "header", "run", "closing", "failed", "done"}
  /\ cut \in BOOLEAN /\ use \in Uses

\* The inductive invariant for what arrives.  When the call is refused the stream to
\* the client is the error.
StreamInv ==
  /\ Types /\ Before /\ Failed
  /\ \A x \in Apps : Stopped(x) /\ (x = "client" \/ relay # "failed" => Hop(x))

\* The names of the ends and the copies, seen from x.
LEMMA Roles ==
  ASSUME NEW x \in Apps
  PROVE  /\ Far(x) \in Apps /\ Far(Far(x)) = x /\ Far(x) # x
         /\ x \in Ends /\ Far(x) \in Ends
         /\ Other(x) \in Ends \ Apps /\ Other(Far(x)) \in Ends \ Apps
         /\ Other(Other(x)) = x /\ Other(Other(Far(x))) = Far(x)
         /\ Other(x) # Other(Far(x))
         /\ Writer(x) \in Copies /\ Writer(x) # "echo" /\ Writer(Far(x)) # Writer(x)
         /\ Src(Writer(x)) = Other(x) /\ Dst(Writer(x)) = Other(Far(x))
BY DEF Apps, Far, Ends, Other, Writer, Copies, Src, Dst

\* The uses of the relay.
LEMMA UseFacts ==
  ASSUME use \in Uses
  PROVE  use.style \in {"free", "echo"} /\ use.kind \in {"proxy", "handler"}
BY RelayAssumption

\* The frames that announce the end.
LEMMA EndAppend ==
  ASSUME NEW in \in Seq(Frames), NEW f \in Frames
  PROVE  HasEnd(Append(in, f)) => HasEnd(in) \/ f.type # "Data"
BY SMTT(30) DEF HasEnd

LEMMA EndTail ==
  ASSUME NEW in \in Seq(Frames), in # <<>>
  PROVE  HasEnd(Tail(in)) => HasEnd(in)
BY SMTT(30) DEF HasEnd

LEMMA NoneEnd == ~HasEnd(<<>>)
BY SMTT(30) DEF HasEnd

LEMMA NoEnd ==
  ASSUME NEW in \in Seq(Frames), ~HasEnd(in)
  PROVE  \A i \in 1 .. Len(in) : in[i].type = "Data"
BY DEF HasEnd

\* What a stream is made of has its type.
LEMMA StreamTypes ==
  ASSUME Types, NEW x \in Apps
  PROVE  /\ chan[x] \in Channels /\ chan[Other(x)] \in Channels
         /\ chan[x].wrote \in Nat /\ chan[Other(x)].in \in Seq(Frames)
         /\ chan[Other(x)].buf \in Seq(Item) /\ chan[x].buf \in Seq(Item)
         /\ copy[Writer(x)] \in Goroutine /\ copy["echo"] \in Goroutine
         /\ Rcvd(x) \in Nat /\ (cut /\ chan[x].closed) \in BOOLEAN
<1>1. x \in Ends /\ Other(x) \in Ends /\ Writer(x) \in Copies /\ "echo" \in Copies
  BY Roles DEF Copies
<1>2. chan[x] \in Channels /\ chan[Other(x)] \in Channels
  BY <1>1 DEF Types, Chans
<1>3. copy[Writer(x)] \in Goroutine /\ copy["echo"] \in Goroutine
  BY <1>1 DEF Types
<1> DEFINE c == chan[x]
           o == chan[Other(x)]
<1>4. c \in Channels /\ o \in Channels
  BY <1>2
<1> HIDE DEF c, o
<1>5. c.wrote \in Nat /\ o.in \in Seq(Frames) /\ o.buf \in Seq(Item) /\ c.buf \in Seq(Item)
      /\ Len(c.got) \in Nat /\ c.closed \in BOOLEAN
  BY <1>4, SMTT(30) DEF Channels
<1>6. Rcvd(x) \in Nat
  <2>1. Held(copy["echo"]) \in Nat
    BY DEF Held
  <2>2. c.wrote + Held(copy["echo"]) \in Nat
    BY <1>5, <2>1, SMTT(30)
  <2> QED BY <1>5, <2>2 DEF Rcvd, c
<1> QED
  BY <1>2, <1>3, <1>5, <1>6 DEF c, o

-------------------------------------------------------------------------------
(* Every step keeps the streams *)

\* What a step that leaves the parts of a predicate alone does to it.
LEMMA GotKept ==
  ASSUME NEW x \in Apps, Got(x), use' = use, copy'["echo"] = copy["echo"],
         chan'[Far(x)].got = chan[Far(x)].got, chan'[Far(x)].saw = chan[Far(x)].saw,
         chan'[Far(x)].wrote = chan[Far(x)].wrote
  PROVE  Got(x)'
BY DEF Got, Echoing, Origin

\* A stream none of whose parts change,
LEMMA HopKept ==
  ASSUME NEW x \in Apps, Hop(x), use' = use, copy'["echo"] = copy["echo"],
         chan'[Far(x)].got = chan[Far(x)].got, chan'[Far(x)].saw = chan[Far(x)].saw,
         chan'[Far(x)].wrote = chan[Far(x)].wrote, chan'[Far(x)].buf = chan[Far(x)].buf,
         chan'[x].wrote = chan[x].wrote, chan'[x].closed = chan[x].closed, cut' = cut,
         chan'[Other(x)].in = chan[Other(x)].in, chan'[Other(x)].buf = chan[Other(x)].buf,
         copy'[Writer(x)] = copy[Writer(x)]
  PROVE  Hop(x)'
<1>1. Got(x)'
  BY GotKept DEF Hop
<1>2. Taking(Far(x))' <=> Taking(Far(x))
  BY DEF Taking, Echoing
<1>3. Rcvd(Far(x))' = Rcvd(Far(x)) /\ Origin(x)' = Origin(x)
  BY DEF Rcvd, Echoing, Origin
<1>4. Stream(x) => Stream(x)'
  BY <1>3 DEF Stream
<1> QED
  BY <1>1, <1>2, <1>4 DEF Hop

\* or only the parts that x and the relay's end see.
LEMMA HopNear ==
  ASSUME NEW x \in Apps, Hop(x), use' = use, copy'["echo"] = copy["echo"],
         chan'[Far(x)] = chan[Far(x)], copy'[Writer(x)] = copy[Writer(x)],
         chan'[Other(x)].buf = chan[Other(x)].buf,
         ASSUME Stream(x)
         PROVE  Carried(chan'[x].wrote, chan'[Other(x)].in, chan[Other(x)].buf, copy[Writer(x)],
                        chan[Far(x)].buf, Origin(x), Rcvd(Far(x)), cut' /\ chan'[x].closed)
  PROVE  Hop(x)'
<1>1. Got(x)'
  BY GotKept DEF Hop
<1>2. Taking(Far(x))' <=> Taking(Far(x))
  BY DEF Taking, Echoing
<1>3. Rcvd(Far(x))' = Rcvd(Far(x)) /\ Origin(x)' = Origin(x)
  BY DEF Rcvd, Echoing, Origin
<1>4. Stream(x) => Stream(x)'
  <2> SUFFICES ASSUME Stream(x) PROVE Stream(x)'
    OBVIOUS
  <2> QED BY <1>3 DEF Stream
<1> QED
  BY <1>1, <1>2, <1>4 DEF Hop

\* The same for what x announces,
LEMMA KeepStopped ==
  ASSUME NEW x \in Apps, Stopped(x), use' = use, copy'["echo"] = copy["echo"],
         chan'[x].half = chan[x].half, chan'[x].sentClose = chan[x].sentClose,
         chan'[x].closed = chan[x].closed, chan'[x].quit = chan[x].quit,
         HasEnd(chan'[Other(x)].in) => HasEnd(chan[Other(x)].in)
  PROVE  Stopped(x)'
BY DEF Stopped, Echoing

\* and for the call.
LEMMA KeepStages ==
  ASSUME Before, Failed, relay' = relay, copy' = copy,
         chan'["client"].got = chan["client"].got, chan'["client"].buf = chan["client"].buf
  PROVE  Before' /\ Failed'
BY DEF Before, Failed

\* From both streams to the invariant.
LEMMA Combine ==
  ASSUME NEW e \in Apps, Types', Before', Failed', Stopped(e)', Stopped(Far(e))',
         e = "client" \/ relay' # "failed" => Hop(e)',
         Far(e) = "client" \/ relay' # "failed" => Hop(Far(e))'
  PROVE  StreamInv'
<1>1. \A x \in Apps : x = e \/ x = Far(e)
  BY SMTT(30) DEF Apps, Far
<1>2. ASSUME NEW x \in Apps
      PROVE  Stopped(x)' /\ (x = "client" \/ relay' # "failed" => Hop(x)')
  <2>1. CASE x = e
    BY <2>1
  <2>2. CASE x = Far(e)
    BY <2>2
  <2> QED BY <1>1, <2>1, <2>2
<1> QED
  BY <1>2 DEF StreamInv

\* From the invariant to its parts.
LEMMA Split ==
  ASSUME StreamInv, NEW e \in Apps
  PROVE  /\ Types /\ Before /\ Failed /\ Stopped(e) /\ Stopped(Far(e))
         /\ e = "client" \/ relay # "failed" => Hop(e)
         /\ Far(e) = "client" \/ relay # "failed" => Hop(Far(e))
BY Roles DEF StreamInv

\* An application that acts is not an echo.
LEMMA ActiveFree ==
  ASSUME Types, NEW e \in Apps, Active(e)
  PROVE  ~Echoing(e) /\ ~chan[e].quit /\ Origin(e) = e
BY UseFacts DEF Types, Active, Echoing, Origin, Apps

\* The applications: Write,
LEMMA WriteKeeps ==
  ASSUME StreamInv, use' = use, NEW e \in Apps, AppWrite(e)
  PROVE  StreamInv'
<1> DEFINE r == Other(e)
           y == Far(e)
           i == <<e, chan[e].wrote + 1>>
           f == Frame("Data", i)
<1>   /\ Types /\ Before /\ Failed /\ Stopped(e) /\ Stopped(y)
      /\ e = "client" \/ relay # "failed" => Hop(e)
      /\ y = "client" \/ relay # "failed" => Hop(y)
  BY Split
<1>   /\ y \in Apps /\ Far(y) = e /\ y # e /\ e \in Ends /\ y \in Ends
      /\ r \in Ends /\ r # e /\ r # y /\ Other(y) \in Ends /\ Other(y) # e /\ Other(y) # r
  BY Roles
<1>   i \in Item /\ f \in Frames /\ f.type = "Data" /\ f.item = i
  <2>1. chan[e].wrote + 1 \in Nat
    BY StreamTypes, Sums
  <2> QED BY <2>1 DEF Item, Apps, Frame, Frames
<1>   /\ chan' = Sent(Counted(chan, e), e, f) /\ ~chan[e].half /\ ~chan[e].closed
      /\ relay' = relay /\ copy' = copy /\ cut' = cut /\ Active(e)
  BY DEF AppWrite, WriteOK, Written, Counted, WriteFails
<1>1. chan \in Chans
  BY DEF Types
<1> HIDE DEF i, f
<1>2. /\ Only(chan, chan', e)
      /\ IsWrote(chan[e], chan'[e], chan[e].wrote + 1)
      /\ IsIn(chan[r], chan'[r], Append(chan[r].in, f))
  BY <1>1, AppWrites DEF f
<1>   chan' \in Chans /\ chan'[y] = chan[y] /\ chan'[Other(y)] = chan[Other(y)]
  BY <1>2 DEF Only
<1>   /\ chan'[e].wrote = chan[e].wrote + 1 /\ chan'[e].got = chan[e].got /\ chan'[e].buf = chan[e].buf
      /\ chan'[e].half = chan[e].half /\ chan'[e].sentClose = chan[e].sentClose
      /\ chan'[e].closed = chan[e].closed /\ chan'[e].quit = chan[e].quit /\ chan'[e].saw = chan[e].saw
      /\ chan'[r].in = Append(chan[r].in, f) /\ chan'[r].buf = chan[r].buf
  BY <1>2 DEF IsWrote, IsIn, Lists, Flags, Reads, Writes
<1>3. Types'
  BY DEF Types
<1>4.  Before' /\ Failed'
  <2>1. chan'["client"].got = chan["client"].got /\ chan'["client"].buf = chan["client"].buf
    BY DEF Far, Apps
  <2> QED BY <2>1, KeepStages
<1>5.  ~Echoing(e) /\ ~chan[e].quit /\ Origin(e) = e
  BY ActiveFree
<1>6.  ~chan[e].sentClose /\ ~HasEnd(chan[r].in)
  BY <1>5 DEF Stopped
<1>7.  Stopped(e)'
  <2>1. HasEnd(chan'[r].in) => HasEnd(chan[r].in)
    BY EndAppend, StreamTypes
  <2> QED BY <2>1, KeepStopped
<1>8.  Stopped(y)'
  BY KeepStopped
<1>9.  Hop(e) => Hop(e)'
  <2> SUFFICES ASSUME Hop(e) PROVE Hop(e)'
    OBVIOUS
  <2>1. ASSUME Stream(e)
        PROVE  Carried(chan'[e].wrote, chan'[r].in, chan[r].buf, copy[Writer(e)],
                       chan[y].buf, Origin(e), Rcvd(y), cut' /\ chan'[e].closed)
    <3>1. \A j \in 1 .. Len(chan[r].in) : chan[r].in[j].type = "Data"
      BY <1>6, NoEnd, StreamTypes
    <3>2. f.item = <<Origin(e), chan[e].wrote + 1>>
      BY <1>5 DEF i
    <3>3. Carried(chan[e].wrote + 1, Append(chan[r].in, f), chan[r].buf, copy[Writer(e)],
                  chan[y].buf, Origin(e), Rcvd(y), cut /\ chan[e].closed)
      BY <2>1, <3>1, <3>2, StreamTypes, CarryWrite DEF Stream
    <3> QED BY <3>3
  <2> QED BY <2>1, HopNear
<1>10. Hop(y) => Hop(y)'
  <2> SUFFICES ASSUME Hop(y) PROVE Hop(y)'
    OBVIOUS
  <2>1. Rcvd(e)' = Rcvd(e) /\ Origin(y)' = Origin(y) /\ ~Echoing(e)' /\ ~Echoing(e)
    BY <1>5 DEF Rcvd, Echoing, Origin
  <2>2. Got(y) => Got(y)'
    BY <2>1 DEF Got
  <2>3. Stream(y) => Stream(y)'
    BY <2>1 DEF Stream
  <2> QED BY <2>1, <2>2, <2>3 DEF Hop, Taking
<1> QED
  BY <1>3, <1>4, <1>7, <1>8, <1>9, <1>10, Combine

\* A stream may be lost when the session is cut.
LEMMA CarryMono ==
  ASSUME NEW w, NEW in, NEW rb, NEW k, NEW yb, NEW o, NEW n,
         NEW lost \in BOOLEAN, NEW more \in BOOLEAN, lost => more,
         Carried(w, in, rb, k, yb, o, n, lost)
  PROVE  Carried(w, in, rb, k, yb, o, n, more)
BY DEF Carried, Flow

\* x, or the relay on its channel, announces the end.
LEMMA HopEnds ==
  ASSUME Types, Types', NEW x \in Apps, Hop(x), use' = use, copy'["echo"] = copy["echo"],
         chan'[Far(x)] = chan[Far(x)], copy'[Writer(x)] = copy[Writer(x)], cut' = cut,
         chan'[Other(x)].buf = chan[Other(x)].buf, chan'[x].wrote = chan[x].wrote,
         chan[x].closed => chan'[x].closed, NEW f \in Frames, f.type # "Data",
         \/ chan'[Other(x)].in = chan[Other(x)].in
         \/ ~chan[x].closed /\ chan'[Other(x)].in = Append(chan[Other(x)].in, f)
  PROVE  Hop(x)'
<1> DEFINE in == chan[Other(x)].in
           lost == cut /\ chan[x].closed
           more == cut' /\ chan'[x].closed
<1>1. ASSUME Stream(x)
      PROVE  Carried(chan'[x].wrote, chan'[Other(x)].in, chan[Other(x)].buf, copy[Writer(x)],
                     chan[Far(x)].buf, Origin(x), Rcvd(Far(x)), more)
  <2>1. Carried(chan[x].wrote, in, chan[Other(x)].buf, copy[Writer(x)],
                chan[Far(x)].buf, Origin(x), Rcvd(Far(x)), lost)
    BY <1>1 DEF Stream
  <2>2. lost \in BOOLEAN /\ more \in BOOLEAN /\ (lost => more)
    OBVIOUS
  <2>3. Carried(chan[x].wrote, chan'[Other(x)].in, chan[Other(x)].buf, copy[Writer(x)],
                chan[Far(x)].buf, Origin(x), Rcvd(Far(x)), lost)
    <3>1. CASE chan'[Other(x)].in = in
      BY <2>1, <3>1
    <3>2. CASE ~chan[x].closed /\ chan'[Other(x)].in = Append(in, f)
      <4>1. Far(x) \in Apps
        BY Roles
      <4>2. ~lost
        BY <3>2
      <4>3. Carried(chan[x].wrote, Append(in, f), chan[Other(x)].buf, copy[Writer(x)],
                    chan[Far(x)].buf, Origin(x), Rcvd(Far(x)), lost)
        BY <2>1, <2>2, <4>1, <4>2, StreamTypes, CarryEnd
      <4> QED BY <3>2, <4>3
    <3> QED BY <3>1, <3>2
  <2> HIDE DEF lost, more
  <2>4. Carried(chan[x].wrote, chan'[Other(x)].in, chan[Other(x)].buf, copy[Writer(x)],
                chan[Far(x)].buf, Origin(x), Rcvd(Far(x)), more)
    BY <2>2, <2>3, CarryMono, SMTT(30)
  <2> QED BY <2>4
<1> QED
  BY <1>1, HopNear

\* An application announces the end of its stream.
LEMMA EndKeeps ==
  ASSUME StreamInv, Types', use' = use, NEW e \in Apps, Active(e),
         relay' = relay, copy' = copy, cut' = cut, NEW f \in Frames, f.type # "Data",
         Only(chan, chan', e), NEW h, NEW s, NEW q,
         IsEnded(chan[e], chan'[e], Fin(chan[e]), h, s, q),
         chan[e].half => h, chan[e].sentClose => s, chan[e].quit => q, h \/ s,
         s => chan[e].sentClose \/ q,
         chan[e].sentClose => chan'[Other(e)] = chan[Other(e)],
         ~chan[e].sentClose => IsIn(chan[Other(e)], chan'[Other(e)], Append(chan[Other(e)].in, f))
  PROVE  StreamInv'
<1> DEFINE r == Other(e)
           y == Far(e)
<1>   /\ Types /\ Before /\ Failed /\ Stopped(e) /\ Stopped(y)
      /\ e = "client" \/ relay # "failed" => Hop(e)
      /\ y = "client" \/ relay # "failed" => Hop(y)
  BY Split
<1>1. /\ y \in Apps /\ Far(y) = e /\ y # e /\ e \in Ends /\ y \in Ends
      /\ r \in Ends /\ r # e /\ r # y /\ Other(y) \in Ends /\ Other(y) # e /\ Other(y) # r
  BY Roles
<1>   chan' \in Chans /\ chan'[y] = chan[y] /\ chan'[Other(y)] = chan[Other(y)]
  BY <1>1 DEF Only
<1>   /\ chan'[e].wrote = chan[e].wrote /\ chan'[e].got = chan[e].got /\ chan'[e].buf = chan[e].buf
      /\ chan'[e].half = h /\ chan'[e].sentClose = s
      /\ chan'[e].closed = chan[e].closed /\ chan'[e].quit = q /\ chan'[e].saw = chan[e].saw
  BY DEF IsEnded, Lists, Reads
<1>2. /\ chan'[r].buf = chan[r].buf
      /\ \/ chan'[r].in = chan[r].in
         \/ ~chan[e].sentClose /\ chan'[r].in = Append(chan[r].in, f)
  BY DEF IsIn
<1>3. Before' /\ Failed'
  <2>1. chan'["client"].got = chan["client"].got /\ chan'["client"].buf = chan["client"].buf
    BY DEF Far, Apps
  <2> QED BY <2>1, KeepStages
<1>4. ~Echoing(e) /\ ~chan[e].quit
  BY ActiveFree
<1>5. Stopped(e)'
  <2>1. ~Echoing(e)'
    BY <1>4 DEF Echoing
  <2> QED BY <1>4, <2>1 DEF Stopped
<1>6. Stopped(y)'
  BY <1>1, KeepStopped
<1>7.  Hop(e) => Hop(e)'
  <2>1. chan[e].closed => chan[e].sentClose
    BY DEF Stopped
  <2> QED BY <1>2, <2>1, HopEnds
<1>8.  Hop(y) => Hop(y)'
  BY <1>1, HopKept
<1> QED
  BY <1>3, <1>5, <1>6, <1>7, <1>8, Combine

\* What AppCloseWrite and AppClose do.
LEMMA AppCloseWriteDoes ==
  ASSUME Types, NEW e \in Apps, AppCloseWrite(e)
  PROVE  /\ Only(chan, chan', e)
         /\ IsEnded(chan[e], chan'[e], Fin(chan[e]), TRUE, chan[e].sentClose, chan[e].quit)
         /\ chan[e].sentClose => chan'[Other(e)] = chan[Other(e)]
         /\ ~chan[e].sentClose =>
              IsIn(chan[Other(e)], chan'[Other(e)], Append(chan[Other(e)].in, Frame("EOF", <<>>)))
         /\ relay' = relay /\ copy' = copy /\ cut' = cut
<1>1. chan \in Chans
  BY DEF Types
<1>2. /\ chan' = Sent([Announced(chan, e) EXCEPT ![e].half = TRUE], e, Frame("EOF", <<>>))
      /\ relay' = relay /\ copy' = copy /\ cut' = cut
  BY DEF AppCloseWrite, CloseWrite
<1> QED
  BY <1>1, <1>2, AppClosesWrite

LEMMA AppCloseDoes ==
  ASSUME Types, NEW e \in Apps, AppClose(e)
  PROVE  /\ Only(chan, chan', e)
         /\ IsEnded(chan[e], chan'[e], Fin(chan[e]), chan[e].half, TRUE, TRUE)
         /\ IsIn(chan[Other(e)], chan'[Other(e)], Append(chan[Other(e)].in, CloseFrame))
         /\ relay' = relay /\ copy' = copy /\ cut' = cut
         /\ ~chan[e].sentClose
<1> DEFINE D == Closing(chan, e)
<1>1. chan \in Chans /\ e \in Ends
  BY Roles DEF Types
<1>2. /\ chan' = Left(D, e) /\ ~chan[e].sentClose
      /\ relay' = relay /\ copy' = copy /\ cut' = cut
  BY DEF AppClose, Left
<1>3. /\ Only(chan, D, e)
      /\ IsEnded(chan[e], D[e], Fin(chan[e]), chan[e].half, TRUE, chan[e].quit)
      /\ IsIn(chan[Other(e)], D[Other(e)], Append(chan[Other(e)].in, CloseFrame))
  BY <1>1, <1>2, AppCloses
<1> HIDE DEF D
<1>4. D \in Chans
  BY <1>3 DEF Only
<1>5. /\ Only(D, chan', e) /\ chan'[Other(e)] = D[Other(e)]
      /\ IsEnded(D[e], chan'[e], D[e].fin, D[e].half, D[e].sentClose, TRUE)
  BY <1>1, <1>2, <1>4, Quits
<1>6. IsEnded(chan[e], chan'[e], Fin(chan[e]), chan[e].half, TRUE, TRUE)
  BY <1>3, <1>5 DEF IsEnded, Lists, Reads
<1> QED
  BY <1>2, <1>3, <1>5, <1>6, OnlyTrans

\* CloseWrite,
LEMMA CloseWriteKeeps ==
  ASSUME StreamInv, use' = use, NEW e \in Apps, AppCloseWrite(e)
  PROVE  StreamInv'
<1>1. Types /\ Active(e)
  BY DEF StreamInv, AppCloseWrite
<1>2. /\ Only(chan, chan', e)
      /\ IsEnded(chan[e], chan'[e], Fin(chan[e]), TRUE, chan[e].sentClose, chan[e].quit)
      /\ chan[e].sentClose => chan'[Other(e)] = chan[Other(e)]
      /\ ~chan[e].sentClose =>
           IsIn(chan[Other(e)], chan'[Other(e)], Append(chan[Other(e)].in, Frame("EOF", <<>>)))
      /\ relay' = relay /\ copy' = copy /\ cut' = cut
  BY <1>1, AppCloseWriteDoes
<1>3. Frame("EOF", <<>>) \in Frames /\ Frame("EOF", <<>>).type # "Data"
  BY DEF Frame, Frames, Item
<1>4. Types'
  BY <1>1, <1>2 DEF Types, Only
<1> QED
  <2> DEFINE h == TRUE
             s == chan[e].sentClose
             q == chan[e].quit
  <2>1. h /\ IsEnded(chan[e], chan'[e], Fin(chan[e]), h, s, q)
    BY <1>2
  <2>2. (chan[e].sentClose => s) /\ (chan[e].quit => q) /\ (s => chan[e].sentClose \/ q)
    OBVIOUS
  <2> HIDE DEF h, s, q
  <2> QED BY <1>1, <1>2, <1>3, <1>4, <2>1, <2>2, EndKeeps

\* Close,
LEMMA CloseKeeps ==
  ASSUME StreamInv, use' = use, NEW e \in Apps, AppClose(e)
  PROVE  StreamInv'
<1>1. Types /\ Active(e)
  BY DEF StreamInv, AppClose
<1>2. /\ Only(chan, chan', e)
      /\ IsEnded(chan[e], chan'[e], Fin(chan[e]), chan[e].half, TRUE, TRUE)
      /\ IsIn(chan[Other(e)], chan'[Other(e)], Append(chan[Other(e)].in, CloseFrame))
      /\ relay' = relay /\ copy' = copy /\ cut' = cut
      /\ ~chan[e].sentClose
  BY <1>1, AppCloseDoes
<1>3. CloseFrame \in Frames /\ CloseFrame.type # "Data"
  BY DEF CloseFrame, Frame, Frames, Item
<1>4. Types'
  BY <1>1, <1>2 DEF Types, Only
<1> QED
  BY <1>1, <1>2, <1>3, <1>4, EndKeeps

\* and Read.
LEMMA ReadKeeps ==
  ASSUME StreamInv, use' = use, NEW e \in Apps, AppRead(e)
  PROVE  StreamInv'
<1> DEFINE r == Other(e)
           y == Far(e)
<1>   /\ Types /\ Before /\ Failed /\ Stopped(e) /\ Stopped(y)
      /\ e = "client" \/ relay # "failed" => Hop(e)
      /\ y = "client" \/ relay # "failed" => Hop(y)
  BY Split
<1>   /\ y \in Apps /\ Far(y) = e /\ y # e /\ e \in Ends /\ y \in Ends
      /\ r \in Ends /\ r # e /\ r # y /\ Other(y) \in Ends /\ Other(y) # e /\ Other(y) # r
  BY Roles
<1>   relay' = relay /\ copy' = copy /\ cut' = cut /\ Active(e) /\ chan \in Chans
  BY DEF AppRead, Types
<1>1. ~Echoing(e) /\ ~chan[e].quit
  BY ActiveFree
<1>2. CASE /\ chan[e].buf # <<>>
           /\ chan' = [Taken(e) EXCEPT ![e].got = Append(@, Head(chan[e].buf))]
  <2> DEFINE g == Append(chan[e].got, Head(chan[e].buf))
  <2>1. /\ Only(chan, chan', e)
        /\ IsBuf(chan[e], chan'[e], Tail(chan[e].buf), g)
        /\ IsWrote(chan[r], chan'[r], chan[r].wrote)
    BY <1>2, AppReads
  <2>   chan' \in Chans /\ chan'[y] = chan[y] /\ chan'[Other(y)] = chan[Other(y)]
    BY <2>1 DEF Only
  <2>   /\ chan'[e].wrote = chan[e].wrote /\ chan'[e].got = g /\ chan'[e].buf = Tail(chan[e].buf)
        /\ chan'[e].half = chan[e].half /\ chan'[e].sentClose = chan[e].sentClose
        /\ chan'[e].closed = chan[e].closed /\ chan'[e].quit = chan[e].quit /\ chan'[e].saw = chan[e].saw
        /\ chan'[r].in = chan[r].in /\ chan'[r].buf = chan[r].buf
    BY <2>1 DEF IsWrote, IsBuf, Lists, Flags, Writes
  <2>2. Types'
    BY DEF Types
  <2>3. Stopped(e)' /\ Stopped(y)'
    BY KeepStopped
  <2>4. Hop(e) => Hop(e)'
    BY HopKept
  <2>5. Hop(y) => Hop(y)'
    <3> SUFFICES ASSUME Hop(y) PROVE Hop(y)'
      OBVIOUS
    <3> DEFINE n == Len(chan[e].got)
               b == chan[e].buf
               o == Origin(y)
    <3>   ~Echoing(e)' /\ o' = o /\ Rcvd(e) = n
      BY <1>1 DEF Echoing, Origin, Rcvd
    <3>   /\ n \in Nat /\ b \in Seq(Item) /\ chan[e].got \in Seq(Item)
          /\ chan[y].wrote \in Nat /\ chan[Other(y)].in \in Seq(Frames)
          /\ chan[Other(y)].buf \in Seq(Item) /\ copy[Writer(y)] \in Goroutine
          /\ (cut /\ chan[y].closed) \in BOOLEAN
      <4>1. chan[e] \in Channels
        BY DEF Chans
      <4>2. chan[e].got \in Seq(Item) /\ chan[e].buf \in Seq(Item)
        BY <4>1 DEF Channels
      <4> QED BY <4>2, StreamTypes, SMTT(30)
    <3>1. Items(chan[e].got, o, 0) /\ Stream(y)
      BY <1>1 DEF Hop, Got, Taking
    <3>2. Carried(chan[y].wrote, chan[Other(y)].in, chan[Other(y)].buf, copy[Writer(y)],
                  b, o, n, cut /\ chan[y].closed)
      BY <3>1 DEF Stream
    <3>3. /\ Head(b) = <<o, n + 1>>
          /\ Carried(chan[y].wrote, chan[Other(y)].in, chan[Other(y)].buf, copy[Writer(y)],
                     Tail(b), o, n + 1, cut /\ chan[y].closed)
      <4>1. Takes(chan[y].wrote, chan[Other(y)].in, chan[Other(y)].buf, copy[Writer(y)],
                  b, o, n, cut /\ chan[y].closed)
        BY <1>2, <3>2, CarryTake
      <4> QED BY <4>1 DEF Takes
    <3>4. Items(g, o, 0) /\ Len(g) = n + 1
      <4> DEFINE x == Head(b)
                 q == chan[e].got
      <4>1. x \in Item /\ x = <<o, 0 + Len(q) + 1>> /\ q \in Seq(Item) /\ Items(q, o, 0)
        <5>1. Head(b) \in Item
          BY <1>2, SMTT(30)
        <5>2. n + 1 = 0 + Len(q) + 1
          BY SMTT(30)
        <5> QED BY <3>1, <3>3, <5>1, <5>2
      <4> HIDE DEF x, q
      <4>2. Items(Append(q, x), o, 0) /\ Len(Append(q, x)) = Len(q) + 1
        BY <4>1, ItemsAppend, SMTT(30)
      <4> QED BY <4>2 DEF x, q
    <3>5. Rcvd(e)' = n + 1
      BY <3>4 DEF Rcvd
    <3>6. Got(y)'
      BY <3>4 DEF Got
    <3>7. Stream(y)'
      BY <3>3, <3>5 DEF Stream
    <3> QED BY <3>6, <3>7 DEF Hop
  <2>6. Before'
    <3>1. CASE relay \in {"open", "header"}
      <4>1. e # "client" /\ y = "client"
        <5>1. chan["client"].buf = <<>>
          BY <3>1 DEF Before
        <5>2. e # "client"
          BY <1>2, <5>1
        <5> QED BY <5>2 DEF Far, Apps
      <4> QED BY <4>1 DEF Before
    <3> QED BY <3>1 DEF Before
  <2>7. Failed'
    <3> SUFFICES ASSUME relay = "failed" PROVE Failed'
      BY DEF Failed
    <3>1. CASE e = "client"
      <4>1. chan[e].got = <<>> /\ chan[e].buf = Failure
        BY <1>2, <3>1 DEF Failed
      <4>2. g = Failure /\ Tail(chan[e].buf) = <<>>
        BY <4>1, SMTT(30) DEF Failure
      <4> QED BY <3>1, <4>2 DEF Failed
    <3>2. CASE e # "client"
      <4>1. y = "client"
        BY <3>2 DEF Far, Apps
      <4> QED BY <4>1 DEF Failed
    <3> QED BY <3>1, <3>2
  <2> QED BY <2>2, <2>3, <2>4, <2>5, <2>6, <2>7, Combine
<1>3. CASE chan' = [chan EXCEPT ![e].saw = TRUE]
  <2>   Only(chan, chan', e) /\ chan'[r] = chan[r] /\ IsSaw(chan[e], chan'[e])
    BY <1>3, AppSees DEF Sees
  <2>   chan' \in Chans /\ chan'[y] = chan[y] /\ chan'[Other(y)] = chan[Other(y)]
    BY DEF Only
  <2>   /\ chan'[e].wrote = chan[e].wrote /\ chan'[e].got = chan[e].got /\ chan'[e].buf = chan[e].buf
        /\ chan'[e].half = chan[e].half /\ chan'[e].sentClose = chan[e].sentClose
        /\ chan'[e].closed = chan[e].closed /\ chan'[e].quit = chan[e].quit
    BY DEF IsSaw, Lists, Flags, Writes
  <2>1. Types'
    BY DEF Types
  <2>2. Stopped(e)' /\ Stopped(y)'
    BY KeepStopped
  <2>3. Hop(e) => Hop(e)'
    BY HopKept
  <2>4. Hop(y) => Hop(y)'
    <3>1. Rcvd(e)' = Rcvd(e) /\ Origin(y)' = Origin(y) /\ ~Echoing(e)' /\ ~Echoing(e)
      BY <1>1 DEF Rcvd, Echoing, Origin
    <3>2. Got(y) => Got(y)'
      BY <3>1 DEF Got
    <3>3. Stream(y) => Stream(y)'
      BY <3>1 DEF Stream
    <3> QED BY <3>1, <3>2, <3>3 DEF Hop, Taking
  <2>5. Before' /\ Failed'
    <3>1. chan'["client"].got = chan["client"].got /\ chan'["client"].buf = chan["client"].buf
      BY DEF Far, Apps
    <3> QED BY <3>1, KeepStages
  <2> QED BY <2>1, <2>2, <2>3, <2>4, <2>5, Combine
<1> QED
  BY <1>2, <1>3 DEF AppRead

\* A step that changes what is on its way from x, and not what is taken.
LEMMA HopBy ==
  ASSUME NEW x \in Apps, Hop(x), use' = use, copy'["echo"] = copy["echo"],
         chan'[Far(x)].got = chan[Far(x)].got, chan'[Far(x)].saw = chan[Far(x)].saw,
         chan'[Far(x)].wrote = chan[Far(x)].wrote, Stream(x) => Stream(x)'
  PROVE  Hop(x)'
<1>1. Got(x)'
  BY GotKept DEF Hop
<1>2. Taking(Far(x))' <=> Taking(Far(x))
  BY DEF Taking, Echoing
<1> QED
  BY <1>1, <1>2 DEF Hop

\* x becomes closed: by a Close that the relay handles, or sends.
LEMMA StopMore ==
  ASSUME NEW x \in Apps, Stopped(x), use' = use, copy'["echo"] = copy["echo"],
         chan'[x].half = chan[x].half, chan'[x].quit = chan[x].quit,
         chan'[x].sentClose, chan'[x].closed
  PROVE  Stopped(x)'
BY DEF Stopped, Echoing

\* An end e of the relay, and the application at the other end of its channel.
LEMMA RelayEnd ==
  ASSUME NEW e \in Ends \ Apps
  PROVE  /\ Other(e) \in Apps /\ Other(Other(e)) = e /\ Other(e) # e
         /\ Far(Other(e)) # e /\ Other(Far(Other(e))) # e /\ Other(Far(Other(e))) # Other(e)
BY DEF Ends, Apps, Other, Far

\* What the session's loop does with frame f.
LEMMA HandleDoes ==
  ASSUME Types, NEW e \in Ends \ Apps, Handle(e), NEW f, f = Head(chan[e].in)
  PROVE  /\ Only(chan, chan', e) /\ f \in Frames /\ chan[e].in # <<>>
         /\ f.type = "Data" => /\ chan'[Other(e)] = chan[Other(e)]
                               /\ IsMoved(chan[e], chan'[e], Tail(chan[e].in), Append(chan[e].buf, f.item))
         /\ f.type = "EOF" => /\ chan'[Other(e)] = chan[Other(e)]
                              /\ IsEOF(chan[e], chan'[e], Tail(chan[e].in))
         /\ f.type = "Close" => /\ IsGone(chan[e], chan'[e], Tail(chan[e].in))
                                /\ chan[e].sentClose => chan'[Other(e)] = chan[Other(e)]
                                /\ ~chan[e].sentClose =>
                                     IsGone(chan[Other(e)], chan'[Other(e)], chan[Other(e)].in)
         /\ relay' = relay /\ copy' = copy /\ cut' = cut
<1>1. chan \in Chans
  BY DEF Types
<1>2. /\ chan' = Handled(Dequeued(chan, e), e, f) /\ chan[e].in # <<>>
      /\ relay' = relay /\ copy' = copy /\ cut' = cut
  BY DEF Handle, Dequeued
<1> QED
  BY <1>1, <1>2, Handles

\* The session at the relay handles a frame,
LEMMA HandleKeeps ==
  ASSUME StreamInv, use' = use, NEW e \in Ends \ Apps, Handle(e)
  PROVE  StreamInv'
<1> DEFINE x == Other(e)
           y == Far(x)
           f == Head(chan[e].in)
<1>   /\ x \in Apps /\ Other(x) = e /\ x # e /\ y # e /\ Other(y) # e /\ Other(y) # x
  BY RelayEnd
<1>   y \in Apps /\ Far(y) = x /\ y # x /\ x \in Ends /\ y \in Ends /\ Other(y) \in Ends
  BY Roles
<1>   /\ Types /\ Before /\ Failed /\ Stopped(x) /\ Stopped(y)
      /\ x = "client" \/ relay # "failed" => Hop(x)
      /\ y = "client" \/ relay # "failed" => Hop(y)
  BY Split
<1>   /\ Only(chan, chan', e) /\ f \in Frames /\ chan[e].in # <<>>
      /\ f.type = "Data" => /\ chan'[x] = chan[x]
                            /\ IsMoved(chan[e], chan'[e], Tail(chan[e].in), Append(chan[e].buf, f.item))
      /\ f.type = "EOF" => /\ chan'[x] = chan[x]
                           /\ IsEOF(chan[e], chan'[e], Tail(chan[e].in))
      /\ f.type = "Close" => /\ IsGone(chan[e], chan'[e], Tail(chan[e].in))
                             /\ chan[e].sentClose => chan'[x] = chan[x]
                             /\ ~chan[e].sentClose => IsGone(chan[x], chan'[x], chan[x].in)
      /\ relay' = relay /\ copy' = copy /\ cut' = cut
  BY HandleDoes
<1>   chan' \in Chans /\ chan'[y] = chan[y] /\ chan'[Other(y)] = chan[Other(y)]
  BY DEF Only
<1>1. Types'
  BY DEF Types
<1>2. f.type \in {"Data", "EOF", "Close"}
  BY DEF Frames
<1>3. \/ chan'[x] = chan[x]
      \/ IsGone(chan[x], chan'[x], chan[x].in)
  BY <1>2
<1>   /\ chan'[x].wrote = chan[x].wrote /\ chan'[x].got = chan[x].got /\ chan'[x].buf = chan[x].buf
      /\ chan'[x].half = chan[x].half /\ chan'[x].quit = chan[x].quit /\ chan'[x].saw = chan[x].saw
      /\ \/ chan'[x].sentClose = chan[x].sentClose /\ chan'[x].closed = chan[x].closed
         \/ chan'[x].sentClose /\ chan'[x].closed
  BY <1>3 DEF IsGone, Reads, Writes
<1>4.  /\ chan'[e].in = Tail(chan[e].in)
       /\ f.type = "Data" => chan'[e].buf = Append(chan[e].buf, f.item)
       /\ f.type # "Data" => chan'[e].buf = chan[e].buf
  <2>1. CASE f.type = "Data"
    BY <2>1 DEF IsMoved
  <2>2. CASE f.type = "EOF"
    BY <2>2 DEF IsEOF
  <2>3. CASE f.type = "Close"
    BY <2>3 DEF IsGone
  <2> QED BY <1>2, <2>1, <2>2, <2>3
<1>5.  Before' /\ Failed'
  <2>1. chan'["client"].got = chan["client"].got /\ chan'["client"].buf = chan["client"].buf
    BY DEF Far, Apps
  <2> QED BY <2>1, KeepStages
<1>    /\ chan[x].wrote \in Nat /\ chan[e].in \in Seq(Frames) /\ chan[e].buf \in Seq(Item)
       /\ copy[Writer(x)] \in Goroutine /\ chan[y].buf \in Seq(Item) /\ Rcvd(y) \in Nat
       /\ (cut /\ chan[x].closed) \in BOOLEAN
  BY StreamTypes
<1>6.  Stopped(x)'
  <2>1. HasEnd(chan'[e].in) => HasEnd(chan[e].in)
    BY <1>4, EndTail
  <2> QED BY <2>1, KeepStopped, StopMore
<1>7.  Stopped(y)'
  BY KeepStopped
<1>8.  Stream(x) => Stream(x)'
  <2> SUFFICES ASSUME Stream(x) PROVE Stream(x)'
    OBVIOUS
  <2> DEFINE lost == cut /\ chan[x].closed
             more == cut' /\ chan'[x].closed
  <2>1. Carried(chan[x].wrote, chan[e].in, chan[e].buf, copy[Writer(x)],
                chan[y].buf, Origin(x), Rcvd(y), lost)
    BY DEF Stream
  <2>2. lost \in BOOLEAN /\ more \in BOOLEAN /\ (lost => more)
    OBVIOUS
  <2>3. Carried(chan[x].wrote, chan'[e].in, chan'[e].buf, copy[Writer(x)],
                chan[y].buf, Origin(x), Rcvd(y), lost)
    <3>1. CASE f.type = "Data"
      <4>1. Carried(chan[x].wrote, Tail(chan[e].in), Append(chan[e].buf, f.item), copy[Writer(x)],
                    chan[y].buf, Origin(x), Rcvd(y), lost)
        BY <2>1, <3>1, CarryData
      <4> QED BY <1>4, <3>1, <4>1
    <3>2. CASE f.type # "Data"
      <4>1. Carried(chan[x].wrote, Tail(chan[e].in), chan[e].buf, copy[Writer(x)],
                    chan[y].buf, Origin(x), Rcvd(y), lost)
        BY <2>1, <3>2, CarryDrop
      <4> QED BY <1>4, <3>2, <4>1
    <3> QED BY <3>1, <3>2
  <2>4. Rcvd(y)' = Rcvd(y) /\ Origin(x)' = Origin(x)
    BY DEF Rcvd, Echoing, Origin
  <2> HIDE DEF lost, more
  <2>5. Carried(chan[x].wrote, chan'[e].in, chan'[e].buf, copy[Writer(x)],
                chan[y].buf, Origin(x), Rcvd(y), more)
    BY ONLY <2>2, <2>3, CarryMono
  <2> QED BY <2>4, <2>5 DEF Stream, more
<1>9.  Hop(x) => Hop(x)'
  BY <1>8, HopBy
<1>10. Hop(y) => Hop(y)'
  BY HopKept
<1> QED
  BY <1>1, <1>5, <1>6, <1>7, <1>9, <1>10, Combine

\* and is cut.
LEMMA CutKeeps ==
  ASSUME StreamInv, use' = use, NEW e \in Ends \ Apps, Cut(e)
  PROVE  StreamInv'
<1> DEFINE x == Other(e)
           y == Far(x)
<1>   /\ x \in Apps /\ Other(x) = e /\ x # e /\ y # e /\ Other(y) # e /\ Other(y) # x
  BY RelayEnd
<1>   y \in Apps /\ Far(y) = x /\ y # x /\ x \in Ends /\ y \in Ends /\ Other(y) \in Ends
  BY Roles
<1>   /\ Types /\ Before /\ Failed /\ Stopped(x) /\ Stopped(y)
      /\ x = "client" \/ relay # "failed" => Hop(x)
      /\ y = "client" \/ relay # "failed" => Hop(y)
  BY Split
<1>   /\ Only(chan, chan', e) /\ IsGone(chan[e], chan'[e], <<>>)
      /\ IsGone(chan[x], chan'[x], <<>>)
      /\ relay' = relay /\ copy' = copy /\ cut' = TRUE
  <2>1. chan \in Chans
    BY DEF Types
  <2> QED BY <2>1, Cuts DEF Cut
<1>   chan' \in Chans /\ chan'[y] = chan[y] /\ chan'[Other(y)] = chan[Other(y)]
  BY DEF Only
<1>1. Types'
  BY DEF Types
<1>   /\ chan'[x].wrote = chan[x].wrote /\ chan'[x].got = chan[x].got /\ chan'[x].buf = chan[x].buf
      /\ chan'[x].half = chan[x].half /\ chan'[x].quit = chan[x].quit /\ chan'[x].saw = chan[x].saw
      /\ chan'[x].sentClose = TRUE /\ chan'[x].closed = TRUE
      /\ chan'[e].in = <<>> /\ chan'[e].buf = chan[e].buf
  BY DEF IsGone, Reads, Writes
<1>2. Before' /\ Failed'
  <2>1. chan'["client"].got = chan["client"].got /\ chan'["client"].buf = chan["client"].buf
    BY DEF Far, Apps
  <2> QED BY <2>1, KeepStages
<1>3. Stopped(x)'
  BY StopMore
<1>4.  Stopped(y)'
  BY KeepStopped
<1>5.  Stream(x) => Stream(x)'
  <2> SUFFICES ASSUME Stream(x) PROVE Stream(x)'
    OBVIOUS
  <2>1. Carried(chan[x].wrote, <<>>, chan[e].buf, copy[Writer(x)],
                chan[y].buf, Origin(x), Rcvd(y), TRUE)
    BY DEF Stream, Carried, Flow
  <2>2. Rcvd(y)' = Rcvd(y) /\ Origin(x)' = Origin(x)
    BY DEF Rcvd, Echoing, Origin
  <2>3. (cut' /\ chan'[x].closed) = TRUE
    OBVIOUS
  <2> QED BY <2>1, <2>2, <2>3 DEF Stream
<1>6.  Hop(x) => Hop(x)'
  BY <1>5, HopBy
<1>7.  Stream(y) => Stream(y)'
  <2> SUFFICES ASSUME Stream(y) PROVE Stream(y)'
    OBVIOUS
  <2> DEFINE lost == cut /\ chan[y].closed
             more == cut' /\ chan'[y].closed
  <2>1. Carried(chan[y].wrote, chan[Other(y)].in, chan[Other(y)].buf, copy[Writer(y)],
                chan[x].buf, Origin(y), Rcvd(x), lost)
    BY DEF Stream
  <2>2. lost \in BOOLEAN /\ more \in BOOLEAN /\ (lost => more)
    OBVIOUS
  <2>3. Rcvd(x)' = Rcvd(x) /\ Origin(y)' = Origin(y)
    BY DEF Rcvd, Echoing, Origin
  <2> HIDE DEF lost, more
  <2>4. Carried(chan[y].wrote, chan[Other(y)].in, chan[Other(y)].buf, copy[Writer(y)],
                chan[x].buf, Origin(y), Rcvd(x), more)
    BY ONLY <2>1, <2>2, CarryMono
  <2> QED BY <2>3, <2>4 DEF Stream, more
<1>8.  Hop(y) => Hop(y)'
  BY <1>7, HopBy
<1> QED
  BY <1>1, <1>2, <1>3, <1>4, <1>6, <1>8, Combine

\* The relay closes the channel that ends at e.
LEMMA RelayCloseDoes ==
  ASSUME Types, NEW e \in Ends \ Apps, Close(e)
  PROVE  /\ chan[e].sentClose => chan' = chan
         /\ ~chan[e].sentClose =>
              /\ Only(chan, chan', e)
              /\ IsClosing(chan[e], chan'[e], IF chan[Other(e)].sentClose THEN chan[e].in
                                              ELSE Append(chan[e].in, CloseFrame))
              /\ IsGone(chan[Other(e)], chan'[Other(e)], chan[Other(e)].in)
<1>1. chan \in Chans /\ chan' = Closing(chan, e)
  BY DEF Types, Close
<1> QED
  BY <1>1, RelayCloses

\* The streams when the relay closes a channel: nothing more is sent on it.
LEMMA RelayCloseKeeps ==
  ASSUME StreamInv, use' = use, NEW e \in Ends \ Apps, Close(e), cut' = cut,
         copy' \in [Copies -> Goroutine], copy'["echo"] = copy["echo"],
         \A d \in Copies : copy'[d] = copy[d] \/ ~Alive(copy'[d]),
         relay \notin {"open", "header", "failed"}, relay' \in {"run", "closing", "done"}
  PROVE  StreamInv'
<1> DEFINE x == Other(e)
           y == Far(x)
<1>   /\ x \in Apps /\ Other(x) = e /\ x # e /\ y # e /\ Other(y) # e /\ Other(y) # x
  BY RelayEnd
<1>   y \in Apps /\ Far(y) = x /\ y # x /\ x \in Ends /\ y \in Ends /\ Other(y) \in Ends
  BY Roles
<1>   Types /\ Stopped(x) /\ Stopped(y) /\ Hop(x) /\ Hop(y)
  BY Split
<1>1. Before' /\ Failed'
  BY DEF Before, Failed
<1>   /\ chan[e].sentClose => chan' = chan
      /\ ~chan[e].sentClose =>
           /\ Only(chan, chan', e)
           /\ IsClosing(chan[e], chan'[e], IF chan[x].sentClose THEN chan[e].in
                                           ELSE Append(chan[e].in, CloseFrame))
           /\ IsGone(chan[x], chan'[x], chan[x].in)
  BY RelayCloseDoes
<1>   chan' \in Chans /\ chan'[y] = chan[y] /\ chan'[Other(y)] = chan[Other(y)]
  BY DEF Only, Types
<1>2. Types'
  BY DEF Types
<1>   /\ chan'[x].wrote = chan[x].wrote /\ chan'[x].got = chan[x].got /\ chan'[x].buf = chan[x].buf
      /\ chan'[x].half = chan[x].half /\ chan'[x].quit = chan[x].quit /\ chan'[x].saw = chan[x].saw
      /\ chan'[e].buf = chan[e].buf
      /\ \/ /\ chan'[x].sentClose = chan[x].sentClose /\ chan'[x].closed = chan[x].closed
            /\ chan'[e].in = chan[e].in
         \/ chan'[x].sentClose /\ chan'[x].closed
      /\ \/ chan'[e].in = chan[e].in
         \/ ~chan[x].sentClose /\ chan'[e].in = Append(chan[e].in, CloseFrame)
  <2>1. CASE chan[e].sentClose
    BY <2>1
  <2>2. CASE ~chan[e].sentClose
    <3>1. /\ chan'[e].buf = chan[e].buf
          /\ \/ chan'[e].in = chan[e].in
             \/ ~chan[x].sentClose /\ chan'[e].in = Append(chan[e].in, CloseFrame)
      BY <2>2 DEF IsClosing
    <3> QED BY <2>2, <3>1 DEF IsGone, Reads, Writes
  <2> QED BY <2>1, <2>2
<1>3. Stopped(x)'
  BY KeepStopped, StopMore
<1>4.  Stopped(y)'
  BY KeepStopped
<1>5.  CloseFrame \in Frames /\ CloseFrame.type # "Data"
  BY DEF CloseFrame, Frame, Frames, Item
<1>6.  Hop(x)'
  <2>1. CASE copy'[Writer(x)] = copy[Writer(x)]
    <3>1. chan[x].closed => chan[x].sentClose /\ chan'[x].closed
      BY DEF Stopped
    <3> QED BY <1>2, <1>5, <2>1, <3>1, HopEnds
  <2>2. CASE ~Alive(copy'[Writer(x)])
    <3>1. Stream(x) => Stream(x)'
      <4>1. Rcvd(y)' = Rcvd(y) /\ Origin(x)' = Origin(x)
        BY DEF Rcvd, Echoing, Origin
      <4> QED BY <2>2, <4>1 DEF Stream, Carried
    <3> QED BY <3>1, HopBy
  <2>3. Writer(x) \in Copies
    BY Roles
  <2> QED BY <2>1, <2>2, <2>3
<1>7.  Hop(y)'
  <2>1. CASE copy'[Writer(y)] = copy[Writer(y)]
    BY <2>1, HopKept
  <2>2. CASE ~Alive(copy'[Writer(y)])
    <3>1. Stream(y) => Stream(y)'
      <4>1. Rcvd(x)' = Rcvd(x) /\ Origin(y)' = Origin(y)
        BY DEF Rcvd, Echoing, Origin
      <4> QED BY <2>2, <4>1 DEF Stream, Carried
    <3> QED BY <3>1, HopBy
  <2>3. Writer(y) \in Copies
    BY Roles
  <2> QED BY <2>1, <2>2, <2>3
<1> QED
  BY <1>1, <1>2, <1>3, <1>4, <1>6, <1>7, Combine

\* The relay's own steps.
LEMMA OpenKeeps ==
  ASSUME StreamInv, use' = use, Opened \/ SendHeader
  PROVE  StreamInv'
<1> DEFINE x == "client"
<1>   x \in Apps /\ Far(x) \in Apps /\ Far(Far(x)) = x
  BY Roles DEF Apps
<1>   /\ chan' = chan /\ copy' = copy /\ cut' = cut
      /\ relay \in {"open", "header"} /\ relay' \in {"run", "header"}
  BY DEF Opened, SendHeader
<1>   /\ Types /\ Before /\ Stopped(x) /\ Stopped(Far(x)) /\ Hop(x) /\ Hop(Far(x))
  BY Split
<1>1. Types'
  BY DEF Types
<1>2. Before' /\ Failed'
  BY DEF Before, Failed
<1>3. Stopped(x)' /\ Stopped(Far(x))'
  BY KeepStopped
<1>4. Hop(x)' /\ Hop(Far(x))'
  BY HopKept
<1> QED
  BY <1>1, <1>2, <1>3, <1>4, Combine

\* proxy closes both channels.
LEMMA CloseBothKeeps ==
  ASSUME StreamInv, use' = use, CloseFirst \/ CloseSecond
  PROVE  StreamInv'
<1>1. /\ copy' = copy /\ cut' = cut
      /\ relay \notin {"open", "header", "failed"} /\ relay' \in {"run", "closing", "done"}
  BY DEF CloseFirst, CloseSecond
<1>2. PICK e \in Ends \ Apps : Close(e)
  <2>1. "a" \in Ends \ Apps /\ "b" \in Ends \ Apps
    BY DEF Ends, Apps
  <2> QED BY <2>1 DEF CloseFirst, CloseSecond
<1>3. copy' \in [Copies -> Goroutine]
  BY <1>1 DEF StreamInv, Types
<1> QED
  BY <1>1, <1>2, <1>3, RelayCloseKeeps

\* The error, if it is written, and the Close of the first channel.
LEMMA RefusedDoes ==
  ASSUME Types, Before, Refused
  PROVE  /\ Only(chan, chan', "a")
         /\ relay \in {"open", "header"} /\ relay' = "failed" /\ copy' = copy /\ cut' = cut
         /\ chan'["client"].wrote = chan["client"].wrote /\ chan'["client"].fin = chan["client"].fin
         /\ chan'["client"].got = chan["client"].got /\ chan'["client"].buf \in {<<>>, Failure}
         /\ chan'["client"].half = chan["client"].half /\ chan'["client"].quit = chan["client"].quit
         /\ chan'["client"].saw = chan["client"].saw
         /\ chan["client"].eof => chan'["client"].eof
         /\ \/ /\ chan'["client"].sentClose = chan["client"].sentClose
               /\ chan'["client"].closed = chan["client"].closed
            \/ chan'["client"].sentClose /\ chan'["client"].closed
         /\ chan'["a"].buf = chan["a"].buf /\ chan'["a"].eof = chan["a"].eof
         /\ \/ chan'["a"].in = chan["a"].in
            \/ /\ ~chan["client"].sentClose /\ chan'["client"].sentClose /\ chan'["client"].closed
               /\ chan'["a"].in = Append(chan["a"].in, CloseFrame)
<1> DEFINE i == <<"error", 1>>
           reply == use.kind = "handler" /\ ~WriteFails("a")
           M == IF reply THEN Sent(Counted(chan, "a"), "a", Frame("Data", i)) ELSE chan
<1>1. "a" \in Ends \ Apps /\ "a" \in Ends /\ Other("a") = "client" /\ i \in Item
  BY DEF Ends, Apps, Other, Item
<1>2. chan \in Chans /\ chan["client"].got = <<>> /\ chan["client"].buf = <<>>
  BY DEF Types, Before, Refused
<1>3. /\ chan' = Closing(M, "a") /\ relay' = "failed" /\ copy' = copy /\ cut' = cut
      /\ relay \in {"open", "header"}
  <2>1. chan' = Closing(M, "a") /\ relay' = "failed" /\ copy' = copy /\ cut' = cut
    BY DEF Refused, Written, Counted
  <2> QED BY <2>1 DEF Refused
<1>   /\ Only(chan, M, "a")
      /\ M["client"].buf \in {<<>>, Failure} /\ M["client"].got = chan["client"].got
      /\ Flags(chan["client"], M["client"]) /\ Writes(chan["client"], M["client"])
      /\ M["client"].saw = chan["client"].saw
      /\ Lists(chan["a"], M["a"]) /\ Flags(chan["a"], M["a"])
  <2>1. CASE reply
    <3>1. M = Sent(Counted(chan, "a"), "a", Frame("Data", i))
      BY <2>1
    <3> HIDE DEF M, i
    <3>2. /\ Only(chan, M, "a")
          /\ IsWrote(chan["a"], M["a"], chan["a"].wrote)
          /\ IsBuf(chan["client"], M["client"], Append(chan["client"].buf, i), chan["client"].got)
      BY <1>1, <1>2, <3>1, RelayWrites
    <3>3. Append(<<>>, i) = Failure
      BY SMTT(30) DEF i, Failure
    <3> QED BY <1>2, <3>2, <3>3 DEF IsWrote, IsBuf
  <2>2. CASE ~reply
    <3>1. M = chan
      BY <2>2
    <3> QED BY <1>2, <3>1 DEF Only, Lists, Flags, Writes
  <2> QED BY <2>1, <2>2
<1> HIDE DEF M, reply, i
<1>4. M \in Chans
  BY DEF Only
<1>   /\ M["a"].sentClose => chan' = M
      /\ ~M["a"].sentClose =>
           /\ Only(M, chan', "a")
           /\ IsClosing(M["a"], chan'["a"], IF M["client"].sentClose THEN M["a"].in
                                            ELSE Append(M["a"].in, CloseFrame))
           /\ IsGone(M["client"], chan'["client"], M["client"].in)
  BY <1>1, <1>3, <1>4, RelayCloses
<1>5. CASE M["a"].sentClose
  BY <1>3, <1>5 DEF Flags, Writes, Lists
<1>6. CASE ~M["a"].sentClose
  <2>1. Only(chan, chan', "a")
    BY <1>1, <1>6, OnlyTrans
  <2>2. /\ chan'["client"].wrote = chan["client"].wrote /\ chan'["client"].fin = chan["client"].fin
        /\ chan'["client"].got = chan["client"].got /\ chan'["client"].buf \in {<<>>, Failure}
        /\ chan'["client"].half = chan["client"].half /\ chan'["client"].quit = chan["client"].quit
        /\ chan'["client"].saw = chan["client"].saw /\ chan'["client"].eof
        /\ chan'["client"].sentClose /\ chan'["client"].closed
    BY <1>6 DEF IsGone, Reads, Writes, Flags
  <2>3. /\ chan'["a"].buf = chan["a"].buf /\ chan'["a"].eof = chan["a"].eof
        /\ \/ chan'["a"].in = chan["a"].in
           \/ ~chan["client"].sentClose /\ chan'["a"].in = Append(chan["a"].in, CloseFrame)
    BY <1>6 DEF IsClosing, Lists, Flags
  <2> QED BY <1>3, <2>1, <2>2, <2>3
<1> QED
  BY <1>5, <1>6

\* The call is refused.
LEMMA RefusedKeeps ==
  ASSUME StreamInv, use' = use, Refused
  PROVE  StreamInv'
<1> DEFINE x == "client"
           y == "backend"
<1>   /\ x \in Apps /\ y \in Apps /\ Far(x) = y /\ Far(y) = x /\ Other(x) = "a" /\ Other(y) = "b"
      /\ y \in Ends /\ "b" \in Ends /\ "a" # y /\ "a" # "b" /\ x # y /\ x # "b"
      /\ Other("a") = x
  BY DEF Apps, Far, Other, Ends
<1>   Types /\ Before /\ Stopped(x) /\ Stopped(y) /\ Hop(x)
  BY Split
<1>   /\ Only(chan, chan', "a")
      /\ relay \in {"open", "header"} /\ relay' = "failed" /\ copy' = copy /\ cut' = cut
      /\ chan'[x].wrote = chan[x].wrote
      /\ chan'[x].got = chan[x].got /\ chan'[x].buf \in {<<>>, Failure}
      /\ chan'[x].half = chan[x].half /\ chan'[x].quit = chan[x].quit
      /\ \/ chan'[x].sentClose = chan[x].sentClose /\ chan'[x].closed = chan[x].closed
         \/ chan'[x].sentClose /\ chan'[x].closed
      /\ chan'["a"].buf = chan["a"].buf
      /\ \/ chan'["a"].in = chan["a"].in
         \/ /\ ~chan[x].sentClose /\ chan'[x].sentClose /\ chan'[x].closed
            /\ chan'["a"].in = Append(chan["a"].in, CloseFrame)
  BY RefusedDoes
<1>1. chan' \in Chans /\ chan'[y] = chan[y] /\ chan'["b"] = chan["b"]
  BY DEF Only
<1>2. Types'
  BY <1>1 DEF Types
<1>3. Before' /\ Failed'
  BY DEF Before, Failed
<1>4. Stopped(x)'
  BY KeepStopped, StopMore
<1>5. Stopped(y)'
  BY <1>1, KeepStopped
<1>6. Hop(x)'
  <2>1. CloseFrame \in Frames /\ CloseFrame.type # "Data"
    BY DEF CloseFrame, Frame, Frames, Item
  <2>2. chan[x].closed => chan[x].sentClose /\ chan'[x].closed
    BY DEF Stopped
  <2> QED BY <1>1, <1>2, <2>1, <2>2, HopEnds
<1>7.  relay' = "failed" /\ y # "client"
  OBVIOUS
<1> QED
  BY <1>2, <1>3, <1>4, <1>5, <1>6, <1>7, Combine

-------------------------------------------------------------------------------
(* The copies *)

\* What a step of one copy does to the others.
LEMMA CopySet ==
  ASSUME copy \in [Copies -> Goroutine], NEW d \in Copies, NEW k \in Goroutine,
         copy' = [copy EXCEPT ![d] = k]
  PROVE  /\ copy' \in [Copies -> Goroutine] /\ copy'[d] = k
         /\ \A c \in Copies : c # d => copy'[c] = copy[c]
OBVIOUS

LEMMA CopyPc ==
  ASSUME copy \in [Copies -> Goroutine], NEW d \in Copies, NEW p \in {"end", "done"},
         copy' = [copy EXCEPT ![d].pc = p]
  PROVE  /\ copy' \in [Copies -> Goroutine] /\ copy'[d].pc = p
         /\ \A c \in Copies : c # d => copy'[c] = copy[c]
<1> DEFINE k == [copy[d] EXCEPT !.pc = p]
<1>1. copy[d] \in Goroutine
  OBVIOUS
<1>2. k \in Goroutine /\ k.pc = p
  BY <1>1 DEF Goroutine
<1>3. copy' = [copy EXCEPT ![d] = k]
  OBVIOUS
<1> HIDE DEF k
<1>4. /\ copy' \in [Copies -> Goroutine] /\ copy'[d] = k
      /\ \A c \in Copies : c # d => copy'[c] = copy[c]
  BY <1>2, <1>3, CopySet
<1> QED
  BY <1>2, <1>4

\* Of the goroutines of the relay and the echo only d takes a step, while the relay
\* runs.
Turn(d) ==
  /\ relay \notin {"open", "header", "failed"} /\ relay' = relay /\ cut' = cut
  /\ copy' \in [Copies -> Goroutine]
  /\ \A c \in Copies : c # d => copy'[c] = copy[c]

\* The steps of a copy.
LEMMA CopyReadDoes ==
  ASSUME Types, NEW d \in Copies, CopyRead(d)
  PROVE  /\ Turn(d) /\ copy[d].pc = "read" /\ (d = "echo" => use.style = "echo")
         /\ \/ /\ chan[Src(d)].buf # <<>>
               /\ copy'[d].pc = "write" /\ copy'[d].item = Head(chan[Src(d)].buf)
               /\ Only(chan, chan', Src(d))
               /\ IsBuf(chan[Src(d)], chan'[Src(d)], Tail(chan[Src(d)].buf), chan[Src(d)].got)
               /\ IsWrote(chan[Other(Src(d))], chan'[Other(Src(d))], chan[Other(Src(d))].wrote)
            \/ AtEOF(Src(d)) /\ chan' = chan /\ copy'[d].pc = "end"
<1>   chan \in Chans /\ copy \in [Copies -> Goroutine] /\ Src(d) \in Ends
  BY DEF Types, Src, Copies, Ends
<1>   /\ relay \notin {"open", "header", "failed"} /\ relay' = relay /\ cut' = cut
      /\ copy[d].pc = "read" /\ (d = "echo" => use.style = "echo")
  BY DEF CopyRead, Copying, Running
<1>1. CASE /\ chan[Src(d)].buf # <<>>
           /\ copy' = Stored(d, Head(chan[Src(d)].buf))
           /\ chan' = Taken(Src(d))
  <2> DEFINE i == Head(chan[Src(d)].buf)
             k == [pc |-> "write", item |-> i]
  <2>1. i \in Item
    <3> DEFINE b == chan[Src(d)].buf
    <3>1. chan[Src(d)] \in Channels
      BY DEF Chans
    <3>2. b \in Seq(Item) /\ b # <<>>
      BY <1>1, <3>1 DEF Channels
    <3> HIDE DEF b
    <3>3. Head(b) \in Item
      BY <3>2, SMTT(30)
    <3> QED BY <3>3 DEF b
  <2>2. copy' = [copy EXCEPT ![d] = k]
    BY <1>1 DEF Stored
  <2> HIDE DEF i
  <2>3. k \in Goroutine /\ k.pc = "write" /\ k.item = i
    BY <2>1 DEF Goroutine
  <2> HIDE DEF k
  <2>4. Turn(d) /\ copy'[d] = k
    BY <2>2, <2>3, CopySet DEF Turn
  <2>5. /\ Only(chan, chan', Src(d))
        /\ IsBuf(chan[Src(d)], chan'[Src(d)], Tail(chan[Src(d)].buf), chan[Src(d)].got)
        /\ IsWrote(chan[Other(Src(d))], chan'[Other(Src(d))], chan[Other(Src(d))].wrote)
    BY <1>1, ReadTakes
  <2> QED BY <1>1, <2>3, <2>4, <2>5 DEF i
<1>2. CASE AtEOF(Src(d)) /\ copy' = [copy EXCEPT ![d].pc = "end"] /\ UNCHANGED chan
  <2>1. Turn(d) /\ copy'[d].pc = "end"
    BY <1>2, CopyPc DEF Turn
  <2> QED BY <1>2, <2>1
<1> QED
  BY <1>1, <1>2 DEF CopyRead

LEMMA CopyWriteDoes ==
  ASSUME Types, NEW d \in Copies, CopyWrite(d)
  PROVE  /\ Turn(d) /\ copy[d].pc = "write" /\ (d = "echo" => use.style = "echo")
         /\ copy'[d].pc \in {"read", "end"} /\ copy[d].item \in Item
         /\ \/ /\ ~WriteFails(Dst(d)) /\ (use.short = {} => copy'[d].pc = "read")
               /\ chan' = Sent(Counted(chan, Dst(d)), Dst(d), Frame("Data", copy[d].item))
            \/ WriteFails(Dst(d)) /\ chan' = chan /\ copy'[d].pc = "end"
<1>1. copy \in [Copies -> Goroutine]
  BY DEF Types
<1>2. /\ relay \notin {"open", "header", "failed"} /\ relay' = relay /\ cut' = cut
      /\ copy[d].pc = "write" /\ (d = "echo" => use.style = "echo")
  BY DEF CopyWrite, Copying, Running
<1>3. copy[d].item \in Item
  BY <1>1 DEF Goroutine
<1>4. ASSUME NEW ok \in BOOLEAN, copy' = [copy EXCEPT ![d] = AfterWrite(d, ok)]
      PROVE  /\ Turn(d) /\ copy'[d].pc \in {"read", "end"}
             /\ (ok /\ use.short = {} => copy'[d].pc = "read") /\ (~ok => copy'[d].pc = "end")
  <2> DEFINE k == AfterWrite(d, ok)
  <2>1. /\ k \in Goroutine /\ k.pc \in {"read", "end"}
        /\ (ok /\ use.short = {} => k.pc = "read") /\ (~ok => k.pc = "end")
    BY DEF AfterWrite, Goroutine, Item
  <2> HIDE DEF k
  <2>2. Turn(d) /\ copy'[d] = k
    <3>1. copy' = [copy EXCEPT ![d] = k]
      BY <1>4 DEF k
    <3> QED BY <1>1, <1>2, <2>1, <3>1, CopySet DEF Turn
  <2> QED BY <2>1, <2>2
<1>5. CASE WriteOK(Dst(d), copy[d].item) /\ copy' = [copy EXCEPT ![d] = AfterWrite(d, TRUE)]
  <2>1. Turn(d) /\ copy'[d].pc \in {"read", "end"} /\ (use.short = {} => copy'[d].pc = "read")
    BY <1>4, <1>5
  <2>2. /\ ~WriteFails(Dst(d))
        /\ chan' = Sent(Counted(chan, Dst(d)), Dst(d), Frame("Data", copy[d].item))
    BY <1>5 DEF WriteOK, Written, Counted
  <2> QED BY <1>2, <1>3, <2>1, <2>2
<1>6. CASE /\ WriteFails(Dst(d)) /\ UNCHANGED chan
           /\ copy' = [copy EXCEPT ![d] = AfterWrite(d, FALSE)]
  <2>1. Turn(d) /\ copy'[d].pc = "end"
    BY <1>4, <1>6
  <2> QED BY <1>2, <1>3, <1>6, <2>1
<1> QED
  BY <1>5, <1>6 DEF CopyWrite

LEMMA CopyEndDoes ==
  ASSUME Types, NEW d \in Copies, CopyEnd(d)
  PROVE  /\ Turn(d) /\ copy[d].pc = "end" /\ (d = "echo" => use.style = "echo")
         /\ copy'[d].pc = "done" /\ PassEnd(d)
<1>1. copy \in [Copies -> Goroutine]
  BY DEF Types
<1>2. /\ relay \notin {"open", "header", "failed"} /\ relay' = relay /\ cut' = cut
      /\ copy[d].pc = "end" /\ (d = "echo" => use.style = "echo") /\ PassEnd(d)
  BY DEF CopyEnd, Copying, Running
<1>3. copy' = [copy EXCEPT ![d].pc = "done"]
  BY DEF CopyEnd
<1>4. Turn(d) /\ copy'[d].pc = "done"
  BY <1>1, <1>2, <1>3, CopyPc DEF Turn
<1> QED
  BY <1>2, <1>4

\* A stream whose copy may end, and nothing else,
LEMMA HopCopied ==
  ASSUME NEW x \in Apps, Hop(x), use' = use, copy'["echo"] = copy["echo"],
         chan'[Far(x)].got = chan[Far(x)].got, chan'[Far(x)].saw = chan[Far(x)].saw,
         chan'[Far(x)].wrote = chan[Far(x)].wrote, chan'[Far(x)].buf = chan[Far(x)].buf,
         chan'[x].wrote = chan[x].wrote, chan'[x].closed = chan[x].closed, cut' = cut,
         chan'[Other(x)].in = chan[Other(x)].in, chan'[Other(x)].buf = chan[Other(x)].buf,
         copy'[Writer(x)] = copy[Writer(x)] \/ ~Alive(copy'[Writer(x)])
  PROVE  Hop(x)'
<1>1. CASE copy'[Writer(x)] = copy[Writer(x)]
  BY <1>1, HopKept
<1>2. CASE ~Alive(copy'[Writer(x)])
  <2>1. Stream(x) => Stream(x)'
    <3>1. Rcvd(Far(x))' = Rcvd(Far(x)) /\ Origin(x)' = Origin(x)
      BY DEF Rcvd, Echoing, Origin
    <3> QED BY <1>2, <3>1 DEF Stream, Carried
  <2> QED BY <2>1, HopBy
<1> QED
  BY <1>1, <1>2

\* and one that a copy of the relay has in hand.
LEMMA TurnKeeps ==
  ASSUME StreamInv, use' = use, NEW x \in Apps, Turn(Writer(x)), chan' \in Chans,
         chan'[x].wrote = chan[x].wrote, chan'[x].half = chan[x].half,
         chan'[x].sentClose = chan[x].sentClose, chan'[x].closed = chan[x].closed,
         chan'[x].quit = chan[x].quit, chan'[x].got = chan[x].got, chan'[x].saw = chan[x].saw,
         chan'[x].buf = chan[x].buf, chan'[Other(x)].in = chan[Other(x)].in,
         chan'[Far(x)].wrote = chan[Far(x)].wrote, chan'[Far(x)].half = chan[Far(x)].half,
         chan'[Far(x)].sentClose = chan[Far(x)].sentClose, chan'[Far(x)].closed = chan[Far(x)].closed,
         chan'[Far(x)].quit = chan[Far(x)].quit, chan'[Far(x)].got = chan[Far(x)].got,
         chan'[Far(x)].saw = chan[Far(x)].saw,
         chan'[Other(Far(x))].in = chan[Other(Far(x))].in,
         chan'[Other(Far(x))].buf = chan[Other(Far(x))].buf,
         Stream(x) =>
           Carried(chan[x].wrote, chan[Other(x)].in, chan'[Other(x)].buf, copy'[Writer(x)],
                   chan'[Far(x)].buf, Origin(x), Rcvd(Far(x)), cut /\ chan[x].closed)
  PROVE  StreamInv'
<1> DEFINE y == Far(x)
<1>1. y \in Apps /\ Far(y) = x /\ Writer(x) # "echo" /\ Writer(y) # Writer(x) /\ Writer(y) \in Copies
  BY Roles
<1>   Types /\ Stopped(x) /\ Stopped(y) /\ Hop(x) /\ Hop(y)
  BY Split DEF Turn
<1>   /\ relay' = relay /\ cut' = cut /\ copy'["echo"] = copy["echo"]
      /\ copy'[Writer(y)] = copy[Writer(y)] /\ copy' \in [Copies -> Goroutine]
  <2>1. "echo" \in Copies
    BY DEF Copies
  <2> QED BY <1>1, <2>1 DEF Turn
<1>2. Types'
  BY DEF Types
<1>3. Before' /\ Failed'
  BY DEF Before, Failed, Turn
<1>4. Stopped(x)' /\ Stopped(y)'
  BY <1>1, KeepStopped
<1>5. Stream(x) => Stream(x)'
  <2>1. Rcvd(y)' = Rcvd(y) /\ Origin(x)' = Origin(x)
    BY DEF Rcvd, Echoing, Origin
  <2> QED BY <2>1 DEF Stream
<1>6. Hop(x)'
  BY <1>5, HopBy
<1>7. Hop(y)'
  BY <1>1, HopKept
<1> QED
  BY <1>2, <1>3, <1>4, <1>6, <1>7, Combine

\* A copy of the relay carries what one of the applications writes.
LEMMA Loops ==
  ASSUME NEW d \in Copies, d # "echo"
  PROVE  \E x \in Apps : Writer(x) = d
BY DEF Copies, Apps, Writer

\* The steps of the copies of the relay keep the streams.
LEMMA RelayReadKeeps ==
  ASSUME StreamInv, use' = use, NEW d \in Copies, d # "echo", CopyRead(d)
  PROVE  StreamInv'
<1>1. PICK x \in Apps : Writer(x) = d
  BY Loops
<1> DEFINE y == Far(x)
           e == Other(x)
<1>2. /\ y \in Apps /\ Src(d) = e /\ Other(e) = x /\ x # e /\ y # e /\ Other(y) # e
      /\ Other(y) # x /\ y # x /\ x \in Ends /\ y \in Ends /\ Other(y) \in Ends
  BY <1>1, Roles
<1>3. Types
  BY DEF StreamInv
<1>   /\ Turn(d) /\ copy[d].pc = "read"
      /\ \/ /\ chan[e].buf # <<>>
            /\ copy'[d].pc = "write" /\ copy'[d].item = Head(chan[e].buf)
            /\ Only(chan, chan', e)
            /\ IsBuf(chan[e], chan'[e], Tail(chan[e].buf), chan[e].got)
            /\ IsWrote(chan[x], chan'[x], chan[x].wrote)
         \/ chan' = chan /\ copy'[d].pc = "end"
  BY <1>2, <1>3, CopyReadDoes
<1>4. /\ chan[x].wrote \in Nat /\ chan[e].in \in Seq(Frames) /\ chan[e].buf \in Seq(Item)
      /\ copy[d] \in Goroutine /\ chan[y].buf \in Seq(Item) /\ Rcvd(y) \in Nat
      /\ (cut /\ chan[x].closed) \in BOOLEAN /\ chan \in Chans /\ copy'[d] \in Goroutine
  BY <1>1, <1>2, <1>3, StreamTypes DEF Types, Turn
<1>5. CASE chan' = chan /\ copy'[d].pc = "end"
  <2>1. ~Alive(copy'[d])
    BY <1>5 DEF Alive
  <2>2. Stream(x) =>
          Carried(chan[x].wrote, chan[e].in, chan'[e].buf, copy'[d],
                  chan'[y].buf, Origin(x), Rcvd(y), cut /\ chan[x].closed)
    BY <1>1, <1>5, <2>1 DEF Stream, Carried
  <2> QED BY <1>1, <1>4, <1>5, <2>2, TurnKeeps
<1>6. CASE /\ chan[e].buf # <<>>
           /\ copy'[d].pc = "write" /\ copy'[d].item = Head(chan[e].buf)
           /\ Only(chan, chan', e)
           /\ IsBuf(chan[e], chan'[e], Tail(chan[e].buf), chan[e].got)
           /\ IsWrote(chan[x], chan'[x], chan[x].wrote)
  <2>1. chan' \in Chans /\ chan'[y] = chan[y] /\ chan'[Other(y)] = chan[Other(y)]
    BY <1>2, <1>6 DEF Only
  <2>2. /\ chan'[x].wrote = chan[x].wrote /\ chan'[x].half = chan[x].half
        /\ chan'[x].sentClose = chan[x].sentClose /\ chan'[x].closed = chan[x].closed
        /\ chan'[x].quit = chan[x].quit /\ chan'[x].got = chan[x].got /\ chan'[x].saw = chan[x].saw
        /\ chan'[x].buf = chan[x].buf /\ chan'[e].in = chan[e].in /\ chan'[e].buf = Tail(chan[e].buf)
    BY <1>6 DEF IsWrote, IsBuf, Lists, Flags, Reads
  <2>3. Stream(x) =>
          Carried(chan[x].wrote, chan[e].in, Tail(chan[e].buf), copy'[d],
                  chan[y].buf, Origin(x), Rcvd(y), cut /\ chan[x].closed)
    <3> SUFFICES ASSUME Stream(x)
                 PROVE  Carried(chan[x].wrote, chan[e].in, Tail(chan[e].buf), copy'[d],
                                chan[y].buf, Origin(x), Rcvd(y), cut /\ chan[x].closed)
      OBVIOUS
    <3>1. Carried(chan[x].wrote, chan[e].in, chan[e].buf, copy[d],
                  chan[y].buf, Origin(x), Rcvd(y), cut /\ chan[x].closed)
      BY <1>1 DEF Stream
    <3> QED BY <1>4, <1>6, <3>1, CarryRead
  <2> QED BY <1>1, <2>1, <2>2, <2>3, TurnKeeps
<1> QED
  BY <1>5, <1>6

LEMMA RelayWriteKeeps ==
  ASSUME StreamInv, use' = use, NEW d \in Copies, d # "echo", CopyWrite(d)
  PROVE  StreamInv'
<1>1. PICK x \in Apps : Writer(x) = d
  BY Loops
<1> DEFINE y == Far(x)
           e == Other(x)
           r == Other(y)
<1>   /\ y \in Apps /\ Dst(d) = r /\ Other(r) = y /\ x # r /\ r \in Ends \ Apps
      /\ e # r /\ e # y /\ y # x /\ x \in Ends /\ y \in Ends /\ e \in Ends
  BY <1>1, Roles
<1>2. Types
  BY DEF StreamInv
<1>   /\ Turn(d) /\ copy[d].pc = "write" /\ copy'[d].pc \in {"read", "end"} /\ copy[d].item \in Item
      /\ \/ chan' = Sent(Counted(chan, r), r, Frame("Data", copy[d].item))
         \/ chan' = chan /\ copy'[d].pc = "end"
  BY <1>2, CopyWriteDoes
<1>3. /\ chan[x].wrote \in Nat /\ chan[e].in \in Seq(Frames) /\ chan[e].buf \in Seq(Item)
      /\ copy[d] \in Goroutine /\ chan[y].buf \in Seq(Item) /\ Rcvd(y) \in Nat
      /\ (cut /\ chan[x].closed) \in BOOLEAN /\ chan \in Chans /\ copy'[d] \in Goroutine
  BY <1>1, <1>2, StreamTypes DEF Types, Turn
<1>4. CASE chan' = chan /\ copy'[d].pc = "end"
  <2>1. ~Alive(copy'[d])
    BY <1>4 DEF Alive
  <2>2. Stream(x) =>
          Carried(chan[x].wrote, chan[e].in, chan'[e].buf, copy'[d],
                  chan'[y].buf, Origin(x), Rcvd(y), cut /\ chan[x].closed)
    BY <1>1, <1>4, <2>1 DEF Stream, Carried
  <2> QED BY <1>1, <1>3, <1>4, <2>2, TurnKeeps
<1>5. CASE chan' = Sent(Counted(chan, r), r, Frame("Data", copy[d].item))
  <2> DEFINE i == copy[d].item
  <2>1. /\ Only(chan, chan', r)
        /\ IsWrote(chan[r], chan'[r], chan[r].wrote)
        /\ IsBuf(chan[y], chan'[y], Append(chan[y].buf, i), chan[y].got)
    <3>1. i \in Item /\ chan' = Sent(Counted(chan, r), r, Frame("Data", i))
      BY <1>5
    <3> HIDE DEF i
    <3> QED BY <1>3, <3>1, RelayWrites
  <2>2. chan' \in Chans /\ chan'[x] = chan[x] /\ chan'[e] = chan[e]
    BY <2>1 DEF Only
  <2>3. /\ chan'[y].wrote = chan[y].wrote /\ chan'[y].half = chan[y].half
        /\ chan'[y].sentClose = chan[y].sentClose /\ chan'[y].closed = chan[y].closed
        /\ chan'[y].quit = chan[y].quit /\ chan'[y].got = chan[y].got /\ chan'[y].saw = chan[y].saw
        /\ chan'[y].buf = Append(chan[y].buf, i) /\ chan'[r].in = chan[r].in /\ chan'[r].buf = chan[r].buf
    BY <2>1 DEF IsWrote, IsBuf, Lists, Flags, Writes
  <2>4. Stream(x) =>
          Carried(chan[x].wrote, chan[e].in, chan[e].buf, copy'[d],
                  Append(chan[y].buf, i), Origin(x), Rcvd(y), cut /\ chan[x].closed)
    <3> SUFFICES ASSUME Stream(x)
                 PROVE  Carried(chan[x].wrote, chan[e].in, chan[e].buf, copy'[d],
                                Append(chan[y].buf, i), Origin(x), Rcvd(y), cut /\ chan[x].closed)
      OBVIOUS
    <3>1. Carried(chan[x].wrote, chan[e].in, chan[e].buf, copy[d],
                  chan[y].buf, Origin(x), Rcvd(y), cut /\ chan[x].closed)
      BY <1>1 DEF Stream
    <3>2. copy'[d].pc # "write"
      OBVIOUS
    <3> QED BY <1>3, <3>1, <3>2, CarryPass
  <2> QED BY <1>1, <2>2, <2>3, <2>4, TurnKeeps
<1> QED
  BY <1>4, <1>5

\* A copy of the relay passes the end on.
LEMMA RelayHalfDoes ==
  ASSUME Types, NEW e \in Ends \ Apps, CloseWrite(e)
  PROVE  /\ Only(chan, chan', e)
         /\ IsEnded(chan[e], chan'[e], chan[e].fin, TRUE, chan[e].sentClose, chan[e].quit)
         /\ chan[e].sentClose => chan'[Other(e)] = chan[Other(e)]
         /\ ~chan[e].sentClose => IsEOF(chan[Other(e)], chan'[Other(e)], chan[Other(e)].in)
<1>1. chan \in Chans
  BY DEF Types
<1>2. chan' = Sent([Announced(chan, e) EXCEPT ![e].half = TRUE], e, Frame("EOF", <<>>))
  BY DEF CloseWrite
<1> QED
  BY <1>1, <1>2, RelayClosesWrite

LEMMA RelayEndKeeps ==
  ASSUME StreamInv, use' = use, NEW d \in Copies, d # "echo", CopyEnd(d)
  PROVE  StreamInv'
<1> DEFINE e == Dst(d)
           y == Other(e)
           x == Far(y)
<1>   /\ e \in Ends \ Apps /\ "echo" \in Copies
  BY DEF Copies, Dst, Ends, Apps
<1>   /\ y \in Apps /\ Other(y) = e /\ y # e /\ x # e /\ Other(x) # e /\ Other(x) # y
      /\ x \in Apps /\ Far(x) = y /\ x # y /\ x \in Ends /\ y \in Ends /\ Other(x) \in Ends
      /\ Writer(x) \in Copies /\ Writer(y) \in Copies
  <2>1. /\ y \in Apps /\ Other(y) = e /\ y # e /\ x # e /\ Other(x) # e /\ Other(x) # y
    BY RelayEnd
  <2> QED BY <2>1, Roles
<1>   Types /\ Stopped(x) /\ Stopped(y)
  BY Split
<1>   Turn(d) /\ copy'[d].pc = "done" /\ PassEnd(d)
  BY CopyEndDoes
<1>1. Hop(x) /\ Hop(y)
  BY Split DEF Turn
<1>   /\ copy'["echo"] = copy["echo"] /\ copy' \in [Copies -> Goroutine]
      /\ \A c \in Copies : copy'[c] = copy[c] \/ ~Alive(copy'[c])
      /\ relay \notin {"open", "header", "failed"} /\ relay' = relay /\ cut' = cut
  <2>1. ~Alive(copy'[d])
    BY DEF Alive
  <2> QED BY <2>1 DEF Turn
<1>2. relay' \in {"run", "closing", "done"}
  BY DEF Types
<1>3. CASE Close(e)
  BY <1>2, <1>3, RelayCloseKeeps
<1>4. CASE CloseWrite(e)
  <2>1. /\ Only(chan, chan', e)
        /\ IsEnded(chan[e], chan'[e], chan[e].fin, TRUE, chan[e].sentClose, chan[e].quit)
        /\ chan[e].sentClose => chan'[y] = chan[y]
        /\ ~chan[e].sentClose => IsEOF(chan[y], chan'[y], chan[y].in)
    BY <1>4, RelayHalfDoes
  <2>   chan' \in Chans /\ chan'[x] = chan[x] /\ chan'[Other(x)] = chan[Other(x)]
    BY <2>1 DEF Only
  <2>2. /\ chan'[y].wrote = chan[y].wrote /\ chan'[y].half = chan[y].half
        /\ chan'[y].sentClose = chan[y].sentClose /\ chan'[y].closed = chan[y].closed
        /\ chan'[y].quit = chan[y].quit /\ chan'[y].got = chan[y].got /\ chan'[y].saw = chan[y].saw
        /\ chan'[y].buf = chan[y].buf /\ chan'[e].in = chan[e].in /\ chan'[e].buf = chan[e].buf
    BY <2>1 DEF IsEnded, IsEOF, Lists, Reads, Writes
  <2>3. Types'
    BY DEF Types
  <2>4. Before' /\ Failed'
    BY DEF Before, Failed
  <2>5. Stopped(x)' /\ Stopped(y)'
    BY <2>2, KeepStopped
  <2>6. Hop(x)'
    BY <1>1, <2>2, HopCopied
  <2>7. Hop(y)'
    BY <1>1, <2>2, HopCopied
  <2> QED BY <2>3, <2>4, <2>5, <2>6, <2>7, Combine
<1> QED
  BY <1>3, <1>4 DEF PassEnd

-------------------------------------------------------------------------------
(* The echo *)

\* The stream to the client does not depend on where the echo is,
LEMMA HopBack ==
  ASSUME NEW x \in Apps, x = "backend", use' = use, Got(x), Stream(x) => Stream(x)', Hop(x),
         chan'[Far(x)].got = chan[Far(x)].got
  PROVE  Hop(x)'
<1>1. ~Echoing(Far(x)) /\ ~Echoing(Far(x))'
  BY DEF Echoing, Far
<1>2. Got(x)'
  BY <1>1 DEF Got, Origin
<1> QED
  BY <1>1, <1>2 DEF Hop, Taking

\* nor does what the client announces, nor, before it is done, what the echo does.
LEMMA StopClient ==
  ASSUME Stopped("client"), use' = use, chan'["client"] = chan["client"],
         chan'[Other("client")] = chan[Other("client")]
  PROVE  Stopped("client")'
BY DEF Stopped, Echoing

LEMMA StopEcho ==
  ASSUME Stopped("backend"), use' = use, copy["echo"].pc # "done",
         chan'["backend"].half = chan["backend"].half,
         chan'["backend"].sentClose = chan["backend"].sentClose,
         chan'["backend"].closed = chan["backend"].closed, chan'["backend"].quit = chan["backend"].quit,
         HasEnd(chan'[Other("backend")].in) => HasEnd(chan[Other("backend")].in)
  PROVE  Stopped("backend")'
BY DEF Stopped, Echoing

\* What the steps of the echo have in common.
EchoTurn ==
  /\ use' = use /\ use.style = "echo" /\ Turn("echo")
  /\ chan' \in Chans /\ chan'["client"] = chan["client"] /\ chan'["a"] = chan["a"]
  /\ chan'["backend"].got = chan["backend"].got /\ chan'["backend"].saw = chan["backend"].saw
  /\ chan'["backend"].closed = chan["backend"].closed

LEMMA EchoFacts ==
  ASSUME StreamInv, EchoTurn
  PROVE  /\ Types /\ Types' /\ Before' /\ Failed' /\ Stopped("client")'
         /\ Stopped("client") /\ Stopped("backend") /\ Hop("client") /\ Hop("backend")
         /\ copy'["up"] = copy["up"] /\ copy'["down"] = copy["down"] /\ cut' = cut
         /\ relay' = relay /\ Echoing("backend") /\ Echoing("backend")'
<1>1. /\ "client" \in Apps /\ "backend" \in Apps /\ Far("client") = "backend"
      /\ Other("client") = "a" /\ "up" \in Copies /\ "down" \in Copies
      /\ "up" # "echo" /\ "down" # "echo"
  BY DEF Apps, Far, Other, Copies
<1>   /\ copy'["up"] = copy["up"] /\ copy'["down"] = copy["down"] /\ cut' = cut
      /\ relay' = relay /\ relay \notin {"open", "header", "failed"}
      /\ copy' \in [Copies -> Goroutine] /\ Echoing("backend") /\ Echoing("backend")'
  BY <1>1 DEF EchoTurn, Turn, Echoing
<1>2. Types /\ Stopped("client") /\ Stopped("backend") /\ Hop("client") /\ Hop("backend")
  BY <1>1, Split
<1>3. Types'
  BY <1>2 DEF Types, EchoTurn
<1>4. Before' /\ Failed'
  BY DEF Before, Failed
<1>5. Stopped("client")'
  BY <1>1, <1>2, StopClient DEF EchoTurn
<1> QED
  BY <1>2, <1>3, <1>4, <1>5

\* From the parts to the invariant.
LEMMA EchoKeeps ==
  ASSUME StreamInv, EchoTurn, Stopped("backend")',
         copy'["echo"].pc = "write" => copy'["echo"].item = <<"client", chan'["backend"].wrote + 1>>,
         Alive(copy'["echo"]) /\ Stream("client") => Stream("client")',
         Alive(copy'["echo"]) => Alive(copy["echo"]),
         Stream("backend") => Stream("backend")'
  PROVE  StreamInv'
<1>   /\ "client" \in Apps /\ "backend" \in Apps /\ Far("client") = "backend" /\ Far("backend") = "client"
  BY DEF Apps, Far
<1>   /\ Types' /\ Before' /\ Failed' /\ Stopped("client")'
      /\ Hop("client") /\ Hop("backend") /\ Echoing("backend") /\ Echoing("backend")'
      /\ chan'["client"] = chan["client"] /\ use' = use /\ use.style = "echo"
      /\ chan'["backend"].got = chan["backend"].got /\ chan'["backend"].saw = chan["backend"].saw
  BY EchoFacts DEF EchoTurn
<1>1. Hop("backend")'
  BY HopBack DEF Hop
<1>2. Hop("client")'
  <2>1. Origin("client") = "client" /\ Origin("client")' = "client"
    BY DEF Origin
  <2>2. Got("client")'
    BY <2>1 DEF Hop, Got
  <2> QED BY <2>2 DEF Hop, Taking
<1> QED
  BY <1>1, <1>2, Combine

\* The names of the ends and the copies when the backend echoes.
LEMMA EchoNames ==
  /\ Src("echo") = "backend" /\ Dst("echo") = "backend" /\ Other("backend") = "b"
  /\ Other("client") = "a" /\ Far("client") = "backend" /\ Far("backend") = "client"
  /\ Writer("client") = "up" /\ Writer("backend") = "down" /\ "echo" \in Copies
  /\ "client" \in Apps /\ "backend" \in Apps /\ "client" \in Ends /\ "backend" \in Ends
  /\ "a" \in Ends /\ "b" \in Ends /\ "a" # "b" /\ "a" # "backend" /\ "client" # "b"
  /\ "client" # "backend"
BY DEF Src, Dst, Other, Far, Writer, Copies, Apps, Ends

\* What the streams are made of when the backend echoes.
LEMMA EchoStreams ==
  ASSUME use.style = "echo"
  PROVE  /\ Stream("client") =
              Carried(chan["client"].wrote, chan["a"].in, chan["a"].buf, copy["up"],
                      chan["backend"].buf, "client", chan["backend"].wrote + Held(copy["echo"]),
                      cut /\ chan["client"].closed)
         /\ Stream("backend") =
              Carried(chan["backend"].wrote, chan["b"].in, chan["b"].buf, copy["down"],
                      chan["client"].buf, "client", Len(chan["client"].got),
                      cut /\ chan["backend"].closed)
BY EchoNames DEF Stream, Origin, Rcvd, Echoing

\* The steps of the echo keep the streams.
LEMMA EchoReadKeeps ==
  ASSUME StreamInv, use' = use, CopyRead("echo")
  PROVE  StreamInv'
<1> DEFINE w == chan["backend"].wrote
           b == chan["backend"].buf
<1>1. Types
  BY DEF StreamInv
<1>   /\ Turn("echo") /\ copy["echo"].pc = "read" /\ use.style = "echo"
      /\ \/ /\ b # <<>>
            /\ copy'["echo"].pc = "write" /\ copy'["echo"].item = Head(b)
            /\ Only(chan, chan', "backend")
            /\ IsBuf(chan["backend"], chan'["backend"], Tail(b), chan["backend"].got)
            /\ IsWrote(chan["b"], chan'["b"], chan["b"].wrote)
         \/ chan' = chan /\ copy'["echo"].pc = "end"
  BY <1>1, EchoNames, CopyReadDoes
<1>   Alive(copy["echo"]) /\ Held(copy["echo"]) = 0 /\ copy["echo"].pc # "done"
  BY DEF Alive, Held
<1>2. CASE chan' = chan /\ copy'["echo"].pc = "end"
  <2>1. EchoTurn /\ ~Alive(copy'["echo"]) /\ copy'["echo"].pc # "write"
    BY <1>1, <1>2 DEF EchoTurn, Types, Alive
  <2>2. /\ copy'["down"] = copy["down"] /\ cut' = cut /\ Stopped("backend")
    BY <2>1, EchoFacts
  <2>3. Stopped("backend")'
    BY <1>2, <2>2, StopEcho
  <2>4. Stream("backend") => Stream("backend")'
    BY <1>2, <2>2, EchoNames DEF Stream, Origin, Rcvd, Echoing
  <2> QED BY <2>1, <2>3, <2>4, EchoKeeps
<1>3. CASE /\ b # <<>>
           /\ copy'["echo"].pc = "write" /\ copy'["echo"].item = Head(b)
           /\ Only(chan, chan', "backend")
           /\ IsBuf(chan["backend"], chan'["backend"], Tail(b), chan["backend"].got)
           /\ IsWrote(chan["b"], chan'["b"], chan["b"].wrote)
  <2>1. chan' \in Chans /\ chan'["client"] = chan["client"] /\ chan'["a"] = chan["a"]
    BY <1>3, EchoNames DEF Only
  <2>   /\ chan'["backend"].got = chan["backend"].got /\ chan'["backend"].saw = chan["backend"].saw
        /\ chan'["backend"].wrote = w /\ chan'["backend"].buf = Tail(b)
        /\ chan'["backend"].half = chan["backend"].half
        /\ chan'["backend"].sentClose = chan["backend"].sentClose
        /\ chan'["backend"].closed = chan["backend"].closed
        /\ chan'["backend"].quit = chan["backend"].quit
        /\ chan'["b"].in = chan["b"].in /\ chan'["b"].buf = chan["b"].buf
    BY <1>3 DEF IsBuf, IsWrote, Flags, Writes, Lists
  <2>2. EchoTurn
    BY <2>1 DEF EchoTurn
  <2>   /\ copy'["up"] = copy["up"] /\ copy'["down"] = copy["down"] /\ cut' = cut
        /\ Stopped("backend") /\ Hop("client")
    BY <2>2, EchoFacts
  <2>3. Stopped("backend")'
    BY EchoNames, StopEcho
  <2>4. Stream("client")
    BY EchoNames DEF Hop, Taking
  <2>5. /\ chan["client"].wrote \in Nat /\ chan["a"].in \in Seq(Frames) /\ chan["a"].buf \in Seq(Item)
        /\ copy["up"] \in Goroutine /\ b \in Seq(Item) /\ w \in Nat
        /\ (cut /\ chan["client"].closed) \in BOOLEAN
    BY <1>1, EchoNames, StreamTypes
  <2>6. Carried(chan["client"].wrote, chan["a"].in, chan["a"].buf, copy["up"],
                b, "client", w, cut /\ chan["client"].closed)
    <3>1. w + 0 = w
      BY <2>5, SMTT(30)
    <3> QED BY <2>4, <3>1, EchoStreams
  <2>7. /\ Head(b) = <<"client", w + 1>>
        /\ Carried(chan["client"].wrote, chan["a"].in, chan["a"].buf, copy["up"],
                   Tail(b), "client", w + 1, cut /\ chan["client"].closed)
    <3>1. Takes(chan["client"].wrote, chan["a"].in, chan["a"].buf, copy["up"],
                b, "client", w, cut /\ chan["client"].closed)
      BY <1>3, <2>5, <2>6, CarryTake
    <3> QED BY <3>1 DEF Takes
  <2>8.  Stream("client")'
    <3>1. Held(copy'["echo"]) = 1
      BY <1>3 DEF Held
    <3> QED BY <2>1, <2>7, <3>1, EchoNames DEF Stream, Origin, Rcvd, Echoing
  <2>9.  Stream("backend") => Stream("backend")'
    BY <2>1, EchoNames DEF Stream, Origin, Rcvd, Echoing
  <2> QED BY <1>3, <2>2, <2>3, <2>7, <2>8, <2>9, EchoKeeps
<1> QED
  BY <1>2, <1>3

LEMMA EchoWriteKeeps ==
  ASSUME StreamInv, use' = use, CopyWrite("echo")
  PROVE  StreamInv'
<1> DEFINE w == chan["backend"].wrote
           i == copy["echo"].item
           f == Frame("Data", i)
<1>   Types
  BY DEF StreamInv
<1>   /\ Turn("echo") /\ copy["echo"].pc = "write" /\ use.style = "echo" /\ i \in Item
      /\ copy'["echo"].pc \in {"read", "end"}
      /\ \/ ~WriteFails("backend") /\ chan' = Sent(Counted(chan, "backend"), "backend", f)
         \/ chan' = chan /\ copy'["echo"].pc = "end"
  BY EchoNames, CopyWriteDoes
<1>   Alive(copy["echo"]) /\ Held(copy["echo"]) = 1 /\ copy["echo"].pc # "done"
  BY DEF Alive, Held
<1>1. copy'["echo"].pc # "write" /\ Held(copy'["echo"]) = 0
  BY DEF Held
<1>2. CASE chan' = chan /\ copy'["echo"].pc = "end"
  <2>1. EchoTurn /\ ~Alive(copy'["echo"])
    BY <1>2 DEF EchoTurn, Types, Alive
  <2>2. /\ copy'["down"] = copy["down"] /\ cut' = cut /\ Stopped("backend")
    BY <2>1, EchoFacts
  <2>3. Stopped("backend")'
    BY <1>2, <2>2, StopEcho
  <2>4. Stream("backend") => Stream("backend")'
    BY <1>2, <2>2, EchoNames DEF Stream, Origin, Rcvd, Echoing
  <2> QED BY <1>1, <2>1, <2>3, <2>4, EchoKeeps
<1>3. CASE ~WriteFails("backend") /\ chan' = Sent(Counted(chan, "backend"), "backend", f)
  <2>1. /\ Only(chan, chan', "backend")
        /\ IsWrote(chan["backend"], chan'["backend"], w + 1)
        /\ IsIn(chan["b"], chan'["b"], Append(chan["b"].in, f))
    <3>1. chan \in Chans /\ i \in Item /\ chan' = Sent(Counted(chan, "backend"), "backend", Frame("Data", i))
      BY <1>3 DEF Types
    <3> HIDE DEF i
    <3> QED BY <3>1, EchoNames, AppWrites
  <2>2. chan' \in Chans /\ chan'["client"] = chan["client"] /\ chan'["a"] = chan["a"]
    BY <2>1, EchoNames DEF Only
  <2>   /\ chan'["backend"].got = chan["backend"].got /\ chan'["backend"].saw = chan["backend"].saw
        /\ chan'["backend"].wrote = w + 1 /\ chan'["backend"].buf = chan["backend"].buf
        /\ chan'["backend"].half = chan["backend"].half
        /\ chan'["backend"].sentClose = chan["backend"].sentClose
        /\ chan'["backend"].closed = chan["backend"].closed
        /\ chan'["backend"].quit = chan["backend"].quit
        /\ chan'["b"].in = Append(chan["b"].in, f) /\ chan'["b"].buf = chan["b"].buf
    BY <2>1 DEF IsWrote, IsIn, Flags, Reads, Lists
  <2>3. EchoTurn
    BY <2>2 DEF EchoTurn
  <2>   /\ copy'["up"] = copy["up"] /\ copy'["down"] = copy["down"] /\ cut' = cut
        /\ Stopped("backend") /\ Hop("client") /\ Echoing("backend")
    BY <2>3, EchoFacts
  <2>4. ~chan["backend"].half /\ ~chan["backend"].closed /\ ~HasEnd(chan["b"].in)
    BY <1>3, EchoNames DEF Stopped, WriteFails
  <2>   /\ chan["backend"].wrote \in Nat /\ chan["b"].in \in Seq(Frames) /\ chan["b"].buf \in Seq(Item)
        /\ copy["down"] \in Goroutine /\ chan["client"].buf \in Seq(Item)
        /\ Len(chan["client"].got) \in Nat /\ (cut /\ chan["backend"].closed) \in BOOLEAN
    <3>1. Rcvd("client") = Len(chan["client"].got)
      BY EchoNames DEF Rcvd, Echoing
    <3> QED BY <3>1, EchoNames, StreamTypes
  <2>5. f \in Frames /\ f.type = "Data" /\ f.item = i
    BY DEF Frame, Frames
  <2>6. i = <<"client", w + 1>>
    <3>1. Origin("client") = "client"
      BY DEF Origin
    <3> QED BY <3>1, EchoNames DEF Hop, Got
  <2>7.  Stopped("backend")'
    <3>1. HasEnd(chan'["b"].in) => HasEnd(chan["b"].in)
      BY <2>5, EndAppend
    <3> QED BY <3>1, EchoNames, StopEcho
  <2>8.  Stream("backend") => Stream("backend")'
    <3> SUFFICES ASSUME Stream("backend") PROVE Stream("backend")'
      OBVIOUS
    <3>1. Carried(w, chan["b"].in, chan["b"].buf, copy["down"], chan["client"].buf, "client",
                  Len(chan["client"].got), cut /\ chan["backend"].closed)
      BY EchoStreams
    <3>2. \A j \in 1 .. Len(chan["b"].in) : chan["b"].in[j].type = "Data"
      BY <2>4, NoEnd
    <3>3. f.item = <<"client", w + 1>>
      BY <2>5, <2>6
    <3> HIDE DEF f, i
    <3>4. Carried(w + 1, Append(chan["b"].in, f), chan["b"].buf, copy["down"], chan["client"].buf,
                  "client", Len(chan["client"].got), cut /\ chan["backend"].closed)
      BY <2>4, <2>5, <3>1, <3>2, <3>3, CarryWrite
    <3> QED BY <2>2, <3>4, EchoNames DEF Stream, Origin, Rcvd, Echoing
  <2>9.  Stream("client") => Stream("client")'
    <3>1. w + 1 = (w + 1) + 0
      BY Sums
    <3> QED BY <1>1, <2>2, <3>1, EchoNames
            DEF Stream, Origin, Rcvd, Echoing
  <2> QED BY <1>1, <2>3, <2>7, <2>8, <2>9, EchoKeeps
<1> QED
  BY <1>2, <1>3

LEMMA EchoEndKeeps ==
  ASSUME StreamInv, use' = use, CopyEnd("echo")
  PROVE  StreamInv'
<1>1. Types
  BY DEF StreamInv
<1>   /\ Turn("echo") /\ copy["echo"].pc = "end" /\ use.style = "echo"
      /\ copy'["echo"].pc = "done" /\ chan' = Closing(chan, "backend")
  BY <1>1, EchoNames, CopyEndDoes DEF PassEnd, Close
<1>2. /\ ~Alive(copy'["echo"]) /\ copy["echo"].pc # "done" /\ copy'["echo"].pc # "write"
  BY DEF Alive
<1>3. /\ Only(chan, chan', "backend")
      /\ IsEnded(chan["backend"], chan'["backend"], Fin(chan["backend"]), chan["backend"].half, TRUE,
                 chan["backend"].quit)
      /\ chan["backend"].sentClose => chan'["b"] = chan["b"]
      /\ ~chan["backend"].sentClose => IsIn(chan["b"], chan'["b"], Append(chan["b"].in, CloseFrame))
  BY <1>1, EchoNames, AppCloses DEF Types
<1>4. chan' \in Chans /\ chan'["client"] = chan["client"] /\ chan'["a"] = chan["a"]
  BY <1>3, EchoNames DEF Only
<1>5. /\ chan'["backend"].got = chan["backend"].got /\ chan'["backend"].saw = chan["backend"].saw
      /\ chan'["backend"].wrote = chan["backend"].wrote
      /\ chan'["backend"].half = chan["backend"].half /\ chan'["backend"].sentClose = TRUE
      /\ chan'["backend"].closed = chan["backend"].closed
      /\ chan'["backend"].quit = chan["backend"].quit
  BY <1>3 DEF IsEnded, Reads
<1>6. /\ chan'["b"].buf = chan["b"].buf
      /\ \/ chan'["b"].in = chan["b"].in
         \/ ~chan["backend"].sentClose /\ chan'["b"].in = Append(chan["b"].in, CloseFrame)
  BY <1>3 DEF IsIn
<1>7. EchoTurn
  BY <1>4, <1>5 DEF EchoTurn
<1>8. /\ copy'["down"] = copy["down"] /\ cut' = cut /\ Stopped("backend") /\ Hop("backend")
      /\ Echoing("backend") /\ Echoing("backend")'
  BY <1>7, EchoFacts
<1>9.  Stopped("backend")'
  BY <1>5, <1>8 DEF Stopped
<1>10. Stream("backend") => Stream("backend")'
  <2> SUFFICES ASSUME Stream("backend") PROVE Stream("backend")'
    OBVIOUS
  <2> DEFINE lost == cut /\ chan["backend"].closed
  <2>1. Carried(chan["backend"].wrote, chan["b"].in, chan["b"].buf, copy["down"], chan["client"].buf,
                "client", Len(chan["client"].got), lost)
    BY EchoStreams
  <2>2. /\ chan["backend"].wrote \in Nat /\ chan["b"].in \in Seq(Frames) /\ chan["b"].buf \in Seq(Item)
        /\ copy["down"] \in Goroutine /\ chan["client"].buf \in Seq(Item)
        /\ Len(chan["client"].got) \in Nat /\ lost \in BOOLEAN
    <3>1. Rcvd("client") = Len(chan["client"].got)
      BY EchoNames DEF Rcvd, Echoing
    <3> QED BY <1>1, <3>1, EchoNames, StreamTypes
  <2>3. CloseFrame \in Frames /\ CloseFrame.type # "Data"
    BY DEF CloseFrame, Frame, Frames, Item
  <2>4. Carried(chan["backend"].wrote, chan'["b"].in, chan["b"].buf, copy["down"], chan["client"].buf,
                "client", Len(chan["client"].got), lost)
    <3>1. CASE chan'["b"].in = chan["b"].in
      BY <2>1, <3>1
    <3>2. CASE ~chan["backend"].sentClose /\ chan'["b"].in = Append(chan["b"].in, CloseFrame)
      <4>1. ~lost
        BY <1>8, <3>2 DEF Stopped
      <4>2. Carried(chan["backend"].wrote, Append(chan["b"].in, CloseFrame), chan["b"].buf, copy["down"],
                    chan["client"].buf, "client", Len(chan["client"].got), lost)
        BY <2>1, <2>2, <2>3, <4>1, CarryEnd
      <4> QED BY <3>2, <4>2
    <3> QED BY <1>6, <3>1, <3>2
  <2> QED BY <1>4, <1>5, <1>6, <1>8, <2>4, EchoNames
          DEF Stream, Origin, Rcvd, Echoing
<1> QED
  BY <1>2, <1>7, <1>9, <1>10, EchoKeeps

-------------------------------------------------------------------------------
(* What arrives is intact *)

\* The invariant holds at first,
LEMMA StreamInit == Init => StreamInv
<1> SUFFICES ASSUME Init PROVE StreamInv
  OBVIOUS
<1>   /\ chan = [e \in Ends |-> Channel] /\ relay = "open" /\ cut = FALSE /\ use \in Uses
      /\ copy = [d \in Copies |-> [pc |-> "read", item |-> <<>>]]
  BY DEF Init
<1>1. Channel \in Channels
  BY RelayAssumption, SMTT(30) DEF Channel, Channels
<1>2. [pc |-> "read", item |-> <<>>] \in Goroutine
  BY DEF Goroutine, Item
<1>3. Types
  BY <1>1, <1>2 DEF Types, Chans
<1>   \A e \in Ends : /\ chan[e].in = <<>> /\ chan[e].buf = <<>> /\ chan[e].got = <<>>
                      /\ chan[e].wrote = 0 /\ chan[e].half = FALSE /\ chan[e].sentClose = FALSE
                      /\ chan[e].closed = FALSE /\ chan[e].saw = FALSE /\ chan[e].quit = FALSE
  BY DEF Channel
<1>4. \A d \in Copies : copy[d].pc = "read"
  OBVIOUS
<1>5. Before /\ Failed
  BY <1>4 DEF Before, Failed, Ends
<1>6. ASSUME NEW x \in Apps PROVE Stopped(x) /\ Hop(x)
  <2>   /\ x \in Ends /\ Far(x) \in Ends /\ Other(x) \in Ends /\ Writer(x) \in Copies /\ "echo" \in Copies
    BY <1>6, Roles DEF Copies
  <2>1. Stopped(x)
    BY SMTT(30) DEF Stopped, HasEnd
  <2>2. /\ Held(copy["echo"]) = 0 /\ Held(copy[Writer(x)]) = 0 /\ copy["echo"].pc # "write"
        /\ copy[Writer(x)].pc # "write"
    BY <1>4 DEF Held
  <2>3. Rcvd(Far(x)) = 0
    BY <2>2, SMTT(30) DEF Rcvd
  <2>4. Items(<<>>, Origin(x), 0)
    BY SMTT(30) DEF Items
  <2>5. Flow(0, <<>>, 0, Origin(x), cut /\ chan[x].closed)
    BY SMTT(30) DEF Flow
  <2>6. Stream(x)
    <3>1. 0 + Len(<<>>) + 0 + Len(<<>>) = 0 /\ 0 + Len(<<>>) + 0 = 0
      BY SMTT(30)
    <3> QED BY <2>2, <2>3, <2>4, <2>5, <3>1 DEF Stream, Carried
  <2>7. Got(x)
    BY <2>2, <2>4 DEF Got
  <2> QED BY <2>1, <2>6, <2>7 DEF Hop
<1> QED
  BY <1>3, <1>5, <1>6 DEF StreamInv

\* is kept by every step,
LEMMA StreamStep == StreamInv /\ [Next]_vars => StreamInv'
<1> SUFFICES ASSUME StreamInv, [Next]_vars PROVE StreamInv'
  OBVIOUS
<1>1. CASE UNCHANGED vars
  <2> DEFINE x == "client"
  <2>   x \in Apps /\ Far(x) \in Apps /\ Far(Far(x)) = x
    BY Roles DEF Apps
  <2>   chan' = chan /\ copy' = copy /\ cut' = cut /\ relay' = relay /\ use' = use
    BY <1>1 DEF vars
  <2>   /\ Types /\ Before /\ Failed /\ Stopped(x) /\ Stopped(Far(x)) /\ Hop(x)
        /\ Far(x) = "client" \/ relay # "failed" => Hop(Far(x))
    BY Split
  <2>1. Types' /\ Before' /\ Failed'
    BY DEF Types, Before, Failed
  <2>2. Stopped(x)' /\ Stopped(Far(x))'
    BY KeepStopped
  <2>3. Hop(x)' /\ (Hop(Far(x)) => Hop(Far(x))')
    BY HopKept
  <2> QED BY <2>1, <2>2, <2>3, Combine
<1>2. CASE Next
  <2>   use' = use
    BY <1>2 DEF Next
  <2>1. CASE RelayStep
    BY <2>1, OpenKeeps, RefusedKeeps, CloseBothKeeps DEF RelayStep
  <2>2. ASSUME NEW d \in Copies, CopyStep(d) PROVE StreamInv'
    <3>1. CASE d = "echo"
      BY <2>2, <3>1, EchoReadKeeps, EchoWriteKeeps, EchoEndKeeps DEF CopyStep
    <3>2. CASE d # "echo"
      BY <2>2, <3>2, RelayReadKeeps, RelayWriteKeeps, RelayEndKeeps DEF CopyStep
    <3> QED BY <3>1, <3>2
  <2>3. ASSUME NEW e \in Ends \ Apps, Handle(e) \/ Cut(e) PROVE StreamInv'
    BY <2>3, HandleKeeps, CutKeeps
  <2>4. ASSUME NEW e \in Apps, AppWrite(e) \/ AppCloseWrite(e) \/ AppClose(e) \/ AppRead(e)
        PROVE  StreamInv'
    BY <2>4, WriteKeeps, CloseWriteKeeps, CloseKeeps, ReadKeeps
  <2> QED BY <1>2, <2>1, <2>2, <2>3, <2>4 DEF Next
<1> QED
  BY <1>1, <1>2

\* and says that what is read is a prefix of what was written.
LEMMA ItemsWhole ==
  ASSUME NEW s \in Seq(Item), NEW o, Items(s, o, 0)
  PROVE  s = [i \in 1 .. Len(s) |-> <<o, i>>]
<1>1. \A i \in 1 .. Len(s) : 0 + i = i
  BY SMTT(30)
<1>2. \A i \in 1 .. Len(s) : s[i] = <<o, i>>
  BY <1>1 DEF Items
<1>3. s = [i \in 1 .. Len(s) |-> s[i]]
  BY SMTT(30)
<1> QED
  BY <1>2, <1>3

LEMMA StreamIntact == StreamInv => Intact
<1> SUFFICES ASSUME StreamInv, NEW e \in Apps
             PROVE  \/ chan[e].got = [i \in 1 .. Len(chan[e].got) |->
                                       <<IF use.style = "echo" THEN "client" ELSE Far(e), i>>]
                    \/ e = "client" /\ relay = "failed" /\ chan[e].got = <<<<"error", 1>>>>
  BY DEF Intact
<1> DEFINE x == Far(e)
           o == IF use.style = "echo" THEN "client" ELSE x
           g == chan[e].got
<1>1. x \in Apps /\ Far(x) = e /\ e \in Ends
  BY Roles
<1>2. /\ Types /\ Failed
      /\ x = "client" \/ relay # "failed" => Hop(x)
  BY <1>1, Split
<1>3. g \in Seq(Item) /\ o = Origin(x)
  <2>1. chan[e] \in Channels
    BY <1>1, <1>2 DEF Types, Chans
  <2> QED BY <2>1 DEF Channels, Origin
<1>4. CASE x = "client" \/ relay # "failed"
  <2>1. Items(g, o, 0)
    BY <1>1, <1>2, <1>3, <1>4 DEF Hop, Got
  <2> HIDE DEF g, o
  <2>2. g = [i \in 1 .. Len(g) |-> <<o, i>>]
    BY <1>3, <2>1, ItemsWhole
  <2> QED BY <2>2 DEF g, o
<1>5. CASE x # "client" /\ relay = "failed"
  <2>1. e = "client"
    BY <1>5 DEF Far, Apps
  <2>2. g = <<>> \/ g = <<<<"error", 1>>>>
    BY <1>2, <1>5, <2>1 DEF Failed, Failure
  <2>3. CASE g = <<>>
    <3>1. Items(g, o, 0)
      BY <2>3, SMTT(30) DEF Items
    <3> HIDE DEF g, o
    <3>2. g = [i \in 1 .. Len(g) |-> <<o, i>>]
      BY <1>3, <3>1, ItemsWhole
    <3> QED BY <3>2 DEF g, o
  <2> QED BY <1>5, <2>1, <2>2, <2>3
<1> QED
  BY <1>4, <1>5

\* Through every relay, whatever its kind, the window, the number of items and the
\* steps of the applications, and when sessions are cut too: what an application
\* has read is a prefix of what the other one wrote, in its order, with nothing
\* missing, twice, or from the other direction; or the one error that ProxyHandler
\* reports for a call it could not pass on.
THEOREM IntactHolds == Spec => []Intact
<1>1. Init => StreamInv
  BY StreamInit
<1>2. StreamInv /\ [Next]_vars => StreamInv'
  BY StreamStep
<1>3. StreamInv => Intact
  BY StreamIntact
<1> QED
  BY <1>1, <1>2, <1>3, PTL DEF Spec

-------------------------------------------------------------------------------
(* io.EOF means complete *)

\* Nothing has gone wrong that excuses a loss.
Fine == ~cut /\ relay # "failed" /\ use.short = {}

\* Somebody reads at y; y has given up its claim on the rest of the other stream;
\* the number of items that have arrived at y.
Consuming(y) == IF Echoing(y) THEN Alive(copy["echo"]) ELSE ~chan[y].quit
Excused(y) == use.kind = "handler" /\ y = "backend" /\ chan[y].fin > 0
Passed(y) == Rcvd(y) + Len(chan[y].buf)

\* The end that x announces is the end of what it wrote.
Announcing(x) ==
  /\ chan[x].fin > 0 => chan[x].wrote = chan[x].fin - 1 /\ (chan[x].half \/ chan[x].sentClose)
  /\ chan[x].quit => chan[x].fin > 0 /\ chan[x].sentClose
  /\ chan[x].saw => chan[x].eof
  /\ chan[Other(x)].eof => chan[x].half \/ chan[x].sentClose

\* The end of the stream of x: on its way to the relay,
Ending(x) == chan[x].fin > 0 \/ Excused(Far(x))
Coming(x) ==
  Consuming(Far(x)) /\ Alive(copy[Writer(x)]) =>
    /\ chan[Other(x)].eof \/ HasEnd(chan[Other(x)].in) => Ending(x)
    /\ chan[Other(x)].eof => NoData(chan[Other(x)].in)

\* at the end of the copy, when everything has been passed on,
Arrived(x) ==
  Consuming(Far(x)) /\ ~Alive(copy[Writer(x)]) =>
    \/ chan[x].fin > 0 /\ Passed(Far(x)) = chan[x].wrote
    \/ Excused(Far(x))

\* and at the reader, who learns of it after that.
Told(x) ==
  Consuming(Far(x)) =>
    /\ chan[Far(x)].eof \/ chan[Far(x)].sentClose => copy[Writer(x)].pc = "done"
    /\ chan[Far(x)].saw => chan[Far(x)].buf = <<>>

\* The relay's end of the reader's channel ends no earlier.
Kept(x) ==
  /\ chan[Other(Far(x))].half => copy[Writer(x)].pc = "done"
  /\ chan[Other(Far(x))].closed \/ HasClose(chan[Other(Far(x))].in) => chan[Far(x)].sentClose

\* The end of the stream of x, all the way.
Through(x) == Coming(x) /\ Arrived(x) /\ Told(x) /\ Kept(x)

\* The inductive invariant for the end of the streams.
EOFInv == (\A x \in Apps : Announcing(x)) /\ (Fine => \A x \in Apps : Through(x))

\* From the invariant to its parts, and back.
LEMMA EOFSplit ==
  ASSUME EOFInv, NEW e \in Apps
  PROVE  /\ Announcing(e) /\ Announcing(Far(e))
         /\ Fine => Through(e) /\ Through(Far(e))
BY Roles DEF EOFInv

LEMMA EOFCombine ==
  ASSUME NEW e \in Apps, Announcing(e)', Announcing(Far(e))',
         Fine' => Through(e)' /\ Through(Far(e))'
  PROVE  EOFInv'
<1>1. \A x \in Apps : x = e \/ x = Far(e)
  BY SMTT(30) DEF Apps, Far
<1>2. ASSUME NEW x \in Apps PROVE Announcing(x)' /\ (Fine' => Through(x)')
  <2>1. CASE x = e
    BY <2>1
  <2>2. CASE x = Far(e)
    BY <2>2
  <2> QED BY <1>1, <2>1, <2>2
<1> QED
  BY <1>2 DEF EOFInv

\* What a step that leaves the parts of a predicate alone does to it.
LEMMA KeepConsuming ==
  ASSUME NEW y \in Apps, use' = use, Alive(copy'["echo"]) => Alive(copy["echo"]),
         chan[y].quit => chan'[y].quit
  PROVE  Consuming(y)' => Consuming(y)
BY DEF Consuming, Echoing

LEMMA KeepExcused ==
  ASSUME NEW y \in Apps, use' = use, chan[y].fin > 0 => chan'[y].fin > 0
  PROVE  Excused(y) => Excused(y)'
BY DEF Excused

LEMMA KeepAnnouncing ==
  ASSUME NEW x \in Apps, Announcing(x),
         chan'[x].fin = chan[x].fin, chan'[x].wrote = chan[x].wrote, chan'[x].half = chan[x].half,
         chan[x].sentClose => chan'[x].sentClose, chan'[x].quit = chan[x].quit,
         chan'[x].saw = chan[x].saw, chan[x].eof => chan'[x].eof,
         chan'[Other(x)].eof => chan[Other(x)].eof
  PROVE  Announcing(x)'
BY DEF Announcing

LEMMA KeepComing ==
  ASSUME NEW x \in Apps, Coming(x), Consuming(Far(x))' => Consuming(Far(x)),
         Alive(copy'[Writer(x)]) => Alive(copy[Writer(x)]),
         chan'[Other(x)].eof = chan[Other(x)].eof, chan'[Other(x)].in = chan[Other(x)].in,
         chan[x].fin > 0 => chan'[x].fin > 0, Excused(Far(x)) => Excused(Far(x))'
  PROVE  Coming(x)'
BY DEF Coming, Ending

LEMMA KeepArrived ==
  ASSUME NEW x \in Apps, Arrived(x), Consuming(Far(x))' => Consuming(Far(x)),
         Alive(copy[Writer(x)]) => Alive(copy'[Writer(x)]),
         chan[x].fin > 0 => chan'[x].fin > 0 /\ chan'[x].wrote = chan[x].wrote,
         Passed(Far(x))' = Passed(Far(x)), Excused(Far(x)) => Excused(Far(x))'
  PROVE  Arrived(x)'
BY DEF Arrived

LEMMA KeepTold ==
  ASSUME NEW x \in Apps, Told(x), Consuming(Far(x))' => Consuming(Far(x)),
         copy[Writer(x)].pc = "done" => copy'[Writer(x)].pc = "done",
         Consuming(Far(x))' /\ (chan'[Far(x)].eof \/ chan'[Far(x)].sentClose) =>
           chan[Far(x)].eof \/ chan[Far(x)].sentClose,
         chan'[Far(x)].saw => chan[Far(x)].saw /\ chan'[Far(x)].buf = chan[Far(x)].buf
  PROVE  Told(x)'
BY DEF Told

LEMMA KeepKept ==
  ASSUME NEW x \in Apps, Kept(x), copy[Writer(x)].pc = "done" => copy'[Writer(x)].pc = "done",
         chan'[Other(Far(x))].half => chan[Other(Far(x))].half,
         chan'[Other(Far(x))].closed \/ HasClose(chan'[Other(Far(x))].in) =>
           chan[Other(Far(x))].closed \/ HasClose(chan[Other(Far(x))].in) \/ chan'[Far(x)].sentClose,
         chan[Far(x)].sentClose => chan'[Far(x)].sentClose
  PROVE  Kept(x)'
BY DEF Kept

\* One more frame.
LEMMA CloseAppend ==
  ASSUME NEW in \in Seq(Frames), NEW f \in Frames
  PROVE  HasClose(Append(in, f)) => HasClose(in) \/ f.type = "Close"
BY SMTT(30) DEF HasClose

\* An application, or its echo, writes an item.
LEMMA WriteTold ==
  ASSUME StreamInv, EOFInv, use' = use, relay' = relay, cut' = cut, NEW e \in Apps,
         ~chan[e].half, ~chan[e].sentClose, NEW f \in Frames, f.type = "Data",
         Only(chan, chan', e), IsWrote(chan[e], chan'[e], chan[e].wrote + 1),
         IsIn(chan[Other(e)], chan'[Other(e)], Append(chan[Other(e)].in, f)),
         copy'[Writer(e)] = copy[Writer(e)], copy'[Writer(Far(e))] = copy[Writer(Far(e))],
         Alive(copy'["echo"]) => Alive(copy["echo"]),
         Rcvd(e)' = Rcvd(e), Rcvd(Far(e))' = Rcvd(Far(e))
  PROVE  EOFInv'
<1> DEFINE r == Other(e)
           y == Far(e)
<1>   /\ y \in Apps /\ Far(y) = e /\ y # e /\ e \in Ends /\ y \in Ends
      /\ r \in Ends /\ r # e /\ r # y /\ Other(y) \in Ends /\ Other(y) # e /\ Other(y) # r
  BY Roles
<1>1. Types /\ Stopped(e)
  BY Split
<1>   Announcing(e) /\ Announcing(y) /\ (Fine => Through(e) /\ Through(y))
  BY EOFSplit
<1>   chan'[y] = chan[y] /\ chan'[Other(y)] = chan[Other(y)]
  BY DEF Only
<1>   /\ chan'[e].fin = chan[e].fin /\ chan'[e].buf = chan[e].buf /\ chan'[e].eof = chan[e].eof
      /\ chan'[e].half = chan[e].half /\ chan'[e].sentClose = chan[e].sentClose
      /\ chan'[e].quit = chan[e].quit /\ chan'[e].saw = chan[e].saw
      /\ chan'[r].in = Append(chan[r].in, f) /\ chan'[r].eof = chan[r].eof
      /\ chan'[r].half = chan[r].half /\ chan'[r].closed = chan[r].closed
  BY DEF IsWrote, IsIn, Lists, Flags, Reads
<1>   ~(chan[e].fin > 0) /\ ~chan[r].eof /\ ~HasEnd(chan[r].in) /\ ~chan[e].quit
  BY <1>1 DEF Announcing, Stopped
<1>2. ~HasEnd(chan'[r].in) /\ (HasClose(chan'[r].in) => HasClose(chan[r].in))
  BY <1>1, EndAppend, CloseAppend, StreamTypes
<1>3. Announcing(e)'
  BY DEF Announcing
<1>4. Announcing(y)'
  BY KeepAnnouncing
<1>    /\ Consuming(e)' => Consuming(e)
       /\ Consuming(y)' => Consuming(y)
       /\ Excused(e) => Excused(e)'
       /\ Excused(y) => Excused(y)'
       /\ Passed(e)' = Passed(e) /\ Passed(y)' = Passed(y)
  <2>1. Passed(e)' = Passed(e) /\ Passed(y)' = Passed(y)
    BY DEF Passed
  <2> QED BY <2>1, KeepConsuming, KeepExcused
<1>5.  ASSUME Fine' PROVE Through(e)' /\ Through(y)'
  <2>   Through(e) /\ Through(y)
    BY <1>5 DEF Fine
  <2>1. Coming(e)'
    BY <1>2 DEF Coming
  <2>2. Arrived(e)'
    BY KeepArrived DEF Through
  <2>3. Told(e)' /\ Kept(e)'
    BY KeepTold, KeepKept DEF Through
  <2>4. Coming(y)' /\ Arrived(y)'
    BY KeepComing, KeepArrived DEF Through
  <2>5. Told(y)'
    BY KeepTold DEF Through
  <2>6. Kept(y)'
    BY <1>2, KeepKept DEF Through
  <2> QED BY <2>1, <2>2, <2>3, <2>4, <2>5, <2>6 DEF Through
<1> QED
  BY <1>3, <1>4, <1>5, EOFCombine

\* Frame f of e is sent, unless e has sent Close.
Tells(e, f) ==
  /\ chan[e].sentClose => chan'[Other(e)] = chan[Other(e)]
  /\ ~chan[e].sentClose => IsIn(chan[Other(e)], chan'[Other(e)], Append(chan[Other(e)].in, f))

\* With f it half-closes the channel if h, closes it if s, and leaves it if q.
MayEnd(e, f, h, s, q) ==
  /\ f.type # "Data" /\ (f.type = "Close" => s)
  /\ (chan[e].half => h) /\ (chan[e].sentClose => s) /\ (chan[e].quit => q) /\ (h \/ s)
  /\ q => s /\ (chan[e].quit \/ ~chan[e].sentClose)
  /\ s => chan[e].sentClose \/ ~Consuming(e)'

\* An application, or its echo, announces the end.
LEMMA EndTold ==
  ASSUME StreamInv, EOFInv, use' = use, relay' = relay, cut' = cut, NEW e \in Apps,
         NEW f \in Frames, NEW h, NEW s, NEW q, Only(chan, chan', e),
         IsEnded(chan[e], chan'[e], Fin(chan[e]), h, s, q), MayEnd(e, f, h, s, q), Tells(e, f),
         copy'[Writer(e)] = copy[Writer(e)], copy'[Writer(Far(e))] = copy[Writer(Far(e))],
         Alive(copy'["echo"]) => Alive(copy["echo"]),
         Rcvd(e)' = Rcvd(e), Rcvd(Far(e))' = Rcvd(Far(e))
  PROVE  EOFInv'
<1> USE DEF MayEnd
<1> DEFINE r == Other(e)
           y == Far(e)
<1>   /\ y \in Apps /\ Far(y) = e /\ y # e /\ e \in Ends /\ y \in Ends
      /\ r \in Ends /\ r # e /\ r # y /\ Other(y) \in Ends /\ Other(y) # e /\ Other(y) # r
  BY Roles
<1>1. Types /\ Stopped(e)
  BY Split
<1>   Announcing(e) /\ Announcing(y) /\ (Fine => Through(e) /\ Through(y))
  BY EOFSplit
<1>   chan'[y] = chan[y] /\ chan'[Other(y)] = chan[Other(y)]
  BY DEF Only
<1>   /\ chan'[e].fin = Fin(chan[e]) /\ chan'[e].buf = chan[e].buf /\ chan'[e].eof = chan[e].eof
      /\ chan'[e].half = h /\ chan'[e].sentClose = s /\ chan'[e].wrote = chan[e].wrote
      /\ chan'[e].quit = q /\ chan'[e].saw = chan[e].saw
  BY DEF IsEnded, Lists, Reads
<1>   /\ chan'[r].eof = chan[r].eof /\ chan'[r].half = chan[r].half /\ chan'[r].closed = chan[r].closed
      /\ \/ chan'[r].in = chan[r].in
         \/ ~chan[e].sentClose /\ chan'[r].in = Append(chan[r].in, f)
  BY DEF Tells, IsIn, Flags
<1>   /\ chan[e].fin > 0 => chan'[e].fin = chan[e].fin
      /\ ~chan[e].sentClose => chan'[e].fin > 0
      /\ chan'[e].fin > 0 => chan'[e].fin = chan[e].fin \/ chan'[e].fin - 1 = chan[e].wrote
      /\ chan[e].fin > 0 => chan'[e].fin > 0
  <2>1. chan[e].wrote \in Nat /\ chan[e].fin \in Nat
    <3>1. chan[e] \in Channels
      BY <1>1 DEF Types, Chans
    <3> QED BY <3>1 DEF Channels
  <2> QED BY <2>1, SMTT(30) DEF Fin
<1>2. Announcing(e)'
  <2>1. chan'[e].fin > 0 => chan'[e].wrote = chan'[e].fin - 1 /\ (chan'[e].half \/ chan'[e].sentClose)
    BY DEF Announcing
  <2>2. chan'[e].quit => chan'[e].fin > 0 /\ chan'[e].sentClose
    BY DEF Announcing
  <2> QED BY <2>1, <2>2 DEF Announcing
<1>3. Announcing(y)'
  BY KeepAnnouncing
<1>    /\ Consuming(e)' => Consuming(e)
       /\ Consuming(y)' => Consuming(y)
       /\ Excused(e) => Excused(e)'
       /\ Excused(y) => Excused(y)'
       /\ Passed(e)' = Passed(e) /\ Passed(y)' = Passed(y)
  <2>1. Passed(e)' = Passed(e) /\ Passed(y)' = Passed(y)
    BY DEF Passed
  <2> QED BY <2>1, KeepConsuming, KeepExcused
<1>4.  ASSUME Fine' PROVE Through(e)' /\ Through(y)'
  <2>   Through(e) /\ Through(y)
    BY <1>4 DEF Fine
  <2>1. Coming(e)'
    <3>1. CASE chan'[r].in = chan[r].in
      BY <3>1, KeepComing DEF Through
    <3>2. CASE ~chan[e].sentClose /\ chan'[r].in = Append(chan[r].in, f)
      <4>1. NoData(chan[r].in) => NoData(chan'[r].in)
        <5>1. chan[r].in \in Seq(Frames)
          BY <1>1, StreamTypes
        <5>2. f \in Frames /\ f.type # "Data"
          BY DEF MayEnd
        <5> QED BY <3>2, <5>1, <5>2, NoDataAppend
      <4>2. Ending(e)'
        BY <3>2 DEF Ending
      <4> QED BY <4>1, <4>2 DEF Through, Coming
    <3> QED BY <3>1, <3>2
  <2>2. Arrived(e)'
    BY KeepArrived DEF Through
  <2>3. Told(e)' /\ Kept(e)'
    BY KeepTold, KeepKept DEF Through
  <2>4. Coming(y)' /\ Arrived(y)'
    BY KeepComing, KeepArrived DEF Through
  <2>5. Told(y)'
    BY KeepTold DEF Through
  <2>6. Kept(y)'
    <3>1. HasClose(chan'[r].in) => HasClose(chan[r].in) \/ chan'[e].sentClose
      <4>1. chan[r].in \in Seq(Frames)
        BY <1>1, StreamTypes
      <4> QED BY <4>1, CloseAppend
    <3> QED BY <3>1, KeepKept DEF Through
  <2> QED BY <2>1, <2>2, <2>3, <2>4, <2>5, <2>6 DEF Through
<1> QED
  BY <1>2, <1>3, <1>4, EOFCombine

\* What the steps of the applications do to the streams and their ends.
LEMMA AppWriteDoes ==
  ASSUME Types, NEW e \in Apps, AppWrite(e)
  PROVE  /\ Only(chan, chan', e)
         /\ IsWrote(chan[e], chan'[e], chan[e].wrote + 1)
         /\ \E f \in Frames : /\ f.type = "Data"
                             /\ IsIn(chan[Other(e)], chan'[Other(e)], Append(chan[Other(e)].in, f))
         /\ relay' = relay /\ copy' = copy /\ cut' = cut /\ Active(e)
         /\ ~chan[e].half /\ ~chan[e].closed
<1> DEFINE i == <<e, chan[e].wrote + 1>>
           f == Frame("Data", i)
<1>1. i \in Item /\ f \in Frames /\ f.type = "Data"
  <2>1. chan[e].wrote + 1 \in Nat
    BY StreamTypes, Sums
  <2> QED BY <2>1 DEF Item, Apps, Frame, Frames
<1>2. /\ chan' = Sent(Counted(chan, e), e, f) /\ ~chan[e].half /\ ~chan[e].closed
      /\ relay' = relay /\ copy' = copy /\ cut' = cut /\ Active(e)
  BY DEF AppWrite, WriteOK, Written, Counted, WriteFails
<1>3. chan \in Chans
  BY DEF Types
<1> HIDE DEF i
<1>4. /\ Only(chan, chan', e)
      /\ IsWrote(chan[e], chan'[e], chan[e].wrote + 1)
      /\ IsIn(chan[Other(e)], chan'[Other(e)], Append(chan[Other(e)].in, f))
  BY <1>1, <1>2, <1>3, AppWrites
<1> HIDE DEF f
<1> QED
  BY <1>1, <1>2, <1>4

\* What the steps of the applications have in common.
LEMMA AppStays ==
  ASSUME NEW e \in Apps, use' = use, copy' = copy, ~Echoing(e),
         chan'[e].got = chan[e].got, chan'[Far(e)] = chan[Far(e)]
  PROVE  /\ Rcvd(e)' = Rcvd(e) /\ Rcvd(Far(e))' = Rcvd(Far(e))
         /\ copy'[Writer(e)] = copy[Writer(e)] /\ copy'[Writer(Far(e))] = copy[Writer(Far(e))]
         /\ Alive(copy'["echo"]) => Alive(copy["echo"])
BY DEF Rcvd, Echoing

LEMMA AppWriteTold ==
  ASSUME StreamInv, EOFInv, use' = use, NEW e \in Apps, AppWrite(e)
  PROVE  EOFInv'
<1>1. Types /\ Stopped(e)
  BY Split
<1>   /\ Only(chan, chan', e)
      /\ IsWrote(chan[e], chan'[e], chan[e].wrote + 1)
      /\ \E f \in Frames : /\ f.type = "Data"
                          /\ IsIn(chan[Other(e)], chan'[Other(e)], Append(chan[Other(e)].in, f))
      /\ relay' = relay /\ copy' = copy /\ cut' = cut /\ Active(e)
      /\ ~chan[e].half /\ ~chan[e].closed
  BY <1>1, AppWriteDoes
<1>2. PICK f \in Frames : /\ f.type = "Data"
                          /\ IsIn(chan[Other(e)], chan'[Other(e)], Append(chan[Other(e)].in, f))
  OBVIOUS
<1>3. ~Echoing(e) /\ ~chan[e].quit
  BY <1>1, ActiveFree
<1>4. ~chan[e].sentClose
  BY <1>1, <1>3 DEF Stopped
<1>5. chan'[Far(e)] = chan[Far(e)] /\ chan'[e].got = chan[e].got
  <2>1. Far(e) \in Ends /\ Far(e) # e /\ Far(e) # Other(e)
    BY Roles
  <2> QED BY <2>1 DEF Only, IsWrote, Reads
<1>6. /\ Rcvd(e)' = Rcvd(e) /\ Rcvd(Far(e))' = Rcvd(Far(e))
      /\ copy'[Writer(e)] = copy[Writer(e)] /\ copy'[Writer(Far(e))] = copy[Writer(Far(e))]
      /\ Alive(copy'["echo"]) => Alive(copy["echo"])
  BY <1>3, <1>5, AppStays
<1> QED
  BY <1>2, <1>4, <1>6, WriteTold

LEMMA AppCloseWriteTold ==
  ASSUME StreamInv, EOFInv, use' = use, NEW e \in Apps, AppCloseWrite(e)
  PROVE  EOFInv'
<1>1. Types /\ Active(e)
  BY DEF StreamInv, AppCloseWrite
<1> DEFINE h == TRUE
           s == chan[e].sentClose
           q == chan[e].quit
<1>2. /\ Only(chan, chan', e)
      /\ IsEnded(chan[e], chan'[e], Fin(chan[e]), h, s, q)
      /\ Tells(e, Frame("EOF", <<>>))
      /\ relay' = relay /\ copy' = copy /\ cut' = cut
  BY <1>1, AppCloseWriteDoes DEF Tells
<1>3. /\ Frame("EOF", <<>>) \in Frames /\ Frame("EOF", <<>>).type # "Data"
      /\ Frame("EOF", <<>>).type # "Close"
  BY DEF Frame, Frames, Item
<1>4. ~Echoing(e) /\ ~q
  BY <1>1, ActiveFree
<1>5. chan'[Far(e)] = chan[Far(e)] /\ chan'[e].got = chan[e].got
  <2>1. Far(e) \in Ends /\ Far(e) # e /\ Far(e) # Other(e)
    BY Roles
  <2> QED BY <1>2, <2>1 DEF Only, IsEnded, Reads
<1>6. /\ Rcvd(e)' = Rcvd(e) /\ Rcvd(Far(e))' = Rcvd(Far(e))
      /\ copy'[Writer(e)] = copy[Writer(e)] /\ copy'[Writer(Far(e))] = copy[Writer(Far(e))]
      /\ Alive(copy'["echo"]) => Alive(copy["echo"])
  BY <1>2, <1>4, <1>5, AppStays
<1>7. MayEnd(e, Frame("EOF", <<>>), h, s, q)
  BY <1>3, <1>4 DEF MayEnd
<1> HIDE DEF h, s, q
<1> QED
  BY <1>2, <1>3, <1>6, <1>7, EndTold

LEMMA AppCloseTold ==
  ASSUME StreamInv, EOFInv, use' = use, NEW e \in Apps, AppClose(e)
  PROVE  EOFInv'
<1>1. Types /\ Active(e)
  BY DEF StreamInv, AppClose
<1> DEFINE h == chan[e].half
           s == TRUE
           q == TRUE
<1>   /\ Only(chan, chan', e)
      /\ IsEnded(chan[e], chan'[e], Fin(chan[e]), h, s, q)
      /\ Tells(e, CloseFrame)
      /\ relay' = relay /\ copy' = copy /\ cut' = cut
      /\ ~chan[e].sentClose
  BY <1>1, AppCloseDoes DEF Tells
<1>2. CloseFrame \in Frames /\ CloseFrame.type # "Data"
  BY DEF CloseFrame, Frame, Frames, Item
<1>3. ~Echoing(e) /\ ~chan[e].quit
  BY <1>1, ActiveFree
<1>4. chan'[Far(e)] = chan[Far(e)] /\ chan'[e].got = chan[e].got /\ chan'[e].quit
  <2>1. Far(e) \in Ends /\ Far(e) # e /\ Far(e) # Other(e)
    BY Roles
  <2> QED BY <2>1 DEF Only, IsEnded, Reads
<1>5. /\ Rcvd(e)' = Rcvd(e) /\ Rcvd(Far(e))' = Rcvd(Far(e))
      /\ copy'[Writer(e)] = copy[Writer(e)] /\ copy'[Writer(Far(e))] = copy[Writer(Far(e))]
      /\ Alive(copy'["echo"]) => Alive(copy["echo"])
  BY <1>3, <1>4, AppStays
<1>6. ~Consuming(e)'
  BY <1>3, <1>4 DEF Consuming, Echoing
<1>7. MayEnd(e, CloseFrame, h, s, q)
  BY <1>2, <1>6 DEF MayEnd
<1> HIDE DEF h, s, q
<1> QED
  BY <1>2, <1>5, <1>6, <1>7, EndTold

LEMMA AppReadTold ==
  ASSUME StreamInv, EOFInv, use' = use, NEW e \in Apps, AppRead(e)
  PROVE  EOFInv'
<1> DEFINE r == Other(e)
           y == Far(e)
<1>   /\ y \in Apps /\ Far(y) = e /\ y # e /\ e \in Ends /\ y \in Ends
      /\ r \in Ends /\ r # e /\ r # y /\ Other(y) \in Ends /\ Other(y) # e /\ Other(y) # r
  BY Roles
<1>   Types /\ Announcing(e) /\ Announcing(y) /\ (Fine => Through(e) /\ Through(y))
  BY EOFSplit DEF StreamInv
<1>   relay' = relay /\ copy' = copy /\ cut' = cut /\ Active(e) /\ chan \in Chans
  BY DEF AppRead, Types
<1>1. ~Echoing(e) /\ ~Echoing(e)'
  BY ActiveFree DEF Echoing
<1>   /\ Only(chan, chan', e)
      /\ chan'[e].fin = chan[e].fin /\ chan'[e].wrote = chan[e].wrote /\ chan'[e].eof = chan[e].eof
      /\ chan'[e].half = chan[e].half /\ chan'[e].sentClose = chan[e].sentClose
      /\ chan'[e].quit = chan[e].quit
      /\ chan'[r].in = chan[r].in /\ chan'[r].eof = chan[r].eof
      /\ chan'[r].half = chan[r].half /\ chan'[r].closed = chan[r].closed
      /\ \/ /\ chan[e].buf # <<>> /\ chan'[e].buf = Tail(chan[e].buf)
            /\ chan'[e].got = Append(chan[e].got, Head(chan[e].buf)) /\ chan'[e].saw = chan[e].saw
         \/ /\ AtEOF(e) /\ chan'[e].buf = chan[e].buf /\ chan'[e].got = chan[e].got
  <2>1. CASE /\ chan[e].buf # <<>>
             /\ chan' = [Taken(e) EXCEPT ![e].got = Append(@, Head(chan[e].buf))]
    <3>1. /\ Only(chan, chan', e)
          /\ IsBuf(chan[e], chan'[e], Tail(chan[e].buf), Append(chan[e].got, Head(chan[e].buf)))
          /\ IsWrote(chan[r], chan'[r], chan[r].wrote)
      BY <2>1, AppReads
    <3> QED BY <2>1, <3>1 DEF IsBuf, IsWrote, Lists, Flags, Writes
  <2>2. CASE AtEOF(e) /\ chan' = [chan EXCEPT ![e].saw = TRUE]
    <3>1. Only(chan, chan', e) /\ chan'[r] = chan[r] /\ IsSaw(chan[e], chan'[e])
      BY <2>2, AppSees DEF Sees
    <3> QED BY <2>2, <3>1 DEF IsSaw, Lists, Flags, Writes
  <2> QED BY <2>1, <2>2 DEF AppRead
<1>   chan'[y] = chan[y] /\ chan'[Other(y)] = chan[Other(y)]
  BY DEF Only
<1>2. Announcing(e)'
  <2>1. chan'[e].saw => chan'[e].eof
    BY DEF Announcing, AtEOF
  <2> QED BY <2>1 DEF Announcing
<1>3. Announcing(y)'
  BY KeepAnnouncing
<1>4. Passed(e)' = Passed(e)
  <2>1. chan[e].buf \in Seq(Item) /\ chan[e].got \in Seq(Item)
    <3>1. chan[e] \in Channels
      BY DEF Chans
    <3> QED BY <3>1 DEF Channels
  <2>2. Passed(e) = Len(chan[e].got) + Len(chan[e].buf)
    BY <1>1 DEF Passed, Rcvd
  <2>3. Passed(e)' = Len(chan'[e].got) + Len(chan'[e].buf)
    BY <1>1 DEF Passed, Rcvd
  <2> DEFINE b == chan[e].buf
             g == chan[e].got
  <2>4. CASE chan[e].buf # <<>> /\ chan'[e].buf = Tail(b) /\ chan'[e].got = Append(g, Head(b))
    <3>1. b \in Seq(Item) /\ g \in Seq(Item) /\ b # <<>>
      BY <2>1, <2>4
    <3> HIDE DEF b, g
    <3>2. Len(Append(g, Head(b))) + Len(Tail(b)) = Len(g) + Len(b)
      BY <3>1, Moved
    <3> QED BY <2>2, <2>3, <2>4, <3>2 DEF b, g
  <2> QED BY <2>2, <2>3, <2>4
<1>    /\ Consuming(e)' => Consuming(e)
       /\ Consuming(y)' => Consuming(y)
       /\ Excused(e) => Excused(e)'
       /\ Excused(y) => Excused(y)'
       /\ Passed(y)' = Passed(y)
  <2>1. Passed(y)' = Passed(y)
    BY DEF Passed, Rcvd, Echoing
  <2> QED BY <2>1, KeepConsuming, KeepExcused
<1>5.  ASSUME Fine' PROVE Through(e)' /\ Through(y)'
  <2>   Through(e) /\ Through(y)
    BY <1>5 DEF Fine
  <2>1. Coming(e)' /\ Arrived(e)'
    BY KeepComing, KeepArrived DEF Through
  <2>2. Told(e)' /\ Kept(e)'
    BY KeepTold, KeepKept DEF Through
  <2>3. Coming(y)' /\ Arrived(y)'
    BY <1>4, KeepComing, KeepArrived DEF Through
  <2>4. Told(y)'
    <3>1. Consuming(e) /\ chan'[e].saw => chan'[e].buf = <<>>
      BY DEF Through, Told, AtEOF
    <3> QED BY <3>1 DEF Through, Told
  <2>5. Kept(y)'
    BY KeepKept DEF Through
  <2> QED BY <2>1, <2>2, <2>3, <2>4, <2>5 DEF Through
<1> QED
  BY <1>2, <1>3, <1>5, EOFCombine

\* No item is on its way after the announcement of the end.
LEMMA CarryLast ==
  ASSUME NEW w \in Nat, NEW in \in Seq(Frames), NEW rb \in Seq(Item), NEW k \in Goroutine,
         NEW yb \in Seq(Item), NEW o, NEW n \in Nat, NEW lost \in BOOLEAN,
         Carried(w, in, rb, k, yb, o, n, lost), Alive(k),
         in # <<>>, Head(in).type # "Data"
  PROVE  NoData(in)
BY CarryDrop, SMTT(30) DEF NoData

\* The relay handles a frame.
LEMMA HandleTold ==
  ASSUME StreamInv, EOFInv, use' = use, NEW e \in Ends \ Apps, Handle(e)
  PROVE  EOFInv'
<1> DEFINE x == Other(e)
           y == Far(x)
           f == Head(chan[e].in)
           in == chan[e].in
<1>   /\ x \in Apps /\ Other(x) = e /\ x # e /\ y # e /\ Other(y) # e /\ Other(y) # x
  BY RelayEnd
<1>   y \in Apps /\ Far(y) = x /\ y # x /\ x \in Ends /\ y \in Ends /\ Other(y) \in Ends
  BY Roles
<1>   /\ Types /\ Stopped(x) /\ Announcing(x) /\ Announcing(y) /\ (Fine => Through(x) /\ Through(y))
      /\ relay # "failed" => Hop(x)
  BY Split, EOFSplit
<1>   /\ Only(chan, chan', e) /\ f \in Frames /\ in # <<>>
      /\ f.type = "Data" => /\ chan'[x] = chan[x]
                            /\ IsMoved(chan[e], chan'[e], Tail(in), Append(chan[e].buf, f.item))
      /\ f.type = "EOF" => /\ chan'[x] = chan[x]
                           /\ IsEOF(chan[e], chan'[e], Tail(in))
      /\ f.type = "Close" => /\ IsGone(chan[e], chan'[e], Tail(in))
                             /\ chan[e].sentClose => chan'[x] = chan[x]
                             /\ ~chan[e].sentClose => IsGone(chan[x], chan'[x], chan[x].in)
      /\ relay' = relay /\ copy' = copy /\ cut' = cut
  BY HandleDoes
<1>   chan'[y] = chan[y] /\ chan'[Other(y)] = chan[Other(y)]
  BY DEF Only
<1>1. f.type \in {"Data", "EOF", "Close"}
  BY DEF Frames
<1>2. in \in Seq(Frames)
  BY StreamTypes
<1>   /\ chan'[x].fin = chan[x].fin /\ chan'[x].wrote = chan[x].wrote /\ chan'[x].half = chan[x].half
      /\ chan[x].sentClose => chan'[x].sentClose
      /\ chan[x].eof => chan'[x].eof
      /\ chan'[x].quit = chan[x].quit /\ chan'[x].got = chan[x].got
      /\ chan'[x].saw = chan[x].saw /\ chan'[x].buf = chan[x].buf
      /\ f.type # "Close" => chan'[x].eof = chan[x].eof /\ chan'[x].sentClose = chan[x].sentClose
  <2>1. \/ chan'[x] = chan[x]
        \/ f.type = "Close" /\ IsGone(chan[x], chan'[x], chan[x].in)
    BY <1>1
  <2> QED BY <2>1 DEF IsGone, Reads, Writes
<1>   /\ chan'[e].in = Tail(in) /\ chan'[e].half = chan[e].half
      /\ f.type = "Data" => chan'[e].eof = chan[e].eof
      /\ f.type # "Close" => chan'[e].closed = chan[e].closed
  <2>1. CASE f.type = "Data"
    BY <2>1 DEF IsMoved, Flags
  <2>2. CASE f.type = "EOF"
    BY <2>2 DEF IsEOF
  <2>3. CASE f.type = "Close"
    BY <2>3 DEF IsGone
  <2> QED BY <1>1, <2>1, <2>2, <2>3
<1> HIDE DEF f, in
<1>    /\ f.type # "Data" => HasEnd(in)
       /\ f.type = "Close" => HasClose(in)
       /\ NoData(in) => f.type # "Data" /\ NoData(Tail(in))
       /\ HasEnd(Tail(in)) => HasEnd(in)
       /\ HasClose(Tail(in)) => HasClose(in)
  <2>1. in # <<>> /\ f = Head(in)
    BY DEF f, in
  <2>2. 1 \in 1 .. Len(in) /\ f = in[1]
    BY <1>2, <2>1, Heads
  <2>3. \A i \in 1 .. Len(Tail(in)) : i + 1 \in 1 .. Len(in) /\ Tail(in)[i] = in[i + 1]
    BY <1>2, <2>1, Heads
  <2> QED BY <2>2, <2>3 DEF HasEnd, HasClose, NoData
<1>3.  Announcing(x)'
  <2>1. chan'[e].eof => chan[x].half \/ chan[x].sentClose
    BY DEF Announcing, Stopped, in
  <2>2. chan'[Other(x)].eof => chan'[x].half \/ chan'[x].sentClose
    BY <2>1
  <2> QED BY <2>2 DEF Announcing
<1>4.  Announcing(y)'
  BY KeepAnnouncing
<1>    /\ Consuming(x)' => Consuming(x)
       /\ Consuming(y)' => Consuming(y)
       /\ Excused(x) => Excused(x)'
       /\ Excused(y) => Excused(y)'
       /\ Passed(x)' = Passed(x) /\ Passed(y)' = Passed(y)
  <2>1. Passed(x)' = Passed(x) /\ Passed(y)' = Passed(y)
    BY DEF Passed, Rcvd, Echoing
  <2> QED BY <2>1, KeepConsuming, KeepExcused
<1>5.  ASSUME Fine' PROVE Through(x)' /\ Through(y)'
  <2>   Through(x) /\ Through(y) /\ relay # "failed" /\ Hop(x)
    BY <1>5 DEF Fine
  <2>1. Coming(x)'
    <3> SUFFICES ASSUME Consuming(y)', Alive(copy[Writer(x)])
                 PROVE  /\ chan'[e].eof \/ HasEnd(chan'[e].in) => Ending(x)'
                        /\ chan'[e].eof => NoData(chan'[e].in)
      BY DEF Coming
    <3>1. Consuming(y) /\ (Ending(x) => Ending(x)')
      BY DEF Ending
    <3>2. /\ chan[e].eof \/ HasEnd(in) => Ending(x)
          /\ chan[e].eof => NoData(in)
      BY <3>1 DEF Through, Coming, in
    <3>3. chan'[e].eof \/ HasEnd(chan'[e].in) => Ending(x)'
      BY <3>1, <3>2
    <3>4. f.type # "Data" => NoData(in)
      <4> SUFFICES ASSUME f.type # "Data" PROVE NoData(in)
        OBVIOUS
      <4>1. Stream(x)
        BY <3>1 DEF Hop, Taking, Consuming
      <4>2. Carried(chan[x].wrote, in, chan[e].buf, copy[Writer(x)],
                    chan[y].buf, Origin(x), Rcvd(y), cut /\ chan[x].closed)
        BY <4>1 DEF Stream, in
      <4>3. /\ chan[x].wrote \in Nat /\ chan[e].buf \in Seq(Item)
            /\ copy[Writer(x)] \in Goroutine /\ chan[y].buf \in Seq(Item) /\ Rcvd(y) \in Nat
            /\ (cut /\ chan[x].closed) \in BOOLEAN
        BY StreamTypes
      <4>4. in # <<>> /\ Head(in).type # "Data"
        BY DEF f, in
      <4> QED BY <1>2, <4>2, <4>3, <4>4, CarryLast
    <3>5. chan'[e].eof => NoData(chan'[e].in)
      BY <3>2, <3>4
    <3> QED BY <3>3, <3>5
  <2>2. Arrived(x)'
    BY KeepArrived DEF Through
  <2>3. Told(x)' /\ Kept(x)'
    BY KeepTold, KeepKept DEF Through
  <2>4. Coming(y)' /\ Arrived(y)'
    BY KeepComing, KeepArrived DEF Through
  <2>5. f.type = "Close" => chan[x].sentClose
    BY DEF Through, Kept, in
  <2>6. Told(y)'
    BY <2>5, KeepTold DEF Through
  <2>7. Kept(y)'
    <3>1. chan'[e].closed \/ HasClose(chan'[e].in) => chan[e].closed \/ HasClose(chan[e].in)
      BY DEF in
    <3> QED BY <3>1, KeepKept DEF Through
  <2> QED BY <2>1, <2>2, <2>3, <2>4, <2>6, <2>7 DEF Through
<1> QED
  BY <1>3, <1>4, <1>5, EOFCombine

\* A copy takes no step, or ends.
Finishes ==
  \A d \in Copies : copy'[d] = copy[d] \/ (~Alive(copy[d]) /\ copy'[d].pc = "done")

\* Such a step keeps apart the copies that go on and those that have ended.
LEMMA FinishFacts ==
  ASSUME Finishes, NEW d \in Copies
  PROVE  /\ Alive(copy[d]) <=> Alive(copy'[d])
         /\ copy[d].pc = "done" => copy'[d].pc = "done"
BY DEF Finishes, Alive

\* The relay closes a channel, when the copy to it has ended.
LEMMA RelayCloseTold ==
  ASSUME StreamInv, EOFInv, use' = use, NEW e \in Ends \ Apps, Close(e), cut' = cut,
         relay # "failed", copy'["echo"] = copy["echo"], Finishes,
         copy'[Writer(Far(Other(e)))].pc = "done",
         Fine /\ Alive(copy[Writer(Other(e))]) /\ Consuming(Far(Other(e))) => Ending(Other(e))
  PROVE  EOFInv'
<1> DEFINE x == Other(e)
           y == Far(x)
<1>   /\ x \in Apps /\ Other(x) = e /\ x # e /\ y # e /\ Other(y) # e /\ Other(y) # x
  BY RelayEnd
<1>   /\ y \in Apps /\ Far(y) = x /\ y # x /\ x \in Ends /\ y \in Ends /\ Other(y) \in Ends
      /\ Writer(x) \in Copies /\ Writer(y) \in Copies
  BY Roles
<1>   Types /\ Announcing(x) /\ Announcing(y) /\ (Fine => Through(x) /\ Through(y))
  BY Split, EOFSplit
<1>   /\ chan[e].sentClose => chan' = chan
      /\ ~chan[e].sentClose =>
           /\ Only(chan, chan', e)
           /\ IsClosing(chan[e], chan'[e], IF chan[x].sentClose THEN chan[e].in
                                           ELSE Append(chan[e].in, CloseFrame))
           /\ IsGone(chan[x], chan'[x], chan[x].in)
  BY RelayCloseDoes
<1>   chan'[y] = chan[y] /\ chan'[Other(y)] = chan[Other(y)]
  BY DEF Only
<1>   /\ chan'[x].fin = chan[x].fin /\ chan'[x].wrote = chan[x].wrote /\ chan'[x].half = chan[x].half
      /\ chan[x].sentClose => chan'[x].sentClose
      /\ chan[x].eof => chan'[x].eof
      /\ chan'[x].quit = chan[x].quit /\ chan'[x].got = chan[x].got
      /\ chan'[x].saw = chan[x].saw /\ chan'[x].buf = chan[x].buf
  BY DEF IsGone, Reads, Writes
<1>   /\ chan'[e].eof = chan[e].eof /\ chan'[e].half = chan[e].half /\ chan'[e].closed = chan[e].closed
      /\ \/ chan'[e].in = chan[e].in
         \/ chan'[x].sentClose /\ chan'[e].in = Append(chan[e].in, CloseFrame)
  <2>1. CASE chan[e].sentClose
    BY <2>1
  <2>2. CASE ~chan[e].sentClose
    <3>1. chan'[x].sentClose
      BY <2>2 DEF IsGone
    <3> QED BY <2>2, <3>1 DEF IsClosing
  <2> QED BY <2>1, <2>2
<1>1. Announcing(x)' /\ Announcing(y)'
  BY KeepAnnouncing
<1>   /\ Consuming(x)' => Consuming(x)
      /\ Consuming(y)' => Consuming(y)
      /\ Excused(x) => Excused(x)'
      /\ Excused(y) => Excused(y)'
      /\ Passed(x)' = Passed(x) /\ Passed(y)' = Passed(y)
  <2>1. Passed(x)' = Passed(x) /\ Passed(y)' = Passed(y)
    BY DEF Passed, Rcvd, Echoing
  <2> QED BY <2>1, KeepConsuming, KeepExcused
<1>    /\ Alive(copy[Writer(x)]) <=> Alive(copy'[Writer(x)])
       /\ Alive(copy[Writer(y)]) <=> Alive(copy'[Writer(y)])
       /\ copy[Writer(x)].pc = "done" => copy'[Writer(x)].pc = "done"
       /\ ~Alive(copy'[Writer(y)])
  <2>1. ~Alive(copy'[Writer(y)])
    BY DEF Alive
  <2> QED BY <2>1, FinishFacts
<1>2.  ASSUME Fine' PROVE Through(x)' /\ Through(y)'
  <2>   Fine /\ Through(x) /\ Through(y)
    BY <1>2 DEF Fine
  <2>1. Coming(x)'
    <3>1. CASE chan'[e].in = chan[e].in
      BY <3>1, KeepComing DEF Through
    <3>2. CASE chan'[e].in = Append(chan[e].in, CloseFrame)
      <4>1. NoData(chan[e].in) => NoData(chan'[e].in)
        <5>1. chan[e].in \in Seq(Frames)
          BY StreamTypes
        <5>2. CloseFrame \in Frames /\ CloseFrame.type # "Data"
          BY DEF CloseFrame, Frame, Frames, Item
        <5> QED BY <3>2, <5>1, <5>2, NoDataAppend
      <4>2. Ending(x) => Ending(x)'
        BY DEF Ending
      <4> QED BY <4>1, <4>2 DEF Through, Coming
    <3> QED BY <3>1, <3>2
  <2>2. Arrived(x)' /\ Arrived(y)'
    BY KeepArrived DEF Through
  <2>3. Told(x)' /\ Kept(x)'
    BY KeepTold, KeepKept DEF Through
  <2>4. Coming(y)'
    BY DEF Coming
  <2>5. Told(y)'
    BY DEF Through, Told
  <2>6. Kept(y)'
    <3>1. HasClose(chan'[e].in) => HasClose(chan[e].in) \/ chan'[x].sentClose
      OBVIOUS
    <3> QED BY <3>1 DEF Through, Kept
  <2> QED BY <2>1, <2>2, <2>3, <2>4, <2>5, <2>6 DEF Through
<1> QED
  BY <1>1, <1>2, EOFCombine

\* The copy to x ends with CloseWrite.
LEMMA RelayHalfTold ==
  ASSUME StreamInv, EOFInv, use' = use, NEW e \in Ends \ Apps, CloseWrite(e), cut' = cut,
         relay' = relay, copy'["echo"] = copy["echo"], Finishes,
         copy'[Writer(Far(Other(e)))].pc = "done"
  PROVE  EOFInv'
<1> DEFINE x == Other(e)
           y == Far(x)
<1>   /\ x \in Apps /\ Other(x) = e /\ x # e /\ y # e /\ Other(y) # e /\ Other(y) # x
  BY RelayEnd
<1>   /\ y \in Apps /\ Far(y) = x /\ y # x /\ x \in Ends /\ y \in Ends /\ Other(y) \in Ends
      /\ Writer(x) \in Copies /\ Writer(y) \in Copies
  BY Roles
<1>1. Types /\ Announcing(x) /\ Announcing(y) /\ (Fine => Through(x) /\ Through(y))
  BY Split, EOFSplit
<1>2. /\ Only(chan, chan', e)
      /\ IsEnded(chan[e], chan'[e], chan[e].fin, TRUE, chan[e].sentClose, chan[e].quit)
      /\ chan[e].sentClose => chan'[x] = chan[x]
      /\ ~chan[e].sentClose => IsEOF(chan[x], chan'[x], chan[x].in)
  BY <1>1, RelayHalfDoes
<1>   chan'[y] = chan[y] /\ chan'[Other(y)] = chan[Other(y)]
  BY <1>2 DEF Only
<1>   /\ chan'[x].fin = chan[x].fin /\ chan'[x].wrote = chan[x].wrote /\ chan'[x].half = chan[x].half
      /\ chan'[x].sentClose = chan[x].sentClose
      /\ chan[x].eof => chan'[x].eof
      /\ chan'[x].quit = chan[x].quit /\ chan'[x].got = chan[x].got
      /\ chan'[x].saw = chan[x].saw /\ chan'[x].buf = chan[x].buf
      /\ chan'[e].eof = chan[e].eof /\ chan'[e].in = chan[e].in /\ chan'[e].closed = chan[e].closed
  BY <1>2 DEF IsEnded, IsEOF, Lists, Reads, Writes
<1>3. Announcing(x)' /\ Announcing(y)'
  BY <1>1, KeepAnnouncing
<1>   /\ Consuming(x)' => Consuming(x)
      /\ Consuming(y)' => Consuming(y)
      /\ Excused(x) => Excused(x)'
      /\ Excused(y) => Excused(y)'
      /\ Passed(x)' = Passed(x) /\ Passed(y)' = Passed(y)
  <2>1. Passed(x)' = Passed(x) /\ Passed(y)' = Passed(y)
    BY DEF Passed, Rcvd, Echoing
  <2> QED BY <2>1, KeepConsuming, KeepExcused
<1>4. /\ Alive(copy[Writer(x)]) <=> Alive(copy'[Writer(x)])
      /\ Alive(copy[Writer(y)]) <=> Alive(copy'[Writer(y)])
      /\ copy[Writer(x)].pc = "done" => copy'[Writer(x)].pc = "done"
  BY FinishFacts
<1>5.  ASSUME Fine' PROVE Through(x)' /\ Through(y)'
  <2>   Through(x) /\ Through(y)
    BY <1>1, <1>5 DEF Fine
  <2>1. Coming(x)' /\ Coming(y)'
    BY <1>4, KeepComing DEF Through
  <2>2. Arrived(x)' /\ Arrived(y)'
    BY <1>4, KeepArrived DEF Through
  <2>3. Told(x)' /\ Kept(x)'
    BY <1>4, KeepTold, KeepKept DEF Through
  <2>4. Told(y)'
    BY DEF Through, Told
  <2>5. Kept(y)'
    BY DEF Through, Kept
  <2> QED BY <2>1, <2>2, <2>3, <2>4, <2>5 DEF Through
<1> QED
  BY <1>3, <1>5, EOFCombine

\* The relay opens the second channel, and stuttering steps.
LEMMA SameTold ==
  ASSUME EOFInv, use' = use, chan' = chan, copy' = copy, cut' = cut,
         relay = "failed" => relay' = "failed"
  PROVE  EOFInv'
<1> DEFINE x == "client"
           y == Far(x)
<1>   x \in Apps /\ y \in Apps /\ Far(y) = x
  BY Roles DEF Apps
<1>1. Announcing(x) /\ Announcing(y) /\ (Fine => Through(x) /\ Through(y))
  BY EOFSplit
<1>2. Announcing(x)' /\ Announcing(y)'
  BY <1>1, KeepAnnouncing
<1>3. /\ Consuming(x)' => Consuming(x)
      /\ Consuming(y)' => Consuming(y)
      /\ Excused(x) => Excused(x)'
      /\ Excused(y) => Excused(y)'
      /\ Passed(x)' = Passed(x) /\ Passed(y)' = Passed(y)
  <2>1. Passed(x)' = Passed(x) /\ Passed(y)' = Passed(y)
    BY DEF Passed, Rcvd, Echoing
  <2> QED BY <2>1, KeepConsuming, KeepExcused
<1>4. ASSUME Fine' PROVE Through(x)' /\ Through(y)'
  <2>   Through(x) /\ Through(y)
    BY <1>1, <1>4 DEF Fine
  <2>1. Coming(x)' /\ Coming(y)'
    BY <1>3, KeepComing DEF Through
  <2>2. Arrived(x)' /\ Arrived(y)'
    BY <1>3, KeepArrived DEF Through
  <2>3. Told(x)' /\ Told(y)'
    BY <1>3, KeepTold DEF Through
  <2>4. Kept(x)' /\ Kept(y)'
    BY KeepKept DEF Through
  <2> QED BY <2>1, <2>2, <2>3, <2>4 DEF Through
<1> QED
  BY <1>2, <1>4, EOFCombine

LEMMA OpenTold ==
  ASSUME EOFInv, use' = use, Opened \/ SendHeader
  PROVE  EOFInv'
<1>1. chan' = chan /\ copy' = copy /\ cut' = cut /\ relay # "failed"
  BY DEF Opened, SendHeader
<1> QED
  BY <1>1, SameTold

\* A session is cut, or the relay cannot open its channel: what x announces stays
\* as it is.
LEMMA CutTold ==
  ASSUME StreamInv, EOFInv, use' = use, NEW e \in Ends \ Apps, Cut(e)
  PROVE  EOFInv'
<1> DEFINE x == Other(e)
           y == Far(x)
<1>   /\ x \in Apps /\ Other(x) = e /\ x # e /\ y # e /\ Other(y) # e /\ Other(y) # x
  BY RelayEnd
<1>1. y \in Apps /\ Far(y) = x /\ y # x /\ x \in Ends /\ y \in Ends /\ Other(y) \in Ends
  BY Roles
<1>2. chan \in Chans /\ Announcing(x) /\ Announcing(y)
  BY Split, EOFSplit DEF Types
<1>3. Only(chan, chan', e) /\ IsGone(chan[x], chan'[x], <<>>) /\ cut' = TRUE
  BY <1>2, Cuts DEF Cut
<1>4. chan'[y] = chan[y] /\ chan'[Other(y)] = chan[Other(y)]
  BY <1>1, <1>3 DEF Only
<1>5. /\ chan'[x].wrote = chan[x].wrote /\ chan'[x].fin = chan[x].fin /\ chan'[x].half = chan[x].half
      /\ chan'[x].quit = chan[x].quit /\ chan'[x].saw = chan[x].saw
      /\ chan'[x].sentClose /\ chan'[x].eof
  BY <1>3 DEF IsGone, Reads, Writes
<1>6. Announcing(x)'
  BY <1>2, <1>5 DEF Announcing
<1>7. Announcing(y)'
  BY <1>1, <1>2, <1>4, KeepAnnouncing
<1>8. ~Fine'
  BY <1>3 DEF Fine
<1> QED
  BY <1>6, <1>7, <1>8, EOFCombine

LEMMA RefusedTold ==
  ASSUME StreamInv, EOFInv, use' = use, Refused
  PROVE  EOFInv'
<1> DEFINE x == "client"
           y == "backend"
<1>   /\ x \in Apps /\ y \in Apps /\ Far(x) = y /\ Far(y) = x /\ Other(x) = "a" /\ Other(y) = "b"
      /\ y \in Ends /\ "b" \in Ends /\ "a" # y /\ "a" # "b" /\ x # y /\ x # "b"
      /\ Other("a") = x
  BY DEF Apps, Far, Other, Ends
<1>1. Types /\ Before /\ Announcing(x) /\ Announcing(y)
  BY Split, EOFSplit
<1>2. /\ Only(chan, chan', "a") /\ relay' = "failed"
      /\ chan'[x].wrote = chan[x].wrote /\ chan'[x].fin = chan[x].fin /\ chan'[x].half = chan[x].half
      /\ chan'[x].quit = chan[x].quit /\ chan'[x].saw = chan[x].saw
      /\ chan[x].sentClose => chan'[x].sentClose
      /\ chan[x].eof => chan'[x].eof
      /\ chan'["a"].eof = chan["a"].eof
  BY <1>1, RefusedDoes
<1>3. chan'[y] = chan[y] /\ chan'["b"] = chan["b"]
  BY <1>2 DEF Only
<1>4. Announcing(x)' /\ Announcing(y)'
  BY <1>1, <1>2, <1>3, KeepAnnouncing
<1>5. ~Fine'
  BY <1>2 DEF Fine
<1> QED
  BY <1>4, <1>5, EOFCombine

\* proxy closes both channels.
LEMMA CloseBothTold ==
  ASSUME StreamInv, EOFInv, use' = use, CloseFirst \/ CloseSecond,
         copy["up"].pc = "done", copy["down"].pc = "done"
  PROVE  EOFInv'
<1>1. copy' = copy /\ cut' = cut /\ relay # "failed"
  BY DEF CloseFirst, CloseSecond
<1>2. PICK e \in Ends \ Apps : Close(e)
  <2>1. "a" \in Ends \ Apps /\ "b" \in Ends \ Apps
    BY DEF Ends, Apps
  <2> QED BY <2>1 DEF CloseFirst, CloseSecond
<1>3. Finishes
  BY <1>1 DEF Finishes
<1>4. copy[Writer(Other(e))].pc = "done" /\ copy[Writer(Far(Other(e)))].pc = "done"
  BY DEF Writer
<1>5. ~Alive(copy[Writer(Other(e))])
  BY <1>4 DEF Alive
<1> QED
  BY <1>1, <1>2, <1>3, <1>4, <1>5, RelayCloseTold

\* The copies of the relay.
LEMMA RelayReadTold ==
  ASSUME StreamInv, EOFInv, use' = use, NEW d \in Copies, d # "echo", CopyRead(d)
  PROVE  EOFInv'
<1>1. PICK x \in Apps : Writer(x) = d
  BY Loops
<1> DEFINE y == Far(x)
           e == Other(x)
<1>   /\ y \in Apps /\ Far(y) = x /\ Src(d) = e /\ Other(e) = x /\ x # e /\ y # e /\ Other(y) # e
      /\ Other(y) # x /\ y # x /\ x \in Ends /\ y \in Ends /\ Other(y) \in Ends
      /\ Writer(y) \in Copies /\ Writer(y) # d /\ "echo" \in Copies
  BY <1>1, Roles DEF Copies
<1>   Types /\ Announcing(x) /\ Announcing(y) /\ (Fine => Through(x) /\ Through(y))
  BY <1>1, Split, EOFSplit
<1>   /\ Turn(d) /\ copy[d].pc = "read"
      /\ \/ /\ chan[e].buf # <<>> /\ copy'[d].pc = "write"
            /\ Only(chan, chan', e)
            /\ IsBuf(chan[e], chan'[e], Tail(chan[e].buf), chan[e].got)
            /\ IsWrote(chan[x], chan'[x], chan[x].wrote)
         \/ AtEOF(e) /\ chan' = chan /\ copy'[d].pc = "end"
  BY CopyReadDoes
<1>   /\ relay' = relay /\ cut' = cut /\ copy'["echo"] = copy["echo"]
      /\ copy'[Writer(y)] = copy[Writer(y)]
  BY DEF Turn
<1>   /\ chan'[y] = chan[y] /\ chan'[Other(y)] = chan[Other(y)]
      /\ chan'[x].wrote = chan[x].wrote /\ chan'[x].fin = chan[x].fin /\ chan'[x].half = chan[x].half
      /\ chan'[x].sentClose = chan[x].sentClose /\ chan'[x].eof = chan[x].eof
      /\ chan'[x].quit = chan[x].quit /\ chan'[x].got = chan[x].got /\ chan'[x].saw = chan[x].saw
      /\ chan'[x].buf = chan[x].buf /\ chan'[e].in = chan[e].in /\ chan'[e].eof = chan[e].eof
      /\ chan'[e].half = chan[e].half /\ chan'[e].closed = chan[e].closed
  <2>1. CASE Only(chan, chan', e) /\ IsBuf(chan[e], chan'[e], Tail(chan[e].buf), chan[e].got)
             /\ IsWrote(chan[x], chan'[x], chan[x].wrote)
    <3>1. chan'[y] = chan[y] /\ chan'[Other(y)] = chan[Other(y)]
      BY <2>1 DEF Only
    <3> QED BY <2>1, <3>1 DEF IsWrote, IsBuf, Lists, Flags, Reads
  <2>2. CASE chan' = chan
    BY <2>2
  <2> QED BY <2>1, <2>2
<1>2. Announcing(x)' /\ Announcing(y)'
  BY KeepAnnouncing
<1>   /\ Consuming(x)' => Consuming(x)
      /\ Consuming(y)' => Consuming(y)
      /\ Excused(x) => Excused(x)'
      /\ Excused(y) => Excused(y)'
      /\ Passed(x)' = Passed(x) /\ Passed(y)' = Passed(y)
  <2>1. Passed(x)' = Passed(x) /\ Passed(y)' = Passed(y)
    BY DEF Passed, Rcvd, Echoing
  <2> QED BY <2>1, KeepConsuming, KeepExcused
<1>   Alive(copy[d]) /\ copy[d].pc # "done"
  BY DEF Alive
<1>3.  ASSUME Fine' PROVE Through(x)' /\ Through(y)'
  <2>   ~cut /\ relay # "failed" /\ Through(x) /\ Through(y)
    BY <1>3 DEF Fine
  <2>1. Coming(x)' /\ Coming(y)'
    BY <1>1, KeepComing DEF Through
  <2>2. Told(x)' /\ Told(y)'
    BY <1>1, KeepTold DEF Through
  <2>3. Kept(x)' /\ Kept(y)'
    BY <1>1, KeepKept DEF Through
  <2>4. Arrived(y)'
    BY KeepArrived DEF Through
  <2>5. Arrived(x)'
    <3>1. CASE copy'[d].pc = "write"
      <4>1. Alive(copy'[d])
        BY <3>1 DEF Alive
      <4> QED BY <1>1, <4>1 DEF Arrived
    <3>2. CASE AtEOF(e) /\ chan' = chan
      <4> SUFFICES ASSUME Consuming(y), ~Excused(y) PROVE chan[x].fin > 0 /\ Passed(y) = chan[x].wrote
        BY DEF Arrived
      <4>1. chan[x].fin > 0 /\ NoData(chan[e].in) /\ chan[e].buf = <<>>
        BY <1>1, <3>2 DEF Through, Coming, Ending, AtEOF
      <4>2. Hop(x)
        BY Split
      <4>3. Stream(x)
        BY <4>2 DEF Hop, Taking, Consuming
      <4> DEFINE lost == cut /\ chan[x].closed
      <4>4. ~lost /\ Carried(chan[x].wrote, chan[e].in, <<>>, copy[d], chan[y].buf, Origin(x), Rcvd(y), lost)
        BY <1>1, <4>1, <4>3 DEF Stream
      <4>5. /\ chan[x].wrote \in Nat /\ chan[e].in \in Seq(Frames) /\ chan[y].buf \in Seq(Item)
            /\ Rcvd(y) \in Nat
        BY StreamTypes
      <4> HIDE DEF lost
      <4>6. copy[d].pc = "read" /\ NoData(chan[e].in)
        BY <4>1
      <4> DEFINE w == chan[x].wrote
                 in == chan[e].in
                 k == copy[d]
                 yb == chan[y].buf
                 n == Rcvd(y)
      <4>7. /\ w \in Nat /\ in \in Seq(Frames) /\ yb \in Seq(Item) /\ n \in Nat /\ ~lost
            /\ Carried(w, in, <<>>, k, yb, Origin(x), n, lost) /\ k.pc = "read" /\ NoData(in)
        BY <4>4, <4>5, <4>6
      <4> HIDE DEF w, in, k, yb, n
      <4>8. n + Len(yb) = w
        <5> DEFINE m == n + Len(yb)
        <5>1. m \in Nat /\ m + 0 + Len(<<>>) = m /\ Len(in) \in Nat
          <6>1. m \in Nat /\ Len(in) \in Nat
            BY <4>7, Lengths
          <6> HIDE DEF m
          <6> QED BY <6>1, Sums
        <5>2. Flow(w, in, m + 0 + Len(<<>>), Origin(x), lost)
          <6>1. Alive(k) /\ Held(k) = 0
            BY <4>7 DEF Alive, Held
          <6> QED BY <4>7, <6>1 DEF Carried
        <5> HIDE DEF m
        <5>3. m =< w /\ w =< m + Len(in) /\ \A i \in 1 .. Len(in) : Place(in[i], m + i, w, Origin(x))
          BY <4>7, <5>1, <5>2 DEF Flow
        <5>4. ASSUME m # w PROVE FALSE
          <6>1. 1 \in 1 .. Len(in) /\ m + 1 =< w
            BY <4>7, <5>1, <5>3, <5>4, Below
          <6>2. in[1].type = "Data"
            BY <5>3, <6>1 DEF Place
          <6> QED BY <4>7, <6>1, <6>2 DEF NoData
        <5> QED BY <5>4 DEF m
      <4> QED BY <4>1, <4>8 DEF Passed, w, yb, n
    <3> QED BY <3>1, <3>2
  <2> QED BY <2>1, <2>2, <2>3, <2>4, <2>5 DEF Through
<1> QED
  BY <1>1, <1>2, <1>3, EOFCombine

LEMMA RelayWriteTold ==
  ASSUME StreamInv, EOFInv, use' = use, NEW d \in Copies, d # "echo", CopyWrite(d)
  PROVE  EOFInv'
<1>1. PICK x \in Apps : Writer(x) = d
  BY Loops
<1> DEFINE y == Far(x)
           e == Other(x)
           r == Other(y)
           i == copy[d].item
<1>   /\ y \in Apps /\ Far(y) = x /\ Dst(d) = r /\ Other(r) = y /\ x # r /\ r \in Ends \ Apps
      /\ e # r /\ e # y /\ y # x /\ x \in Ends /\ y \in Ends /\ e \in Ends
      /\ Writer(y) \in Copies /\ Writer(y) # d /\ "echo" \in Copies
  BY <1>1, Roles DEF Copies
<1>   Types /\ Announcing(x) /\ Announcing(y) /\ (Fine => Through(x) /\ Through(y))
  BY <1>1, Split, EOFSplit
<1>   /\ Turn(d) /\ copy[d].pc = "write" /\ i \in Item
      /\ \/ /\ use.short = {} => copy'[d].pc = "read"
            /\ chan' = Sent(Counted(chan, r), r, Frame("Data", i))
         \/ WriteFails(r) /\ chan' = chan
  BY CopyWriteDoes
<1> HIDE DEF i
<1>   /\ relay' = relay /\ cut' = cut /\ copy'["echo"] = copy["echo"]
      /\ copy'[Writer(y)] = copy[Writer(y)]
  BY DEF Turn
<1>   /\ chan'[x] = chan[x] /\ chan'[e] = chan[e]
      /\ chan'[y].wrote = chan[y].wrote /\ chan'[y].fin = chan[y].fin /\ chan'[y].half = chan[y].half
      /\ chan'[y].sentClose = chan[y].sentClose /\ chan'[y].eof = chan[y].eof
      /\ chan'[y].quit = chan[y].quit /\ chan'[y].got = chan[y].got /\ chan'[y].saw = chan[y].saw
      /\ chan'[r].in = chan[r].in /\ chan'[r].eof = chan[r].eof
      /\ chan'[r].half = chan[r].half /\ chan'[r].closed = chan[r].closed
  <2>1. CASE chan' = Sent(Counted(chan, r), r, Frame("Data", i))
    <3>1. /\ Only(chan, chan', r)
          /\ IsWrote(chan[r], chan'[r], chan[r].wrote)
          /\ IsBuf(chan[y], chan'[y], Append(chan[y].buf, i), chan[y].got)
      BY <2>1, RelayWrites DEF Types
    <3>2. chan'[x] = chan[x] /\ chan'[e] = chan[e]
      BY <3>1 DEF Only
    <3> QED BY <3>1, <3>2 DEF IsWrote, IsBuf, Lists, Flags, Writes
  <2>2. CASE chan' = chan
    BY <2>2
  <2> QED BY <2>1, <2>2
<1>2. Announcing(x)' /\ Announcing(y)'
  BY KeepAnnouncing
<1>   /\ Consuming(x)' => Consuming(x)
      /\ Consuming(y)' => Consuming(y)
      /\ Excused(x) => Excused(x)'
      /\ Excused(y) => Excused(y)'
      /\ Passed(x)' = Passed(x)
  <2>1. Passed(x)' = Passed(x)
    BY DEF Passed, Rcvd, Echoing
  <2> QED BY <2>1, KeepConsuming, KeepExcused
<1>   Alive(copy[d]) /\ copy[d].pc # "done"
  BY DEF Alive
<1>3.  ASSUME Fine' PROVE Through(x)' /\ Through(y)'
  <2>   use.short = {} /\ Through(x) /\ Through(y)
    BY <1>3 DEF Fine
  <2>1. Coming(x)' /\ Coming(y)'
    BY <1>1, KeepComing DEF Through
  <2>2. Consuming(y) => ~chan[y].eof /\ ~chan[y].sentClose /\ ~chan[y].saw
    BY <1>1 DEF Through, Told, Announcing
  <2>3. Told(x)'
    BY <2>2 DEF Told
  <2>4. Told(y)'
    BY KeepTold DEF Through
  <2>5. Kept(x)' /\ Kept(y)'
    BY <1>1, KeepKept DEF Through
  <2>6. Arrived(y)'
    BY KeepArrived DEF Through
  <2>7. Arrived(x)'
    <3>1. CASE copy'[d].pc = "read"
      <4>1. Alive(copy'[d])
        BY <3>1 DEF Alive
      <4> QED BY <1>1, <4>1 DEF Arrived
    <3>2. CASE WriteFails(r)
      <4>1. ~Consuming(y)
        BY <1>1, <2>2, <3>2 DEF Through, Kept, WriteFails
      <4> QED BY <4>1 DEF Arrived
    <3> QED BY <3>1, <3>2
  <2> QED BY <2>1, <2>3, <2>4, <2>5, <2>6, <2>7 DEF Through
<1> QED
  BY <1>1, <1>2, <1>3, EOFCombine

LEMMA RelayEndTold ==
  ASSUME StreamInv, EOFInv, use' = use, NEW d \in Copies, d # "echo", CopyEnd(d)
  PROVE  EOFInv'
<1> DEFINE e == Dst(d)
<1>1. /\ e \in Ends \ Apps /\ "echo" \in Copies /\ Writer(Far(Other(e))) = d
  BY DEF Copies, Dst, Ends, Apps, Other, Far, Writer
<1>2. Types
  BY DEF StreamInv
<1>   Turn(d) /\ copy[d].pc = "end" /\ copy'[d].pc = "done" /\ PassEnd(d)
  BY <1>2, CopyEndDoes
<1>3. ~Alive(copy[d])
  BY DEF Alive
<1>4. Finishes
  BY <1>3 DEF Finishes, Turn
<1>5. copy'["echo"] = copy["echo"] /\ relay # "failed" /\ relay' = relay /\ cut' = cut
  <2>1. relay # "failed"
    BY DEF Turn
  <2> QED BY <1>1, <2>1 DEF Turn
<1>6. CASE CloseWrite(e)
  BY <1>1, <1>4, <1>5, <1>6, RelayHalfTold
<1>7. CASE d = "down" /\ use.kind = "handler" /\ Close(e)
  <2>   /\ Other(e) = "client" /\ Far("client") = "backend" /\ Far("backend") = "client"
        /\ Writer("backend") = "down" /\ "client" \in Apps /\ "client" # "backend"
    BY <1>7 DEF Dst, Other, Far, Writer, Apps
  <2>1. ASSUME Fine, Consuming("backend") PROVE Ending("client")
    <3>1. Announcing("client") /\ Through("backend")
      BY <2>1, EOFSplit
    <3>2. CASE Consuming("client")
      <4>1. chan["backend"].fin > 0
        BY <1>3, <1>7, <3>1, <3>2 DEF Through, Arrived, Excused
      <4> QED BY <1>7, <4>1 DEF Ending, Excused
    <3>3. CASE ~Consuming("client")
      <4>1. chan["client"].quit
        BY <3>3 DEF Consuming, Echoing
      <4> QED BY <3>1, <4>1 DEF Announcing, Ending
    <3> QED BY <3>2, <3>3
  <2> QED BY <1>1, <1>4, <1>5, <1>7, <2>1, RelayCloseTold
<1> QED
  BY <1>6, <1>7 DEF PassEnd

\* The echo takes an item, or stops.
LEMMA EchoTakeTold ==
  ASSUME StreamInv, EOFInv, EchoTurn, Alive(copy'["echo"]) => Alive(copy["echo"]),
         chan'["backend"].wrote = chan["backend"].wrote, chan'["backend"].fin = chan["backend"].fin,
         chan'["backend"].half = chan["backend"].half, chan'["backend"].quit = chan["backend"].quit,
         chan'["backend"].sentClose = chan["backend"].sentClose,
         chan'["backend"].eof = chan["backend"].eof,
         chan'["b"].in = chan["b"].in, chan'["b"].eof = chan["b"].eof,
         chan'["b"].half = chan["b"].half, chan'["b"].closed = chan["b"].closed,
         Alive(copy'["echo"]) => Passed("backend")' = Passed("backend")
  PROVE  EOFInv'
<1> DEFINE x == "client"
           y == "backend"
<1>   /\ x \in Apps /\ y \in Apps /\ Far(x) = y /\ Far(y) = x /\ Other(x) = "a" /\ Other(y) = "b"
      /\ Writer(x) = "up" /\ Writer(y) = "down" /\ x # y
  BY EchoNames
<1>   /\ copy'["up"] = copy["up"] /\ copy'["down"] = copy["down"] /\ cut' = cut /\ relay' = relay
      /\ Hop(x) /\ Echoing(y) /\ Echoing(y)' /\ use' = use
      /\ chan'[x] = chan[x] /\ chan'["a"] = chan["a"] /\ chan'[y].saw = chan[y].saw
  BY EchoFacts DEF EchoTurn
<1>1. Announcing(x) /\ Announcing(y) /\ (Fine => Through(x) /\ Through(y))
  BY EOFSplit
<1>2. Announcing(x)' /\ Announcing(y)'
  BY <1>1, KeepAnnouncing
<1>   /\ Consuming(x)' => Consuming(x)
      /\ Consuming(y)' => Consuming(y)
      /\ Excused(x) => Excused(x)'
      /\ Excused(y) => Excused(y)'
      /\ Passed(x)' = Passed(x)
  <2>1. Passed(x)' = Passed(x)
    BY DEF Passed, Rcvd, Echoing
  <2> QED BY <2>1, KeepConsuming, KeepExcused
<1>3. ~chan'[y].saw
  BY DEF Hop, Got
<1>4. Consuming(y)' => Passed(y)' = Passed(y)
  BY DEF Consuming
<1>5. ASSUME Fine' PROVE Through(x)' /\ Through(y)'
  <2>   Through(x) /\ Through(y)
    BY <1>1, <1>5 DEF Fine
  <2>1. Coming(x)' /\ Coming(y)'
    BY KeepComing DEF Through
  <2>2. Arrived(x)'
    <3>1. CASE Consuming(y)'
      BY <1>4, <3>1, KeepArrived DEF Through
    <3>2. CASE ~Consuming(y)'
      BY <3>2 DEF Arrived
    <3> QED BY <3>1, <3>2
  <2>3. Arrived(y)'
    BY KeepArrived DEF Through
  <2>4. Told(x)' /\ Told(y)'
    BY <1>3, KeepTold DEF Through
  <2>5. Kept(x)' /\ Kept(y)'
    BY KeepKept DEF Through
  <2> QED BY <2>1, <2>2, <2>3, <2>4, <2>5 DEF Through
<1> QED
  BY <1>2, <1>5, EOFCombine

LEMMA EchoReadTold ==
  ASSUME StreamInv, EOFInv, use' = use, CopyRead("echo")
  PROVE  EOFInv'
<1> DEFINE w == chan["backend"].wrote
           b == chan["backend"].buf
<1>1. Types
  BY DEF StreamInv
<1>   /\ Turn("echo") /\ copy["echo"].pc = "read" /\ use.style = "echo"
      /\ \/ /\ b # <<>> /\ copy'["echo"].pc = "write"
            /\ Only(chan, chan', "backend")
            /\ IsBuf(chan["backend"], chan'["backend"], Tail(b), chan["backend"].got)
            /\ IsWrote(chan["b"], chan'["b"], chan["b"].wrote)
         \/ chan' = chan /\ copy'["echo"].pc = "end"
  BY <1>1, EchoNames, CopyReadDoes
<1>2. Alive(copy["echo"]) /\ Held(copy["echo"]) = 0
  BY DEF Alive, Held
<1>3. CASE chan' = chan /\ copy'["echo"].pc = "end"
  <2>1. EchoTurn /\ ~Alive(copy'["echo"])
    BY <1>1, <1>3 DEF EchoTurn, Types, Alive
  <2> QED BY <1>3, <2>1, EchoTakeTold
<1>4. CASE /\ b # <<>> /\ copy'["echo"].pc = "write"
           /\ Only(chan, chan', "backend")
           /\ IsBuf(chan["backend"], chan'["backend"], Tail(b), chan["backend"].got)
           /\ IsWrote(chan["b"], chan'["b"], chan["b"].wrote)
  <2>1. chan' \in Chans /\ chan'["client"] = chan["client"] /\ chan'["a"] = chan["a"]
    BY <1>4, EchoNames DEF Only
  <2>2. /\ chan'["backend"].got = chan["backend"].got /\ chan'["backend"].saw = chan["backend"].saw
        /\ chan'["backend"].wrote = w /\ chan'["backend"].buf = Tail(b)
        /\ chan'["backend"].fin = chan["backend"].fin
        /\ chan'["backend"].half = chan["backend"].half
        /\ chan'["backend"].sentClose = chan["backend"].sentClose
        /\ chan'["backend"].closed = chan["backend"].closed
        /\ chan'["backend"].eof = chan["backend"].eof
        /\ chan'["backend"].quit = chan["backend"].quit
        /\ chan'["b"].in = chan["b"].in /\ chan'["b"].eof = chan["b"].eof
        /\ chan'["b"].half = chan["b"].half /\ chan'["b"].closed = chan["b"].closed
    BY <1>4 DEF IsBuf, IsWrote, Flags, Writes, Lists
  <2>3. EchoTurn
    BY <2>1, <2>2 DEF EchoTurn
  <2>4. Passed("backend")' = Passed("backend")
    <3>1. b \in Seq(Item) /\ w \in Nat /\ b # <<>>
      BY <1>1, <1>4, EchoNames, StreamTypes
    <3>2. w + 1 + Len(Tail(b)) = w + 0 + Len(b)
      <4> HIDE DEF b, w
      <4> QED BY <3>1, Heads
    <3>3. Held(copy'["echo"]) = 1
      BY <1>4 DEF Held
    <3>4. Echoing("backend") /\ Echoing("backend")'
      BY DEF Echoing
    <3> QED BY <1>2, <2>2, <3>2, <3>3, <3>4 DEF Passed, Rcvd
  <2> QED BY <1>2, <2>2, <2>3, <2>4, EchoTakeTold
<1> QED
  BY <1>3, <1>4

LEMMA EchoWriteTold ==
  ASSUME StreamInv, EOFInv, use' = use, CopyWrite("echo")
  PROVE  EOFInv'
<1> DEFINE w == chan["backend"].wrote
           i == copy["echo"].item
           f == Frame("Data", i)
<1>   Types
  BY DEF StreamInv
<1>   /\ Turn("echo") /\ copy["echo"].pc = "write" /\ use.style = "echo" /\ i \in Item
      /\ copy'["echo"].pc \in {"read", "end"}
      /\ \/ ~WriteFails("backend") /\ chan' = Sent(Counted(chan, "backend"), "backend", f)
         \/ chan' = chan /\ copy'["echo"].pc = "end"
  BY EchoNames, CopyWriteDoes
<1>1. Alive(copy["echo"]) /\ Held(copy["echo"]) = 1 /\ copy["echo"].pc # "done"
  BY DEF Alive, Held
<1>2. Held(copy'["echo"]) = 0
  BY DEF Held
<1>3. CASE chan' = chan /\ copy'["echo"].pc = "end"
  <2>1. EchoTurn /\ ~Alive(copy'["echo"])
    BY <1>3 DEF EchoTurn, Types, Alive
  <2> QED BY <1>3, <2>1, EchoTakeTold
<1>4. CASE ~WriteFails("backend") /\ chan' = Sent(Counted(chan, "backend"), "backend", f)
  <2>1. /\ Only(chan, chan', "backend")
        /\ IsWrote(chan["backend"], chan'["backend"], w + 1)
        /\ IsIn(chan["b"], chan'["b"], Append(chan["b"].in, f))
    <3>1. chan \in Chans /\ i \in Item /\ chan' = Sent(Counted(chan, "backend"), "backend", Frame("Data", i))
      BY <1>4 DEF Types
    <3> HIDE DEF i
    <3> QED BY <3>1, EchoNames, AppWrites
  <2>2. chan' \in Chans /\ chan'["client"] = chan["client"] /\ chan'["a"] = chan["a"]
    BY <2>1, EchoNames DEF Only
  <2>3. /\ chan'["backend"].got = chan["backend"].got /\ chan'["backend"].saw = chan["backend"].saw
        /\ chan'["backend"].wrote = w + 1 /\ chan'["backend"].closed = chan["backend"].closed
    BY <2>1 DEF IsWrote, Flags, Reads
  <2>4. EchoTurn
    BY <2>2, <2>3 DEF EchoTurn
  <2>5. /\ copy'["up"] = copy["up"] /\ copy'["down"] = copy["down"] /\ cut' = cut /\ relay' = relay
        /\ Stopped("backend") /\ Echoing("backend") /\ Echoing("backend")'
    BY <2>4, EchoFacts
  <2>6. ~chan["backend"].half /\ ~chan["backend"].sentClose
    BY <1>1, <1>4, <2>5 DEF Stopped, WriteFails
  <2>7. f \in Frames /\ f.type = "Data"
    BY DEF Frame, Frames
  <2>8. Rcvd("backend")' = Rcvd("backend") /\ Rcvd("client")' = Rcvd("client")
    <3>1. w \in Nat
      BY EchoNames, StreamTypes
    <3>2. (w + 1) + 0 = w + 1
      BY <3>1, Sums
    <3>3. Rcvd("client")' = Rcvd("client")
      BY <2>2, EchoNames DEF Rcvd, Echoing
    <3> QED BY <1>1, <1>2, <2>3, <2>5, <3>2, <3>3 DEF Rcvd
  <2> HIDE DEF f
  <2> QED BY <1>1, <2>1, <2>5, <2>6, <2>7, <2>8, EchoNames, WriteTold
<1> QED
  BY <1>3, <1>4

LEMMA EchoEndTold ==
  ASSUME StreamInv, EOFInv, use' = use, CopyEnd("echo")
  PROVE  EOFInv'
<1> DEFINE c == chan["backend"]
           h == c.half
           q == c.quit
           s == TRUE
<1>1. Types
  BY DEF StreamInv
<1>2. /\ Turn("echo") /\ copy["echo"].pc = "end" /\ use.style = "echo"
      /\ copy'["echo"].pc = "done" /\ chan' = Closing(chan, "backend")
  BY <1>1, EchoNames, CopyEndDoes DEF PassEnd, Close
<1>3. ~Alive(copy'["echo"]) /\ Held(copy["echo"]) = 0 /\ Held(copy'["echo"]) = 0
  BY <1>2 DEF Alive, Held
<1>4. /\ Only(chan, chan', "backend")
      /\ IsEnded(c, chan'["backend"], Fin(c), h, s, q)
      /\ Tells("backend", CloseFrame)
  BY <1>1, <1>2, EchoNames, AppCloses DEF Types, Tells
<1>5. chan' \in Chans /\ chan'["client"] = chan["client"] /\ chan'["a"] = chan["a"]
  BY <1>4, EchoNames DEF Only
<1>6. /\ chan'["backend"].got = c.got /\ chan'["backend"].saw = c.saw
      /\ chan'["backend"].wrote = c.wrote /\ chan'["backend"].closed = c.closed
  BY <1>4 DEF IsEnded, Reads
<1>7. EchoTurn
  BY <1>2, <1>5, <1>6 DEF EchoTurn
<1>8. /\ copy'["up"] = copy["up"] /\ copy'["down"] = copy["down"] /\ cut' = cut /\ relay' = relay
      /\ Echoing("backend") /\ Echoing("backend")'
  BY <1>7, EchoFacts
<1>9. CloseFrame \in Frames /\ CloseFrame.type = "Close"
  BY DEF CloseFrame, Frame, Frames, Item
<1>10. MayEnd("backend", CloseFrame, h, s, q)
  <2>1. ~Consuming("backend")'
    BY <1>3, <1>8 DEF Consuming
  <2>2. CloseFrame.type # "Data"
    BY <1>9
  <2> QED BY <2>1, <2>2 DEF MayEnd
<1>11. Rcvd("backend")' = Rcvd("backend") /\ Rcvd("client")' = Rcvd("client")
  <2>1. Rcvd("client")' = Rcvd("client")
    BY <1>5, EchoNames DEF Rcvd, Echoing
  <2> QED BY <1>3, <1>6, <1>8, <2>1 DEF Rcvd
<1> HIDE DEF h, s, q
<1> QED
  BY <1>3, <1>4, <1>8, <1>9, <1>10, <1>11, EchoNames, EndTold

-------------------------------------------------------------------------------
(* The end of a stream is kept by every step *)

\* proxy closes the channels when both copies have ended.
Finished ==
  relay \in {"closing", "done"} => copy["up"].pc = "done" /\ copy["down"].pc = "done"

\* Every step keeps that.
LEMMA FinishedKept ==
  ASSUME Types, Finished, Next
  PROVE  Finished'
<1>1. "up" \in Copies /\ "down" \in Copies
  BY DEF Copies
<1>2. CASE RelayStep
  BY <1>2 DEF RelayStep, Opened, SendHeader, Refused, CloseFirst, CloseSecond, Finished
<1>3. ASSUME NEW d \in Copies, CopyStep(d) PROVE Finished'
  <2>1. Turn(d) /\ copy[d].pc # "done"
    <3>1. Turn(d) /\ copy[d].pc \in {"read", "write", "end"}
      BY <1>3, CopyReadDoes, CopyWriteDoes, CopyEndDoes DEF CopyStep
    <3> QED BY <3>1
  <2> QED BY <1>1, <2>1 DEF Finished, Turn
<1>4. CASE copy' = copy /\ relay' = relay
  BY <1>4 DEF Finished
<1> QED
  BY <1>2, <1>3, <1>4 DEF Next, Handle, Cut, AppWrite, AppCloseWrite, AppClose, AppRead

\* The invariant holds at first,
LEMMA EOFInit == Init => EOFInv /\ Finished
<1> SUFFICES ASSUME Init PROVE EOFInv /\ Finished
  OBVIOUS
<1>1. relay = "open" /\ \A d \in Copies : copy[d].pc = "read"
  BY DEF Init
<1>   \A e \in Ends :
        /\ chan[e].in = <<>> /\ chan[e].fin = 0 /\ ~chan[e].half /\ ~chan[e].sentClose
        /\ ~chan[e].closed /\ ~chan[e].eof /\ ~chan[e].saw /\ ~chan[e].quit
  BY DEF Init, Channel
<1>2. ASSUME NEW x \in Apps PROVE Announcing(x) /\ Through(x)
  <2>   /\ x \in Ends /\ Far(x) \in Ends /\ Other(x) \in Ends /\ Other(Far(x)) \in Ends
        /\ Writer(x) \in Copies
    BY Roles
  <2>1. Announcing(x)
    <3>1. ~(chan[x].fin > 0)
      BY ZeroIsNot
    <3> QED BY <3>1 DEF Announcing
  <2>2. Alive(copy[Writer(x)])
    BY <1>1 DEF Alive
  <2>3. ~HasEnd(chan[Other(x)].in) /\ ~HasClose(chan[Other(Far(x))].in)
    <3>1. ~HasEnd(<<>>) /\ ~HasClose(<<>>)
      BY NoneClose, NoneEnd
    <3> QED BY <3>1
  <2>4. Coming(x) /\ Arrived(x) /\ Told(x) /\ Kept(x)
    BY <2>2, <2>3 DEF Coming, Arrived, Told, Kept
  <2> QED BY <2>1, <2>4 DEF Through
<1>3. Finished
  BY <1>1 DEF Finished
<1> QED
  BY <1>2, <1>3 DEF EOFInv

\* is kept by every step,
LEMMA EOFStep == StreamInv /\ EOFInv /\ Finished /\ [Next]_vars => EOFInv' /\ Finished'
<1> SUFFICES ASSUME StreamInv, EOFInv, Finished, [Next]_vars PROVE EOFInv' /\ Finished'
  OBVIOUS
<1>1. CASE UNCHANGED vars
  <2>1. chan' = chan /\ copy' = copy /\ cut' = cut /\ relay' = relay /\ use' = use
    BY <1>1 DEF vars
  <2> QED BY <2>1, SameTold DEF Finished
<1>2. CASE Next
  <2>   use' = use
    BY <1>2 DEF Next
  <2>1. Finished'
    BY <1>2, FinishedKept DEF StreamInv
  <2>2. CASE RelayStep
    <3>1. CASE CloseFirst \/ CloseSecond
      <4>1. copy["up"].pc = "done" /\ copy["down"].pc = "done"
        BY <3>1 DEF CloseFirst, CloseSecond, Finished
      <4> QED BY <2>1, <3>1, <4>1, CloseBothTold
    <3> QED BY <2>1, <2>2, <3>1, OpenTold, RefusedTold DEF RelayStep
  <2>3. ASSUME NEW d \in Copies, CopyStep(d) PROVE EOFInv'
    <3>1. CASE d = "echo"
      BY <2>3, <3>1, EchoReadTold, EchoWriteTold, EchoEndTold DEF CopyStep
    <3>2. CASE d # "echo"
      BY <2>3, <3>2, RelayReadTold, RelayWriteTold, RelayEndTold DEF CopyStep
    <3> QED BY <3>1, <3>2
  <2>4. ASSUME NEW e \in Ends \ Apps, Handle(e) \/ Cut(e) PROVE EOFInv'
    BY <2>4, HandleTold, CutTold
  <2>5. ASSUME NEW e \in Apps, AppWrite(e) \/ AppCloseWrite(e) \/ AppClose(e) \/ AppRead(e)
        PROVE  EOFInv'
    BY <2>5, AppWriteTold, AppCloseWriteTold, AppCloseTold, AppReadTold
  <2> QED BY <1>2, <2>1, <2>2, <2>3, <2>4, <2>5 DEF Next
<1> QED
  BY <1>1, <1>2

\* and says what io.EOF means.
LEMMA EOFComplete == StreamInv /\ EOFInv => EOFMeansComplete
<1> SUFFICES ASSUME StreamInv, EOFInv, use.short = {}, NEW e \in Apps,
                    chan[e].saw, ~chan[e].quit, ~cut, relay # "failed", ~Excused(e)
             PROVE  chan[Far(e)].fin > 0 /\ Len(chan[e].got) >= chan[Far(e)].fin - 1
  BY DEF EOFMeansComplete, Complete, Excused
<1> DEFINE x == Far(e)
<1>   x \in Apps /\ Far(x) = e
  BY Roles
<1>   Types /\ Hop(x) /\ Announcing(e) /\ Announcing(x) /\ Through(x)
  BY Split, EOFSplit DEF Fine
<1>1. ~Echoing(e)
  BY DEF Hop, Got
<1>   Consuming(e) /\ Rcvd(e) = Len(chan[e].got)
  BY <1>1 DEF Consuming, Rcvd
<1>2. copy[Writer(x)].pc = "done" /\ chan[e].buf = <<>>
  BY DEF Announcing, Through, Told
<1>3. ~Alive(copy[Writer(x)])
  BY <1>2 DEF Alive
<1>4. chan[x].fin > 0 /\ Passed(e) = chan[x].wrote
  BY <1>3 DEF Through, Arrived
<1>5. Passed(e) = Len(chan[e].got) + Len(<<>>) /\ chan[x].wrote = chan[x].fin - 1
  BY <1>2, <1>4 DEF Passed, Announcing
<1>6. Len(chan[e].got) \in Nat
  BY StreamTypes
<1>7.  Len(chan[e].got) = chan[x].fin - 1
  <2> DEFINE n == Len(chan[e].got)
  <2>1. n \in Nat /\ n + Len(<<>>) = chan[x].fin - 1
    BY <1>4, <1>5, <1>6
  <2> HIDE DEF n
  <2>2. n + Len(<<>>) = n
    BY <2>1, Sums
  <2> QED BY <2>1, <2>2 DEF n
<1> QED
  BY <1>4, <1>6, <1>7, AtLeast

\* io.EOF means complete, through the relay: whatever the applications write and
\* close, whatever the windows are and however the copies are interleaved, an
\* application that reads io.EOF, and has not closed its channel, has read what the
\* other one wrote before the end of its stream.
THEOREM EOFMeansCompleteHolds == Spec => []EOFMeansComplete
<1> DEFINE Inv == StreamInv /\ EOFInv /\ Finished
<1>1. Init => Inv
  BY StreamInit, EOFInit
<1>2. Inv /\ [Next]_vars => Inv'
  BY StreamStep, EOFStep
<1>3. Inv => EOFMeansComplete
  BY EOFComplete
<1> QED
  BY <1>1, <1>2, <1>3, PTL DEF Spec

===============================================================================
