---------------------------- MODULE ChannelProofs -----------------------------
(* What holds of Channel for every window size, packet size and message mix:   *)
(* its types, the inductive invariant, what a frame put on or taken off the    *)
(* wire does to it, that every step preserves it, and what follows from that.  *)
EXTENDS Channel, TLAPS

\* Leaves that name no prover go to Zenon.
USE ZenonT(30)

-------------------------------------------------------------------------------
(* Types *)

\* What a concatenation holds.
LEMMA ConcatFacts ==
  ASSUME NEW q \in Seq(Nat), NEW h \in Seq(Nat)
  PROVE  /\ q \o h \in Seq(Nat) /\ Len(q \o h) = Len(q) + Len(h)
         /\ \A i \in 1 .. Len(q) + Len(h) :
              (q \o h)[i] = IF i <= Len(q) THEN q[i] ELSE h[i - Len(q)]
BY SMTT(30)

\* There are two ends, each the other's peer.
LEMMA PeerFacts ==
  ASSUME NEW e \in Ends
  PROVE  /\ Peer(e) \in Ends /\ Peer(e) # e /\ Peer(Peer(e)) = e
         /\ \A x \in Ends : x = e \/ x = Peer(e)
BY DEF Ends, Peer

-------------------------------------------------------------------------------
(* Types *)

\* The bytes of a Data frame are consecutive numbers.
LEMMA PayloadFacts ==
  ASSUME NEW f \in Frames
  PROVE  /\ Payload(f) \in Seq(Nat)
         /\ Len(Payload(f)) = f.n
         /\ \A i \in 1 .. f.n : Payload(f)[i] = f.pos + i
<1>1. f.n \in Nat /\ f.pos \in Nat
  BY DEF Frames
<1>2. Payload(f) \in [1 .. f.n -> Nat]
  BY <1>1, SMTT(30) DEF Payload
<1>3. Payload(f) \in Seq(Nat)
  BY <1>1, <1>2, SMTT(30)
<1>4. Len(Payload(f)) = f.n
  BY <1>1, <1>2, <1>3, SMTT(30)
<1> QED BY <1>1, <1>3, <1>4 DEF Payload

\* The wire without the frame that was read is still a wire.
LEMMA RestTypes ==
  ASSUME NetTypes, NEW e \in Ends, wire[e] # <<>>
  PROVE  /\ Rest(e) \in [Ends -> Seq(Frames)]
         /\ Head(wire[e]) \in Frames
BY SMTT(30) DEF NetTypes, Rest

\* Encode puts a well-formed frame on the wire or nothing.
LEMMA EncodeTypes ==
  ASSUME NEW w \in [Ends -> Seq(Frames)], NEW e \in Ends, NEW type \in FrameType,
         NEW n \in Nat, NetTypes, Encode(w, e, type, n)
  PROVE  NetTypes'
<1> DEFINE f == Frame(e, type, n)
<1>1. f \in Frames /\ DataBytes(f) \in Nat /\ CreditBytes(f) \in Nat
  BY DEF NetTypes, Frame, Frames, DataBytes, CreditBytes
<1>2. Peer(e) \in Ends
  BY PeerFacts
<1>3. CASE EncodeOK(w, e, type, n)
  <2>1. /\ wire' = [w EXCEPT ![Peer(e)] = Append(@, f)]
        /\ sent' = [sent EXCEPT ![e] = @ + DataBytes(f)]
        /\ acked' = [acked EXCEPT ![e] = @ + CreditBytes(f)]
        /\ fin' = [fin EXCEPT ![e] = sent[e]] \/ fin' = fin
    BY <1>3 DEF EncodeOK
  <2> HIDE DEF f
  <2>2. wire' \in [Ends -> Seq(Frames)]
    BY <1>1, <1>2, <2>1, SMTT(30)
  <2>3. sent' \in [Ends -> Nat] /\ acked' \in [Ends -> Nat]
    BY <1>1, <2>1, SMTT(30) DEF NetTypes
  <2>4. fin' \in [Ends -> Nat \cup {NoFin}]
    BY <2>1 DEF NetTypes
  <2> QED BY <2>2, <2>3, <2>4 DEF NetTypes
<1>4. CASE EncodeFails(w, e)
  BY <1>4 DEF EncodeFails, NetTypes
<1> QED BY <1>3, <1>4 DEF Encode

\* channel.send does as Encode, and records a Close of its own.
LEMMA SendTypes ==
  ASSUME NEW w \in [Ends -> Seq(Frames)], NEW e \in Ends, NEW type \in FrameType,
         NEW n \in Nat, NetTypes, FlagTypes, Send(w, e, type, n)
  PROVE  NetTypes' /\ sentClose' \in [Ends -> BOOLEAN]
<1>1. CASE sentClose[e] /\ wire' = w /\ UNCHANGED <<sent, acked, fin, sentClose>>
  BY <1>1 DEF NetTypes, FlagTypes
<1>2. CASE /\ sentClose' = IF type = "Close" THEN [sentClose EXCEPT ![e] = TRUE] ELSE sentClose
           /\ Encode(w, e, type, n)
  <2>1. NetTypes'
    BY <1>2, EncodeTypes
  <2>2. sentClose' \in [Ends -> BOOLEAN]
    BY <1>2 DEF FlagTypes
  <2> QED BY <2>1, <2>2
<1> QED BY <1>1, <1>2 DEF Send

\* What Write reserved fits in what it has left and in one packet.  TypeOK needs
\* it: bytes left would otherwise become negative.
WriterSound ==
  \A e \in Ends : /\ wspace[e] =< wleft[e] /\ wspace[e] =< MaxPacket
                  /\ wpc[e] # "encode" => wspace[e] = 0

Base == TypeOK /\ WriterSound

\* The initial state is type correct.
LEMMA TypeInit == Init => Base
<1> SUFFICES ASSUME Init PROVE Base
  OBVIOUS
<1>1. NetTypes
  BY SMTT(30) DEF Init, NetTypes
<1>2. SessionTypes
  BY DEF Init, SessionTypes, Errors
<1>3. ReceiveTypes
  BY ChannelAssumption, SMTT(30) DEF Init, ReceiveTypes
<1>4. WriterTypes
  BY DEF Init, WriterTypes
<1>5. WindowTypes
  BY ChannelAssumption DEF Init, WindowTypes
<1>6. FlagTypes
  BY DEF Init, FlagTypes
<1>7. WriterSound
  BY ChannelAssumption, SMTT(30) DEF Init, WriterSound
<1> QED BY <1>1, <1>2, <1>3, <1>4, <1>5, <1>6, <1>7 DEF Base, TypeOK

\* A group of variables that does not change keeps its types.
LEMMA TypeFrame ==
  /\ NetTypes /\ UNCHANGED net => NetTypes'
  /\ SessionTypes /\ UNCHANGED session => SessionTypes'
  /\ ReceiveTypes /\ UNCHANGED receive => ReceiveTypes'
  /\ WriterTypes /\ UNCHANGED writer => WriterTypes'
  /\ WindowTypes /\ UNCHANGED window => WindowTypes'
  /\ FlagTypes /\ UNCHANGED flags => FlagTypes'
<1>1. NetTypes /\ UNCHANGED net => NetTypes'
  BY DEF net, NetTypes
<1>2. SessionTypes /\ UNCHANGED session => SessionTypes'
  BY DEF session, SessionTypes
<1>3. ReceiveTypes /\ UNCHANGED receive => ReceiveTypes'
  BY DEF receive, ReceiveTypes
<1>4. WriterTypes /\ UNCHANGED writer => WriterTypes'
  BY DEF writer, WriterTypes
<1>5. WindowTypes /\ UNCHANGED window => WindowTypes'
  BY DEF window, WindowTypes
<1>6. FlagTypes /\ UNCHANGED flags => FlagTypes'
  BY DEF flags, FlagTypes
<1> QED BY <1>1, <1>2, <1>3, <1>4, <1>5, <1>6

\* The steps of a Write keep the types.
LEMMA WriterSteps ==
  ASSUME Base, NEW e \in Ends
  PROVE  /\ \A k \in WriteSizes : Write(e, k) => Base'
         /\ Reserve(e) => Base'
         /\ EncodeData(e) => Base'
<1> USE TypeFrame DEF TypeOK, Base
<1>1. ASSUME NEW k \in WriteSizes, Write(e, k) PROVE Base'
  <2>1. WriterTypes' /\ WriterSound'
    BY <1>1, ChannelAssumption, SMTT(30) DEF Write, WriterTypes, WriterSound
  <2> QED BY <1>1, <2>1 DEF Write
<1>2. ASSUME Reserve(e) PROVE Base'
  <2> DEFINE ask == Min32(MaxPacket, wleft[e])
             space == IF win[e] < ask THEN win[e] ELSE ask
  <2>1. ask \in Nat /\ ask =< MaxPacket /\ ask =< wleft[e]
    <3>1. MaxPacket \in Nat /\ Modulus \in Nat \ {0} /\ wleft[e] \in Nat
      BY ChannelAssumption, SMTT(30) DEF WriterTypes
    <3>2. wleft[e] % Modulus \in Nat /\ wleft[e] % Modulus =< wleft[e]
      BY <3>1, SMTT(30)
    <3> QED BY <3>1, <3>2, SMTT(30) DEF Min32
  <2> HIDE DEF ask
  <2>2. /\ space \in Nat /\ space =< win[e] /\ win[e] \in Nat
        /\ space =< MaxPacket /\ space =< wleft[e]
    BY <2>1, ChannelAssumption, SMTT(30) DEF WindowTypes, WriterTypes
  <2>3. /\ win' = [win EXCEPT ![e] = @ - space]
        /\ wspace' = [wspace EXCEPT ![e] = IF winClosed[e] THEN 0 ELSE space]
        /\ wleft' = [wleft EXCEPT ![e] = IF winClosed[e] THEN 0 ELSE @]
        /\ wpc' = [wpc EXCEPT ![e] = IF winClosed[e] THEN "idle" ELSE "encode"]
        /\ UNCHANGED <<asked, winClosed, regained, net, session, receive, flags>>
    BY <1>2 DEF Reserve, ask
  <2> HIDE DEF space
  <2>4. WindowTypes'
    BY <2>2, <2>3, SMTT(30) DEF WindowTypes
  <2>5. WriterTypes'
    BY <2>2, <2>3 DEF WriterTypes
  <2>6. WriterSound'
    BY <2>2, <2>3, ChannelAssumption, SMTT(30) DEF WriterTypes, WriterSound
  <2> QED BY <2>3, <2>4, <2>5, <2>6
<1>3. ASSUME EncodeData(e) PROVE Base'
  <2>1. /\ wspace[e] \in Nat /\ wleft[e] \in Nat /\ "Data" \in FrameType
        /\ wleft[e] - wspace[e] \in Nat
    BY SMTT(30) DEF WriterTypes, FrameType, WriterSound
  <2>2. NetTypes'
    BY <1>3, <2>1, EncodeTypes DEF EncodeData, Encode, NetTypes
  <2>3. /\ \/ /\ wleft' = [wleft EXCEPT ![e] = @ - wspace[e]]
              /\ wpc' = [wpc EXCEPT ![e] = IF wleft'[e] = 0 THEN "idle" ELSE "reserve"]
           \/ /\ wleft' = [wleft EXCEPT ![e] = 0]
              /\ wpc' = [wpc EXCEPT ![e] = "idle"]
        /\ wspace' = [wspace EXCEPT ![e] = 0]
        /\ UNCHANGED <<asked, session, receive, window, flags>>
    BY <1>3 DEF EncodeData
  <2>4. WriterTypes' /\ WriterSound'
    BY <2>1, <2>3, ChannelAssumption, SMTT(30) DEF WriterTypes, WriterSound
  <2> QED BY <2>2, <2>3, <2>4
<1> QED BY <1>1, <1>2, <1>3

\* The steps of a Read keep the types.
LEMMA ReaderSteps ==
  ASSUME Base, NEW e \in Ends
  PROVE  /\ \A k \in ReadSizes : Read(e, k) => Base'
         /\ GrowWindow(e) => Base'
         /\ SendAdjust(e) => Base'
<1> USE TypeFrame DEF TypeOK, Base
<1>1. ASSUME NEW k \in ReadSizes, Read(e, k) PROVE Base'
  <2> DEFINE n == IF k < Len(pending[e]) THEN k ELSE Len(pending[e])
  <2>1. n \in 0 .. Len(pending[e]) /\ pending[e] \in Seq(Nat) /\ got[e] \in Seq(Nat)
    BY ChannelAssumption, SMTT(30) DEF ReceiveTypes
  <2>2. /\ got' = [got EXCEPT ![e] = @ \o SubSeq(pending[e], 1, n)]
        /\ pending' = [pending EXCEPT ![e] = SubSeq(@, n + 1, Len(@))]
        /\ sawEOF' = [sawEOF EXCEPT ![e] = TRUE] \/ sawEOF' = sawEOF
        /\ rn' = [rn EXCEPT ![e] = n]
        /\ rpc' = [rpc EXCEPT ![e] = IF n = 0 THEN "idle" ELSE "grow"]
        /\ UNCHANGED <<myWindow, eof, net, session, writer, window, flags>>
    BY <1>1 DEF Read
  <2> HIDE DEF n
  <2>3. got[e] \o SubSeq(pending[e], 1, n) \in Seq(Nat)
        /\ SubSeq(pending[e], n + 1, Len(pending[e])) \in Seq(Nat)
    BY <2>1, SMTT(30)
  <2>4. ReceiveTypes'
    <3>1. got' \in [Ends -> Seq(Nat)]
      BY <2>2, <2>3 DEF ReceiveTypes
    <3>2. pending' \in [Ends -> Seq(Nat)]
      BY <2>2, <2>3 DEF ReceiveTypes
    <3>3. rn' \in [Ends -> Nat]
      BY <2>1, <2>2, SMTT(30) DEF ReceiveTypes
    <3>4. rpc' \in [Ends -> {"idle", "grow", "adjust"}]
      BY <2>2 DEF ReceiveTypes
    <3>5. sawEOF' \in [Ends -> BOOLEAN]
      BY <2>2 DEF ReceiveTypes
    <3> QED BY <2>2, <3>1, <3>2, <3>3, <3>4, <3>5 DEF ReceiveTypes
  <2> QED BY <2>2, <2>4 DEF WriterSound, writer
<1>2. ASSUME GrowWindow(e) PROVE Base'
  <2>1. (myWindow[e] + rn[e]) % Modulus \in Nat
    <3>1. Modulus \in Nat \ {0} /\ myWindow[e] + rn[e] \in Nat
      BY ChannelAssumption, SMTT(30) DEF ReceiveTypes
    <3> QED BY <3>1, SMTT(30)
  <2>2. ReceiveTypes'
    BY <1>2, <2>1 DEF GrowWindow, ReceiveTypes
  <2> QED BY <1>2, <2>2 DEF GrowWindow, WriterSound, writer
<1>3. ASSUME SendAdjust(e) PROVE Base'
  <2>1. rn[e] \in Nat /\ "WindowAdjust" \in FrameType /\ wire \in [Ends -> Seq(Frames)]
    BY DEF ReceiveTypes, FrameType, NetTypes
  <2>2. NetTypes' /\ sentClose' \in [Ends -> BOOLEAN]
    BY <1>3, <2>1, SendTypes DEF SendAdjust
  <2>3. ReceiveTypes'
    BY <1>3 DEF SendAdjust, ReceiveTypes
  <2>4. FlagTypes'
    BY <1>3, <2>2 DEF SendAdjust, FlagTypes
  <2> QED BY <1>3, <2>2, <2>3, <2>4 DEF SendAdjust, WriterSound, writer
<1> QED BY <1>1, <1>2, <1>3

\* CloseWrite, Close and closing the session keep the types.
LEMMA CloserSteps ==
  ASSUME Base, NEW e \in Ends
  PROVE  /\ CloseWrite(e) => Base'
         /\ SendEOF(e) => Base'
         /\ Close(e) => Base'
         /\ CloseSession(e) => Base'
<1> USE TypeFrame DEF TypeOK, Base
<1>0. /\ wire \in [Ends -> Seq(Frames)]
      /\ "EOF" \in FrameType /\ "Close" \in FrameType /\ 0 \in Nat
  BY DEF NetTypes, FrameType
<1>1. ASSUME CloseWrite(e) PROVE Base'
  <2>1. FlagTypes'
    BY <1>1 DEF CloseWrite, FlagTypes
  <2> QED BY <1>1, <2>1 DEF CloseWrite, WriterSound, writer
<1>2. ASSUME SendEOF(e) PROVE Base'
  <2>1. NetTypes' /\ sentClose' \in [Ends -> BOOLEAN]
    BY <1>0, <1>2, SendTypes DEF SendEOF
  <2>2. FlagTypes'
    BY <1>2, <2>1 DEF SendEOF, FlagTypes
  <2> QED BY <1>2, <2>1, <2>2 DEF SendEOF, WriterSound, writer
<1>3. ASSUME Close(e) PROVE Base'
  <2>1. NetTypes' /\ sentClose' \in [Ends -> BOOLEAN]
    BY <1>0, <1>3, SendTypes DEF Close
  <2>2. FlagTypes'
    BY <1>3, <2>1 DEF Close, FlagTypes
  <2> QED BY <1>3, <2>1, <2>2 DEF Close, WriterSound, writer
<1>4. ASSUME CloseSession(e) PROVE Base'
  <2>1. SessionTypes'
    BY <1>4 DEF CloseSession, SessionTypes
  <2> QED BY <1>4, <2>1 DEF CloseSession, WriterSound, writer
<1> QED BY <1>1, <1>2, <1>3, <1>4

\* Types after Teardown, for any reason it may be called with.
LEMMA TeardownTypes ==
  ASSUME Base, NEW e \in Ends, NEW why \in Errors, Teardown(e, why)
  PROVE  Base'
<1> USE TypeFrame DEF TypeOK, Base
<1>1. SessionTypes'
  BY DEF Teardown, SessionTypes
<1>2. ReceiveTypes' /\ WindowTypes' /\ FlagTypes'
  <2>1. CASE inChans[e]
    BY <2>1 DEF Teardown, ReceiveTypes, WindowTypes, FlagTypes
  <2>2. CASE ~inChans[e]
    BY <2>2 DEF Teardown, ReceiveTypes, WindowTypes, FlagTypes
  <2> QED BY <2>1, <2>2
<1> QED BY <1>1, <1>2 DEF Teardown, WriterSound, writer

\* A frame is refused with one of the session's errors.
LEMMA VerdictTypes ==
  ASSUME NEW e, NEW f
  PROVE  Verdict(e, f) \in Errors
BY DEF Verdict, Errors

\* Handling a frame, refusing it and the teardown keep the types.
LEMMA LoopSteps ==
  ASSUME Base, NEW e \in Ends, Loop(e)
  PROVE  Base'
<1> USE TypeFrame DEF TypeOK, Base
<1>1. CASE HandleData(e)
  <2> DEFINE f == Head(wire[e])
  <2>1. Rest(e) \in [Ends -> Seq(Frames)] /\ f \in Frames
    BY <1>1, RestTypes DEF HandleData, Accepts
  <2>2. NetTypes'
    BY <1>1, <2>1 DEF HandleData, NetTypes
  <2>3. myWindow[e] >= f.n
    BY <1>1, <2>1, SMTT(30) DEF HandleData, Accepts, Verdict, ReceiveTypes, Frames
  <2>4. f.n \in Nat /\ Payload(f) \in Seq(Nat)
    BY <2>1, PayloadFacts DEF Frames
  <2>5. /\ myWindow' = [myWindow EXCEPT ![e] = @ - f.n]
        /\ pending' = [pending EXCEPT ![e] = @ \o Payload(f)]
        /\ UNCHANGED <<eof, rpc, rn, got, sawEOF, session, writer, window, flags>>
    BY <1>1 DEF HandleData
  <2> HIDE DEF f
  <2>6. myWindow' \in [Ends -> Nat]
    BY <2>3, <2>4, <2>5, SMTT(30) DEF ReceiveTypes
  <2>7. pending' \in [Ends -> Seq(Nat)]
    <3>1. pending[e] \o Payload(f) \in Seq(Nat)
      BY <2>4, SMTT(30) DEF ReceiveTypes
    <3> QED BY <2>5, <3>1 DEF ReceiveTypes
  <2>8. ReceiveTypes'
    BY <2>5, <2>6, <2>7 DEF ReceiveTypes
  <2> QED BY <2>2, <2>5, <2>8 DEF WriterSound, writer
<1>2. CASE HandleEOF(e)
  <2>1. NetTypes'
    BY <1>2, RestTypes DEF HandleEOF, Accepts, NetTypes
  <2>2. ReceiveTypes'
    BY <1>2 DEF HandleEOF, ReceiveTypes
  <2> QED BY <1>2, <2>1, <2>2 DEF HandleEOF, WriterSound, writer
<1>3. CASE HandleWindowAdjust(e)
  <2>1. Rest(e) \in [Ends -> Seq(Frames)] /\ Head(wire[e]).n \in Nat
    BY <1>3, RestTypes DEF HandleWindowAdjust, Accepts, Frames
  <2>2. NetTypes'
    BY <1>3, <2>1 DEF HandleWindowAdjust, NetTypes
  <2>3. WindowTypes'
    <3> DEFINE n == Head(wire[e]).n
    <3>1. /\ win' = [win EXCEPT ![e] = @ + n]
          /\ UNCHANGED winClosed
          /\ regained' = [regained EXCEPT ![e] = @ + n]
      BY <1>3 DEF HandleWindowAdjust
    <3>2. n \in Nat /\ win \in [Ends -> Nat] /\ regained \in [Ends -> Nat]
      BY <2>1 DEF WindowTypes
    <3> HIDE DEF n
    <3>3. win[e] + n \in Nat /\ regained[e] + n \in Nat
      BY <3>2, SMTT(30)
    <3>4. win' \in [Ends -> Nat]
      BY ONLY <3>1, <3>2, <3>3
    <3>5. regained' \in [Ends -> Nat]
      BY ONLY <3>1, <3>2, <3>3
    <3> QED BY <3>1, <3>4, <3>5 DEF WindowTypes
  <2> QED BY <1>3, <2>2, <2>3 DEF HandleWindowAdjust, WriterSound, writer
<1>4. CASE HandleClose(e)
  <2>1. Rest(e) \in [Ends -> Seq(Frames)] /\ "Close" \in FrameType /\ 0 \in Nat
    BY <1>4, RestTypes DEF HandleClose, Accepts, FrameType
  <2>2. NetTypes'
    <3>1. CASE wire' = Rest(e) /\ UNCHANGED <<sent, acked, fin>>
      BY <2>1, <3>1 DEF NetTypes
    <3>2. CASE Encode(Rest(e), e, "Close", 0)
      BY <2>1, <3>2, EncodeTypes
    <3> QED BY <1>4, <3>1, <3>2 DEF HandleClose
  <2>3. SessionTypes' /\ WindowTypes'
    BY <1>4 DEF HandleClose, SessionTypes, WindowTypes
  <2>4. ReceiveTypes'
    BY <1>4 DEF HandleClose, ReceiveTypes
  <2>5. FlagTypes'
    BY <1>4 DEF HandleClose, FlagTypes
  <2> QED BY <1>4, <2>2, <2>3, <2>4, <2>5 DEF HandleClose, WriterSound, writer
<1>5. CASE Refuse(e)
  <2>1. Verdict(e, Head(wire[e])) \in Errors
    BY VerdictTypes
  <2> QED BY <1>5, <2>1, TeardownTypes DEF Refuse
<1>6. CASE TransportFails(e)
  <2>1. "EOF" \in Errors
    BY DEF Errors
  <2> QED BY <1>6, <2>1, TeardownTypes DEF TransportFails
<1> QED BY <1>1, <1>2, <1>3, <1>4, <1>5, <1>6 DEF Loop

\* Every step keeps the types.
LEMMA BaseStep ==
  ASSUME Base, [Next]_vars
  PROVE  Base'
<1>1. WriteEnds \subseteq Ends /\ EOFEnds \subseteq Ends /\ CloseEnds \subseteq Ends
      /\ AbortEnds \subseteq Ends
  BY ChannelAssumption
<1>2. CASE UNCHANGED vars
  BY <1>2, TypeFrame DEF vars, Base, TypeOK, WriterSound, writer
<1> QED BY <1>1, <1>2, WriterSteps, ReaderSteps, CloserSteps, LoopSteps DEF Next

\* Every variable of both ends keeps its type, for every choice of the
\* constants: in particular no count of bytes ever becomes negative.
THEOREM TypeCorrect == Spec => []TypeOK
<1>1. Base /\ [Next]_vars => Base'
  BY BaseStep
<1>2. Base => TypeOK
  BY DEF Base
<1> QED BY <1>1, <1>2, TypeInit, PTL DEF Spec

-------------------------------------------------------------------------------
(* Frames and the invariant *)

(***************************************************************************)
(* The inductive invariant.  A queue of frames is a chain: each frame      *)
(* starts, in the byte stream and in the credit stream of its sender,      *)
(* where the frame before it ended; the first starts where the receiver    *)
(* is, and the last ends where the sender is.  That ties what the sender   *)
(* sent to what the receiver has seen without adding up the frames.        *)
(***************************************************************************)

\* The place in the byte stream, and in the credit stream, where frame i of q
\* starts; s and a are where the sender is.
PosAt(q, s, i) == IF i =< Len(q) THEN q[i].pos ELSE s
AckAt(q, a, i) == IF i =< Len(q) THEN q[i].ack ELSE a

ChainOf(q, r, g, s, a) ==
  /\ PosAt(q, s, 1) = r /\ AckAt(q, a, 1) = g
  /\ r =< s /\ g =< a
  /\ \A i \in 1 .. Len(q) :
       /\ PosAt(q, s, i + 1) = q[i].pos + DataBytes(q[i])
       /\ AckAt(q, a, i + 1) = q[i].ack + CreditBytes(q[i])
       /\ q[i].pos + DataBytes(q[i]) =< s
       /\ q[i].ack + CreditBytes(q[i]) =< a
       /\ DataBytes(q[i]) =< MaxPacket

\* A frame that ends a stream lies at or after the place f where its sender
\* first ended it.
EndsOf(q, f) == \A i \in 1 .. Len(q) : IsEnd(q[i]) => f # NoFin /\ f =< q[i].pos

Received(e) == Len(got[e]) + Len(pending[e])

Chain(e) ==
  LET p == Peer(e) IN
  /\ ChainOf(wire[e], Received(e), regained[e], sent[p], acked[p])
  /\ EndsOf(wire[e], fin[p])
  /\ fin[p] =< sent[p]

\* What the receiver may still be sent, what it holds and what it has not given
\* back yet make up its window; what the sender may still send and has sent is
\* within what it was granted; credit is given only for bytes that were read.
Credit(e) ==
  /\ myWindow[e] + Len(pending[e]) + (IF rpc[e] = "grow" THEN rn[e] ELSE 0) = WindowSize
  /\ win[e] + wspace[e] + sent[e] =< WindowSize + regained[e]
  /\ acked[e] + rn[e] =< Len(got[e])
  /\ rpc[e] = "idle" => rn[e] = 0

\* While nothing is closed, the two inequalities are equalities.
Exact(e) ==
  ~tclosed["A"] /\ ~tclosed["B"] =>
    /\ ~winClosed[e] => win[e] + wspace[e] + sent[e] = WindowSize + regained[e]
    /\ ~sentClose[e] => acked[e] + rn[e] = Len(got[e])

\* Bytes are in order, both those read and those still to be read.
OrderOf(g, q) ==
  /\ \A i \in 1 .. Len(g) : g[i] = i
  /\ \A i \in 1 .. Len(q) : q[i] = Len(g) + i

Order(e) == OrderOf(got[e], pending[e])

\* Who has handled an end of the stream has received it up to the place where
\* it first ended, and who has reported it has read that far.
Ending(e) ==
  LET f == fin[Peer(e)] IN
  /\ err[e] = "nil" => loop[e] = "run"
  /\ eof[e] /\ err[e] = "nil" => f # NoFin /\ f =< Received(e)
  /\ sawEOF[e] /\ err[e] = "nil" => f # NoFin /\ f =< Len(got[e])

Inv(e) == Chain(e) /\ Credit(e) /\ Exact(e) /\ Order(e) /\ Ending(e)

IndInv == Base /\ FlowControlHolds /\ \A e \in Ends : Inv(e)

\* A frame encoded at the sender's place extends the chain.
LEMMA ChainAppend ==
  ASSUME NEW q \in Seq(Frames), NEW r \in Nat, NEW g \in Nat, NEW s \in Nat,
         NEW a \in Nat, NEW f \in Frames, ChainOf(q, r, g, s, a),
         f.pos = s, f.ack = a, DataBytes(f) =< MaxPacket
  PROVE  ChainOf(Append(q, f), r, g, s + DataBytes(f), a + CreditBytes(f))
<1> DEFINE Q == Append(q, f)
           S == s + DataBytes(f)
           A == a + CreditBytes(f)
<1>1. /\ Q \in Seq(Frames) /\ Len(Q) = Len(q) + 1 /\ Len(q) \in Nat
      /\ \A i \in 1 .. Len(q) : Q[i] = q[i]
      /\ Q[Len(q) + 1] = f
  BY SMTT(30)
<1>2. /\ DataBytes(f) \in Nat /\ CreditBytes(f) \in Nat
      /\ \A i \in 1 .. Len(q) :
           /\ DataBytes(q[i]) \in Nat /\ CreditBytes(q[i]) \in Nat
           /\ q[i].pos \in Nat /\ q[i].ack \in Nat
  <2>1. \A i \in 1 .. Len(q) : q[i] \in Frames
    BY SMTT(30)
  <2>2. \A x \in Frames : /\ DataBytes(x) \in Nat /\ CreditBytes(x) \in Nat
                         /\ x.pos \in Nat /\ x.ack \in Nat
    BY DEF Frames, DataBytes, CreditBytes
  <2> QED BY <2>1, <2>2
<1>3. \A i \in 1 .. Len(q) + 1 : PosAt(Q, S, i) = PosAt(q, s, i) /\ AckAt(Q, A, i) = AckAt(q, a, i)
  BY <1>1, SMTT(30) DEF PosAt, AckAt
<1>4. PosAt(Q, S, 1) = r /\ AckAt(Q, A, 1) = g
  BY <1>1, <1>3, SMTT(30) DEF ChainOf
<1>5. r =< S /\ g =< A
  BY <1>2, SMTT(30) DEF ChainOf
<1>6. ASSUME NEW i \in 1 .. Len(q)
      PROVE  /\ PosAt(Q, S, i + 1) = Q[i].pos + DataBytes(Q[i])
             /\ AckAt(Q, A, i + 1) = Q[i].ack + CreditBytes(Q[i])
             /\ Q[i].pos + DataBytes(Q[i]) =< S
             /\ Q[i].ack + CreditBytes(Q[i]) =< A
             /\ DataBytes(Q[i]) =< MaxPacket
  <2>1. i + 1 \in 1 .. Len(q) + 1
    BY <1>1, SMTT(30)
  <2>2. /\ PosAt(q, s, i + 1) = q[i].pos + DataBytes(q[i])
        /\ AckAt(q, a, i + 1) = q[i].ack + CreditBytes(q[i])
        /\ q[i].pos + DataBytes(q[i]) =< s
        /\ q[i].ack + CreditBytes(q[i]) =< a
        /\ DataBytes(q[i]) =< MaxPacket
    BY DEF ChainOf
  <2>3. Q[i] = q[i]
    BY <1>1
  <2> HIDE DEF Q, S, A
  <2>4. S >= s /\ A >= a /\ S \in Nat /\ A \in Nat
    BY <1>2, SMTT(30) DEF S, A
  <2>5. /\ q[i].pos + DataBytes(q[i]) \in Nat
        /\ q[i].ack + CreditBytes(q[i]) \in Nat
    <3>1. /\ DataBytes(q[i]) \in Nat /\ CreditBytes(q[i]) \in Nat
          /\ q[i].pos \in Nat /\ q[i].ack \in Nat
      BY <1>2
    <3> QED BY ONLY <3>1, SMTT(30)
  <2>6. /\ q[i].pos + DataBytes(q[i]) =< S
        /\ q[i].ack + CreditBytes(q[i]) =< A
    BY <2>2, <2>4, <2>5, SMTT(30)
  <2>7. /\ PosAt(Q, S, i + 1) = PosAt(q, s, i + 1)
        /\ AckAt(Q, A, i + 1) = AckAt(q, a, i + 1)
    BY <1>3, <2>1
  <2> QED BY <2>2, <2>3, <2>6, <2>7
<1>7. LET i == Len(q) + 1 IN
        /\ PosAt(Q, S, i + 1) = Q[i].pos + DataBytes(Q[i])
        /\ AckAt(Q, A, i + 1) = Q[i].ack + CreditBytes(Q[i])
        /\ Q[i].pos + DataBytes(Q[i]) =< S
        /\ Q[i].ack + CreditBytes(Q[i]) =< A
        /\ DataBytes(Q[i]) =< MaxPacket
  <2>1. ~((Len(q) + 1) + 1 =< Len(Q))
    BY <1>1, SMTT(30)
  <2>2. PosAt(Q, S, (Len(q) + 1) + 1) = S /\ AckAt(Q, A, (Len(q) + 1) + 1) = A
    BY <2>1 DEF PosAt, AckAt
  <2>3. S \in Nat /\ A \in Nat
    BY <1>2, SMTT(30)
  <2>4. S = Q[Len(q) + 1].pos + DataBytes(Q[Len(q) + 1])
    BY <1>1
  <2>5. A = Q[Len(q) + 1].ack + CreditBytes(Q[Len(q) + 1])
    BY <1>1
  <2>6. DataBytes(Q[Len(q) + 1]) =< MaxPacket
    BY <1>1
  <2> HIDE DEF Q, S, A
  <2>7. S =< S /\ A =< A
    BY ONLY <2>3
  <2> QED BY <2>2, <2>4, <2>5, <2>6, <2>7
<1> HIDE DEF Q, S, A
<1>8. \A i \in 1 .. Len(Q) : i \in 1 .. Len(q) \/ i = Len(q) + 1
  BY ONLY <1>1, SMTT(30)
<1>9. ChainOf(Q, r, g, S, A)
  BY <1>4, <1>5, <1>6, <1>7, <1>8 DEF ChainOf
<1> QED BY <1>9 DEF Q, S, A

\* The first frame starts where the receiver is; without it the chain starts
\* where it ended.
LEMMA ChainTail ==
  ASSUME NEW q \in Seq(Frames), NEW r \in Nat, NEW g \in Nat, NEW s \in Nat,
         NEW a \in Nat, ChainOf(q, r, g, s, a), q # <<>>
  PROVE  LET f == Head(q) IN
         /\ f.pos = r /\ f.ack = g
         /\ r + DataBytes(f) =< s /\ g + CreditBytes(f) =< a
         /\ DataBytes(f) =< MaxPacket
         /\ ChainOf(Tail(q), r + DataBytes(f), g + CreditBytes(f), s, a)
<1> DEFINE f == Head(q)
           Q == Tail(q)
<1>1. /\ f = q[1] /\ Len(q) \in Nat \ {0} /\ 1 \in 1 .. Len(q)
      /\ Q \in Seq(Frames) /\ Len(Q) = Len(q) - 1
      /\ \A i \in 1 .. Len(Q) : Q[i] = q[i + 1]
  BY SMTT(30)
<1>2. f.pos = r /\ f.ack = g
  BY <1>1, SMTT(30) DEF ChainOf, PosAt, AckAt
<1>3. /\ r + DataBytes(f) =< s /\ g + CreditBytes(f) =< a
      /\ DataBytes(f) =< MaxPacket
      /\ PosAt(q, s, 2) = r + DataBytes(f)
      /\ AckAt(q, a, 2) = g + CreditBytes(f)
  <2>1. /\ PosAt(q, s, 1 + 1) = q[1].pos + DataBytes(q[1])
        /\ AckAt(q, a, 1 + 1) = q[1].ack + CreditBytes(q[1])
        /\ q[1].pos + DataBytes(q[1]) =< s
        /\ q[1].ack + CreditBytes(q[1]) =< a
        /\ DataBytes(q[1]) =< MaxPacket
    BY <1>1 DEF ChainOf
  <2> QED BY <1>1, <1>2, <2>1, SMTT(30)
<1>4. \A i \in 1 .. Len(Q) + 1 : PosAt(Q, s, i) = PosAt(q, s, i + 1) /\ AckAt(Q, a, i) = AckAt(q, a, i + 1)
  BY <1>1, SMTT(30) DEF PosAt, AckAt
<1>5. /\ PosAt(Q, s, 1) = r + DataBytes(f)
      /\ AckAt(Q, a, 1) = g + CreditBytes(f)
  BY <1>1, <1>3, <1>4, SMTT(30)
<1>6. ASSUME NEW i \in 1 .. Len(Q)
      PROVE  /\ PosAt(Q, s, i + 1) = Q[i].pos + DataBytes(Q[i])
             /\ AckAt(Q, a, i + 1) = Q[i].ack + CreditBytes(Q[i])
             /\ Q[i].pos + DataBytes(Q[i]) =< s
             /\ Q[i].ack + CreditBytes(Q[i]) =< a
             /\ DataBytes(Q[i]) =< MaxPacket
  <2>1. i + 1 \in 1 .. Len(q) /\ i + 1 \in 1 .. Len(Q) + 1 /\ Q[i] = q[i + 1]
    BY <1>1, SMTT(30)
  <2>2. /\ PosAt(q, s, (i + 1) + 1) = q[i + 1].pos + DataBytes(q[i + 1])
        /\ AckAt(q, a, (i + 1) + 1) = q[i + 1].ack + CreditBytes(q[i + 1])
        /\ q[i + 1].pos + DataBytes(q[i + 1]) =< s
        /\ q[i + 1].ack + CreditBytes(q[i + 1]) =< a
        /\ DataBytes(q[i + 1]) =< MaxPacket
    BY <2>1 DEF ChainOf
  <2> HIDE DEF Q
  <2> QED BY <1>4, <2>1, <2>2
<1> HIDE DEF f, Q
<1>7. ChainOf(Q, r + DataBytes(f), g + CreditBytes(f), s, a)
  BY <1>3, <1>5, <1>6 DEF ChainOf
<1> QED BY <1>2, <1>3, <1>7 DEF f, Q

\* Taking the first frame off a queue leaves the ends in it where they were.
LEMMA EndsTail ==
  ASSUME NEW q \in Seq(Frames), NEW f, EndsOf(q, f), q # <<>>
  PROVE  /\ EndsOf(Tail(q), f)
         /\ IsEnd(Head(q)) => f # NoFin /\ f =< Head(q).pos
<1>1. /\ Head(q) = q[1] /\ 1 \in 1 .. Len(q)
      /\ \A i \in 1 .. Len(Tail(q)) : i + 1 \in 1 .. Len(q) /\ Tail(q)[i] = q[i + 1]
  BY SMTT(30)
<1> QED BY <1>1 DEF EndsOf

\* An end appended at or after the first end keeps EndsOf.
LEMMA EndsAppend ==
  ASSUME NEW q \in Seq(Frames), NEW f, NEW x \in Frames, EndsOf(q, f),
         IsEnd(x) => f # NoFin /\ f =< x.pos
  PROVE  EndsOf(Append(q, x), f)
<1>1. /\ \A i \in 1 .. Len(q) : Append(q, x)[i] = q[i]
      /\ Append(q, x)[Len(q) + 1] = x
      /\ \A i \in 1 .. Len(Append(q, x)) : i \in 1 .. Len(q) \/ i = Len(q) + 1
  BY SMTT(30)
<1> QED BY <1>1 DEF EndsOf

-------------------------------------------------------------------------------
(* What an action may leave alone: Inv(e) depends on little. *)

Receiving(e) == <<myWindow[e], pending[e], rpc[e], rn[e], got[e]>>
Sending(e) == <<win[e], wspace[e], regained[e]>>
Progress(e) == <<sent[e], acked[e], fin[e]>>
Closing(e) == <<tclosed, winClosed[e], sentClose[e]>>
Ended(e) == <<err[e], loop[e], eof[e], sawEOF[e]>>

\* Each conjunct of Inv survives a step that leaves what it speaks of alone.
LEMMA FrameInv ==
  ASSUME NEW e \in Ends
  PROVE  /\ Chain(e) /\ wire'[e] = wire[e] /\ UNCHANGED <<Receiving(e), Sending(e), Progress(Peer(e))>>
              => Chain(e)'
         /\ Credit(e) /\ UNCHANGED <<Receiving(e), Sending(e), Progress(e)>> => Credit(e)'
         /\ Exact(e) /\ UNCHANGED <<Receiving(e), Sending(e), Progress(e), Closing(e)>>
              => Exact(e)'
         /\ Order(e) /\ UNCHANGED Receiving(e) => Order(e)'
         /\ Ending(e) /\ UNCHANGED <<Receiving(e), Progress(Peer(e)), Ended(e)>>
              => Ending(e)'
<1> USE DEF Receiving, Sending, Progress, Closing, Ended
<1>1. Chain(e) /\ wire'[e] = wire[e] /\ UNCHANGED <<Receiving(e), Sending(e), Progress(Peer(e))>>
        => Chain(e)'
  BY DEF Chain, Received
<1>2. Credit(e) /\ UNCHANGED <<Receiving(e), Sending(e), Progress(e)>> => Credit(e)'
  BY DEF Credit
<1>3. Exact(e) /\ UNCHANGED <<Receiving(e), Sending(e), Progress(e), Closing(e)>> => Exact(e)'
  BY DEF Exact
<1>4. Order(e) /\ UNCHANGED Receiving(e) => Order(e)'
  BY DEF Order
<1>5. Ending(e) /\ UNCHANGED <<Receiving(e), Progress(Peer(e)), Ended(e)>> => Ending(e)'
  BY DEF Ending, Received
<1> QED BY <1>1, <1>2, <1>3, <1>4, <1>5

\* What Encode does to the two queues: one frame more for the peer, or, on a closed
\* transport, nothing.
LEMMA EncodeEffect ==
  ASSUME NEW w \in [Ends -> Seq(Frames)], NEW x \in Ends, NEW type \in FrameType,
         NEW n \in Nat, NetTypes, Encode(w, x, type, n)
  PROVE  LET p == Peer(x)
             f == Frame(x, type, n) IN
         /\ wire'[x] = w[x]
         /\ UNCHANGED Progress(p)
         /\ \/ /\ wire'[p] = Append(w[p], f)
               /\ sent'[x] = sent[x] + DataBytes(f)
               /\ acked'[x] = acked[x] + CreditBytes(f)
               /\ fin'[x] = IF IsEnd(f) /\ fin[x] = NoFin THEN sent[x] ELSE fin[x]
               /\ EncodeOK(w, x, type, n)
            \/ /\ tclosed[x] \/ tclosed[p]
               /\ wire'[p] = w[p]
               /\ UNCHANGED Progress(x)
               /\ EncodeFails(w, x)
<1> DEFINE p == Peer(x)
           f == Frame(x, type, n)
<1>1. p \in Ends /\ p # x
  BY PeerFacts
<1>2. CASE EncodeOK(w, x, type, n)
  <2>1. /\ wire' = [w EXCEPT ![p] = Append(@, f)]
        /\ sent' = [sent EXCEPT ![x] = @ + DataBytes(f)]
        /\ acked' = [acked EXCEPT ![x] = @ + CreditBytes(f)]
        /\ fin' = IF IsEnd(f) /\ fin[x] = NoFin THEN [fin EXCEPT ![x] = sent[x]] ELSE fin
    BY <1>2 DEF EncodeOK
  <2> HIDE DEF f, p
  <2>2. /\ wire'[x] = w[x] /\ wire'[p] = Append(w[p], f)
        /\ sent'[x] = sent[x] + DataBytes(f) /\ sent'[p] = sent[p]
        /\ acked'[x] = acked[x] + CreditBytes(f) /\ acked'[p] = acked[p]
        /\ fin'[p] = fin[p]
        /\ fin'[x] = IF IsEnd(f) /\ fin[x] = NoFin THEN sent[x] ELSE fin[x]
    BY <1>1, <2>1 DEF NetTypes
  <2> QED BY <1>2, <2>2 DEF f, p, Progress
<1>3. CASE EncodeFails(w, x)
  BY <1>1, <1>3 DEF EncodeFails, Progress
<1> QED BY <1>2, <1>3 DEF Encode

\* A stream that grows leaves the places in it, and where it first ended, behind.
LEMMA StillBefore ==
  ASSUME NEW s \in Nat, NEW n \in Nat, NEW f \in Nat \cup {NoFin}, f =< s
  PROVE  s =< s /\ s =< s + n /\ f =< s + n /\ s # NoFin
BY SMTT(30) DEF NoFin

\* Whatever is encoded, the stream from x to its peer stays a chain, and the
\* place where it first ended stays where it is.
LEMMA EncodeChain ==
  ASSUME NEW w \in [Ends -> Seq(Frames)], NEW x \in Ends, NEW type \in FrameType,
         NEW n \in Nat, NetTypes, Encode(w, x, type, n),
         type = "Data" => n =< MaxPacket,
         NEW r \in Nat, NEW g \in Nat,
         ChainOf(w[Peer(x)], r, g, sent[x], acked[x]),
         EndsOf(w[Peer(x)], fin[x]), fin[x] =< sent[x]
  PROVE  /\ ChainOf(wire'[Peer(x)], r, g, sent'[x], acked'[x])
         /\ EndsOf(wire'[Peer(x)], fin'[x])
         /\ fin'[x] =< sent'[x]
         /\ fin[x] # NoFin => fin'[x] = fin[x]
<1> DEFINE p == Peer(x)
           f == Frame(x, type, n)
<1>1. p \in Ends /\ w[p] \in Seq(Frames)
  BY PeerFacts
<1>2. /\ sent[x] \in Nat /\ acked[x] \in Nat /\ fin[x] \in Nat \cup {NoFin}
      /\ f \in Frames /\ f.pos = sent[x] /\ f.ack = acked[x]
      /\ DataBytes(f) \in Nat /\ CreditBytes(f) \in Nat /\ DataBytes(f) =< MaxPacket
  BY ChannelAssumption, SMTT(30) DEF NetTypes, Frame, Frames, DataBytes, CreditBytes
<1>3. CASE /\ wire'[p] = Append(w[p], f)
           /\ sent'[x] = sent[x] + DataBytes(f)
           /\ acked'[x] = acked[x] + CreditBytes(f)
           /\ fin'[x] = IF IsEnd(f) /\ fin[x] = NoFin THEN sent[x] ELSE fin[x]
  <2> HIDE DEF p, f
  <2>0. ChainOf(w[p], r, g, sent[x], acked[x]) /\ EndsOf(w[p], fin[x])
    BY DEF p
  <2>1. ChainOf(Append(w[p], f), r, g, sent[x] + DataBytes(f), acked[x] + CreditBytes(f))
    BY <1>1, <1>2, <2>0, ChainAppend
  <2>2. fin'[x] =< sent'[x] /\ (fin[x] # NoFin => fin'[x] = fin[x])
    <3>1. fin[x] # NoFin => fin'[x] = fin[x]
      BY <1>3
    <3>2. fin'[x] = sent[x] \/ fin'[x] = fin[x]
      BY <1>3
    <3>3. sent[x] =< sent[x] + DataBytes(f) /\ fin[x] =< sent[x] + DataBytes(f)
      BY <1>2, StillBefore
    <3> QED BY <1>3, <3>1, <3>2, <3>3
  <2>3. EndsOf(w[p], fin'[x])
    BY <1>3, <2>0 DEF EndsOf
  <2>4. IsEnd(f) => fin'[x] # NoFin /\ fin'[x] =< f.pos
    <3>1. IsEnd(f) => fin'[x] = sent[x] \/ (fin[x] # NoFin /\ fin'[x] = fin[x])
      BY <1>3
    <3>2. fin[x] =< sent[x] /\ sent[x] =< sent[x] /\ sent[x] # NoFin
      BY <1>2, StillBefore
    <3> QED BY <1>2, <3>1, <3>2
  <2>5. EndsOf(Append(w[p], f), fin'[x])
    BY <1>1, <1>2, <2>3, <2>4, EndsAppend
  <2> QED BY <1>3, <2>1, <2>2, <2>5 DEF p
<1>4. CASE wire'[p] = w[p] /\ UNCHANGED Progress(x)
  BY <1>4 DEF Progress
<1> QED BY <1>3, <1>4, EncodeEffect

\* An Encode at x that takes nothing else from the peer leaves the peer's part
\* of the invariant true.
LEMMA EncodePeer ==
  ASSUME NEW w \in [Ends -> Seq(Frames)], NEW x \in Ends, NEW type \in FrameType,
         NEW n \in Nat, TypeOK, Encode(w, x, type, n),
         type = "Data" => n =< MaxPacket,
         Inv(Peer(x)), w[Peer(x)] = wire[Peer(x)],
         UNCHANGED <<Receiving(Peer(x)), Sending(Peer(x)), Closing(Peer(x)), Ended(Peer(x))>>
  PROVE  Inv(Peer(x))'
<1> DEFINE p == Peer(x)
<1>1. p \in Ends /\ Peer(p) = x
  BY PeerFacts
<1>2. /\ Received(p) \in Nat /\ regained[p] \in Nat
      /\ Received(p)' = Received(p) /\ regained'[p] = regained[p]
  <2>1. Received(p) \in Nat /\ regained[p] \in Nat
    BY <1>1, SMTT(30) DEF TypeOK, ReceiveTypes, WindowTypes, Received
  <2>2. Received(p)' = Received(p) /\ regained'[p] = regained[p]
    BY DEF Received, Receiving, Sending
  <2> QED BY <2>1, <2>2
<1>3. /\ ChainOf(w[p], Received(p), regained[p], sent[x], acked[x])
      /\ EndsOf(w[p], fin[x]) /\ fin[x] =< sent[x]
  BY <1>1 DEF Inv, Chain
<1>4. /\ ChainOf(wire'[p], Received(p), regained[p], sent'[x], acked'[x])
      /\ EndsOf(wire'[p], fin'[x])
      /\ fin'[x] =< sent'[x]
      /\ fin[x] # NoFin => fin'[x] = fin[x]
  BY <1>2, <1>3, EncodeChain DEF TypeOK
<1>5. Chain(p)'
  BY <1>1, <1>2, <1>4 DEF Chain
<1>6. UNCHANGED Progress(p)
  BY EncodeEffect DEF TypeOK
<1>7. Credit(p)' /\ Exact(p)' /\ Order(p)'
  BY <1>1, <1>6, FrameInv DEF Inv
<1>8. Ending(p)'
  BY <1>1, <1>2, <1>4 DEF Inv, Ending, Ended, Receiving
<1> QED BY <1>5, <1>7, <1>8 DEF Inv

\* The invariant holds initially.
LEMMA IndInit == Init => IndInv
<1> SUFFICES ASSUME Init PROVE IndInv
  OBVIOUS
<1>1. Base
  BY TypeInit
<1>2. FlowControlHolds
  BY DEF Init, FlowControlHolds
<1>3. ASSUME NEW e \in Ends PROVE Inv(e)
  <2>1. Peer(e) \in Ends
    BY PeerFacts
  <2>2. /\ wire[e] = <<>> /\ got[e] = <<>> /\ pending[e] = <<>> /\ regained[e] = 0
        /\ sent[Peer(e)] = 0 /\ acked[Peer(e)] = 0 /\ fin[Peer(e)] = NoFin
    BY <2>1 DEF Init
  <2>3. Chain(e)
    BY <2>2, SMTT(30) DEF Chain, ChainOf, EndsOf, Received, PosAt, AckAt, NoFin
  <2>4. Credit(e) /\ Exact(e)
    <3>1. /\ myWindow[e] = WindowSize /\ rpc[e] = "idle" /\ rn[e] = 0 /\ win[e] = WindowSize
          /\ wspace[e] = 0 /\ sent[e] = 0 /\ acked[e] = 0
      BY DEF Init
    <3>2. Len(<<>>) = 0 /\ WindowSize \in Nat
      BY ChannelAssumption
    <3>3. /\ WindowSize + 0 + 0 = WindowSize /\ WindowSize + 0 + 0 =< WindowSize + 0
          /\ WindowSize + 0 + 0 = WindowSize + 0 /\ 0 + 0 =< 0 /\ 0 + 0 = 0 /\ "idle" # "grow"
      BY ONLY <3>2
    <3> QED BY <2>2, <3>1, <3>2, <3>3 DEF Credit, Exact
  <2>5. Order(e)
    BY <2>2, SMTT(30) DEF Order, OrderOf
  <2>6. Ending(e)
    BY DEF Init, Ending
  <2> QED BY <2>3, <2>4, <2>5, <2>6 DEF Inv
<1> QED BY <1>1, <1>2, <1>3 DEF IndInv

-------------------------------------------------------------------------------
(* The calls of the two ends: Write, Read, CloseWrite, Close, and closing the
   session.  x is the end that acts. *)

\* Per-end types, as the arithmetic below needs them.
LEMMA EndTypes ==
  ASSUME TypeOK, NEW e \in Ends
  PROVE  /\ wire[e] \in Seq(Frames) /\ pending[e] \in Seq(Nat) /\ got[e] \in Seq(Nat)
         /\ sent[e] \in Nat /\ acked[e] \in Nat /\ regained[e] \in Nat
         /\ win[e] \in Nat /\ wspace[e] \in Nat /\ wleft[e] \in Nat
         /\ myWindow[e] \in Nat /\ rn[e] \in Nat
         /\ fin[e] \in Nat \cup {NoFin}
         /\ Received(e) \in Nat
         /\ WindowSize \in Nat /\ MaxPacket \in Nat /\ Modulus \in Nat \ {0}
<1>1. wire[e] \in Seq(Frames) /\ sent[e] \in Nat /\ acked[e] \in Nat /\ fin[e] \in Nat \cup {NoFin}
  BY DEF TypeOK, NetTypes
<1>2. /\ pending[e] \in Seq(Nat) /\ got[e] \in Seq(Nat) /\ myWindow[e] \in Nat /\ rn[e] \in Nat
      /\ Received(e) \in Nat
  BY SMTT(30) DEF TypeOK, ReceiveTypes, Received
<1>3. win[e] \in Nat /\ wspace[e] \in Nat /\ wleft[e] \in Nat /\ regained[e] \in Nat
  BY DEF TypeOK, WindowTypes, WriterTypes
<1> QED BY <1>1, <1>2, <1>3, ChannelAssumption, SMTT(30)

\* Write and CloseWrite start by touching nothing the invariant is about.
LEMMA StartInv ==
  ASSUME IndInv, NEW x \in Ends,
         (\E k \in WriteSizes : Write(x, k)) \/ CloseWrite(x), NEW e \in Ends
  PROVE  Inv(e)'
<1>1. /\ UNCHANGED <<wire, Receiving(e), Sending(e), Closing(e), Ended(e)>>
      /\ UNCHANGED <<Progress(e), Progress(Peer(e))>>
  BY DEF Write, CloseWrite, net, session, receive, window, flags, writer,
         Receiving, Sending, Closing, Ended, Progress
<1> QED BY <1>1, FrameInv DEF IndInv, Inv

\* Closing the session at either end only weakens what Exact promises.
LEMMA CloseSessionInv ==
  ASSUME IndInv, NEW x \in Ends, CloseSession(x), NEW e \in Ends
  PROVE  Inv(e)'
<1>1. /\ UNCHANGED <<wire, Receiving(e), Sending(e), Ended(e), Progress(e), Progress(Peer(e))>>
  BY DEF CloseSession, net, receive, window, writer, flags,
         Receiving, Sending, Ended, Progress
<1>2. Exact(e)'
  BY DEF CloseSession, Exact, IndInv, Base, TypeOK, SessionTypes, Ends
<1> QED BY <1>1, <1>2, FrameInv DEF IndInv, Inv

\* The reserve of a Write moves credit from the window to the write; it makes none.
LEMMA ReserveInv ==
  ASSUME IndInv, NEW x \in Ends, Reserve(x), NEW e \in Ends
  PROVE  Inv(e)'
<1> DEFINE ask == Min32(MaxPacket, wleft[x])
           space == IF win[x] < ask THEN win[x] ELSE ask
<1>1. /\ UNCHANGED <<wire, Receiving(e), Closing(e), Ended(e), regained>>
      /\ UNCHANGED <<Progress(e), Progress(Peer(e)), sent>>
      /\ win' = [win EXCEPT ![x] = @ - space]
      /\ wspace' = [wspace EXCEPT ![x] = IF winClosed[x] THEN 0 ELSE space]
      /\ wpc[x] = "reserve"
  BY DEF Reserve, net, session, receive, flags, Receiving, Closing, Ended, Progress
<1>2. space \in Nat /\ space =< win[x]
  BY EndTypes, SMTT(30) DEF Min32, IndInv, Base
<1>3. Chain(e)'
  BY <1>1 DEF IndInv, Inv, Chain, Received, Receiving, Progress
<1>4. Credit(e)' /\ Exact(e)'
  <2> HIDE DEF space
  <2>1. CASE e = x
    <3>1. /\ win'[x] = win[x] - space
          /\ wspace'[x] = IF winClosed[x] THEN 0 ELSE space
          /\ wspace[x] = 0
      BY <1>1 DEF IndInv, Base, TypeOK, WindowTypes, WriterTypes, WriterSound
    <3>2. /\ win[x] \in Nat /\ sent[x] \in Nat /\ regained[x] \in Nat /\ WindowSize \in Nat
          /\ win[x] + wspace[x] + sent[x] =< WindowSize + regained[x]
          /\ Credit(x) /\ Exact(x)
      BY EndTypes DEF IndInv, Base, Inv, Credit
    <3>3. /\ sent'[x] = sent[x] /\ regained'[x] = regained[x]
          /\ UNCHANGED <<Receiving(x), Progress(x), Closing(x)>>
      BY <1>1, <2>1
    <3>4. win'[x] + wspace'[x] + sent'[x] =< WindowSize + regained'[x]
      BY <1>2, <3>1, <3>2, <3>3, SMTT(30)
    <3>5. Credit(x)'
      BY <3>2, <3>3, <3>4 DEF Credit, Receiving, Progress
    <3>6. ~winClosed[x] => win'[x] + wspace'[x] + sent'[x] = win[x] + wspace[x] + sent[x]
      BY <1>2, <3>1, <3>2, <3>3, SMTT(30)
    <3>7. Exact(x)'
      BY <3>2, <3>3, <3>6 DEF Exact, Receiving, Progress, Closing
    <3> QED BY <2>1, <3>5, <3>7
  <2>2. CASE e # x
    <3>1. UNCHANGED Sending(e)
      BY <1>1, <2>2 DEF IndInv, Base, TypeOK, WindowTypes, WriterTypes, Sending
    <3> QED BY <1>1, <3>1, FrameInv DEF IndInv, Inv
  <2> QED BY <2>1, <2>2
<1>5. Order(e)' /\ Ending(e)'
  BY <1>1, FrameInv DEF IndInv, Inv
<1> QED BY <1>3, <1>4, <1>5 DEF Inv

\* Only Data carries bytes, only WindowAdjust carries credit.
LEMMA FrameBytes ==
  ASSUME NEW x, NEW type, NEW n
  PROVE  /\ DataBytes(Frame(x, type, n)) = IF type = "Data" THEN n ELSE 0
         /\ CreditBytes(Frame(x, type, n)) = IF type = "WindowAdjust" THEN n ELSE 0
BY DEF Frame, DataBytes, CreditBytes

\* What encoding a frame at x adds to the bytes sent and acknowledged there.
LEMMA EncodeBytes ==
  ASSUME NEW w \in [Ends -> Seq(Frames)], NEW x \in Ends, NEW type \in FrameType,
         NEW n \in Nat, NetTypes, Encode(w, x, type, n)
  PROVE  /\ wire'[x] = w[x] /\ UNCHANGED Progress(Peer(x))
         /\ \/ /\ sent'[x] = sent[x] + (IF type = "Data" THEN n ELSE 0)
               /\ acked'[x] = acked[x] + (IF type = "WindowAdjust" THEN n ELSE 0)
            \/ /\ tclosed[x] \/ tclosed[Peer(x)]
               /\ sent'[x] = sent[x] /\ acked'[x] = acked[x]
<1>1. /\ wire'[x] = w[x] /\ UNCHANGED Progress(Peer(x))
      /\ \/ /\ sent'[x] = sent[x] + DataBytes(Frame(x, type, n))
            /\ acked'[x] = acked[x] + CreditBytes(Frame(x, type, n))
         \/ /\ tclosed[x] \/ tclosed[Peer(x)]
            /\ UNCHANGED Progress(x)
  BY EncodeEffect
<1>2. UNCHANGED Progress(x) => sent'[x] = sent[x] /\ acked'[x] = acked[x]
  BY DEF Progress
<1>3. /\ DataBytes(Frame(x, type, n)) = IF type = "Data" THEN n ELSE 0
      /\ CreditBytes(Frame(x, type, n)) = IF type = "WindowAdjust" THEN n ELSE 0
  BY FrameBytes
<1> DEFINE d == DataBytes(Frame(x, type, n))
           c == CreditBytes(Frame(x, type, n))
           dn == IF type = "Data" THEN n ELSE 0
           cn == IF type = "WindowAdjust" THEN n ELSE 0
<1>4. d = dn /\ c = cn
  BY <1>3
<1> HIDE DEF d, c, dn, cn
<1>5. /\ sent'[x] = sent[x] + d => sent'[x] = sent[x] + dn
      /\ acked'[x] = acked[x] + c => acked'[x] = acked[x] + cn
  BY <1>4
<1> QED BY <1>1, <1>2, <1>5 DEF d, c, dn, cn

\* EOF and Close carry neither, and end the stream.
LEMMA EndBytes ==
  ASSUME NEW f, f.type = "EOF" \/ f.type = "Close"
  PROVE  DataBytes(f) = 0 /\ CreditBytes(f) = 0 /\ IsEnd(f)
BY DEF DataBytes, CreditBytes, IsEnd

\* Encoding the reserved bytes turns the reservation into bytes sent; if the
\* transport is gone the reservation is lost, which Exact then allows.
LEMMA EncodeDataInv ==
  ASSUME IndInv, NEW x \in Ends, EncodeData(x), NEW e \in Ends
  PROVE  Inv(e)'
<1> DEFINE p == Peer(x)
           n == wspace[x]
<1>1. /\ p \in Ends /\ p # x /\ Peer(p) = x
      /\ TypeOK /\ n \in Nat /\ n =< MaxPacket
      /\ "Data" \in FrameType /\ wire \in [Ends -> Seq(Frames)] /\ NetTypes
  BY PeerFacts, EndTypes DEF IndInv, Base, WriterSound, FrameType, TypeOK, NetTypes
<1>2. /\ Encode(wire, x, "Data", n)
      /\ UNCHANGED <<session, receive, window, flags>>
      /\ wspace' = [wspace EXCEPT ![x] = 0]
  BY DEF EncodeData, Encode
<1>3. /\ \A y \in Ends : UNCHANGED <<Receiving(y), Closing(y), Ended(y), win[y], regained[y]>>
      /\ wspace'[x] = 0 /\ wspace'[p] = wspace[p]
  BY <1>1, <1>2 DEF session, receive, window, flags, Receiving, Closing, Ended,
                    TypeOK, WriterTypes
<1>4. UNCHANGED <<Receiving(p), Sending(p), Closing(p), Ended(p)>>
  BY <1>1, <1>3 DEF Sending
<1>5. Inv(p)'
  BY <1>1, <1>2, <1>4, EncodePeer DEF IndInv
<1>6. /\ wire'[x] = wire[x]
      /\ UNCHANGED Progress(p)
      /\ acked'[x] = acked[x]
      /\ \/ sent'[x] = sent[x] + n
         \/ (tclosed[x] \/ tclosed[p]) /\ sent'[x] = sent[x]
  <2>1. /\ wire'[x] = wire[x] /\ UNCHANGED Progress(p)
        /\ \/ /\ sent'[x] = sent[x] + (IF "Data" = "Data" THEN n ELSE 0)
              /\ acked'[x] = acked[x] + (IF "Data" = "WindowAdjust" THEN n ELSE 0)
           \/ /\ tclosed[x] \/ tclosed[p]
              /\ sent'[x] = sent[x] /\ acked'[x] = acked[x]
    BY <1>1, <1>2, EncodeBytes
  <2>2. acked[x] \in Nat
    BY <1>1, EndTypes
  <2>3. acked[x] + (IF "Data" = "WindowAdjust" THEN n ELSE 0) = acked[x]
    BY <2>2, SMTT(30)
  <2> HIDE DEF n, p
  <2> QED BY <2>1, <2>3
<1>7. Chain(x)' /\ Order(x)' /\ Ending(x)'
  <2>1. Order(x)' /\ Ending(x)'
    BY <1>3, <1>6, FrameInv DEF IndInv, Inv
  <2>2. /\ Received(x)' = Received(x) /\ regained'[x] = regained[x]
        /\ sent'[p] = sent[p] /\ acked'[p] = acked[p] /\ fin'[p] = fin[p]
    BY <1>3, <1>6 DEF Received, Receiving, Progress
  <2>3. Chain(x)'
    BY <1>6, <2>2 DEF IndInv, Inv, Chain
  <2> QED BY <2>1, <2>3
<1>8. Credit(x)' /\ Exact(x)'
  <2> HIDE DEF n
  <2>1. /\ win[x] \in Nat /\ sent[x] \in Nat /\ regained[x] \in Nat /\ WindowSize \in Nat
        /\ Credit(x) /\ Exact(x) /\ wspace[x] = n
    BY <1>1, EndTypes DEF IndInv, Inv, n
  <2>2. win[x] + n + sent[x] =< WindowSize + regained[x]
    BY <2>1 DEF Credit
  <2>3. /\ win'[x] = win[x] /\ regained'[x] = regained[x]
        /\ UNCHANGED <<Receiving(x), Closing(x)>>
    BY <1>3
  <2>4. win'[x] + wspace'[x] + sent'[x] =< WindowSize + regained'[x]
    <3>1. n \in Nat /\ wspace'[x] = 0 /\ (sent'[x] = sent[x] + n \/ sent'[x] = sent[x])
      BY <1>1, <1>3, <1>6
    <3> QED BY <2>1, <2>2, <2>3, <3>1, SMTT(30)
  <2>5. Credit(x)'
    BY <1>6, <2>1, <2>3, <2>4 DEF Credit, Receiving
  <2>6. ~tclosed["A"] /\ ~tclosed["B"]
          => win'[x] + wspace'[x] + sent'[x] = win[x] + wspace[x] + sent[x]
    <3>1. ~tclosed["A"] /\ ~tclosed["B"] => sent'[x] = sent[x] + n
      BY <1>1, <1>6 DEF Ends
    <3>2. wspace'[x] = 0 /\ n \in Nat
      BY <1>1, <1>3
    <3> QED BY <2>1, <2>3, <3>1, <3>2, SMTT(30)
  <2>7. Exact(x)'
    BY <1>6, <2>1, <2>3, <2>6 DEF Exact, Receiving, Closing
  <2> QED BY <2>5, <2>7
<1> QED BY <1>5, <1>7, <1>8, PeerFacts DEF Inv

\* What channel.send does for a frame without data: nothing after a Close of its
\* own, else one frame for the peer.
LEMMA SendInv ==
  ASSUME TypeOK, NEW x \in Ends, NEW type \in FrameType \ {"Data"}, NEW n \in Nat,
         Send(wire, x, type, n), Inv(Peer(x)),
         UNCHANGED <<Receiving(Peer(x)), Sending(Peer(x)), Ended(Peer(x)),
                     tclosed, winClosed>>
  PROVE  LET p == Peer(x) IN
         /\ Inv(p)' /\ wire'[x] = wire[x] /\ UNCHANGED Progress(p) /\ sent'[x] = sent[x]
         /\ sentClose' \in [Ends -> BOOLEAN] /\ (sentClose[x] => sentClose'[x])
         /\ \/ /\ tclosed[x] \/ tclosed[p] \/ sentClose'[x]
               /\ acked'[x] = acked[x]
            \/ acked'[x] = acked[x] + (IF type = "WindowAdjust" THEN n ELSE 0)
<1> DEFINE p == Peer(x)
<1>1. /\ p \in Ends /\ p # x /\ Peer(p) = x /\ type \in FrameType
      /\ NetTypes /\ FlagTypes /\ wire \in [Ends -> Seq(Frames)]
      /\ sent[x] \in Nat /\ acked[x] \in Nat
  BY PeerFacts DEF TypeOK, NetTypes
<1>2. CASE sentClose[x] /\ wire' = wire /\ UNCHANGED <<sent, acked, fin, sentClose>>
  <2>1. UNCHANGED <<wire, Progress(x), Progress(p), Closing(p)>>
    BY <1>2 DEF Progress, Closing
  <2>2. Inv(p)'
    BY <1>1, <2>1, FrameInv DEF Inv
  <2> QED BY <1>1, <1>2, <2>1, <2>2 DEF FlagTypes
<1>3. CASE /\ sentClose' = IF type = "Close" THEN [sentClose EXCEPT ![x] = TRUE] ELSE sentClose
           /\ Encode(wire, x, type, n)
  <2>1. /\ sentClose' \in [Ends -> BOOLEAN] /\ (sentClose[x] => sentClose'[x])
        /\ sentClose'[p] = sentClose[p]
    BY <1>1, <1>3 DEF FlagTypes
  <2>2. Inv(p)'
    BY <1>1, <1>3, <2>1, EncodePeer DEF Closing
  <2>3. /\ wire'[x] = wire[x] /\ UNCHANGED Progress(p)
        /\ sent'[x] = sent[x]
        /\ \/ acked'[x] = acked[x] + (IF type = "WindowAdjust" THEN n ELSE 0)
           \/ (tclosed[x] \/ tclosed[p]) /\ acked'[x] = acked[x]
    <3>1. /\ wire'[x] = wire[x] /\ UNCHANGED Progress(p)
          /\ \/ /\ sent'[x] = sent[x] + (IF type = "Data" THEN n ELSE 0)
                /\ acked'[x] = acked[x] + (IF type = "WindowAdjust" THEN n ELSE 0)
             \/ /\ tclosed[x] \/ tclosed[p]
                /\ sent'[x] = sent[x] /\ acked'[x] = acked[x]
      BY <1>1, <1>3, EncodeBytes
    <3>2. sent[x] + (IF type = "Data" THEN n ELSE 0) = sent[x]
      BY <1>1, SMTT(30)
    <3> HIDE DEF p
    <3> QED BY <3>1, <3>2
  <2> QED BY <2>1, <2>2, <2>3
<1> QED BY <1>2, <1>3 DEF Send

\* EOF and Close frames move neither bytes nor credit.
LEMMA EndingFrameInv ==
  ASSUME IndInv, NEW x \in Ends, SendEOF(x) \/ Close(x), NEW e \in Ends
  PROVE  Inv(e)'
<1> DEFINE p == Peer(x)
<1>1. p \in Ends /\ p # x /\ Peer(p) = x /\ TypeOK
  BY PeerFacts DEF IndInv, Base
<1>2. PICK type \in FrameType \ {"Data", "WindowAdjust"} : Send(wire, x, type, 0)
  BY DEF SendEOF, Close, FrameType
<1>3. /\ \A y \in Ends : UNCHANGED <<Receiving(y), Sending(y), Ended(y)>>
      /\ UNCHANGED <<tclosed, winClosed>>
  BY DEF SendEOF, Close, session, receive, window, writer, Receiving, Sending, Ended
<1>4. /\ Inv(p)' /\ wire'[x] = wire[x] /\ UNCHANGED Progress(p) /\ sent'[x] = sent[x]
      /\ (sentClose[x] => sentClose'[x])
      /\ acked'[x] = acked[x]
  <2>1. /\ type \in FrameType \ {"Data"} /\ type # "WindowAdjust" /\ 0 \in Nat /\ Inv(p)
        /\ UNCHANGED <<Receiving(p), Sending(p), Ended(p), tclosed, winClosed>>
    BY <1>1, <1>3 DEF IndInv
  <2>2. /\ Inv(p)' /\ wire'[x] = wire[x] /\ UNCHANGED Progress(p) /\ sent'[x] = sent[x]
        /\ (sentClose[x] => sentClose'[x])
        /\ \/ acked'[x] = acked[x]
           \/ acked'[x] = acked[x] + (IF type = "WindowAdjust" THEN 0 ELSE 0)
    BY <1>1, <1>2, <2>1, SendInv
  <2>3. acked[x] + (IF type = "WindowAdjust" THEN 0 ELSE 0) = acked[x]
    BY <1>1, EndTypes, SMTT(30)
  <2> QED BY <2>2, <2>3
<1>5. Chain(x)' /\ Order(x)' /\ Ending(x)'
  BY <1>1, <1>3, <1>4, FrameInv DEF IndInv, Inv
<1>6. Credit(x)' /\ Exact(x)'
  BY <1>1, <1>3, <1>4, SMTT(30) DEF IndInv, Inv, Credit, Exact, Receiving, Sending
<1> QED BY <1>4, <1>5, <1>6, PeerFacts DEF Inv

\* Taking the first n of the pending bytes.
GotAfter(g, q, n) == g \o SubSeq(q, 1, n)
LeftAfter(q, n) == SubSeq(q, n + 1, Len(q))

\* A Read moves the first n pending bytes behind those read before.
LEMMA Taken ==
  ASSUME NEW g \in Seq(Nat), NEW q \in Seq(Nat), NEW n \in 0 .. Len(q),
         OrderOf(g, q)
  PROVE  /\ Len(GotAfter(g, q, n)) = Len(g) + n
         /\ Len(LeftAfter(q, n)) = Len(q) - n
         /\ OrderOf(GotAfter(g, q, n), LeftAfter(q, n))
<1> USE DEF OrderOf
<1> DEFINE h == SubSeq(q, 1, n)
           G == GotAfter(g, q, n)
           Q == LeftAfter(q, n)
<1>1. h \in Seq(Nat) /\ Len(h) = n /\ \A i \in 1 .. n : h[i] = q[i]
  BY SMTT(30)
<1>2. Q \in Seq(Nat) /\ Len(Q) = Len(q) - n /\ \A i \in 1 .. Len(Q) : Q[i] = q[n + i]
  BY SMTT(30) DEF LeftAfter
<1>3. /\ G \in Seq(Nat) /\ Len(G) = Len(g) + n
      /\ \A i \in 1 .. Len(G) : G[i] = IF i =< Len(g) THEN g[i] ELSE h[i - Len(g)]
  <2>1. G = g \o h
    BY DEF GotAfter
  <2> HIDE DEF h
  <2>2. /\ g \o h \in Seq(Nat) /\ Len(g \o h) = Len(g) + Len(h)
        /\ \A i \in 1 .. Len(g) + Len(h) :
             (g \o h)[i] = IF i <= Len(g) THEN g[i] ELSE h[i - Len(g)]
    BY <1>1, ConcatFacts
  <2> QED BY <1>1, <2>1, <2>2
<1> HIDE DEF h, G, Q
<1>4. ASSUME NEW i \in 1 .. Len(G) PROVE G[i] = i
  <2>1. CASE i =< Len(g)
    <3>1. i \in 1 .. Len(g)
      BY <2>1, SMTT(30)
    <3> QED BY <1>3, <2>1, <3>1
  <2>2. CASE i > Len(g)
    <3>1. i - Len(g) \in 1 .. n /\ i - Len(g) \in 1 .. Len(q)
      BY <1>3, <2>2, SMTT(30)
    <3>2. h[i - Len(g)] = Len(g) + (i - Len(g))
      BY <1>1, <3>1
    <3> QED BY <1>3, <2>2, <3>2, SMTT(30)
  <2> QED BY <2>1, <2>2, SMTT(30)
<1>5. ASSUME NEW i \in 1 .. Len(Q) PROVE Q[i] = Len(G) + i
  <2>1. n + i \in 1 .. Len(q) /\ Q[i] = q[n + i]
    BY <1>2, SMTT(30)
  <2>2. q[n + i] = Len(g) + (n + i)
    BY <2>1
  <2>3. Len(G) + i = Len(g) + (n + i)
    <3>1. Len(g) \in Nat /\ n \in Nat /\ i \in Nat /\ Len(G) = Len(g) + n
      BY <1>2, <1>3, SMTT(30)
    <3> QED BY ONLY <3>1
  <2> QED BY <2>1, <2>2, <2>3
<1> QED BY <1>2, <1>3, <1>4, <1>5 DEF G, Q

\* A Read takes pending bytes and owes their credit; at EOF it reports that the
\* stream was read to its end.
LEMMA ReadInv ==
  ASSUME IndInv, NEW x \in Ends, NEW k \in ReadSizes, Read(x, k), NEW e \in Ends
  PROVE  Inv(e)'
<1> DEFINE n == IF k < Len(pending[x]) THEN k ELSE Len(pending[x])
<1>1. /\ TypeOK /\ ReceiveTypes /\ k \in Nat \ {0}
      /\ pending[x] \in Seq(Nat) /\ got[x] \in Seq(Nat)
      /\ Chain(x) /\ Credit(x) /\ Exact(x) /\ Order(x) /\ Ending(x)
  BY EndTypes, ChannelAssumption DEF IndInv, Base, Inv, TypeOK
<1>2. /\ n \in 0 .. Len(pending[x])
      /\ n = 0 => pending[x] = <<>>
  BY <1>1, SMTT(30)
<1>3. /\ got' = [got EXCEPT ![x] = @ \o SubSeq(pending[x], 1, n)]
      /\ pending' = [pending EXCEPT ![x] = SubSeq(@, n + 1, Len(@))]
      /\ sawEOF' = IF n = 0 THEN [sawEOF EXCEPT ![x] = TRUE] ELSE sawEOF
      /\ rn' = [rn EXCEPT ![x] = n]
      /\ rpc' = [rpc EXCEPT ![x] = IF n = 0 THEN "idle" ELSE "grow"]
      /\ UNCHANGED <<myWindow, eof, net, session, writer, window, flags>>
      /\ rpc[x] = "idle" /\ (pending[x] # <<>> \/ eof[x])
  BY DEF Read
<1> HIDE DEF n
<1>4. CASE e # x
  <2>1. UNCHANGED <<wire, Receiving(e), Sending(e), Closing(e), Ended(e),
                    Progress(e), Progress(Peer(e))>>
    BY <1>1, <1>3, <1>4 DEF net, session, writer, window, flags, ReceiveTypes,
         Receiving, Sending, Closing, Ended, Progress
  <2> QED BY <2>1, FrameInv DEF IndInv, Inv
<1>5. CASE e = x
  <2>1. /\ got'[x] = got[x] \o SubSeq(pending[x], 1, n)
        /\ pending'[x] = SubSeq(pending[x], n + 1, Len(pending[x]))
        /\ sawEOF'[x] = (IF n = 0 THEN TRUE ELSE sawEOF[x])
        /\ rn'[x] = n
        /\ rpc'[x] = (IF n = 0 THEN "idle" ELSE "grow")
    BY <1>1, <1>3 DEF ReceiveTypes
  <2>2. UNCHANGED <<wire, myWindow, eof, Sending(x), Closing(x), Progress(x),
                    Progress(Peer(x)), err, loop>>
    BY <1>3 DEF net, session, writer, window, flags, Sending, Closing, Progress
  <2>3. /\ Len(got'[x]) = Len(got[x]) + n
        /\ Len(pending'[x]) = Len(pending[x]) - n
        /\ Order(x)'
    <3>1. /\ OrderOf(got[x], pending[x])
          /\ got[x] \in Seq(Nat) /\ pending[x] \in Seq(Nat) /\ n \in 0 .. Len(pending[x])
      BY <1>1, <1>2 DEF Order
    <3>2. /\ Len(GotAfter(got[x], pending[x], n)) = Len(got[x]) + n
          /\ Len(LeftAfter(pending[x], n)) = Len(pending[x]) - n
          /\ OrderOf(GotAfter(got[x], pending[x], n), LeftAfter(pending[x], n))
      BY ONLY <3>1, Taken
    <3>3. got'[x] = GotAfter(got[x], pending[x], n) /\ pending'[x] = LeftAfter(pending[x], n)
      BY <2>1 DEF GotAfter, LeftAfter
    <3> QED BY <3>2, <3>3 DEF Order
  <2> DEFINE g == Len(got[x])
             q == Len(pending[x])
             G == Len(got'[x])
             Q == Len(pending'[x])
  <2>4. /\ g \in Nat /\ q \in Nat /\ n \in Nat /\ G = g + n /\ Q = q - n
        /\ myWindow[x] \in Nat /\ acked[x] \in Nat /\ rn[x] = 0
    <3>1. g \in Nat /\ q \in Nat /\ n \in Nat
      BY <1>1, <1>2, SMTT(30)
    <3>2. myWindow[x] \in Nat /\ acked[x] \in Nat
      BY <1>1, EndTypes
    <3>3. rn[x] = 0
      BY <1>1, <1>3 DEF Credit
    <3> QED BY <2>3, <3>1, <3>2, <3>3
  <2>a. /\ myWindow[x] + q = WindowSize
        /\ acked[x] =< g
        /\ Received(x) = g + q /\ Received(x)' = G + Q
    <3>1. /\ myWindow[x] + q + 0 = WindowSize /\ acked[x] + 0 =< g
      BY <1>1, <1>3, <2>4 DEF Credit
    <3>2. Received(x) = g + q /\ Received(x)' = G + Q
      BY DEF Received
    <3> HIDE DEF g, q, G, Q
    <3> QED BY <2>4, <3>1, <3>2, SMTT(30)
  <2> HIDE DEF g, q, G, Q
  <2>5. Received(x)' = Received(x)
    <3>0. g \in Nat /\ q \in Nat /\ n \in Nat /\ G = g + n /\ Q = q - n
      BY <2>4
    <3>1. G + Q = g + q
      BY ONLY <3>0
    <3> QED BY <2>a, <3>1
  <2>6. Chain(x)'
    BY <1>1, <2>2, <2>5 DEF Chain, Sending, Progress
  <2>7. Credit(x)'
    <3>1. myWindow'[x] + Q + (IF rpc'[x] = "grow" THEN rn'[x] ELSE 0) = WindowSize
      <4>0. /\ myWindow[x] \in Nat /\ q \in Nat /\ n \in Nat
            /\ Q = q - n /\ myWindow[x] + q = WindowSize
        BY <2>4, <2>a
      <4>1. /\ myWindow[x] + Q + n = WindowSize
            /\ n = 0 => myWindow[x] + Q + 0 = WindowSize
        BY ONLY <4>0
      <4>2. rpc'[x] = "grow" <=> n # 0
        BY <2>1
      <4> QED BY <2>1, <2>2, <4>1, <4>2
    <3>2. acked'[x] + rn'[x] =< G
      <4>0. acked[x] \in Nat /\ g \in Nat /\ n \in Nat /\ G = g + n /\ acked[x] =< g
        BY <2>4, <2>a
      <4>1. acked[x] + n =< G
        BY ONLY <4>0
      <4> QED BY <2>1, <2>2, <4>1 DEF Progress
    <3>3. rpc'[x] = "idle" => rn'[x] = 0
      BY <2>1
    <3>4. win'[x] + wspace'[x] + sent'[x] =< WindowSize + regained'[x]
      BY <1>1, <2>2 DEF Credit, Sending, Progress
    <3> QED BY <3>1, <3>2, <3>3, <3>4 DEF Credit, G, Q
  <2>8. Exact(x)'
    <3>1. acked[x] + rn[x] = g => acked'[x] + rn'[x] = G
      <4>0. acked[x] \in Nat /\ g \in Nat /\ n \in Nat /\ G = g + n /\ rn[x] = 0
        BY <2>4
      <4>1. acked[x] + rn[x] = g => acked[x] + n = G
        BY ONLY <4>0, SMTT(30)
      <4> QED BY <2>1, <2>2, <4>1 DEF Progress
    <3> QED BY <1>1, <2>2, <3>1 DEF Exact, Sending, Closing, Progress, g, G
  <2>9. Ending(x)'
    <3> DEFINE f == fin[Peer(x)]
    <3>1. f \in Nat \cup {NoFin} /\ fin'[Peer(x)] = f
      BY <1>1, <2>2, EndTypes, PeerFacts DEF Progress
    <3>2. sawEOF'[x] /\ err[x] = "nil" => f # NoFin /\ f =< G
      <4>0. /\ eof[x] /\ err[x] = "nil" => f # NoFin /\ f =< g + q
            /\ sawEOF[x] /\ err[x] = "nil" => f # NoFin /\ f =< g
        BY <1>1, <2>a DEF Ending, g
      <4> HIDE DEF f
      <4>1. CASE n = 0
        <5>1. eof[x] /\ q = 0
          BY <1>2, <1>3, <4>1 DEF q
        <5> QED BY <2>4, <4>0, <4>1, <5>1
      <4>2. CASE n # 0
        <5>1. f # NoFin /\ f =< g => f =< G
          BY <2>4, <3>1, SMTT(30) DEF NoFin
        <5> QED BY <2>1, <4>0, <4>2, <5>1
      <4> QED BY <4>1, <4>2
    <3> HIDE DEF f
    <3> QED BY <1>1, <2>2, <2>5, <3>1, <3>2 DEF Ending, f, G
  <2> QED BY <1>5, <2>3, <2>6, <2>7, <2>8, <2>9 DEF Inv
<1> QED BY <1>4, <1>5

\* adjustWindow gives the bytes read back to myWindow, without overflow.
LEMMA GrowWindowInv ==
  ASSUME IndInv, NEW x \in Ends, GrowWindow(x), NEW e \in Ends
  PROVE  Inv(e)'
<1>1. /\ TypeOK /\ ReceiveTypes
      /\ Chain(e) /\ Credit(e) /\ Exact(e) /\ Order(e) /\ Ending(e)
  BY DEF IndInv, Base, Inv, TypeOK
<1>2. /\ rpc[x] = "grow"
      /\ myWindow' = [myWindow EXCEPT ![x] = (@ + rn[x]) % Modulus]
      /\ rpc' = [rpc EXCEPT ![x] = "adjust"]
      /\ UNCHANGED <<wire, pending, rn, got, Sending(e), Closing(e), Ended(e),
                     Progress(e), Progress(Peer(e))>>
  BY DEF GrowWindow, net, session, writer, window, flags, Sending, Closing, Ended, Progress
<1>3. Chain(e)' /\ Exact(e)' /\ Order(e)' /\ Ending(e)'
  <2>1. Received(e)' = Received(e)
    BY <1>2 DEF Received
  <2>2. Chain(e)' /\ Ending(e)'
    BY <1>1, <1>2, <2>1 DEF Chain, Ending, Sending, Progress, Ended
  <2>3. Exact(e)' /\ Order(e)'
    BY <1>1, <1>2 DEF Exact, Order, Sending, Closing, Progress
  <2> QED BY <2>2, <2>3
<1>4. CASE e = x
  <2>1. /\ myWindow[x] \in Nat /\ Len(pending[x]) \in Nat /\ rn[x] \in Nat
        /\ WindowSize \in Nat /\ Modulus \in Nat /\ WindowSize < Modulus
        /\ myWindow[x] + Len(pending[x]) + rn[x] = WindowSize
    BY <1>1, <1>2, <1>4, EndTypes, ChannelAssumption, SMTT(30) DEF Credit
  <2>2. (myWindow[x] + rn[x]) % Modulus = myWindow[x] + rn[x]
    <3> DEFINE m == myWindow[x] + rn[x]
    <3>1. m \in Nat /\ m < Modulus /\ Modulus \in Nat \ {0}
      BY <2>1, SMTT(30)
    <3> HIDE DEF m
    <3>2. m % Modulus = m
      BY <3>1, SMTT(30)
    <3> QED BY <3>2 DEF m
  <2>3. myWindow'[x] = myWindow[x] + rn[x] /\ rpc'[x] = "adjust"
    BY <1>1, <1>2, <2>2 DEF ReceiveTypes
  <2>4. myWindow'[x] + Len(pending[x]) + 0 = WindowSize
    BY <2>1, <2>3, SMTT(30)
  <2>5. Credit(x)'
    BY <1>1, <1>2, <1>4, <2>3, <2>4 DEF Credit, Sending, Progress
  <2> QED BY <1>3, <1>4, <2>5 DEF Inv
<1>5. CASE e # x
  <2>1. UNCHANGED Receiving(e)
    BY <1>1, <1>2, <1>5 DEF ReceiveTypes, Receiving
  <2> QED BY <1>1, <1>2, <1>3, <2>1, FrameInv DEF Inv
<1> QED BY <1>4, <1>5

\* Whether or not the r bytes owed are now acknowledged, a stays behind the g read.
LEMMA AdjustArithmetic ==
  ASSUME NEW a \in Nat, NEW r \in Nat, NEW g \in Nat, a + r =< g
  PROVE  a + 0 =< g /\ (a + r) + 0 =< g /\ (a + r) + 0 = a + r
BY SMTT(30)

\* The WindowAdjust that follows tells the peer of the same bytes, once.
LEMMA SendAdjustInv ==
  ASSUME IndInv, NEW x \in Ends, SendAdjust(x), NEW e \in Ends
  PROVE  Inv(e)'
<1> DEFINE p == Peer(x)
<1>1. /\ p \in Ends /\ p # x /\ Peer(p) = x /\ TypeOK /\ ReceiveTypes /\ rn[x] \in Nat
      /\ Chain(x) /\ Credit(x) /\ Exact(x) /\ Order(x) /\ Ending(x) /\ Inv(p)
      /\ "WindowAdjust" \in FrameType \ {"Data"}
  BY PeerFacts, EndTypes DEF IndInv, Base, Inv, TypeOK, FrameType
<1>2. /\ Send(wire, x, "WindowAdjust", rn[x])
      /\ rpc[x] = "adjust"
      /\ rpc' = [rpc EXCEPT ![x] = "idle"]
      /\ rn' = [rn EXCEPT ![x] = 0]
      /\ UNCHANGED <<myWindow, pending, eof, got, sawEOF, session, writer, window>>
  BY DEF SendAdjust
<1>3. /\ UNCHANGED <<Receiving(p), Sending(p), Ended(p), tclosed, winClosed>>
      /\ UNCHANGED <<Sending(x), Ended(x), myWindow, pending, got>>
      /\ rn'[x] = 0 /\ rpc'[x] = "idle"
  BY <1>1, <1>2 DEF session, writer, window, ReceiveTypes, Receiving, Sending, Ended
<1>4. /\ Inv(p)' /\ wire'[x] = wire[x] /\ UNCHANGED Progress(p) /\ sent'[x] = sent[x]
      /\ sentClose' \in [Ends -> BOOLEAN] /\ (sentClose[x] => sentClose'[x])
      /\ \/ /\ tclosed[x] \/ tclosed[p] \/ sentClose'[x]
            /\ acked'[x] = acked[x]
         \/ acked'[x] = acked[x] + rn[x]
  BY <1>1, <1>2, <1>3, SendInv
<1>5. Chain(x)' /\ Order(x)' /\ Ending(x)'
  <2>1. Received(x)' = Received(x)
    BY <1>3 DEF Received
  <2> QED BY <1>1, <1>3, <1>4, <2>1 DEF Chain, Order, Ending, Sending, Progress, Ended
<1> DEFINE g == Len(got[x])
<1>6. g \in Nat /\ acked[x] \in Nat /\ acked[x] + rn[x] =< g
  <2>1. got[x] \in Seq(Nat) /\ acked[x] \in Nat
    BY <1>1, EndTypes
  <2>2. g \in Nat
    BY <2>1, SMTT(30)
  <2> QED BY <1>1, <2>1, <2>2 DEF Credit
<1>7. Credit(x)'
  <2>1. acked'[x] + rn'[x] =< g
    <3>1. acked[x] + 0 =< g /\ (acked[x] + rn[x]) + 0 =< g
      BY <1>1, <1>6, AdjustArithmetic
    <3> QED BY <1>3, <1>4, <3>1
  <2>2. myWindow[x] + Len(pending[x]) + 0 = WindowSize
    BY <1>1, <1>2 DEF Credit
  <2> QED BY <1>1, <1>3, <1>4, <2>1, <2>2 DEF Credit, Sending
<1>8. Exact(x)'
  <2>1. tclosed'["A"] = tclosed["A"] /\ tclosed'["B"] = tclosed["B"]
    BY <1>3
  <2>2. ~tclosed["A"] /\ ~tclosed["B"] /\ ~sentClose'[x] => acked'[x] + rn'[x] = acked[x] + rn[x]
    <3> HIDE DEF p
    <3>1. ~tclosed["A"] /\ ~tclosed["B"] => ~tclosed[x] /\ ~tclosed[p]
      BY <1>1 DEF Ends
    <3>2. acked'[x] = acked[x] + rn[x] => acked'[x] + rn'[x] = acked[x] + rn[x]
      <4>1. (acked[x] + rn[x]) + 0 = acked[x] + rn[x]
        BY <1>1, <1>6, AdjustArithmetic
      <4> QED BY <1>3, <4>1
    <3> QED BY <1>4, <3>1, <3>2
  <2> QED BY <1>1, <1>3, <1>4, <2>1, <2>2 DEF Exact, Sending
<1> QED BY <1>4, <1>5, <1>7, <1>8, PeerFacts DEF Inv

-------------------------------------------------------------------------------
(* The loop that handles the frames of the peer *)

\* What the invariant says of the next frame.
LEMMA HeadFacts ==
  ASSUME IndInv, NEW x \in Ends, wire[x] # <<>>
  PROVE  LET f == Head(wire[x])
             p == Peer(x) IN
         /\ f \in Frames /\ f.pos = Received(x)
         /\ Received(x) + DataBytes(f) =< sent[p]
         /\ regained[x] + CreditBytes(f) =< acked[p]
         /\ DataBytes(f) =< MaxPacket
         /\ ChainOf(Tail(wire[x]), Received(x) + DataBytes(f), regained[x] + CreditBytes(f),
                    sent[p], acked[p])
         /\ EndsOf(Tail(wire[x]), fin[p])
         /\ IsEnd(f) => fin[p] # NoFin /\ fin[p] =< Received(x)
<1> DEFINE p == Peer(x)
<1>1. /\ p \in Ends /\ TypeOK /\ wire[x] \in Seq(Frames) /\ Received(x) \in Nat
      /\ regained[x] \in Nat /\ Head(wire[x]) \in Frames
  BY PeerFacts, EndTypes, SMTT(30) DEF IndInv, Base
<1>2. sent[p] \in Nat /\ acked[p] \in Nat
  BY <1>1, EndTypes
<1>3. /\ ChainOf(wire[x], Received(x), regained[x], sent[p], acked[p])
      /\ EndsOf(wire[x], fin[p])
  BY DEF IndInv, Inv, Chain
<1>4. LET f == Head(wire[x]) IN
      /\ f.pos = Received(x)
      /\ Received(x) + DataBytes(f) =< sent[p] /\ regained[x] + CreditBytes(f) =< acked[p]
      /\ DataBytes(f) =< MaxPacket
      /\ ChainOf(Tail(wire[x]), Received(x) + DataBytes(f), regained[x] + CreditBytes(f),
                 sent[p], acked[p])
  BY <1>1, <1>2, <1>3, ChainTail
<1>5. /\ EndsOf(Tail(wire[x]), fin[p])
      /\ IsEnd(Head(wire[x])) => fin[p] # NoFin /\ fin[p] =< Head(wire[x]).pos
  BY <1>1, <1>3, EndsTail
<1> QED BY <1>1, <1>4, <1>5

\* The arithmetic of flow control: a Data frame fits the receiver's window, and
\* a WindowAdjust fits the sender's.
LEMMA FlowArithmetic ==
  ASSUME IndInv, NEW x \in Ends, wire[x] # <<>>
  PROVE  LET f == Head(wire[x]) IN
         /\ DataBytes(f) =< myWindow[x]
         /\ win[x] + CreditBytes(f) =< WindowSize
<1>0. PICK p \in Ends : p = Peer(x)
  BY PeerFacts
<1> DEFINE n == DataBytes(Head(wire[x]))
           c == CreditBytes(Head(wire[x]))
           G == Len(got[x])
           Q == Len(pending[x])
           H == Len(got[p])
           P == Len(pending[p])
<1>1. Peer(p) = x /\ TypeOK
  BY <1>0, PeerFacts DEF IndInv, Base
<1>2. /\ sent[x] \in Nat /\ acked[x] \in Nat /\ regained[x] \in Nat /\ win[x] \in Nat
      /\ wspace[x] \in Nat /\ rn[x] \in Nat /\ myWindow[x] \in Nat /\ G \in Nat /\ Q \in Nat
      /\ WindowSize \in Nat
  BY <1>1, EndTypes, SMTT(30)
<1>3. /\ sent[p] \in Nat /\ acked[p] \in Nat /\ regained[p] \in Nat /\ win[p] \in Nat
      /\ wspace[p] \in Nat /\ rn[p] \in Nat /\ H \in Nat /\ P \in Nat
  BY <1>1, EndTypes, SMTT(30)
<1>4. n \in Nat /\ c \in Nat
  <2>1. Head(wire[x]) \in Frames
    BY HeadFacts
  <2> QED BY <2>1 DEF Frames, DataBytes, CreditBytes
<1>5. Received(x) = G + Q /\ G + Q + n =< sent[p] /\ regained[x] + c =< acked[p]
  <2>1. Received(x) = G + Q
    BY DEF Received
  <2>2. Received(x) + n =< sent[p] /\ regained[x] + c =< acked[p]
    BY <1>0, HeadFacts
  <2> QED BY <2>1, <2>2
<1>6. regained[p] =< acked[x] /\ H + P =< sent[x]
  <2>1. Chain(p)
    BY <1>1 DEF IndInv, Inv
  <2> QED BY <1>1, <2>1 DEF Chain, ChainOf, Received
<1>7. /\ win[x] + wspace[x] + sent[x] =< WindowSize + regained[x]
      /\ acked[x] + rn[x] =< G
      /\ win[p] + wspace[p] + sent[p] =< WindowSize + regained[p]
      /\ acked[p] + rn[p] =< H
  BY <1>1 DEF IndInv, Inv, Credit
<1>a. WindowSize =< myWindow[x] + Q + rn[x]
  <2>1. /\ myWindow[x] + Q + (IF rpc[x] = "grow" THEN rn[x] ELSE 0) = WindowSize
    BY <1>1 DEF IndInv, Inv, Credit
  <2>2. CASE rpc[x] = "grow"
    BY <1>2, <2>1, <2>2, SMTT(30)
  <2>3. CASE rpc[x] # "grow"
    BY <1>2, <2>1, <2>3, SMTT(30)
  <2> QED BY <2>2, <2>3
<1> HIDE DEF n, c, G, Q, H, P
<1>8. n =< myWindow[x]
  <2>1. sent[p] =< WindowSize + regained[p]
    <3>1. /\ win[p] \in Nat /\ wspace[p] \in Nat /\ sent[p] \in Nat /\ regained[p] \in Nat
          /\ WindowSize \in Nat
      BY <1>2, <1>3
    <3>2. win[p] + wspace[p] + sent[p] =< WindowSize + regained[p]
      BY <1>7
    <3> QED BY ONLY <3>1, <3>2
  <2>2. regained[p] + rn[x] =< G
    <3>1. regained[p] \in Nat /\ rn[x] \in Nat /\ acked[x] \in Nat /\ G \in Nat
      BY <1>2, <1>3
    <3>2. regained[p] =< acked[x] /\ acked[x] + rn[x] =< G
      BY <1>6, <1>7
    <3> QED BY ONLY <3>1, <3>2
  <2>3. Q + n + rn[x] =< WindowSize
    <3>1. /\ regained[p] \in Nat /\ rn[x] \in Nat /\ G \in Nat /\ Q \in Nat /\ n \in Nat
          /\ sent[p] \in Nat /\ WindowSize \in Nat
      BY <1>2, <1>3, <1>4
    <3>2. G + Q + n =< sent[p]
      BY <1>5
    <3> QED BY ONLY <2>1, <2>2, <3>1, <3>2
  <2>4. Q \in Nat /\ n \in Nat /\ rn[x] \in Nat /\ WindowSize \in Nat /\ myWindow[x] \in Nat
    BY <1>2, <1>4
  <2> QED BY ONLY <1>a, <2>3, <2>4
<1>9. win[x] + c =< WindowSize
  <2>1. regained[x] + c =< sent[x]
    <3>1. /\ regained[x] \in Nat /\ c \in Nat /\ sent[x] \in Nat /\ acked[p] \in Nat
          /\ rn[p] \in Nat /\ H \in Nat /\ P \in Nat
      BY <1>2, <1>3, <1>4
    <3>2. regained[x] + c =< acked[p] /\ acked[p] + rn[p] =< H /\ H + P =< sent[x]
      BY <1>5, <1>6, <1>7
    <3> QED BY ONLY <3>1, <3>2
  <2>2. /\ regained[x] \in Nat /\ c \in Nat /\ sent[x] \in Nat /\ win[x] \in Nat
        /\ wspace[x] \in Nat /\ WindowSize \in Nat
        /\ win[x] + wspace[x] + sent[x] =< WindowSize + regained[x]
    BY <1>2, <1>4, <1>7
  <2> QED BY ONLY <2>1, <2>2
<1> QED BY <1>8, <1>9 DEF n, c

\* None of the three flow control errors can be the verdict on the next frame.
LEMMA VerdictSound ==
  ASSUME IndInv, NEW x \in Ends, wire[x] # <<>>
  PROVE  Verdict(x, Head(wire[x])) \in {"nil", "invalid channel"}
<1> DEFINE f == Head(wire[x])
<1>1. /\ f \in Frames /\ DataBytes(f) =< MaxPacket
      /\ DataBytes(f) =< myWindow[x] /\ win[x] + CreditBytes(f) =< WindowSize
  BY HeadFacts, FlowArithmetic
<1>2. /\ f.n \in Nat /\ win[x] \in Nat /\ myWindow[x] \in Nat /\ MaxPacket \in Nat
      /\ WindowSize \in Nat /\ Modulus \in Nat \ {0} /\ WindowSize < Modulus
  <2>1. TypeOK
    BY DEF IndInv, Base
  <2>2. win[x] \in Nat /\ myWindow[x] \in Nat
    BY <2>1, EndTypes
  <2>3. f.n \in Nat
    <3>1. f \in Frames
      BY <1>1
    <3> HIDE DEF f
    <3> QED BY <3>1 DEF Frames
  <2>4. /\ MaxPacket \in Nat /\ WindowSize \in Nat /\ Modulus \in Nat \ {0}
        /\ WindowSize < Modulus
    BY ChannelAssumption, SMTT(30)
  <2> QED BY <2>2, <2>3, <2>4
<1> HIDE DEF f
<1>3. CASE f.type = "Data"
  BY <1>1, <1>2, <1>3, SMTT(30) DEF Verdict, DataBytes, f
<1>4. CASE f.type = "WindowAdjust"
  <2> DEFINE m == win[x] + f.n
  <2>1. m \in Nat /\ m < Modulus /\ m >= f.n
    BY <1>1, <1>2, <1>4, SMTT(30) DEF CreditBytes
  <2> HIDE DEF m
  <2>2. m % Modulus = m
    BY <1>2, <2>1, SMTT(30)
  <2>3. ~((win[x] + f.n) % Modulus < f.n)
    BY <1>2, <2>1, <2>2, SMTT(30) DEF m
  <2> QED BY <1>4, <2>3 DEF Verdict, f
<1>5. CASE f.type \notin {"Data", "WindowAdjust"}
  BY <1>5 DEF Verdict, f
<1> QED BY <1>3, <1>4, <1>5

\* The bytes of the next Data frame follow those received.
LEMMA Arrived ==
  ASSUME NEW g \in Seq(Nat), NEW q \in Seq(Nat), NEW f \in Frames,
         f.pos = Len(g) + Len(q), OrderOf(g, q)
  PROVE  /\ Len(q \o Payload(f)) = Len(q) + f.n
         /\ OrderOf(g, q \o Payload(f))
<1> DEFINE h == Payload(f)
           Q == q \o h
<1>1. /\ h \in Seq(Nat) /\ Len(h) = f.n /\ f.n \in Nat
      /\ \A i \in 1 .. f.n : h[i] = f.pos + i
  BY PayloadFacts DEF Frames
<1>h. h \in Seq(Nat) /\ q \in Seq(Nat)
  BY <1>1
<1> HIDE DEF h
<1>2. /\ q \o h \in Seq(Nat) /\ Len(q \o h) = Len(q) + Len(h)
      /\ \A i \in 1 .. Len(q) + Len(h) :
           (q \o h)[i] = IF i <= Len(q) THEN q[i] ELSE h[i - Len(q)]
  BY ONLY <1>h, ConcatFacts
<1>3. ASSUME NEW i \in 1 .. Len(Q) PROVE Q[i] = Len(g) + i
  <2>1. Len(q) \in Nat /\ Len(g) \in Nat /\ i \in 1 .. Len(q) + Len(h) /\ i \in Nat
    BY <1>1, <1>2, SMTT(30)
  <2>2. CASE i =< Len(q)
    <3>1. i \in 1 .. Len(q)
      BY <2>1, <2>2, SMTT(30)
    <3> QED BY <1>2, <2>1, <2>2, <3>1 DEF OrderOf
  <2>3. CASE i > Len(q)
    <3>1. i - Len(q) \in 1 .. f.n
      BY <1>1, <2>1, <2>3, SMTT(30)
    <3>2. h[i - Len(q)] = (Len(g) + Len(q)) + (i - Len(q))
      BY <1>1, <3>1
    <3>3. Q[i] = h[i - Len(q)]
      BY <1>2, <2>1, <2>3, SMTT(30)
    <3>4. (Len(g) + Len(q)) + (i - Len(q)) = Len(g) + i
      BY ONLY <2>1
    <3> QED BY <3>2, <3>3, <3>4
  <2> QED BY <2>1, <2>2, <2>3, SMTT(30)
<1> HIDE DEF Q
<1>4. OrderOf(g, Q)
  BY <1>3 DEF OrderOf
<1> QED BY <1>1, <1>2, <1>4 DEF Q, h

\* Taking the next frame of x off the wire touches the queue of x only.
LEMMA RestFacts ==
  ASSUME TypeOK, NEW x \in Ends
  PROVE  /\ Rest(x)[x] = Tail(wire[x])
         /\ Rest(x)[Peer(x)] = wire[Peer(x)]
BY PeerFacts DEF TypeOK, NetTypes, Rest

\* A Data frame moves its bytes from the wire to the buffer and shrinks myWindow.
LEMMA HandleDataInv ==
  ASSUME IndInv, NEW x \in Ends, HandleData(x), NEW e \in Ends
  PROVE  Inv(e)'
<1> DEFINE f == Head(wire[x])
           p == Peer(x)
<1>1. /\ TypeOK /\ ReceiveTypes /\ p \in Ends /\ p # x /\ Peer(p) = x
      /\ Chain(x) /\ Credit(x) /\ Exact(x) /\ Order(x) /\ Ending(x) /\ Inv(p)
      /\ wire[x] # <<>> /\ f.type = "Data"
  BY PeerFacts DEF IndInv, Base, Inv, TypeOK, HandleData, Accepts
<1>2. /\ wire' = Rest(x)
      /\ myWindow' = [myWindow EXCEPT ![x] = @ - f.n]
      /\ pending' = [pending EXCEPT ![x] = @ \o Payload(f)]
      /\ UNCHANGED <<sent, acked, fin, eof, rpc, rn, got, sawEOF, session, writer, window, flags>>
  BY DEF HandleData
<1>3. /\ wire'[x] = Tail(wire[x]) /\ wire'[p] = wire[p]
      /\ myWindow'[x] = myWindow[x] - f.n /\ myWindow'[p] = myWindow[p]
      /\ pending'[x] = pending[x] \o Payload(f) /\ pending'[p] = pending[p]
  BY <1>1, <1>2, RestFacts DEF ReceiveTypes
<1>4. /\ UNCHANGED <<Sending(x), Closing(x), Ended(x), Progress(x), Progress(p), got, rpc, rn>>
      /\ UNCHANGED <<Receiving(p), Sending(p), Closing(p), Ended(p)>>
  BY <1>2, <1>3 DEF session, writer, window, flags, Sending, Closing, Ended, Progress, Receiving
<1>5. Inv(p)'
  BY <1>1, <1>3, <1>4, FrameInv DEF Inv
<1>6. /\ f \in Frames /\ f.pos = Received(x) /\ DataBytes(f) = f.n /\ CreditBytes(f) = 0
      /\ f.n \in Nat /\ regained[x] \in Nat /\ f.n =< myWindow[x]
      /\ ChainOf(Tail(wire[x]), Received(x) + f.n, regained[x], sent[p], acked[p])
      /\ EndsOf(Tail(wire[x]), fin[p])
  <2>1. DataBytes(f) = f.n /\ CreditBytes(f) = 0
    BY <1>1 DEF DataBytes, CreditBytes
  <2>2. f \in Frames /\ f.pos = Received(x) /\ EndsOf(Tail(wire[x]), fin[p])
        /\ ChainOf(Tail(wire[x]), Received(x) + DataBytes(f), regained[x] + CreditBytes(f),
                   sent[p], acked[p])
    BY <1>1, HeadFacts
  <2>3. DataBytes(f) =< myWindow[x]
    BY <1>1, FlowArithmetic
  <2>4. f.n \in Nat /\ regained[x] \in Nat
    BY <1>1, <2>2, EndTypes DEF Frames
  <2>5. regained[x] + 0 = regained[x]
    BY <2>4, SMTT(30)
  <2> QED BY <2>1, <2>2, <2>3, <2>4, <2>5
<1> HIDE DEF f
<1>7. Len(pending'[x]) = Len(pending[x]) + f.n /\ Order(x)'
  <2>1. /\ got[x] \in Seq(Nat) /\ pending[x] \in Seq(Nat) /\ OrderOf(got[x], pending[x])
        /\ f.pos = Len(got[x]) + Len(pending[x])
    BY <1>1, <1>6, EndTypes DEF Order, Received
  <2>2. /\ Len(pending[x] \o Payload(f)) = Len(pending[x]) + f.n
        /\ OrderOf(got[x], pending[x] \o Payload(f))
    BY ONLY <1>6, <2>1, Arrived
  <2> QED BY <1>3, <1>4, <2>2 DEF Order
<1> DEFINE Q == Len(pending[x])
<1>8. /\ Received(x)' = Received(x) + f.n
      /\ Received(x) \in Nat /\ Q \in Nat /\ myWindow[x] \in Nat /\ WindowSize \in Nat
  <2>1. /\ Len(got[x]) \in Nat /\ Q \in Nat /\ myWindow[x] \in Nat /\ WindowSize \in Nat
        /\ Received(x) \in Nat
    BY <1>1, EndTypes, SMTT(30)
  <2>2. Received(x)' = Len(got[x]) + (Q + f.n)
    BY <1>4, <1>7 DEF Received
  <2>3. Received(x) = Len(got[x]) + Q
    BY DEF Received
  <2>4. Len(got[x]) + (Q + f.n) = (Len(got[x]) + Q) + f.n
    <3> DEFINE g == Len(got[x])
               n == f.n
    <3>1. g \in Nat /\ Q \in Nat /\ n \in Nat
      BY <1>6, <2>1
    <3> HIDE DEF g, n, Q
    <3>2. g + (Q + n) = (g + Q) + n
      BY ONLY <3>1
    <3> QED BY <3>2 DEF g, n
  <2> QED BY <2>1, <2>2, <2>3, <2>4
<1>9. Chain(x)'
  BY <1>1, <1>3, <1>4, <1>6, <1>8 DEF Chain, Sending, Progress
<1>10. Credit(x)' /\ Exact(x)'
  <2> DEFINE r == IF rpc[x] = "grow" THEN rn[x] ELSE 0
  <2>1. r \in Nat
    BY <1>1, EndTypes
  <2>2. myWindow[x] + Q + r = WindowSize
    BY <1>1 DEF Credit
  <2> HIDE DEF r, Q
  <2>3. (myWindow[x] - f.n) + (Q + f.n) + r = WindowSize
    BY ONLY <1>6, <1>8, <2>1, <2>2
  <2>4. myWindow'[x] + Len(pending'[x]) + (IF rpc'[x] = "grow" THEN rn'[x] ELSE 0) = WindowSize
    BY <1>3, <1>4, <1>7, <2>3 DEF r, Q
  <2>5. Credit(x)'
    BY <1>1, <1>4, <2>4 DEF Credit, Sending, Progress
  <2>6. Exact(x)'
    BY <1>1, <1>4 DEF Exact, Sending, Closing, Progress
  <2> QED BY <2>5, <2>6
<1>11. Ending(x)'
  <2>1. fin[p] \in Nat \cup {NoFin}
    BY <1>1, EndTypes
  <2>2. fin[p] =< Received(x) /\ fin[p] # NoFin => fin[p] =< Received(x)'
    BY <1>6, <1>8, <2>1, SMTT(30) DEF NoFin
  <2> QED BY <1>1, <1>4, <2>2 DEF Ending, Ended, Progress
<1> QED BY <1>5, <1>7, <1>9, <1>10, <1>11, PeerFacts DEF Inv

\* An EOF frame ends the buffer where the peer ended its stream.
LEMMA HandleEOFInv ==
  ASSUME IndInv, NEW x \in Ends, HandleEOF(x), NEW e \in Ends
  PROVE  Inv(e)'
<1> DEFINE f == Head(wire[x])
           p == Peer(x)
<1>1. /\ TypeOK /\ ReceiveTypes /\ p \in Ends /\ p # x /\ Peer(p) = x /\ Inv(x) /\ Inv(p)
      /\ wire[x] # <<>> /\ f.type = "EOF"
      /\ regained[x] \in Nat /\ Received(x) \in Nat
  BY PeerFacts, EndTypes DEF IndInv, Base, TypeOK, HandleEOF, Accepts
<1>2. /\ wire'[x] = Tail(wire[x]) /\ wire'[p] = wire[p]
      /\ eof' = [eof EXCEPT ![x] = TRUE] /\ eof'[p] = eof[p]
      /\ UNCHANGED <<sent, acked, fin, myWindow, pending, rpc, rn, got, sawEOF,
                     session, writer, window, flags>>
  BY <1>1, RestFacts DEF HandleEOF, ReceiveTypes
<1>3. \A y \in Ends : UNCHANGED <<Receiving(y), Sending(y), Closing(y), Progress(y)>>
  BY <1>2 DEF session, writer, window, flags, Receiving, Sending, Closing, Progress
<1>4. UNCHANGED <<Ended(p), err, loop, sawEOF>>
  BY <1>2 DEF session, Ended
<1>5. Inv(p)'
  BY <1>1, <1>2, <1>3, <1>4, FrameInv DEF Inv
<1>6. /\ ChainOf(Tail(wire[x]), Received(x), regained[x], sent[p], acked[p])
      /\ EndsOf(Tail(wire[x]), fin[p])
      /\ fin[p] # NoFin /\ fin[p] =< Received(x)
  <2>1. DataBytes(f) = 0 /\ CreditBytes(f) = 0 /\ IsEnd(f)
    BY <1>1, EndBytes
  <2>2. Received(x) + 0 = Received(x) /\ regained[x] + 0 = regained[x]
    BY <1>1, SMTT(30)
  <2>3. /\ ChainOf(Tail(wire[x]), Received(x) + DataBytes(f), regained[x] + CreditBytes(f),
                   sent[p], acked[p])
        /\ EndsOf(Tail(wire[x]), fin[p])
        /\ IsEnd(f) => fin[p] # NoFin /\ fin[p] =< Received(x)
    BY <1>1, HeadFacts
  <2> QED BY <2>1, <2>2, <2>3
<1>7. Received(x)' = Received(x)
  BY <1>2 DEF Received
<1>8. Chain(x)'
  BY <1>1, <1>2, <1>6, <1>7 DEF Inv, Chain, window
<1>9. Credit(x)' /\ Exact(x)' /\ Order(x)'
  BY <1>1, <1>3, FrameInv DEF Inv
<1>10. Ending(x)'
  BY <1>1, <1>2, <1>4, <1>6, <1>7 DEF Inv, Ending
<1> QED BY <1>5, <1>8, <1>9, <1>10, PeerFacts DEF Inv

\* A WindowAdjust moves its credit from the wire to the window.
LEMMA HandleWindowAdjustInv ==
  ASSUME IndInv, NEW x \in Ends, HandleWindowAdjust(x), NEW e \in Ends
  PROVE  Inv(e)'
<1> DEFINE f == Head(wire[x])
           p == Peer(x)
<1>1. /\ TypeOK /\ WindowTypes /\ p \in Ends /\ p # x /\ Peer(p) = x /\ Inv(x) /\ Inv(p)
      /\ wire[x] # <<>> /\ f.type = "WindowAdjust"
      /\ regained[x] \in Nat /\ Received(x) \in Nat
  BY PeerFacts, EndTypes DEF IndInv, Base, TypeOK, HandleWindowAdjust, Accepts
<1>2. /\ wire'[x] = Tail(wire[x]) /\ wire'[p] = wire[p]
      /\ win'[x] = win[x] + f.n /\ win'[p] = win[p]
      /\ regained'[x] = regained[x] + f.n /\ regained'[p] = regained[p]
      /\ UNCHANGED <<sent, acked, fin, winClosed, session, receive, writer, flags>>
  BY <1>1, RestFacts DEF HandleWindowAdjust, WindowTypes
<1>3. /\ \A y \in Ends : UNCHANGED <<Receiving(y), Closing(y), Progress(y), Ended(y)>>
      /\ UNCHANGED <<Sending(p), wspace>>
  BY <1>2 DEF session, receive, writer, flags, Receiving, Closing, Progress, Ended, Sending
<1>4. Inv(p)'
  BY <1>1, <1>2, <1>3, FrameInv DEF Inv
<1>5. /\ ChainOf(Tail(wire[x]), Received(x), regained[x] + f.n, sent[p], acked[p])
      /\ EndsOf(Tail(wire[x]), fin[p]) /\ f.n \in Nat
  <2>1. DataBytes(f) = 0 /\ CreditBytes(f) = f.n
    BY <1>1 DEF DataBytes, CreditBytes
  <2>2. Received(x) + 0 = Received(x)
    BY <1>1, SMTT(30)
  <2>3. /\ ChainOf(Tail(wire[x]), Received(x) + DataBytes(f), regained[x] + CreditBytes(f),
                   sent[p], acked[p])
        /\ EndsOf(Tail(wire[x]), fin[p]) /\ f \in Frames
    BY <1>1, HeadFacts
  <2> QED BY <2>1, <2>2, <2>3 DEF Frames
<1>6. Received(x)' = Received(x)
  BY <1>2 DEF Received, receive
<1>7. Chain(x)'
  BY <1>1, <1>2, <1>5, <1>6 DEF Inv, Chain
<1>8. Order(x)' /\ Ending(x)'
  BY <1>1, <1>3, FrameInv DEF Inv
<1>9. Credit(x)' /\ Exact(x)'
  <2> DEFINE n == f.n
  <2>1. /\ win[x] \in Nat /\ wspace[x] \in Nat /\ sent[x] \in Nat /\ regained[x] \in Nat
        /\ WindowSize \in Nat /\ n \in Nat
    BY <1>1, <1>5, EndTypes
  <2>2. /\ win'[x] = win[x] + n /\ regained'[x] = regained[x] + n
        /\ wspace'[x] = wspace[x] /\ sent'[x] = sent[x]
    BY <1>2, <1>3
  <2> HIDE DEF n
  <2>3. win[x] + wspace[x] + sent[x] =< WindowSize + regained[x]
          => win'[x] + wspace'[x] + sent'[x] =< WindowSize + regained'[x]
    BY ONLY <2>1, <2>2, SMTT(30)
  <2>4. win[x] + wspace[x] + sent[x] = WindowSize + regained[x]
          => win'[x] + wspace'[x] + sent'[x] = WindowSize + regained'[x]
    BY ONLY <2>1, <2>2
  <2>5. Credit(x)'
    BY <1>1, <1>3, <2>3 DEF Inv, Credit, Receiving, Progress
  <2>6. Exact(x)'
    BY <1>1, <1>3, <2>4 DEF Inv, Exact, Receiving, Progress, Closing
  <2> QED BY <2>5, <2>6
<1> QED BY <1>4, <1>7, <1>8, <1>9, PeerFacts DEF Inv

\* A Close frame, answered by a Close unless one was sent, closes both directions.
LEMMA HandleCloseInv ==
  ASSUME IndInv, NEW x \in Ends, HandleClose(x), NEW e \in Ends
  PROVE  Inv(e)'
<1> DEFINE f == Head(wire[x])
           p == Peer(x)
<1>1. /\ TypeOK /\ p \in Ends /\ p # x /\ Peer(p) = x /\ Inv(x) /\ Inv(p)
      /\ wire[x] # <<>> /\ f.type = "Close" /\ "Close" \in FrameType /\ "Close" # "Data"
      /\ regained[x] \in Nat /\ Received(x) \in Nat /\ NetTypes
      /\ Rest(x) \in [Ends -> Seq(Frames)]
      /\ sent[x] \in Nat /\ acked[x] \in Nat
  <2>1. TypeOK /\ NetTypes /\ wire[x] # <<>> /\ f.type = "Close" /\ Inv(x)
    BY DEF IndInv, Base, TypeOK, HandleClose, Accepts
  <2>2. p \in Ends /\ p # x /\ Peer(p) = x /\ Inv(p)
    BY PeerFacts DEF IndInv
  <2>3. /\ regained[x] \in Nat /\ Received(x) \in Nat /\ sent[x] \in Nat /\ acked[x] \in Nat
    BY <2>1, EndTypes
  <2> QED BY <2>1, <2>2, <2>3, RestTypes DEF FrameType
<1>2. /\ eof' = [eof EXCEPT ![x] = TRUE]
      /\ sentClose' = [sentClose EXCEPT ![x] = TRUE]
      /\ winClosed' = [winClosed EXCEPT ![x] = TRUE]
      /\ UNCHANGED <<tclosed, loop, err, win, regained, myWindow, pending, rpc, rn, got,
                     sawEOF, writer>>
  BY DEF HandleClose
<1>3. /\ sentClose'[x] /\ winClosed'[x]
      /\ sentClose'[p] = sentClose[p] /\ winClosed'[p] = winClosed[p] /\ eof'[p] = eof[p]
  BY <1>1, <1>2 DEF TypeOK, FlagTypes, WindowTypes, ReceiveTypes
<1>4. /\ \A y \in Ends : UNCHANGED <<Receiving(y), Sending(y)>>
      /\ UNCHANGED <<Closing(p), Ended(p)>>
  BY <1>2, <1>3 DEF writer, Receiving, Sending, Closing, Ended
<1>5. /\ Inv(p)' /\ wire'[x] = Tail(wire[x]) /\ UNCHANGED Progress(p)
      /\ sent'[x] = sent[x] /\ acked'[x] = acked[x]
  <2>0. Rest(x)[x] = Tail(wire[x]) /\ Rest(x)[p] = wire[p]
    BY <1>1, RestFacts
  <2>1. CASE wire' = Rest(x) /\ UNCHANGED <<sent, acked, fin>>
    <3>1. UNCHANGED <<wire[p], Progress(x), Progress(p)>>
      BY <2>0, <2>1 DEF Progress
    <3>2. Inv(p)'
      BY <1>1, <1>4, <3>1, FrameInv DEF Inv
    <3> QED BY <2>0, <2>1, <3>1, <3>2
  <2>2. CASE Encode(Rest(x), x, "Close", 0)
    <3>1. Inv(p)'
      BY <1>1, <1>4, <2>0, <2>2, EncodePeer
    <3>2. 0 \in Nat /\ "Close" \in FrameType
      BY DEF FrameType
    <3>3. /\ wire'[x] = Rest(x)[x] /\ UNCHANGED Progress(p)
          /\ \/ /\ sent'[x] = sent[x] + (IF "Close" = "Data" THEN 0 ELSE 0)
                /\ acked'[x] = acked[x] + (IF "Close" = "WindowAdjust" THEN 0 ELSE 0)
             \/ sent'[x] = sent[x] /\ acked'[x] = acked[x]
      BY <1>1, <2>2, <3>2, EncodeBytes
    <3>4. /\ sent[x] + (IF "Close" = "Data" THEN 0 ELSE 0) = sent[x]
          /\ acked[x] + (IF "Close" = "WindowAdjust" THEN 0 ELSE 0) = acked[x]
      BY <1>1, SMTT(30)
    <3> QED BY <2>0, <3>1, <3>3, <3>4
  <2> QED BY <2>1, <2>2 DEF HandleClose
<1>6. /\ ChainOf(Tail(wire[x]), Received(x), regained[x], sent[p], acked[p])
      /\ EndsOf(Tail(wire[x]), fin[p])
      /\ fin[p] # NoFin /\ fin[p] =< Received(x)
  <2>1. DataBytes(f) = 0 /\ CreditBytes(f) = 0 /\ IsEnd(f)
    BY <1>1, EndBytes
  <2>2. Received(x) + 0 = Received(x) /\ regained[x] + 0 = regained[x]
    BY <1>1, SMTT(30)
  <2>3. /\ ChainOf(Tail(wire[x]), Received(x) + DataBytes(f), regained[x] + CreditBytes(f),
                   sent[p], acked[p])
        /\ EndsOf(Tail(wire[x]), fin[p])
        /\ IsEnd(f) => fin[p] # NoFin /\ fin[p] =< Received(x)
    BY <1>1, HeadFacts
  <2> QED BY <2>1, <2>2, <2>3
<1>7. Received(x)' = Received(x)
  BY <1>2 DEF Received
<1>8. Chain(x)'
  BY <1>1, <1>2, <1>5, <1>6, <1>7 DEF Inv, Chain, Progress
<1>9. Credit(x)' /\ Order(x)'
  BY <1>1, <1>4, <1>5 DEF Inv, Credit, Order, Receiving, Sending
<1>10. Exact(x)'
  BY <1>3 DEF Exact
<1>11. Ending(x)'
  BY <1>1, <1>2, <1>5, <1>6, <1>7 DEF Inv, Ending, Progress
<1> QED BY <1>5, <1>8, <1>9, <1>10, <1>11, PeerFacts DEF Inv

\* The teardown of a dying session keeps the invariant: with the transport closed
\* Exact asks for nothing, and with err set neither does Ending.
LEMMA TeardownInv ==
  ASSUME IndInv, NEW x \in Ends, NEW why \in Errors \ {"nil"}, Teardown(x, why), NEW e \in Ends
  PROVE  Inv(e)'
<1> DEFINE p == Peer(x)
<1>1. /\ TypeOK /\ SessionTypes /\ p \in Ends /\ p # x /\ Peer(p) = x /\ Inv(e)
  BY PeerFacts DEF IndInv, Base, TypeOK
<1>2. /\ tclosed'[x] /\ err'[x] = why /\ err'[p] = err[p] /\ loop'[p] = loop[p]
      /\ UNCHANGED <<wire, sawEOF, Receiving(e), Sending(e), Progress(e), Progress(Peer(e))>>
  BY <1>1 DEF Teardown, SessionTypes, net, writer, Receiving, Sending, Progress
<1>3. eof'[p] = eof[p]
  BY <1>1 DEF Teardown, TypeOK, ReceiveTypes
<1>4. Chain(e)' /\ Credit(e)' /\ Order(e)'
  BY <1>1, <1>2, FrameInv DEF Inv
<1>5. Exact(e)'
  BY <1>2 DEF Exact, Ends
<1>6. Ending(e)'
  <2>1. CASE e = x
    BY <1>2, <2>1 DEF Ending
  <2>2. CASE e = p
    <3>1. UNCHANGED Ended(e)
      BY <1>2, <1>3, <2>2 DEF Ended
    <3> QED BY <1>1, <1>2, <3>1, FrameInv DEF Inv
  <2> QED BY <2>1, <2>2, PeerFacts
<1> QED BY <1>4, <1>5, <1>6 DEF Inv

\* Whatever the loop does with the next frame, the invariant and flow control hold.
LEMMA LoopInv ==
  ASSUME IndInv, NEW x \in Ends, Loop(x), NEW e \in Ends
  PROVE  Inv(e)' /\ (FlowControlHolds)'
<1>1. CASE Refuse(x)
  <2> DEFINE v == Verdict(x, Head(wire[x]))
  <2>1. v = "invalid channel" /\ Teardown(x, v)
    BY <1>1, VerdictSound DEF Refuse
  <2>2. Inv(e)'
    BY <2>1, TeardownInv DEF Errors
  <2>3. FlowControlHolds'
    BY <2>1 DEF Teardown, FlowControlHolds, IndInv, Base, TypeOK, SessionTypes
  <2> QED BY <2>2, <2>3
<1>2. CASE TransportFails(x)
  <2>1. Teardown(x, "EOF")
    BY <1>2 DEF TransportFails
  <2>2. Inv(e)'
    BY <2>1, TeardownInv DEF Errors
  <2>3. FlowControlHolds'
    BY <2>1 DEF Teardown, FlowControlHolds, IndInv, Base, TypeOK, SessionTypes
  <2> QED BY <2>2, <2>3
<1>3. CASE HandleData(x) \/ HandleEOF(x) \/ HandleWindowAdjust(x) \/ HandleClose(x)
  <2>1. UNCHANGED err
    BY <1>3 DEF HandleData, HandleEOF, HandleWindowAdjust, HandleClose, session
  <2>2. FlowControlHolds'
    BY <2>1 DEF IndInv, FlowControlHolds
  <2> QED BY <1>3, <2>2, HandleDataInv, HandleEOFInv, HandleWindowAdjustInv, HandleCloseInv
<1> QED BY <1>1, <1>2, <1>3 DEF Loop

-------------------------------------------------------------------------------
(* The theorems *)

\* Every step of either end, and of either loop, preserves the invariant.
LEMMA Inductive ==
  ASSUME IndInv, [Next]_vars
  PROVE  IndInv'
<1>1. WriteEnds \subseteq Ends /\ EOFEnds \subseteq Ends /\ CloseEnds \subseteq Ends
      /\ AbortEnds \subseteq Ends
  BY ChannelAssumption
<1>2. Base'
  BY BaseStep DEF IndInv
<1>3. CASE UNCHANGED vars
  <2>1. UNCHANGED err
    BY <1>3 DEF vars, session
  <2>2. FlowControlHolds'
    BY <2>1 DEF IndInv, FlowControlHolds
  <2>3. ASSUME NEW e \in Ends PROVE Inv(e)'
    <3>1. UNCHANGED <<wire, Receiving(e), Sending(e), Closing(e), Ended(e),
                      Progress(e), Progress(Peer(e))>>
      BY <1>3 DEF vars, net, session, receive, writer, window, flags,
           Receiving, Sending, Closing, Ended, Progress
    <3> QED BY <3>1, FrameInv DEF IndInv, Inv
  <2> QED BY <1>2, <2>2, <2>3 DEF IndInv
<1>4. ASSUME NEW x \in Ends, Loop(x) PROVE IndInv'
  <2>1. FlowControlHolds'
    BY <1>4, LoopInv
  <2>2. \A e \in Ends : Inv(e)'
    BY <1>4, LoopInv
  <2> QED BY <1>2, <2>1, <2>2 DEF IndInv
<1>5. ASSUME NEW x \in Ends,
             \/ \E k \in WriteSizes : Write(x, k)
             \/ CloseWrite(x) \/ Close(x) \/ CloseSession(x)
             \/ \E k \in ReadSizes : Read(x, k)
             \/ Reserve(x) \/ EncodeData(x) \/ GrowWindow(x) \/ SendAdjust(x) \/ SendEOF(x)
      PROVE  IndInv'
  <2>1. UNCHANGED err
    BY <1>5 DEF Write, CloseWrite, Close, CloseSession, Read, Reserve, EncodeData,
         GrowWindow, SendAdjust, SendEOF, session
  <2>2. FlowControlHolds'
    BY <2>1 DEF IndInv, FlowControlHolds
  <2>3. \A e \in Ends : Inv(e)'
    BY <1>5, StartInv, CloseSessionInv, ReserveInv, EncodeDataInv, EndingFrameInv,
       ReadInv, GrowWindowInv, SendAdjustInv
  <2> QED BY <1>2, <2>2, <2>3 DEF IndInv
<1> QED BY <1>1, <1>3, <1>4, <1>5 DEF Next

\* The inductive invariant holds in every behaviour.
LEMMA Invariance == Spec => []IndInv
<1>1. IndInv /\ [Next]_vars => IndInv'
  BY Inductive
<1> QED BY <1>1, IndInit, PTL DEF Spec

\* For every window size, packet size, transport capacity and mix of calls: no
\* loop ever returns one of the three flow control errors of channel.go.
THEOREM FlowControl == Spec => []FlowControlHolds
<1>1. IndInv => FlowControlHolds
  BY DEF IndInv
<1> QED BY <1>1, Invariance, PTL

\* Neither window ever exceeds its initial setting, so the comment of
\* adjustWindow is right that the uint32 addition cannot overflow.
THEOREM WindowsStayBounded == Spec => []WindowsBounded
<1>1. IndInv => WindowsBounded
  <2> SUFFICES ASSUME IndInv, NEW e \in Ends
               PROVE  win[e] =< WindowSize /\ myWindow[e] =< WindowSize
    BY DEF WindowsBounded
  <2> DEFINE p == Peer(e)
             H == Len(got[p])
             P == Len(pending[p])
             Q == Len(pending[e])
             r == IF rpc[e] = "grow" THEN rn[e] ELSE 0
  <2>1. p \in Ends /\ Peer(p) = e /\ TypeOK
    BY PeerFacts DEF IndInv, Base
  <2>2. /\ sent[e] \in Nat /\ regained[e] \in Nat /\ win[e] \in Nat /\ wspace[e] \in Nat
        /\ myWindow[e] \in Nat /\ Q \in Nat /\ r \in Nat /\ WindowSize \in Nat
    BY <2>1, EndTypes, SMTT(30)
  <2>3. acked[p] \in Nat /\ rn[p] \in Nat /\ H \in Nat /\ P \in Nat
    BY <2>1, EndTypes, SMTT(30)
  <2>4. /\ myWindow[e] + Q + r = WindowSize
        /\ win[e] + wspace[e] + sent[e] =< WindowSize + regained[e]
        /\ acked[p] + rn[p] =< H
    BY <2>1 DEF IndInv, Inv, Credit
  <2>5. regained[e] =< acked[p] /\ H + P =< sent[e]
    BY <2>1 DEF IndInv, Inv, Chain, ChainOf, Received
  <2> HIDE DEF H, P, Q, r
  <2>6. myWindow[e] =< WindowSize
    BY ONLY <2>2, <2>4, SMTT(30)
  <2>7. regained[e] =< sent[e]
    BY ONLY <2>2, <2>3, <2>4, <2>5, SMTT(30)
  <2>8. win[e] =< WindowSize
    BY ONLY <2>2, <2>4, <2>7, SMTT(30)
  <2> QED BY <2>6, <2>8
<1> QED BY <1>1, Invariance, PTL

\* While nothing is closed no byte of credit is lost or made up.
THEOREM CreditIsConserved == Spec => []CreditConserved
<1>1. IndInv => CreditConserved
  <2> SUFFICES ASSUME IndInv, NEW e \in Ends,
                      ~sentClose[Peer(e)], ~winClosed[e], ~tclosed["A"], ~tclosed["B"]
               PROVE  win[e] + wspace[e] + (sent[e] - Len(got[Peer(e)]))
                        + rn[Peer(e)] + (acked[Peer(e)] - regained[e]) = WindowSize
    BY DEF CreditConserved
  <2> DEFINE p == Peer(e)
             H == Len(got[p])
  <2>1. p \in Ends /\ TypeOK
    BY PeerFacts DEF IndInv, Base
  <2>2. /\ sent[e] \in Nat /\ regained[e] \in Nat /\ win[e] \in Nat /\ wspace[e] \in Nat
        /\ WindowSize \in Nat
    BY <2>1, EndTypes
  <2>3. acked[p] \in Nat /\ rn[p] \in Nat /\ H \in Nat
    BY <2>1, EndTypes, SMTT(30)
  <2>4. /\ win[e] + wspace[e] + sent[e] = WindowSize + regained[e]
        /\ acked[p] + rn[p] = H
    BY <2>1 DEF IndInv, Inv, Exact
  <2> HIDE DEF H
  <2>5. win[e] + wspace[e] + (sent[e] - H) + rn[p] + (acked[p] - regained[e]) = WindowSize
    BY ONLY <2>2, <2>3, <2>4, SMTT(30)
  <2> QED BY <2>5 DEF H
<1> QED BY <1>1, Invariance, PTL

\* What Reads return is a prefix of what the peer sent, in order and gapless.
THEOREM DeliveryInOrder == Spec => []BytesInOrder
<1>1. IndInv => BytesInOrder
  BY DEF IndInv, Inv, Order, OrderOf, BytesInOrder
<1> QED BY <1>1, Invariance, PTL

\* io.EOF from a Read of a living session stands for the whole stream.
THEOREM EOFComplete == Spec => []EOFMeansComplete
<1>1. IndInv => EOFMeansComplete
  <2> SUFFICES ASSUME IndInv, NEW e \in Ends, sawEOF[e], err[e] = "nil"
               PROVE  fin[Peer(e)] # NoFin /\ Len(got[e]) >= fin[Peer(e)]
    BY DEF EOFMeansComplete
  <2>1. fin[Peer(e)] # NoFin /\ fin[Peer(e)] =< Len(got[e])
    BY DEF IndInv, Inv, Ending
  <2>2. fin[Peer(e)] \in Nat \cup {NoFin} /\ Len(got[e]) \in Nat
    BY EndTypes, PeerFacts, SMTT(30) DEF IndInv, Base
  <2> QED BY <2>1, <2>2 DEF NoFin
<1> QED BY <1>1, Invariance, PTL

===============================================================================
