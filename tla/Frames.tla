-------------------------------- MODULE Frames --------------------------------
(***************************************************************************)
(* src/mux/frame: messages as bytes on a transport.  Goroutines Encode     *)
(* under the encoder's mutex; a Write passes its bytes to the transport in *)
(* pieces; the loop of the peer's session Decodes, with one io.ReadFull    *)
(* for the type, one for the fixed fields and, for Data, one for the       *)
(* payload, each satisfied in pieces.                                      *)
(*                                                                         *)
(* Bytes are digits in base Base, a uint32 is Width of them, and types are *)
(* counted from 0 instead of 100; the code has 256 and 4.                  *)
(***************************************************************************)
EXTENDS Integers, Sequences, SequencesExt

CONSTANTS
  Base, Width,
  Senders,    \* goroutines that Encode
  Msgs,       \* the messages they encode
  MaxMsgs,    \* bound on the calls of Encode
  Capacity,   \* bytes the transport buffers
  Cuts        \* how the transport may end: "closed" by the sender, or "reset"

VARIABLES
  holder,     \* the goroutine that holds Encoder.Mutex
  rest,       \* the bytes its Write has not put out yet
  stream,     \* bytes on the transport
  cut,        \* "none", or how the transport ended
  step,       \* the ReadFull of Decode under way: "num", "fields" or "data"
  buf,        \* the bytes it has
  msg,        \* the message under construction
  err,        \* the error Decode returned; the session then decodes no more
  sent,       \* history: messages whose Encode began, in order
  got         \* history: messages Decode returned

vars == <<holder, rest, stream, cut, step, buf, msg, err, sent, got>>

Nobody == "nobody"
Types == <<"Open", "OpenConfirm", "OpenFailure", "WindowAdjust", "Data", "EOF", "Close">>

\* A message: its uint32 fields in the order of its struct, and the payload.
Message(type, fields, data) == [type |-> type, fields |-> fields, data |-> data]

OpenMessage(sender, window, packet) == Message("Open", <<sender, window, packet>>, <<>>)
OpenConfirmMessage(id, sender, window, packet) ==
  Message("OpenConfirm", <<id, sender, window, packet>>, <<>>)
OpenFailureMessage(id) == Message("OpenFailure", <<id>>, <<>>)
WindowAdjustMessage(id, bytes) == Message("WindowAdjust", <<id, bytes>>, <<>>)
DataMessage(id, data) == Message("Data", <<id, Len(data)>>, data)
EOFMessage(id) == Message("EOF", <<id>>, <<>>)
CloseMessage(id) == Message("Close", <<id>>, <<>>)

\* How many uint32 fields a message has ahead of its payload.
FieldCount(type) ==
  CASE type = "Open" -> 3
    [] type = "OpenConfirm" -> 4
    [] type \in {"WindowAdjust", "Data"} -> 2
    [] OTHER -> 1

MsgNum(type) == CHOOSE i \in 0 .. Len(Types) - 1 : Types[i + 1] = type

\* A mistake to catch: the bytes of a field in the order of the host.
PutUint32Little(n) == [i \in 1 .. Width |-> (n \div Base ^ (i - 1)) % Base]

\* binary.BigEndian, one way and the other.
PutUint32(n) == [i \in 1 .. Width |-> (n \div Base ^ (Width - i)) % Base]
Uint32(bs) == FoldLeft(LAMBDA n, b : n * Base + b, 0, bs)

\* The Bytes of every message: its number, its fields, its payload.
Bytes(m) ==
  <<MsgNum(m.type)>> \o FlattenSeq([i \in 1 .. Len(m.fields) |-> PutUint32(m.fields[i])])
    \o m.data

\* binary.Read of the fields.
Fields(bs) ==
  [i \in 1 .. Len(bs) \div Width |-> Uint32(SubSeq(bs, (i - 1) * Width + 1, i * Width))]

NoMsg == Message("none", <<>>, <<>>)

Init ==
  /\ holder = Nobody /\ rest = <<>>
  /\ stream = <<>> /\ cut = "none"
  /\ step = "num" /\ buf = <<>> /\ msg = NoMsg /\ err = "nil"
  /\ sent = <<>> /\ got = <<>>

-------------------------------------------------------------------------------
(* Encoder *)

\* Encode takes the lock and calls Write.  (On a transport already cut, Write
\* fails and nothing changes.)
Encode(s, m) ==
  /\ cut = "none"
  /\ Len(sent) < MaxMsgs
  /\ holder = Nobody
  /\ holder' = s
  /\ rest' = Bytes(m)
  /\ sent' = Append(sent, m)
  /\ UNCHANGED <<stream, cut, step, buf, msg, err, got>>

\* The transport takes some of the bytes; with the last one Encode returns.
WriteSome(k) ==
  /\ cut = "none" /\ holder # Nobody
  /\ k =< Len(rest) /\ Len(stream) + k =< Capacity
  /\ stream' = stream \o SubSeq(rest, 1, k)
  /\ rest' = SubSeq(rest, k + 1, Len(rest))
  /\ holder' = IF k = Len(rest) THEN Nobody ELSE holder
  /\ UNCHANGED <<cut, step, buf, msg, err, sent, got>>

\* The transport ends, under a Write or not: the Write fails, and rest is what it
\* did not put out.  A reset loses what was on the transport.
Cut(how) ==
  /\ cut = "none"
  /\ cut' = how
  /\ holder' = Nobody
  /\ stream' = IF how = "reset" THEN <<>> ELSE stream
  /\ UNCHANGED <<rest, step, buf, msg, err, sent, got>>

-------------------------------------------------------------------------------
(* Decoder *)

\* The length of the ReadFull under way.
Need ==
  CASE step = "num" -> 1
    [] step = "fields" -> Width * FieldCount(msg.type)
    [] step = "data" -> msg.fields[2]

\* Decode returns m, and is called again.
Return(m) ==
  /\ got' = Append(got, m)
  /\ step' = "num" /\ buf' = <<>> /\ msg' = NoMsg
  /\ UNCHANGED err

\* What Decode does with the bytes bs of a ReadFull that is complete.
Advance(bs) ==
  CASE step = "num" ->
         IF bs[1] < Len(Types)
         THEN /\ msg' = [NoMsg EXCEPT !.type = Types[bs[1] + 1]]
              /\ step' = "fields" /\ buf' = <<>>
              /\ UNCHANGED <<err, got>>
         ELSE /\ err' = "unexpected message type"
              /\ UNCHANGED <<step, buf, msg, got>>
    [] step = "fields" ->
         LET m == [msg EXCEPT !.fields = Fields(bs)] IN
         IF msg.type = "Data"
         THEN msg' = m /\ step' = "data" /\ buf' = <<>> /\ UNCHANGED <<err, got>>
         ELSE Return(m)
    [] step = "data" -> Return([msg EXCEPT !.data = bs])

\* ReadFull gets k more bytes; it asks for none when it needs none.
ReadSome(k) ==
  /\ err = "nil"
  /\ k =< Len(stream) /\ Len(buf) + k =< Need
  /\ k = 0 => Need = 0
  /\ stream' = SubSeq(stream, k + 1, Len(stream))
  /\ IF Len(buf) + k = Need
     THEN Advance(buf \o SubSeq(stream, 1, k))
     ELSE buf' = buf \o SubSeq(stream, 1, k) /\ UNCHANGED <<step, msg, err, got>>
  /\ UNCHANGED <<holder, rest, cut, sent>>

\* ReadFull fails: io.EOF if it had no byte yet, and a reset counts as io.EOF
\* between messages.
ReadFails ==
  /\ err = "nil" /\ cut # "none"
  /\ stream = <<>> /\ Need > 0
  /\ err' = IF cut = "reset" THEN (IF step = "num" THEN "EOF" ELSE "reset")
            ELSE IF buf = <<>> THEN "EOF" ELSE "unexpected EOF"
  /\ UNCHANGED <<holder, rest, stream, cut, step, buf, msg, sent, got>>

-------------------------------------------------------------------------------

Read == \E k \in 0 .. Capacity : ReadSome(k)
Write == \E k \in 1 .. Capacity : WriteSome(k)

Next ==
  \/ \E s \in Senders, m \in Msgs : Encode(s, m)
  \/ \E how \in Cuts : Cut(how)
  \/ Write \/ Read \/ ReadFails

Spec == Init /\ [][Next]_vars

\* A Write under way goes on, and so does the loop that decodes.
FairSpec == Spec /\ WF_vars(Write) /\ WF_vars(Read) /\ WF_vars(ReadFails)

-------------------------------------------------------------------------------

Digits == 0 .. Base - 1

\* Only bytes are written, and the mutex is held exactly while a Write has bytes
\* left to put out.
TypeOK ==
  /\ rest \in Seq(Digits) /\ stream \in Seq(Digits) /\ buf \in Seq(Digits)
  /\ holder \in Senders \cup {Nobody} /\ (holder = Nobody <=> rest = <<>> \/ cut # "none")
  /\ cut \in Cuts \cup {"none"} /\ step \in {"num", "fields", "data"}
  /\ err \in {"nil", "EOF", "unexpected EOF", "reset", "unexpected message type"}
  /\ sent \in Seq(Msgs)

\* Two ends that run this code never lose the boundaries of messages: Decode
\* returns an error only when the transport ended, and then it has returned
\* every message whose Encode returned, unless the transport was reset.
ErrorsMeanCut ==
  err # "nil" =>
    /\ cut # "none" /\ err # "unexpected message type"
    /\ cut = "closed" => Len(got) = Len(sent) - IF rest = <<>> THEN 0 ELSE 1

Link == INSTANCE FrameLink WITH
  inflight <- SubSeq(sent, Len(got) + 1, Len(sent)),
  taken <- got,
  broken <- cut # "none"

\* Encoder and Decoder over any cutting-up of the bytes implement a queue of whole
\* messages: what is decoded is what was encoded, in order, with no message torn
\* by another goroutine's; and while the transport holds all of it is decoded.
ImplementsLink == Link!LFairSpec

===============================================================================
