------------------------------ MODULE RpcProofs -------------------------------
(***************************************************************************)
(* Calls report what their handlers did, and orderly calls leave the       *)
(* session alive, for every call: any number of args and replies, any      *)
(* number of values the handler returns, whatever is cancelled or closed.  *)
(***************************************************************************)
EXTENDS Rpc, TLAPS

\* Leaves that name no prover go to the SMT solver, and then to Zenon.
USE SMTT(30), Z3T(30), ZenonT(30)

\* What travels: values, and the Close of a channel.
Data == [type : {"none", "call", "arg", "header", "value"}, n : Nat,
         err : BOOLEAN, cont : BOOLEAN]
IsClose(m) == m.type = "close"
Msgs == Data \cup {Value("close", 0)}

\* The response of handler h: the header, then its values, numbered.
Response(h, k) ==
  IF k = 1 THEN Header(h.respond = "error", h.respond = "continue")
  ELSE Value("value", k - 1)

\* s holds the response from place b + 1 on, up to a Close if it holds one.
HasClose(s) == \E i \in 1 .. Len(s) : IsClose(s[i])
Follows(s, h, b) ==
  \A i \in 1 .. Len(s) :
    (\A j \in 1 .. i : ~IsClose(s[j])) => s[i] = Response(h, b + i)

\* How much of the response Call has decoded, while it does, and how much of it
\* has been encoded, while respond is at it.
Reading == cpc \in {"request", "encode", "header", "reply"}
Decoded == IF cpc = "reply" THEN 1 + Len(replies) ELSE 0
Responding == spc \notin {"final", "done"}
Produced == IF spc \in {"values", "encodeValue"} THEN 1 + Values - left ELSE 0

\* Call has nothing more to encode.
CallSilent == cpc \notin {"request", "encode"}

Types ==
  /\ cli \in Callers /\ beh \in Handlers
  /\ wire \in [Ends -> Seq(Msgs)] /\ pend \in [Ends -> Seq(Data)]
  /\ eof \in [Ends -> BOOLEAN] /\ sentClose \in [Ends -> BOOLEAN]
  /\ winClosed \in [Ends -> BOOLEAN] /\ listed \in [Ends -> BOOLEAN]
  /\ dead \in {"nil", "closed", "invalidChannel"}
  /\ out \in [Ends -> Data]
  /\ cpc \in {"request", "encode", "header", "reply", "close", "check", "done"}
  /\ res \in {"nil", "err", "RemoteError", "ctx"}
  /\ todo \in Seq(Data) /\ replies \in Seq(Data) /\ header \in Data
  /\ CallSilent \/ todo # <<>>
  /\ ctx \in BOOLEAN
  /\ spc \in {"decode", "receive", "header", "values", "encodeHeader",
              "encodeValue", "final", "done"}
  /\ left \in Nat /\ cont \in BOOLEAN

\* What is under way to Call continues what it has decoded, and nothing is missing.
Flowing ==
  Reading =>
    /\ Follows(pend["C"], beh, Decoded)
    /\ listed["C"] =>
         /\ Follows(wire["C"], beh, Decoded + Len(pend["C"]))
         /\ Responding /\ ~HasClose(wire["C"])
              => Decoded + Len(pend["C"]) + Len(wire["C"]) = Produced

\* What respond is about to encode is the next of the response.
Producing ==
  /\ beh.respond = "hang" => spc \in {"decode", "receive", "done"}
  /\ spc = "header" => cont = (beh.respond = "continue")
  /\ spc \in {"values", "encodeValue"} => left =< Values
  /\ spc = "encodeValue" => left > 0
  /\ spc \in {"encodeHeader", "encodeValue"} => out["S"] = Response(beh, Produced + 1)

\* What Call has decoded.
Decoding ==
  /\ Reading => res = "nil"
  /\ cpc \in {"request", "encode", "header"} => replies = <<>>
  /\ cpc = "reply" => Len(replies) < cli.replies \/ (cli.replies = 0 /\ replies = <<>>)
  /\ cpc \in {"close", "check", "done"} /\ res = "nil" => Len(replies) = cli.replies
  /\ cpc \in {"reply", "close", "check", "done"} /\ res = "nil" =>
       /\ beh.respond # "error"
       /\ header = Response(beh, 1)
       /\ Follows(replies, beh, 1)
  /\ res = "RemoteError" => beh.respond = "error"

FaithInv == Types /\ Flowing /\ Producing /\ Decoding

\* A Close is under way, or the slot freed by one, only if the peer has closed; and
\* an end of the values is seen only on a channel that is closed.
ClosingAt(e) ==
  /\ eof[e] \/ winClosed[e] \/ ~listed[e] => sentClose[e]
  /\ HasClose(wire[e]) \/ (dead = "nil" /\ ~listed[e]) => sentClose[Peer(e)]
Closing == \A e \in Ends : ClosingAt(e)

\* respond has nothing more to encode.
ServeSilent == spc \in {"final", "done"} \/ (spc = "values" /\ left = 0)
Closed == sentClose["C"] \/ sentClose["S"]

\* How many of the args are yet to come.
Ahead == Len(pend["S"]) + Len(wire["S"]) + Len(todo)

\* Nothing follows a Close, and nothing is under way to a slot that is free.
CloseLast(s) == \A i \in 1 .. Len(s) : IsClose(s[i]) => i = Len(s)
Wires == \A e \in Ends : CloseLast(wire[e]) /\ (~listed[e] => wire[e] = <<>>)

\* Before either end closes: Call does not until respond has encoded all, respond
\* does not answer until Call has, and no arg is missing.
Pacing ==
  /\ cpc = "close" => ServeSilent
  /\ spc \in {"header", "encodeHeader", "values", "encodeValue", "final"} => CallSilent
  /\ spc = "decode" => Ahead = 1 + cli.args
  /\ spc = "receive" => Ahead = left

Quiet ==
  /\ Wires
  /\ Closed => CallSilent /\ ServeSilent
  /\ ~Closed => Pacing

HarmInv ==
  /\ FaithInv /\ Closing
  /\ Orderly => SessionSurvives /\ (dead = "nil" => Quiet)

-------------------------------------------------------------------------------
(* Sequences of what travels *)

\* One value more: the next of the response, or anything behind a Close.
LEMMA FollowsAppend ==
  ASSUME NEW T, NEW s \in Seq(T), NEW m \in T, NEW h, NEW b \in Nat, Follows(s, h, b),
         HasClose(s) \/ IsClose(m) \/ m = Response(h, b + Len(s) + 1)
  PROVE  Follows(Append(s, m), h, b)
<1> DEFINE t == Append(s, m)
<1>1. SUFFICES ASSUME NEW i \in 1 .. Len(t), \A j \in 1 .. i : ~IsClose(t[j])
               PROVE  t[i] = Response(h, b + i)
  BY Zenon DEF Follows
<1>2. /\ Len(s) \in Nat /\ Len(t) = Len(s) + 1 /\ t[Len(s) + 1] = m
      /\ \A k \in 1 .. Len(s) : t[k] = s[k]
  OBVIOUS
<1> HIDE DEF t
<1>3. CASE i \in 1 .. Len(s)
  <2>1. \A j \in 1 .. i : j \in 1 .. Len(s) /\ t[j] = s[j]
    BY <1>2, <1>3
  <2>2. \A j \in 1 .. i : ~IsClose(s[j])
    BY <1>1, <2>1, Zenon
  <2>3. t[i] = s[i]
    BY <1>2, <1>3, Zenon
  <2> QED BY <1>3, <2>2, <2>3, Zenon DEF Follows
<1>4. CASE i = Len(s) + 1
  <2>1. \A j \in 1 .. Len(s) : j \in 1 .. i
    BY <1>2, <1>4
  <2>2. i \in 1 .. i
    BY <1>2, <1>4
  <2>3. ~HasClose(s) /\ ~IsClose(m)
    BY <1>1, <1>2, <1>4, <2>1, <2>2, Zenon DEF HasClose
  <2>4. b + Len(s) + 1 = b + i
    BY <1>2, <1>4
  <2> QED BY <1>2, <1>4, <2>3, <2>4, Zenon
<1> QED BY <1>2, <1>3, <1>4

\* One value less: it was the next of the response.
LEMMA FollowsTail ==
  ASSUME NEW T, NEW s \in Seq(T), s # <<>>, NEW h, NEW b \in Nat, Follows(s, h, b),
         ~IsClose(Head(s))
  PROVE  /\ Head(s) = Response(h, b + 1)
         /\ Follows(Tail(s), h, b + 1)
<1> DEFINE t == Tail(s)
<1>1. /\ Len(s) \in Nat /\ Len(s) > 0 /\ Head(s) = s[1] /\ Len(t) = Len(s) - 1
      /\ \A k \in 1 .. Len(t) : t[k] = s[k + 1]
  OBVIOUS
<1> HIDE DEF t
<1>2. 1 \in 1 .. Len(s) /\ \A j \in 1 .. 1 : j = 1
  BY <1>1
<1>3. ~IsClose(s[1])
  BY <1>1, Zenon
<1>4. s[1] = Response(h, b + 1)
  BY <1>2, <1>3, Zenon DEF Follows
<1>5. ASSUME NEW i \in 1 .. Len(t), \A j \in 1 .. i : ~IsClose(t[j])
      PROVE  t[i] = Response(h, (b + 1) + i)
  <2>1. /\ i + 1 \in 1 .. Len(s) /\ b + (i + 1) = (b + 1) + i
        /\ \A j \in 1 .. i + 1 : j = 1 \/ (j - 1 \in 1 .. i /\ s[j] = t[j - 1])
    BY <1>1
  <2>2. \A j \in 1 .. i + 1 : ~IsClose(s[j])
    BY <1>3, <1>5, <2>1, Zenon
  <2>3. s[i + 1] = Response(h, b + (i + 1))
    BY <2>1, <2>2, Zenon DEF Follows
  <2> QED BY <1>1, <2>1, <2>3, Zenon
<1> QED BY <1>1, <1>4, <1>5, Zenon DEF Follows, t

\* A Close that comes or goes.
LEMMA HasCloseFacts ==
  ASSUME NEW T, NEW s \in Seq(T), NEW m \in T
  PROVE  /\ HasClose(Append(s, m)) <=> HasClose(s) \/ IsClose(m)
         /\ s # <<>> => (HasClose(s) <=> HasClose(Tail(s)) \/ IsClose(Head(s)))
<1>1. HasClose(Append(s, m)) <=> HasClose(s) \/ IsClose(m)
  <2> DEFINE t == Append(s, m)
  <2>1. /\ Len(s) \in Nat /\ Len(t) = Len(s) + 1 /\ t[Len(s) + 1] = m
        /\ \A k \in 1 .. Len(s) : t[k] = s[k]
    OBVIOUS
  <2> HIDE DEF t
  <2>2. /\ \A i \in 1 .. Len(t) : i \in 1 .. Len(s) \/ i = Len(s) + 1
        /\ \A i \in 1 .. Len(s) : i \in 1 .. Len(t)
        /\ Len(s) + 1 \in 1 .. Len(t)
    BY <2>1
  <2> QED BY <2>1, <2>2, Zenon DEF HasClose, t
<1>2. ASSUME s # <<>>
      PROVE  HasClose(s) <=> HasClose(Tail(s)) \/ IsClose(Head(s))
  <2> DEFINE t == Tail(s)
  <2>1. /\ Len(s) \in Nat /\ Len(s) > 0 /\ Head(s) = s[1] /\ Len(t) = Len(s) - 1
        /\ \A k \in 1 .. Len(t) : t[k] = s[k + 1]
    BY <1>2
  <2> HIDE DEF t
  <2>2. /\ \A i \in 1 .. Len(s) : i = 1 \/ (i - 1 \in 1 .. Len(t) /\ t[i - 1] = s[i])
        /\ \A i \in 1 .. Len(t) : i + 1 \in 1 .. Len(s)
        /\ 1 \in 1 .. Len(s)
    BY <2>1
  <2> QED BY <2>1, <2>2, Zenon DEF HasClose, t
<1> QED BY <1>1, <1>2

\* What is and what is not a Close.
LEMMA DataFacts ==
  /\ \A type \in {"none", "call", "arg", "header", "value"}, n \in Nat : Value(type, n) \in Data
  /\ \A err, ct \in BOOLEAN : Header(err, ct) \in Data
  /\ \A m \in Data : ~IsClose(m) /\ m \in Msgs
  /\ Value("close", 0) \in Msgs /\ IsClose(Value("close", 0))
  /\ \A m \in Msgs : IsClose(m) \/ m \in Data
BY DEF Data, Msgs, Value, Header, IsClose

LEMMA HeaderFacts ==
  ASSUME NEW h
  PROVE  /\ Response(h, 1).err = (h.respond = "error")
         /\ Response(h, 1).cont = (h.respond = "continue")
BY DEF Response, Header

LEMMA EndFacts ==
  /\ "C" \in Ends /\ "S" \in Ends /\ Peer("C") = "S" /\ Peer("S") = "C"
  /\ \A e \in Ends : Peer(e) \in Ends /\ Peer(e) # e /\ (e = "C" \/ e = "S")
BY DEF Ends, Peer

-------------------------------------------------------------------------------
(* Types *)

\* The request is a header and the args.
LEMMA RequestFacts ==
  ASSUME NEW c \in Callers
  PROVE  Request(c) \in Seq(Data) /\ Len(Request(c)) = 1 + c.args
<1> DEFINE a == [i \in 1 .. c.args |-> Value("arg", i)]
<1>1. c.args \in Nat
  BY DEF Callers
<1>2. \A i \in 1 .. c.args : Value("arg", i) \in Data
  BY <1>1, DataFacts
<1>3. a \in [1 .. c.args -> Data]
  BY <1>2, Zenon
<1>4. a \in Seq(Data) /\ Len(a) = c.args
  BY <1>1, <1>3
<1>5. Value("call", 0) \in Data
  BY DataFacts
<1> HIDE DEF a
<1> QED BY <1>1, <1>4, <1>5 DEF Request, a

LEMMA TypesInit == Init => Types
<1> SUFFICES ASSUME Init PROVE Types
  OBVIOUS
<1>1. cli \in Callers /\ beh \in Handlers
  BY RpcAssumption DEF Init
<1>2. todo \in Seq(Data) /\ todo # <<>>
  <2>1. todo \in Seq(Data) /\ Len(todo) = 1 + cli.args /\ cli.args \in Nat
    BY <1>1, RequestFacts DEF Init, Callers
  <2> QED BY <2>1
<1>3. NoValue \in Data
  BY DataFacts DEF NoValue
<1>4. <<>> \in Seq(Msgs) /\ <<>> \in Seq(Data) /\ 0 \in Nat
  OBVIOUS
<1> QED BY <1>1, <1>2, <1>3, <1>4, Zenon DEF Init, Types

\* The operations of the channel keep its types.
LEMMA CloseTypes ==
  ASSUME Types, NEW e \in Ends, CloseChannel(e)
  PROVE  wire' \in [Ends -> Seq(Msgs)] /\ sentClose' \in [Ends -> BOOLEAN]
<1>1. wire \in [Ends -> Seq(Msgs)] /\ sentClose \in [Ends -> BOOLEAN] /\ Peer(e) \in Ends
  BY EndFacts DEF Types
<1>2. Append(wire[Peer(e)], Value("close", 0)) \in Seq(Msgs)
  BY <1>1, DataFacts
<1> QED BY <1>1, <1>2, Zenon DEF CloseChannel

LEMMA EncodedTypes ==
  ASSUME Types, NEW e \in Ends, Encoded(e)
  PROVE  wire' \in [Ends -> Seq(Msgs)] /\ out' \in [Ends -> Data]
<1>1. /\ wire \in [Ends -> Seq(Msgs)] /\ out \in [Ends -> Data] /\ Peer(e) \in Ends
      /\ out[e] \in Msgs /\ NoValue \in Data
  BY EndFacts, DataFacts DEF Types, NoValue
<1>2. Append(wire[Peer(e)], out[e]) \in Seq(Msgs)
  BY <1>1
<1> QED BY <1>1, <1>2, Zenon DEF Encoded

LEMMA ReadTypes ==
  ASSUME Types, NEW e \in Ends, ReadOK(e)
  PROVE  pend' \in [Ends -> Seq(Data)] /\ Head(pend[e]) \in Data
<1>1. pend \in [Ends -> Seq(Data)] /\ pend[e] \in Seq(Data) /\ pend[e] # <<>>
  BY Zenon DEF Types, ReadOK
<1>2. Tail(pend[e]) \in Seq(Data) /\ Head(pend[e]) \in Data
  BY <1>1
<1> QED BY <1>1, <1>2, Zenon DEF ReadOK

LEMMA LoopTypes ==
  ASSUME Types, NEW e \in Ends, Loop(e) \/ LoopEnds(e)
  PROVE  Types'
<1>1. /\ wire \in [Ends -> Seq(Msgs)] /\ pend \in [Ends -> Seq(Data)] /\ Peer(e) \in Ends
  BY EndFacts DEF Types
<1>2. CASE Loop(e)
  <2> DEFINE v == Head(wire[e])
             rest == [wire EXCEPT ![e] = Tail(@)]
  <2>1. wire[e] # <<>>
    BY <1>2 DEF Loop
  <2>2. v \in Msgs /\ rest \in [Ends -> Seq(Msgs)]
    BY <1>1, <2>1
  <2>3. v.type # "close" => v \in Data
    BY <2>2, DataFacts DEF IsClose
  <2> HIDE DEF v, rest
  <2>4. Append(rest[Peer(e)], v) \in Seq(Msgs)
    BY <1>1, <2>2
  <2>5. [rest EXCEPT ![Peer(e)] = Append(@, v)] \in [Ends -> Seq(Msgs)]
    BY <2>2, <2>4, Zenon
  <2>6. v \in Data => [pend EXCEPT ![e] = Append(@, v)] \in [Ends -> Seq(Data)]
    BY <1>1
  <2>7. wire' \in [Ends -> Seq(Msgs)] /\ pend' \in [Ends -> Seq(Data)]
    BY <1>1, <1>2, <2>2, <2>3, <2>5, <2>6, Zenon DEF Loop, Shut, v, rest
  <2>8. /\ eof' \in [Ends -> BOOLEAN] /\ sentClose' \in [Ends -> BOOLEAN]
        /\ winClosed' \in [Ends -> BOOLEAN] /\ listed' \in [Ends -> BOOLEAN]
        /\ dead' \in {"nil", "closed", "invalidChannel"}
    BY <1>2, Zenon DEF Types, Loop, Shut
  <2>9. UNCHANGED <<cli, beh, out, call, ctx, serve>>
    BY <1>2, Zenon DEF Loop
  <2> QED BY <2>7, <2>8, <2>9 DEF Types, CallSilent, call, serve
<1>3. CASE LoopEnds(e)
  BY <1>3 DEF Types, CallSilent, LoopEnds, Shut, call, serve
<1> QED BY <1>2, <1>3

LEMMA CallTypes ==
  ASSUME Types, Call
  PROVE  Types'
<1>1. CASE CallWrite
  <2>1. todo \in Seq(Data) /\ todo # <<>>
    BY <1>1, Zenon DEF Types, CallSilent, CallWrite
  <2>2. Head(todo) \in Data
    BY <2>1
  <2> QED BY <1>1, <2>2 DEF Types, CallSilent, CallWrite, Reserve, WriteFails, chan, serve, Ends
<1>2. CASE CallEncode
  <2>1. /\ todo \in Seq(Data) /\ todo # <<>> /\ NoValue \in Data /\ "C" \in Ends
    BY <1>2, DataFacts, EndFacts DEF Types, CallSilent, CallEncode, NoValue
  <2>2. Tail(todo) \in Seq(Data) /\ (Len(todo) # 1 => Tail(todo) # <<>>)
    <3>1. Tail(todo) \in Seq(Data) /\ Len(Tail(todo)) = Len(todo) - 1 /\ Len(todo) \in Nat
      BY <2>1
    <3>2. Tail(todo) = <<>> => Len(Tail(todo)) = 0
      OBVIOUS
    <3> QED BY <3>1, <3>2
  <2>3. CASE Encoded("C")
    <3>1. wire' \in [Ends -> Seq(Msgs)] /\ out' \in [Ends -> Data]
      BY <2>1, <2>3, EncodedTypes, Zenon
    <3>2. /\ UNCHANGED <<pend, eof, sentClose, winClosed, listed, dead, res, replies, header,
                         cli, beh, ctx, serve>>
          /\ todo' = Tail(todo) /\ cpc' = IF Len(todo) = 1 THEN "header" ELSE "request"
      BY <1>2, <2>3, Zenon DEF CallEncode, Encoded, EncodeFails
    <3> QED BY <2>2, <3>1, <3>2 DEF Types, CallSilent, serve
  <2>4. CASE EncodeFails("C")
    BY <1>2, <2>1, <2>4, Zenon DEF Types, CallSilent, CallEncode, Encoded, EncodeFails, chan, serve
  <2> QED BY <1>2, <2>3, <2>4, Zenon DEF CallEncode
<1>3. CASE CallHeader
  <2>1. CASE ReadOK("C")
    <3>1. pend' \in [Ends -> Seq(Data)] /\ Head(pend["C"]) \in Data
      BY <2>1, ReadTypes, EndFacts, Zenon
    <3> QED BY <1>3, <2>1, <3>1 DEF Types, CallSilent, CallHeader, ReadOK, ReadEOF, Finish, serve
  <2>2. CASE ReadEOF("C")
    BY <1>3, <2>2 DEF Types, CallSilent, CallHeader, ReadOK, ReadEOF, chan, serve
  <2> QED BY <1>3, <2>1, <2>2, Zenon DEF CallHeader
<1>4. CASE CallReply
  <2>1. CASE ReadOK("C")
    <3>1. pend' \in [Ends -> Seq(Data)] /\ Head(pend["C"]) \in Data
      BY <2>1, ReadTypes, EndFacts, Zenon
    <3>2. replies' \in Seq(Data)
      <4>1. replies \in Seq(Data)
        BY Zenon DEF Types
      <4>2. Append(replies, Head(pend["C"])) \in Seq(Data) /\ <<>> \in Seq(Data)
        BY <3>1, <4>1
      <4> QED BY <1>4, <2>1, <4>2, Zenon DEF CallReply, ReadOK, ReadEOF
    <3> QED BY <1>4, <2>1, <3>1, <3>2 DEF Types, CallSilent, CallReply, ReadOK, ReadEOF, Finish, serve
  <2>2. CASE ReadEOF("C")
    BY <1>4, <2>2 DEF Types, CallSilent, CallReply, ReadOK, ReadEOF, Finish, chan, serve
  <2> QED BY <1>4, <2>1, <2>2, Zenon DEF CallReply
<1>5. CASE CallClose
  <2>1. wire' \in [Ends -> Seq(Msgs)] /\ sentClose' \in [Ends -> BOOLEAN]
    BY <1>5, CloseTypes, EndFacts, Zenon DEF CallClose
  <2> QED BY <1>5, <2>1 DEF Types, CallSilent, CallClose, CloseChannel, serve
<1>6. CASE CallReturn
  BY <1>6 DEF Types, CallSilent, CallReturn, chan, serve
<1> QED BY <1>1, <1>2, <1>3, <1>4, <1>5, <1>6, Zenon DEF Call

\* respond sends one value at least.
LEMMA ValuesFacts ==
  ASSUME Types
  PROVE  Values \in Nat /\ Values >= 1
<1>1. beh \in Handlers
  BY Zenon DEF Types
<1> QED BY <1>1 DEF Values, Handlers

LEMMA ServeTypes ==
  ASSUME Types, Producing, Serve
  PROVE  Types'
<1>1. CASE ServeDecode
  <2>1. beh.receive \in Nat
    <3>1. beh \in Handlers
      BY Zenon DEF Types
    <3> QED BY <3>1 DEF Handlers
  <2>2. CASE ReadOK("S")
    <3>1. pend' \in [Ends -> Seq(Data)]
      BY <2>2, ReadTypes, EndFacts, Zenon
    <3> QED BY <1>1, <2>1, <2>2, <3>1 DEF Types, CallSilent, ServeDecode, ReadOK, ReadEOF, call
  <2>3. CASE ReadEOF("S")
    BY <1>1, <2>3 DEF Types, CallSilent, ServeDecode, ReadOK, ReadEOF, chan, call
  <2> QED BY <1>1, <2>2, <2>3, Zenon DEF ServeDecode
<1>2. CASE ServeReceive
  <2>0. left \in Nat /\ (left > 0 => left - 1 \in Nat) /\ 0 \in Nat
    <3>1. left \in Nat
      BY Zenon DEF Types
    <3> QED BY <3>1
  <2>1. CASE ReadOK("S")
    <3>1. pend' \in [Ends -> Seq(Data)]
      BY <2>1, ReadTypes, EndFacts, Zenon
    <3> QED BY <1>2, <2>0, <2>1, <3>1 DEF Types, CallSilent, ServeReceive, ReadOK, ReadEOF, call
  <2>2. CASE ReadEOF("S")
    BY <1>2, <2>0, <2>2 DEF Types, CallSilent, ServeReceive, ReadOK, ReadEOF, chan, call
  <2> QED BY <1>2, <2>1, <2>2, Zenon DEF ServeReceive
<1>3. CASE ServeRespond
  BY <1>3 DEF Types, CallSilent, ServeRespond, chan, call
<1>4. CASE ServeWrite
  <2> DEFINE v == IF spc = "header" THEN Header(beh.respond = "error", cont)
                  ELSE Value("value", Values - left + 1)
  <2>1. v \in Data
    <3>1. Header(beh.respond = "error", cont) \in Data
      BY DataFacts, Zenon DEF Types
    <3>2. CASE spc = "values"
      <4>1. left \in Nat /\ left =< Values
        BY <3>2, Zenon DEF Types, Producing
      <4>2. Values - left + 1 \in Nat
        BY <4>1, ValuesFacts
      <4>3. Value("value", Values - left + 1) \in Data
        BY <4>2, DataFacts, Zenon
      <4> QED BY <3>1, <4>3, Zenon
    <3> QED BY <1>4, <3>1, <3>2, Zenon DEF ServeWrite
  <2> HIDE DEF v
  <2>2. out \in [Ends -> Data] /\ (out' = out \/ out' = [out EXCEPT !["S"] = v])
    BY <1>4, Zenon DEF Types, ServeWrite, Reserve, v
  <2>3. out' \in [Ends -> Data]
    BY <2>1, <2>2, Zenon
  <2>4. spc' \in {"encodeHeader", "encodeValue", "final"}
    BY <1>4, Zenon DEF ServeWrite
  <2> QED BY <1>4, <2>3, <2>4 DEF Types, CallSilent, ServeWrite, chan, call
<1>5. CASE ServeEncode
  <2>1. Values \in Nat /\ (spc = "encodeValue" => left - 1 \in Nat) /\ NoValue \in Data
    <3>1. left \in Nat /\ (spc = "encodeValue" => left > 0)
      BY Zenon DEF Types, Producing
    <3>2. NoValue \in Data
      BY DataFacts DEF NoValue
    <3>3. left > 0 => left - 1 \in Nat
      BY <3>1
    <3> QED BY <3>1, <3>2, <3>3, ValuesFacts, Zenon
  <2>2. CASE Encoded("S")
    <3>1. wire' \in [Ends -> Seq(Msgs)] /\ out' \in [Ends -> Data]
      BY <2>2, EncodedTypes, EndFacts, Zenon
    <3> QED BY <1>5, <2>1, <2>2, <3>1 DEF Types, CallSilent, ServeEncode, Encoded, EncodeFails, call
  <2>3. CASE EncodeFails("S")
    BY <1>5, <2>1, <2>3, ZenonT(30) DEF Types, CallSilent, ServeEncode, Encoded, EncodeFails, chan, call
  <2> QED BY <1>5, <2>2, <2>3, Zenon DEF ServeEncode
<1>6. CASE ServeClose \/ ServeEnd
  <2>1. wire' \in [Ends -> Seq(Msgs)] /\ sentClose' \in [Ends -> BOOLEAN]
    BY <1>6, CloseTypes, EndFacts, Zenon DEF Types, ServeClose, ServeEnd, chan
  <2> QED BY <1>6, <2>1 DEF Types, CallSilent, ServeClose, ServeEnd, CloseChannel, chan, call
<1> QED BY <1>1, <1>2, <1>3, <1>4, <1>5, <1>6, Zenon DEF Serve

\* The watcher, the context, the session, and a stuttering step.
LEMMA OtherTypes ==
  ASSUME Types, \/ WatchCancel \/ WatchDone \/ ResponseReceive \/ Cancel \/ CloseSession
                \/ UNCHANGED vars
  PROVE  Types'
<1>1. CASE WatchCancel
  <2>1. wire' \in [Ends -> Seq(Msgs)] /\ sentClose' \in [Ends -> BOOLEAN]
    BY <1>1, CloseTypes, EndFacts, Zenon DEF WatchCancel
  <2> QED BY <1>1, <2>1 DEF Types, CallSilent, WatchCancel, CloseChannel, call, serve
<1>2. CASE ResponseReceive
  <2>1. pend' \in [Ends -> Seq(Data)]
    BY <1>2, ReadTypes, EndFacts, Zenon DEF ResponseReceive
  <2> QED BY <1>2, <2>1 DEF Types, CallSilent, ResponseReceive, ReadOK, call, serve
<1>3. CASE CloseSession
  BY <1>3 DEF Types, CallSilent, CloseSession, call, serve
<1>4. CASE WatchDone \/ Cancel \/ UNCHANGED vars
  <2>1. UNCHANGED <<cli, beh, chan, out, call, serve>> /\ ctx' \in BOOLEAN
    BY <1>4, Zenon DEF Types, WatchDone, Cancel, vars
  <2> QED BY <2>1 DEF Types, CallSilent, chan, call, serve
<1> QED BY <1>1, <1>2, <1>3, <1>4, Zenon

-------------------------------------------------------------------------------
(* What Call reports is what the handler did *)

LEMMA MoveOne ==
  ASSUME NEW a \in Nat, NEW n \in Nat, NEW t, t = n - 1
  PROVE  (a + 1) + t = a + n
OBVIOUS

LEMMA OneMore ==
  ASSUME NEW a \in Nat, NEW n \in Nat, NEW t, t = n + 1
  PROVE  (a + n) + 1 = a + t
OBVIOUS

LEMMA NoneLeft ==
  ASSUME NEW p \in Nat, NEW w \in Nat, NEW t \in Nat, p + w + t = 0
  PROVE  t = 0
OBVIOUS

LEMMA AtLeastOne ==
  ASSUME NEW r \in Nat, NEW p \in Nat, NEW w \in Nat, NEW d, NEW q,
         d = 1 + r, p > 0, d + p + w = q
  PROVE  q \in Nat /\ q >= 2 + r
OBVIOUS

LEMMA Counts ==
  ASSUME Types
  PROVE  /\ Decoded \in Nat /\ Len(replies) \in Nat
         /\ \A e \in Ends : Len(pend[e]) \in Nat /\ Len(wire[e]) \in Nat
         /\ Decoded + Len(pend["C"]) \in Nat
<1>1. replies \in Seq(Data) /\ \A e \in Ends : pend[e] \in Seq(Data) /\ wire[e] \in Seq(Msgs)
  BY Zenon DEF Types
<1>2. Len(replies) \in Nat /\ \A e \in Ends : Len(pend[e]) \in Nat /\ Len(wire[e]) \in Nat
  BY <1>1
<1>3. Decoded \in Nat
  BY <1>2 DEF Decoded
<1> QED BY <1>2, <1>3, EndFacts

\* Steps that leave the response alone; a Close may be added to it.
LEMMA FlowingFrame ==
  ASSUME Types, Flowing, UNCHANGED <<beh, pend["C"]>>,
         \/ wire'["C"] = wire["C"]
         \/ wire'["C"] = Append(wire["C"], Value("close", 0)),
         listed'["C"] => listed["C"],
         Reading' => Reading /\ Decoded' = Decoded,
         Responding' => Responding /\ Produced' = Produced
  PROVE  Flowing'
<1> DEFINE w == wire["C"]
           c == Value("close", 0)
           b == Decoded + Len(pend["C"])
<1>1. w \in Seq(Msgs) /\ c \in Msgs /\ IsClose(c)
  BY DataFacts, EndFacts, Zenon DEF Types
<1>2. b \in Nat
  BY Counts, Zenon
<1> HIDE DEF w, c, b
<1>3. HasClose(Append(w, c)) /\ (Follows(w, beh, b) => Follows(Append(w, c), beh, b))
  BY <1>1, <1>2, HasCloseFacts, FollowsAppend, Zenon
<1> QED BY <1>3, Zenon DEF Flowing, w, c, b

\* respond's own state is only respond's to change.
LEMMA ProducingFrame ==
  ASSUME Producing, UNCHANGED <<spc, cont, beh, left, out["S"]>>
  PROVE  Producing' /\ UNCHANGED <<Responding, Produced>>
BY DEF Producing, Responding, Produced, Values

\* Call's own state is only Call's to change.
LEMMA DecodingFrame ==
  ASSUME Decoding, UNCHANGED <<cpc, res, replies, cli, beh, header>>
  PROVE  Decoding' /\ UNCHANGED <<Reading, Decoded>>
BY DEF Decoding, Reading, Decoded

\* A step of Call.
LEMMA CallFaith ==
  ASSUME FaithInv, Types', Call
  PROVE  Flowing' /\ Producing' /\ Decoding'
<1>1. /\ Types /\ Flowing /\ Producing /\ Decoding /\ "C" \in Ends
      /\ Len(replies) \in Nat /\ pend["C"] \in Seq(Data)
  BY Counts, EndFacts, Zenon DEF FaithInv, Types
<1>2. UNCHANGED <<cli, beh, spc, left, cont>> /\ out'["S"] = out["S"]
  <2>1. UNCHANGED <<cli, beh, serve>>
    BY Zenon DEF Call, CallWrite, CallEncode, CallHeader, CallReply, CallClose, CallReturn
  <2>2. out' = out \/ \E v : out' = [out EXCEPT !["C"] = v]
    BY Zenon DEF Call, CallWrite, CallEncode, CallHeader, CallReply, CallClose, CallReturn,
                 Reserve, Encoded, EncodeFails
  <2>3. out \in [Ends -> Data] /\ "S" \in Ends /\ "S" # "C"
    BY <1>1, EndFacts DEF Types
  <2> QED BY <2>1, <2>2, <2>3, Zenon DEF serve
<1>3. Producing' /\ UNCHANGED <<Responding, Produced>>
  BY <1>1, <1>2, ProducingFrame, Zenon
<1>4. CASE CallWrite
  <2>1. Reading /\ cpc = "request" /\ UNCHANGED <<chan, replies, header>> /\ cpc' \in {"encode", "close"}
        /\ (cpc' = "encode" => res' = res) /\ (cpc' = "close" => res' = "err")
    BY <1>4, Zenon DEF CallWrite, Reading
  <2>2. Decoding' /\ (Reading' => Decoded' = Decoded)
    BY <1>1, <1>2, <2>1 DEF Decoding, Reading, Decoded
  <2>3. Flowing'
    BY <1>1, <1>2, <1>3, <2>1, <2>2, FlowingFrame, Zenon DEF chan
  <2> QED BY <1>3, <2>2, <2>3
<1>5. CASE CallEncode
  <2>1. /\ Reading /\ cpc = "encode" /\ UNCHANGED <<pend, listed, replies, header>>
        /\ cpc' \in {"request", "header", "close"}
        /\ (cpc' # "close" => res' = res) /\ (cpc' = "close" => res' = "err")
    BY <1>5, Zenon DEF CallEncode, Encoded, chan, Reading
  <2>2. Decoding' /\ (Reading' => Decoded' = Decoded)
    BY <1>1, <1>2, <2>1 DEF Decoding, Reading, Decoded
  <2>3. wire'["C"] = wire["C"]
    <3>1. wire' = wire \/ \E v : wire' = [wire EXCEPT !["S"] = v]
      BY <1>5, EndFacts, Zenon DEF CallEncode, Encoded, chan
    <3>2. wire \in [Ends -> Seq(Msgs)] /\ "S" # "C"
      BY <1>1 DEF Types
    <3> QED BY <1>1, <3>1, <3>2, Zenon
  <2>4. Flowing'
    BY <1>1, <1>2, <1>3, <2>1, <2>2, <2>3, FlowingFrame, Zenon
  <2> QED BY <1>3, <2>2, <2>4
<1>6. CASE CallClose \/ CallReturn
  <2>1. /\ cpc \in {"close", "check"} /\ cpc' \in {"check", "done"}
        /\ UNCHANGED <<replies, header>> /\ (res' = res \/ res' = "ctx")
    BY <1>6, Zenon DEF CallClose, CallReturn
  <2>2. Decoding' /\ ~Reading'
    BY <1>1, <1>2, <2>1 DEF Decoding, Reading
  <2> QED BY <1>3, <2>2, Zenon DEF Flowing
<1>7. CASE CallHeader
  <2>1. CASE ReadOK("C")
    <3>1. /\ cpc = "header" /\ Reading /\ Decoded = 0 /\ replies = <<>> /\ Len(replies) = 0
          /\ pend["C"] # <<>> /\ pend'["C"] = Tail(pend["C"])
          /\ UNCHANGED <<wire, listed, replies>>
          /\ header' = Head(pend["C"])
          /\ cpc' = IF header'.err THEN Finish(header') ELSE "reply"
          /\ res' = IF header'.err THEN "RemoteError" ELSE "nil"
      BY <1>1, <1>7, <2>1 DEF CallHeader, ReadOK, ReadEOF, Decoding, Reading, Decoded, Types
    <3>2. /\ Head(pend["C"]) = Response(beh, 1) /\ Follows(Tail(pend["C"]), beh, 1)
          /\ Len(Tail(pend["C"])) = Len(pend["C"]) - 1 /\ Len(pend["C"]) \in Nat
      <4>1. Head(pend["C"]) \in Data /\ Len(Tail(pend["C"])) = Len(pend["C"]) - 1
            /\ 0 \in Nat /\ 0 + 1 = 1 /\ Len(pend["C"]) \in Nat
        BY <1>1, <3>1
      <4> QED BY <1>1, <3>1, <4>1, FollowsTail, DataFacts, ZenonT(30) DEF Flowing
    <3>3. header'.err = (beh.respond = "error") /\ header' = Response(beh, 1)
      BY <3>1, <3>2 DEF Response, Header
    <3>4. Follows(replies, beh, 1)
      BY <3>1 DEF Follows
    <3>5. cli.replies \in Nat
      BY <1>1 DEF Types, Callers
    <3>6. Decoding'
      <4>1. /\ replies' = <<>> /\ Len(replies') = 0 /\ cli'.replies = cli.replies
            /\ 0 < cli.replies \/ cli.replies = 0
            /\ Follows(replies, beh, 1)' /\ Response(beh, 1)' = Response(beh, 1)
        BY <1>2, <3>1, <3>4, <3>5
      <4>2. CASE header'.err
        <5>1. cpc' \in {"check", "close"} /\ res' = "RemoteError" /\ beh'.respond = "error"
          BY <1>2, <3>1, <3>3, <4>2, Zenon DEF Finish
        <5> QED BY <5>1 DEF Decoding, Reading
      <4>3. CASE ~header'.err
        <5>1. /\ cpc' = "reply" /\ res' = "nil" /\ beh'.respond # "error"
              /\ header' = Response(beh, 1)
          BY <1>2, <3>1, <3>3, <4>3, Zenon
        <5> QED BY <4>1, <5>1 DEF Decoding, Reading
      <4> QED BY <4>2, <4>3
    <3>7. Flowing'
      <4>1. Reading' => Decoded' = 1
        BY <3>1 DEF Reading, Decoded, Finish
      <4>2. 1 + Len(Tail(pend["C"])) = 0 + Len(pend["C"])
        BY <3>2
      <4> QED BY <1>1, <1>2, <1>3, <3>1, <3>2, <4>1, <4>2, Zenon DEF Flowing
    <3> QED BY <1>3, <3>6, <3>7
  <2>2. CASE ReadEOF("C")
    <3>1. ~Reading' /\ cpc' = "close" /\ res' = "err"
      BY <1>7, <2>2 DEF CallHeader, ReadOK, ReadEOF, Reading
    <3> QED BY <1>1, <1>2, <1>3, <3>1 DEF Flowing, Decoding
  <2> QED BY <1>7, <2>1, <2>2, Zenon DEF CallHeader
<1>8. CASE CallReply
  <2>0. /\ cpc = "reply" /\ Reading /\ Decoded = 1 + Len(replies) /\ UNCHANGED header
        /\ header = Response(beh, 1) /\ beh.respond # "error" /\ Follows(replies, beh, 1)
        /\ res = "nil" /\ cli.replies \in Nat
        /\ Len(replies) < cli.replies \/ (cli.replies = 0 /\ replies = <<>>)
    <3>1. cli.replies \in Nat
      BY <1>1 DEF Types, Callers
    <3> QED BY <1>1, <1>8, <3>1 DEF CallReply, Decoding, Reading, Decoded
  <2>1. CASE ReadOK("C")
    <3>1. /\ pend["C"] # <<>> /\ pend'["C"] = Tail(pend["C"])
          /\ UNCHANGED <<wire, listed, res>>
          /\ replies' = IF cli.replies = 0 THEN <<>> ELSE Append(replies, Head(pend["C"]))
          /\ cpc' = IF Len(replies) + 1 >= cli.replies THEN Finish(header) ELSE "reply"
      BY <1>1, <1>8, <2>1 DEF CallReply, ReadOK, ReadEOF, Types
    <3>2. /\ Head(pend["C"]) = Response(beh, Decoded + 1)
          /\ Follows(Tail(pend["C"]), beh, Decoded + 1)
          /\ Len(Tail(pend["C"])) = Len(pend["C"]) - 1 /\ Len(pend["C"]) \in Nat
          /\ Head(pend["C"]) \in Data
      <4>1. Head(pend["C"]) \in Data /\ Len(Tail(pend["C"])) = Len(pend["C"]) - 1
            /\ Len(pend["C"]) \in Nat
        BY <1>1, <3>1
      <4> QED BY <1>1, <2>0, <3>1, <4>1, FollowsTail, DataFacts, Counts, ZenonT(30) DEF Flowing
    <3>3. CASE cli.replies = 0
      <4>1. replies' = <<>> /\ cpc' = Finish(header) /\ Len(replies') = 0
        BY <2>0, <3>1, <3>3
      <4>2. Follows(replies', beh, 1)
        BY <4>1 DEF Follows
      <4>3. Decoding' /\ ~Reading'
        BY <1>2, <2>0, <3>1, <3>3, <4>1, <4>2 DEF Decoding, Reading, Finish
      <4> QED BY <1>3, <4>3, Zenon DEF Flowing
    <3>4. CASE cli.replies # 0
      <4>1. replies \in Seq(Data)
        BY <1>1 DEF Types
      <4>2. replies' = Append(replies, Head(pend["C"])) /\ Len(replies') = Len(replies) + 1
        BY <3>1, <3>2, <3>4, <4>1
      <4>3. 1 + Len(replies) + 1 = Decoded + 1
        BY <2>0
      <4>4. Follows(replies', beh, 1)
        BY <2>0, <3>2, <4>1, <4>2, <4>3, FollowsAppend
      <4>5. Decoding'
        BY <1>1, <1>2, <2>0, <3>1, <3>4, <4>2, <4>4 DEF Decoding, Reading, Finish
      <4>6. Reading' => Decoded' = Decoded + 1
        BY <1>1, <2>0, <3>1, <4>2 DEF Reading, Decoded, Finish
      <4>7. (Decoded + 1) + Len(Tail(pend["C"])) = Decoded + Len(pend["C"])
        <5>1. /\ Decoded \in Nat /\ Len(pend["C"]) \in Nat
              /\ Len(Tail(pend["C"])) = Len(pend["C"]) - 1
          BY <1>1, <3>2, Counts, Zenon
        <5> QED BY <5>1, MoveOne, ZenonT(30)
      <4>8. Flowing'
        BY <1>1, <1>2, <1>3, <2>0, <3>1, <3>2, <4>6, <4>7, Zenon DEF Flowing
      <4> QED BY <1>3, <4>5, <4>8
    <3> QED BY <3>3, <3>4
  <2>2. CASE ReadEOF("C")
    <3>1. /\ res' = IF cli.replies = 0 THEN "nil" ELSE "err"
          /\ cpc' = Finish(header) /\ UNCHANGED replies
      BY <1>8, <2>2 DEF CallReply, ReadOK, ReadEOF
    <3>2. Decoding' /\ ~Reading'
      BY <1>1, <1>2, <2>0, <3>1 DEF Decoding, Reading, Finish
    <3> QED BY <1>3, <3>2, Zenon DEF Flowing
  <2> QED BY <1>8, <2>1, <2>2, Zenon DEF CallReply
<1> QED BY <1>4, <1>5, <1>6, <1>7, <1>8, Zenon DEF Call

\* A step of respond or the handler.
LEMMA ServeFaith ==
  ASSUME FaithInv, Types', Serve
  PROVE  Flowing' /\ Producing' /\ Decoding'
<1>1. /\ Types /\ Flowing /\ Producing /\ Decoding /\ "C" \in Ends /\ "S" \in Ends /\ "S" # "C"
      /\ pend \in [Ends -> Seq(Data)] /\ wire \in [Ends -> Seq(Msgs)] /\ out \in [Ends -> Data]
      /\ left \in Nat
  BY EndFacts DEF FaithInv, Types
<1>2. UNCHANGED <<cli, beh, cpc, res, replies, header>>
  BY Zenon DEF Serve, ServeDecode, ServeReceive, ServeRespond, ServeWrite, ServeEncode,
               ServeClose, ServeEnd, call
<1>3. Decoding' /\ UNCHANGED <<Reading, Decoded, Values>>
  BY <1>1, <1>2, DecodingFrame, Zenon DEF Values
<1>0. (beh.respond = "hang" => spc \in {"decode", "receive", "done"})'
  <2>1. beh.respond = "hang" => spc \in {"decode", "receive", "done"}
    BY <1>1, Zenon DEF Producing
  <2>2. beh.respond = "hang" => spc' \in {"decode", "receive", "done"}
    BY <2>1 DEF Serve, ServeDecode, ServeReceive, ServeRespond, ServeWrite, ServeEncode,
                ServeClose, ServeEnd
  <2> QED BY <1>2, <2>2, Zenon
<1>4. CASE ServeDecode \/ ServeReceive \/ ServeRespond
  <2>1. /\ spc \in {"decode", "receive"} /\ spc' \in {"done", "receive", "header"}
        /\ (spc' = "header" => cont' = (beh.respond = "continue"))
        /\ UNCHANGED <<wire, listed>>
        /\ pend' = pend \/ \E v : pend' = [pend EXCEPT !["S"] = v]
    BY <1>4, Zenon DEF ServeDecode, ServeReceive, ServeRespond, ReadOK, ReadEOF, chan
  <2>2. pend'["C"] = pend["C"]
    BY <1>1, <2>1, Zenon
  <2>3. Producing'
    BY <1>0, <1>2, <2>1 DEF Producing
  <2>4. Responding' => Responding /\ Produced' = Produced
    BY <2>1 DEF Responding, Produced
  <2>5. Flowing'
    BY <1>1, <1>2, <1>3, <2>1, <2>2, <2>4, FlowingFrame, Zenon
  <2> QED BY <1>3, <2>3, <2>5
<1>5. CASE ServeWrite
  <2>1. /\ spc \in {"header", "values"} /\ (spc = "values" => left > 0)
        /\ UNCHANGED <<chan, left>>
        /\ \/ /\ spc' = IF spc = "header" THEN "encodeHeader" ELSE "encodeValue"
              /\ out'["S"] = IF spc = "header" THEN Header(beh.respond = "error", cont)
                             ELSE Value("value", Values - left + 1)
           \/ spc' = "final"
    BY <1>1, <1>5, Zenon DEF ServeWrite, Reserve
  <2>2. /\ spc = "header" => Header(beh.respond = "error", cont) = Response(beh, 0 + 1)
        /\ spc = "values" => Value("value", Values - left + 1)
                               = Response(beh, (1 + Values - left) + 1)
    <3>1. spc = "header" => cont = (beh.respond = "continue")
      BY <1>1, Zenon DEF Producing
    <3>2. CASE spc = "values"
      <4>1. left =< Values /\ Values \in Nat
        BY <1>1, <3>2, ValuesFacts, Zenon DEF Producing
      <4>2. (1 + Values - left) + 1 # 1 /\ ((1 + Values - left) + 1) - 1 = Values - left + 1
        BY <1>1, <4>1
      <4> QED BY <3>2, <4>2, Zenon DEF Response
    <3>3. CASE spc = "header"
      <4>1. 0 + 1 = 1
        OBVIOUS
      <4> QED BY <3>1, <3>3, <4>1, Zenon DEF Response
    <3> QED BY <3>2, <3>3
  <2>3. Producing' /\ (Responding' => Responding /\ Produced' = Produced)
    <3>1. spc = "values" => left =< Values
      BY <1>1 DEF Producing
    <3> QED BY <1>0, <1>2, <1>3, <2>1, <2>2, <3>1 DEF Producing, Responding, Produced, chan
  <2>4. Flowing'
    BY <1>1, <1>2, <1>3, <2>1, <2>3, FlowingFrame, Zenon DEF chan
  <2> QED BY <1>3, <2>3, <2>4
<1>6. CASE ServeEncode
  <2>1. CASE Encoded("S")
    <3>1. /\ spc \in {"encodeHeader", "encodeValue"} /\ spc' = "values"
          /\ left' = IF spc = "encodeHeader" THEN Values ELSE left - 1
          /\ wire'["C"] = Append(wire["C"], out["S"])
          /\ UNCHANGED <<pend, listed>>
      BY <1>1, <1>6, <2>1, EndFacts, Zenon DEF ServeEncode, Encoded, EncodeFails
    <3>2. /\ out["S"] = Response(beh, Produced + 1)
          /\ Values \in Nat /\ (spc = "encodeValue" => left > 0 /\ left =< Values)
      BY <1>1, <3>1, ValuesFacts, Zenon DEF Producing
    <3>3. Produced \in Nat /\ Produced' = Produced + 1 /\ Responding /\ Responding'
      BY <1>1, <1>3, <3>1, <3>2 DEF Produced, Responding
    <3>4. Producing'
      BY <1>0, <1>1, <1>3, <3>1, <3>2 DEF Producing
    <3>5. ASSUME Reading', listed'["C"]
          PROVE  /\ Follows(wire'["C"], beh, Decoded + Len(pend["C"]))
                 /\ ~HasClose(wire'["C"])
                      => Decoded + Len(pend["C"]) + Len(wire'["C"]) = Produced + 1
      <4> DEFINE w == wire["C"]
                 b == Decoded + Len(pend["C"])
                 v == out["S"]
      <4>1. /\ w \in Seq(Msgs) /\ b \in Nat /\ v \in Msgs /\ Len(w) \in Nat
        BY <1>1, Counts, DataFacts, Zenon
      <4>2. Follows(w, beh, b) /\ (~HasClose(w) => b + Len(w) = Produced)
        BY <1>1, <1>3, <3>1, <3>3, <3>5, Zenon DEF Flowing
      <4>3. wire'["C"] = Append(w, v) /\ v = Response(beh, Produced + 1)
        BY <3>1, <3>2, Zenon
      <4> HIDE DEF w, b, v
      <4>4. HasClose(Append(w, v)) <=> HasClose(w) \/ IsClose(v)
        BY <4>1, HasCloseFacts, Zenon
      <4>5. HasClose(w) \/ v = Response(beh, b + Len(w) + 1)
        BY <4>2, <4>3, Zenon
      <4>6. Follows(Append(w, v), beh, b)
        BY <4>1, <4>2, <4>5, FollowsAppend, Zenon
      <4>7. Len(Append(w, v)) = Len(w) + 1
        BY <4>1
      <4>8. ~HasClose(w) => b + Len(Append(w, v)) = Produced + 1
        BY <4>1, <4>2, <4>7
      <4> QED BY <4>3, <4>4, <4>6, <4>8, Zenon DEF b
    <3>6. Flowing'
      BY <1>1, <1>2, <1>3, <3>1, <3>3, <3>5, Zenon DEF Flowing
    <3> QED BY <1>3, <3>4, <3>6
  <2>2. CASE EncodeFails("S")
    <3>1. spc' = "final" /\ UNCHANGED <<left, chan>>
      BY <1>6, <2>2, Zenon DEF ServeEncode, Encoded, EncodeFails
    <3>2. Producing' /\ ~Responding'
      BY <1>0, <3>1 DEF Producing, Responding
    <3>3. Flowing'
      BY <1>1, <1>2, <1>3, <3>1, <3>2, FlowingFrame, Zenon DEF chan
    <3> QED BY <1>3, <3>2, <3>3
  <2> QED BY <1>6, <2>1, <2>2, Zenon DEF ServeEncode
<1>7. CASE ServeClose \/ ServeEnd
  <2>1. /\ spc' \in {"final", "done"} /\ UNCHANGED <<pend, listed>>
        /\ wire' = wire
           \/ wire' = [wire EXCEPT !["C"] = Append(@, Value("close", 0))]
    BY <1>7, EndFacts, Zenon DEF ServeClose, ServeEnd, CloseChannel, chan
  <2>2. wire'["C"] = wire["C"] \/ wire'["C"] = Append(wire["C"], Value("close", 0))
    BY <1>1, <2>1, Zenon
  <2>3. Producing' /\ ~Responding'
    BY <1>0, <2>1 DEF Producing, Responding
  <2>4. Flowing'
    BY <1>1, <1>2, <1>3, <2>1, <2>2, <2>3, FlowingFrame, Zenon
  <2> QED BY <1>3, <2>3, <2>4
<1> QED BY <1>4, <1>5, <1>6, <1>7, Zenon DEF Serve

\* A step of a session's loop.
LEMMA LoopFaith ==
  ASSUME FaithInv, NEW e \in Ends, Loop(e) \/ LoopEnds(e)
  PROVE  Flowing' /\ Producing' /\ Decoding'
<1>1. /\ Types /\ Flowing /\ Producing /\ Decoding /\ "C" \in Ends /\ "S" \in Ends
      /\ pend \in [Ends -> Seq(Data)] /\ wire \in [Ends -> Seq(Msgs)]
      /\ listed \in [Ends -> BOOLEAN]
  BY EndFacts DEF FaithInv, Types
<1>2. UNCHANGED <<cli, beh, out, cpc, res, replies, header, spc, left, cont>>
  BY Zenon DEF Loop, LoopEnds, call, serve
<1>3. /\ Producing' /\ Decoding' /\ UNCHANGED <<Responding, Produced, Reading, Decoded>>
  BY <1>1, <1>2, ProducingFrame, DecodingFrame, Zenon
<1> DEFINE v == Head(wire[e])
           rest == [wire EXCEPT ![e] = Tail(@)]
<1>4. CASE Loop(e) /\ listed[e] /\ v.type # "close" /\ e = "C"
  <2> DEFINE w == wire["C"]
             q == pend["C"]
             b == Decoded + Len(q)
  <2>1. /\ w # <<>> /\ wire' = rest /\ pend' = [pend EXCEPT ![e] = Append(@, v)]
        /\ listed["C"] /\ v = Head(w) /\ ~IsClose(v)
    BY <1>4, Zenon DEF Loop, IsClose
  <2>2. wire'["C"] = Tail(w) /\ pend'["C"] = Append(q, v)
    BY <1>1, <1>4, <2>1, Zenon
  <2>3. w \in Seq(Msgs) /\ q \in Seq(Data) /\ b \in Nat /\ Decoded \in Nat
    BY <1>1, Counts, Zenon
  <2> HIDE DEF w, q, v
  <2>4. v \in Msgs /\ Len(w) \in Nat /\ Len(Tail(w)) = Len(w) - 1
    BY <2>1, <2>3
  <2>5. v \in Data
    BY <2>1, <2>4, DataFacts, Zenon
  <2>6. Len(q) \in Nat /\ Len(Append(q, v)) = Len(q) + 1
    BY <2>3, <2>5
  <2>7. ASSUME Reading
        PROVE  /\ Follows(Append(q, v), beh, Decoded)
               /\ Follows(Tail(w), beh, Decoded + Len(Append(q, v)))
               /\ Responding /\ ~HasClose(Tail(w))
                    => Decoded + Len(Append(q, v)) + Len(Tail(w)) = Produced
    <3>1. /\ Follows(q, beh, Decoded) /\ Follows(w, beh, b)
          /\ Responding /\ ~HasClose(w) => b + Len(w) = Produced
      BY <1>1, <2>1, <2>7, Zenon DEF Flowing, w, q
    <3>2. v = Response(beh, b + 1) /\ Follows(Tail(w), beh, b + 1)
      BY <2>1, <2>3, <3>1, FollowsTail, ZenonT(30)
    <3>3. Follows(Append(q, v), beh, Decoded)
      BY <2>3, <2>5, <3>1, <3>2, FollowsAppend, ZenonT(30)
    <3>4. b + 1 = Decoded + Len(Append(q, v)) /\ (b + 1) + Len(Tail(w)) = b + Len(w)
      <4>1. Decoded \in Nat /\ Len(q) \in Nat /\ Len(Append(q, v)) = Len(q) + 1
        BY <2>3, <2>6, Zenon
      <4>2. b + 1 = Decoded + Len(Append(q, v))
        BY <4>1, OneMore, Zenon
      <4>3. b \in Nat /\ Len(w) \in Nat /\ Len(Tail(w)) = Len(w) - 1
        BY <2>3, <2>4, Zenon
      <4> HIDE DEF b
      <4>4. (b + 1) + Len(Tail(w)) = b + Len(w)
        BY <4>3, MoveOne, Zenon
      <4> QED BY <4>2, <4>4, Zenon
    <3>5. HasClose(Tail(w)) <=> HasClose(w)
      BY <2>1, <2>3, <2>4, HasCloseFacts, Zenon
    <3> QED BY <3>1, <3>2, <3>3, <3>4, <3>5, Zenon
  <2>8. listed' = listed
    BY <1>4, Zenon DEF Loop, v
  <2>9. Flowing'
    <3>1. /\ UNCHANGED <<beh, Reading, Decoded, Responding, Produced>>
          /\ pend'["C"] = Append(q, v) /\ wire'["C"] = Tail(w)
      BY <1>2, <1>3, <2>2, Zenon
    <3> QED BY <2>7, <3>1, Zenon DEF Flowing
  <2> QED BY <1>3, <2>9
<1>5. CASE Loop(e) /\ ~(listed[e] /\ v.type # "close") /\ e = "C"
  <2>1. ~listed'["C"] /\ pend' = pend
    BY <1>1, <1>5, Zenon DEF Loop, Shut
  <2>2. Flowing'
    BY <1>1, <1>2, <1>3, <2>1, Zenon DEF Flowing
  <2> QED BY <1>3, <2>2
<1>6. CASE Loop(e) /\ e = "S"
  <2>1. Peer(e) = "C" /\ "S" # "C"
    BY <1>6, EndFacts, Zenon
  <2>2. /\ \/ wire' = rest
           \/ v.type = "close" /\ v \in Msgs /\ wire' = [rest EXCEPT !["C"] = Append(@, v)]
        /\ pend' = pend \/ \E u : pend' = [pend EXCEPT !["S"] = u]
        /\ listed' = listed \/ listed' = [listed EXCEPT !["S"] = FALSE]
    <3>1. wire[e] # <<>>
      BY <1>6, Zenon DEF Loop
    <3>2. v \in Msgs
      BY <1>1, <3>1
    <3> QED BY <1>6, <2>1, <3>2, Zenon DEF Loop, Shut
  <2>3. pend'["C"] = pend["C"] /\ (listed'["C"] => listed["C"])
    BY <1>1, <2>1, <2>2, Zenon
  <2>4. rest \in [Ends -> Seq(Msgs)] /\ rest["C"] = wire["C"]
    <3>1. wire[e] # <<>> /\ wire[e] \in Seq(Msgs)
      BY <1>1, <1>6, Zenon DEF Loop
    <3>2. Tail(wire[e]) \in Seq(Msgs)
      BY <3>1
    <3> QED BY <1>1, <1>6, <2>1, <3>2, Zenon
  <2>5. v.type = "close" /\ v \in Msgs => v = Value("close", 0)
    BY DEF Msgs, Data
  <2> HIDE DEF rest, v
  <2>6. wire'["C"] = wire["C"] \/ wire'["C"] = Append(wire["C"], Value("close", 0))
    BY <1>1, <2>2, <2>4, <2>5, Zenon
  <2>7. Flowing'
    BY <1>1, <1>2, <1>3, <2>3, <2>6, FlowingFrame, Zenon
  <2> QED BY <1>3, <2>7
<1>7. CASE LoopEnds(e)
  <2>1. UNCHANGED <<wire, pend>> /\ listed' = [listed EXCEPT ![e] = FALSE]
    BY <1>7, Zenon DEF LoopEnds, Shut
  <2>2. listed'["C"] => listed["C"]
    BY <1>1, <2>1, Zenon
  <2>3. Flowing'
    BY <1>1, <1>2, <1>3, <2>1, <2>2, FlowingFrame, Zenon
  <2> QED BY <1>3, <2>3
<1> QED BY <1>4, <1>5, <1>6, <1>7, EndFacts, Zenon

\* The watcher, the context, the session, a stuttering step.
LEMMA OtherFaith ==
  ASSUME FaithInv, \/ WatchCancel \/ WatchDone \/ ResponseReceive \/ Cancel \/ CloseSession
                   \/ UNCHANGED vars
  PROVE  Flowing' /\ Producing' /\ Decoding'
<1>1. /\ Types /\ Flowing /\ Producing /\ Decoding /\ "C" \in Ends /\ "S" # "C"
      /\ wire \in [Ends -> Seq(Msgs)]
  BY EndFacts DEF FaithInv, Types
<1>2. UNCHANGED <<cli, beh, out, cpc, res, replies, header, spc, left, cont, listed>>
  BY Zenon DEF WatchCancel, CloseChannel, WatchDone, ResponseReceive, ReadOK, Cancel,
               CloseSession, vars, chan, call, serve
<1>3. /\ Producing' /\ Decoding' /\ UNCHANGED <<Responding, Produced, Reading, Decoded>>
  BY <1>1, <1>2, ProducingFrame, DecodingFrame, Zenon
<1>4. CASE ResponseReceive
  <2>1. ~Reading
    BY <1>4 DEF ResponseReceive, Reading
  <2> QED BY <1>3, <2>1, Zenon DEF Flowing
<1>5. CASE WatchCancel \/ WatchDone \/ Cancel \/ CloseSession \/ UNCHANGED vars
  <2>1. pend' = pend /\ (wire' = wire \/ \E u : wire' = [wire EXCEPT !["S"] = u])
    BY <1>5, EndFacts, Zenon DEF WatchCancel, CloseChannel, WatchDone, Cancel, CloseSession,
                                vars, chan
  <2>2. wire'["C"] = wire["C"]
    BY <1>1, <2>1, Zenon
  <2>3. Flowing'
    BY <1>1, <1>2, <1>3, <2>1, <2>2, FlowingFrame, Zenon
  <2> QED BY <1>3, <2>3
<1> QED BY <1>4, <1>5

LEMMA FaithInit == Init => FaithInv
<1> SUFFICES ASSUME Init PROVE FaithInv
  OBVIOUS
<1>1. /\ "C" \in Ends /\ pend["C"] = <<>> /\ wire["C"] = <<>> /\ cpc = "request" /\ res = "nil"
      /\ replies = <<>> /\ spc = "decode"
  BY EndFacts DEF Init
<1>2. Len(<<>>) = 0 /\ 0 + 0 = 0 /\ 0 + 0 + 0 = 0
  OBVIOUS
<1>3. \A h, b : Follows(<<>>, h, b)
  BY DEF Follows
<1>4. Producing /\ Decoding
  BY <1>1 DEF Producing, Decoding, Reading
<1>5. Decoded = 0 /\ Produced = 0
  BY <1>1, Zenon DEF Decoded, Produced
<1>6. Flowing
  BY <1>1, <1>2, <1>3, <1>5, Zenon DEF Flowing
<1> QED BY <1>4, <1>6, TypesInit, Zenon DEF FaithInv

LEMMA FaithStep == FaithInv /\ [Next]_vars => FaithInv'
<1> SUFFICES ASSUME FaithInv, [Next]_vars PROVE FaithInv'
  OBVIOUS
<1>1. Types /\ Producing
  BY Zenon DEF FaithInv
<1>2. CASE Call
  BY <1>1, <1>2, CallTypes, CallFaith, Zenon DEF FaithInv
<1>3. CASE Serve
  BY <1>1, <1>3, ServeTypes, ServeFaith, Zenon DEF FaithInv
<1>4. CASE Loops
  BY <1>1, <1>4, LoopTypes, LoopFaith, Zenon DEF FaithInv, Loops
<1>5. CASE \/ WatchCancel \/ WatchDone \/ ResponseReceive \/ Cancel \/ CloseSession
           \/ UNCHANGED vars
  BY <1>1, <1>5, OtherTypes, OtherFaith, Zenon DEF FaithInv
<1> QED BY <1>2, <1>3, <1>4, <1>5, Zenon DEF Next

\* What Call reports is what the handler did: no error, and the handler's values in
\* order and complete; or the handler's error.
THEOREM RepliesAreFaithful == Spec => []ReplyFaithful
<1>1. FaithInv => ReplyFaithful
  <2> SUFFICES ASSUME FaithInv, cpc = "done"
               PROVE  /\ res = "nil" => /\ beh.respond # "error" /\ header.type = "header"
                                        /\ Len(replies) = cli.replies
                                        /\ \A i \in 1 .. Len(replies) : replies[i].n = i
                      /\ res = "RemoteError" => beh.respond = "error"
    BY Zenon DEF ReplyFaithful
  <2>1. Decoding /\ replies \in Seq(Data) /\ Len(replies) \in Nat
    BY Counts, Zenon DEF FaithInv, Types
  <2>2. ASSUME res = "nil"
        PROVE  /\ header.type = "header"
               /\ \A i \in 1 .. Len(replies) : replies[i].n = i
    <3>1. header = Response(beh, 1) /\ Follows(replies, beh, 1)
      BY <2>1, <2>2 DEF Decoding
    <3>2. header.type = "header"
      BY <3>1 DEF Response, Header
    <3>3. ASSUME NEW i \in 1 .. Len(replies)
          PROVE  replies[i].n = i
      <4>1. \A j \in 1 .. i : j \in 1 .. Len(replies)
        BY <2>1
      <4>2. \A j \in 1 .. Len(replies) : replies[j] \in Data
        BY <2>1
      <4>3. \A j \in 1 .. i : ~IsClose(replies[j])
        BY <4>1, <4>2, DataFacts, Zenon
      <4>4. replies[i] = Response(beh, 1 + i)
        BY <3>1, <4>3, Zenon DEF Follows
      <4>5. 1 + i # 1 /\ (1 + i) - 1 = i
        BY <2>1
      <4>6. replies[i] = Value("value", i)
        BY <4>4, <4>5, Zenon DEF Response
      <4> QED BY <4>6 DEF Value
    <3> QED BY <3>2, <3>3
  <2> QED BY <2>1, <2>2 DEF Decoding
<1> QED BY FaithInit, FaithStep, <1>1, PTL DEF Spec

-------------------------------------------------------------------------------
(* Orderly calls leave the session alive *)

LEMMA CloseLastFacts ==
  ASSUME NEW T, NEW s \in Seq(T), NEW m \in T
  PROVE  /\ ~HasClose(s) => CloseLast(Append(s, m))
         /\ CloseLast(s) /\ s # <<>> =>
              CloseLast(Tail(s)) /\ (IsClose(Head(s)) => Tail(s) = <<>>)
<1>1. ASSUME ~HasClose(s)
      PROVE  CloseLast(Append(s, m))
  <2> DEFINE t == Append(s, m)
  <2>1. /\ Len(s) \in Nat /\ Len(t) = Len(s) + 1
        /\ \A k \in 1 .. Len(s) : t[k] = s[k]
    OBVIOUS
  <2> HIDE DEF t
  <2>2. \A i \in 1 .. Len(t) : i \in 1 .. Len(s) \/ i = Len(t)
    BY <2>1
  <2> QED BY <1>1, <2>1, <2>2, Zenon DEF HasClose, CloseLast, t
<1>2. ASSUME CloseLast(s), s # <<>>
      PROVE  CloseLast(Tail(s)) /\ (IsClose(Head(s)) => Tail(s) = <<>>)
  <2> DEFINE t == Tail(s)
  <2>1. /\ Len(s) \in Nat /\ Len(s) > 0 /\ Head(s) = s[1] /\ Len(t) = Len(s) - 1
        /\ t \in Seq(T) /\ \A k \in 1 .. Len(t) : t[k] = s[k + 1]
    BY <1>2
  <2> HIDE DEF t
  <2>2. Len(s) = 1 => t = <<>>
    <3>1. t \in Seq(T) /\ (Len(s) = 1 => Len(t) = 0)
      BY <2>1
    <3> QED BY <3>1
  <2>3. /\ \A i \in 1 .. Len(t) : i + 1 \in 1 .. Len(s) /\ (i + 1 = Len(s) => i = Len(t))
        /\ 1 \in 1 .. Len(s)
    BY <2>1
  <2>4. CloseLast(t)
    BY <1>2, <2>1, <2>3, Zenon DEF CloseLast
  <2>5. IsClose(Head(s)) => Len(s) = 1
    BY <1>2, <2>1, <2>3, Zenon DEF CloseLast
  <2> QED BY <2>2, <2>4, <2>5, Zenon DEF t
<1> QED BY <1>1, <1>2

\* Steps that close nothing.
LEMMA ClosingFrame ==
  ASSUME Closing, UNCHANGED <<eof, winClosed, listed, sentClose>>,
         \A e \in Ends : HasClose(wire'[e]) => HasClose(wire[e]),
         dead' = "nil" => dead = "nil"
  PROVE  Closing'
BY Zenon DEF Closing, ClosingAt

\* channel.Close: at most one Close for the peer, behind everything else.
LEMMA CloseChannelWires ==
  ASSUME Types, Closing, NEW e \in Ends, CloseChannel(e)
  PROVE  /\ Closing'
         /\ dead = "nil" /\ Wires => Wires'
         /\ sentClose'[e] /\ \A x \in Ends : sentClose[x] => sentClose'[x]
         /\ wire'[e] = wire[e]
<1> DEFINE p == Peer(e)
           c == Value("close", 0)
<1>1. /\ p \in Ends /\ p # e /\ Peer(p) = e /\ \A x \in Ends : x = e \/ x = p
      /\ wire \in [Ends -> Seq(Msgs)] /\ sentClose \in [Ends -> BOOLEAN]
      /\ c \in Msgs /\ IsClose(c) /\ wire[p] \in Seq(Msgs)
  BY EndFacts, DataFacts DEF Types, Ends, Peer
<1>2. /\ sentClose'[e] /\ sentClose'[p] = sentClose[p]
      /\ UNCHANGED <<eof, winClosed, listed, dead>>
  BY <1>1, Zenon DEF CloseChannel
<1>3. /\ wire'[e] = wire[e]
      /\ wire'[p] = wire[p] \/ (~sentClose[e] /\ dead = "nil" /\ wire'[p] = Append(wire[p], c))
  BY <1>1, Zenon DEF CloseChannel
<1>4. Closing'
  BY <1>1, <1>2, <1>3, Zenon DEF Closing, ClosingAt
<1>5. ASSUME dead = "nil", Wires
      PROVE  Wires'
  <2>1. CloseLast(wire'[p]) /\ (~listed[p] => wire'[p] = <<>>)
    <3>1. CASE wire'[p] = wire[p]
      BY <1>1, <1>5, <3>1, Zenon DEF Wires
    <3>2. CASE ~sentClose[e] /\ wire'[p] = Append(wire[p], c)
      <4>1. ~HasClose(wire[p]) /\ listed[p]
        BY <1>1, <1>5, <3>2, Zenon DEF Closing, ClosingAt
      <4> QED BY <1>1, <3>2, <4>1, CloseLastFacts, Zenon
    <3> QED BY <1>3, <3>1, <3>2, Zenon
  <2> QED BY <1>1, <1>2, <1>3, <1>5, <2>1, Zenon DEF Wires
<1> QED BY <1>1, <1>2, <1>3, <1>4, <1>5, Zenon

\* A value encoded, by an end that has not closed.
LEMMA EncodedWires ==
  ASSUME Types, Closing, NEW e \in Ends, Encoded(e)
  PROVE  /\ Closing'
         /\ ~sentClose[e] /\ Wires => Wires'
         /\ Len(wire'[Peer(e)]) = Len(wire[Peer(e)]) + 1 /\ wire'[e] = wire[e]
<1> DEFINE p == Peer(e)
<1>1. /\ p \in Ends /\ p # e /\ Peer(p) = e /\ \A x \in Ends : x = e \/ x = p
      /\ wire \in [Ends -> Seq(Msgs)] /\ out[e] \in Msgs /\ ~IsClose(out[e])
      /\ wire[p] \in Seq(Msgs)
  BY EndFacts, DataFacts DEF Types, Ends, Peer
<1>2. /\ UNCHANGED <<eof, winClosed, listed, sentClose, dead>> /\ dead = "nil"
      /\ wire'[e] = wire[e] /\ wire'[p] = Append(wire[p], out[e])
  BY <1>1, Zenon DEF Encoded
<1>3. HasClose(wire'[p]) => HasClose(wire[p])
  BY <1>1, <1>2, HasCloseFacts, Zenon
<1>4. Closing'
  BY <1>1, <1>2, <1>3, ClosingFrame, Zenon
<1>5. ASSUME ~sentClose[e], Wires
      PROVE  Wires'
  <2>1. ~HasClose(wire[p]) /\ listed[p]
    BY <1>1, <1>2, <1>5, Zenon DEF Closing, ClosingAt
  <2>2. CloseLast(wire'[p])
    BY <1>1, <1>2, <2>1, CloseLastFacts, Zenon
  <2> QED BY <1>1, <1>2, <1>5, <2>1, <2>2, Zenon DEF Wires
<1>6. Len(wire'[p]) = Len(wire[p]) + 1
  <2>1. Len(Append(wire[p], out[e])) = Len(wire[p]) + 1
    BY <1>1
  <2> QED BY <1>2, <2>1, Zenon
<1> QED BY <1>2, <1>4, <1>5, <1>6, Zenon

\* A frame that the loop takes: no harm on quiet wires.
LEMMA LoopWires ==
  ASSUME Types, Closing, NEW e \in Ends, Loop(e) \/ LoopEnds(e)
  PROVE  /\ Closing'
         /\ dead = "nil" /\ Wires =>
              /\ Wires' /\ dead' = "nil"
              /\ sentClose' = sentClose \/ sentClose[Peer(e)]
<1> DEFINE p == Peer(e)
           v == Head(wire[e])
           rest == [wire EXCEPT ![e] = Tail(@)]
<1>1. /\ p \in Ends /\ p # e /\ Peer(p) = e /\ \A x \in Ends : x = e \/ x = p
      /\ wire \in [Ends -> Seq(Msgs)] /\ wire[e] \in Seq(Msgs) /\ wire[p] \in Seq(Msgs)
      /\ listed \in [Ends -> BOOLEAN] /\ eof \in [Ends -> BOOLEAN]
      /\ sentClose \in [Ends -> BOOLEAN] /\ winClosed \in [Ends -> BOOLEAN]
  BY EndFacts DEF Types, Ends, Peer
<1>2. CASE LoopEnds(e)
  <2>1. /\ dead # "nil" /\ UNCHANGED <<wire, dead>>
        /\ sentClose'[e] /\ sentClose'[p] = sentClose[p]
        /\ eof'[p] = eof[p] /\ winClosed'[p] = winClosed[p] /\ listed'[p] = listed[p]
    BY <1>1, <1>2, Zenon DEF LoopEnds, Shut
  <2>2. Closing'
    <3>1. ClosingAt(e) /\ ClosingAt(p)
      BY <1>1, Zenon DEF Closing
    <3>2. ClosingAt(e)'
      BY <1>1, <2>1, <3>1, Zenon DEF ClosingAt
    <3>3. ClosingAt(p)'
      BY <1>1, <2>1, <3>1, Zenon DEF ClosingAt
    <3> QED BY <1>1, <3>2, <3>3, Zenon DEF Closing
  <2> QED BY <2>1, <2>2, Zenon
<1>3. CASE Loop(e)
  <2>1. dead = "nil" /\ wire[e] # <<>>
    BY <1>3, Zenon DEF Loop
  <2>2. v \in Msgs /\ Tail(wire[e]) \in Seq(Msgs)
    BY <1>1, <2>1
  <2>3. rest[e] = Tail(wire[e]) /\ rest[p] = wire[p] /\ rest \in [Ends -> Seq(Msgs)]
    BY <1>1, <2>2, Zenon
  <2>4. HasClose(wire[e]) <=> HasClose(Tail(wire[e])) \/ IsClose(v)
    BY <1>1, <2>1, <2>2, HasCloseFacts, Zenon
  <2>5. CloseLast(wire[e]) => CloseLast(Tail(wire[e])) /\ (IsClose(v) => Tail(wire[e]) = <<>>)
    BY <1>1, <2>1, <2>2, CloseLastFacts, Zenon
  <2>6. CASE ~listed[e]
    <3>1. /\ dead' # "nil" /\ wire' = rest /\ UNCHANGED <<eof, winClosed, listed, sentClose>>
      BY <1>3, <2>6, Zenon DEF Loop
    <3>2. Closing'
      BY <1>1, <2>3, <2>4, <3>1, ClosingFrame, Zenon
    <3>3. ~Wires
      BY <2>1, <2>6, Zenon DEF Wires
    <3> QED BY <3>2, <3>3, Zenon
  <2>7. CASE listed[e] /\ v.type = "close"
    <3>1. /\ wire' = IF sentClose[e] THEN rest ELSE [rest EXCEPT ![p] = Append(@, v)]
          /\ dead' = dead
          /\ listed' = [listed EXCEPT ![e] = FALSE] /\ eof' = [eof EXCEPT ![e] = TRUE]
          /\ sentClose' = [sentClose EXCEPT ![e] = TRUE]
          /\ winClosed' = [winClosed EXCEPT ![e] = TRUE]
      BY <1>3, <2>7, Zenon DEF Loop, Shut
    <3> HIDE DEF rest
    <3>2. /\ wire'[e] = Tail(wire[e])
          /\ wire'[p] = wire[p] \/ (~sentClose[e] /\ wire'[p] = Append(wire[p], v))
      BY <1>1, <2>3, <3>1, Zenon
    <3>3. /\ sentClose'[e] /\ sentClose'[p] = sentClose[p] /\ ~listed'[e]
          /\ eof'[p] = eof[p] /\ winClosed'[p] = winClosed[p] /\ listed'[p] = listed[p]
      BY <1>1, <3>1, Zenon
    <3>4. IsClose(v) /\ HasClose(wire[e]) /\ sentClose[p]
      BY <1>1, <2>4, <2>7, Zenon DEF Closing, ClosingAt, IsClose
    <3>5. Closing'
      <4>1. ClosingAt(e) /\ ClosingAt(p)
        BY <1>1, Zenon DEF Closing
      <4>2. ClosingAt(e)'
        BY <3>3, <3>4, Zenon DEF ClosingAt
      <4>3. ClosingAt(p)'
        BY <1>1, <3>3, <4>1, Zenon DEF ClosingAt
      <4> QED BY <1>1, <4>2, <4>3, Zenon DEF Closing
    <3>6. ASSUME Wires
          PROVE  Wires'
      <4>1. CloseLast(wire'[e]) /\ wire'[e] = <<>>
        BY <2>5, <3>2, <3>4, <3>6, Zenon DEF Wires
      <4>2. CASE wire'[p] = wire[p]
        BY <1>1, <3>3, <3>6, <4>1, <4>2, Zenon DEF Wires
      <4>3. CASE ~sentClose[e] /\ wire'[p] = Append(wire[p], v)
        <5>1. ~HasClose(wire[p]) /\ listed[p]
          BY <1>1, <2>1, <4>3, Zenon DEF Closing, ClosingAt
        <5>2. CloseLast(wire'[p])
          BY <1>1, <2>2, <4>3, <5>1, CloseLastFacts, Zenon
        <5> QED BY <1>1, <3>3, <4>1, <5>1, <5>2, Zenon DEF Wires
      <4> QED BY <3>2, <4>2, <4>3, Zenon
    <3> QED BY <2>1, <3>1, <3>4, <3>5, <3>6, Zenon
  <2>8. CASE listed[e] /\ v.type # "close"
    <3>1. wire' = rest /\ UNCHANGED <<eof, sentClose, winClosed, listed, dead>>
      BY <1>3, <2>8, Zenon DEF Loop
    <3>2. Closing'
      BY <1>1, <2>3, <2>4, <3>1, ClosingFrame, Zenon
    <3>3. Wires => Wires'
      BY <1>1, <2>3, <2>5, <2>8, <3>1, Zenon DEF Wires
    <3> QED BY <2>1, <3>1, <3>2, <3>3, Zenon
  <2> QED BY <2>6, <2>7, <2>8, Zenon
<1> QED BY <1>2, <1>3

\* An end that has nothing more to encode never will.
LEMMA SilentStays ==
  ASSUME [Next]_vars
  PROVE  (CallSilent => CallSilent') /\ (ServeSilent => ServeSilent')
<1>1. CASE Call
  <2>1. CallSilent => CallSilent'
    BY <1>1 DEF CallSilent, Call, CallWrite, CallEncode, CallHeader, CallReply, CallClose,
                CallReturn, Finish
  <2>2. UNCHANGED serve
    BY <1>1, Zenon DEF Call, CallWrite, CallEncode, CallHeader, CallReply, CallClose, CallReturn
  <2> QED BY <2>1, <2>2 DEF ServeSilent, serve
<1>2. CASE Serve
  <2>1. ServeSilent => ServeSilent'
    BY <1>2 DEF ServeSilent, Serve, ServeDecode, ServeReceive, ServeRespond, ServeWrite,
                ServeEncode, ServeClose, ServeEnd
  <2>2. UNCHANGED call
    BY <1>2, Zenon DEF Serve, ServeDecode, ServeReceive, ServeRespond, ServeWrite, ServeEncode,
                       ServeClose, ServeEnd
  <2> QED BY <2>1, <2>2 DEF CallSilent, call
<1>3. CASE \/ Loops \/ WatchCancel \/ WatchDone \/ ResponseReceive \/ Cancel \/ CloseSession
           \/ UNCHANGED vars
  <2>1. UNCHANGED <<call, serve>>
    BY <1>3, Zenon DEF Loops, Loop, LoopEnds, WatchCancel, WatchDone, ResponseReceive, Cancel,
                       CloseSession, vars
  <2> QED BY <2>1 DEF CallSilent, ServeSilent, call, serve
<1> QED BY <1>1, <1>2, <1>3, Zenon DEF Next

\* A call that is orderly has been, and a session that lives has lived.
LEMMA StillOrderly ==
  ASSUME HarmInv, [Next]_vars, Orderly'
  PROVE  /\ Orderly /\ UNCHANGED <<cli, beh>> /\ ~ctx'
         /\ dead' = "nil" => dead = "nil" /\ Quiet
<1>1. UNCHANGED <<cli, beh>> /\ (ctx' = ctx \/ ctx')
  <2>1. CASE Call
    BY <2>1, Zenon DEF Call, CallWrite, CallEncode, CallHeader, CallReply, CallClose, CallReturn
  <2>2. CASE Serve
    BY <2>2, Zenon DEF Serve, ServeDecode, ServeReceive, ServeRespond, ServeWrite, ServeEncode,
                       ServeClose, ServeEnd
  <2>3. CASE \/ Loops \/ WatchCancel \/ WatchDone \/ ResponseReceive \/ Cancel \/ CloseSession
             \/ UNCHANGED vars
    BY <2>3, Zenon DEF Loops, Loop, LoopEnds, WatchCancel, WatchDone, ResponseReceive, Cancel,
                       CloseSession, vars
  <2> QED BY <2>1, <2>2, <2>3, Zenon DEF Next
<1>2. Orderly /\ ~ctx'
  BY <1>1 DEF Orderly, Values
<1>3. dead' = "nil" => dead = "nil"
  <2>1. CASE Call
    BY <2>1, Zenon DEF Call, CallWrite, CallEncode, CallHeader, CallReply, CallClose, CallReturn,
                       Encoded, ReadOK, CloseChannel, chan
  <2>2. CASE Serve
    BY <2>2, Zenon DEF Serve, ServeDecode, ServeReceive, ServeRespond, ServeWrite, ServeEncode,
                       ServeClose, ServeEnd, Encoded, ReadOK, CloseChannel, chan
  <2>3. CASE \/ Loops \/ WatchCancel \/ WatchDone \/ ResponseReceive \/ Cancel \/ CloseSession
             \/ UNCHANGED vars
    BY <2>3, Zenon DEF Loops, Loop, LoopEnds, WatchCancel, WatchDone, ResponseReceive, Cancel,
                       CloseSession, ReadOK, CloseChannel, vars, chan
  <2> QED BY <2>1, <2>2, <2>3, Zenon DEF Next
<1> QED BY <1>1, <1>2, <1>3, Zenon DEF HarmInv

\* Before a Close both ends are listed, hold no end of the values, and no Close is
\* under way.
LEMMA OpenFacts ==
  ASSUME Closing, dead = "nil", ~Closed
  PROVE  \A e \in Ends : /\ ~eof[e] /\ ~winClosed[e] /\ listed[e] /\ ~HasClose(wire[e])
                         /\ ~sentClose[e]
<1>1. \A e \in Ends : ~sentClose[e] /\ ~sentClose[Peer(e)]
  BY EndFacts, Zenon DEF Closed
<1> QED BY <1>1, Zenon DEF Closing, ClosingAt

\* Steps at which neither end closes.
LEMMA QuietFrame ==
  ASSUME Quiet, Wires', UNCHANGED sentClose, CallSilent => CallSilent',
         ServeSilent => ServeSilent', ~Closed => Pacing'
  PROVE  Quiet'
BY Zenon DEF Quiet, Closed

\* Call closes the channel when respond has encoded all it has to.
LEMMA CallEndsLast ==
  ASSUME FaithInv, Closing, Orderly, dead = "nil", ~Closed, CallReply, ReadOK("C"),
         cpc' = "close", UNCHANGED <<cli, beh>>
  PROVE  ServeSilent
<1>1. /\ Types /\ Flowing /\ Producing /\ Decoding /\ "C" \in Ends
      /\ listed["C"] /\ ~HasClose(wire["C"]) /\ pend["C"] # <<>>
  BY EndFacts, OpenFacts, ZenonT(30) DEF FaithInv, ReadOK
<1>2. /\ cpc = "reply" /\ Reading /\ Decoded = 1 + Len(replies) /\ res = "nil"
      /\ header = Response(beh, 1) /\ cli.replies \in Nat
  <2>1. cli.replies \in Nat
    BY <1>1 DEF Types, Callers
  <2> QED BY <1>1, <2>1 DEF CallReply, Decoding, Reading, Decoded
<1>3. SUFFICES ASSUME spc \notin {"final", "done"}
               PROVE  spc = "values" /\ left = 0
  BY DEF ServeSilent
<1>4. Decoded + Len(pend["C"]) + Len(wire["C"]) = Produced
  BY <1>1, <1>2, <1>3, Zenon DEF Flowing, Responding
<1>5. /\ Len(replies) \in Nat /\ Len(wire["C"]) \in Nat /\ Len(pend["C"]) \in Nat
      /\ Len(pend["C"]) > 0
  <2>1. pend["C"] \in Seq(Data) /\ Len(replies) \in Nat /\ Len(wire["C"]) \in Nat
    BY <1>1, Counts, Zenon DEF Types
  <2> QED BY <1>1, <2>1
<1>6. Produced >= 2 + Len(replies)
  BY <1>2, <1>4, <1>5, AtLeastOne, ZenonT(30)
<1>7. spc \in {"values", "encodeValue"} /\ Produced = 1 + Values - left
  BY <1>5, <1>6 DEF Produced
<1>8. ~header.cont /\ Len(replies) + 1 >= cli.replies
  <2>1. cpc' = IF Len(replies) + 1 >= cli.replies THEN Finish(header) ELSE "reply"
    BY <1>1, Zenon DEF CallReply, ReadEOF
  <2> QED BY <2>1 DEF Finish
<1>9. beh.respond \in {"return", "none"}
  <2>1. header.cont = (beh.respond = "continue")
    BY <1>2, HeaderFacts, Zenon
  <2>2. beh.respond # "hang" /\ beh.respond # "error"
    BY <1>1, <1>7 DEF Producing, Orderly
  <2>3. beh.respond \in {"return", "continue", "error", "none", "hang"}
    BY <1>1 DEF Types, Handlers
  <2> QED BY <1>8, <2>1, <2>2, <2>3, Zenon
<1>10. Values = IF cli.replies = 0 THEN 1 ELSE cli.replies
  BY <1>9, Zenon DEF Orderly
<1>11. left \in Nat /\ (spc = "encodeValue" => left > 0)
  BY <1>1 DEF Types, Producing
<1>12. left = 0
  BY <1>2, <1>5, <1>6, <1>7, <1>8, <1>10, <1>11
<1> QED BY <1>7, <1>11, <1>12

\* A step of Call.
LEMMA CallQuiet ==
  ASSUME FaithInv, Closing, Orderly, dead = "nil", Quiet, Call, UNCHANGED <<cli, beh>>,
         CallSilent => CallSilent', ServeSilent => ServeSilent'
  PROVE  Quiet'
<1>1. /\ Types /\ "C" \in Ends /\ "S" \in Ends /\ Peer("C") = "S" /\ Wires
      /\ pend \in [Ends -> Seq(Data)] /\ sentClose \in [Ends -> BOOLEAN]
      /\ (~Closed => Pacing)
  BY EndFacts DEF FaithInv, Types, Quiet
<1>2. UNCHANGED serve
  BY Zenon DEF Call, CallWrite, CallEncode, CallHeader, CallReply, CallClose, CallReturn
<1>3. UNCHANGED <<spc, left>> /\ ServeSilent' = ServeSilent
  BY <1>2 DEF serve, ServeSilent
<1>4. ~Closed => ~ReadEOF("C") /\ ~WriteFails("C")
  BY <1>1, OpenFacts, Zenon DEF ReadEOF, WriteFails
<1>5. CASE CallWrite \/ CallReturn
  <2>1. UNCHANGED <<wire, pend, listed, sentClose, todo>>
    BY <1>5, Zenon DEF CallWrite, CallReturn, chan
  <2>2. Wires' /\ Ahead' = Ahead
    BY <1>1, <2>1, Zenon DEF Wires, Ahead
  <2>3. ~Closed => cpc' # "close"
    BY <1>4, <1>5 DEF CallWrite, CallReturn
  <2>4. ~Closed => Pacing'
    BY <1>1, <1>3, <2>2, <2>3, Zenon DEF Pacing
  <2> QED BY <2>1, <2>2, <2>4, QuietFrame, Zenon
<1>6. CASE CallEncode
  <2>1. Encoded("C") /\ todo' = Tail(todo) /\ cpc' \in {"header", "request"} /\ ~CallSilent
    BY <1>6, Zenon DEF CallEncode, EncodeFails, CallSilent
  <2>2. ~Closed /\ ~sentClose["C"] /\ Pacing
    BY <2>1, Zenon DEF Quiet, Closed
  <2>3. /\ Wires' /\ Len(wire'["S"]) = Len(wire["S"]) + 1
        /\ UNCHANGED <<pend, sentClose>>
    BY <1>1, <2>1, <2>2, EncodedWires, Zenon DEF Encoded
  <2>4. Len(todo') = Len(todo) - 1 /\ Len(todo) \in Nat
    <3>1. todo \in Seq(Data) /\ todo # <<>>
      BY <1>1, <2>1, Zenon DEF Types
    <3> QED BY <2>1, <3>1
  <2>5. Len(wire["S"]) \in Nat /\ Len(pend["S"]) \in Nat /\ Len(pend'["S"]) = Len(pend["S"])
    BY <1>1, <2>3, Counts, Zenon
  <2>6. Ahead' = Ahead
    <3> DEFINE p == Len(pend["S"])
               w == Len(wire["S"])
               t == Len(todo)
               w2 == Len(wire'["S"])
               t2 == Len(todo')
    <3>1. p \in Nat /\ w \in Nat /\ t \in Nat /\ w2 = w + 1 /\ t2 = t - 1
      BY <2>3, <2>4, <2>5, Zenon
    <3> HIDE DEF p, w, t, w2, t2
    <3>2. p + w2 + t2 = p + w + t
      BY <3>1
    <3> QED BY <2>5, <3>2, Zenon DEF Ahead, p, w, t, w2, t2
  <2>7. Pacing'
    BY <1>3, <2>1, <2>2, <2>6, Zenon DEF Pacing
  <2> QED BY <2>2, <2>3, <2>7, QuietFrame, Zenon
<1>7. CASE CallHeader \/ CallReply
  <2>1. UNCHANGED <<wire, listed, sentClose, todo>> /\ pend'["S"] = pend["S"]
    <3>1. "S" # "C"
      OBVIOUS
    <3> QED BY <1>1, <1>7, <3>1, Zenon DEF CallHeader, CallReply, ReadOK, chan
  <2>2. Wires' /\ Ahead' = Ahead
    BY <1>1, <2>1, Zenon DEF Wires, Ahead
  <2>3. ASSUME ~Closed
        PROVE  Pacing'
    <3>1. CASE cpc' # "close"
      BY <1>1, <1>3, <2>2, <2>3, <3>1, Zenon DEF Pacing
    <3>2. CASE CallHeader /\ cpc' = "close"
      <4>1. /\ pend["C"] # <<>> /\ Reading /\ Decoded = 0 /\ header' = Head(pend["C"])
            /\ header'.err
        BY <1>4, <2>3, <3>2 DEF CallHeader, ReadOK, Reading, Decoded
      <4>2. pend["C"] \in Seq(Data) /\ Head(pend["C"]) \in Data /\ 0 \in Nat /\ 0 + 1 = 1
        BY <1>1, <4>1
      <4>3. Head(pend["C"]) = Response(beh, 1)
        BY <4>1, <4>2, FollowsTail, DataFacts, ZenonT(30) DEF Flowing, FaithInv
      <4>4. beh.respond = "error"
        BY <4>1, <4>3, HeaderFacts, Zenon
      <4> QED BY <4>4, Zenon DEF Orderly
    <3>3. CASE CallReply /\ cpc' = "close"
      <4>1. ReadOK("C")
        BY <1>4, <2>3, <3>3, Zenon DEF CallReply
      <4>2. ServeSilent
        BY <2>3, <3>3, <4>1, CallEndsLast, Zenon
      <4> QED BY <1>1, <1>3, <2>2, <2>3, <4>2, Zenon DEF Pacing
    <3> QED BY <1>7, <3>1, <3>2, <3>3, Zenon
  <2> QED BY <2>1, <2>2, <2>3, QuietFrame, Zenon
<1>8. CASE CallClose
  <2>1. CallSilent /\ CloseChannel("C") /\ ServeSilent
    BY <1>1, <1>8 DEF CallClose, CallSilent, Pacing, Quiet
  <2>2. Wires' /\ sentClose'["C"]
    BY <1>1, <2>1, CloseChannelWires, Zenon
  <2> QED BY <2>1, <2>2, Zenon DEF Quiet, Closed
<1> QED BY <1>5, <1>6, <1>7, <1>8, Zenon DEF Call

\* A step of respond or the handler.
LEMMA ServeQuiet ==
  ASSUME FaithInv, Closing, Orderly, dead = "nil", Quiet, Serve, UNCHANGED <<cli, beh>>,
         CallSilent => CallSilent', ServeSilent => ServeSilent'
  PROVE  Quiet'
<1>1. /\ Types /\ "C" \in Ends /\ "S" \in Ends /\ Peer("S") = "C" /\ Wires
      /\ pend \in [Ends -> Seq(Data)] /\ pend["S"] \in Seq(Data) /\ todo \in Seq(Data)
      /\ left \in Nat /\ cli.args \in Nat
      /\ (~Closed => Pacing)
  BY EndFacts DEF FaithInv, Types, Quiet, Callers
<1>2. UNCHANGED call
  BY Zenon DEF Serve, ServeDecode, ServeReceive, ServeRespond, ServeWrite, ServeEncode,
               ServeClose, ServeEnd
<1>3. UNCHANGED <<cpc, todo>> /\ CallSilent' = CallSilent
  BY <1>2 DEF call, CallSilent
<1>4. ~Closed => ~ReadEOF("S") /\ ~WriteFails("S")
  BY <1>1, OpenFacts, Zenon DEF ReadEOF, WriteFails
<1>5. /\ Len(pend["S"]) \in Nat /\ Len(wire["S"]) \in Nat /\ Len(todo) \in Nat
      /\ (todo # <<>> => Len(todo) > 0)
  <2>1. Len(todo) \in Nat /\ (todo # <<>> => Len(todo) > 0)
    BY <1>1
  <2> QED BY <1>1, <2>1, Counts, Zenon
<1>6. CASE ServeDecode \/ ServeReceive
  <2>1. UNCHANGED <<wire, listed, sentClose>>
    BY <1>6, Zenon DEF ServeDecode, ServeReceive, ReadOK, chan
  <2>2. Wires'
    BY <1>1, <2>1, Zenon DEF Wires
  <2>3. ASSUME ~Closed
        PROVE  Pacing'
    <3>1. ReadOK("S")
      BY <1>4, <1>6, <2>3, Zenon DEF ServeDecode, ServeReceive
    <3>2. Len(pend'["S"]) = Len(pend["S"]) - 1
      <4>1. pend["S"] # <<>> /\ pend'["S"] = Tail(pend["S"])
        BY <1>1, <3>1, Zenon DEF ReadOK
      <4> QED BY <1>1, <4>1
    <3>3. Ahead' = Ahead - 1 /\ Ahead \in Nat
      <4> DEFINE p == Len(pend["S"])
                 w == Len(wire["S"])
                 t == Len(todo)
                 p2 == Len(pend'["S"])
      <4>1. p \in Nat /\ w \in Nat /\ t \in Nat /\ p2 = p - 1
        BY <1>5, <3>2, Zenon
      <4> HIDE DEF p, w, t, p2
      <4>2. p2 + w + t = (p + w + t) - 1 /\ p + w + t \in Nat
        BY <4>1
      <4> QED BY <1>3, <2>1, <4>2, Zenon DEF Ahead, p, w, t, p2
    <3>4. Pacing
      BY <1>1, <2>3
    <3>5. CASE ServeDecode
      <4>1. spc = "decode" /\ spc' \in {"done", "receive"} /\ left' = beh.receive
        BY <1>4, <1>6, <2>3, <3>5, Zenon DEF ServeDecode
      <4>2. Ahead = 1 + cli.args /\ beh.receive = cli.args
        BY <3>4, <4>1, Zenon DEF Pacing, Orderly
      <4>3. Ahead' = left'
        BY <1>1, <3>3, <4>1, <4>2
      <4>4. ~ServeSilent /\ cpc' # "close"
        BY <1>3, <3>4, <4>1 DEF ServeSilent, Pacing
      <4> QED BY <4>1, <4>3, <4>4 DEF Pacing
    <3>6. CASE ServeReceive
      <4>1. spc = "receive" /\ spc' = "receive" /\ left' = left - 1
        BY <1>4, <1>6, <2>3, <3>6, Zenon DEF ServeReceive
      <4>2. Ahead = left
        BY <3>4, <4>1, Zenon DEF Pacing
      <4>3. Ahead' = left'
        BY <3>3, <4>1, <4>2, Zenon
      <4>4. ~ServeSilent /\ cpc' # "close"
        BY <1>3, <3>4, <4>1 DEF ServeSilent, Pacing
      <4> QED BY <4>1, <4>3, <4>4 DEF Pacing
    <3> QED BY <1>6, <3>5, <3>6
  <2> QED BY <2>1, <2>2, <2>3, QuietFrame, Zenon
<1>7. CASE ServeRespond \/ ServeWrite
  <2>1. UNCHANGED <<wire, listed, sentClose>>
    BY <1>7, Zenon DEF ServeRespond, ServeWrite, chan
  <2>2. Wires'
    BY <1>1, <2>1, Zenon DEF Wires
  <2>3. ASSUME ~Closed
        PROVE  Pacing'
    <3>1. spc' \in {"header", "encodeHeader", "encodeValue", "final"}
      BY <1>7 DEF ServeRespond, ServeWrite
    <3>2. CallSilent
      <4>1. CASE ServeRespond
        <5>1. Ahead = 0
          BY <1>1, <2>3, <4>1 DEF ServeRespond, Pacing
        <5>2. Len(todo) = 0
          BY <1>5, <5>1, NoneLeft, Zenon DEF Ahead
        <5>3. todo = <<>>
          BY <1>5, <5>2
        <5> QED BY <1>1, <5>3, Zenon DEF Types
      <4>2. CASE ServeWrite
        BY <1>1, <2>3, <4>2 DEF ServeWrite, Pacing
      <4> QED BY <1>7, <4>1, <4>2
    <3>3. cpc' = "close" => ServeSilent'
      BY <1>1, <1>3, <2>3, Zenon DEF Pacing
    <3> QED BY <1>3, <3>1, <3>2, <3>3 DEF Pacing
  <2> QED BY <2>1, <2>2, <2>3, QuietFrame, Zenon
<1>8. CASE ServeEncode
  <2>1. /\ Encoded("S") /\ spc' = "values" /\ spc \in {"encodeHeader", "encodeValue"}
        /\ UNCHANGED sentClose
    BY <1>8, Zenon DEF ServeEncode, EncodeFails, Encoded
  <2>2. ~ServeSilent
    BY <2>1 DEF ServeSilent
  <2>3. ~Closed /\ ~sentClose["S"] /\ Pacing
    BY <2>2, Zenon DEF Quiet, Closed
  <2>4. Wires'
    BY <1>1, <2>1, <2>3, EncodedWires, Zenon
  <2>5. Pacing'
    BY <1>3, <2>1, <2>2, <2>3 DEF Pacing
  <2> QED BY <2>1, <2>4, <2>5, QuietFrame, Zenon
<1>9. CASE (ServeEnd \/ ServeClose) /\ CloseChannel("S")
  <2>1. ServeSilent /\ spc \in {"values", "final"}
    BY <1>9 DEF ServeEnd, ServeClose, ServeSilent
  <2>2. CallSilent
    BY <2>1 DEF Quiet, Pacing
  <2>3. Wires' /\ sentClose'["S"]
    BY <1>1, <1>9, CloseChannelWires, Zenon
  <2> QED BY <2>1, <2>2, <2>3, Zenon DEF Quiet, Closed
<1>10. CASE ServeEnd /\ UNCHANGED chan
  <2>1. UNCHANGED <<wire, listed, sentClose>> /\ spc' = "done"
    BY <1>10, Zenon DEF ServeEnd, chan
  <2>2. Wires'
    BY <1>1, <2>1, Zenon DEF Wires
  <2>3. Pacing'
    BY <2>1 DEF Pacing, ServeSilent
  <2> QED BY <2>1, <2>2, <2>3, QuietFrame, Zenon
<1> QED BY <1>6, <1>7, <1>8, <1>9, <1>10, Zenon DEF Serve, ServeEnd, ServeClose

\* A step of a session's loop.
LEMMA LoopQuiet ==
  ASSUME FaithInv, Closing, dead = "nil", Quiet, Loops,
         CallSilent => CallSilent', ServeSilent => ServeSilent'
  PROVE  Quiet' /\ dead' = "nil"
<1>1. PICK e \in Ends : Loop(e)
  BY Zenon DEF Loops, LoopEnds
<1> DEFINE p == Peer(e)
           v == Head(wire[e])
<1>2. /\ Types /\ Wires /\ (~Closed => Pacing) /\ "C" \in Ends /\ "S" \in Ends
      /\ p \in Ends /\ (e = "C" \/ e = "S") /\ (sentClose[p] => Closed)
  BY EndFacts, Zenon DEF FaithInv, Quiet, Closed
<1>3. /\ wire \in [Ends -> Seq(Msgs)] /\ pend \in [Ends -> Seq(Data)]
      /\ sentClose \in [Ends -> BOOLEAN] /\ wire[e] \in Seq(Msgs)
  BY <1>2, Zenon DEF Types
<1>4. Wires' /\ dead' = "nil" /\ (sentClose' = sentClose \/ sentClose[p])
  BY <1>1, <1>2, LoopWires, Zenon
<1>5. CASE Closed
  <2>1. sentClose' = sentClose \/ sentClose' = [sentClose EXCEPT ![e] = TRUE]
    BY <1>1, Zenon DEF Loop, Shut
  <2>2. Closed'
    BY <1>2, <1>3, <1>5, <2>1, Zenon DEF Closed
  <2> QED BY <1>4, <1>5, <2>2, Zenon DEF Quiet
<1>6. CASE ~Closed
  <2>1. ~HasClose(wire[e]) /\ listed[e] /\ Pacing /\ sentClose' = sentClose
    BY <1>2, <1>4, <1>6, OpenFacts, Zenon
  <2>2. wire[e] # <<>> /\ v \in Msgs
    <3>1. wire[e] # <<>>
      BY <1>1, Zenon DEF Loop
    <3> QED BY <1>3, <3>1
  <2>3. v.type # "close"
    BY <1>3, <2>1, <2>2, HasCloseFacts, Zenon DEF IsClose
  <2>4. /\ wire' = [wire EXCEPT ![e] = Tail(@)] /\ pend' = [pend EXCEPT ![e] = Append(@, v)]
        /\ UNCHANGED <<cli, call, serve>>
    BY <1>1, <2>1, <2>3, Zenon DEF Loop
  <2>5. Ahead' = Ahead
    <3>1. CASE e = "C"
      <4>1. "S" # "C"
        OBVIOUS
      <4>2. wire'["S"] = wire["S"] /\ pend'["S"] = pend["S"] /\ todo' = todo
        BY <1>2, <1>3, <2>4, <3>1, <4>1, Zenon DEF call
      <4> QED BY <4>2, Zenon DEF Ahead
    <3>2. CASE e = "S"
      <4> DEFINE q == Len(pend["S"])
                 w == Len(wire["S"])
                 t == Len(todo)
                 q2 == Len(pend'["S"])
                 w2 == Len(wire'["S"])
      <4>1. /\ wire'["S"] = Tail(wire["S"]) /\ pend'["S"] = Append(pend["S"], v)
            /\ todo' = todo
        BY <1>2, <1>3, <2>4, <3>2, Zenon DEF call
      <4>2. /\ wire["S"] \in Seq(Msgs) /\ wire["S"] # <<>> /\ pend["S"] \in Seq(Data)
            /\ todo \in Seq(Data)
        BY <1>2, <1>3, <2>2, <3>2, Zenon DEF Types
      <4>3. w2 = w - 1 /\ w \in Nat
        BY <4>1, <4>2
      <4>4. q2 = q + 1 /\ q \in Nat /\ t \in Nat
        BY <4>1, <4>2
      <4> HIDE DEF q, w, t, q2, w2
      <4>5. q2 + w2 + t = q + w + t
        BY <4>3, <4>4
      <4> QED BY <4>1, <4>5, Zenon DEF Ahead, q, w, t, q2, w2
    <3> QED BY <1>2, <3>1, <3>2
  <2>6. Pacing'
    <3>1. UNCHANGED <<cpc, spc, left, cli, ServeSilent, CallSilent>>
      BY <2>4, Zenon DEF call, serve, ServeSilent, CallSilent
    <3> QED BY <2>1, <2>5, <3>1, Zenon DEF Pacing
  <2> QED BY <1>4, <2>1, <2>6, QuietFrame, Zenon
<1> QED BY <1>5, <1>6

\* The other steps.
LEMMA OtherQuiet ==
  ASSUME FaithInv, Closing, Quiet, UNCHANGED <<cli>>, dead' = "nil",
         WatchDone \/ ResponseReceive \/ Cancel \/ CloseSession \/ UNCHANGED vars
  PROVE  Quiet'
<1>1. UNCHANGED <<wire, listed, sentClose, call, serve>> /\ pend'["S"] = pend["S"]
  <2>1. pend \in [Ends -> Seq(Data)] /\ "S" \in Ends /\ "S" # "C"
    BY EndFacts DEF FaithInv, Types
  <2> QED BY <2>1, Zenon DEF WatchDone, ResponseReceive, Cancel, CloseSession, ReadOK, vars, chan
<1>2. UNCHANGED <<cpc, todo, spc, left, ServeSilent, CallSilent>>
  BY <1>1, Zenon DEF call, serve, ServeSilent, CallSilent
<1>3. Wires' /\ Ahead' = Ahead
  BY <1>1, <1>2, Zenon DEF Wires, Ahead, Quiet
<1>4. ~Closed => Pacing'
  BY <1>2, <1>3, Zenon DEF Pacing, Quiet
<1> QED BY <1>1, <1>2, <1>3, <1>4, QuietFrame, Zenon

\* Closing, whatever happens.
LEMMA ClosingStep == Types /\ Closing /\ [Next]_vars => Closing'
<1> SUFFICES ASSUME Types, Closing, [Next]_vars PROVE Closing'
  OBVIOUS
<1>1. "C" \in Ends /\ "S" \in Ends
  BY EndFacts
<1>2. CASE UNCHANGED chan
  BY <1>2, ClosingFrame, Zenon DEF chan
<1>3. CASE CloseChannel("C") \/ CloseChannel("S")
  BY <1>1, <1>3, CloseChannelWires, Zenon
<1>4. CASE Encoded("C") \/ Encoded("S")
  BY <1>1, <1>4, EncodedWires, Zenon
<1>5. CASE ReadOK("C") \/ ReadOK("S")
  BY <1>5, ClosingFrame, Zenon DEF ReadOK
<1>6. CASE Loops
  BY <1>6, LoopWires, Zenon DEF Loops
<1>7. CASE CloseSession
  BY <1>7, ClosingFrame, Zenon DEF CloseSession
<1>8. CASE Call
  BY <1>2, <1>3, <1>4, <1>5, <1>8, Zenon
     DEF Call, CallWrite, CallEncode, CallHeader, CallReply, CallClose, CallReturn
<1>9. CASE Serve
  BY <1>2, <1>3, <1>4, <1>5, <1>9, Zenon
     DEF Serve, ServeDecode, ServeReceive, ServeRespond, ServeWrite, ServeEncode, ServeClose,
         ServeEnd
<1>10. CASE WatchCancel \/ WatchDone \/ ResponseReceive \/ Cancel \/ UNCHANGED vars
  BY <1>2, <1>3, <1>5, <1>10, Zenon
     DEF WatchCancel, WatchDone, ResponseReceive, Cancel, vars, chan
<1> QED BY <1>6, <1>7, <1>8, <1>9, <1>10, Zenon DEF Next

LEMMA HarmInit == Init => HarmInv
<1> SUFFICES ASSUME Init PROVE HarmInv
  OBVIOUS
<1>1. FaithInv /\ Types
  BY FaithInit, Zenon DEF FaithInv
<1>2. \A e \in Ends : /\ wire[e] = <<>> /\ ~eof[e] /\ ~sentClose[e] /\ ~winClosed[e] /\ listed[e]
  BY Zenon DEF Init
<1>3. ~HasClose(<<>>) /\ CloseLast(<<>>)
  BY DEF HasClose, CloseLast
<1>4. Closing /\ Wires /\ ~Closed
  BY <1>2, <1>3, EndFacts, Zenon DEF Closing, ClosingAt, Wires, Closed
<1>5. Ahead = 1 + cli.args
  <2>1. todo = Request(cli) /\ cli \in Callers
    BY <1>1, Zenon DEF Init, Types
  <2>2. Len(todo) = 1 + cli.args /\ cli.args \in Nat
    BY <2>1, RequestFacts DEF Callers
  <2>3. pend["S"] = <<>> /\ wire["S"] = <<>>
    BY EndFacts, Zenon DEF Init
  <2>4. Len(<<>>) = 0
    OBVIOUS
  <2>5. 0 + 0 + (1 + cli.args) = 1 + cli.args
    BY <2>2
  <2> QED BY <2>2, <2>3, <2>4, <2>5, Zenon DEF Ahead
<1>6. spc = "decode" /\ cpc = "request" /\ dead = "nil"
  BY Zenon DEF Init
<1>7. Pacing
  BY <1>5, <1>6 DEF Pacing
<1> QED BY <1>1, <1>4, <1>6, <1>7 DEF HarmInv, SessionSurvives, Quiet

LEMMA HarmStep == HarmInv /\ [Next]_vars => HarmInv'
<1> SUFFICES ASSUME HarmInv, [Next]_vars PROVE HarmInv'
  OBVIOUS
<1>1. FaithInv /\ Types /\ Closing
  BY Zenon DEF HarmInv, FaithInv
<1>2. FaithInv' /\ Closing'
  BY <1>1, FaithStep, ClosingStep, Zenon
<1>3. (CallSilent => CallSilent') /\ (ServeSilent => ServeSilent')
  BY SilentStays, Zenon
<1>4. ASSUME Orderly'
      PROVE  SessionSurvives' /\ (dead' = "nil" => Quiet')
  <2>1. /\ Orderly /\ UNCHANGED <<cli, beh>> /\ ~ctx'
        /\ dead' = "nil" => dead = "nil" /\ Quiet
    BY <1>4, StillOrderly, Zenon
  <2>2. SessionSurvives /\ (dead = "nil" => Quiet)
    BY <2>1, Zenon DEF HarmInv
  <2>3. CASE Call
    <3>1. UNCHANGED dead
      BY <2>3, Zenon DEF Call, CallWrite, CallEncode, CallHeader, CallReply, CallClose, CallReturn,
                         Encoded, ReadOK, CloseChannel, chan
    <3>2. dead' = "nil" => Quiet'
      BY <1>1, <1>3, <2>1, <2>3, CallQuiet, Zenon
    <3> QED BY <2>2, <3>1, <3>2, Zenon DEF SessionSurvives
  <2>4. CASE Serve
    <3>1. UNCHANGED dead
      BY <2>4, Zenon DEF Serve, ServeDecode, ServeReceive, ServeRespond, ServeWrite, ServeEncode,
                         ServeClose, ServeEnd, Encoded, ReadOK, CloseChannel, chan
    <3>2. dead' = "nil" => Quiet'
      BY <1>1, <1>3, <2>1, <2>4, ServeQuiet, Zenon
    <3> QED BY <2>2, <3>1, <3>2, Zenon DEF SessionSurvives
  <2>5. CASE Loops
    <3>1. CASE dead = "nil"
      <4>1. Quiet' /\ dead' = "nil"
        BY <1>1, <1>3, <2>2, <2>5, <3>1, LoopQuiet, Zenon
      <4> QED BY <4>1 DEF SessionSurvives
    <3>2. CASE dead # "nil"
      BY <2>2, <2>5, <3>2, Zenon DEF Loops, Loop, LoopEnds, SessionSurvives
    <3> QED BY <3>1, <3>2
  <2>6. CASE WatchCancel
    BY <2>1, <2>6, Zenon DEF WatchCancel
  <2>7. CASE WatchDone \/ ResponseReceive \/ Cancel \/ CloseSession \/ UNCHANGED vars
    <3>1. dead' = dead \/ dead' = "closed"
      BY <2>7, Zenon DEF WatchDone, ResponseReceive, Cancel, CloseSession, ReadOK, vars, chan
    <3>2. SessionSurvives'
      BY <2>2, <3>1 DEF SessionSurvives
    <3>3. dead' = "nil" => Quiet'
      BY <1>1, <2>1, <2>7, OtherQuiet, Zenon
    <3> QED BY <3>2, <3>3
  <2> QED BY <2>3, <2>4, <2>5, <2>6, <2>7, Zenon DEF Next
<1> QED BY <1>2, <1>4, Zenon DEF HarmInv

\* An orderly call - left alone, its handler receiving every arg and returning what
\* the caller reads - never sends a frame to a slot that is free, which would end
\* the session for every channel of it, although both ends close the channel.
THEOREM OrderlyCallsAreHarmless == Spec => []OrderlyCallsHarmless
<1>1. HarmInv => OrderlyCallsHarmless
  BY Zenon DEF HarmInv, OrderlyCallsHarmless
<1> QED BY HarmInit, HarmStep, <1>1, PTL DEF Spec

===============================================================================
