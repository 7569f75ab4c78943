# TLA+ models of qtalk-go

qtalk-go lets two processes call each other over any byte transport. This
directory models its two multiplexers (`src/mux`, `src/x/cbor/mux`), the frame
codec under the first (`src/mux/frame`), the RPC layer on top (`src/rpc`) with its
servers, listeners and proxies, and the remote callbacks of `src/exp`. TLC checks
the models on small instances. TLAPS proves the flow control of a channel, the handshake
and the reuse of slots of a session, what a call reports, the dispatch of calls and the
service of sessions for every size.

## The system

```
  exp.Ptr callbacks, talk.Peer, interop service
        |
  rpc.Client.Call  <-- one channel per call -->  rpc.Server.respond -> RespondMux
        |                                                |            (or a proxy)
   mux.Channel   (window, buffer)                   mux.Channel
        |                                                |
   mux.Session   (channel list, loop)               mux.Session <- mux.Listener
        |                                                |
   frame.Encoder / Decoder  <--- bytes of a transport --->
```

| part | code | state | operations | who runs them |
|---|---|---|---|---|
| send window | `mux/util_window.go` | `win`, `closed`, sleepers of the Cond | add, close, reserve | loop; writers |
| receive buffer | `mux/util_buffer.go` | linked list, `closed`, sleepers | write, eof, Read | loop; readers |
| channel | `mux/channel.go` | both windows, `pending`, `sentEOF`, `sentClose` | Write, Read, CloseWrite, Close, handle | application; loop |
| session | `mux/session.go`, `util_chanlist.go` | slots, `inbox`, `closeCh`, `err` | Open, Accept, Close, loop | application; loop |
| frames | `mux/frame` | encoder's mutex, bytes under way | Encode, Decode | everybody; loop |
| CBOR mux | `x/cbor/mux` | map of channels, id counter | as channel and session, without windows | application; loop |
| selector mux | `rpc/handler.go` | map `m`, sorted entries `es` | Handle, Remove, Match, RespondRPC | application; responders |
| call | `rpc/client.go`, `server.go`, `rpc.go`, `frame.go` | steps of a call | Call, its watcher, respond, Return, Continue, Receive | caller; watcher; responder |
| callbacks | `exp/ptr.go` | the handlers of Ptrs on a mux | RegisterPtrs, UnregisterPtrs, PtrsFrom, SetCallers | callers; callees |
| relays | `mux/proxy.go`, `rpc/proxy.go`, `interop` | two channels, two copies | Proxy, ProxyHandler, Stream, Bytes | one goroutine per direction |
| server | `rpc/server.go`, `mux/listen*.go`, `mux/dial*.go`, `talk` | sessions, HTTP handlers | ServeMux, Respond, Accept, Close, Dial | one goroutine per session, call and connection |

A session has one goroutine of its own, the loop, which reads frames and handles
each before the next, and which also encodes answers (OpenConfirm, OpenFailure,
Close). Everything else runs in goroutines of the application. What makes this
hard: loop and application share each channel under three locks, Write uses none
of them; a slot of the channel list is reused as soon as it is free; a frame for
an empty slot ends the session with all its channels; everybody may block in
Encode; and both ends of a call close the channel.

`PROJECT.json` lists the hazards with the lines where they bite, every component
(also those not modelled), and for each definition the lines it translates.

## The modules

| module | models | abstract specification |
|---|---|---|
| `Window` | the window with its condition variable, in wrapping integers | |
| `Buffer` | the linked list with Cond.Signal and Cond.Wait | `ByteQueue`: a closable queue of bytes |
| `Channel` | both ends of one open channel, and the loops that serve it | |
| `Session` | two sessions: handshake, slots, Close, the end of a session | |
| `Frames` | encoder and decoder over a transport that moves bytes in pieces | `FrameLink`: a queue of whole messages |
| `Cmux` | two sessions of the CBOR multiplexer with their channels | |
| `RespondMux` | registration and dispatch, with one mux inside another | the documentation's rule, as an operator |
| `Callbacks` | `RespondMux`, shared by tasks that register and remove Ptrs | the documentation of PtrsFrom, as an operator |
| `Rpc` | one call: caller, watcher, responder, handler, channel | |
| `Relay` | a proxy or relaying service between two channels | |
| `Server` | ServeMux and Respond over the three kinds of listener | |

`XMC` instantiates `X` for TLC. Proofs are in modules of their own: `WindowProofs`,
`ChannelProofs`, `SessionProofs`, `ServerProofs`, `RespondMuxProofs`, `RpcProofs` and
`RelayProofs`.

How they fit: `Buffer` implements `ByteQueue`, which is the `pending` of `Channel`;
`win` and `winClosed` of `Channel` are the state of `Window`, whose lost-wakeup
freedom justifies that `Channel` lets a writer go on whenever there is window;
`Frames` implements `FrameLink`, which is the `wire` of `Channel` and `Session`
(while the transport holds). `Callbacks` extends `RespondMux` and changes its state
only by Handle and Remove. `Rpc` and `Relay` have a channel reduced to what `Channel`
shows it to guarantee, `Server` a session reduced to its life. The links of `Buffer`
and `Frames` are shown by refinement; the others are a matter of reading.

### Correspondence and abstractions

One action is one critical section, or one step of a goroutine between two points
where it can block or be overtaken.

- `Window`: a goroutine in `reserve` is idle, asleep, or woken and about to look
  again. `Sum32` wraps at `Modulus`, which is 2^32 in the code.
- `Channel`: Write is `Write`, then `Reserve` and `EncodeData` for every packet;
  Read is `Read`, `GrowWindow`, `SendAdjust`; CloseWrite is `CloseWrite`, `SendEOF`.
  The loop is `Loop`, one frame at a time. Encode blocks while `Capacity` frames are
  under way. Bytes are numbered, so order and loss are visible; `sent`, `acked`,
  `regained`, `fin`, `got` and `sawEOF` are history.
- `Session`: `objs` are the channel objects an end ever made, `chans` the slots. The
  inside of a channel is left out but for Writes: both ends Write as often as they like,
  `Write` is the reservation and `SendData` the Encode, and neither looks at `sentClose`,
  so a Close, their own or the answer to the peer's, may come in between. Open is
  `Open`, `SendOpen`, `OpenReply` or `OpenCancelled`; handleOpen is `HandleOpen`,
  `Deliver` or `OpenTimeout`, `Answer`; Close is `Close`, `SendClose`; the end is
  `Drop`, `CloseDropped` once per channel, `Shut`. `heard`, `peer`, `from` and `late` are
  history; `late` marks Data that left after the Close of its own end. The payload limits
  both ends announce are constants of the code within the limits it checks, so those
  refusals are left out.
- `Frames`: bytes are digits in base `Base`, a uint32 is `Width` of them, message
  numbers start at 0 instead of 100. `Cut` ends the transport, cleanly or by a reset.
- `Cmux`: named as `Session` where the code has the same operation. The answer to an
  Open is handed over by the loop, which stays in `HandleAnswer` until `OpenReply`
  takes it. Data is numbered by the Write that sent it. `MapRace` is the unlocked read
  of the channel map in onePacket while newChannel writes it: the Go runtime may then
  end the process.
- `RespondMux`: selectors are sequences of characters, of which "/" and "." matter;
  Handle on a taken pattern panics and is not a step. Each operation is atomic, as it
  is under the mux's lock. (A sub mux is matched under the lock of the mux above it; what
  a registration in the sub mux at that moment does to the call is not modelled.)
- `Callbacks`: a value is a tree of structs, lists, maps, pointers and Ptrs; `Props`
  and `Walk` are keys, prop and walk of `exp/ptr.go`, `Encoded` is what JSON makes of
  a value. RegisterPtrs is `RegisterMatch` and `RegisterHandle` for every Ptr, as the
  code holds no lock between Match and Handle; UnregisterPtrs likewise. `Program` is
  what other goroutines register and remove. `MatchRaces` is a Match, which takes no lock,
  beside a Handle or Remove of another goroutine: the Go runtime may end the process, or
  Match returns anything.
- `Rpc`: a value is one frame. A call is chosen in `Init`: how many args, replies
  and values, whether the handler returns, fails, continues, does nothing or hangs.
  The window never fills in a call. Channel Close is atomic here; Write is not.
- `Relay`: io.Copy is `CopyRead` and `CopyWrite` for each item, `CopyEnd` is the
  CloseWrite or Close after it. What the applications send is in `in` until the
  relay's loop handles it; what the relay sends is handled at once, which loses no
  behaviour, since an application that has not seen it yet just took its step before.
  A Write is one step. In the code a Close may come between its reservation and its
  Encode, and the Data then ends the session, which is `Cut`, or concerns only channels
  that both ends have closed.
- `Server`: connections are dialed, accepted, hung up; `gone` are the transports that
  are closed, by whichever side, `hung` those closed by the peer. A loop ends on a closed
  transport (`LoopEnds`) or, at any time, on a packet it cannot handle (`LoopFails`): a
  frame for a free slot, or what is left of a stream that two sessions read. It then
  closes the transport; `failed` records it. `Closes` is what a Close closes: nothing, if
  the writer of a stream listener fails to close. The HTTP handler of
  the WebSocket listener is `HandlerStarts`, `HandlerSends` or `HandlerPanics` (send on
  a closed Go channel), `HandlerEnds`. Sessions of a stream listener share a transport.

## The runs

All passing runs together take a few minutes; `session` (670,000 states), `callbacks`
(335,000), `cmux` (225,000) and `relay` (220,000) take most of it, and `session_live`, whose
properties need strong fairness. `FairSpec` is used where a property is a liveness property.

| run | what it shows | bounds |
|---|---|---|
| `window` | no goroutine sleeps while there is window or after close, no byte of window is made or lost | two writers, 2-bit integers with every argument, 7 bytes added: sums wrap |
| `buffer` | with one reader the list implements the fair byte queue: order, ends, and every Read that can return does | 4 bytes in elements of 0 to 2, so reads span elements and split them |
| `channel` | flow control errors never happen, credit is conserved, bytes arrive in order, io.EOF means complete; Writes return, the end of the stream arrives | window 2, a Write of 3 (it blocks), reads of 2, CloseWrite and Close at both ends, B may close the session, room for three frames |
| `session` | frames reach the channel their sender is connected to (but for Data that leaves after the Close of its own end), handshakes agree, nothing is closed twice | both ends open one channel, so each end has two slots that are reused; A cancels Opens and Writes any number of times on the channel it opened and the one it accepted; room for three frames |
| `session_live` | Opens are answered, Close frees its slot, packets are processed, sessions and Accepts end | A opens a channel and may cancel it; B may accept it, Write without end, close it at once, or close the session; room for two frames |
| `frames` | Encoder and Decoder implement the queue of messages, which fails only by a cut | two senders, 3 messages of all seven types, fields of two base-8 digits, 3 bytes of transport |
| `callbacks` | dispatch follows the documentation; callbacks reach their function during the call, none is left after it, Handle panics only on a Ptr that two tasks have | patterns "a", "a.", "/a/b/" and "" for two handlers and a sub mux in every order; Remove of "a"; values of three levels with three Ptrs; two tasks that register twice, with Ptrs of their own and with shared ones |
| `rpc` | Call returns and reports what the handler did, cancelling ends it, the responder's channel is released, orderly calls spare the session | all call styles with up to two args, replies and values; cancelled and cut at any step |
| `rpc_error` | finding, below | one call whose handler returns an error |
| `cmux` | handshakes agree, data reaches its channel in order, io.EOF means complete; packets are processed, sessions end | A opens one channel that both ends close, with the session; or two that A closes; Opens are cancelled; one Write per channel; room for two frames |
| `relay` | the streams of the two directions pass unmixed and complete, channels are released, the echo returns everything | window 1; up to two items each way, three echoed; with faults one or two; sessions cut and Opens failing at any point |
| `server` | a session in service ends only when its own peer hangs up or its own loop fails on a packet, every dialer is served, ServeMux returns after Close, no session or goroutine is left behind | two connections, two calls each, all three listeners |

Why the bounds are enough: each counter is just large enough for the case that
matters to occur (a Write larger than the window, a read that leaves half an element,
a slot that is freed and taken again, a message whose bytes do not fit the transport,
three nested patterns, an item that waits for window in each direction, a connection
between accept and hand-over while another one is served), and the parts with unbounded
data are proved.

The modules state more than the runs list. `TypeOK` of every module, and

- proved below: `GrantsProgress` of `Window`, `WindowsBounded` of `Channel`,
  `EntriesAgree` of `RespondMux`;
- `CloseReleases` of `Window`, `BlockedOnlyWhenEmpty` of `Buffer`, `CloseEndsControl` and
  `CloseCompletes` of `Channel`, `ErrorsMeanCut` of `Frames`, `PtrsFound` of `Callbacks`,
  `ListedAreOpen` and `OpenAnswered` of `Cmux`

hold on the instances of the runs as well: TLC passes with them added to the
configurations.

What the instances assume about use:

- `session` lets an acceptor close a channel only after it has read what the opener sent
  (`CloseFrom = "read"`). Without that the code fails: `SessionEarlyClose.cfg`.
  `session_live` has no such condition. `FramesReachPeers` leaves out Data that leaves
  after the Close of its own end: it may find its slot empty, which ends the session
  (`rpc_error`), or in use by the next channel (a variant of `SessionEarlyClose.cfg`).
- The instances of `Session` have room for the answers of one loop. When both ends
  open several channels over a full transport, both loops block: `SessionFull.cfg`.
- `callbacks` removes plain patterns only, `MostSpecificCalled` excludes selectors that
  are the very pattern of a sub mux, and next to the Ptrs no handler is registered that
  matches everything. `CallbacksReachable` is about Ptrs that one task has, and the
  properties of the Ptrs ask nothing once a Match was disturbed. `buffer` has one reader.
- `OrderlyCallsHarmless` is about calls that are not cancelled, whose handler receives
  all args and returns what the caller reads.
- `PacketsProcessed` of `Cmux` leaves out a loop that waits for the receiver of an
  answer to a cancelled Open, which blocks it for ever: `CmuxCancel.cfg`.
- `EOFMeansComplete` of `Relay` leaves out a backend behind ProxyHandler that has ended
  its own stream. The channels report the bytes they wrote; those of the CBOR mux
  report 0, see `RelayShort.cfg`.

Deadlock is not checked: in every module a state in which all goroutines are done or
wait for an application that does nothing is legitimate, and the liveness properties
say what must not stop.

### Fairness

Weak fairness of the loop, and of every call under way: Go runs goroutines that can
run, mutexes and Cond queues are fair enough for that, and a transport with room takes
bytes. In `Session`, where Writes without end compete for the transport, it is strong
fairness for the steps that may have to encode an Open, an answer or a Close: a Go mutex
is handed to a goroutine that has waited for a millisecond, so each gets its turn. In
`Session` and `Cmux` the timer of handleOpen fires. In `Channel` and `Relay` the
application goes on reading; without a reader the window rightly stays closed. The client
of the echo in `Relay` goes on writing, as `check.go` does. In `Server` a handler returns
once its channel has ended, and a Close of the listener that has begun goes on.
Nobody has to open, dial, write, cancel, close, hang up or Accept.

## Proofs

`WindowProofs`, for any number of goroutines, modulus and set of amounts, from
`WindowAssumption` (the arguments are unsigned integers below the modulus):

- `WakeupSafe`, `WindowConserved`, `ReserveProgress`, `TypeCorrect`. The four
  invariants are inductive together. The step that needs thought is `SumExact`: the
  sum is exact if and only if add's wrap-around test accepts it.

`ChannelProofs`, for every window, packet size, capacity, set
of sizes and choice of who writes and closes, from `ChannelAssumption` (the window is
positive and below the modulus, sizes are positive):

- `FlowControl`: none of the three flow control errors is returned.
- `WindowsStayBounded`: the claim of the comment at `channel.go:162`, that myWindow never
  exceeds its initial setting; so no window arithmetic wraps.
- `CreditIsConserved`, `DeliveryInOrder`, `EOFComplete`, `TypeCorrect`.

None of these is inductive: whether the head of the wire fits the window depends on
all frames behind it. `IndInv` therefore says that a queue of frames is a *chain*: each
frame starts, in the byte stream and the credit stream of its sender, where the one
before it ended, the first where the receiver is and the last where the sender is
(`Chain`). With it `Credit` relates windows, buffers, reservations and credit of the two
ends by inequalities that hold for ever, and `Exact` by equalities while nothing is
closed; `Order` and `Ending` do the same for bytes and ends of the stream. There is one
lemma per action.

`SessionProofs`, for any number of Opens by either end, any capacity of the transport,
whether or not Opens are cancelled, channels accepted and written to, and sessions closed
under way, from `SessionAssumption` (which says what kind of values the
parameters are):

- `ListsNameOpenChannels`: loop never closes the `msg` of a channel twice and never sends
  on a closed one. `ListInv` is inductive: the channel in a slot has the id of the slot,
  so it is in no other; it is open; and what dropAll returned is in no slot.
- `FramesReachTheirChannel`: no frame reaches a channel other than that of its sender, or
  an empty slot, but for Data that leaves after the Close of its own end (`late`), whether
  the application called that Close or loop answered the peer's. This has the premise
  `CloseFrom = "read"`, since without it the code fails (`SessionEarlyClose.cfg`).
- `HandshakesAgree`, with the same premise: when Open has returned, both ends agree on who
  is connected to whom.

The last two need each other and a history of the handshake, `HandInv`. A channel that
handleOpen made is the only one made for its opener and has the opener's id (`Pair`); an
opener that was confirmed has the id of a channel that was accepted (`ConfirmedAt`); every
frame on a wire says of its sender what was true when it was sent and still is (`Sent`);
on a wire nothing but late Data follows the Close or the OpenFailure of a channel
(`Ordered`). The heart is `ListsAt`: while the loop of an end runs, each of its channels is
in its slot, or else the channel it is connected to is `Finished`: it has closed, no Close
of it is under way, and no frame of it but late Data is on the wire. So a slot is free for
reuse only when nothing but late Data can arrive for its former owner. The premise enters
with the Close of an accepted channel: as it has read what its opener sent, Open has
returned there (`Returned`), so the OpenConfirm is no longer under way and the opener may
free its slot when that Close arrives. Late Data is not followed at all: what it may do is
what `FramesReachPeers` leaves out, and `heard` counts only Data from the channel's own
opener, so late Data that reaches the next channel of a slot does not satisfy the premise.

The invariant is written as a predicate `Hand` of the channels, the frames, the listed
channels and the channels being offered. What a step does to it is put together from few
kinds of change, each with a lemma: a channel goes on (`Step`), a frame is sent or taken
from the wire, a channel is added, a slot is freed. Then there is one lemma per action.

`RpcProofs`, for every call: any number of args, replies and values, any handler, with or
without cancellation, aborts, starving streams and mismatching codecs, from
`RpcAssumption` (what callers and handlers may be):

- `RepliesAreFaithful`: what Call reports is what the handler did. This is about the end
  of a call; `FaithInv` says it of every step. What is under way to Call, in the buffer
  and on the wire, is the response from where Call has decoded it on (`Follows`); while
  nothing is closed and respond is at it, nothing of it is missing, so that what Call has,
  what is under way and what respond has yet to encode add up (`Flowing`); respond's next
  value is the next of the response (`Producing`); what Call has decoded is its beginning
  (`Decoding`).
- `OrderlyCallsAreHarmless`: an orderly call never sends a frame to a slot that is free.
  `HarmInv` adds who may have closed what (`Closing`) and, as long as the session lives,
  that nothing follows a Close on a wire and nothing is under way to a free slot
  (`Wires`). A value encoded after a Close would break that, so neither end may close
  before both have encoded all they have to (`Quiet`, `Pacing`). For the caller this
  follows from the counting in `FaithInv`: when it has read its last reply, an orderly
  handler has no value left. For respond it follows from `Ahead`: when the handler has
  received its last arg, none is left to send.

`RelayProofs`, for any windows and numbers of items, both kinds of relay, applications
that are free or echo, with or without cut sessions, refused calls and writers that
report too few bytes, from `RelayAssumption` (what a use of the relay is):

- `IntactHolds`: what an application reads is a prefix of what was written for it.
  `StreamInv` follows each stream through all the places it passes. What x wrote is, in
  this order, taken by the reader, in the reader's buffer, in the hand of the copy, in the
  relay's buffer, and in frames on their way to the relay (`Stream`); each of these holds
  the items that come after those of the one before (`Carried`). When the session of x is
  cut, the frames are lost and nothing follows; when the copy has ended, only what has
  reached the reader matters. The echo reads one stream and writes the other, so the items
  it has taken are those it has written and the one in its hand (`Rcvd`). `Stopped` says
  that after the announcement of the end no item is sent.
- `EOFMeansCompleteHolds`: io.EOF means complete. `EOFInv` follows the end of a stream the
  same way: x announces it after its last item (`Announcing`); while the copy runs, an end
  that has reached the relay is the end of the stream, and no item is behind it (`Coming`);
  when the copy has ended, everything has been passed on (`Arrived`); the reader learns of
  an end only after that (`Told`), and until then the relay can write to the reader's
  channel (`Kept`), since a Write that fails would end the copy early. The exception for the
  backend of ProxyHandler enters where the copy from the backend ends with a Close: the
  other stream is then excused, because the backend has ended its own (`Excused`).

`Fine`, the premise of the second part, is the one of the property: no session was cut,
the call was not refused, and no Write reports fewer bytes than it took.

`RespondMuxProofs`, for every set of patterns, handlers and selectors, from
`RespondMuxAssumption` (patterns and selectors are strings; a handler is not one of the
two muxes), for programs that remove only patterns that do not end in a slash:

- `EntriesStay`: `es` holds exactly the patterns of `m` that end in a slash, sorted from
  longest to shortest and without duplicates. `Inserted` says where appendSorted puts an
  entry, `Added` that a new entry there keeps the rest in order. The invariant adds that
  no pattern is empty and that the sub mux holds no mux.
- `DispatchDocumented`: a call reaches the handler the documentation names. The entry at
  which the loop of Match stops is the first that fits (`FirstIsLongest`); as the entries
  are sorted no fitting pattern is longer, and two prefixes of one selector that are as
  long as each other are the same (`SamePrefix`), so it is the documented one. Below a
  sub mux the same holds for the rest of the selector, since cleanSelector leaves a clean
  selector alone (`Clean`).

The theorems are about `Spec` of `RespondMux`. The Ptrs of `Callbacks` are handlers of
plain patterns to it.

`ServerProofs`, for every set of connections, bound on calls and choice of listeners,
from `ServerAssumption`:

- `EndsAreCaused`: a session in service ends only when its own peer has hung up or its own
  loop has failed on a packet; closing a network listener, the HTTP handler and other
  sessions leave it alone. Sessions of a stream listener have these causes in common, and
  end when the listener is closed. This is not inductive, since a transport is closed long
  before the session's loop notices, perhaps before anybody serves it. `Blame` says for
  each place at which a connection can be (not dialed, waiting, in the HTTP handler, in
  service) who can have closed its transport; `OneStream` that the sessions of a stream
  listener share theirs.
- `TypeCorrect`.

Only model-checked: liveness, which this prover cannot treat; the refinements of
`Buffer` and `Frames`, which flatten and fold sequences and so need induction;
`CloseEndsControl` of `Channel`; what PtrsFrom finds, which is recursive; the windows
of `Relay`; and all of `Frames` and `Cmux`.

## Findings

- `rpc_error`: when a handler returns an error, the caller closes the channel as soon as
  it has the header, while the responder still sends the nil value after it. If the
  Close is answered between reserve and Encode of that value, the Data frame names a
  free slot and ends the session.

### Further configurations

These are not among the runs above. Each shows the named property violated, except the
first five, which pass. Where the first column names changes, the configuration is the
named file with these, and with the property in place of its own.

| configuration | module | property | what happens |
|---|---|---|---|
| `BufferWakeup.cfg` | `BufferMC` | `BytesInOrder`, `ImplementsQueue` | two readers still get every byte once and in order |
| `Channel.cfg`: `Spec`, `ReadSizes = {1, 2}` | `ChannelMC` | the invariants of `channel` | the same with reads of 1 and 2 |
| `Channel.cfg`: `WindowSize`, `MaxPacket`, `Capacity` 1, `WriteSizes = {2}`, `ReadSizes = {1}`, `MaxBytes = 2`, `WriteEnds <- Both`, `EOFEnds`, `AbortEnds <- Nobody`, `CloseEnds <- OnlyB` | `ChannelMC` | `CreditConserved`, `WriteReturns` | both ends write through windows and a transport of size one |
| `Session.cfg`: `Capacity = 2`, `AbortEnds <- OnlyA` | `SessionMC` | as `session` | A may also close its session at any step |
| `Session.cfg`: `MaxOpens = 3`, `Capacity = 2`, `Openers <- OnlyA`, `AcceptEnds`, `Writers <- OnlyB` | `SessionMC` | as `session` | one end opens three channels, the other Writes on them (7,500,000 states) |
| `BufferWakeup.cfg` | `BufferMC` | `BlockedOnlyWhenEmpty` | of two concurrent readers eof wakes one (`util_buffer.go:54`) |
| `ChannelLateData.cfg` | `ChannelMC` | `NoDataAfterClose` | a Write under way sends data after Close (`channel.go:111`; the comment at 90 excludes it) |
| `ChannelLateData.cfg`: `EOFEnds <- OnlyA`, `CloseEnds <- Nobody` | `ChannelMC` | `NoDataAfterEOF` | the same after CloseWrite (`channel.go:99`) |
| `ChannelHugeWrite.cfg` | `ChannelMC` | `WriteReturns` | a Write of 2^32 bytes reserves none for ever (`channel.go:19`) |
| `SessionEarlyClose.cfg` | `SessionMC` | `FramesReachPeers` | handleOpen hands a channel to Accept before it encodes OpenConfirm; an acceptor that closes it in between makes the opener free its slot, and the OpenConfirm then ends the session (`session.go:212`) |
| `SessionEarlyClose.cfg`: `MaxOpens = 2`, `Writers <- OnlyA`, `CloseFrom = "read"` | `SessionMC` | `NoDataAstray` | Data of a Write under way when its own end is closed reaches the next channel of the slot (`session.go:189`) |
| `SessionFull.cfg` | `SessionMC` | `PacketsProcessed` | both loops block in Encode on a full transport (`session.go:213`) |
| `SessionLateOpen.cfg` | `SessionMC` | `OpenReturns` | an Open between dropAll and the close of the transport waits for ever (`session.go:160`) |
| `CmuxCancel.cfg` | `CmuxMC` | `ProcessesPackets` | the answer to a cancelled Open has no receiver, and the loop stops (`x/cbor/mux/channel.go:124`) |
| `CmuxCancel.cfg`: `MaxOpens = 2`, `Uses <- RaceUses` | `CmuxMC` | `NoCrash` | the loop reads the map of channels while an Open writes it (`x/cbor/mux/session.go:185`) |
| `CmuxWrap.cfg` | `CmuxMC` | `DataFaithful` | after 2^32 channels an id is given to two channels (`x/cbor/mux/session.go:124`; two ids here) |
| `CallbacksRemove.cfg` | `CallbacksMC` | `MostSpecificCalled` | Remove leaves the entry of a prefix pattern in `es`, which goes on being called (`handler.go:110`) |
| `CallbacksRemove.cfg`: `Uses <- ExactUses` | `CallbacksMC` | `SubMuxTrimmed` | the very pattern of a sub mux is matched untrimmed (`handler.go:125`) |
| `CallbacksRemove.cfg`: `Uses <- CatchAllUses` | `CallbacksMC` | `CallbacksReachable` | a handler for every selector keeps RegisterPtrs from registering (`exp/ptr.go:69`) |
| `CallbacksRemove.cfg`: `Uses <- SharedUses` | `CallbacksMC` | `NoPanic` | two tasks register the same Ptr, between Match and Handle (`exp/ptr.go:69`) |
| `CallbacksRemove.cfg`: `Uses <- SharedUses` | `CallbacksMC` | `NoAbort` | Match reads the map while another task's Handle writes it (`rpc/handler.go:123`) |
| `CallbacksRemove.cfg`: `Uses <- UnfoundUses` | `CallbacksMC` | `CallbacksReachable` | Ptrs in fields of an interface type, behind two pointers or in maps by number are not registered (`exp/ptr.go:138`) |
| `RpcNotFound.cfg` | `RpcMC` | `SessionSurvives` | NotFoundHandler closes under the caller's argument (`handler.go:33`) |
| `RpcLateCancel.cfg` | `RpcMC` | `ContinuedStaysOpen` | the watcher closes a continued channel after Call returned (`client.go:54`) |
| `RpcMismatch.cfg`: `Calls <- Streaming`, `Cancels`, `Starves` TRUE, `Mismatch` FALSE | `RpcMC` | `CancelAborts` | Call waits for a streamed argument although cancelled (`client.go:83`) |
| `RpcMismatch.cfg` | `RpcMC` | `RespondReleases` | a header that cannot be decoded leaks the channel (`server.go:72`) |
| `RelayHalfClose.cfg` | `RelayMC` | `HalfCloseKept` | ProxyHandler closes the call when the backend half-closes, and cuts off what the client still sends (`rpc/proxy.go:27`) |
| `RelayHalfClose.cfg` | `RelayMC` | `HandlerReleases` | after a backend that only half-closes ProxyHandler never closes its channel (`rpc/proxy.go:27`) |
| `RelayShort.cfg` | `RelayMC` | `EchoReturns` | io.Copy onto a channel whose Write reports 0 bytes ends after its first piece (`x/cbor/mux/channel.go:66`) |
| `ServerIO.cfg` | `ServerMC` | `ServeMuxAlwaysReturns` | Accept of a stream listener never fails, so ServeMux goes on after Close (`listen_io.go:15`) |

## Not modelled

- `fn`: conversion of arguments and results by reflection. It has no state, and what it
  computes is a matter of Go's type system rather than of values TLC could enumerate.
- `codec`, `x/cbor/cbor.go`: calls of the JSON and CBOR libraries. `Encoded` of
  `Callbacks` models what JSON makes of the values a Ptr is in.
- `x/quic`, `x/webrtc`: pass every operation to quic-go and pion/webrtc, whose state
  machines decide the order of events and are not in this repository.
- `cmd/qtalk`: command lines, help and output, but for the checks that `Relay` has.
- A composition of `Channel` and `Session` in one state space: a channel alone has
  60,000 states and a pair of sessions 670,000, so TLC would have to give up either the
  windows or the reuse of slots. The channel of `Session` is therefore its Writes and
  Closes, and that of `Rpc` and `Relay` what `Channel` shows a channel to guarantee.
- Time: timers may fire at any moment, and cancellation may come at any step.
