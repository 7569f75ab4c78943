-------------------------------- MODULE Buffer --------------------------------
(***************************************************************************)
(* The receive buffer of src/mux/util_buffer.go: a linked list of byte     *)
(* slices under one mutex and one condition variable.  The session's loop  *)
(* writes to it and closes it, goroutines Read from it.  (The buffer of    *)
(* src/x/cbor/mux/buffer.go is the same code.)                             *)
(*                                                                         *)
(* One action is one critical section: Read runs up to its Wait or its     *)
(* return.  Wait is reached only with n = 0, so a woken Read starts its    *)
(* loop over.                                                              *)
(***************************************************************************)
EXTENDS Naturals, Sequences, SequencesExt

CONSTANTS
  Readers, Sizes, MaxBytes, MaxChunk,   \* as in ByteQueue
  MaxElements                           \* bound on the length of the list

VARIABLES
  list,       \* the elements from head to tail, each the bytes it still holds
  closed,     \* buffer.closed
  put,        \* history: bytes written so far; they are numbered 1, 2, ...
  pc,         \* where each reader is
  want,       \* len(buf) of its Read
  out,        \* what its last Read returned
  taken       \* history: the bytes all Reads returned, in order

vars == <<list, closed, put, pc, want, out, taken>>

\* newBuffer: one empty element is both head and tail.
Init ==
  /\ list = <<<<>>>>
  /\ closed = FALSE
  /\ put = 0
  /\ pc = [r \in Readers |-> "idle"]
  /\ want = [r \in Readers |-> 0]
  /\ out = [r \in Readers |-> [data |-> <<>>, err |-> "nil"]]
  /\ taken = <<>>

\* A mistake to catch: an eof that wakes nobody.
EofSilent ==
  /\ closed' = TRUE
  /\ UNCHANGED <<list, put, pc, want, out, taken>>

\* Cond.Signal: one sleeper, if there is one, will run again.
Signal ==
  \/ /\ \A r \in Readers : pc[r] # "asleep"
     /\ UNCHANGED pc
  \/ \E r \in Readers :
       /\ pc[r] = "asleep"
       /\ pc' = [pc EXCEPT ![r] = "ready"]

\* write: a new element becomes the tail.
Write(k) ==
  /\ put + k =< MaxBytes
  /\ Len(list) < MaxElements
  /\ list' = Append(list, [i \in 1 .. k |-> put + i])
  /\ put' = put + k
  /\ Signal
  /\ UNCHANGED <<closed, want, out, taken>>

Eof ==
  /\ closed' = TRUE
  /\ Signal
  /\ UNCHANGED <<list, put, want, out, taken>>

\* The loop of Read with room for k more bytes: copy from the head, or move
\* the head to the next element, until buf is full or the list is used up.
RECURSIVE Drain(_, _, _)
Drain(l, k, data) ==
  LET m == IF k < Len(l[1]) THEN k ELSE Len(l[1]) IN
  IF k = 0 \/ (l[1] = <<>> /\ Len(l) = 1) THEN [list |-> l, data |-> data]
  ELSE IF l[1] # <<>>
  THEN Drain(<<SubSeq(l[1], m + 1, Len(l[1]))>> \o Tail(l), k - m,
             data \o SubSeq(l[1], 1, m))
  ELSE Drain(Tail(l), k, data)

\* One critical section of Read: it returns what it copied, or io.EOF, or waits.
Attempt(r, k) ==
  LET d == Drain(list, k, <<>>)
      block == k > 0 /\ d.data = <<>> /\ ~closed
      err == IF k > 0 /\ d.data = <<>> THEN "EOF" ELSE "nil" IN
  /\ list' = d.list
  /\ pc' = [pc EXCEPT ![r] = IF block THEN "asleep" ELSE "idle"]
  /\ out' = IF block THEN out
            ELSE [out EXCEPT ![r] = [data |-> d.data, err |-> err]]
  /\ taken' = taken \o d.data
  /\ UNCHANGED <<closed, put>>

Read(r, k) ==
  /\ pc[r] = "idle"
  /\ want' = [want EXCEPT ![r] = k]
  /\ Attempt(r, k)

Recheck(r) ==
  /\ pc[r] = "ready"
  /\ UNCHANGED want
  /\ Attempt(r, want[r])

Next ==
  \/ \E k \in 0 .. MaxChunk : Write(k)
  \/ Eof
  \/ \E r \in Readers : (\E k \in Sizes : Read(r, k)) \/ Recheck(r)

Spec == Init /\ [][Next]_vars

\* A reader that was signalled runs.
FairSpec == Spec /\ \A r \in Readers : WF_vars(Recheck(r))

-------------------------------------------------------------------------------

\* The list is never empty (head and tail always exist), and holds bytes written.
TypeOK ==
  /\ list \in Seq(Seq(1 .. MaxBytes)) \ {<<>>}
  /\ closed \in BOOLEAN
  /\ put \in 0 .. MaxBytes
  /\ pc \in [Readers -> {"idle", "ready", "asleep"}]
  /\ want \in [Readers -> Sizes \cup {0}]
  /\ \A r \in Readers : out[r].err \in {"nil", "EOF"}

\* No byte is lost, duplicated or reordered between write and Read, wherever
\* the ends of the Reads fall with respect to the ends of the elements.
BytesInOrder == taken \o FlattenSeq(list) = [i \in 1 .. put |-> i]

\* "Reads will block if no data is available, or until the buffer is closed":
\* a reader that is asleep, with no other reader on its way, has nothing to
\* read and the buffer is open.
BlockedOnlyWhenEmpty ==
  (\E r \in Readers : pc[r] = "asleep") /\ (\A r \in Readers : pc[r] # "ready")
    => FlattenSeq(list) = <<>> /\ ~closed

\* The linked list with its condition variable implements a closable queue of
\* bytes, whose waiting readers are those asleep or just woken.
Queue == INSTANCE ByteQueue WITH
  content <- FlattenSeq(list),
  waiting <- {r \in Readers : pc[r] # "idle"}

\* What is read is what a queue of bytes would give.
ImplementsQueue == Queue!QSpec

\* With the readers that run when woken, no reader waits for ever either.
ImplementsFairQueue == Queue!QFairSpec

===============================================================================
