------------------------------ MODULE ByteQueue -------------------------------
(***************************************************************************)
(* What a channel expects of its receive buffer: a queue of bytes that can *)
(* be closed.  A Read takes as many bytes as are there and fit, in the     *)
(* order they were put in; it waits while there are none; at the end of a  *)
(* closed queue it reports io.EOF.                                         *)
(***************************************************************************)
EXTENDS Naturals, Sequences

CONSTANTS
  Readers,    \* goroutines that Read
  Sizes,      \* len(buf) of a Read
  MaxBytes,   \* bound on the bytes ever put in
  MaxChunk    \* bound on the bytes of one write

VARIABLES
  content,    \* the bytes put in and not yet taken; bytes are numbered 1, 2, ...
  closed,
  put,        \* how many bytes were put in
  waiting,    \* readers inside Read
  want,       \* len(buf) of a reader's Read
  out         \* what its last Read returned

qvars == <<content, closed, put, waiting, want, out>>

QInit ==
  /\ content = <<>>
  /\ closed = FALSE
  /\ put = 0
  /\ waiting = {}
  /\ want = [r \in Readers |-> 0]
  /\ out = [r \in Readers |-> [data |-> <<>>, err |-> "nil"]]

Chunk(k) == [i \in 1 .. k |-> put + i]

QWrite(k) ==
  /\ put + k =< MaxBytes
  /\ content' = content \o Chunk(k)
  /\ put' = put + k
  /\ UNCHANGED <<closed, waiting, want, out>>

QEof ==
  /\ closed' = TRUE
  /\ UNCHANGED <<content, put, waiting, want, out>>

\* A Read of k bytes by r returns.
QReturn(r, k) ==
  LET n == IF k < Len(content) THEN k ELSE Len(content) IN
  /\ k = 0 \/ content # <<>> \/ closed
  /\ out' = [out EXCEPT ![r] =
               [data |-> SubSeq(content, 1, n),
                err |-> IF k > 0 /\ n = 0 THEN "EOF" ELSE "nil"]]
  /\ content' = SubSeq(content, n + 1, Len(content))
  /\ waiting' = waiting \ {r}
  /\ UNCHANGED <<closed, put>>

QRead(r, k) ==
  /\ r \notin waiting
  /\ want' = [want EXCEPT ![r] = k]
  /\ \/ QReturn(r, k)
     \/ /\ k > 0 /\ content = <<>> /\ ~closed
        /\ waiting' = waiting \cup {r}
        /\ UNCHANGED <<content, closed, put, out>>

\* A Read that waited returns.
QResume(r) ==
  /\ r \in waiting
  /\ QReturn(r, want[r])
  /\ UNCHANGED want

QNext ==
  \/ \E k \in 0 .. MaxChunk : QWrite(k)
  \/ QEof
  \/ \E r \in Readers : (\E k \in Sizes : QRead(r, k)) \/ QResume(r)

QSpec == QInit /\ [][QNext]_qvars

\* The promise to a reader: it does not wait for ever next to bytes it could
\* take, nor on a closed queue.
QFairSpec == QSpec /\ \A r \in Readers : WF_qvars(QResume(r))

===============================================================================
