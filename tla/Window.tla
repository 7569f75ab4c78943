-------------------------------- MODULE Window --------------------------------
(***************************************************************************)
(* The flow-control window of src/mux/util_window.go: a uint32 counter of  *)
(* bytes the peer is ready to take, guarded by one mutex and one condition *)
(* variable.  Goroutines that Write on a channel reserve bytes from it;    *)
(* the session's loop adds bytes to it and closes it.                      *)
(*                                                                         *)
(* One action is one critical section.  A goroutine that calls Wait leaves *)
(* its critical section asleep; a Broadcast makes every sleeper ready; a   *)
(* ready goroutine takes the mutex again in a step of its own and          *)
(* re-evaluates the condition of the for loop.                             *)
(***************************************************************************)
EXTENDS Naturals

CONSTANTS
  Writers,    \* goroutines that may call reserve at the same time
  Modulus,    \* 2^32 in the code: win is a uint32
  Amounts,    \* the uint32 arguments of add
  Requests,   \* the uint32 arguments of reserve
  MaxAdded    \* bound on the bytes ever added, so that runs are finite

ASSUME WindowAssumption ==
  /\ Modulus \in Nat \ {0}
  /\ Amounts \subseteq 0 .. Modulus - 1
  /\ Requests \subseteq 0 .. Modulus - 1
  /\ MaxAdded \in Nat

VARIABLES
  win,        \* window.win
  closed,     \* window.closed
  pc,         \* where each goroutine is in reserve
  req,        \* the argument of its reserve
  res,        \* what its last reserve returned: bytes and err
  added,      \* history: bytes accepted by add
  granted     \* history: bytes handed out by reserve

vars == <<win, closed, pc, req, res, added, granted>>

Init ==
  /\ win = 0
  /\ closed = FALSE
  /\ pc = [w \in Writers |-> "idle"]
  /\ req = [w \in Writers |-> 0]
  /\ res = [w \in Writers |-> [n |-> 0, err |-> "EOF"]]
  /\ added = 0
  /\ granted = 0

\* A mistake the properties must catch: Signal where the code broadcasts.
BroadcastAsSignal(p) ==
  IF \E w \in Writers : p[w] = "asleep"
  THEN [p EXCEPT ![CHOOSE w \in Writers : p[w] = "asleep"] = "ready"]
  ELSE p

\* Cond.Broadcast: every goroutine asleep in Wait will run again.
Broadcast(p) == [w \in Writers |-> IF p[w] = "asleep" THEN "ready" ELSE p[w]]

\* A mistake to catch: no test for a sum that wraps.
OverflowsIgnored(n) == FALSE

\* The uint32 sum add computes before it compares.
Sum32(a, b) == (a + b) % Modulus

\* The test of add: the sum wrapped around.
Overflows(n) == Sum32(win, n) < n

\* add: zero is a no-op, a sum that wraps is refused, anything else is added
\* and announced to every waiter.
Add(n) ==
  /\ n # 0
  /\ ~Overflows(n)
  /\ added + n =< MaxAdded
  /\ win' = Sum32(win, n)
  /\ added' = added + n
  /\ pc' = Broadcast(pc)
  /\ UNCHANGED <<closed, req, res, granted>>

\* close: the flag is set and every waiter is woken.
Close ==
  /\ closed' = TRUE
  /\ pc' = Broadcast(pc)
  /\ UNCHANGED <<win, req, res, added, granted>>

\* The end of reserve, from a state in which the for loop is left: at most the
\* request and at most the window is taken, and err is io.EOF if it is closed.
Grant(w, n, p) ==
  LET got == IF win < n THEN win ELSE n IN
  /\ win > 0 \/ closed
  /\ win' = win - got
  /\ granted' = granted + got
  /\ res' = [res EXCEPT ![w] = [n |-> got, err |-> IF closed THEN "EOF" ELSE "nil"]]
  /\ pc' = [p EXCEPT ![w] = "idle"]
  /\ UNCHANGED <<closed, added>>

\* The body of reserve's for loop: Wait.
Sleep(w, p) ==
  /\ win = 0 /\ ~closed
  /\ pc' = [p EXCEPT ![w] = "asleep"]
  /\ UNCHANGED <<win, closed, res, added, granted>>

\* reserve up to its first Wait, or to its return: it broadcasts on entry.
Reserve(w, n) ==
  /\ pc[w] = "idle"
  /\ req' = [req EXCEPT ![w] = n]
  /\ \/ Grant(w, n, Broadcast(pc))
     \/ Sleep(w, Broadcast(pc))

\* A woken goroutine takes the mutex again and evaluates the loop's condition.
Recheck(w) ==
  /\ pc[w] = "ready"
  /\ UNCHANGED req
  /\ \/ Grant(w, req[w], pc)
     \/ Sleep(w, pc)

Next ==
  \/ \E n \in Amounts : Add(n)
  \/ Close
  \/ \E w \in Writers : \/ \E n \in Requests : Reserve(w, n)
                        \/ Recheck(w)

\* A goroutine that was woken runs: Go's scheduler and sync.Mutex starve nobody.
Fairness == \A w \in Writers : WF_vars(Recheck(w))

Spec == Init /\ [][Next]_vars

FairSpec == Spec /\ Fairness

-------------------------------------------------------------------------------

\* win is a uint32, a goroutine is in one place of reserve at a time, and what
\* reserve returns is a uint32 and an error.
TypeOK ==
  /\ win \in 0 .. Modulus - 1
  /\ closed \in BOOLEAN
  /\ pc \in [Writers -> {"idle", "ready", "asleep"}]
  /\ req \in [Writers -> 0 .. Modulus - 1]
  /\ res \in [Writers -> [n : 0 .. Modulus - 1, err : {"nil", "EOF"}]]
  /\ added \in Nat
  /\ granted \in Nat

\* No lost wakeup: a goroutine is asleep in reserve only while there is nothing
\* to reserve and the window is open.  Every change that makes the loop's
\* condition false must therefore wake all the sleepers.
NoLostWakeup ==
  \A w \in Writers : pc[w] = "asleep" => win = 0 /\ ~closed

\* Bytes are neither made nor lost, whatever the interleaving of reservations
\* and however close win comes to 2^32: all that add accepted is either still
\* in the window or was handed out.
Conserved == win + granted = added

\* A reservation that succeeds hands out at least one byte unless none was asked
\* for, so the loop of channel.Write makes progress; a reservation never hands
\* out more than was asked.
GrantsProgress ==
  \A w \in Writers :
    /\ pc[w] = "idle" => res[w].n =< req[w]
    /\ pc[w] = "idle" /\ res[w].err = "nil" => (res[w].n = 0 <=> req[w] = 0)

\* Once the window is closed, every goroutine in reserve returns.
CloseReleases ==
  \A w \in Writers : closed /\ pc[w] # "idle" ~> pc[w] = "idle"

===============================================================================
