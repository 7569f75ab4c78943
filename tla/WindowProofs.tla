----------------------------- MODULE WindowProofs -----------------------------
(* Proofs about Window, for any number of goroutines and any integer width. *)
EXTENDS Window, TLAPS

\* Leaves that name no prover go to the SMT solver, and then to Zenon.
USE SMTT(30), Z3T(30), ZenonT(30)

\* The uint32 sum of add is the sum itself exactly when add's test accepts it.
LEMMA SumExact ==
  ASSUME NEW a \in 0 .. Modulus - 1, NEW b \in 0 .. Modulus - 1,
         ~(Sum32(a, b) < b)
  PROVE  Sum32(a, b) = a + b /\ a + b \in 0 .. Modulus - 1
<1>1. Modulus \in Nat \ {0}
  BY WindowAssumption
<1>2. CASE a + b < Modulus
  BY <1>1, <1>2 DEF Sum32
<1>3. CASE a + b >= Modulus
  <2>1. (a + b) % Modulus = a + b - Modulus
    BY <1>1, <1>3
  <2> QED BY <1>1, <2>1 DEF Sum32
<1> QED BY <1>1, <1>2, <1>3

\* What one Grant does to the counters and to the goroutine's result.
LEMMA GrantStep ==
  ASSUME TypeOK, Conserved, NEW w \in Writers, NEW n \in 0 .. Modulus - 1, NEW p,
         p \in [Writers -> {"idle", "ready", "asleep"}], Grant(w, n, p)
  PROVE  /\ win' \in 0 .. Modulus - 1
         /\ granted' \in Nat
         /\ res' \in [Writers -> [n : 0 .. Modulus - 1, err : {"nil", "EOF"}]]
         /\ pc' \in [Writers -> {"idle", "ready", "asleep"}]
         /\ win' + granted' = added'
         /\ res'[w].n =< n
         /\ res'[w].err = "nil" => (res'[w].n = 0 <=> n = 0)
         /\ \A v \in Writers \ {w} : res'[v] = res[v] /\ pc'[v] = p[v]
         /\ pc'[w] = "idle"
<1> DEFINE got == IF win < n THEN win ELSE n
<1>1. Modulus \in Nat \ {0}
  BY WindowAssumption
<1>2. /\ got \in 0 .. Modulus - 1
      /\ got =< win /\ got =< n
      /\ win > 0 => (got = 0 <=> n = 0)
  BY <1>1 DEF TypeOK
<1>3. /\ win > 0 \/ closed
      /\ win' = win - got
      /\ granted' = granted + got
      /\ res' = [res EXCEPT ![w] = [n |-> got, err |-> IF closed THEN "EOF" ELSE "nil"]]
      /\ pc' = [p EXCEPT ![w] = "idle"]
      /\ UNCHANGED <<closed, added>>
  BY DEF Grant
<1>4. win' \in 0 .. Modulus - 1 /\ granted' \in Nat /\ win' + granted' = added'
  BY <1>1, <1>2, <1>3 DEF TypeOK, Conserved
<1>5. res'[w] = [n |-> got, err |-> IF closed THEN "EOF" ELSE "nil"]
  BY <1>3 DEF TypeOK
<1> HIDE DEF got
<1>6. res' \in [Writers -> [n : 0 .. Modulus - 1, err : {"nil", "EOF"}]]
  BY <1>2, <1>3 DEF TypeOK
<1>7. /\ pc' \in [Writers -> {"idle", "ready", "asleep"}]
      /\ pc'[w] = "idle"
      /\ \A v \in Writers \ {w} : res'[v] = res[v] /\ pc'[v] = p[v]
  BY <1>3 DEF TypeOK
<1>8. res'[w].err = "nil" => win > 0
  BY <1>3, <1>5
<1>9. res'[w].n = got
  BY <1>5
<1> QED BY <1>2, <1>4, <1>6, <1>7, <1>8, <1>9

\* The inductive invariant is the conjunction of the invariants themselves.
IndInv == TypeOK /\ NoLostWakeup /\ Conserved /\ GrantsProgress

\* The invariant holds initially.
LEMMA InitInv == Init => IndInv
<1> SUFFICES ASSUME Init PROVE IndInv
  OBVIOUS
<1>1. Modulus \in Nat \ {0}
  BY WindowAssumption
<1>2. TypeOK
  <2>1. res \in [Writers -> [n : 0 .. Modulus - 1, err : {"nil", "EOF"}]]
    BY <1>1 DEF Init
  <2>2. pc \in [Writers -> {"idle", "ready", "asleep"}]
    BY DEF Init
  <2>3. req \in [Writers -> 0 .. Modulus - 1]
    BY <1>1 DEF Init
  <2>4. win \in 0 .. Modulus - 1 /\ added \in Nat /\ granted \in Nat
    BY <1>1 DEF Init
  <2>5. closed \in BOOLEAN
    BY Zenon DEF Init
  <2> QED BY <2>1, <2>2, <2>3, <2>4, <2>5 DEF TypeOK
<1>3. NoLostWakeup /\ Conserved
  BY DEF Init, NoLostWakeup, Conserved
<1>4. GrantsProgress
  <2> SUFFICES ASSUME NEW w \in Writers
               PROVE  res[w].n =< req[w] /\ res[w].err # "nil"
    BY Zenon DEF GrantsProgress
  <2>1. res[w] = [n |-> 0, err |-> "EOF"] /\ req[w] = 0
    BY DEF Init
  <2>2. res[w].n = 0
    BY <2>1
  <2> QED BY <2>1, <2>2
<1> QED BY <1>2, <1>3, <1>4 DEF IndInv

\* add wakes every sleeper, and its sum is exact because it was not refused.
LEMMA AddInv == ASSUME IndInv, NEW n \in Amounts, Add(n) PROVE IndInv'
<1>1. n \in 0 .. Modulus - 1 /\ Modulus \in Nat \ {0}
  BY WindowAssumption
<1>2. win' = win + n /\ win' \in 0 .. Modulus - 1
  BY <1>1, SumExact DEF IndInv, TypeOK, Add, Overflows
<1>3. added' = added + n /\ pc' = Broadcast(pc) /\ UNCHANGED <<closed, req, res, granted>>
  BY DEF Add
<1>4. TypeOK' /\ Conserved'
  BY <1>1, <1>2, <1>3 DEF IndInv, TypeOK, Conserved, Broadcast
<1>5. NoLostWakeup'
  BY <1>3 DEF IndInv, TypeOK, NoLostWakeup, Broadcast
<1>6. GrantsProgress'
  BY <1>3 DEF IndInv, TypeOK, GrantsProgress, Broadcast
<1> QED BY <1>4, <1>5, <1>6 DEF IndInv

\* close wakes every waiting reserve and keeps the invariant.
LEMMA CloseInv == ASSUME IndInv, Close PROVE IndInv'
<1>1. TypeOK' /\ Conserved' /\ NoLostWakeup'
  BY DEF IndInv, TypeOK, Conserved, NoLostWakeup, Close, Broadcast
<1>2. GrantsProgress'
  BY DEF IndInv, TypeOK, GrantsProgress, Close, Broadcast
<1> QED BY <1>1, <1>2 DEF IndInv

\* reserve broadcasts before it looks at the window, so whatever it then does
\* nobody but the caller can be asleep.
LEMMA ReserveInv ==
  ASSUME IndInv, NEW w \in Writers, NEW n \in Requests, Reserve(w, n)
  PROVE  IndInv'
<1>1. n \in 0 .. Modulus - 1
  BY WindowAssumption
<1>2. /\ Broadcast(pc) \in [Writers -> {"idle", "ready", "asleep"}]
      /\ \A v \in Writers : Broadcast(pc)[v] # "asleep"
      /\ \A v \in Writers : Broadcast(pc)[v] = "idle" <=> pc[v] = "idle"
  BY DEF IndInv, TypeOK, Broadcast
<1>3. /\ req' \in [Writers -> 0 .. Modulus - 1]
      /\ req'[w] = n
      /\ \A v \in Writers \ {w} : req'[v] = req[v]
  BY <1>1 DEF Reserve, IndInv, TypeOK
<1>4. CASE Grant(w, n, Broadcast(pc))
  <2>1. closed' = closed /\ added' = added
    BY <1>4 DEF Grant
  <2>2. /\ win' \in 0 .. Modulus - 1
        /\ granted' \in Nat
        /\ res' \in [Writers -> [n : 0 .. Modulus - 1, err : {"nil", "EOF"}]]
        /\ pc' \in [Writers -> {"idle", "ready", "asleep"}]
        /\ win' + granted' = added'
        /\ res'[w].n =< n
        /\ res'[w].err = "nil" => (res'[w].n = 0 <=> n = 0)
        /\ \A v \in Writers \ {w} : res'[v] = res[v] /\ pc'[v] = Broadcast(pc)[v]
        /\ pc'[w] = "idle"
    BY <1>1, <1>2, <1>4, GrantStep DEF IndInv
  <2>3. TypeOK' /\ Conserved'
    BY <1>3, <2>1, <2>2, Zenon DEF IndInv, TypeOK, Conserved
  <2>4. NoLostWakeup'
    BY <1>2, <2>2 DEF NoLostWakeup
  <2>5. GrantsProgress'
    BY <1>2, <1>3, <2>2 DEF IndInv, GrantsProgress
  <2> QED BY <2>3, <2>4, <2>5 DEF IndInv
<1>5. CASE Sleep(w, Broadcast(pc))
  <2> HIDE DEF Broadcast
  <2> QED
    BY <1>2, <1>3, <1>5
    DEF Sleep, IndInv, TypeOK, Conserved, NoLostWakeup, GrantsProgress
<1> QED BY <1>4, <1>5 DEF Reserve

\* A woken goroutine that finds the window empty goes back to sleep; one that
\* finds bytes was not alone in being woken, so nobody is asleep.
LEMMA RecheckInv == ASSUME IndInv, NEW w \in Writers, Recheck(w) PROVE IndInv'
<1>1. pc[w] = "ready" /\ req' = req
  BY DEF Recheck
<1>2. CASE Grant(w, req[w], pc)
  <2>1. closed' = closed /\ added' = added /\ (win > 0 \/ closed)
    BY <1>2 DEF Grant
  <2>2. \A v \in Writers : pc[v] # "asleep"
    BY <2>1 DEF IndInv, NoLostWakeup, TypeOK
  <2>3. /\ win' \in 0 .. Modulus - 1
        /\ granted' \in Nat
        /\ res' \in [Writers -> [n : 0 .. Modulus - 1, err : {"nil", "EOF"}]]
        /\ pc' \in [Writers -> {"idle", "ready", "asleep"}]
        /\ win' + granted' = added'
        /\ res'[w].n =< req[w]
        /\ res'[w].err = "nil" => (res'[w].n = 0 <=> req[w] = 0)
        /\ \A v \in Writers \ {w} : res'[v] = res[v] /\ pc'[v] = pc[v]
        /\ pc'[w] = "idle"
    BY <1>2, GrantStep DEF IndInv, TypeOK
  <2>4. TypeOK' /\ Conserved'
    BY <1>1, <2>1, <2>3, Zenon DEF IndInv, TypeOK, Conserved
  <2>5. NoLostWakeup'
    BY <2>2, <2>3 DEF NoLostWakeup
  <2>6. GrantsProgress'
    BY <1>1, <2>3 DEF IndInv, GrantsProgress
  <2> QED BY <2>4, <2>5, <2>6 DEF IndInv
<1>3. CASE Sleep(w, pc)
  BY <1>1, <1>3 DEF Sleep, IndInv, TypeOK, Conserved, NoLostWakeup, GrantsProgress
<1> QED BY <1>2, <1>3 DEF Recheck

\* The inductive invariant holds in every behaviour.
LEMMA Inductive == Spec => []IndInv
<1>1. IndInv /\ [Next]_vars => IndInv'
  <2> SUFFICES ASSUME IndInv, [Next]_vars PROVE IndInv'
    OBVIOUS
  <2>1. CASE UNCHANGED vars
    BY <2>1 DEF vars, IndInv, TypeOK, NoLostWakeup, Conserved, GrantsProgress
  <2> QED BY <2>1, AddInv, CloseInv, ReserveInv, RecheckInv DEF Next
<1> QED BY <1>1, InitInv, PTL DEF Spec

\* The window's state always has its type; in particular win is a uint32.
THEOREM TypeCorrect == Spec => []TypeOK
BY Inductive, PTL DEF IndInv

\* util_window.go never leaves a goroutine asleep in reserve when there are
\* bytes to reserve or the window was closed, for any number of goroutines.
THEOREM WakeupSafe == Spec => []NoLostWakeup
BY Inductive, PTL DEF IndInv

\* The test in add makes the window exact for every integer width: what was
\* added is what is left plus what was handed out.
THEOREM WindowConserved == Spec => []Conserved
BY Inductive, PTL DEF IndInv

\* A successful reservation of a positive amount is never empty.
THEOREM ReserveProgress == Spec => []GrantsProgress
BY Inductive, PTL DEF IndInv

===============================================================================
