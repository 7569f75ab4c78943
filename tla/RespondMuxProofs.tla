--------------------------- MODULE RespondMuxProofs ---------------------------
(***************************************************************************)
(* Proofs about RespondMux: for any patterns, registered and removed in    *)
(* any order, the entries stay sorted and agree with the map, and every    *)
(* call reaches the handler the documentation names.                       *)
(***************************************************************************)
EXTENDS RespondMux, SequenceTheorems, WellFoundedInduction, TLAPS

\* Leaves that name no prover go to the SMT solver, and then to Zenon.
USE SMTT(30), Z3T(30), ZenonT(30)

Chars == STRING \cup {"/"}
Paths1 == Seq(Chars) \ {<<>>}
Registered(x) == IF x = "root" THEN Handlers \union {"sub"} ELSE Handlers
Entries == [pattern : Paths1, h : Handlers \union {"sub"}]

Members(ex) == {ex[i] : i \in 1 .. Len(ex)}

Sorted(ex) ==
  \A i, j \in 1 .. Len(ex) :
    i < j => Len(ex[i].pattern) >= Len(ex[j].pattern) /\ ex[i] # ex[j]

\* The map mx and the entries ex of one mux agree, as EntriesAgree has it.
Agree(mx, ex) ==
  /\ Members(ex) = {Entry(p, mx[p]) : p \in {q \in DOMAIN mx : EndsInSlash(q)}}
  /\ Sorted(ex)

\* What the map and the entries of mux x may hold.
Typed(x, mx, ex) ==
  /\ DOMAIN mx \subseteq Paths1 /\ ex \in Seq(Entries)
  /\ \A p \in DOMAIN mx : mx[p] \in Registered(x)

Inv ==
  /\ DOMAIN m = Muxes /\ DOMAIN es = Muxes
  /\ \A x \in Muxes : Typed(x, m[x], es[x]) /\ Agree(m[x], es[x])

-------------------------------------------------------------------------------
(* Sequences and selectors *)

\* A set of numbers has a smallest one: sort.Search, and the loop of Match, find
\* the first entry.
LEMMA Smallest ==
  ASSUME NEW S \in SUBSET Nat, S # {}
  PROVE  \E i \in S : \A j \in S : i =< j
<1>1. PICK i \in S : \A j \in S : ~(<<j, i>> \in OpToRel(<, Nat))
  BY NatLessThanWellFounded, WFMin, Zenon
<1>2. \A j \in S : ~(j < i)
  <2> SUFFICES ASSUME NEW j \in S, j < i
               PROVE  <<j, i>> \in OpToRel(<, Nat)
    BY <1>1, Zenon
  <2> QED
    BY Zenon DEF OpToRel
<1> QED
  BY <1>2

LEMMA Slash == "/" \in Chars
  BY DEF Chars

LEMMA Singleton ==
  ASSUME NEW S, NEW a \in S
  PROVE  <<a>> \in Seq(S) /\ Len(<<a>>) = 1 /\ <<a>>[1] = a
  OBVIOUS

\* cleanSelector returns a path, and leaves a path it returned alone.
LEMMA Clean ==
  ASSUME NEW s \in Seq(Chars)
  PROVE  /\ CleanSelector(s) \in Paths1
         /\ CleanSelector(CleanSelector(s)) = CleanSelector(s)
<1> DEFINE rooted == IF s # <<>> /\ s[1] = "/" THEN s ELSE <<"/">> \o s
           c == [i \in 1 .. Len(rooted) |-> IF rooted[i] = "." THEN "/" ELSE rooted[i]]
<1>1. rooted \in Seq(Chars) /\ Len(rooted) >= 1 /\ rooted[1] = "/"
  <2>1. CASE s # <<>> /\ s[1] = "/"
    BY <2>1
  <2>2. CASE ~(s # <<>> /\ s[1] = "/")
    <3>1. rooted = <<"/">> \o s
      BY <2>2, Zenon
    <3> HIDE DEF rooted
    <3>2. /\ rooted \in Seq(Chars) /\ Len(rooted) = Len(<<"/">>) + Len(s)
          /\ \A i \in 1 .. Len(<<"/">>) + Len(s) :
               rooted[i] = IF i =< Len(<<"/">>) THEN <<"/">>[i] ELSE s[i - Len(<<"/">>)]
      <4>1. <<"/">> \in Seq(Chars)
        BY Slash, Singleton
      <4> QED
        BY <3>1, <4>1, ConcatProperties
    <3> QED
      BY <3>2
  <2> QED
    BY <2>1, <2>2
<1>2. CleanSelector(s) = c
  BY DEF CleanSelector
<1> HIDE DEF rooted
<1>3. /\ c \in Seq(Chars) /\ Len(c) = Len(rooted) /\ c # <<>> /\ c[1] = "/"
      /\ \A i \in 1 .. Len(c) : c[i] # "."
  BY <1>1
<1> HIDE DEF c
<1>4. CleanSelector(c) = c
  BY <1>1, <1>3 DEF CleanSelector
<1> QED
  BY <1>2, <1>3, <1>4 DEF Paths1

\* So does Handle with what it registers.
LEMMA PatternIsPath ==
  ASSUME NEW s \in Seq(Chars), NEW h
  PROVE  HandlePattern(s, h) \in Paths1
<1>1. CleanSelector(s) \in Paths1
  BY Clean
<1>2. Append(CleanSelector(s), "/") \in Paths1
  <2>1. ASSUME NEW p \in Seq(Chars)
        PROVE  Append(p, "/") \in Seq(Chars) /\ Append(p, "/") # <<>>
    <3>1. Append(p, "/") \in Seq(Chars) /\ Len(Append(p, "/")) = Len(p) + 1
      BY Slash
    <3> QED
      BY <3>1, EmptySeq
  <2> QED
    BY <1>1, <2>1 DEF Paths1
<1> QED
  BY <1>1, <1>2 DEF HandlePattern

LEMMA EntryLength ==
  ASSUME NEW list \in Seq(Entries)
  PROVE  /\ \A e \in Entries : Len(e.pattern) \in Nat
         /\ \A i \in 1 .. Len(list) : list[i] \in Entries /\ Len(list[i].pattern) \in Nat
<1>1. ASSUME NEW e \in Entries
      PROVE  Len(e.pattern) \in Nat
  BY DEF Entries, Paths1
<1>2. \A i \in 1 .. Len(list) : list[i] \in Entries
  OBVIOUS
<1> QED
  BY <1>1, <1>2

\* r is list with e in it at k, behind the patterns that are as long as its own.
InsertedAt(r, list, e, k) ==
  /\ r \in Seq(Entries) /\ Len(r) = Len(list) + 1 /\ r[k] = e
  /\ \A i \in 1 .. k - 1 : r[i] = list[i] /\ Len(list[i].pattern) >= Len(e.pattern)
  /\ \A i \in k .. Len(list) : r[i + 1] = list[i]
  /\ k =< Len(list) => Len(list[k].pattern) < Len(e.pattern)

\* appendSorted inserts the entry where it belongs, and moves those behind it.
LEMMA Inserted ==
  ASSUME NEW list \in Seq(Entries), NEW e \in Entries
  PROVE  \E k \in 1 .. Len(list) + 1 : InsertedAt(AppendSorted(list, e), list, e, k)
<1> DEFINE shorter == {i \in 1 .. Len(list) : Len(list[i].pattern) < Len(e.pattern)}
           first == CHOOSE i \in shorter : \A j \in shorter : i =< j
<1>0. Len(e.pattern) \in Nat /\ \A i \in 1 .. Len(list) : Len(list[i].pattern) \in Nat
  BY EntryLength
<1>1. CASE shorter = {}
  <2>1. AppendSorted(list, e) = Append(list, e)
    BY <1>1 DEF AppendSorted
  <2>2. \A i \in 1 .. Len(list) : Len(list[i].pattern) >= Len(e.pattern)
    BY <1>0, <1>1
  <2> HIDE DEF shorter
  <2>3. InsertedAt(Append(list, e), list, e, Len(list) + 1)
    BY <2>2 DEF InsertedAt
  <2> QED
    BY <2>1, <2>3
<1>2. CASE shorter # {}
  <2>1. first \in shorter /\ \A j \in shorter : first =< j
    <3>0. shorter \in SUBSET Nat
      OBVIOUS
    <3> HIDE DEF shorter
    <3>1. \E i \in shorter : \A j \in shorter : i =< j
      BY <3>0, <1>2, Smallest, Zenon
    <3> QED
      BY <3>1, Zenon
  <2> DEFINE grown == SubSeq(list, 1, first - 1) \o <<e>> \o SubSeq(list, first, Len(list))
  <2>2. AppendSorted(list, e) = grown
    BY <1>2, Zenon DEF AppendSorted
  <2> HIDE DEF first, grown
  <2>3. \A i \in 1 .. first - 1 : Len(list[i].pattern) >= Len(e.pattern)
    BY <1>0, <2>1
  <2>4. first \in 1 .. Len(list) /\ Len(list[first].pattern) < Len(e.pattern)
    BY <2>1
  <2> HIDE DEF shorter
  <2>5. /\ grown \in Seq(Entries) /\ Len(grown) = Len(list) + 1 /\ grown[first] = e
        /\ \A i \in 1 .. first - 1 : grown[i] = list[i]
        /\ \A i \in first .. Len(list) : grown[i + 1] = list[i]
    <3> DEFINE before == SubSeq(list, 1, first - 1)
               after == SubSeq(list, first, Len(list))
    <3>1. /\ before \in Seq(Entries) /\ Len(before) = first - 1
          /\ \A i \in 1 .. first - 1 : before[i] = list[i]
      BY <2>4
    <3>2. /\ after \in Seq(Entries) /\ Len(after) = Len(list) - first + 1
          /\ \A i \in 1 .. Len(list) - first + 1 : after[i] = list[first + i - 1]
      BY <2>4
    <3>3. grown = before \o <<e>> \o after
      BY DEF grown
    <3> HIDE DEF before, after
    <3>4. /\ before \o <<e>> \in Seq(Entries) /\ Len(before \o <<e>>) = first
          /\ (before \o <<e>>)[first] = e
          /\ \A i \in 1 .. first - 1 : (before \o <<e>>)[i] = list[i]
      BY <2>4, <3>1
    <3> DEFINE upto == before \o <<e>>
    <3> HIDE DEF upto
    <3>5. /\ upto \o after \in Seq(Entries) /\ Len(upto \o after) = Len(list) + 1
          /\ \A i \in 1 .. Len(list) + 1 :
               (upto \o after)[i] = IF i =< first THEN upto[i] ELSE after[i - first]
      <4>1. upto \in Seq(Entries) /\ Len(upto) = first
        BY <3>4 DEF upto
      <4>2. /\ upto \o after \in Seq(Entries) /\ Len(upto \o after) = Len(upto) + Len(after)
            /\ \A i \in 1 .. Len(upto) + Len(after) :
                 (upto \o after)[i] = IF i =< Len(upto) THEN upto[i] ELSE after[i - Len(upto)]
        BY <3>2, <4>1, ConcatProperties, Zenon
      <4>3. Len(upto) = first /\ Len(upto) + Len(after) = Len(list) + 1
        BY <2>4, <3>2, <4>1
      <4> QED
        BY <4>2, <4>3, Zenon
    <3>6. upto[first] = e /\ \A i \in 1 .. first - 1 : upto[i] = list[i]
      BY <3>4 DEF upto
    <3>7. grown = upto \o after
      BY <3>3 DEF upto
    <3> QED
      BY <2>4, <3>2, <3>5, <3>6, <3>7
  <2>6. InsertedAt(grown, list, e, first)
    BY <2>3, <2>4, <2>5 DEF InsertedAt
  <2> QED
    BY <2>2, <2>4, <2>6
<1> QED
  BY <1>1, <1>2

LEMMA Wider ==
  ASSUME NEW S, NEW T, S \subseteq T, NEW s \in Seq(S)
  PROVE  s \in Seq(T)
  OBVIOUS

\* What is registered and called are sequences of characters.
LEMMA Inputs == Patterns \subseteq Seq(Chars) /\ Selectors \subseteq Seq(Chars)
<1>1. ASSUME NEW s \in Seq(STRING)
      PROVE  s \in Seq(Chars)
  <2>1. STRING \subseteq Chars
    BY Zenon DEF Chars
  <2> QED
    BY <2>1, Wider, Zenon
<1> QED
  BY <1>1, RespondMuxAssumption

\* An entry that is new leaves the entries sorted and without duplicates.
LEMMA Added ==
  ASSUME NEW list \in Seq(Entries), NEW e \in Entries, Sorted(list),
         e \notin Members(list), NEW r, NEW k \in 1 .. Len(list) + 1, InsertedAt(r, list, e, k)
  PROVE  /\ r \in Seq(Entries) /\ Sorted(r)
         /\ Members(r) = Members(list) \cup {e}
<1>0. \A i \in 1 .. Len(list) : list[i] # e
  BY Zenon DEF Members
<1>1. Len(e.pattern) \in Nat /\ \A i \in 1 .. Len(list) : Len(list[i].pattern) \in Nat
  BY EntryLength
<1>2. ASSUME NEW i \in k .. Len(list)
      PROVE  Len(list[i].pattern) < Len(e.pattern)
  <2>1. k \in 1 .. Len(list) /\ Len(list[k].pattern) < Len(e.pattern)
    BY DEF InsertedAt
  <2>2. i \in 1 .. Len(list) /\ (i = k \/ k < i)
    OBVIOUS
  <2>3. k < i => Len(list[k].pattern) >= Len(list[i].pattern)
    BY <2>1, <2>2 DEF Sorted
  <2> QED
    BY <1>1, <2>1, <2>2, <2>3
<1>3. \A i \in 1 .. Len(r) : \/ i < k /\ r[i] = list[i] /\ i \in 1 .. Len(list)
                             \/ i = k /\ r[i] = e
                             \/ k < i /\ r[i] = list[i - 1] /\ i - 1 \in k .. Len(list)
  <2> SUFFICES ASSUME NEW i \in 1 .. Len(r), k < i
               PROVE  r[i] = list[i - 1] /\ i - 1 \in k .. Len(list)
    BY DEF InsertedAt
  <2>1. i - 1 \in k .. Len(list) /\ (i - 1) + 1 = i
    BY DEF InsertedAt
  <2>2. r[(i - 1) + 1] = list[i - 1]
    BY <2>1 DEF InsertedAt
  <2> QED
    BY <2>1, <2>2
<1>4. Sorted(r)
  <2> SUFFICES ASSUME NEW i \in 1 .. Len(r), NEW j \in 1 .. Len(r), i < j
               PROVE  Len(r[i].pattern) >= Len(r[j].pattern) /\ r[i] # r[j]
    BY DEF Sorted
  <2>1. CASE j < k
    <3>1. r[i] = list[i] /\ i \in 1 .. Len(list) /\ r[j] = list[j] /\ j \in 1 .. Len(list)
      BY <1>3, <2>1
    <3> QED
      BY <3>1 DEF Sorted
  <2>2. CASE j = k
    <3>1. r[i] = list[i] /\ i \in 1 .. k - 1 /\ i \in 1 .. Len(list) /\ r[j] = e
      BY <1>3, <2>2
    <3> QED
      BY <1>0, <3>1 DEF InsertedAt
  <2>3. CASE k < j
    <3>1. r[j] = list[j - 1] /\ j - 1 \in k .. Len(list) /\ j - 1 \in 1 .. Len(list)
      BY <1>3, <2>3
    <3>2. CASE i < k
      BY <1>3, <3>1, <3>2 DEF Sorted
    <3>3. CASE i = k
      BY <1>0, <1>1, <1>2, <1>3, <3>1, <3>3
    <3>4. CASE k < i
      <4>1. r[i] = list[i - 1] /\ i - 1 \in 1 .. Len(list) /\ i - 1 < j - 1
        BY <1>3, <3>4
      <4> QED
        BY <3>1, <4>1 DEF Sorted
    <3> QED
      BY <3>2, <3>3, <3>4
  <2> QED
    BY <2>1, <2>2, <2>3
<1>5. Members(r) = Members(list) \cup {e}
  <2>1. \A i \in 1 .. Len(r) : r[i] = e \/ \E n \in 1 .. Len(list) : r[i] = list[n]
    BY <1>3
  <2>2. ASSUME NEW n \in 1 .. Len(list)
        PROVE  \E i \in 1 .. Len(r) : r[i] = list[n]
    <3>1. CASE n < k
      BY <3>1 DEF InsertedAt
    <3>2. CASE k =< n
      <4>1. n + 1 \in 1 .. Len(r) /\ r[n + 1] = list[n]
        BY <3>2 DEF InsertedAt
      <4> QED
        BY <4>1
    <3> QED
      BY <3>1, <3>2
  <2>3. \E i \in 1 .. Len(r) : r[i] = e
    BY DEF InsertedAt
  <2>4. {r[i] : i \in 1 .. Len(r)} \subseteq {list[i] : i \in 1 .. Len(list)} \cup {e}
    BY <2>1, Zenon
  <2>5. {list[i] : i \in 1 .. Len(list)} \cup {e} \subseteq {r[i] : i \in 1 .. Len(r)}
    BY <2>2, <2>3, Zenon
  <2> QED
    BY <2>4, <2>5, Zenon DEF Members
<1>6. r \in Seq(Entries)
  BY DEF InsertedAt
<1> QED
  BY <1>4, <1>5, <1>6

-------------------------------------------------------------------------------
(* The invariant *)

LEMMA InitInv == Init => Inv
<1> SUFFICES ASSUME Init, NEW x \in Muxes
             PROVE  Typed(x, m[x], es[x]) /\ Agree(m[x], es[x])
  BY DEF Init, Inv
<1>1. m[x] = <<>> /\ es[x] = <<>>
  BY DEF Init
<1> QED
  BY <1>1 DEF Typed, Agree, Members, Sorted

LEMMA RegisteredIsHandler == \A x \in Muxes : Registered(x) \subseteq Handlers \cup {"sub"}
  BY DEF Registered

\* What Handle and Remove make of the map and the entries of a mux.
Mapped(mx, p, h) == [q \in DOMAIN mx \cup {p} |-> IF q = p THEN h ELSE mx[q]]
Listed(ex, p, h) == IF EndsInSlash(p) THEN AppendSorted(ex, Entry(p, h)) ELSE ex
Unmapped(mx, p) == [q \in DOMAIN mx \ {p} |-> mx[q]]

\* Handle keeps the map and the entries of one mux together.
LEMMA HandleOne ==
  ASSUME NEW x \in Muxes, NEW mx, NEW ex, NEW p \in Paths1, NEW h \in Registered(x),
         Typed(x, mx, ex), Agree(mx, ex), p \notin DOMAIN mx
  PROVE  /\ Typed(x, Mapped(mx, p, h), Listed(ex, p, h))
         /\ Agree(Mapped(mx, p, h), Listed(ex, p, h))
<1> DEFINE mp == Mapped(mx, p, h)
           ep == Listed(ex, p, h)
           Slashed(f) == {Entry(q, f[q]) : q \in {r \in DOMAIN f : EndsInSlash(r)}}
<1>1. Entry(p, h) \in Entries /\ ex \in Seq(Entries) /\ Sorted(ex)
  BY RegisteredIsHandler DEF Entries, Entry, Typed, Agree
<1>2. Members(ex) = Slashed(mx)
  BY Zenon DEF Agree
<1>3. DOMAIN mp = DOMAIN mx \cup {p} /\ mp[p] = h /\ \A q \in DOMAIN mx : mp[q] = mx[q]
  BY DEF Mapped
<1>7. ep = IF EndsInSlash(p) THEN AppendSorted(ex, Entry(p, h)) ELSE ex
  BY DEF Listed
<1> SUFFICES Typed(x, mp, ep) /\ Agree(mp, ep)
  OBVIOUS
<1> HIDE DEF mp, ep
<1>4. Slashed(mp) = IF EndsInSlash(p) THEN Slashed(mx) \cup {Entry(p, h)} ELSE Slashed(mx)
  BY <1>3, Zenon
<1>5. CASE EndsInSlash(p)
  <2>1. Entry(p, h) \notin Members(ex)
    <3> SUFFICES ASSUME Entry(p, h) \in Slashed(mx)
                 PROVE  FALSE
      BY <1>2
    <3>1. PICK q \in DOMAIN mx : Entry(p, h) = Entry(q, mx[q])
      BY Zenon
    <3> QED
      BY <3>1 DEF Entry
  <2>2. ep \in Seq(Entries) /\ Sorted(ep) /\ Members(ep) = Members(ex) \cup {Entry(p, h)}
    <3>1. ep = AppendSorted(ex, Entry(p, h))
      BY <1>5, <1>7
    <3>2. PICK k \in 1 .. Len(ex) + 1 : InsertedAt(ep, ex, Entry(p, h), k)
      BY <1>1, <3>1, Inserted, Zenon
    <3> QED
      BY <1>1, <2>1, <3>2, Added
  <2> QED
    BY <1>2, <1>3, <1>4, <1>5, <2>2, Zenon DEF Typed, Agree
<1>6. CASE ~EndsInSlash(p)
  <2>1. ep = ex
    BY <1>6, <1>7
  <2> QED
    BY <1>1, <1>2, <1>3, <1>4, <1>6, <2>1, Zenon DEF Typed, Agree
<1> QED
  BY <1>5, <1>6

\* So does Remove, when the pattern is not a prefix.
LEMMA RemoveOne ==
  ASSUME NEW x, NEW mx, NEW ex, NEW p, Typed(x, mx, ex), Agree(mx, ex), ~EndsInSlash(p)
  PROVE  Typed(x, Unmapped(mx, p), ex) /\ Agree(Unmapped(mx, p), ex)
<1> DEFINE mp == Unmapped(mx, p)
           Slashed(f) == {Entry(q, f[q]) : q \in {r \in DOMAIN f : EndsInSlash(r)}}
<1>1. DOMAIN mp = DOMAIN mx \ {p} /\ \A q \in DOMAIN mx \ {p} : mp[q] = mx[q]
  BY DEF Unmapped
<1> SUFFICES Typed(x, mp, ex) /\ Agree(mp, ex)
  OBVIOUS
<1> HIDE DEF mp
<1>2. Slashed(mp) = Slashed(mx)
  <2>1. {q \in DOMAIN mp : EndsInSlash(q)} = {q \in DOMAIN mx : EndsInSlash(q)}
    BY <1>1, Zenon
  <2>2. \A q \in {r \in DOMAIN mx : EndsInSlash(r)} : mp[q] = mx[q]
    BY <1>1, Zenon
  <2> QED
    BY <2>1, <2>2
<1>3. Agree(mp, ex)
  BY <1>2, Zenon DEF Agree
<1> QED
  BY <1>1, <1>3, Zenon DEF Typed

LEMMA Primed ==
  ASSUME DOMAIN m' = Muxes, DOMAIN es' = Muxes,
         \A y \in Muxes : Typed(y, m'[y], es'[y]) /\ Agree(m'[y], es'[y])
  PROVE  Inv'
  BY Zenon DEF Inv, Muxes, Typed, Agree, Members, Sorted, Registered, Entries, Paths1, Chars

LEMMA HandleInv ==
  ASSUME Inv, NEW x \in Muxes, NEW p \in Patterns, NEW h \in Registered(x), Handle(x, p, h)
  PROVE  Inv'
<1> DEFINE path == HandlePattern(p, h)
<1>1. path \in Paths1
  BY Inputs, PatternIsPath
<1>2. /\ path \notin DOMAIN m[x] /\ m' = [m EXCEPT ![x] = Mapped(m[x], path, h)]
      /\ es' = IF EndsInSlash(path) THEN [es EXCEPT ![x] = Listed(es[x], path, h)] ELSE es
  BY DEF Handle, Mapped, Listed
<1> HIDE DEF path
<1>3. /\ m'[x] = Mapped(m[x], path, h) /\ es'[x] = Listed(es[x], path, h)
      /\ DOMAIN m' = Muxes /\ DOMAIN es' = Muxes
      /\ \A y \in Muxes \ {x} : m'[y] = m[y] /\ es'[y] = es[y]
  BY <1>2 DEF Inv, Listed
<1>4. Typed(x, m[x], es[x]) /\ Agree(m[x], es[x])
  BY DEF Inv
<1>5. Typed(x, m'[x], es'[x]) /\ Agree(m'[x], es'[x])
  BY <1>1, <1>2, <1>3, <1>4, HandleOne
<1>6. \A y \in Muxes : Typed(y, m'[y], es'[y]) /\ Agree(m'[y], es'[y])
  BY <1>3, <1>5, Zenon DEF Inv
<1> QED
  BY <1>3, <1>6, Primed, Zenon

LEMMA RemoveInv ==
  ASSUME Inv, NEW x \in Muxes, NEW s, ~EndsInSlash(CleanSelector(s)), Remove(x, s)
  PROVE  Inv'
<1> DEFINE path == CleanSelector(s)
<1>1. m' = [m EXCEPT ![x] = Unmapped(m[x], path)] /\ es' = es
  BY DEF Remove, Unmapped
<1> HIDE DEF path
<1>2. /\ m'[x] = Unmapped(m[x], path) /\ DOMAIN m' = Muxes /\ DOMAIN es' = Muxes
      /\ \A y \in Muxes \ {x} : m'[y] = m[y] /\ es'[y] = es[y]
      /\ es'[x] = es[x]
  BY <1>1 DEF Inv
<1>3. Typed(x, m[x], es[x]) /\ Agree(m[x], es[x]) /\ ~EndsInSlash(path)
  BY DEF Inv, path
<1>4. Typed(x, m'[x], es'[x]) /\ Agree(m'[x], es'[x])
  BY <1>2, <1>3, RemoveOne, Zenon
<1>5. \A y \in Muxes : Typed(y, m'[y], es'[y]) /\ Agree(m'[y], es'[y])
  BY <1>2, <1>4, Zenon DEF Inv
<1> QED
  BY <1>2, <1>5, Primed, Zenon

LEMMA NextInv == Inv /\ [Next]_vars => Inv'
<1> SUFFICES ASSUME Inv, [Next]_vars
             PROVE  Inv'
  OBVIOUS
<1>1. ASSUME NEW x \in Muxes, NEW p \in Patterns, NEW h \in Handlers, Handle(x, p, h)
      PROVE  Inv'
  BY <1>1, HandleInv DEF Registered
<1>2. ASSUME NEW p \in Patterns, Handle("root", p, "sub")
      PROVE  Inv'
  BY <1>2, HandleInv DEF Registered, Muxes
<1>3. ASSUME NEW x \in Muxes, NEW s \in Patterns, ~EndsInSlash(CleanSelector(s)), Remove(x, s)
      PROVE  Inv'
  BY <1>3, RemoveInv
<1>4. CASE UNCHANGED vars
  <2>1. m' = m /\ es' = es
    BY <1>4 DEF vars
  <2> QED
    BY <2>1, Primed, Zenon DEF Inv
<1> QED
  BY <1>1, <1>2, <1>3, <1>4, Zenon DEF Next, Registers

LEMMA Invariance == Spec => []Inv
  BY InitInv, NextInv, PTL DEF Spec

\* In whatever order the patterns are registered, and the plain ones removed, the
\* entries hold exactly the patterns that end in a slash, longest first.
THEOREM EntriesStay == Spec => []EntriesAgree
<1>1. Inv => EntriesAgree
  BY Zenon DEF Inv, Agree, Members, Sorted, EntriesAgree
<1> QED
  BY <1>1, Invariance, PTL

-------------------------------------------------------------------------------
(* Dispatch *)

\* Two prefixes of a selector that are as long as each other are the same.
LEMMA SamePrefix ==
  ASSUME NEW s \in Seq(Chars), NEW p \in Seq(Chars), NEW q \in Seq(Chars),
         HasPrefix(s, p), HasPrefix(s, q), Len(p) = Len(q)
  PROVE  p = q
  BY Zenon DEF HasPrefix

\* The patterns of x that could serve a selector, and the entries that hold them.
Prefixes(x, s) == {p \in DOMAIN m[x] : EndsInSlash(p) /\ HasPrefix(s, p)}
Fits(x, s) == {i \in 1 .. Len(es[x]) : HasPrefix(s, es[x][i].pattern)}

\* The entry the loop of Match stops at holds the longest pattern that fits.
LEMMA FirstIsLongest ==
  ASSUME Inv, NEW x \in Muxes, NEW s \in Paths1, Prefixes(x, s) # {}
  PROVE  LET i == CHOOSE k \in Fits(x, s) : \A j \in Fits(x, s) : k =< j
             c == CHOOSE p \in Prefixes(x, s) : \A q \in Prefixes(x, s) : Len(q) =< Len(p) IN
         Fits(x, s) # {} /\ c \in Prefixes(x, s) /\ es[x][i] = Entry(c, m[x][c])
<1> DEFINE i == CHOOSE k \in Fits(x, s) : \A j \in Fits(x, s) : k =< j
           c == CHOOSE p \in Prefixes(x, s) : \A q \in Prefixes(x, s) : Len(q) =< Len(p)
<1>1. /\ Members(es[x]) = {Entry(p, m[x][p]) : p \in {q \in DOMAIN m[x] : EndsInSlash(q)}}
      /\ Sorted(es[x]) /\ DOMAIN m[x] \subseteq Paths1
  BY Zenon DEF Inv, Agree, Typed
<1>2. \A p \in Prefixes(x, s) : \E k \in Fits(x, s) : es[x][k] = Entry(p, m[x][p])
  <2> SUFFICES ASSUME NEW p \in Prefixes(x, s)
               PROVE  \E k \in Fits(x, s) : es[x][k] = Entry(p, m[x][p])
    OBVIOUS
  <2>1. Entry(p, m[x][p]) \in Members(es[x])
    BY <1>1, Zenon DEF Prefixes
  <2>2. PICK k \in 1 .. Len(es[x]) : es[x][k] = Entry(p, m[x][p])
    BY <2>1, Zenon DEF Members
  <2>3. es[x][k].pattern = p
    BY <2>2 DEF Entry
  <2> QED
    BY <2>2, <2>3, Zenon DEF Fits, Prefixes
<1>3. \A k \in Fits(x, s) : \E p \in Prefixes(x, s) : es[x][k] = Entry(p, m[x][p])
  <2> SUFFICES ASSUME NEW k \in Fits(x, s)
               PROVE  \E p \in Prefixes(x, s) : es[x][k] = Entry(p, m[x][p])
    OBVIOUS
  <2>1. es[x][k] \in Members(es[x])
    BY Zenon DEF Members, Fits
  <2>2. PICK p \in DOMAIN m[x] : EndsInSlash(p) /\ es[x][k] = Entry(p, m[x][p])
    BY <1>1, <2>1, Zenon
  <2>3. es[x][k].pattern = p
    BY <2>2 DEF Entry
  <2> QED
    BY <2>2, <2>3, Zenon DEF Fits, Prefixes
<1>4. i \in Fits(x, s) /\ \A j \in Fits(x, s) : i =< j
  <2>1. Fits(x, s) # {}
    BY <1>2, Zenon
  <2>2. Fits(x, s) \in SUBSET Nat
    BY DEF Fits
  <2>3. \E k \in Fits(x, s) : \A j \in Fits(x, s) : k =< j
    BY <2>1, <2>2, Smallest, Zenon
  <2> QED
    BY <2>3, Zenon
<1> HIDE DEF i
<1>5. PICK p \in Prefixes(x, s) : es[x][i] = Entry(p, m[x][p])
  BY <1>3, <1>4, Zenon
<1>6. ASSUME NEW q \in Prefixes(x, s)
      PROVE  Len(q) =< Len(p)
  <2>1. PICK j \in Fits(x, s) : es[x][j] = Entry(q, m[x][q])
    BY <1>2
  <2>2. es[x][i].pattern = p /\ es[x][j].pattern = q
    BY <1>5, <2>1 DEF Entry
  <2>3. p \in Paths1 /\ q \in Paths1
    BY <1>1, Zenon DEF Prefixes
  <2>4. Len(p) \in Nat /\ Len(q) \in Nat
    BY <2>3 DEF Paths1
  <2>5. i \in 1 .. Len(es[x]) /\ j \in 1 .. Len(es[x]) /\ i =< j
    BY <1>4, <2>1, Zenon DEF Fits
  <2>6. CASE i = j
    BY <2>2, <2>4, <2>6
  <2>7. CASE i # j
    <3>1. i < j
      BY <2>5, <2>7
    <3>2. Len(es[x][i].pattern) >= Len(es[x][j].pattern)
      BY <1>1, <2>5, <3>1, Zenon DEF Sorted
    <3> QED
      BY <2>2, <2>4, <3>2
  <2> QED
    BY <2>6, <2>7
<1>7. c \in Prefixes(x, s) /\ \A q \in Prefixes(x, s) : Len(q) =< Len(c)
  <2>1. \E r \in Prefixes(x, s) : \A q \in Prefixes(x, s) : Len(q) =< Len(r)
    BY <1>6, Zenon
  <2> QED
    BY <2>1, Zenon
<1> HIDE DEF c
<1>8. c = p
  <2>1. c \in Seq(Chars) /\ p \in Seq(Chars) /\ s \in Seq(Chars)
    BY <1>1, <1>7, Zenon DEF Prefixes, Paths1
  <2>2. Len(c) =< Len(p) /\ Len(p) =< Len(c)
    BY <1>6, <1>7
  <2>3. Len(c) = Len(p)
    BY <2>1, <2>2
  <2>4. HasPrefix(s, c) /\ HasPrefix(s, p)
    BY <1>7, Zenon DEF Prefixes
  <2> QED
    BY <2>1, <2>3, <2>4, SamePrefix
<1>9. Fits(x, s) # {} /\ c \in Prefixes(x, s) /\ es[x][i] = Entry(c, m[x][c])
  BY <1>4, <1>5, <1>7, <1>8, Zenon
<1> QED
  BY <1>9, Zenon DEF i, c

\* What the searches of Match find in one mux, against what the doc promises.
LEMMA LookupIsClosest ==
  ASSUME Inv, NEW x \in Muxes, NEW s \in Paths1
  PROVE  LET c == Closest(x, s) IN
         \/ s \in DOMAIN m[x] /\ c = s /\ Lookup(x, s) = <<"exact", Entry(s, m[x][s])>>
         \/ s \notin DOMAIN m[x] /\ c = <<>> /\ Lookup(x, s) = <<"none", Entry(<<>>, NotFound)>>
         \/ /\ s \notin DOMAIN m[x] /\ c \in DOMAIN m[x]
            /\ Lookup(x, s) = <<"prefix", Entry(c, m[x][c])>>
<1>1. CASE s \in DOMAIN m[x]
  BY <1>1, Zenon DEF Closest, Lookup
<1>2. CASE s \notin DOMAIN m[x] /\ Prefixes(x, s) = {}
  <2>1. Fits(x, s) = {}
    <3> SUFFICES ASSUME NEW k \in Fits(x, s)
                 PROVE  FALSE
      OBVIOUS
    <3>1. es[x][k] \in Members(es[x])
      BY Zenon DEF Members, Fits
    <3>2. PICK p \in DOMAIN m[x] : EndsInSlash(p) /\ es[x][k] = Entry(p, m[x][p])
      BY <3>1, Zenon DEF Inv, Agree
    <3>3. es[x][k].pattern = p
      BY <3>2 DEF Entry
    <3> QED
      BY <1>2, <3>2, <3>3, Zenon DEF Fits, Prefixes
  <2>2. Closest(x, s) = <<>>
    BY <1>2, Zenon DEF Closest, Prefixes
  <2>3. Lookup(x, s) = <<"none", Entry(<<>>, NotFound)>>
    BY <1>2, <2>1, Zenon DEF Lookup, Fits
  <2> QED
    BY <1>2, <2>2, <2>3, Zenon
<1>3. CASE s \notin DOMAIN m[x] /\ Prefixes(x, s) # {}
  <2> DEFINE i == CHOOSE k \in Fits(x, s) : \A j \in Fits(x, s) : k =< j
             c == CHOOSE p \in Prefixes(x, s) : \A q \in Prefixes(x, s) : Len(q) =< Len(p)
  <2>1. Fits(x, s) # {} /\ c \in Prefixes(x, s) /\ es[x][i] = Entry(c, m[x][c])
    BY <1>3, FirstIsLongest, Zenon
  <2>2. Closest(x, s) = c
    BY <1>3, Zenon DEF Closest, Prefixes
  <2>3. Lookup(x, s) = <<"prefix", es[x][i]>>
    BY <1>3, <2>1, Zenon DEF Lookup, Fits
  <2> HIDE DEF i, c
  <2>4. c \in DOMAIN m[x]
    BY <2>1, Zenon DEF Prefixes
  <2> QED
    BY <1>3, <2>1, <2>2, <2>3, <2>4, Zenon
<1> QED
  BY <1>1, <1>2, <1>3, Zenon

\* The handler found is the handler of the closest pattern; sub holds no mux.
LEMMA LookupHandler ==
  ASSUME Inv, NEW x \in Muxes, NEW s \in Paths1
  PROVE  /\ Lookup(x, s)[2].h = HandlerOf(x, Closest(x, s))
         /\ Lookup(x, s)[2].h \in Registered(x) \cup {NotFound}
<1> DEFINE c == Closest(x, s)
<1>1. <<>> \notin DOMAIN m[x] /\ \A p \in DOMAIN m[x] : m[x][p] \in Registered(x)
  BY Zenon DEF Inv, Typed, Paths1
<1>2. CASE c \in DOMAIN m[x] /\ Lookup(x, s)[2] = Entry(c, m[x][c])
  <2>1. HandlerOf(x, c) = m[x][c]
    BY <1>1, <1>2, Zenon DEF HandlerOf
  <2>2. Lookup(x, s)[2].h = m[x][c]
    BY <1>2 DEF Entry
  <2> QED
    BY <1>1, <1>2, <2>1, <2>2, Zenon
<1>3. CASE c = <<>> /\ Lookup(x, s)[2] = Entry(<<>>, NotFound)
  <2>1. HandlerOf(x, c) = NotFound
    BY <1>3, Zenon DEF HandlerOf
  <2>2. Lookup(x, s)[2].h = NotFound
    BY <1>3 DEF Entry
  <2> QED
    BY <2>1, <2>2, Zenon
<1>4. \/ c \in DOMAIN m[x] /\ Lookup(x, s)[2] = Entry(c, m[x][c])
      \/ c = <<>> /\ Lookup(x, s)[2] = Entry(<<>>, NotFound)
  <2>1. \/ c \in DOMAIN m[x] /\ \E a : Lookup(x, s) = <<a, Entry(c, m[x][c])>>
        \/ c = <<>> /\ \E a : Lookup(x, s) = <<a, Entry(<<>>, NotFound)>>
    BY LookupIsClosest, Zenon
  <2> HIDE DEF c
  <2>2. ASSUME NEW a, NEW b, Lookup(x, s) = <<a, b>>
        PROVE  Lookup(x, s)[2] = b
    BY <2>2
  <2> QED
    BY <2>1, <2>2, Zenon
<1> QED
  BY <1>2, <1>3, <1>4

LEMMA MuxesApart ==
  /\ (Handlers \cup {NotFound}) \cap Muxes = {} /\ NotFound # "sub" /\ "sub" \notin Handlers
  /\ "root" \in Muxes /\ "sub" \in Muxes /\ Registered("sub") = Handlers
  /\ Registered("root") = Handlers \cup {"sub"}
  BY RespondMuxAssumption, Zenon DEF Muxes, NotFound, Registered

\* Every call reaches the handler that the doc of RespondMux names.
LEMMA CallIsDocumented ==
  ASSUME Inv
  PROVE  MostSpecificCalled
<1> SUFFICES ASSUME NEW s \in Selectors,
                    \/ HandlerOf("root", Closest("root", CleanSelector(s))) # "sub"
                    \/ CleanSelector(s) \notin DOMAIN m["root"]
             PROVE  Respond(s) = Documented(s)
  BY Zenon DEF MostSpecificCalled
<1> DEFINE k == CleanSelector(s)
           c == Closest("root", k)
           found == Lookup("root", k)
           h == found[2].h
           rest == CleanSelector(TrimPrefix(k, c))
           below == Lookup("sub", rest)[2].h
<1>1. k \in Paths1 /\ CleanSelector(k) = k
  BY Inputs, Clean
<1>2. h = HandlerOf("root", c) /\ h \in Handlers \cup {"sub", NotFound}
  BY <1>1, LookupHandler, MuxesApart
<1>3. CASE h # "sub"
  <2>1. h \notin Muxes /\ HandlerOf("root", c) # "sub"
    BY <1>2, <1>3, MuxesApart, Zenon
  <2>2. Match("root", k) = h
    BY <1>1, <2>1, Zenon DEF Match
  <2>3. Respond(s) = h
    BY <2>1, <2>2, Zenon DEF Respond
  <2>4. Documented(s) = HandlerOf("root", c)
    BY <2>1, Zenon DEF Documented
  <2> QED
    BY <1>2, <2>3, <2>4, Zenon
<1>4. CASE h = "sub"
  <2>1. k \notin DOMAIN m["root"]
    BY <1>2, <1>4, Zenon
  <2>2. found = <<"prefix", Entry(c, m["root"][c])>> \/ found = <<"none", Entry(<<>>, NotFound)>>
    BY <1>1, <2>1, LookupIsClosest, MuxesApart, Zenon
  <2>3. found # <<"none", Entry(<<>>, NotFound)>>
    <3> SUFFICES ASSUME found = <<"none", Entry(<<>>, NotFound)>>
                 PROVE  FALSE
      OBVIOUS
    <3>1. h = NotFound
      BY DEF Entry
    <3> QED
      BY <1>4, <3>1, MuxesApart
  <2>4. found[1] = "prefix" /\ found[2].pattern = c /\ c \in DOMAIN m["root"]
    <3>1. found = <<"prefix", Entry(c, m["root"][c])>>
      BY <2>2, <2>3
    <3>2. found[1] = "prefix" /\ found[2].pattern = c
      BY <3>1 DEF Entry
    <3>3. c \in DOMAIN m["root"]
      <4>1. c # <<>>
        BY <1>2, <1>4, MuxesApart, Zenon DEF HandlerOf
      <4> QED
        BY <1>1, <2>1, <4>1, LookupIsClosest, MuxesApart, Zenon
    <3> QED
      BY <3>2, <3>3
  <2>5. rest \in Paths1
    <3>1. c \in Seq(Chars) /\ k \in Seq(Chars)
      BY <1>1, <2>4, MuxesApart, Zenon DEF Inv, Typed, Paths1
    <3>2. ASSUME NEW p \in Seq(Chars), NEW t \in Seq(Chars)
          PROVE  TrimPrefix(t, p) \in Seq(Chars)
      BY DEF TrimPrefix
    <3> QED
      BY <3>1, <3>2, Clean, Zenon
  <2>6. below = HandlerOf("sub", Closest("sub", rest)) /\ below \notin Muxes
    BY <2>5, LookupHandler, MuxesApart, Zenon
  <2>7. Match("root", k) = below
    BY <1>1, <1>4, <2>4, MuxesApart, Zenon DEF Match
  <2>8. Respond(s) = below
    BY <2>6, <2>7, Zenon DEF Respond
  <2>9. Documented(s) = HandlerOf("sub", Closest("sub", rest))
    BY <1>2, <1>4, Zenon DEF Documented
  <2> QED
    BY <2>6, <2>8, <2>9, Zenon
<1> QED
  BY <1>3, <1>4, Zenon

\* In whatever order the patterns were registered, and the plain ones removed, a
\* call reaches the handler of the selector itself or of the longest prefix, and
\* below a sub mux the one found there for the rest of the selector.
THEOREM DispatchDocumented == Spec => []MostSpecificCalled
  BY Invariance, CallIsDocumented, PTL

===============================================================================
