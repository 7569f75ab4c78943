------------------------------ MODULE RespondMux ------------------------------
(***************************************************************************)
(* The call multiplexer of src/rpc/handler.go: handlers are registered for *)
(* patterns and removed, under the lock, and calls are dispatched to the   *)
(* handler whose pattern fits the selector best.  A mux may itself be      *)
(* registered as a handler; here "root" may hold "sub".                    *)
(*                                                                         *)
(* Selectors and patterns are sequences of characters, of which only the   *)
(* separators "/" and "." mean anything.                                   *)
(***************************************************************************)
EXTENDS Naturals, Sequences

CONSTANTS
  Patterns,    \* what Handle is called with,
  Handlers,    \* for which plain handlers
  Selectors    \* the selectors of calls

Muxes == {"root", "sub"}
NotFound == "not found"

ASSUME RespondMuxAssumption ==
  /\ Patterns \subseteq Seq(STRING) /\ Selectors \subseteq Seq(STRING)
  /\ Handlers \intersect {"root", "sub", NotFound} = {}

VARIABLES
  m,     \* m[x]: RespondMux.m, the handler of each pattern registered
  es     \* es[x]: RespondMux.es, entries for prefixes, longest first

vars == <<m, es>>

Init ==
  /\ m = [x \in Muxes |-> <<>>]
  /\ es = [x \in Muxes |-> <<>>]

-------------------------------------------------------------------------------
(* Selectors *)

\* cleanSelector: a leading separator, and only "/" for a separator.
CleanSelector(s) ==
  LET rooted == IF s # <<>> /\ s[1] = "/" THEN s ELSE <<"/">> \o s IN
  [i \in 1 .. Len(rooted) |-> IF rooted[i] = "." THEN "/" ELSE rooted[i]]

HasPrefix(s, p) == Len(p) =< Len(s) /\ SubSeq(s, 1, Len(p)) = p

TrimPrefix(s, p) == SubSeq(s, Len(p) + 1, Len(s))

EndsInSlash(p) == p[Len(p)] = "/"

-------------------------------------------------------------------------------
(* Registration *)

Entry(p, h) == [pattern |-> p, h |-> h]

\* appendSorted: before the first entry with a shorter pattern.
AppendSorted(list, e) ==
  LET shorter == {i \in 1 .. Len(list) : Len(list[i].pattern) < Len(e.pattern)}
      first == CHOOSE i \in shorter : \A j \in shorter : i =< j IN
  IF shorter = {} THEN Append(list, e)
  ELSE SubSeq(list, 1, first - 1) \o <<e>> \o SubSeq(list, first, Len(list))

\* The pattern Handle registers: a mux handles everything below its pattern.
HandlePattern(pattern, h) ==
  LET p == CleanSelector(pattern) IN
  IF h \in Muxes /\ ~EndsInSlash(p) THEN Append(p, "/") ELSE p

\* Handle.  (It panics, and changes nothing, when the pattern is taken.)
Handle(x, pattern, h) ==
  LET p == HandlePattern(pattern, h) IN
  /\ p \notin DOMAIN m[x]
  /\ m' = [m EXCEPT ![x] = [q \in DOMAIN m[x] \cup {p} |-> IF q = p THEN h ELSE m[x][q]]]
  /\ es' = IF EndsInSlash(p) THEN [es EXCEPT ![x] = AppendSorted(@, Entry(p, h))] ELSE es

\* Remove takes the pattern out of m; es keeps its entry.
Remove(x, selector) ==
  LET p == CleanSelector(selector) IN
  /\ p \in DOMAIN m[x]
  /\ m' = [m EXCEPT ![x] = [q \in DOMAIN m[x] \ {p} |-> m[x][q]]]
  /\ UNCHANGED es

\* What a program does that registers the patterns and removes the selectors.
Registers(patterns, selectors) ==
  \/ \E x \in Muxes, p \in patterns, h \in Handlers : Handle(x, p, h)
  \/ \E p \in patterns : Handle("root", p, "sub")
  \/ \E x \in Muxes, s \in selectors : Remove(x, s)

\* A program that removes only what is not a prefix, as UnregisterPtrs does.
Next == Registers(Patterns, {s \in Patterns : ~EndsInSlash(CleanSelector(s))})

Spec == Init /\ [][Next]_vars

-------------------------------------------------------------------------------
(* Dispatch *)

\* A mistake to catch: the search takes the last entry that fits.
LookupLast(x, s) ==
  LET fits == {i \in 1 .. Len(es[x]) : HasPrefix(s, es[x][i].pattern)} IN
  IF s \in DOMAIN m[x] THEN <<"exact", Entry(s, m[x][s])>>
  ELSE IF fits = {} THEN <<"none", Entry(<<>>, NotFound)>>
  ELSE <<"prefix", es[x][CHOOSE i \in fits : \A j \in fits : i >= j]>>

\* The searches of Match in x, for a clean selector: an exact match, or the first
\* entry of es whose pattern is a prefix.
Lookup(x, s) ==
  LET fits == {i \in 1 .. Len(es[x]) : HasPrefix(s, es[x][i].pattern)} IN
  IF s \in DOMAIN m[x] THEN <<"exact", Entry(s, m[x][s])>>
  ELSE IF fits = {} THEN <<"none", Entry(<<>>, NotFound)>>
  ELSE <<"prefix", es[x][CHOOSE i \in fits : \A j \in fits : i =< j]>>

\* Match: a mux found by prefix goes on with the rest of the selector, one found
\* by its exact pattern is returned.
Match(x, selector) ==
  LET s == CleanSelector(selector)
      found == Lookup(x, s) IN
  IF found[1] = "prefix" /\ found[2].h \in Muxes
  THEN Lookup(found[2].h, CleanSelector(TrimPrefix(s, found[2].pattern)))[2].h
  ELSE found[2].h

\* RespondRPC of root: the handler that is called in the end.  A mux that Match
\* returned is called with the selector of the call.
Respond(selector) ==
  LET s == CleanSelector(selector)
      h == Match("root", s) IN
  IF h \in Muxes THEN Match(h, s) ELSE h

-------------------------------------------------------------------------------
(* Properties *)

Paths == {CleanSelector(p) : p \in Patterns} \cup {HandlePattern(p, "sub") : p \in Patterns}

\* Patterns are clean, and handlers or the mux sub are registered for them.
TypeOK ==
  \A x \in Muxes :
    /\ DOMAIN m[x] \subseteq Paths
    /\ \A p \in DOMAIN m[x] : m[x][p] \notin {"root", NotFound} /\ p[1] = "/"
    /\ \A i \in 1 .. Len(es[x]) : es[x][i].pattern \in Paths

\* "m.es contains all patterns that end in / sorted from longest to shortest."
EntriesAgree ==
  \A x \in Muxes :
    /\ {es[x][i] : i \in 1 .. Len(es[x])}
         = {Entry(p, m[x][p]) : p \in {q \in DOMAIN m[x] : EndsInSlash(q)}}
    /\ \A i, j \in 1 .. Len(es[x]) :
         i < j => /\ Len(es[x][i].pattern) >= Len(es[x][j].pattern)
                  /\ es[x][i] # es[x][j]

\* What the doc of RespondMux promises of one mux: the handler registered for the
\* selector itself, or else for the longest prefix pattern.
Closest(x, s) ==
  LET prefixes == {p \in DOMAIN m[x] : EndsInSlash(p) /\ HasPrefix(s, p)} IN
  IF s \in DOMAIN m[x] THEN s
  ELSE IF prefixes = {} THEN <<>>
  ELSE CHOOSE p \in prefixes : \A q \in prefixes : Len(q) =< Len(p)

HandlerOf(x, p) == IF p = <<>> THEN NotFound ELSE m[x][p]

\* "If a pattern matches a handler that is a RespondMux, it will trim the matching
\* selector prefix before matching against the sub RespondMux."
Documented(selector) ==
  LET s == CleanSelector(selector)
      p == Closest("root", s)
      rest == CleanSelector(TrimPrefix(s, p)) IN
  IF HandlerOf("root", p) = "sub" THEN HandlerOf("sub", Closest("sub", rest))
  ELSE HandlerOf("root", p)

\* Every call reaches the handler the documentation of RespondMux names, in
\* whatever order the patterns were registered; but see SubMuxTrimmed for a
\* selector that is the very pattern of a sub mux.
MostSpecificCalled ==
  \A s \in Selectors :
    HandlerOf("root", Closest("root", CleanSelector(s))) # "sub"
      \/ CleanSelector(s) \notin DOMAIN m["root"]
    => Respond(s) = Documented(s)

\* The same for every selector.
SubMuxTrimmed == \A s \in Selectors : Respond(s) = Documented(s)

===============================================================================
