------------------------------- MODULE Callbacks ------------------------------
(***************************************************************************)
(* Remote callbacks, src/exp/ptr.go.  A value passed to a call may contain *)
(* Ptrs, functions of the caller.  The caller registers them on its        *)
(* RespondMux, makes the call, and removes them when it has returned; the  *)
(* callee finds them in the value it decoded, and calls them.  Several     *)
(* tasks of one process do so on one mux, while others register handlers   *)
(* of their own: this module extends RespondMux.                           *)
(***************************************************************************)
EXTENDS RespondMux

Seqs == INSTANCE SequencesExt

CONSTANTS
  MaxRegs,     \* bound on the calls of RegisterPtrs of a task
  Uses         \* programs: the value each goroutine makes a call with, and the
               \* patterns that are registered and removed besides

VARIABLES
  task,    \* task[g]: where it is, the Ptr it is at, and its RegisterPtrs so far
  proc,    \* the process: "running", "panicked" in a Handle, "aborted" by the runtime
  raced,   \* a Match has run while another goroutine wrote the map
  use

Tasks == DOMAIN use.value
allVars == <<m, es, task, proc, raced, use>>

CallbacksInit ==
  /\ Init
  /\ use \in Uses
  /\ task = [g \in Tasks |-> [pc |-> "register", at |-> 1, regs |-> 1]]
  /\ proc = "running" /\ raced = FALSE

-------------------------------------------------------------------------------
(* Values *)

\* A value has a kind, an id if it is a *Ptr, and what is in it, by key.  The field
\* of a struct may be unexported, "hidden", or of an interface type, "iface"; a
\* map with keys that are not strings is an "othermap".
Node(kind, id, elems) == [kind |-> kind, id |-> id, elems |-> elems]
Elem(key, tag, v) == [key |-> key, tag |-> tag, v |-> v]
Leaf(id) == Node("leaf", id, <<>>)
Null == Node("null", "", <<>>)
Interface == Node("interface", "", <<>>)
Ptr(id) == Node("ptr", id, <<Elem("Ptr", "plain", Leaf(id)), Elem("Caller", "plain", Interface),
                             Elem("fn", "hidden", Leaf(""))>>)

\* keys and prop: the parts of a value.  A pointer stands for what it points at, a
\* field of an interface type keeps that type and so has no parts.
RECURSIVE Props(_)
Props(v) ==
  LET Field(e) == Elem(e.key, e.tag, IF e.tag = "iface" THEN Interface ELSE e.v) IN
  CASE v.kind = "pointer" -> Props(v.elems[1].v)
    [] v.kind \in {"ptr", "struct"} ->
         LET fields == SelectSeq(v.elems, LAMBDA e : e.tag # "hidden") IN
         [i \in 1 .. Len(fields) |-> Field(fields[i])]
    [] v.kind \in {"list", "map"} -> SelectSeq(v.elems, LAMBDA e : e.v.kind # "null")
    [] OTHER -> <<>>

\* walk: the parts in the order they are visited.
RECURSIVE Walk(_)
Walk(v) ==
  LET Visit(seen, e) == Append(seen, e) \o Walk(e.v) IN Seqs!FoldLeft(Visit, <<>>, Props(v))

\* PtrsFrom, the ids of the Ptrs it finds.  (A nil *Ptr is a "nil".)
PtrsFrom(v) ==
  LET found == SelectSeq(Walk(v), LAMBDA e : e.v.kind = "ptr") IN
  [i \in 1 .. Len(found) |-> found[i].v.id]

\* SetCallers, the ids it returns: also of Ptrs encoded as maps.
SetCallers(v) ==
  LET visited == Walk(v) IN
  {PtrsFrom(v)[i] : i \in 1 .. Len(PtrsFrom(v))}
    \union {visited[i].v.id : i \in {j \in 1 .. Len(visited) : visited[j].key = "$fnptr"}}

\* A value after JSON, decoded into an interface value.
RECURSIVE Encoded(_)
Encoded(v) ==
  LET shown == SelectSeq(v.elems, LAMBDA e : e.tag # "hidden")
      parts == [i \in 1 .. Len(shown) |-> Elem(shown[i].key, "plain", Encoded(shown[i].v))] IN
  CASE v.kind = "ptr" -> Node("map", "", <<Elem("$fnptr", "plain", Leaf(v.id))>>)
    [] v.kind = "pointer" -> Encoded(v.elems[1].v)
    [] v.kind \in {"struct", "map", "othermap"} -> Node("map", "", parts)
    [] v.kind = "list" -> Node("list", "", parts)
    [] v.kind = "leaf" -> v
    [] OTHER -> Null

-------------------------------------------------------------------------------
(* Tasks *)

Args(g) == PtrsFrom(use.value[g])
At(g, pc, at) == task' = [task EXCEPT ![g].pc = pc, ![g].at = at]

\* Mistakes to catch: Handle without looking; the first one registered ends the loop.
RegisterMatchNot(g) ==
  /\ task[g].pc = "register" /\ task[g].at <= Len(Args(g))
  /\ At(g, "handle", task[g].at)
  /\ UNCHANGED <<m, es, proc, raced>>
RegisterMatchStops(g) ==
  /\ task[g].pc = "register" /\ task[g].at <= Len(Args(g))
  /\ IF Match("root", <<Args(g)[task[g].at]>>) = NotFound
     THEN At(g, "handle", task[g].at)
     ELSE At(g, "register", Len(Args(g)) + 1)
  /\ UNCHANGED <<m, es, proc, raced>>

\* RegisterPtrs: Match, which takes no lock,
RegisterMatch(g) ==
  /\ task[g].pc = "register" /\ task[g].at <= Len(Args(g))
  /\ IF Match("root", <<Args(g)[task[g].at]>>) = NotFound
     THEN At(g, "handle", task[g].at)
     ELSE At(g, "register", task[g].at + 1)
  /\ UNCHANGED <<m, es, proc, raced>>

\* and Handle if nothing matched, which panics if the id is registered by now.
RegisterHandle(g) ==
  LET id == Args(g)[task[g].at] IN
  /\ task[g].pc = "handle"
  /\ IF HandlePattern(<<id>>, id) \in DOMAIN m["root"]
     THEN proc' = "panicked" /\ UNCHANGED <<m, es, task>>
     ELSE Handle("root", <<id>>, id) /\ At(g, "register", task[g].at + 1) /\ UNCHANGED proc
  /\ UNCHANGED raced

\* RegisterPtrs is called again for the same value, or the call is made,
RegisterAgain(g) ==
  /\ task[g].pc = "register" /\ task[g].at > Len(Args(g)) /\ task[g].regs < MaxRegs
  /\ task' = [task EXCEPT ![g] = [pc |-> "register", at |-> 1, regs |-> @.regs + 1]]
  /\ UNCHANGED <<m, es, proc, raced>>
CallStarts(g) ==
  /\ task[g].pc = "register" /\ task[g].at > Len(Args(g))
  /\ At(g, "calling", 1)
  /\ UNCHANGED <<m, es, proc, raced>>
CallReturns(g) ==
  /\ task[g].pc = "calling"
  /\ At(g, "unregister", 1)
  /\ UNCHANGED <<m, es, proc, raced>>

\* A mistake to catch: what matches is kept.
UnregisterMatchInverted(g) ==
  /\ task[g].pc = "unregister" /\ task[g].at <= Len(Args(g))
  /\ IF Match("root", <<Args(g)[task[g].at]>>) = NotFound
     THEN At(g, "remove", task[g].at)
     ELSE At(g, "unregister", task[g].at + 1)
  /\ UNCHANGED <<m, es, proc, raced>>

\* UnregisterPtrs: Match, and Remove if something matched.
UnregisterMatch(g) ==
  /\ task[g].pc = "unregister" /\ task[g].at <= Len(Args(g))
  /\ IF Match("root", <<Args(g)[task[g].at]>>) # NotFound
     THEN At(g, "remove", task[g].at)
     ELSE At(g, "unregister", task[g].at + 1)
  /\ UNCHANGED <<m, es, proc, raced>>
UnregisterRemove(g) ==
  /\ task[g].pc = "remove"
  /\ \/ Remove("root", <<Args(g)[task[g].at]>>)
     \/ CleanSelector(<<Args(g)[task[g].at]>>) \notin DOMAIN m["root"] /\ UNCHANGED <<m, es>>
  /\ At(g, "unregister", task[g].at + 1)
  /\ UNCHANGED <<proc, raced>>

\* Both Matches read m and es without the lock.  When another goroutine is in Handle
\* or Remove at that moment the runtime may notice, and ends the process: "concurrent
\* map read and map write"; or Match may return anything.
Writing(g) == use.patterns # {} \/ \E x \in Tasks \ {g} : task[x].pc \in {"handle", "remove"}
MatchRaces(g) ==
  /\ task[g].pc \in {"register", "unregister"} /\ task[g].at <= Len(Args(g))
  /\ Writing(g)
  /\ raced' = TRUE
  /\ \/ proc' = "aborted" /\ UNCHANGED task
     \/ /\ \/ At(g, IF task[g].pc = "register" THEN "handle" ELSE "remove", task[g].at)
           \/ At(g, task[g].pc, task[g].at + 1)
        /\ UNCHANGED proc
  /\ UNCHANGED <<m, es>>

Ends(g) ==
  /\ task[g].pc = "unregister" /\ task[g].at > Len(Args(g))
  /\ At(g, "done", 1)
  /\ UNCHANGED <<m, es, proc, raced>>

\* The rest of the program registers and removes its handlers.
Program == Registers(use.patterns, use.removed) /\ UNCHANGED <<task, proc, raced>>

CallbacksNext ==
  /\ proc = "running" /\ UNCHANGED use
  /\ \/ Program
     \/ \E g \in Tasks :
          \/ RegisterMatch(g) \/ RegisterHandle(g) \/ RegisterAgain(g)
          \/ CallStarts(g) \/ CallReturns(g)
          \/ UnregisterMatch(g) \/ UnregisterRemove(g) \/ Ends(g)
          \/ MatchRaces(g)

CallbacksSpec == CallbacksInit /\ [][CallbacksNext]_allVars

-------------------------------------------------------------------------------
(* Properties *)

\* The Ptrs in a value, by the words of PtrsFrom: in "exported struct fields,
\* slice/array elements, map values, and pointers in a value."
RECURSIVE Contains(_)
Contains(v) ==
  LET parts == {v.elems[i].v : i \in {j \in 1 .. Len(v.elems) : v.elems[j].tag # "hidden"}} IN
  {x.id : x \in {y \in parts : y.kind = "ptr"}} \union UNION {Contains(x) : x \in parts}

\* PtrsFrom finds exactly the Ptrs that are in a value.
PtrsFound == \A g \in Tasks : {Args(g)[i] : i \in 1 .. Len(Args(g))} = Contains(use.value[g])

\* What else the Ptr is passed to, at the same time.
Shared(g, id) == \E x \in Tasks \ {g} : \E i \in 1 .. Len(Args(x)) : Args(x)[i] = id

\* While a call is under way the callee can call back: every Ptr that SetCallers
\* finds in the value as it was decoded reaches its function through the caller's
\* mux, whatever the other tasks register and unregister and whatever other
\* handlers the program has; unless another task has the same Ptr, and removes it
\* first, or a Match was disturbed.
CallbacksReachable ==
  ~raced =>
    \A g \in Tasks :
      task[g].pc = "calling" =>
        \A id \in SetCallers(Encoded(use.value[g])) : Shared(g, id) \/ Respond(<<id>>) = id

\* Once no task is left no Ptr is, those included that several tasks registered and
\* removed, and a callback that comes late is not found.
PtrsGone ==
  ~raced /\ (\A g \in Tasks : task[g].pc = "done") =>
    \A g \in Tasks : \A i \in 1 .. Len(Args(g)) : Respond(<<Args(g)[i]>>) = NotFound

\* "It can safely be called more than once for the same Ptrs": RegisterPtrs panics in
\* Handle only when another goroutine has registered the same Ptr since its Match, or
\* that Match was disturbed.
OnlySharedPanic ==
  proc = "panicked" =>
    raced \/ \E g \in Tasks : task[g].pc = "handle" /\ Shared(g, Args(g)[task[g].at])

\* The same without exception, and that the runtime does not end the process.
NoPanic == proc # "panicked"
NoAbort == proc # "aborted"

===============================================================================
