----------------------------- MODULE CallbacksMC ------------------------------
(* Programs with nested patterns over the letters a and b, and callbacks p, q and r. *)
EXTENDS Callbacks

\* "a", "a.", "/a/b/" and the pattern of everything, "".
NestedPatterns == {<<"a">>, <<"a", ".">>, <<"/", "a", "/", "b", "/">>, <<>>}
PtrPatterns == {<<"p">>, <<"q">>, <<"r">>}
AllPatterns == NestedPatterns \union PtrPatterns
PlainPatterns == {<<"a">>}

\* Selectors in both forms, exact, below a pattern, and below none.
SomeSelectors ==
  {<<"a">>, <<"b">>, <<>>, <<"a", ".", "b">>, <<"/", "a", "/", "b", "/", "a">>,
   <<"a", ".">>, <<"a", "b">>, <<"a", ".", "a", ".", "b">>, <<"p">>, <<"p", ".", "a">>}

\* Values made of x and y.
Struct(x, tagY, y) == Node("struct", "", <<Elem("X", "plain", x), Elem("Y", tagY, y)>>)
Of(kind, x, y) == Node(kind, "", <<Elem("0", "plain", x), Elem("1", "plain", y)>>)
Pointer(x) == Node("pointer", "", <<Elem("", "plain", x)>>)
Nil == Node("nil", "", <<>>)

Flat == {Struct(x, tag, y) : x \in {Ptr("p"), Nil}, y \in {Ptr("q"), Ptr("p"), Leaf("")}, tag \in {"plain", "hidden"}}
         \union {Of(kind, x, y) : kind \in {"list", "map"}, x \in {Ptr("p"), Null}, y \in {Ptr("q"), Leaf("")}}
Nested == {Of(kind, x, Ptr("q")) : kind \in {"list", "map"}, x \in Flat}
           \union {Struct(Pointer(x), "plain", Leaf("")) : x \in Flat}
           \union {Pointer(x) : x \in Flat}

\* What PtrsFrom does not find: Ptrs in fields of an interface type, behind two
\* pointers, in maps by number, and the value itself.
Unfound == {Struct(Leaf(""), "iface", Ptr("p")), Struct(Pointer(Ptr("p")), "plain", Leaf("")),
            Of("othermap", Ptr("p"), Leaf(""))}

List(x) == Of("list", x, Leaf(""))
Programming(values, patterns, removed) == [value |-> values, patterns |-> patterns, removed |-> removed]

\* One Ptr of each call is also passed to the other, or both are.
SharedUses ==
  {Programming(<<Of("list", Ptr("p"), Ptr("q")), Of("list", Ptr("q"), y)>>, {}, {}) : y \in {Ptr("p"), Ptr("r")}}

\* Values of every shape; two calls next to other handlers; calls that share Ptrs;
\* other handlers only.
SomeUses ==
  {Programming(<<v, List(Ptr("r"))>>, {}, {}) : v \in Flat \union Nested}
    \union {Programming(<<List(Ptr("p")), List(Ptr("r"))>>,
                        {<<"a">>, <<"a", ".">>}, PlainPatterns)}
    \union SharedUses
    \union {Programming(<<>>, NestedPatterns, PlainPatterns)}

RemoveUses == {Programming(<<>>, NestedPatterns, NestedPatterns)}
ExactUses == {Programming(<<>>, NestedPatterns, {})}
CatchAllUses == {Programming(<<List(Ptr("p"))>>, {<<>>}, {})}
UnfoundUses == {Programming(<<v>>, {}, {}) : v \in Unfound}
===============================================================================
