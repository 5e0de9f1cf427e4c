------------------------------- MODULE MCSelect -------------------------------
(***************************************************************************)
(* The expressions, responses and providers TLC tries Select with.  Left   *)
(* out, because the guide says otherwise of them than the code does (see   *)
(* the README): a `where` that reads for_each when the select does not, or *)
(* before the body is read; `entries` in a for_each; for_each.length; a    *)
(* for_each that fails where no select reads it; objects indexed by a      *)
(* number; collect(_, 0); `&&` and `||` of a declared name that need not   *)
(* look at an error; a difference below zero, which the guide's `-` may    *)
(* give and the code makes 0 of: none of the expressions here has one.     *)
(***************************************************************************)
EXTENDS Select

V(j) == <<"value", <<"json", j>>>>
P(name, keys) == <<"value", <<"path", <<"ident", name>>, [i \in DOMAIN keys |-> Key(keys[i])]>>>>
Each(n, keys) == <<"value", <<"path", <<"ident", "for_each">>, <<Nth(n)>> \o [i \in DOMAIN keys |-> Key(keys[i])]>>>>
C(f, args) == <<"value", <<"path", <<"call", f, args>>, <<>>>>>>
T(pieces) == <<"value", <<"template", pieces>>>>
O(op) == <<"op", op>>
G(pieces) == <<"group", pieces>>
N(n) == V(Num(n))
E(pieces) == <<"expression", pieces>>

MCData == Obj([response |-> Obj([status |-> Num(2), body |-> Obj([id |-> Str(<<"x">>), list |-> Arr(<<Num(1), Num(2)>>)])]),
               a |-> Num(3), m |-> Num(5), none |-> Arr(<<>>)])
Body(field) == P("response", <<"body", field>>)

Job(select, where, join, no_err, late) ==
  [kind |-> "select", select |-> select, where |-> where, join |-> join, no_err |-> no_err, late |-> late, d |-> MCData]

(* Three operators of every level, plain, grouped and in a template. *)
Ops == {"+", "-", "*", "%", "==", "<", "&&", "||"}
Triples == {<<o1, o2, o3>> : o1, o2, o3 \in Ops}
Flat(o) == <<N(13), O(o[1]), P("m", <<>>), O(o[2]), N(2), O(o[3]), N(1)>>
Shapes(o) == {Flat(o), <<N(17), O(o[1]), G(<<P("m", <<>>), O(o[2]), N(3)>>), O(o[3]), N(1)>>,
              <<V(Bool(FALSE)), O(o[1]), P("a", <<"b">>), O(o[2]), N(1), O(o[3]), V(Bool(TRUE))>>,
              <<T(<<(<<V(Str(<<"t">>))>>), Flat(o)>>), O("=="), N(1)>>}
Arithmetic == UNION {{Job(E(s), <<>>, <<>>, no_err, FALSE) : s \in Shapes(o), no_err \in BOOLEAN} : o \in Triples}

(* for_each, where and select. *)
Joins == {<<Body("list")>>, <<C("range", <<(<<N(3)>>), (<<N(1)>>)>>)>>, <<C("repeat", <<(<<N(2)>>)>>)>>, <<P("none", <<>>)>>,
          <<Body("id")>>, <<N(1), O("+"), N(1)>>, <<C("if", <<(<<P("a", <<>>)>>), <<Body("list")>>, <<N(1)>> >>)>>}
Element(n) == <<Each(n, <<>>)>>
Rows == {E(Element(0)), E(<<P("for_each", <<>>)>>), E(<<Each(0, <<"b">>)>>),
         <<"array", <<E(Element(0)), E(Element(1)), <<"value", Null>> >>>>,
         <<"object", [id |-> E(<<Body("id")>>), n |-> E(<<C("max", <<Element(0), Element(1), <<P("a", <<>>)>> >>)>>)]>>}
Plain == {E(<<Body("id")>>), <<"array", <<E(<<C("entries", <<(<<Body("list")>>)>>)>>), E(<<C("encode", <<(<<Body("id")>>)>>)>>)>>>>,
          E(<<P("a", <<"b">>)>>), E(<<C("entries", <<(<<Body("id")>>)>>)>>), E(<<P("response", <<"body", "list", "length">>)>>),
          E(<<C("collect", <<(<<P("a", <<>>)>>), <<N(2)>> >>)>>)}
Status(op, n) == <<P("response", <<"status">>), O(op), N(n)>>
OnceWheres == {<<>>, <<Status("<", 4)>>, <<Status(">=", 4)>>, <<(<<P("a", <<"b">>)>>)>>}
EachWheres == {<<(<<Each(0, <<>>), O(">"), N(1)>>)>>, <<(<<Each(1, <<>>), O("!="), Each(0, <<>>)>>)>>,
               <<(<<Each(0, <<"b">>)>>)>>}
ForEachs == {<<j>> : j \in Joins} \cup {<<j1, j2>> : j1, j2 \in Joins}
Iterated ==
  {Job(s, w, j, n, l) : s \in Rows \cup Plain, w \in OnceWheres, j \in ForEachs \cup {<<>>}, n \in BOOLEAN, l \in BOOLEAN}
    \cup {Job(s, w, j, n, TRUE) : s \in Rows, w \in EachWheres, j \in ForEachs \cup {<<>>}, n \in BOOLEAN}
    \cup {Job(s, <<>>, <<Element(0)>>, FALSE, FALSE) : s \in Rows}

MCSelects == Arithmetic \cup Iterated

(* Declared names, with providers that repeat a value and that do not. *)
Same == [a |-> [i \in 1..8 |-> Num(2)], b |-> [i \in 1..8 |-> Obj([c |-> Num(1)])]]
Other == [a |-> [i \in 1..8 |-> Num(i)], b |-> [i \in 1..8 |-> Obj([c |-> Num(i)])]]
A == <<P("a", <<>>)>>
B == <<P("b", <<"c">>)>>
Declared ==
  {A, B, <<N(7), O("-")>> \o A \o <<O("-")>> \o B, <<T(<<A, B, A>>)>>, <<C("if", <<A, B, A>>)>>, <<P("a", <<"c">>)>>,
   <<C("if", << <<N(0)>> \o <<O("*")>> \o A, B, A \o <<O("+")>> \o A>>)>>, <<C("range", <<A, B>>)>>,
   <<C("collect", <<A, <<N(3)>> >>)>>, <<C("min", <<A, <<C("if", <<B, <<N(1)>>, A>>)>> >>)>>, <<C("entries", <<A>>)>>,
   <<G(A \o <<O("+")>> \o B), O("*")>> \o A, <<N(7)>>}
MCDeclares == {[kind |-> "declare", pieces |-> p, queues |-> q] : p \in Declared, q \in {Same, Other}}
===============================================================================
