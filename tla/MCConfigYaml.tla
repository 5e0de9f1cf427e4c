---------------------------- MODULE MCConfigYaml ----------------------------
(***************************************************************************)
(* Configuration files for ConfigYaml.  A file is a tree of nodes; it is   *)
(* the smallest valid one with one thing changed at one place: another     *)
(* value, another kind of node, a field missing, unknown or twice, an      *)
(* empty collection, an anchored node with an alias of it next to it.      *)
(***************************************************************************)
EXTENDS ConfigYaml, SequencesExt

VARIABLES doc, result

-----------------------------------------------------------------------------
(* Nodes: the kids of a mapping are its keys and values in turn.           *)
Node(t, sc, kids) == [t |-> t, sc |-> sc, id |-> 0, kids |-> kids]
Plain(text) == Node("scalar", [text |-> text, plain |-> TRUE, tag |-> <<>>], <<>>)
Quoted(text) == Node("scalar", [text |-> text, plain |-> FALSE, tag |-> <<>>], <<>>)
Tagged(text, tag) == Node("scalar", [text |-> text, plain |-> TRUE, tag |-> tag], <<>>)
Listed(kids) == Node("seq", NoScalar, kids)
MapTo(kids) == Node("map", NoScalar, kids)
Alias(id) == [t |-> "alias", sc |-> NoScalar, id |-> id, kids |-> <<>>]
Anchored(n, id) == [n EXCEPT !.id = id]

\* The events that the YAML parser gives for a node.
RECURSIVE Events(_), EventsFrom(_, _)
EventsFrom(kids, i) == IF i > Len(kids) THEN <<>> ELSE Events(kids[i]) \o EventsFrom(kids, i + 1)
Events(n) ==
  LET Ev(ev, id) == [ev |-> ev, sc |-> NoScalar, id |-> id]
      Inside == EventsFrom(n.kids, 1)
  IN CASE n.t = "scalar" -> <<[ev |-> "Scalar", sc |-> n.sc, id |-> n.id]>>
       [] n.t = "alias" -> <<Ev("Alias", n.id)>>
       [] n.t = "seq" -> <<Ev("SequenceStart", n.id)>> \o Inside \o <<Ev("SequenceEnd", 0)>>
       [] n.t = "map" -> <<Ev("MappingStart", n.id)>> \o Inside \o <<Ev("MappingEnd", 0)>>

RECURSIVE Nodes(_)
Nodes(n) == {n} \cup UNION {Nodes(n.kids[i]) : i \in DOMAIN n.kids}

\* The tree with every alias replaced by the node it stands for.
RECURSIVE Resolved(_, _)
Resolved(n, all) ==
  IF n.t = "alias" THEN Resolved(CHOOSE m \in all : m.t # "alias" /\ m.id = n.id, all)
  ELSE [n EXCEPT !.id = 0, !.kids = [i \in DOMAIN n.kids |-> Resolved(n.kids[i], all)]]

-----------------------------------------------------------------------------
(* What a file says: the value of type t that node n is written for, or    *)
(* none.  This is stated on the tree; it knows nothing of events.          *)
Keys(n) == {i \in DOMAIN n.kids : i % 2 = 1}
KeyAt(n, i) == n.kids[i].sc.text
LastOf(n, key) == n.kids[(CHOOSE i \in Keys(n) : KeyAt(n, i) = key /\ \A j \in Keys(n) : KeyAt(n, j) = key => j <= i) + 1]
KeysOf(n) == {KeyAt(n, i) : i \in Keys(n)}
ScalarKeys(n) == \A i \in Keys(n) : n.kids[i].t = "scalar"
The(S) == CHOOSE x \in S : TRUE

RECURSIVE JsonOf(_)
JsonOf(n) ==
  CASE n.t = "scalar" -> JsonScalar(n.sc)
    [] n.t = "seq" -> Val("array", "", [i \in DOMAIN n.kids |-> JsonOf(n.kids[i])])
    [] n.t = "map" -> Val("object", "", [k \in KeysOf(n) |-> JsonOf(LastOf(n, k))])

RECURSIVE Written(_, _)
Written(t, n) ==
  LET All(parts, v) == IF \A i \in DOMAIN parts : parts[i] # {} THEN {v} ELSE {}
      Mapping == n.t = "map" /\ ScalarKeys(n)
      ByKey(T(_)) == [k \in KeysOf(n) |-> Written(T(k), LastOf(n, k))]
      OneKey == IF Mapping /\ Len(n.kids) = 2 /\ KeyAt(n, 1) \in DOMAIN t.of
                THEN {Val("choice", KeyAt(n, 1), <<The(v)>>) : v \in {Written(t.of[KeyAt(n, 1)], n.kids[2])} \ {{}}}
                ELSE {}
  IN CASE t.k = "scalar" -> IF n.t = "scalar" THEN ValueOf(t.of, n.sc) ELSE {}
       [] t.k = "json" -> IF \A m \in Nodes(n) : m.t = "map" => ScalarKeys(m) THEN {JsonOf(n)} ELSE {}
       [] t.k = "nullable" -> IF n.t = "scalar" /\ IsNull(n.sc) THEN {JsonNull} ELSE Written(t.of, n)
       [] t.k = "list" -> IF n.t # "seq" THEN {} ELSE
            LET parts == [i \in DOMAIN n.kids |-> Written(t.of, n.kids[i])]
            IN All(parts, Val("list", "", [i \in DOMAIN parts |-> The(parts[i])]))
       [] t.k = "pairs" -> IF ~Mapping THEN {} ELSE
            LET parts == [j \in 1..(Len(n.kids) \div 2) |-> Written(t.of, n.kids[2 * j])]
            IN All(parts, Val("pairs", "", [j \in DOMAIN parts |-> Val("pair", KeyAt(n, 2 * j - 1), <<The(parts[j])>>)]))
       [] t.k = "map" -> IF ~Mapping THEN {} ELSE
            LET parts == ByKey(LAMBDA k : t.of)
                every == [j \in 1..(Len(n.kids) \div 2) |-> Written(t.of, n.kids[2 * j])]
            IN IF \E j \in DOMAIN every : every[j] = {} THEN {}
               ELSE {Val("map", "", [k \in DOMAIN parts |-> The(parts[k])])}
       [] t.k = "struct" ->
            IF ~Mapping \/ ~(KeysOf(n) \subseteq DOMAIN t.of)
               \/ (\E i \in Keys(n) : Written(t.of[KeyAt(n, i)].type, n.kids[i + 1]) = {})
               \/ \E f \in DOMAIN t.of : t.of[f].needed /\ f \notin KeysOf(n)
            THEN {}
            ELSE {Val("struct", "", [f \in DOMAIN t.of |->
                   IF f \in KeysOf(n) THEN The(Written(t.of[f].type, LastOf(n, f))) ELSE t.of[f].default])}
       [] t.k \in {"choice", "provider"} -> OneKey
       [] t.k = "list_provider" ->
            LET o == IF n.t = "seq" THEN "default" ELSE "options"
            IN {Val("choice", o, <<v>>) : v \in Written(t.of[o], n)}
       [] t.k = "body" ->
            IF n.t = "scalar" THEN {Val("choice", IF TaggedFile(n.sc) THEN "file" ELSE "string",
                                        <<Val("string", n.sc.text, <<>>)>>)}
            ELSE OneKey

\* A collection of the file (not inside JSON) with nothing in it.
RECURSIVE HasEmpty(_, _)
HasEmpty(t, n) ==
  LET Within(T(_)) == \E i \in Keys(n) : KeyAt(n, i) \in DOMAIN t.of /\ HasEmpty(T(KeyAt(n, i)), n.kids[i + 1]) IN
  CASE t.k \in {"scalar", "json"} -> FALSE
    [] t.k = "nullable" -> HasEmpty(t.of, n)
    [] t.k = "list" -> n.t \in {"seq", "map"} /\ (n.kids = <<>> \/ \E i \in DOMAIN n.kids : HasEmpty(t.of, n.kids[i]))
    [] t.k \in {"pairs", "map"} -> n.t \in {"seq", "map"} /\
         (n.kids = <<>> \/ \E i \in DOMAIN n.kids : i % 2 = 0 /\ HasEmpty(t.of, n.kids[i]))
    [] t.k = "struct" -> n.t = "map" /\ Within(LAMBDA k : t.of[k].type)
    [] t.k = "list_provider" -> HasEmpty(IF n.t = "seq" THEN t.of.default ELSE t.of.options, n)
    [] t.k \in {"choice", "provider", "body"} -> n.t = "map" /\ Within(LAMBDA k : t.of[k])

-----------------------------------------------------------------------------
(* The files.                                                              *)
GoodScalar == [bool |-> "true", i64 |-> "-7", usize |-> "0", nonzero_usize |-> "7", nonzero_u16 |-> "7",
               char |-> "7", method |-> "POST", format |-> "csv", send |-> "force", log_level |-> "warn",
               string |-> "x", limit |-> "auto", header |-> "x", stats |-> "60s"]

RECURSIVE Good(_)
Good(t) ==
  LET Filled(fields) == LET fs == SetToSeq(fields) IN
        MapTo(FlattenSeq([i \in DOMAIN fs |-> <<Plain(fs[i]), Good(t.of[fs[i]].type)>>]))
      FirstOption == LET o == The(DOMAIN t.of) IN MapTo(<<Plain(o), Good(t.of[o])>>)
  IN CASE t.k = "scalar" -> Plain(GoodScalar[t.of])
       [] t.k = "json" -> Plain("x")
       [] t.k = "nullable" -> Good(t.of)
       [] t.k = "list" -> Listed(<<Good(t.of)>>)
       [] t.k \in {"pairs", "map"} -> MapTo(<<Plain("k"), Good(t.of)>>)
       [] t.k = "struct" -> Filled({f \in DOMAIN t.of : t.of[f].needed})
       [] t.k \in {"choice", "provider", "body"} -> FirstOption
       [] t.k = "list_provider" -> Good(t.of.default)

BadOf(k) == CASE k \in {"bool", "i64", "usize", "limit"} -> {"x"}
              [] k \in {"nonzero_usize", "char"} -> {"0", "65536"}
              [] k = "nonzero_u16" -> {"0", "65536"}
              [] k \in {"string", "header"} -> {"true"}
              [] OTHER -> {"x", "true"}

Wrong == {Listed(<<>>), MapTo(<<>>)}

\* The good node with key f set to v, added or in place of what it has.
With(n, f, v) ==
  LET i == {j \in Keys(n) : KeyAt(n, j) = f} IN
  IF i = {} THEN [n EXCEPT !.kids = @ \o <<Plain(f), v>>]
  ELSE [n EXCEPT !.kids = [@ EXCEPT ![The(i) + 1] = v]]

Without(n, f) == LET i == The({j \in Keys(n) : KeyAt(n, j) = f}) IN
  [n EXCEPT !.kids = SubSeq(@, 1, i - 1) \o SubSeq(@, i + 2, Len(@))]

\* The node twice: anchored, and an alias of it.  d: the depth, which numbers the anchors.
Twice(v, d, Both(_, _)) == IF v.t \in {"seq", "map"} /\ v.id = 0 THEN {Both(Anchored(v, d), Alias(d))} ELSE {}

JsonNodes(d) ==
  LET inner == Listed(<<Quoted("7"), MapTo(<<Plain("a"), Plain("null")>>)>>) IN
  {Plain("7"), Quoted("true"), Plain("NaN"), inner, Listed(<<Listed(<<>>), MapTo(<<>>)>>), Listed(<<>>), MapTo(<<>>),
   MapTo(<<Plain("a"), Plain("x"), Plain("a"), inner, Plain("b"), Plain("x")>>),
   MapTo(<<inner, Plain("x")>>),
   Listed(<<Anchored(Listed(<<Anchored(inner, d), Alias(d)>>), d + 1), Alias(d), Alias(d + 1)>>),
   MapTo(<<Plain("a"), Anchored(Plain("x"), d), Plain("b"), Alias(d)>>),
   Anchored(Listed(<<Alias(d), Plain("x")>>), d)}

RECURSIVE Variants(_, _)
Variants(t, d) ==
  CASE t.k = "scalar" -> {Plain(x) : x \in BadOf(t.of) \cup {GoodScalar[t.of]}}
                         \cup {Quoted(GoodScalar[t.of]), Tagged("x", <<"!", "file">>)} \cup Wrong
    [] t.k = "json" -> JsonNodes(d)
    [] t.k = "nullable" -> Variants(t.of, d) \cup {Plain("null"), Quoted("null"), Tagged("x", <<"!!", "null">>), Tagged("x", <<"!", "null">>)}
    [] t.k = "list" -> {Listed(<<v>>) : v \in Variants(t.of, d + 2)}
         \cup UNION {Twice(v, d, LAMBDA a, b : Listed(<<a, b>>)) : v \in Variants(t.of, d + 2)}
         \cup Wrong \cup {Good(t.of), MapTo(<<Plain("k"), Good(t.of)>>)}
    [] t.k \in {"pairs", "map"} -> {MapTo(<<Plain("k"), v>>) : v \in Variants(t.of, d + 2)}
         \cup UNION {Twice(v, d, LAMBDA a, b : MapTo(<<Plain("k"), a, Plain("k"), b>>)) : v \in {Good(t.of)}}
         \cup Wrong \cup {Plain("k"), Listed(<<Plain("k"), Good(t.of)>>), MapTo(<<Good(t.of), Good(t.of)>>)}
    [] t.k = "struct" -> LET g == Good(t) IN
         UNION {{With(g, f, v) : v \in Variants(t.of[f].type, d + 2)} : f \in DOMAIN t.of}
         \cup {[g EXCEPT !.kids = @ \o <<Plain(f), Good(t.of[f].type)>>] : f \in {x \in DOMAIN t.of : t.of[x].needed}}
         \cup {Without(g, f) : f \in {x \in DOMAIN t.of : t.of[x].needed}}
         \cup {With(g, "unknown", Plain("x")), Listed(<<g>>), Plain(The(DOMAIN t.of)), MapTo(<<g, g>>)} \cup Wrong
    [] t.k \in {"choice", "provider", "body"} ->
         UNION {{MapTo(<<Plain(o), v>>) : v \in Variants(t.of[o], d + 2)} : o \in DOMAIN t.of}
         \cup {MapTo(<<Plain("unknown"), Plain("x")>>), Plain("x"), Tagged("x", <<"!", "file">>), Tagged("x", <<"!!", "file">>), Listed(<<Good(t)>>),
               MapTo(Good(t).kids \o Good(t).kids)} \cup Wrong
    [] t.k = "list_provider" -> Variants(t.of.default, d) \cup Variants(t.of.options, d) \cup {Plain("x")}

Docs == Variants(LoadTest, 1)
MCFiles == {Events(n) : n \in Docs}
MCScalars == UNION {{m.sc : m \in Nodes(n)} : n \in Docs}

-----------------------------------------------------------------------------
Init == /\ doc \in Docs
        /\ input = Events(doc)
        /\ DecoderInit
        /\ result = Ok(None, <<>>)

Read == Decode /\ UNCHANGED <<doc, result>>

\* When the decoder gave everything, the parser that asked for it is run.
Load == /\ Decoded
        /\ result.val = None /\ result.st = "ok"
        /\ result' = Parsed
        /\ UNCHANGED <<doc, decoderVars>>

Next == Read \/ Load
Spec == Init /\ [][Next]_<<doc, result, decoderVars>>

-----------------------------------------------------------------------------
(* Properties.                                                             *)
AliasesSound == \A m \in Nodes(doc) :
  m.id > 0 /\ m.t # "alias" => m.t # "scalar" /\ Alias(m.id) \notin Nodes(m)

Meaning == Resolved(doc, Nodes(doc))
Loaded == result.st # "ok" \/ result.val # None

\* The decoder gives what the file says with its aliases written out: no event of an anchored node is
\* lost, repeated or replayed in another order, however anchors and aliases are nested.  (Aliases of
\* scalars are left out: the decoder gives nothing for them, see the README.)
DecodedAsWritten ==
  Decoded /\ AliasesSound =>
    LET es == Events(Meaning) IN out = [i \in DOMAIN es |-> EventOf(es[i])]

\* A file that is accepted is accepted for what it says: parsers that take the events of a wrong node,
\* that start in the middle or that miss the end of a collection never end in a configuration that the
\* file does not describe (every parser takes the events of whole nodes or the whole file is refused).
AcceptedAsWritten ==
  Loaded /\ AliasesSound /\ result.st = "ok" =>
    result.rest = <<>> /\ Written(LoadTest, Meaning) = {result.val}

\* A file that says what a configuration can be is accepted, unless one of its collections is empty.
WellWrittenAccepted ==
  Loaded /\ AliasesSound /\ Written(LoadTest, Meaning) # {} /\ ~HasEmpty(LoadTest, Meaning)
    => result.st = "ok"

\* Reading a file means what the file says: the events, the configuration, and no refusal without a
\* reason.  It takes a decoder that replays anchors in order and parsers that agree on where a node ends.
ReadAsWritten == DecodedAsWritten /\ AcceptedAsWritten /\ WellWrittenAccepted
=============================================================================
