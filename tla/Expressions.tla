------------------------------ MODULE Expressions ------------------------------
(***************************************************************************)
(* Expressions (lib/config: select_parser, expression_functions): how the  *)
(* pieces the grammar finds become a tree, and the three ways a tree is    *)
(* used: evaluated with the values of a request, iterated over by          *)
(* for_each, and read as a stream of values by a declare.                  *)
(*                                                                         *)
(* A JSON value is a pair of its type and what it is.  Numbers are whole,  *)
(* so `/` is left out; a string is a sequence of atoms.  The pieces of an  *)
(* expression alternate <<"value", v>> or <<"group", pieces>> with         *)
(* <<"op", operator>>; a value is <<"json", j>>, <<"template", pieces>> or *)
(* <<"path", start, segments>>, and a path starts with <<"ident", name>>   *)
(* or <<"call", function, arguments>>.  The grammar's `!` makes no piece   *)
(* (its rule is silent) and is left out.                                   *)
(***************************************************************************)
EXTENDS Integers, Sequences, SequencesExt

Null == <<"null", 0>>
Bool(b) == <<"bool", b>>
Num(n) == <<"number", n>>
Str(s) == <<"string", s>>
Arr(s) == <<"array", s>>
Obj(f) == <<"object", f>>
Err == <<"error", 0>>  \* ExecutingExpressionError
Is(v, type) == v[1] = type

-----------------------------------------------------------------------------
(* From the pieces to a tree.                                              *)
Level(op) == CASE op = "||" -> 1 [] op = "&&" -> 2 [] op \in {"==", "!=", ">", ">=", "<", "<="} -> 3
               [] op \in {"+", "-"} -> 4 [] op \in {"*", "%"} -> 5

\* Slip: the first operator of a level is split at.
RECURSIVE ParsedRight(_, _)
ParsedRight(items, level) ==
  LET at == {i \in DOMAIN items : Is(items[i], "op") /\ Level(items[i][2]) = level} IN
  IF at # {}
    THEN LET i == CHOOSE i \in at : \A j \in at : j >= i IN
         <<"infix", items[i][2], ParsedRight(SubSeq(items, 1, i - 1), level), ParsedRight(SubSeq(items, i + 1, Len(items)), level)>>
  ELSE IF Len(items) = 1
    THEN IF Is(items[1], "group") THEN ParsedRight(items[1][2], 0) ELSE items[1][2]
  ELSE ParsedRight(items, level + 1)

\* expression_helper: the last operator of the lowest level is the root.
RECURSIVE Parsed(_, _)
Parsed(items, level) ==
  LET at == {i \in DOMAIN items : Is(items[i], "op") /\ Level(items[i][2]) = level} IN
  IF at # {}
    THEN LET i == CHOOSE i \in at : \A j \in at : j <= i IN
         <<"infix", items[i][2], Parsed(SubSeq(items, 1, i - 1), level), Parsed(SubSeq(items, i + 1, Len(items)), level)>>
  ELSE IF Len(items) = 1
    THEN IF Is(items[1], "group") THEN Parsed(items[1][2], 0) ELSE items[1][2]
  ELSE Parsed(items, level + 1)

Tree(pieces) == Parsed(pieces, 0)

-----------------------------------------------------------------------------
(* Operators.                                                              *)
Truth(v) == CASE v[1] = "bool" -> v[2] [] v[1] = "number" -> v[2] # 0 [] v[1] = "string" -> v[2] # <<>>
              [] OTHER -> v[1] # "null"

\* A number below zero is cast to a u64.
ToJsonNumber(n) == Num(IF n < 0 THEN 0 ELSE n)

Both(l, r) == Is(l, "number") /\ Is(r, "number")
Calculated(op, a, b) == CASE op = "+" -> ToJsonNumber(a + b) [] op = "-" -> ToJsonNumber(a - b)
  [] op = "*" -> ToJsonNumber(a * b) [] op = "%" -> IF b = 0 THEN Null ELSE ToJsonNumber(a % b)
Compared(op, a, b) == CASE op = ">" -> a > b [] op = ">=" -> a >= b [] op = "<" -> a < b [] op = "<=" -> a <= b

\* InfixOperator::evaluate: an error on the right counts only if the value is needed.
Infix(op, l, r) ==
  CASE op = "&&" /\ ~Truth(l) -> Bool(FALSE)
    [] op = "||" /\ Truth(l) -> Bool(TRUE)
    [] Is(r, "error") -> Err
    [] op \in {"&&", "||"} -> Bool(Truth(r))
    [] op = "==" -> Bool(l = r)
    [] op = "!=" -> Bool(l # r)
    [] op \in {">", ">=", "<", "<="} -> Bool(IF Both(l, r) THEN Compared(op, l[2], r[2]) ELSE FALSE)
    [] OTHER -> IF Both(l, r) THEN Calculated(op, l[2], r[2]) ELSE Null

-----------------------------------------------------------------------------
(* Paths.                                                                  *)
\* A segment is a key or a position.  Objects indexed by a number, which the
\* code treats differently if it owns them, are left out.
Key(k) == <<"key", k>>
Nth(n) == <<"nth", n>>
Index(j, segment, no_err) ==
  LET s == segment[2] IN
  CASE Is(j, "object") /\ Is(segment, "key") -> IF s \in DOMAIN j[2] THEN j[2][s] ELSE Null
    [] Is(j, "array") /\ Is(segment, "nth") -> IF s < Len(j[2]) THEN j[2][s + 1] ELSE Null
    [] Is(j, "array") /\ segment = Key("length") -> Num(Len(j[2]))
    [] OTHER -> IF no_err THEN Null ELSE Err

\* index_json, index_json2
Indexed(json, segments, no_err) ==
  FoldLeft(LAMBDA j, segment : IF Is(j, "error") THEN Err ELSE Index(j, segment, no_err), json, segments)

\* The element of for_each a path is about.
ForEachPath(tuple, segments, no_err) ==
  IF segments = <<>> THEN Arr(tuple)
  ELSE LET s == segments[1] IN
       Indexed(IF Is(s, "nth") /\ s[2] < Len(tuple) THEN tuple[s[2] + 1] ELSE Null, Tail(segments), no_err)

-----------------------------------------------------------------------------
(* Functions of values.                                                    *)
FirstError(values) == IF \E i \in DOMAIN values : Is(values[i], "error") THEN Err ELSE Null

EntriesOf(v) ==
  CASE Is(v, "array") -> Arr([i \in DOMAIN v[2] |-> Arr(<<Num(i - 1), v[2][i]>>)])
    [] Is(v, "string") -> Arr([i \in DOMAIN v[2] |-> Arr(<<Num(i - 1), Str(<<v[2][i]>>)>>)])
    [] Is(v, "object") -> Arr(SetToSeq({Arr(<<Str(<<k>>), v[2][k]>>) : k \in DOMAIN v[2]}))
    [] OTHER -> v

Numbers(a, b) == IF a > b THEN [i \in 1..a - b |-> Num(a + 1 - i)] ELSE [i \in 1..b - a |-> Num(a + i - 1)]
RangeOf(a, b) == IF Both(a, b) THEN Arr(Numbers(a[2], b[2])) ELSE Err

\* MinMax: what is no number is passed over.
Better(min, l, r) ==
  IF ~Is(r, "number") THEN l ELSE IF ~Is(l, "number") THEN r
  ELSE IF IF min THEN l[2] < r[2] ELSE l[2] > r[2] THEN l ELSE r
Best(min, values) == FoldLeft(LAMBDA l, r : Better(min, l, r), Null, values)

\* Encode: a text that stands for the value.
Encoded(v) == Str(<<"encoded", v>>)
Text(v) == IF Is(v, "string") THEN v[2] ELSE <<v>>

Apply(f, values) ==
  CASE FirstError(values) = Err -> Err
    [] f = "entries" -> EntriesOf(values[1])
    [] f = "encode" -> Encoded(values[1])
    [] f = "range" -> RangeOf(values[1], values[2])
    [] f \in {"min", "max"} -> Best(f = "min", values)
    [] f = "repeat" -> Arr([i \in 1..values[1][2] |-> Null])

-----------------------------------------------------------------------------
(* Evaluation with the values d of a request; for_each is <<>> where the   *)
(* code has None and <<tuple>> where it has Some.                          *)
RECURSIVE Evaluate(_, _, _, _)
Call(f, args, d, no_err, for_each) ==
  LET Arg(i) == Evaluate(Tree(args[i]), d, no_err, for_each) IN
  CASE f = "if" -> LET first == Arg(1) IN
                   IF Is(first, "error") THEN Err ELSE IF Truth(first) THEN Arg(2) ELSE Arg(3)
    [] f = "collect" -> Arg(1)
    [] OTHER -> Apply(f, [i \in DOMAIN args |-> Arg(i)])

Path(start, segments, d, no_err, for_each) ==
  CASE Is(start, "call") -> LET v == Call(start[2], start[3], d, no_err, for_each) IN Indexed(v, segments, no_err)
    [] Is(start, "ident") /\ start[2] = "for_each" /\ for_each # <<>> -> ForEachPath(for_each[1], segments, no_err)
    [] OTHER -> Indexed(d, <<Key(start[2])>> \o segments, no_err)

Template(pieces, d, no_err, for_each) ==
  LET values == [i \in DOMAIN pieces |-> Evaluate(Tree(pieces[i]), d, no_err, for_each)] IN
  IF FirstError(values) = Err THEN Err ELSE Str(FlattenSeq([i \in DOMAIN values |-> Text(values[i])]))

Evaluate(t, d, no_err, for_each) ==
  CASE Is(t, "infix") -> LET l == Evaluate(t[3], d, no_err, for_each) IN
                         IF Is(l, "error") THEN Err ELSE Infix(t[2], l, Evaluate(t[4], d, no_err, for_each))
    [] Is(t, "json") -> t[2]
    [] Is(t, "template") -> Template(t[2], d, no_err, for_each)
    [] Is(t, "path") -> Path(t[2], t[3], d, no_err, for_each)

-----------------------------------------------------------------------------
(* evaluate_as_iter: the values that for_each takes from an expression.    *)
Elements(v) == IF Is(v, "array") THEN v[2] ELSE <<v>>

\* The items of a call's own iterator.
CallItems(f, v) == IF f \in {"entries", "range", "repeat"} THEN Elements(v) ELSE <<v>>

\* A path's items are spread once more, those of a call that were elements already included.
AsIter(t, d, no_err) ==
  LET v == Evaluate(t, d, no_err, <<>>) IN
  IF Is(t, "path") /\ Is(t[2], "call")
    THEN LET items == CallItems(t[2][2], Call(t[2][2], t[2][3], d, no_err, <<>>)) IN
         FlattenSeq([i \in DOMAIN items |-> Elements(Indexed(items[i], t[3], no_err))])
    ELSE Elements(v)

-----------------------------------------------------------------------------
(* into_stream: a value for a declared name, made of the next values of    *)
(* the providers.  queues holds the values each provider will give, given  *)
(* counts those taken, returns names their providers in order.  What was   *)
(* taken for a value that then fails is not followed: the error ends the   *)
(* test.                                                                   *)
Pulled(v, given, returns) == [value |-> v, given |-> given, returns |-> returns]
Then(p, f(_)) == IF Is(p.value, "error") THEN p ELSE Pulled(f(p.value), p.given, p.returns)

\* A vector made for no values has room for four once one is pushed.
Capacity(n) == IF n = 0 THEN 4 ELSE n

RECURSIVE Pull(_, _, _, _)
\* zip, zip_all: a value of each, in order.
PullAll(trees, queues, given, no_err) ==
  FoldLeft(LAMBDA p, t : IF Is(p.value, "error") THEN p ELSE
             LET q == Pull(t, queues, p.given, no_err) IN
             Pulled(IF Is(q.value, "error") THEN Err ELSE Arr(Append(p.value[2], q.value)), q.given, p.returns \o q.returns),
           Pulled(Arr(<<>>), given, <<>>), trees)

\* Slip: both arms are asked for a value.
PullIfBoth(trees, queues, given, no_err) ==
  LET all == PullAll(trees, queues, given, no_err) IN
  Then(all, LAMBDA v : v[2][IF Truth(v[2][1]) THEN 2 ELSE 3])

\* If: the arm that is not taken is not asked for a value.
PullIf(trees, queues, given, no_err) ==
  LET first == Pull(trees[1], queues, given, no_err) IN
  IF Is(first.value, "error") THEN first
  ELSE LET chosen == Pull(IF Truth(first.value) THEN trees[2] ELSE trees[3], queues, first.given, no_err) IN
       Pulled(chosen.value, chosen.given, first.returns \o chosen.returns)

PullCall(f, args, queues, given, no_err) ==
  LET trees == [i \in DOMAIN args |-> Tree(args[i])] IN
  CASE f = "if" -> PullIf(trees, queues, given, no_err)
    [] f = "collect" -> PullAll([i \in 1..Capacity(trees[2][2][2]) |-> trees[1]], queues, given, no_err)
    [] OTHER -> Then(PullAll(trees, queues, given, no_err), LAMBDA v : Apply(f, v[2]))

PullName(name, segments, queues, given, no_err) ==
  Pulled(Indexed(queues[name][given[name] + 1], segments, no_err), [given EXCEPT ![name] = @ + 1], <<name>>)

Pull(t, queues, given, no_err) ==
  CASE Is(t, "infix") -> Then(PullAll(<<t[3], t[4]>>, queues, given, no_err), LAMBDA v : Infix(t[2], v[2][1], v[2][2]))
    [] Is(t, "json") -> Pulled(t[2], given, <<>>)
    [] Is(t, "template") -> Then(PullAll([i \in DOMAIN t[2] |-> Tree(t[2][i])], queues, given, no_err),
                                 LAMBDA v : Str(FlattenSeq([i \in DOMAIN v[2] |-> Text(v[2][i])])))
    [] Is(t, "path") -> IF Is(t[2], "call") THEN Then(PullCall(t[2][2], t[2][3], queues, given, no_err), LAMBDA v : Indexed(v, t[3], no_err))
                        ELSE PullName(t[2][2], t[3], queues, given, no_err)
===============================================================================
