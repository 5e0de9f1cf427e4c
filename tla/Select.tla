-------------------------------- MODULE Select --------------------------------
(***************************************************************************)
(* A `provides` or a `logs` of an endpoint (config::Select): checked when  *)
(* the config is built, its `where` asked as soon as the head of a         *)
(* response is there (ResponseHandler), its rows handed out one at a time  *)
(* to whoever sends them (BodyHandler, BlockSender); and a `declare`, the  *)
(* values of which are made of the values of the providers it names.       *)
(***************************************************************************)
EXTENDS Expressions, FiniteSets

CONSTANTS
  Selects,   \* [kind |-> "select", select, where, join, no_err, late, d]
  Declares   \* [kind |-> "declare", pieces, queues]

VARIABLES
  job,     \* what is configured
  phase,   \* how far it is
  tuples,  \* the elements of for_each whose rows are still to come
  out,     \* the rows, or the values of the declared name
  given    \* how many values each provider has given

vars == <<job, phase, tuples, out, given>>

-----------------------------------------------------------------------------
(* Select::new                                                             *)
RECURSIVE References(_)
ValueReferences(v) ==
  CASE Is(v, "json") -> FALSE
    [] Is(v, "template") -> \E i \in DOMAIN v[2] : References(v[2][i])
    [] Is(v, "path") -> IF Is(v[2], "ident") THEN v[2][2] = "for_each" ELSE \E i \in DOMAIN v[2][3] : References(v[2][3][i])

\* The pieces read `for_each` (FOR_EACH in get_special).
References(pieces) ==
  \E i \in DOMAIN pieces : \/ pieces[i][1] = "value" /\ ValueReferences(pieces[i][2])
                           \/ pieces[i][1] = "group" /\ References(pieces[i][2])

\* parse_select: a value, an expression, or an array or an object of selects.
RECURSIVE SelectReferences(_)
SelectReferences(s) ==
  CASE s[1] = "value" -> FALSE [] s[1] = "expression" -> References(s[2])
    [] OTHER -> \E i \in DOMAIN s[2] : SelectReferences(s[2][i])

WhereReferences == job.where # <<>> /\ References(job.where[1])

Refused ==
  \/ \E i \in DOMAIN job.join : References(job.join[i])                    \* RecursiveForEachReference
  \/ job.join = <<>> /\ (WhereReferences \/ SelectReferences(job.select))  \* MissingForEach

New ==
  /\ phase = "new" /\ job.kind = "select"
  /\ phase' = IF Refused THEN "refused" ELSE "built"
  /\ UNCHANGED <<job, tuples, out, given>>

-----------------------------------------------------------------------------
(* ResponseHandler::handle: which outgoing values a response may have.     *)
Where(for_each) == IF job.where = <<>> THEN Bool(TRUE) ELSE Evaluate(Tree(job.where[1]), job.d, job.no_err, for_each)

\* An endpoint that reads the body or the stats puts every `where` off.
Precheck ==
  /\ phase = "built"
  /\ phase' = IF job.late THEN "included"
              ELSE LET v == Where(<<>>) IN
                   IF Is(v, "error") THEN "failed" ELSE IF Truth(v) THEN "included" ELSE "excluded"
  /\ UNCHANGED <<job, tuples, out, given>>

-----------------------------------------------------------------------------
(* Select::iter                                                            *)
RECURSIVE EvaluateSelect(_, _)
EvaluateSelect(s, for_each) ==
  CASE s[1] = "value" -> s[2]
    [] s[1] = "expression" -> Evaluate(Tree(s[2]), job.d, job.no_err, for_each)
    [] OTHER -> LET parts == [i \in DOMAIN s[2] |-> EvaluateSelect(s[2][i], for_each)] IN
                IF \E i \in DOMAIN parts : Is(parts[i], "error") THEN Err ELSE <<s[1], parts>>

\* multi_cartesian_product: the last for_each varies fastest.
Product ==
  FoldLeft(LAMBDA ts, p : LET items == AsIter(Tree(p), job.d, job.no_err) IN
             FlattenSeq([i \in DOMAIN ts |-> [j \in DOMAIN items |-> Append(ts[i], items[j])]]), << <<>> >>, job.join)

\* as_iter: a `where` that does not read for_each is asked once, for all rows.
Start ==
  /\ phase = "included"
  /\ LET v == IF WhereReferences THEN Bool(TRUE) ELSE Where(<<>>) IN
     /\ phase' = IF ~Is(v, "error") /\ Truth(v) THEN "iterating" ELSE "ended"
     /\ out' = IF Is(v, "error") THEN <<Err>> ELSE <<>>
     /\ tuples' = IF ~Is(v, "error") /\ Truth(v) THEN Product ELSE <<>>
  /\ UNCHANGED <<job, given>>

\* The elements are looked at only if the select reads them.
ForEach(t) == IF SelectReferences(job.select) THEN <<t>> ELSE <<>>

Row(t) ==
  IF SelectReferences(job.select) /\ FirstError(t) = Err THEN Err
  ELSE IF ~WhereReferences THEN EvaluateSelect(job.select, ForEach(t))
  ELSE LET w == Where(ForEach(t)) IN
       IF Is(w, "error") THEN Err ELSE IF Truth(w) THEN EvaluateSelect(job.select, ForEach(t)) ELSE <<"no row", 0>>

\* The next row; an error is the last one a sender asks for.
NextRow ==
  /\ phase = "iterating" /\ tuples # <<>>
  /\ LET r == Row(Head(tuples)) IN
     /\ out' = IF Is(r, "no row") THEN out ELSE Append(out, r)
     /\ phase' = IF Is(r, "error") THEN "ended" ELSE phase
  /\ tuples' = Tail(tuples)
  /\ UNCHANGED <<job, given>>

LastRow ==
  /\ phase = "iterating" /\ tuples = <<>>
  /\ phase' = "ended"
  /\ UNCHANGED <<job, tuples, out, given>>

-----------------------------------------------------------------------------
(* A declared name.                                                        *)
MaxDeclared == 2  \* values taken of a declared name

Declare ==
  /\ job.kind = "declare" /\ phase = "new" /\ Len(out) < MaxDeclared
  /\ LET p == Pull(Tree(job.pieces), job.queues, given, FALSE) IN
     /\ out' = Append(out, [value |-> p.value, from |-> given, returns |-> p.returns])
     /\ given' = p.given
     /\ phase' = IF Is(p.value, "error") THEN "failed" ELSE phase
  /\ UNCHANGED <<job, tuples>>

Init ==
  /\ job \in Selects \cup Declares
  /\ phase = "new"
  /\ tuples = <<>> /\ out = <<>>
  /\ given = IF job.kind = "declare" THEN [n \in DOMAIN job.queues |-> 0] ELSE <<>>

Next == New \/ Precheck \/ Start \/ NextRow \/ LastRow \/ Declare

Spec == Init /\ [][Next]_vars

-----------------------------------------------------------------------------
(* What the guide promises, without trees: an expression is reduced, its   *)
(* leftmost operator of the highest precedence first; for_each is a value  *)
(* like any other.  `-` subtracts, whatever the sign of the difference.    *)
Number(op, a, b) == CASE op = "+" -> Num(a + b) [] op = "-" -> Num(a - b) [] op = "*" -> Num(a * b)
                      [] op = "%" -> IF b = 0 THEN Null ELSE Num(a % b)
Operation(op, l, r) == IF op \in {"+", "-", "*", "%"} /\ Both(l, r) THEN Number(op, l[2], r[2]) ELSE Infix(op, l, r)

Result(v) == <<"result", v>>
RECURSIVE Reduced(_)
Reduced(items) ==
  IF Len(items) = 1 THEN items[1][2]
  ELSE LET ops == {i \in DOMAIN items : Is(items[i], "op")}
           i == CHOOSE i \in ops : \A j \in ops \ {i} : LET a == Level(items[i][2]) b == Level(items[j][2]) IN a > b \/ (a = b /\ i < j)
           l == items[i - 1][2]
       IN Reduced(SubSeq(items, 1, i - 2)
            \o <<Result(IF Is(l, "error") THEN Err ELSE Operation(items[i][2], l, items[i + 1][2]))>>
            \o SubSeq(items, i + 2, Len(items)))

RECURSIVE Means(_, _, _)
MeansCall(f, args, d, no_err) ==
  CASE f = "if" -> LET c == Means(args[1], d, no_err) IN
                   IF Is(c, "error") THEN Err ELSE Means(args[IF Truth(c) THEN 2 ELSE 3], d, no_err)
    [] f = "collect" -> Means(args[1], d, no_err)
    [] OTHER -> Apply(f, [i \in DOMAIN args |-> Means(args[i], d, no_err)])
MeansValue(v, d, no_err) ==
  CASE Is(v, "json") -> v[2]
    [] Is(v, "template") -> LET parts == [i \in DOMAIN v[2] |-> Means(v[2][i], d, no_err)] IN
                            IF FirstError(parts) = Err THEN Err ELSE Str(FlattenSeq([i \in DOMAIN parts |-> Text(parts[i])]))
    [] Is(v, "path") -> IF Is(v[2], "ident") THEN Indexed(d, <<Key(v[2][2])>> \o v[3], no_err)
                        ELSE Indexed(MeansCall(v[2][2], v[2][3], d, no_err), v[3], no_err)
Means(pieces, d, no_err) ==
  Reduced([i \in DOMAIN pieces |->
    CASE Is(pieces[i], "op") -> pieces[i]
      [] Is(pieces[i], "group") -> Result(Means(pieces[i][2], d, no_err))
      [] Is(pieces[i], "value") -> Result(MeansValue(pieces[i][2], d, no_err))])

RECURSIVE MeansSelect(_, _)
MeansSelect(s, d) ==
  CASE s[1] = "value" -> s[2] [] s[1] = "expression" -> Means(s[2], d, job.no_err)
    [] OTHER -> LET parts == [i \in DOMAIN s[2] |-> MeansSelect(s[2][i], d)] IN
                IF \E i \in DOMAIN parts : Is(parts[i], "error") THEN Err ELSE <<s[1], parts>>

\* Row n, from 0, of the cartesian product.
Lists == [i \in DOMAIN job.join |-> Elements(Means(job.join[i], job.d, job.no_err))]
Sizes(ls) == FoldLeft(LAMBDA n, l : n * Len(l), 1, ls)
Tuple(n, ls) == [i \in DOMAIN ls |-> ls[i][((n \div Sizes(SubSeq(ls, i + 1, Len(ls)))) % Len(ls[i])) + 1]]
Data(t) == IF job.join = <<>> THEN job.d ELSE Obj([n \in DOMAIN job.d[2] \cup {"for_each"} |-> IF n = "for_each" THEN Arr(t) ELSE job.d[2][n]])

MeantRow(t) ==
  LET w == IF job.where = <<>> THEN Bool(TRUE) ELSE Means(job.where[1], Data(t), job.no_err) IN
  CASE Is(w, "error") \/ FirstError(t) = Err -> <<Err>>
    [] ~Is(w, "error") /\ ~Truth(w) -> <<>>
    [] OTHER -> <<MeansSelect(job.select, Data(t))>>

UpToError(rows) ==
  LET bad == {i \in DOMAIN rows : Is(rows[i], "error")} IN
  IF bad = {} THEN rows ELSE SubSeq(rows, 1, CHOOSE i \in bad : \A j \in bad : i <= j)
\* A `where` that fails for the response fails even if there is no row.
MeantRows ==
  IF job.where # <<>> /\ ~WhereReferences /\ Is(Means(job.where[1], job.d, job.no_err), "error") THEN <<Err>>
  ELSE LET ls == Lists IN UpToError(FlattenSeq([n \in 1..Sizes(ls) |-> MeantRow(Tuple(n - 1, ls))]))

\* The rows a provider or a logger is sent are those the guide describes, in
\* order and up to the first that fails, whether the `where` was asked before
\* the body was read, once for all rows, or for each of them: the precedence
\* of operators, the cartesian product and what a row sees of for_each
\* (select_parser.rs:1453, response_handler.rs:45; guide endpoints-section.md:188).
RowsAsWritten ==
  /\ phase = "ended" => out = MeantRows
  /\ phase = "excluded" => MeantRows = <<>>
  /\ phase = "failed" /\ job.kind = "select" => \E i \in DOMAIN MeantRows : Is(MeantRows[i], "error")

\* How many values of a provider an expression reads: one for each time its
\* name is met, in the arm an `if` takes and for each value of a `collect`.
RECURSIVE Reads(_, _, _)
ValueReads(v, n, d) ==
  LET Sum(args) == FoldLeft(LAMBDA a, p : a + Reads(p, n, d), 0, args) IN
  CASE Is(v, "json") -> 0
    [] Is(v, "template") -> Sum(v[2])
    [] Is(v, "path") ->
         IF Is(v[2], "ident") THEN IF v[2][2] = n THEN 1 ELSE 0
         ELSE CASE v[2][2] = "if" -> Sum(<<v[2][3][1], v[2][3][IF Truth(Means(v[2][3][1], d, FALSE)) THEN 2 ELSE 3]>>)
                [] v[2][2] = "collect" -> v[2][3][2][1][2][2][2] * Reads(v[2][3][1], n, d)
                [] OTHER -> Sum(v[2][3])
Reads(pieces, n, d) ==
  FoldLeft(LAMBDA a, p : a + CASE p[1] = "op" -> 0 [] p[1] = "group" -> Reads(p[2], n, d) [] p[1] = "value" -> ValueReads(p[2], n, d),
           0, pieces)

\* A value of a declared name takes as many values of a provider as the
\* expression reads, in the arm an `if` takes and no other, a `collect` as many
\* as it says and in the order they were given; with providers that repeat one
\* value it is the value the expression has for a request
\* (expression_functions.rs:94, :566; guide endpoints-section.md:132).
FirstOfEach == Obj([n \in DOMAIN job.queues |-> job.queues[n][1]])
Repeats == \A n \in DOMAIN job.queues : \A k \in DOMAIN job.queues[n] : job.queues[n][k] = job.queues[n][1]
Collects(pieces) == Len(pieces) = 1 /\ pieces[1][2][1] = "path" /\ pieces[1][2][2][2] = "collect"
DeclaredAsWritten ==
  job.kind = "declare" => \A i \in DOMAIN out :
    LET o == out[i] IN
    /\ ~Is(o.value, "error") => \A n \in DOMAIN job.queues :
         Cardinality({k \in DOMAIN o.returns : o.returns[k] = n}) = Reads(job.pieces, n, FirstOfEach)
    /\ Repeats /\ ~Collects(job.pieces) => o.value = Means(job.pieces, FirstOfEach, FALSE)
    /\ Collects(job.pieces) => LET n == job.pieces[1][2][2][3][1][1][2][2][2] IN
         o.value = Arr(SubSeq(job.queues[n], o.from[n] + 1, o.from[n] + Len(o.returns)))
===============================================================================
