----------------------------- MODULE ConfigYaml -----------------------------
(***************************************************************************)
(* The configuration file, read: lib/config/src/lib.rs:50-2130 and the     *)
(* parsers of lib/config/src/from_yaml.rs.  Every struct of the file has a *)
(* hand-written FromYaml with the same control: a loop over events in      *)
(* which a scalar names a field, whose parser is then called on the same   *)
(* decoder.  Here the loop is written once (Fields) and a struct is its    *)
(* table: the type of each field and whether it must be there.             *)
(*                                                                         *)
(* A parser is an operator from the events that are left to a result: the  *)
(* value and the events it leaves, an error, or a panic (the code's        *)
(* `unreachable!').  Error values carry no detail: the kind, the marker    *)
(* and the field name of an error message are left out.                    *)
(***************************************************************************)
EXTENDS YamlDecoder, FiniteSets

-----------------------------------------------------------------------------
(* Values.  One shape for all of them: what it is, its text, its parts.    *)
Val(is, text, of) == [is |-> is, text |-> text, of |-> of]
None == Val("none", "", <<>>)
True == Val("bool", "true", <<>>)
False == Val("bool", "false", <<>>)
JsonNull == Val("null", "", <<>>)
Empty(is) == Val(is, "", <<>>)

(* Types.                                                                  *)
Scalar(of) == [k |-> "scalar", of |-> of]
List(of) == [k |-> "list", of |-> of]          \* Vec<T>
Pairs(of) == [k |-> "pairs", of |-> of]        \* TupleVec<String, T>
Map(of) == [k |-> "map", of |-> of]            \* BTreeMap<String, T>
Nullable(of) == [k |-> "nullable", of |-> of]
Json == [k |-> "json", of |-> "any"]
Struct(fields) == [k |-> "struct", of |-> fields]
Choice(options) == [k |-> "choice", of |-> options]

(* Fields: needed, with the value None, or with a default.                 *)
Must(t) == [type |-> t, needed |-> TRUE, default |-> None]
May(t) == [type |-> t, needed |-> FALSE, default |-> None]
Default(t, v) == [type |-> t, needed |-> FALSE, default |-> v]

Bool == Scalar("bool")
Str == Scalar("string")
Flag(v) == Default(Bool, v)

-----------------------------------------------------------------------------
(* Scalars.  as_x, as_bool: only plain ones; the texts FromStr accepts.    *)
AsX == [
  bool |-> {"true", "false"},
  i64 |-> {"-7", "0", "7", "65536"},
  usize |-> {"0", "7", "65536"},
  nonzero_usize |-> {"7", "65536"},
  nonzero_u16 |-> {"7"},
  char |-> {"7", "0"} ]

(* as_str, into_string: whatever the style.                                *)
AsStr == [
  method |-> {"POST", "GET", "PUT", "HEAD", "DELETE", "OPTIONS", "CONNECT", "PATCH", "TRACE"},
  format |-> {"csv", "json", "line"},
  send |-> {"block", "force", "if_not_full"},
  log_level |-> {"off", "error", "warn", "info", "debug", "trace"} ]

Durations == {"60s", "90s"}

IsBool(sc) == sc.plain /\ sc.text \in AsX.bool

\* Limit: a number, or auto.
LimitOf(sc) ==
  IF sc.plain /\ sc.text \in AsX.usize THEN {Val("static", sc.text, <<>>)}
  ELSE IF sc.text = "auto" THEN {Empty("dynamic")}
  ELSE {}

\* CsvHeader: a bool, or any other text.
HeaderOf(sc) == {IF IsBool(sc) THEN Val("bool", sc.text, <<>>) ELSE Val("string", sc.text, <<>>)}

\* log_provider_stats: a bool in any style, or a duration, which means true.
StatsOf(sc) == IF sc.text \in AsX.bool THEN {Val("bool", sc.text, <<>>)}
               ELSE IF sc.text \in Durations THEN {True} ELSE {}

\* get_value: the JSON value of a scalar.
JsonScalar(sc) ==
  CASE sc.plain /\ sc.text \in {"null", "NaN"} -> JsonNull
    [] IsBool(sc) -> Val("bool", sc.text, <<>>)
    [] sc.plain /\ sc.text \in AsX.i64 -> Val("number", sc.text, <<>>)
    [] OTHER -> Val("string", sc.text, <<>>)

\* The value of a scalar of kind k: a set with it, or with nothing when it does not have one.
ValueOf(k, sc) ==
  CASE k \in DOMAIN AsX -> {Val(k, t, <<>>) : t \in {x \in AsX[k] : sc.plain /\ x = sc.text}}
    [] k \in DOMAIN AsStr -> {Val(k, t, <<>>) : t \in {x \in AsStr[k] : x = sc.text}}
    [] k = "string" -> {Val("string", sc.text, <<>>)}
    [] k = "limit" -> LimitOf(sc)
    [] k = "header" -> HeaderOf(sc)
    [] k = "stats" -> StatsOf(sc)

\* A tag is its handle and its name, or <<>> for none.
\* Nullable: a plain null without a tag, or anything tagged !!null.
IsNull(sc) == sc.tag = <<"!!", "null">> \/ (sc.plain /\ sc.tag = <<>> /\ sc.text = "null")
\* Body: the handle is not looked at.
TaggedFile(sc) == sc.tag # <<>> /\ sc.tag[2] = "file"

-----------------------------------------------------------------------------
(* The structs of the file.                                                *)
Linear == Struct([from |-> May(Str), to |-> Must(Str), over |-> Must(Str)])

LoadPatternPiece == Choice([linear |-> Linear])
LoadPattern == List(LoadPatternPiece)

ListWithOptions == Struct([random |-> Flag(False), repeat |-> Flag(True),
                           values |-> Must(List(Json)), unique |-> Flag(False)])

\* Told apart by the first event.
ListProvider == [k |-> "list_provider", of |-> [options |-> ListWithOptions, default |-> List(Json)]]

RangeProvider == Struct([
  start |-> Default(Scalar("i64"), Val("i64", "0", <<>>)),
  end |-> Default(Scalar("i64"), Val("i64", "MAX", <<>>)),
  step |-> Default(Scalar("nonzero_u16"), Val("nonzero_u16", "1", <<>>)),
  repeat |-> Flag(False), unique |-> Flag(False)])

\* What a struct is when none of its fields is written.
Defaults(t) == Val("struct", "", [f \in DOMAIN t.of |-> t.of[f].default])

CsvSettings == Struct([
  comment |-> May(Scalar("char")), delimiter |-> May(Scalar("char")), double_quote |-> May(Bool),
  escape |-> May(Scalar("char")), headers |-> Default(Scalar("header"), False),
  terminator |-> May(Scalar("char")), quote |-> May(Scalar("char"))])

Buffer == Default(Scalar("limit"), Empty("dynamic"))
AutoReturn == May(Scalar("send"))

FileProvider == Struct([
  csv |-> Default(CsvSettings, Defaults(CsvSettings)), auto_return |-> AutoReturn, buffer |-> Buffer,
  format |-> Default(Scalar("format"), Val("format", "line", <<>>)), path |-> Must(Str),
  random |-> Flag(False), repeat |-> Flag(False), unique |-> Flag(False)])

ResponseProvider == Struct([auto_return |-> AutoReturn, buffer |-> Buffer, unique |-> Flag(False)])

Provider == [k |-> "provider", of |-> [file |-> FileProvider, range |-> RangeProvider,
                                       response |-> ResponseProvider, list |-> ListProvider]]

ForEach == Default(List(Str), Empty("list"))

Logger == Struct([
  select |-> May(Json), for_each |-> ForEach, where |-> May(Str), to |-> Must(Str),
  pretty |-> Flag(False), limit |-> May(Scalar("usize")), kill |-> Flag(False)])

Logs == Struct([select |-> Must(Json), for_each |-> ForEach, where |-> May(Str)])

Provides == Struct([send |-> May(Scalar("send")), select |-> Must(Json),
                    for_each |-> ForEach, where |-> May(Str)])

PieceBody == [k |-> "body", of |-> [file |-> Str]]

BodyPiece == Struct([headers |-> Default(Pairs(Str), Empty("pairs")), body |-> Must(PieceBody)])

Body == [k |-> "body", of |-> [file |-> Str, multipart |-> Pairs(BodyPiece)]]

Endpoint == Struct([
  declare |-> Default(Map(Str), Empty("map")),
  headers |-> Default(Pairs(Nullable(Str)), Empty("pairs")),
  body |-> May(Body),
  load_pattern |-> May(LoadPattern),
  method |-> Default(Scalar("method"), Val("method", "GET", <<>>)),
  on_demand |-> Flag(False),
  peak_load |-> May(Str),
  tags |-> Default(Map(Str), Empty("map")),
  url |-> Must(Str),
  provides |-> Default(Pairs(Provides), Empty("pairs")),
  logs |-> Default(Pairs(Logs), Empty("pairs")),
  max_parallel_requests |-> May(Scalar("nonzero_usize")),
  no_auto_returns |-> Flag(False),
  request_timeout |-> May(Str)])

Seconds(t) == Default(Str, Val("string", t, <<>>))

ClientConfig == Struct([request_timeout |-> Seconds("60s"), keepalive |-> Seconds("90s"),
                        headers |-> Default(Pairs(Str), Empty("pairs"))])

GeneralConfig == Struct([
  auto_buffer_start_size |-> Default(Scalar("usize"), Val("usize", "5", <<>>)),
  bucket_size |-> Seconds("60s"),
  log_provider_stats |-> Default(Scalar("stats"), True),
  watch_transition_time |-> May(Str),
  log_level |-> May(Scalar("log_level"))])

Config == Struct([client |-> Default(ClientConfig, Defaults(ClientConfig)),
                  general |-> Default(GeneralConfig, Defaults(GeneralConfig))])

LoadTest == Struct([
  config |-> Default(Config, Defaults(Config)),
  endpoints |-> Must(List(Endpoint)),
  load_pattern |-> May(LoadPattern),
  providers |-> Default(Map(Provider), Empty("map")),
  loggers |-> Default(Map(Logger), Empty("map")),
  vars |-> Default(Map(Json), Empty("map"))])

-----------------------------------------------------------------------------
(* The parsers.                                                            *)
Ok(v, rest) == [st |-> "ok", val |-> v, rest |-> rest]
Error == [st |-> "error", val |-> None, rest |-> <<>>]
Panic == [st |-> "panic", val |-> None, rest |-> <<>>]

\* `?': go on with the value and the events that are left, or return the error.
Then(r, F(_, _)) == IF r.st = "ok" THEN F(r.val, r.rest) ELSE r

\* The next event; after the last one the decoder gives an error.
Next1(es, F(_, _)) == IF es = <<>> THEN Error ELSE F(Head(es), Tail(es))

ScalarOf(k, e, rest) ==
  LET v == ValueOf(k, e.sc) IN
  IF e.ev = "Scalar" /\ v # {} THEN Ok(CHOOSE x \in v : TRUE, rest) ELSE Error

Put(f, k, v) == [x \in (DOMAIN f) \cup {k} |-> IF x = k THEN v ELSE f[x]]

\* json::Value: one event, or a collection up to its end.
RECURSIVE ParseJson(_), JsonArray(_, _), JsonObject(_, _)
ParseJson(es) == Next1(es, LAMBDA e, rest :
  CASE e.ev = "MappingStart" -> JsonObject(rest, <<>>)
    [] e.ev = "SequenceStart" -> JsonArray(rest, <<>>)
    [] e.ev \in Ends -> Ok(JsonNull, rest)
    [] e.ev = "Scalar" -> Ok(JsonScalar(e.sc), rest))

JsonArray(es, a) == Next1(es, LAMBDA e, rest :
  CASE e.ev \in Starts -> Then(ParseJson(es), LAMBDA v, left : JsonArray(left, Append(a, v)))
    [] e.ev \in Ends -> Ok(Val("array", "", a), rest)
    [] e.ev = "Scalar" -> JsonArray(rest, Append(a, JsonScalar(e.sc))))

JsonObject(es, o) == Next1(es, LAMBDA e, rest :
  CASE e.ev \in Starts -> Error
    [] e.ev \in Ends -> Ok(Val("object", "", o), rest)
    [] e.ev = "Scalar" -> Then(ParseJson(rest), LAMBDA v, left : JsonObject(left, Put(o, e.sc.text, v))))

\* What a collection starts with (insert compares the first event of the parser with it).
Opening(t) == IF t.k = "list" THEN "SequenceStart" ELSE "MappingStart"

Insert(t, first, c, key, v) ==
  IF first # Opening(t) THEN {}
  ELSE {CASE t.k = "list" -> Append(c, v)
          [] t.k = "pairs" -> Append(c, Val("pair", key, <<v>>))
          [] t.k = "map" -> Put(c, key, v)}

\* A struct that was read: a needed field that is missing is an error.
Finished(t, got, rest) ==
  IF \E f \in DOMAIN t.of : t.of[f].needed /\ f \notin DOMAIN got THEN Error
  ELSE Ok(Val("struct", "", [f \in DOMAIN t.of |->
                               IF f \in DOMAIN got THEN got[f] ELSE t.of[f].default]), rest)

RECURSIVE Parse(_, _), Fields(_, _, _, _), Elements(_, _, _, _)

\* The loop of every struct.  saw_opening: the MappingStart was read.
Fields(t, es, saw_opening, got) == Next1(es, LAMBDA e, rest :
  CASE e.ev = "MappingStart" -> IF saw_opening THEN Error ELSE Fields(t, rest, TRUE, got)
    [] e.ev = "SequenceStart" -> Error
    [] e.ev = "MappingEnd" -> Finished(t, got, rest)
    [] e.ev = "SequenceEnd" -> Panic
    [] e.ev = "Scalar" ->
         IF e.sc.text \in DOMAIN t.of
         THEN Then(Parse(t.of[e.sc.text].type, rest),
                   LAMBDA v, left : Fields(t, left, saw_opening, Put(got, e.sc.text, v)))
         ELSE Error)

\* The loop of every collection.  first: the first event it saw, "" in the first round.  In that round
\* the start of the collection is consumed and an element is parsed at once.
Elements(t, es, first, c) == Next1(es, LAMBDA e, rest :
  IF e.ev \in Ends THEN Ok(Val(t.k, "", c), rest)
  ELSE LET opening == IF first = "" THEN e.ev ELSE first
           left == IF first = "" /\ e.ev \in Starts THEN rest ELSE es
           Added(key, v, more) ==
             LET c2 == Insert(t, opening, c, key, v) IN
             IF c2 = {} THEN Error ELSE Elements(t, more, opening, CHOOSE x \in c2 : TRUE)
       IN IF t.k = "list" THEN Then(Parse(t.of, left), LAMBDA v, more : Added("", v, more))
          ELSE Then(Parse(Str, left), LAMBDA key, more :
                 Then(Parse(t.of, more), LAMBDA v, more2 : Added(key.text, v, more2))))

\* One key, its value, and the end of the mapping.
Option(t, es) == Next1(es, LAMBDA e, rest :
  IF e.ev = "Scalar" /\ e.sc.text \in DOMAIN t.of
  THEN Then(Parse(t.of[e.sc.text], rest), LAMBDA v, left :
         Next1(left, LAMBDA e2, left2 :
           IF e2.ev = "MappingEnd" THEN Ok(Val("choice", e.sc.text, <<v>>), left2) ELSE Error))
  ELSE Error)

ParseChoice(t, es) == Next1(es, LAMBDA e, rest : IF e.ev = "MappingStart" THEN Option(t, rest) ELSE Error)

\* ProviderPreProcessed: the start of the mapping is read at most once, by the loop of a struct.
ParseProvider(t, es) == Next1(es, LAMBDA e, rest :
  CASE e.ev = "MappingStart" ->
         Next1(rest, LAMBDA e2, rest2 : IF e2.ev = "SequenceEnd" THEN Panic ELSE Option(t, rest))
    [] e.ev = "Scalar" -> Option(t, es)
    [] e.ev = "SequenceEnd" -> Panic
    [] OTHER -> Error)

\* Body and BodyMultipartPieceBody: a scalar, or a mapping with one key.  A sequence is taken for the
\* pieces of a multipart body, and no sequence can be.
ParseBody(t, es) == Next1(es, LAMBDA e, rest :
  CASE e.ev = "Scalar" -> Ok(Val("choice", IF TaggedFile(e.sc) THEN "file" ELSE "string",
                                 <<Val("string", e.sc.text, <<>>)>>), rest)
    [] e.ev = "MappingStart" -> Option(t, rest)
    [] e.ev = "SequenceStart" /\ "multipart" \in DOMAIN t.of -> Parse(t.of.multipart, es)
    [] OTHER -> Error)

ParseList(t, es) == Next1(es, LAMBDA e, rest :
  LET Read(o) == Then(Parse(t.of[o], es), LAMBDA v, left : Ok(Val("choice", o, <<v>>), left)) IN
  CASE e.ev = "SequenceStart" -> Read("default")
    [] e.ev = "MappingStart" -> Read("options")
    [] OTHER -> Error)

ParseNullable(t, es) == Next1(es, LAMBDA e, rest :
  IF e.ev = "Scalar" /\ IsNull(e.sc) THEN Ok(JsonNull, rest) ELSE Parse(t.of, es))

Parse(t, es) ==
  CASE t.k = "scalar" -> Next1(es, LAMBDA e, rest : ScalarOf(t.of, e, rest))
    [] t.k = "json" -> ParseJson(es)
    [] t.k = "nullable" -> ParseNullable(t, es)
    [] t.k \in {"list", "pairs", "map"} -> Elements(t, es, "", <<>>)
    [] t.k = "struct" -> Fields(t, es, FALSE, <<>>)
    [] t.k = "choice" -> ParseChoice(t, es)
    [] t.k = "provider" -> ParseProvider(t, es)
    [] t.k = "list_provider" -> ParseList(t, es)
    [] t.k = "body" -> ParseBody(t, es)

\* LoadTest::from_config reads one LoadTestPreProcessed from the decoder.
Parsed == Parse(LoadTest, out)
=============================================================================
