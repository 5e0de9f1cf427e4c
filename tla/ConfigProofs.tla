------------------------------ MODULE ConfigProofs ------------------------------
(***************************************************************************)
(* What holds of the configuration for all files: of the decoder of its    *)
(* YAML (YamlDecoder), that an alias replays events that were recorded     *)
(* before it; of the load test that is made of it (LoadTestConfig), that   *)
(* every endpoint has a pace, and that every name is there when it is      *)
(* looked up.                                                              *)
(***************************************************************************)
EXTENDS YamlDecoder, LoadTestConfig, SequenceTheorems, TLAPS

DecoderSpec == DecoderInit /\ [][Decode]_decoderVars

-----------------------------------------------------------------------------
LEMMA AppendHas ==
  ASSUME NEW S, NEW s \in Seq(S), NEW e \in S
  PROVE  /\ Append(s, e) \in Seq(S) /\ Len(s) \in Nat /\ Len(Append(s, e)) = Len(s) + 1
         /\ \A i \in 1 .. Len(s) + 1 : Append(s, e)[i] = IF i \in 1 .. Len(s) THEN s[i] ELSE e
OBVIOUS

LEMMA ElementIs ==
  ASSUME NEW S, NEW s \in Seq(S), NEW i \in 1 .. Len(s)
  PROVE  s[i] \in S
OBVIOUS

LEMMA TailIs ==
  ASSUME NEW S, NEW s \in Seq(S), s # <<>>
  PROVE  Tail(s) \in Seq(S) /\ Head(s) \in S
OBVIOUS

LEMMA FrontIs ==
  ASSUME NEW S, NEW s \in Seq(S), s # <<>>
  PROVE  /\ Len(s) \in Nat \ {0} /\ s[Len(s)] \in S
         /\ SubSeq(s, 1, Len(s) - 1) \in Seq(S)
         /\ Len(SubSeq(s, 1, Len(s) - 1)) = Len(s) - 1
         /\ \A i \in 1 .. Len(s) - 1 : SubSeq(s, 1, Len(s) - 1)[i] = s[i]
<1>1. Len(s) \in Nat \ {0} /\ \A i \in 1 .. Len(s) : s[i] \in S
  OBVIOUS
<1>2. s[Len(s)] \in S /\ \A i \in 1 .. Len(s) - 1 : s[i] \in S
  BY <1>1
<1>3. /\ SubSeq(s, 1, Len(s) - 1) \in Seq(S)
      /\ Len(SubSeq(s, 1, Len(s) - 1)) = IF 1 <= Len(s) - 1 THEN (Len(s) - 1) - 1 + 1 ELSE 0
      /\ \A i \in 1 .. (Len(s) - 1) - 1 + 1 : SubSeq(s, 1, Len(s) - 1)[i] = s[1 + i - 1]
  BY <1>1, <1>2, SubSeqProperties
<1>4. (Len(s) - 1) - 1 + 1 = Len(s) - 1 /\ \A i \in 1 .. Len(s) - 1 : 1 + i - 1 = i
  BY <1>1
<1>. QED  BY <1>1, <1>2, <1>3, <1>4

\* What the parser gives is recorded and given on as it is.
LEMMA PulledIs ==
  ASSUME DecoderTypeOK, input # <<>>
  PROVE  /\ Tail(input) \in Seq(ParserEvent)
         /\ Pulled \in ParserEvent /\ Pulled.id \in Nat
         /\ Pulled.ev # "Alias" => EventOf(Pulled) \in YamlEvent /\ EventEntry(EventOf(Pulled)) \in AliasOrEvent
<1>1. Tail(input) \in Seq(ParserEvent) /\ Pulled \in ParserEvent
  BY TailIs DEF DecoderTypeOK, Pulled
<1>2. Pulled.ev # "Alias" => EventOf(Pulled) \in YamlEvent
  BY <1>1 DEF ParserEvent, EventOf, YamlEvent
<1>3. Pulled.ev # "Alias" => EventEntry(EventOf(Pulled)) \in AliasOrEvent
  BY <1>2 DEF EventEntry, AliasOrEvent, EventRange, NoRange
<1>. QED  BY <1>1, <1>2, <1>3 DEF ParserEvent

LEMMA AliasEntryIs ==
  ASSUME NEW r \in EventRange
  PROVE  AliasEntry(r) \in AliasOrEvent
BY DEF AliasEntry, AliasOrEvent, YamlEvent

\* A range that is replayed moves on within its bounds.
LEMMA AdvancedIs ==
  ASSUME DecoderTypeOK, replaying_alias # <<>>
  PROVE  /\ Depth \in Nat \ {0} /\ Innermost \in EventRange
         /\ Innermost.start \in Nat /\ Innermost.end \in Nat
         /\ Advanced \in Seq(EventRange) /\ Len(Advanced) = Depth
         /\ \A i \in 1 .. Depth : Advanced[i].end = replaying_alias[i].end
<1>1. /\ Depth \in Nat \ {0} /\ Innermost \in EventRange
      /\ replaying_alias \in Seq(EventRange)
  BY FrontIs DEF DecoderTypeOK, Depth, Innermost
<1>2. Innermost.start \in Nat /\ Innermost.end \in Nat
  BY <1>1 DEF EventRange
<1>3. [Innermost EXCEPT !.start = @ + 1] \in EventRange
      /\ [Innermost EXCEPT !.start = @ + 1].end = Innermost.end
  BY <1>1, <1>2 DEF EventRange
<1>4. Advanced = [replaying_alias EXCEPT ![Depth] = [Innermost EXCEPT !.start = @ + 1]]
  BY DEF Advanced, Innermost
<1>5. Advanced \in Seq(EventRange) /\ Len(Advanced) = Depth
  BY <1>1, <1>3, <1>4 DEF Depth
<1>6. ASSUME NEW i \in 1 .. Depth PROVE Advanced[i].end = replaying_alias[i].end
  BY <1>1, <1>3, <1>4 DEF Depth, Innermost
<1>. QED  BY <1>1, <1>2, <1>5, <1>6

-----------------------------------------------------------------------------
(***************************************************************************)
(* The invariant is inductive.  The ranges that are replayed nest: each    *)
(* ends one further back than the one that it is replayed in.              *)
(***************************************************************************)
Nested == \A i \in 1 .. Depth : replaying_alias[i].end + (i - 1) <= Len(aliased_events)

LEMMA InitForward == DecoderInit => NothingForward /\ Nested
<1>. SUFFICES ASSUME DecoderInit PROVE NothingForward /\ Nested
  OBVIOUS
<1>1. input \in Seq(ParserEvent)
  BY InputsAssumption DEF DecoderInit
<1>2. /\ aliased_events = <<>> /\ DOMAIN alias_map = {} /\ reference_stack = <<>>
      /\ replaying_alias = <<>> /\ out = <<>>
  BY DEF DecoderInit
<1>. QED  BY <1>1, <1>2 DEF NothingForward, DecoderTypeOK, Nested, Depth

\* Replaying records nothing.
LEMMA ReplayForward ==
  ASSUME NothingForward, Nested, ReplayEvent \/ ReplayInto \/ ReplayEnd
  PROVE  NothingForward' /\ Nested'
<1>. DEFINE n == Len(aliased_events)
<1>1. DecoderTypeOK /\ n \in Nat /\ replaying_alias # <<>>
  BY DEF NothingForward, DecoderTypeOK, ReplayEvent, ReplayInto, ReplayEnd
<1>2. UNCHANGED <<input, aliased_events, alias_map, reference_stack>>
  BY DEF ReplayEvent, ReplayInto, ReplayEnd
<1>3. /\ Depth \in Nat \ {0} /\ Innermost.start \in Nat /\ Innermost.end \in Nat
      /\ Advanced \in Seq(EventRange) /\ Len(Advanced) = Depth
      /\ \A i \in 1 .. Depth : Advanced[i].end = replaying_alias[i].end
  BY <1>1, AdvancedIs
<1>4. Innermost.end + (Depth - 1) <= n /\ Innermost.end <= n
  BY <1>3 DEF NothingForward, Nested, Depth, Innermost
<1>5. Innermost.start < Innermost.end => aliased_events[Innermost.start + 1] \in AliasOrEvent
  BY <1>1, <1>3, <1>4 DEF DecoderTypeOK
<1>. HIDE DEF n
<1>6. ASSUME replaying_alias' \in Seq(EventRange), out' \in Seq(YamlEvent),
             \A i \in 1 .. Depth' : replaying_alias'[i].end + (i - 1) <= n
      PROVE  NothingForward' /\ Nested'
  <2>1. \A i \in 1 .. Len(replaying_alias') :
          replaying_alias'[i].end <= n
    <3>1. SUFFICES ASSUME NEW i \in 1 .. Len(replaying_alias') PROVE replaying_alias'[i].end <= n
      OBVIOUS
    <3>2. replaying_alias'[i] \in EventRange
      BY <1>6, <3>1
    <3>3. replaying_alias'[i].end \in Nat /\ i \in Nat /\ i >= 1
      BY <1>6, <3>2 DEF EventRange
    <3>4. replaying_alias'[i].end + (i - 1) <= n
      BY <1>6, <3>1 DEF Depth
    <3>. QED  BY <1>1, <3>3, <3>4
  <2>. QED  BY <1>2, <1>6, <2>1 DEF NothingForward, DecoderTypeOK, Nested, n
<1>7. CASE ReplayEvent
  <2>1. replaying_alias' = Advanced /\ Innermost.start < Innermost.end
        /\ out' = Append(out, aliased_events[Innermost.start + 1].event)
    BY <1>7 DEF ReplayEvent
  <2>2. out' \in Seq(YamlEvent)
    BY <1>1, <1>5, <2>1 DEF DecoderTypeOK, AliasOrEvent
  <2>3. Depth' = Depth
    BY <1>3, <2>1 DEF Depth
  <2>4. replaying_alias' \in Seq(EventRange)
    BY <1>3, <2>1
  <2>5. \A i \in 1 .. Depth' : replaying_alias'[i].end + (i - 1) <= n
    BY <1>3, <2>1, <2>3 DEF Nested, n
  <2>. QED  BY <1>6, <2>2, <2>4, <2>5
<1>8. CASE ReplayInto
  <2>. DEFINE x == aliased_events[Innermost.start + 1]
  <2>1. replaying_alias' = Append(Advanced, x.range) /\ Innermost.start < Innermost.end
        /\ x.alias /\ out' = out
    BY <1>8 DEF ReplayInto
  <2>2. x.range \in EventRange /\ x.range.end \in Nat
    BY <1>5, <2>1 DEF AliasOrEvent, EventRange
  <2>3. x.range.end < Innermost.start + 1
    <3>1. Innermost.start + 1 \in 1 .. Len(aliased_events)
      BY <1>1, <1>3, <1>4, <2>1 DEF n
    <3>. QED  BY <2>1, <3>1 DEF NothingForward
  <2>. HIDE DEF x
  <2>4. /\ replaying_alias' \in Seq(EventRange) /\ Depth' = Depth + 1
        /\ \A i \in 1 .. Depth + 1 : replaying_alias'[i] = IF i \in 1 .. Depth THEN Advanced[i] ELSE x.range
    BY <1>3, <2>1, <2>2, AppendHas DEF Depth
  <2>5. ASSUME NEW i \in 1 .. Depth + 1 PROVE replaying_alias'[i].end + (i - 1) <= n
    <3>1. CASE i \in 1 .. Depth
      BY <1>3, <2>4, <3>1 DEF Nested, n
    <3>2. CASE i = Depth + 1
      BY <1>1, <1>3, <1>4, <2>1, <2>2, <2>3, <2>4, <3>2
    <3>. QED  BY <1>3, <3>1, <3>2
  <2>6. out' \in Seq(YamlEvent)
    BY <1>1, <2>1 DEF DecoderTypeOK
  <2>. QED  BY <1>6, <2>4, <2>5, <2>6
<1>9. CASE ReplayEnd
  <2>1. replaying_alias' = SubSeq(replaying_alias, 1, Depth - 1) /\ out' = out
    BY <1>9 DEF ReplayEnd
  <2>2. /\ replaying_alias' \in Seq(EventRange) /\ Depth' = Depth - 1
        /\ \A i \in 1 .. Depth - 1 : replaying_alias'[i] = replaying_alias[i]
    BY <1>1, <2>1, FrontIs DEF DecoderTypeOK, Depth
  <2>3. \A i \in 1 .. Depth - 1 : i \in 1 .. Depth
    BY <1>3
  <2>4. out' \in Seq(YamlEvent)
    BY <1>1, <2>1 DEF DecoderTypeOK
  <2>. QED  BY <1>6, <2>2, <2>3, <2>4 DEF Nested, n
<1>. QED  BY <1>7, <1>8, <1>9

(***************************************************************************)
(* Recording appends: what was recorded, bound to an anchor or opened      *)
(* stays behind the end of what is recorded.                               *)
(***************************************************************************)
Recorded(es) == es \in Seq(AliasOrEvent) /\ \A i \in 1 .. Len(es) : es[i].alias => es[i].range.end < i
Bound(map, n) == DOMAIN map \subseteq Nat /\ \A i \in DOMAIN map : map[i] \in EventRange /\ map[i].end <= n
Opened(stack, n) == stack \in Seq([id : Nat, start : Nat]) /\ \A i \in 1 .. Len(stack) : stack[i].start <= n

LEMMA ForwardIs ==
  NothingForward <=>
    /\ input \in Seq(ParserEvent) /\ out \in Seq(YamlEvent)
    /\ Recorded(aliased_events)
    /\ Bound(alias_map, Len(aliased_events)) /\ Opened(reference_stack, Len(aliased_events))
    /\ replaying_alias \in Seq(EventRange)
    /\ \A i \in 1 .. Len(replaying_alias) : replaying_alias[i].end <= Len(aliased_events)
BY DEF NothingForward, DecoderTypeOK, Recorded, Bound, Opened

LEMMA ForwardNext ==
  ASSUME input' \in Seq(ParserEvent), out' \in Seq(YamlEvent),
         Recorded(aliased_events'),
         Bound(alias_map', Len(aliased_events')), Opened(reference_stack', Len(aliased_events')),
         replaying_alias' \in Seq(EventRange),
         \A i \in 1 .. Len(replaying_alias') : replaying_alias'[i].end <= Len(aliased_events')
  PROVE  NothingForward'
BY DEF NothingForward, DecoderTypeOK, Recorded, Bound, Opened

LEMMA RecordedGrows ==
  ASSUME NEW es, Recorded(es), NEW x \in AliasOrEvent, x.alias => x.range.end <= Len(es)
  PROVE  Recorded(Append(es, x)) /\ Len(Append(es, x)) = Len(es) + 1 /\ Len(es) \in Nat
<1>1. /\ Append(es, x) \in Seq(AliasOrEvent) /\ Len(es) \in Nat /\ Len(Append(es, x)) = Len(es) + 1
      /\ \A i \in 1 .. Len(es) + 1 : Append(es, x)[i] = IF i \in 1 .. Len(es) THEN es[i] ELSE x
  BY AppendHas DEF Recorded
<1>2. x.range.end \in Nat
  BY DEF AliasOrEvent, EventRange
<1>3. ASSUME NEW i \in 1 .. Len(es) + 1, Append(es, x)[i].alias
      PROVE  Append(es, x)[i].range.end < i
  <2>1. CASE i \in 1 .. Len(es)
    BY <1>1, <1>3, <2>1 DEF Recorded
  <2>2. CASE i = Len(es) + 1
    <3>1. Append(es, x)[i] = x
      BY <1>1, <2>2
    <3>2. x.range.end <= Len(es)
      BY <1>3, <3>1
    <3>. QED  BY <1>1, <1>2, <2>2, <3>1, <3>2
  <2>. QED  BY <1>1, <2>1, <2>2
<1>. QED  BY <1>1, <1>3 DEF Recorded

LEMMA Later ==
  ASSUME NEW n \in Nat, NEW m \in Nat, n <= m
  PROVE  /\ \A map : Bound(map, n) => Bound(map, m)
         /\ \A stack : Opened(stack, n) => Opened(stack, m)
<1>1. ASSUME NEW map, Bound(map, n) PROVE Bound(map, m)
  <2>1. ASSUME NEW i \in DOMAIN map PROVE map[i] \in EventRange /\ map[i].end <= m
    <3>1. map[i] \in EventRange /\ map[i].end <= n /\ map[i].end \in Nat
      BY <1>1 DEF Bound, EventRange
    <3>. QED  BY <3>1
  <2>. QED  BY <1>1, <2>1 DEF Bound
<1>2. ASSUME NEW stack, Opened(stack, n) PROVE Opened(stack, m)
  <2>1. ASSUME NEW i \in 1 .. Len(stack) PROVE stack[i].start <= m
    <3>0. stack \in Seq([id : Nat, start : Nat]) /\ stack[i].start <= n
      BY <1>2, <2>1 DEF Opened
    <3>1. stack[i] \in [id : Nat, start : Nat]
      BY <3>0, ElementIs
    <3>2. stack[i].start \in Nat
      BY <3>1
    <3>. QED  BY <3>0, <3>2
  <2>. QED  BY <1>2, <2>1 DEF Opened
<1>. QED  BY <1>1, <1>2

LEMMA BindKeeps ==
  ASSUME NEW n, Bound(alias_map, n), NEW id \in Nat, NEW r \in EventRange, r.end <= n, Bind(id, r)
  PROVE  Bound(alias_map', n)
BY DEF Bound, Bind

LEMMA OpenKeeps ==
  ASSUME NEW n, NEW stack, Opened(stack, n), NEW x \in [id : Nat, start : Nat], x.start <= n
  PROVE  Opened(Append(stack, x), n)
<1>1. /\ Append(stack, x) \in Seq([id : Nat, start : Nat]) /\ Len(Append(stack, x)) = Len(stack) + 1
      /\ \A i \in 1 .. Len(stack) + 1 : Append(stack, x)[i] = IF i \in 1 .. Len(stack) THEN stack[i] ELSE x
  BY AppendHas DEF Opened
<1>. QED  BY <1>1 DEF Opened

LEMMA CloseKeeps ==
  ASSUME NEW n, NEW stack, Opened(stack, n), stack # <<>>
  PROVE  /\ Opened(SubSeq(stack, 1, Len(stack) - 1), n)
         /\ stack[Len(stack)] \in [id : Nat, start : Nat]
<1>1. /\ Len(stack) \in Nat \ {0} /\ stack[Len(stack)] \in [id : Nat, start : Nat]
      /\ SubSeq(stack, 1, Len(stack) - 1) \in Seq([id : Nat, start : Nat])
      /\ Len(SubSeq(stack, 1, Len(stack) - 1)) = Len(stack) - 1
      /\ \A i \in 1 .. Len(stack) - 1 : SubSeq(stack, 1, Len(stack) - 1)[i] = stack[i]
  BY FrontIs DEF Opened
<1>2. \A i \in 1 .. Len(stack) - 1 : i \in 1 .. Len(stack)
  BY <1>1
<1>. QED  BY <1>1, <1>2 DEF Opened

LEMMA AliasForward ==
  ASSUME NothingForward, PullAlias
  PROVE  NothingForward' /\ Nested'
<1>1. /\ input # <<>> /\ input' \in Seq(ParserEvent) /\ out' \in Seq(YamlEvent) /\ replaying_alias = <<>>
      /\ UNCHANGED <<alias_map, reference_stack>>
  <2>1. input # <<>> /\ input' = Tail(input) /\ out' = out /\ replaying_alias = <<>>
        /\ UNCHANGED <<alias_map, reference_stack>>
    BY DEF PullAlias
  <2>. QED  BY <2>1, ForwardIs, TailIs
<1>2. /\ Recorded(aliased_events) /\ Len(aliased_events) \in Nat
      /\ Bound(alias_map, Len(aliased_events)) /\ Opened(reference_stack, Len(aliased_events))
  BY ForwardIs DEF Recorded
<1>3. CASE Head(input).id \notin DOMAIN alias_map
  <2>1. UNCHANGED <<replaying_alias, aliased_events>>
    BY <1>3 DEF PullAlias
  <2>2. NothingForward'
    <3>1. replaying_alias' = <<>>
      BY <1>1, <2>1
    <3>. QED  BY <1>1, <1>2, <2>1, <3>1, ForwardNext
  <2>. QED  BY <1>1, <2>1, <2>2 DEF Nested, Depth
<1>4. CASE Head(input).id \in DOMAIN alias_map
  <2>1. PICK r \in EventRange : r = alias_map[Head(input).id] /\ r.end <= Len(aliased_events)
    BY <1>2, <1>4 DEF Bound
  <2>2. replaying_alias' = <<r>>
        /\ (aliased_events' = aliased_events \/ aliased_events' = Append(aliased_events, AliasEntry(r)))
    BY <1>4, <2>1 DEF PullAlias
  <2>3. /\ Recorded(aliased_events') /\ Len(aliased_events') \in Nat
        /\ Len(aliased_events) <= Len(aliased_events')
    <3>1. AliasEntry(r) \in AliasOrEvent /\ AliasEntry(r).range = r
      BY AliasEntryIs DEF AliasEntry
    <3>2. CASE aliased_events' = aliased_events
      BY <1>2, <3>2
    <3>3. CASE aliased_events' = Append(aliased_events, AliasEntry(r))
      <4>1. Recorded(aliased_events') /\ Len(aliased_events') = Len(aliased_events) + 1
        BY <1>2, <2>1, <3>1, <3>3, RecordedGrows
      <4>. QED  BY <1>2, <4>1
    <3>. QED  BY <2>2, <3>2, <3>3
  <2>4. r.end \in Nat /\ r.end <= Len(aliased_events')
    BY <1>2, <2>1, <2>3 DEF EventRange
  <2>5. /\ replaying_alias' \in Seq(EventRange) /\ Len(replaying_alias') = 1
        /\ replaying_alias'[1] = r
    BY <2>2
  <2>6. NothingForward'
    <3>1. Bound(alias_map, Len(aliased_events')) /\ Opened(reference_stack, Len(aliased_events'))
      BY <1>2, <2>3, Later
    <3>2. Bound(alias_map', Len(aliased_events')) /\ Opened(reference_stack', Len(aliased_events'))
      BY <1>1, <3>1
    <3>3. \A i \in 1 .. Len(replaying_alias') : replaying_alias'[i].end <= Len(aliased_events')
      BY <2>4, <2>5
    <3>. QED  BY <1>1, <2>3, <2>5, <3>2, <3>3, ForwardNext
  <2>7. Nested'
    <3>1. r.end + (1 - 1) <= Len(aliased_events')
      BY <2>4
    <3>. QED  BY <2>5, <3>1 DEF Nested, Depth
  <2>. QED  BY <2>6, <2>7
<1>. QED  BY <1>3, <1>4

\* What a pulled event records, and what is left to show of its anchor.
LEMMA PullForward ==
  ASSUME NothingForward, NEW K, "Alias" \notin K, Pull(K),
         NEW m, m = Len(aliased_events'), Bound(alias_map', m), Opened(reference_stack', m)
  PROVE  NothingForward' /\ Nested'
<1>1. DecoderTypeOK /\ Recorded(aliased_events) /\ out \in Seq(YamlEvent)
  BY ForwardIs DEF NothingForward
<1>2. /\ input' \in Seq(ParserEvent)
      /\ EventOf(Pulled) \in YamlEvent /\ EventEntry(EventOf(Pulled)) \in AliasOrEvent
      /\ ~EventEntry(EventOf(Pulled)).alias
  BY <1>1, PulledIs DEF Pull, EventEntry
<1>3. out' \in Seq(YamlEvent) /\ replaying_alias' = <<>>
  BY <1>1, <1>2 DEF Pull
<1>4. Recorded(aliased_events')
  BY <1>1, <1>2, RecordedGrows DEF Pull
<1>5. NothingForward'
  <2>1. replaying_alias' \in Seq(EventRange) /\ 1 .. Len(replaying_alias') = {}
    BY <1>3
  <2>. QED  BY <1>2, <1>3, <1>4, <2>1, ForwardNext
<1>. QED  BY <1>3, <1>5 DEF Nested, Depth

LEMMA PullLength ==
  ASSUME NothingForward, NEW K, "Alias" \notin K, Pull(K)
  PROVE  /\ Len(aliased_events) \in Nat /\ Pulled.id \in Nat
         /\ Len(aliased_events') = IF in_reference \/ Pulled.id > 0 THEN Len(aliased_events) + 1
                                   ELSE Len(aliased_events)
         /\ Bound(alias_map, Len(aliased_events')) /\ Opened(reference_stack, Len(aliased_events'))
<1>1. DecoderTypeOK /\ Len(aliased_events) \in Nat /\ Recorded(aliased_events)
  BY ForwardIs DEF NothingForward, Recorded
<1>2. /\ EventEntry(EventOf(Pulled)) \in AliasOrEvent /\ Pulled.id \in Nat
      /\ ~EventEntry(EventOf(Pulled)).alias
  BY <1>1, PulledIs DEF Pull, EventEntry
<1>3. Len(aliased_events') = IF in_reference \/ Pulled.id > 0 THEN Len(aliased_events) + 1
                             ELSE Len(aliased_events)
  BY <1>1, <1>2, RecordedGrows DEF Pull
<1>. QED  BY <1>1, <1>2, <1>3, Later, ForwardIs

LEMMA RecordForward ==
  ASSUME NothingForward, PullScalar \/ PullStart \/ PullEnd
  PROVE  NothingForward' /\ Nested'
<1>. DEFINE n == Len(aliased_events)
            m == Len(aliased_events')
<1>1. CASE PullScalar
  <2>1. /\ Pull({"Scalar"}) /\ n \in Nat /\ Pulled.id \in Nat
        /\ Pulled.id > 0 => m = n + 1
        /\ Bound(alias_map, m) /\ Opened(reference_stack, m)
    BY <1>1, PullLength DEF PullScalar
  <2>. HIDE DEF n, m
  <2>2. Bound(alias_map', m)
    <3>1. CASE Pulled.id > 0
      <4>1. Bind(Pulled.id, [start |-> n, end |-> n])
        BY <1>1, <3>1 DEF PullScalar, n
      <4>2. [start |-> n, end |-> n] \in EventRange /\ n <= m
        BY <2>1, <3>1 DEF EventRange
      <4>. QED  BY <2>1, <4>1, <4>2, BindKeeps
    <3>2. CASE ~(Pulled.id > 0)
      BY <1>1, <2>1, <3>2 DEF PullScalar
    <3>. QED  BY <3>1, <3>2
  <2>3. Opened(reference_stack', m)
    BY <1>1, <2>1 DEF PullScalar
  <2>. QED  BY <2>1, <2>2, <2>3, PullForward DEF m
<1>2. CASE PullStart
  <2>1. /\ Pull(Starts) /\ n \in Nat /\ Pulled.id \in Nat
        /\ m = n \/ m = n + 1
        /\ Bound(alias_map, m) /\ Opened(reference_stack, m)
        /\ "Alias" \notin Starts
    BY <1>2, PullLength DEF PullStart, Starts
  <2>. HIDE DEF n, m
  <2>2. Bound(alias_map', m)
    BY <1>2, <2>1 DEF PullStart
  <2>3. Opened(reference_stack', m)
    <3>1. [id |-> Pulled.id, start |-> n] \in [id : Nat, start : Nat] /\ n <= m
          /\ [id |-> 0, start |-> 0] \in [id : Nat, start : Nat] /\ 0 <= m
      BY <2>1
    <3>2. \/ reference_stack' = Append(reference_stack, [id |-> Pulled.id, start |-> n])
          \/ reference_stack' = Append(reference_stack, [id |-> 0, start |-> 0])
          \/ reference_stack' = reference_stack
      BY <1>2 DEF PullStart, n
    <3>. QED  BY <2>1, <3>1, <3>2, OpenKeeps
  <2>. QED  BY <2>1, <2>2, <2>3, PullForward DEF m
<1>3. CASE PullEnd
  <2>1. /\ Pull(Ends) /\ n \in Nat
        /\ in_reference => m = n + 1
        /\ Bound(alias_map, m) /\ Opened(reference_stack, m)
        /\ "Alias" \notin Ends
    BY <1>3, PullLength DEF PullEnd, Ends
  <2>. HIDE DEF n, m
  <2>2. CASE in_reference
    <3>. DEFINE top == reference_stack[Len(reference_stack)]
    <3>1. Opened(SubSeq(reference_stack, 1, Len(reference_stack) - 1), m)
          /\ top \in [id : Nat, start : Nat]
      BY <2>1, <2>2, CloseKeeps DEF in_reference
    <3>2. /\ reference_stack' = SubSeq(reference_stack, 1, Len(reference_stack) - 1)
          /\ Bind(top.id, [start |-> top.start, end |-> n + 1]) \/ UNCHANGED alias_map
      BY <1>3, <2>2 DEF PullEnd, n
    <3>. HIDE DEF top
    <3>3. [start |-> top.start, end |-> n + 1] \in EventRange /\ n + 1 <= m
      BY <2>1, <2>2, <3>1 DEF EventRange
    <3>4. Bound(alias_map', m)
      BY <2>1, <3>1, <3>2, <3>3, BindKeeps
    <3>. QED  BY <2>1, <3>1, <3>2, <3>4, PullForward DEF m
  <2>3. CASE ~in_reference
    <3>1. UNCHANGED <<reference_stack, alias_map>>
      BY <1>3, <2>3 DEF PullEnd
    <3>. QED  BY <2>1, <3>1, PullForward DEF m
  <2>. QED  BY <2>2, <2>3
<1>. QED  BY <1>1, <1>2, <1>3

LEMMA NextForward == NothingForward /\ Nested /\ [Decode]_decoderVars => NothingForward' /\ Nested'
<1>1. ASSUME NothingForward, Nested, UNCHANGED decoderVars PROVE NothingForward' /\ Nested'
  BY <1>1 DEF decoderVars, NothingForward, DecoderTypeOK, Nested, Depth
<1>. QED  BY <1>1, ReplayForward, AliasForward, RecordForward DEF Decode

\* An alias replays events that were recorded before it, for any stream of
\* events and any anchors.
THEOREM AliasesLookBack == DecoderSpec => []NothingForward
<1>. QED  BY InitForward, NextForward, PTL DEF DecoderSpec

\* Aliases within aliases: each replay is a step further back, so there are
\* never more of them open than events were recorded.
THEOREM ReplaysAreBounded == DecoderSpec => [](Len(replaying_alias) <= Len(aliased_events) + 1)
<1>1. NothingForward /\ Nested => Len(replaying_alias) <= Len(aliased_events) + 1
  <2>1. SUFFICES ASSUME DecoderTypeOK, Nested, replaying_alias # <<>>
                 PROVE  Len(replaying_alias) <= Len(aliased_events) + 1
    BY DEF NothingForward, DecoderTypeOK
  <2>2. Depth \in Nat \ {0} /\ Innermost.end \in Nat /\ Len(aliased_events) \in Nat
    BY <2>1, AdvancedIs DEF DecoderTypeOK
  <2>3. Innermost.end + (Depth - 1) <= Len(aliased_events)
    BY <2>1, <2>2 DEF Nested, Innermost
  <2>. QED  BY <2>2, <2>3 DEF Depth
<1>. QED  BY <1>1, InitForward, NextForward, PTL DEF DecoderSpec

-----------------------------------------------------------------------------
(***************************************************************************)
(* Types.                                                                  *)
(***************************************************************************)
Endpoint ==
  [provides : Seq(ProvidesPreProcessed), declare : Seq([name : Names, reads : SUBSET Names]),
   templates : SUBSET Names, logs : Seq(LogsPreProcessed), peak_load : BOOLEAN, load_pattern : Nat,
   providers_to_stream : SUBSET Names, required_providers : SUBSET Names, included : BOOLEAN]

Indices == DOMAIN file.endpoints

TypeInv ==
  /\ file \in Files /\ at \in Nat \ {0}
  /\ phase # "parsed" => endpoints \in [Indices -> Endpoint]
  /\ providers \in [ProviderNames -> SUBSET Indices]
  /\ required_indices \subseteq Indices
  /\ needed \in [DOMAIN needed -> BOOLEAN] /\ DOMAIN needed \subseteq Indices

\* A file and its endpoints.
LEMMA FileTypes ==
  ASSUME file \in Files
  PROVE  /\ file \in LoadTestPreProcessed(ProviderNames)
         /\ file.endpoints \in Seq(EndpointPreProcessed)
         /\ file.loggers \in Seq(LoggerPreProcessed)
BY FilesAssumption DEF ProviderNames, LoadTestPreProcessed

LEMMA SelectReadsType ==
  ASSUME NEW selects, \A i \in DOMAIN selects : selects[i].reads \in SUBSET Names
  PROVE  SelectReads(selects) \in SUBSET Names
BY DEF SelectReads

LEMMA ProvidesReadsType ==
  ASSUME NEW selects \in Seq(ProvidesPreProcessed)
  PROVE  SelectReads(selects) \in SUBSET Names
<1>1. DOMAIN selects = 1..Len(selects)
  OBVIOUS
<1>2. \A i \in DOMAIN selects : selects[i] \in ProvidesPreProcessed
  BY <1>1, ElementOfSeq
<1> QED BY <1>2, SelectReadsType DEF ProvidesPreProcessed

LEMMA LogsReadsType ==
  ASSUME NEW selects \in Seq(LogsPreProcessed)
  PROVE  SelectReads(selects) \in SUBSET Names
<1>1. DOMAIN selects = 1..Len(selects)
  OBVIOUS
<1>2. \A i \in DOMAIN selects : selects[i] \in LogsPreProcessed
  BY <1>1, ElementOfSeq
<1> QED BY <1>2, SelectReadsType DEF LogsPreProcessed

LEMMA DeclareReadsType ==
  ASSUME NEW selects \in Seq([name : Names, reads : SUBSET Names])
  PROVE  SelectReads(selects) \in SUBSET Names
<1>1. DOMAIN selects = 1..Len(selects)
  OBVIOUS
<1>2. \A i \in DOMAIN selects : selects[i] \in [name : Names, reads : SUBSET Names]
  BY <1>1, ElementOfSeq
<1> QED BY <1>2, SelectReadsType

LEMMA HeaderReadsType ==
  ASSUME file \in Files, NEW e \in EndpointPreProcessed
  PROVE  HeaderReads(e) \in SUBSET Names
<1>1. \A h \in DOMAIN file.headers : file.headers[h] \in SUBSET Names
  BY FileTypes DEF LoadTestPreProcessed, Partial
<1>2. \A h \in DOMAIN e.headers : e.headers[h].reads \in SUBSET Names
  <2>1. e.headers \in Partial(HeaderNames, [null : BOOLEAN, reads : SUBSET Names])
    BY DEF EndpointPreProcessed
  <2>2. PICK D : e.headers \in [D -> [null : BOOLEAN, reads : SUBSET Names]]
    BY <2>1 DEF Partial
  <2>3. \A h \in DOMAIN e.headers : e.headers[h] \in [null : BOOLEAN, reads : SUBSET Names]
    BY <2>2
  <2> QED BY <2>3
<1> QED BY <1>1, <1>2 DEF HeaderReads, KeptHeaders

LEMMA FromPreprocessedType ==
  ASSUME file \in Files, NEW b \in EndpointPreProcessed
  PROVE  FromPreprocessed(b) \in Endpoint
<1>1. /\ b.provides \in Seq(ProvidesPreProcessed) /\ b.logs \in Seq(LogsPreProcessed)
      /\ b.declare \in Seq([name : Names, reads : SUBSET Names]) /\ b.peak_load \in BOOLEAN /\ b.included \in BOOLEAN
      /\ b.load_pattern \in Nat /\ b.url \in SUBSET Names /\ b.tags \in SUBSET Names /\ b.body \in SUBSET Names
  BY DEF EndpointPreProcessed
<1>2. file.load_pattern \in Nat
  BY FileTypes DEF LoadTestPreProcessed
<1>3. WithSend(b) \in Seq(ProvidesPreProcessed)
  <2>1. \A i \in 1..Len(b.provides) : b.provides[i] \in ProvidesPreProcessed
    BY <1>1, ElementOfSeq
  <2>2. \A i \in 1..Len(b.provides) :
          [b.provides[i] EXCEPT !.send = IF @ # "none" THEN @ ELSE IF b.peak_load THEN "if_not_full" ELSE "block"]
            \in ProvidesPreProcessed
    BY <2>1 DEF ProvidesPreProcessed
  <2>3. DOMAIN b.provides = 1..Len(b.provides) /\ Len(b.provides) \in Nat
    BY <1>1
  <2>4. WithSend(b) \in [1..Len(b.provides) -> ProvidesPreProcessed]
    BY <2>2, <2>3 DEF WithSend
  <2> QED BY <2>3, <2>4, SeqDef
<1>4. /\ SelectReads(b.provides) \in SUBSET Names /\ SelectReads(b.logs) \in SUBSET Names
      /\ SelectReads(b.declare) \in SUBSET Names
  BY <1>1, ProvidesReadsType, LogsReadsType, DeclareReadsType
<1>5. HeaderReads(b) \in SUBSET Names
  BY HeaderReadsType
<1>6. RequestReads(b) \in SUBSET Names
  BY <1>1, <1>4, <1>5 DEF RequestReads, Required
<1>7. /\ HeaderReads(b) \cup b.url \cup b.tags \cup b.body \in SUBSET Names
      /\ (IF b.load_pattern # 0 THEN b.load_pattern ELSE file.load_pattern) \in Nat
      /\ (RequestReads(b) \ DeclaredNames(b)) \cup Required(SelectReads(b.logs)) \in SUBSET Names
      /\ Required(SelectReads(b.declare)) \cup (RequestReads(b) \ DeclaredNames(b)) \in SUBSET Names
  BY <1>1, <1>2, <1>4, <1>5, <1>6 DEF Required
<1> QED BY <1>1, <1>3, <1>7 DEF FromPreprocessed, Endpoint

-----------------------------------------------------------------------------
(***************************************************************************)
(* What a logger, and a try run, change of an endpoint.                    *)
(***************************************************************************)
\* Appended to a sequence of selects, what one reads is read as well.
LEMMA AppendReads ==
  ASSUME NEW selects \in Seq(LogsPreProcessed), NEW l \in LogsPreProcessed
  PROVE  /\ Append(selects, l) \in Seq(LogsPreProcessed)
         /\ SelectReads(Append(selects, l)) = SelectReads(selects) \cup l.reads
         /\ Targets(Append(selects, l)) = Targets(selects) \cup {l.to}
<1> DEFINE both == Append(selects, l)
<1>1. /\ both \in Seq(LogsPreProcessed) /\ Len(selects) \in Nat
      /\ DOMAIN selects = 1..Len(selects) /\ DOMAIN both = 1..(Len(selects) + 1)
      /\ \A i \in 1..Len(selects) : both[i] = selects[i]
      /\ both[Len(selects) + 1] = l
  BY AppendProperties
<1> HIDE DEF both
<1>2. DOMAIN both = DOMAIN selects \cup {Len(selects) + 1} /\ \A i \in DOMAIN selects : both[i] = selects[i]
  BY <1>1
<1>3. SelectReads(both) = SelectReads(selects) \cup l.reads
  BY <1>1, <1>2 DEF SelectReads
<1>4. Targets(both) = Targets(selects) \cup {l.to}
  BY <1>1, <1>2 DEF Targets
<1> QED BY <1>1, <1>3, <1>4 DEF both

LEMMA LogToEffect ==
  ASSUME NEW es \in [Indices -> Endpoint], NEW l \in LoggerPreProcessed
  PROVE  /\ LogTo(es, l) \in [Indices -> Endpoint]
         /\ \A k \in Indices : LET e == es[k] o == LogTo(es, l)[k] IN
              /\ \A f \in {"provides", "declare", "templates", "peak_load", "load_pattern", "included"} : o[f] = e[f]
              /\ o.providers_to_stream = e.providers_to_stream \cup Required(l.reads)
              /\ o.required_providers = e.required_providers \cup Required(l.reads)
              /\ SelectReads(o.logs) = SelectReads(e.logs) \cup l.reads
              /\ LogsTo(o) = LogsTo(e) \cup {l.name}
<1> DEFINE log == [to |-> l.name, reads |-> l.reads]
<1>1. log \in LogsPreProcessed /\ log.to = l.name /\ log.reads = l.reads
  BY DEF LogsPreProcessed, LoggerPreProcessed
<1> HIDE DEF log
<1>2. ASSUME NEW k \in Indices
      PROVE  LET e == es[k] o == LogTo(es, l)[k] IN
             /\ o \in Endpoint
             /\ \A f \in {"provides", "declare", "templates", "peak_load", "load_pattern", "included"} : o[f] = e[f]
             /\ o.providers_to_stream = e.providers_to_stream \cup Required(l.reads)
             /\ o.required_providers = e.required_providers \cup Required(l.reads)
             /\ o.logs = Append(e.logs, log)
  <2> DEFINE e == es[k]  o == LogTo(es, l)[k]
  <2>1. o = [e EXCEPT !.logs = Append(e.logs, log),
                      !.providers_to_stream = e.providers_to_stream \cup Required(l.reads),
                      !.required_providers = e.required_providers \cup Required(l.reads)]
    BY DEF LogTo, log
  <2>2. e \in Endpoint
    OBVIOUS
  <2>3. Append(e.logs, log) \in Seq(LogsPreProcessed)
    BY <1>1, <2>2 DEF Endpoint
  <2>4. /\ e.providers_to_stream \cup Required(l.reads) \in SUBSET Names
        /\ e.required_providers \cup Required(l.reads) \in SUBSET Names
    BY <2>2 DEF Endpoint, Required, LoggerPreProcessed
  <2> HIDE DEF e, o
  <2>5. o \in Endpoint
    BY <2>1, <2>2, <2>3, <2>4 DEF Endpoint
  <2>6. /\ \A f \in {"provides", "declare", "templates", "peak_load", "load_pattern", "included"} : o[f] = e[f]
        /\ o.providers_to_stream = e.providers_to_stream \cup Required(l.reads)
        /\ o.required_providers = e.required_providers \cup Required(l.reads)
        /\ o.logs = Append(e.logs, log)
    BY <2>1, <2>2 DEF Endpoint
  <2> QED BY <2>5, <2>6 DEF e, o
<1>3. LogTo(es, l) \in [Indices -> Endpoint]
  BY <1>2 DEF LogTo
<1>4. ASSUME NEW k \in Indices
      PROVE  /\ SelectReads(LogTo(es, l)[k].logs) = SelectReads(es[k].logs) \cup l.reads
             /\ LogsTo(LogTo(es, l)[k]) = LogsTo(es[k]) \cup {l.name}
  <2>1. es[k].logs \in Seq(LogsPreProcessed)
    BY DEF Endpoint
  <2>2. LogTo(es, l)[k].logs = Append(es[k].logs, log)
    BY <1>2
  <2> QED BY <1>1, <2>1, <2>2, AppendReads DEF LogsTo
<1> QED BY <1>2, <1>3, <1>4

LEMMA ClearedEffect ==
  ASSUME NEW es \in [Indices -> Endpoint]
  PROVE  /\ Cleared(es) \in [Indices -> Endpoint]
         /\ \A k \in Indices : LET e == es[k] o == Cleared(es)[k] IN
              /\ \A f \in {"provides", "declare", "templates", "peak_load", "load_pattern", "included",
                           "providers_to_stream", "required_providers"} : o[f] = e[f]
              /\ SelectReads(o.logs) = {} /\ LogsTo(o) = {}
<1>1. <<>> \in Seq(LogsPreProcessed) /\ DOMAIN <<>> = {}
  OBVIOUS
<1>2. ASSUME NEW k \in Indices
      PROVE  /\ Cleared(es)[k] \in Endpoint
             /\ \A f \in {"provides", "declare", "templates", "peak_load", "load_pattern", "included",
                          "providers_to_stream", "required_providers"} : Cleared(es)[k][f] = es[k][f]
             /\ Cleared(es)[k].logs = <<>>
  <2> DEFINE e == es[k]  o == Cleared(es)[k]
  <2>1. o = [e EXCEPT !.logs = <<>>] /\ e \in Endpoint
    BY DEF Cleared
  <2> HIDE DEF e, o
  <2>2. /\ o \in Endpoint /\ o.logs = <<>>
        /\ \A f \in {"provides", "declare", "templates", "peak_load", "load_pattern", "included",
                     "providers_to_stream", "required_providers"} : o[f] = e[f]
    BY <1>1, <2>1 DEF Endpoint
  <2> QED BY <2>2 DEF e, o
<1>3. Cleared(es) \in [Indices -> Endpoint]
  BY <1>2 DEF Cleared
<1> QED BY <1>1, <1>2, <1>3 DEF SelectReads, LogsTo, Targets

\* A provides that blocks goes to the same provider and reads the same names.
LEMMA BlockingEffect ==
  ASSUME NEW provides \in Seq(ProvidesPreProcessed)
  PROVE  /\ Blocking(provides) \in Seq(ProvidesPreProcessed)
         /\ SelectReads(Blocking(provides)) = SelectReads(provides)
         /\ Targets(Blocking(provides)) = Targets(provides)
<1>1. /\ Len(provides) \in Nat /\ DOMAIN provides = 1..Len(provides)
      /\ \A i \in DOMAIN provides : provides[i] \in ProvidesPreProcessed
  BY ElementOfSeq
<1>2. \A i \in DOMAIN provides :
        /\ [provides[i] EXCEPT !.send = "block"] \in ProvidesPreProcessed
        /\ [provides[i] EXCEPT !.send = "block"].to = provides[i].to
        /\ [provides[i] EXCEPT !.send = "block"].reads = provides[i].reads
  BY <1>1 DEF ProvidesPreProcessed
<1>3. /\ DOMAIN Blocking(provides) = DOMAIN provides
      /\ \A i \in DOMAIN provides : /\ Blocking(provides)[i] \in ProvidesPreProcessed
                                    /\ Blocking(provides)[i].to = provides[i].to
                                    /\ Blocking(provides)[i].reads = provides[i].reads
  BY <1>2 DEF Blocking
<1>4. Blocking(provides) \in [1..Len(provides) -> ProvidesPreProcessed]
  BY <1>1, <1>2 DEF Blocking
<1>5. Blocking(provides) \in Seq(ProvidesPreProcessed)
  BY <1>1, <1>4, SeqDef
<1> QED BY <1>3, <1>5 DEF SelectReads, Targets

LEMMA SendBlockEffect ==
  ASSUME NEW es \in [Indices -> Endpoint]
  PROVE  /\ SendBlock(es) \in [Indices -> Endpoint]
         /\ \A k \in Indices : LET e == es[k] o == SendBlock(es)[k] IN
              /\ \A f \in {"declare", "templates", "logs", "peak_load", "load_pattern", "included",
                           "providers_to_stream", "required_providers"} : o[f] = e[f]
              /\ SelectReads(o.provides) = SelectReads(e.provides) /\ ProvidesTo(o) = ProvidesTo(e)
<1>1. ASSUME NEW k \in Indices
      PROVE  /\ SendBlock(es)[k] \in Endpoint
             /\ \A f \in {"declare", "templates", "logs", "peak_load", "load_pattern", "included",
                          "providers_to_stream", "required_providers"} : SendBlock(es)[k][f] = es[k][f]
             /\ SendBlock(es)[k].provides = Blocking(es[k].provides)
             /\ es[k].provides \in Seq(ProvidesPreProcessed)
  <2> DEFINE e == es[k]  o == SendBlock(es)[k]
  <2>1. o = [e EXCEPT !.provides = Blocking(e.provides)] /\ e \in Endpoint
    BY DEF SendBlock
  <2> HIDE DEF e, o
  <2>2. e.provides \in Seq(ProvidesPreProcessed)
    BY <2>1 DEF Endpoint
  <2>3. Blocking(e.provides) \in Seq(ProvidesPreProcessed)
    BY <2>2, BlockingEffect
  <2>4. /\ o \in Endpoint /\ o.provides = Blocking(e.provides)
        /\ \A f \in {"declare", "templates", "logs", "peak_load", "load_pattern", "included",
                     "providers_to_stream", "required_providers"} : o[f] = e[f]
    BY <2>1, <2>3 DEF Endpoint
  <2> QED BY <2>2, <2>4 DEF e, o
<1>2. SendBlock(es) \in [Indices -> Endpoint]
  BY <1>1 DEF SendBlock
<1>3. ASSUME NEW k \in Indices
      PROVE  /\ SelectReads(SendBlock(es)[k].provides) = SelectReads(es[k].provides)
             /\ ProvidesTo(SendBlock(es)[k]) = ProvidesTo(es[k])
  <2>1. /\ SendBlock(es)[k].provides = Blocking(es[k].provides)
        /\ es[k].provides \in Seq(ProvidesPreProcessed)
    BY <1>1
  <2> QED BY <2>1, BlockingEffect DEF ProvidesTo
<1> QED BY <1>1, <1>2, <1>3

-----------------------------------------------------------------------------
(***************************************************************************)
(* The types hold in every state.                                          *)
(***************************************************************************)
LEMMA TryLogger == TryRunLogger \in LoggerPreProcessed /\ Required(TryRunLogger.reads) = {}
<1>1. {"request", "response", "stats"} \subseteq Names /\ "try_run" \in Names
  BY NamesAssumption
<1> QED BY <1>1, NamesAssumption DEF TryRunLogger, LoggerPreProcessed, Required

\* The endpoints of a try run before its loggers, and after.
LEMMA TryEndpoints ==
  ASSUME NEW es \in [Indices -> Endpoint], NEW on \in BOOLEAN
  PROVE  LET kept == IF on THEN es ELSE Cleared(es)
             built == SendBlock(LogTo(kept, TryRunLogger)) IN
         /\ built \in [Indices -> Endpoint]
         /\ \A k \in Indices :
              /\ \A f \in {"declare", "templates", "peak_load", "load_pattern", "included",
                           "providers_to_stream", "required_providers"} : built[k][f] = es[k][f]
              /\ SelectReads(built[k].provides) = SelectReads(es[k].provides)
              /\ ProvidesTo(built[k]) = ProvidesTo(es[k])
              /\ LogsTo(built[k]) = (IF on THEN LogsTo(es[k]) ELSE {}) \cup {TryRunLogger.name}
              /\ Required(SelectReads(built[k].logs)) \subseteq Required(SelectReads(es[k].logs))
<1> DEFINE kept == IF on THEN es ELSE Cleared(es)
           logged == LogTo(kept, TryRunLogger)
           built == SendBlock(logged)
<1>1. /\ kept \in [Indices -> Endpoint]
      /\ \A k \in Indices : 
           /\ \A f \in {"provides", "declare", "templates", "peak_load", "load_pattern", "included",
                        "providers_to_stream", "required_providers"} : kept[k][f] = es[k][f]
           /\ SelectReads(kept[k].logs) \subseteq SelectReads(es[k].logs)
           /\ LogsTo(kept[k]) = IF on THEN LogsTo(es[k]) ELSE {}
  <2>1. CASE on
    BY <2>1
  <2>2. CASE ~on
    <3>1. kept = Cleared(es)
      BY <2>2
    <3>2. /\ Cleared(es) \in [Indices -> Endpoint]
          /\ \A k \in Indices :
               /\ \A f \in {"provides", "declare", "templates", "peak_load", "load_pattern", "included",
                            "providers_to_stream", "required_providers"} : Cleared(es)[k][f] = es[k][f]
               /\ SelectReads(Cleared(es)[k].logs) = {} /\ LogsTo(Cleared(es)[k]) = {}
      BY ClearedEffect
    <3> HIDE DEF kept
    <3> QED BY <2>2, <3>1, <3>2
  <2> QED BY <2>1, <2>2
<1> HIDE DEF kept
<1>2. /\ logged \in [Indices -> Endpoint]
      /\ \A k \in Indices :
           /\ \A f \in {"provides", "declare", "templates", "peak_load", "load_pattern", "included"} : logged[k][f] = kept[k][f]
           /\ logged[k].providers_to_stream = kept[k].providers_to_stream
           /\ logged[k].required_providers = kept[k].required_providers
           /\ SelectReads(logged[k].logs) = SelectReads(kept[k].logs) \cup TryRunLogger.reads
           /\ LogsTo(logged[k]) = LogsTo(kept[k]) \cup {TryRunLogger.name}
  <2>1. \A S \in SUBSET Names : S \cup Required(TryRunLogger.reads) = S
    BY TryLogger
  <2>2. \A k \in Indices : kept[k].providers_to_stream \in SUBSET Names /\ kept[k].required_providers \in SUBSET Names
    BY <1>1 DEF Endpoint
  <2>3. /\ LogTo(kept, TryRunLogger) \in [Indices -> Endpoint]
        /\ \A k \in Indices : LET e == kept[k] o == LogTo(kept, TryRunLogger)[k] IN
              /\ \A f \in {"provides", "declare", "templates", "peak_load", "load_pattern", "included"} : o[f] = e[f]
              /\ o.providers_to_stream = e.providers_to_stream \cup Required(TryRunLogger.reads)
              /\ o.required_providers = e.required_providers \cup Required(TryRunLogger.reads)
              /\ SelectReads(o.logs) = SelectReads(e.logs) \cup TryRunLogger.reads
              /\ LogsTo(o) = LogsTo(e) \cup {TryRunLogger.name}
    <3>1. kept \in [Indices -> Endpoint] /\ TryRunLogger \in LoggerPreProcessed
      BY <1>1, TryLogger
    <3> QED BY <3>1, LogToEffect
  <2> QED BY <2>1, <2>2, <2>3
<1> HIDE DEF logged
<1>3. /\ built \in [Indices -> Endpoint]
      /\ \A k \in Indices :
           /\ \A f \in {"declare", "templates", "logs", "peak_load", "load_pattern", "included",
                        "providers_to_stream", "required_providers"} : built[k][f] = logged[k][f]
           /\ SelectReads(built[k].provides) = SelectReads(logged[k].provides) /\ ProvidesTo(built[k]) = ProvidesTo(logged[k])
  BY <1>2, SendBlockEffect
<1> HIDE DEF built
<1>4. ASSUME NEW k \in Indices
      PROVE  /\ \A f \in {"declare", "templates", "peak_load", "load_pattern", "included",
                          "providers_to_stream", "required_providers"} : built[k][f] = es[k][f]
             /\ SelectReads(built[k].provides) = SelectReads(es[k].provides)
             /\ ProvidesTo(built[k]) = ProvidesTo(es[k])
             /\ LogsTo(built[k]) = (IF on THEN LogsTo(es[k]) ELSE {}) \cup {TryRunLogger.name}
             /\ Required(SelectReads(built[k].logs)) \subseteq Required(SelectReads(es[k].logs))
  <2>1. logged[k].provides = es[k].provides
    BY <1>1, <1>2
  <2>2. built[k].logs = logged[k].logs
    BY <1>3
  <2>3. SelectReads(built[k].logs) \subseteq SelectReads(es[k].logs) \cup TryRunLogger.reads
    BY <1>1, <1>2, <2>2
  <2>4. Required(SelectReads(built[k].logs)) \subseteq Required(SelectReads(es[k].logs))
    BY <2>3, TryLogger DEF Required
  <2>5. LogsTo(built[k]) = LogsTo(logged[k])
    BY <2>2 DEF LogsTo
  <2>6. ProvidesTo(built[k]) = ProvidesTo(es[k])
    <3>1. ProvidesTo(built[k]) = ProvidesTo(logged[k])
      BY <1>3
    <3> QED BY <2>1, <3>1 DEF ProvidesTo
  <2>7. SelectReads(built[k].provides) = SelectReads(es[k].provides)
    BY <1>3, <2>1
  <2>8. /\ built[k].declare = es[k].declare /\ built[k].templates = es[k].templates
        /\ built[k].peak_load = es[k].peak_load /\ built[k].load_pattern = es[k].load_pattern
        /\ built[k].included = es[k].included /\ built[k].providers_to_stream = es[k].providers_to_stream
        /\ built[k].required_providers = es[k].required_providers
    BY <1>1, <1>2, <1>3
  <2> QED BY <1>1, <1>2, <2>4, <2>5, <2>6, <2>7, <2>8
<1> QED BY <1>3, <1>4 DEF built, logged, kept

LEMMA InitType == Init => TypeInv
BY DEF Init, TypeInv, ProviderNames

LEMMA NextType == TypeInv /\ [Next]_vars => TypeInv'
<1> SUFFICES ASSUME TypeInv, [Next]_vars
             PROVE  TypeInv'
  OBVIOUS
<1>0. file \in Files
  BY DEF TypeInv
<1>1. CASE ReadEndpoints
  <2>1. \A k \in Indices : file.endpoints[k] \in EndpointPreProcessed
    BY <1>0, FileTypes, ElementOfSeq DEF Indices
  <2>2. \A k \in Indices : FromPreprocessed(file.endpoints[k]) \in Endpoint
    BY <1>0, <2>1, FromPreprocessedType
  <2>3. endpoints' \in [Indices -> Endpoint]
    BY <1>1, <2>2 DEF ReadEndpoints, Indices
  <2> QED BY <1>1, <2>3 DEF ReadEndpoints, TypeInv, Indices, tryVars, ProviderNames
<1>2. CASE AddLogger
  <2> DEFINE logger == file.loggers[at]
  <2>1. logger \in LoggerPreProcessed /\ phase = "loggers"
    BY <1>0, <1>2, FileTypes, ElementOfSeq DEF AddLogger
  <2>3. endpoints \in [Indices -> Endpoint]
    BY <2>1 DEF TypeInv
  <2>4. LogTo(endpoints, logger) \in [Indices -> Endpoint]
    BY <2>1, <2>3, LogToEffect
  <2>5. endpoints' \in [Indices -> Endpoint] /\ at' \in Nat \ {0}
    BY <1>2, <2>3, <2>4 DEF AddLogger, TypeInv
  <2> QED BY <1>2, <2>5 DEF AddLogger, TypeInv, Indices, tryVars, ProviderNames
<1>3. CASE Verify
  BY <1>3 DEF Verify, TypeInv, Indices, tryVars, ProviderNames
<1>4. CASE StartLoadTest
  BY <1>4 DEF StartLoadTest, TypeInv, Indices, tryVars, ProviderNames
<1>5. ASSUME NEW on \in BOOLEAN, StartTryRun(on)
      PROVE  TypeInv'
  <2>1. phase = "loaded" /\ endpoints \in [Indices -> Endpoint]
    BY <1>5 DEF StartTryRun, TypeInv
  <2>2. endpoints' \in [Indices -> Endpoint]
    BY <1>5, <2>1, TryEndpoints DEF StartTryRun
  <2>3. providers' \in [ProviderNames -> SUBSET Indices]
    BY <1>5, <2>2 DEF StartTryRun, ProvidedBy
  <2> QED BY <1>5, <2>2, <2>3 DEF StartTryRun, TypeInv, Indices, ProviderNames
<1>6. ASSUME NEW i \in Indices, NEW bypass_filter \in BOOLEAN, NEW queue \in SUBSET Indices,
             Include(i, bypass_filter, queue), file' = file
      PROVE  /\ providers' \in [ProviderNames -> SUBSET Indices]' /\ (required_indices \subseteq Indices)'
             /\ (needed \in [DOMAIN needed -> BOOLEAN] /\ DOMAIN needed \subseteq Indices)'
  BY <1>6 DEF Include, TypeInv, Indices, ProviderNames, ResponseProviders
<1>7. CASE Filter
  <2>1. phase # "parsed" /\ phase' = phase /\ endpoints' = endpoints /\ file' = file /\ at \in Indices
    BY <1>7 DEF Filter, TypeInv
  <2>2. CASE endpoints[at].included
    <3>1. Include(at, FALSE, required_indices) /\ required_indices \in SUBSET Indices
      BY <1>7, <2>2 DEF Filter, TypeInv
    <3>2. /\ providers' \in [ProviderNames -> SUBSET Indices]' /\ (required_indices \subseteq Indices)'
          /\ (needed \in [DOMAIN needed -> BOOLEAN] /\ DOMAIN needed \subseteq Indices)'
      BY <1>6, <2>1, <3>1
    <3> QED BY <1>7, <2>1, <3>2 DEF Filter, TypeInv, Indices
  <2>3. CASE ~endpoints[at].included
    BY <1>7, <2>1, <2>3 DEF Filter, TypeInv, Indices, tryVars, ProviderNames
  <2> QED BY <2>2, <2>3
<1>8. ASSUME NEW i \in required_indices, SelectNew(i)
      PROVE  TypeInv'
  <2>1. i \in Indices /\ required_indices \ {i} \in SUBSET Indices /\ file' = file
    BY <1>8 DEF SelectNew, TypeInv
  <2>2. Include(i, TRUE, required_indices \ {i})
    BY <1>8 DEF SelectNew
  <2>3. /\ providers' \in [ProviderNames -> SUBSET Indices]' /\ (required_indices \subseteq Indices)'
        /\ (needed \in [DOMAIN needed -> BOOLEAN] /\ DOMAIN needed \subseteq Indices)'
    BY <1>6, <2>1, <2>2
  <2> QED BY <1>8, <2>1, <2>3 DEF SelectNew, TypeInv, Indices
<1>9. ASSUME NEW i \in required_indices, SelectAgain(i)
      PROVE  TypeInv'
  BY <1>9 DEF SelectAgain, TypeInv, Indices, ProviderNames
<1>10. CASE BuildTryRun
  BY <1>10 DEF BuildTryRun, TypeInv, Indices, tryVars, ProviderNames
<1>11. CASE UNCHANGED vars
  BY <1>11 DEF vars, TypeInv, Indices, ProviderNames
<1> QED BY <1>1, <1>2, <1>3, <1>4, <1>5, <1>7, <1>8, <1>9, <1>10, <1>11 DEF Next

-----------------------------------------------------------------------------
(***************************************************************************)
(* The names of an endpoint.  What it takes from providers when it runs    *)
(* was fixed when the file was read: ReadsInv says that it has been, at    *)
(* every moment since, all that its parts read, and that what is verified  *)
(* is what it takes, save what its own logs read.                          *)
(***************************************************************************)
ReadsKept(e, b) ==
  /\ Required(e.templates \cup SelectReads(e.provides))
       \subseteq (e.providers_to_stream \cap e.required_providers) \cup DeclaredNames(e)
  /\ Required(SelectReads(e.logs)) \subseteq e.providers_to_stream
  /\ e.providers_to_stream \subseteq e.required_providers \cup SelectReads(b.logs)
  /\ Required(SelectReads(e.declare)) \subseteq e.required_providers
  /\ e.required_providers \subseteq e.providers_to_stream \cup Required(SelectReads(e.declare))

ReadsInv == phase # "parsed" => \A k \in Indices : ReadsKept(endpoints[k], file.endpoints[k])

VerifiedInv == phase \in {"loaded", "filter", "running", "panicked"} => \A k \in Indices : Verified(endpoints[k])

\* What was no error when the endpoint was read is none after loggers made it require more.
PaceInv == phase # "parsed" /\ mode # "try" /\ load_test_errors = {} => \A k \in Indices : ErrorsOf(endpoints[k]) = {}

TryCall(k) == IF needed[k] THEN Built(endpoints[k], FALSE)
              ELSE [Built(endpoints[k], FALSE) EXCEPT !.start = "once", !.provides = <<>>]

PhaseInv ==
  /\ phase \in {"parsed", "loggers", "loaded"} => mode = "none"
  /\ phase = "filter" => mode = "try"
  /\ phase # "running" => calls = <<>>
  /\ phase = "running" /\ mode = "load" =>
       /\ load_test_errors = {}
       /\ calls = [k \in Indices |-> Built(endpoints[k], Paced(endpoints[k]))]
  /\ phase = "running" /\ mode # "load" =>
       /\ mode = "try" /\ required_indices = {} /\ at \notin Indices
       /\ calls = [k \in DOMAIN needed |-> TryCall(k)]

LEMMA WithSendReads ==
  ASSUME NEW b \in EndpointPreProcessed
  PROVE  SelectReads(WithSend(b)) = SelectReads(b.provides)
<1>1. b.provides \in Seq(ProvidesPreProcessed)
  BY DEF EndpointPreProcessed
<1>2. DOMAIN b.provides = 1..Len(b.provides)
  BY <1>1
<1>3. \A i \in DOMAIN b.provides : b.provides[i] \in ProvidesPreProcessed
  BY <1>1, <1>2, ElementOfSeq
<1>4. \A i \in DOMAIN b.provides : WithSend(b)[i].reads = b.provides[i].reads
  BY <1>3 DEF WithSend, ProvidesPreProcessed
<1>5. DOMAIN WithSend(b) = DOMAIN b.provides
  BY DEF WithSend
<1> QED BY <1>4, <1>5 DEF SelectReads

LEMMA FromPreprocessedReads ==
  ASSUME NEW b \in EndpointPreProcessed
  PROVE  ReadsKept(FromPreprocessed(b), b)
<1> DEFINE e == FromPreprocessed(b)
           stream == RequestReads(b) \ DeclaredNames(b)
<1>1. /\ e.provides = WithSend(b) /\ e.declare = b.declare /\ e.logs = b.logs
      /\ e.templates = HeaderReads(b) \cup b.url \cup b.tags \cup b.body
      /\ e.providers_to_stream = stream \cup Required(SelectReads(b.logs))
      /\ e.required_providers = Required(SelectReads(b.declare)) \cup stream
  BY DEF FromPreprocessed
<1>2. DeclaredNames(e) = DeclaredNames(b)
  BY <1>1 DEF DeclaredNames
<1>3. SelectReads(e.provides) = SelectReads(b.provides)
  BY <1>1, WithSendReads
<1>4. Required(e.templates \cup SelectReads(e.provides)) = RequestReads(b)
  BY <1>1, <1>3 DEF RequestReads, Required
<1> HIDE DEF e
<1> QED BY <1>1, <1>2, <1>4 DEF ReadsKept, Required, e

LEMMA LogToReads ==
  ASSUME NEW es \in [Indices -> Endpoint], NEW l \in LoggerPreProcessed, NEW k \in Indices, NEW b, ReadsKept(es[k], b)
  PROVE  ReadsKept(LogTo(es, l)[k], b)
<1> DEFINE e == es[k]  o == LogTo(es, l)[k]
<1>1. /\ o.providers_to_stream = e.providers_to_stream \cup Required(l.reads)
      /\ o.required_providers = e.required_providers \cup Required(l.reads)
      /\ SelectReads(o.logs) = SelectReads(e.logs) \cup l.reads
  <2>1. o.providers_to_stream = e.providers_to_stream \cup Required(l.reads)
    BY LogToEffect
  <2>2. o.required_providers = e.required_providers \cup Required(l.reads)
    BY LogToEffect
  <2>3. SelectReads(o.logs) = SelectReads(e.logs) \cup l.reads
    BY LogToEffect
  <2> QED BY <2>1, <2>2, <2>3
<1>3. /\ o.provides = e.provides /\ o.declare = e.declare /\ o.templates = e.templates
  BY LogToEffect
<1> HIDE DEF o
<1>2. DeclaredNames(o) = DeclaredNames(e)
  BY <1>3 DEF DeclaredNames
<1> QED BY <1>1, <1>2, <1>3 DEF ReadsKept, Required, o

LEMMA LogToErrors ==
  ASSUME NEW es \in [Indices -> Endpoint], NEW l \in LoggerPreProcessed, NEW k \in Indices, ErrorsOf(es[k]) = {}
  PROVE  ErrorsOf(LogTo(es, l)[k]) = {}
<1> DEFINE e == es[k]  o == LogTo(es, l)[k]
<1>1. /\ o.provides = e.provides /\ o.peak_load = e.peak_load /\ o.load_pattern = e.load_pattern
      /\ o.required_providers = e.required_providers \cup Required(l.reads)
  BY LogToEffect
<1>2. e.peak_load \in BOOLEAN
  BY DEF Endpoint
<1> HIDE DEF o, e
<1>3. CASE e.peak_load
  BY <1>1, <1>3 DEF ErrorsOf, o, e
<1>4. CASE ~e.peak_load
  <2>1. e.required_providers \cap ResponseProviders # {} \/ \E i \in DOMAIN e.provides : e.provides[i].send = "block"
    BY <1>4 DEF ErrorsOf, e
  <2>2. o.required_providers \cap ResponseProviders # {} \/ \E i \in DOMAIN o.provides : o.provides[i].send = "block"
    BY <1>1, <2>1
  <2> QED BY <1>1, <1>4, <2>2 DEF ErrorsOf, o, e
<1> QED BY <1>2, <1>3, <1>4

\* The names of an endpoint of a try run.
LEMMA TryReads ==
  ASSUME NEW es \in [Indices -> Endpoint], NEW on \in BOOLEAN, NEW k \in Indices, NEW b, ReadsKept(es[k], b)
  PROVE  ReadsKept(SendBlock(LogTo(IF on THEN es ELSE Cleared(es), TryRunLogger))[k], b)
<1> DEFINE e == es[k]
           o == SendBlock(LogTo(IF on THEN es ELSE Cleared(es), TryRunLogger))[k]
<1>1. /\ o.declare = e.declare /\ o.templates = e.templates
      /\ o.providers_to_stream = e.providers_to_stream
      /\ o.required_providers = e.required_providers
      /\ SelectReads(o.provides) = SelectReads(e.provides)
      /\ Required(SelectReads(o.logs)) \subseteq Required(SelectReads(e.logs))
  BY TryEndpoints
<1> HIDE DEF o
<1>2. DeclaredNames(o) = DeclaredNames(e)
  BY <1>1 DEF DeclaredNames
<1> QED BY <1>1, <1>2 DEF ReadsKept, o

-----------------------------------------------------------------------------
(***************************************************************************)
(* What is looked up is there.                                             *)
(***************************************************************************)
NamesInv == ReadsInv /\ VerifiedInv /\ PaceInv /\ PhaseInv /\ BuildFinds

\* An endpoint that was verified is built, unless one of its declares reads a special name.
LEMMA VerifiedFinds ==
  ASSUME NEW e, NEW b, NEW outs, ReadsKept(e, b), LogsTo(e) \subseteq outs,
         e.required_providers \cup ProvidesTo(e) \subseteq ProviderNames, ~Finds(e, outs)
  PROVE  DeclaresSpecial(e)
<1>1. PICK n \in SelectReads(e.declare) \ file.vars : n \notin ProviderNames
  BY DEF Finds
<1>2. n \notin Required(SelectReads(e.declare))
  BY <1>1 DEF ReadsKept
<1> QED BY <1>1, <1>2 DEF Required, DeclaresSpecial

LEMMA InitNames == Init => NamesInv
<1> SUFFICES ASSUME Init PROVE NamesInv
  OBVIOUS
<1>1. phase = "parsed" /\ mode = "none" /\ calls = <<>>
  BY DEF Init
<1> QED BY <1>1 DEF NamesInv, ReadsInv, VerifiedInv, PaceInv, PhaseInv, BuildFinds

LEMMA NextNames == TypeInv /\ NamesInv /\ [Next]_vars => NamesInv'
<1> SUFFICES ASSUME TypeInv, NamesInv, [Next]_vars
             PROVE  NamesInv'
  OBVIOUS
<1>0. file \in Files
  BY DEF TypeInv
<1>1. CASE ReadEndpoints
  <2>1. /\ phase' = "loggers" /\ phase = "parsed" /\ mode' = mode /\ calls' = calls /\ file' = file
        /\ endpoints' = [k \in Indices |-> FromPreprocessed(file.endpoints[k])]
        /\ load_test_errors' = UNION {ErrorsOf(endpoints'[k]) : k \in DOMAIN endpoints'}
    BY <1>1 DEF ReadEndpoints, Indices
  <2>2. \A k \in Indices : file.endpoints[k] \in EndpointPreProcessed
    BY <1>0, FileTypes, ElementOfSeq DEF Indices
  <2>3. \A k \in Indices : ReadsKept(endpoints'[k], file.endpoints[k])
    BY <2>1, <2>2, FromPreprocessedReads
  <2>4. ReadsInv'
    <3>1. file' = file
      BY <2>1
    <3> QED BY <2>3, <3>1 DEF ReadsInv, Indices, ReadsKept, Required, DeclaredNames, SelectReads
  <2>5. load_test_errors' = {} => \A k \in Indices : ErrorsOf(endpoints'[k]) = {}
    BY <2>1
  <2>6. PaceInv'
    <3>1. file' = file
      BY <2>1
    <3> QED BY <2>5, <3>1 DEF PaceInv, Indices, ErrorsOf, ResponseProviders, ProviderNames
  <2>7. mode = "none" /\ calls = <<>>
    BY <2>1 DEF NamesInv, PhaseInv
  <2>8. PhaseInv' /\ VerifiedInv' /\ BuildFinds'
    BY <2>1, <2>7 DEF PhaseInv, VerifiedInv, BuildFinds
  <2> QED BY <2>4, <2>6, <2>8 DEF NamesInv
<1>2. CASE AddLogger
  <2> DEFINE logger == file.loggers[at]
  <2>1. /\ phase = "loggers" /\ at \in DOMAIN file.loggers /\ mode' = mode /\ calls' = calls /\ file' = file
        /\ load_test_errors' = load_test_errors /\ phase' \in {"loggers", "refused"}
        /\ endpoints' = endpoints \/ endpoints' = LogTo(endpoints, logger)
    BY <1>2 DEF AddLogger
  <2>2. logger \in LoggerPreProcessed
    BY <1>0, <2>1, FileTypes, ElementOfSeq
  <2>3. endpoints \in [Indices -> Endpoint]
    BY <2>1 DEF TypeInv
  <2>4. \A k \in Indices : ReadsKept(endpoints[k], file.endpoints[k])
    BY <2>1 DEF NamesInv, ReadsInv
  <2>5. \A k \in Indices : ReadsKept(LogTo(endpoints, logger)[k], file.endpoints[k])
    BY <2>2, <2>3, <2>4, LogToReads
  <2>6. \A k \in Indices : ReadsKept(endpoints'[k], file.endpoints[k])
    BY <2>1, <2>4, <2>5
  <2>7. ReadsInv'
    <3>1. file' = file
      BY <2>1
    <3> QED BY <2>6, <3>1 DEF ReadsInv, Indices, ReadsKept, Required, DeclaredNames, SelectReads
  <2>8. mode = "none" /\ calls = <<>>
    BY <2>1 DEF NamesInv, PhaseInv
  <2>9. load_test_errors = {} => \A k \in Indices : ErrorsOf(endpoints'[k]) = {}
    <3>1. load_test_errors = {} => \A k \in Indices : ErrorsOf(endpoints[k]) = {}
      BY <2>1, <2>8 DEF NamesInv, PaceInv
    <3>2. load_test_errors = {} => \A k \in Indices : ErrorsOf(LogTo(endpoints, logger)[k]) = {}
      BY <2>2, <2>3, <3>1, LogToErrors
    <3> QED BY <2>1, <3>1, <3>2
  <2>10. PaceInv'
    <3>1. file' = file /\ load_test_errors' = load_test_errors
      BY <2>1
    <3> QED BY <2>9, <3>1 DEF PaceInv, Indices, ErrorsOf, ResponseProviders, ProviderNames
  <2>11. PhaseInv' /\ VerifiedInv' /\ BuildFinds'
    BY <2>1, <2>8 DEF PhaseInv, VerifiedInv, BuildFinds
  <2> QED BY <2>7, <2>10, <2>11 DEF NamesInv
<1>3. CASE Verify
  <2>1. /\ phase = "loggers" /\ mode' = mode /\ calls' = calls /\ file' = file /\ loggers' = loggers
        /\ load_test_errors' = load_test_errors /\ endpoints' = endpoints
        /\ phase' = IF \A k \in DOMAIN endpoints : Verified(endpoints[k]) THEN "loaded" ELSE "refused"
    BY <1>3 DEF Verify
  <2>2. DOMAIN endpoints = Indices
    BY <2>1 DEF TypeInv
  <2>3. ReadsInv' /\ PaceInv'
    BY <2>1 DEF NamesInv, ReadsInv, PaceInv, Indices, ReadsKept, Required, DeclaredNames, SelectReads,
                ErrorsOf, ResponseProviders, ProviderNames
  <2>4. VerifiedInv'
    BY <2>1, <2>2 DEF VerifiedInv, Verified, LogsTo, ProvidesTo, Targets, ProviderNames, Indices
  <2>5. mode = "none" /\ calls = <<>>
    BY <2>1 DEF NamesInv, PhaseInv
  <2>6. PhaseInv' /\ BuildFinds'
    BY <2>1, <2>5 DEF PhaseInv, BuildFinds
  <2> QED BY <2>3, <2>4, <2>6 DEF NamesInv
<1>4. CASE StartLoadTest
  <2>1. /\ phase = "loaded" /\ mode' = "load" /\ file' = file /\ loggers' = loggers
        /\ load_test_errors' = load_test_errors /\ endpoints' = endpoints
        /\ phase' = IF load_test_errors # {} THEN "refused"
                    ELSE IF \A k \in DOMAIN endpoints : Finds(endpoints[k], loggers) THEN "running" ELSE "panicked"
        /\ calls' = IF phase' = "running" THEN [k \in DOMAIN endpoints |-> Built(endpoints[k], Paced(endpoints[k]))] ELSE calls
    BY <1>4 DEF StartLoadTest
  <2>2. DOMAIN endpoints = Indices /\ endpoints \in [Indices -> Endpoint]
    BY <2>1 DEF TypeInv
  <2>3. mode = "none" /\ calls = <<>>
    BY <2>1 DEF NamesInv, PhaseInv
  <2>4. ReadsInv' /\ PaceInv'
    BY <2>1, <2>3 DEF NamesInv, ReadsInv, PaceInv, Indices, ReadsKept, Required, DeclaredNames, SelectReads,
                ErrorsOf, ResponseProviders, ProviderNames
  <2>5. VerifiedInv'
    BY <2>1 DEF NamesInv, VerifiedInv, Verified, LogsTo, ProvidesTo, Targets, ProviderNames, Indices
  <2>6. BuildFinds'
    <3>1. SUFFICES ASSUME phase' = "panicked"
                   PROVE  \E k \in DOMAIN endpoints : DeclaresSpecial(endpoints[k])
      BY <2>1 DEF BuildFinds, DeclaresSpecial, SelectReads
    <3>2. PICK k \in Indices : ~Finds(endpoints[k], loggers)
      BY <2>1, <2>2, <3>1
    <3>3. ReadsKept(endpoints[k], file.endpoints[k]) /\ Verified(endpoints[k])
      BY <2>1 DEF NamesInv, ReadsInv, VerifiedInv
    <3> QED BY <2>2, <3>2, <3>3, VerifiedFinds DEF Verified
  <2>7. PhaseInv'
    <3>1. phase' \in {"refused", "running", "panicked"} /\ (phase' = "running" => load_test_errors = {})
      BY <2>1
    <3>2. phase' # "running" => calls' = <<>>
      BY <2>1, <2>3
    <3>3. phase' = "running" => calls' = [k \in Indices |-> Built(endpoints[k], Paced(endpoints[k]))]'
      BY <2>1, <2>2 DEF Indices, Built, Paced, LogsTo, Targets, ProviderNames, DeclaredNames, Required, SelectReads
    <3> QED BY <2>1, <3>1, <3>2, <3>3 DEF PhaseInv
  <2> QED BY <2>4, <2>5, <2>6, <2>7 DEF NamesInv
<1>5. ASSUME NEW on \in BOOLEAN, StartTryRun(on)
      PROVE  NamesInv'
  <2> DEFINE built == SendBlock(LogTo(IF on THEN endpoints ELSE Cleared(endpoints), TryRunLogger))
  <2>1. /\ phase = "loaded" /\ mode' = "try" /\ file' = file /\ calls' = calls
        /\ endpoints' = built
        /\ loggers' = (IF on THEN loggers ELSE {}) \cup {TryRunLogger.name}
        /\ phase' = IF \A k \in DOMAIN endpoints' : Finds(endpoints'[k], loggers') THEN "filter" ELSE "panicked"
    BY <1>5 DEF StartTryRun
  <2>2. endpoints \in [Indices -> Endpoint]
    BY <2>1 DEF TypeInv
  <2>3. mode = "none" /\ calls = <<>>
    BY <2>1 DEF NamesInv, PhaseInv
  <2>4. \A k \in Indices : ReadsKept(endpoints[k], file.endpoints[k]) /\ Verified(endpoints[k])
    BY <2>1 DEF NamesInv, ReadsInv, VerifiedInv
  <2>5. \A k \in Indices : ReadsKept(endpoints'[k], file.endpoints[k])
    BY <2>1, <2>2, <2>4, TryReads
  <2>6. ReadsInv'
    <3>1. file' = file
      BY <2>1
    <3> QED BY <2>5, <3>1 DEF ReadsInv, Indices, ReadsKept, Required, DeclaredNames, SelectReads
  <2>7. \A k \in Indices : /\ LogsTo(endpoints'[k]) \subseteq loggers'
                            /\ endpoints'[k].required_providers \cup ProvidesTo(endpoints'[k]) \subseteq ProviderNames
    <3> SUFFICES ASSUME NEW k \in Indices
                 PROVE  /\ LogsTo(endpoints'[k]) \subseteq loggers'
                        /\ endpoints'[k].required_providers \cup ProvidesTo(endpoints'[k]) \subseteq ProviderNames
      OBVIOUS
    <3> DEFINE e == endpoints[k]  o == built[k]
    <3>1. /\ ProvidesTo(o) = ProvidesTo(e)
          /\ LogsTo(o) = (IF on THEN LogsTo(e) ELSE {}) \cup {TryRunLogger.name}
          /\ o.required_providers = e.required_providers
      BY <2>2, TryEndpoints
    <3> HIDE DEF o
    <3>2. LogsTo(e) \subseteq loggers /\ e.required_providers \cup ProvidesTo(e) \subseteq ProviderNames
      BY <2>4 DEF Verified
    <3>3. loggers' = (IF on THEN loggers ELSE {}) \cup {TryRunLogger.name}
      BY <2>1
    <3>4. LogsTo(o) \subseteq loggers' /\ o.required_providers \cup ProvidesTo(o) \subseteq ProviderNames
      BY <3>1, <3>2, <3>3
    <3>5. endpoints'[k] = o
      BY <2>1 DEF o
    <3> QED BY <3>4, <3>5
  <2>8. VerifiedInv'
    <3>1. file' = file
      BY <2>1
    <3> QED BY <2>7, <3>1 DEF VerifiedInv, Indices, Verified, LogsTo, ProvidesTo, Targets, ProviderNames
  <2>9. BuildFinds'
    <3>1. SUFFICES ASSUME phase' = "panicked"
                   PROVE  \E k \in DOMAIN endpoints' : DeclaresSpecial(endpoints'[k])
      BY DEF BuildFinds, DeclaresSpecial, SelectReads
    <3>2. DOMAIN endpoints' = Indices
      BY <2>1, <2>2, TryEndpoints
    <3>3. PICK k \in Indices : ~Finds(endpoints'[k], loggers')
      <4>1. ~\A k \in DOMAIN endpoints' : Finds(endpoints'[k], loggers')
        BY <2>1, <3>1
      <4> QED BY <3>2, <4>1
    <3> QED BY <2>5, <2>7, <3>2, <3>3, VerifiedFinds
  <2>10. PaceInv' /\ PhaseInv'
    <3>1. phase' \in {"filter", "panicked"} /\ mode' = "try" /\ calls' = <<>>
      BY <2>1, <2>3
    <3> QED BY <3>1 DEF PaceInv, PhaseInv
  <2> QED BY <2>6, <2>8, <2>9, <2>10 DEF NamesInv
<1>6. ASSUME phase = "filter", phase' \in {"filter", "running"}, UNCHANGED <<file, mode, endpoints, loggers, load_test_errors>>
      PROVE  /\ ReadsInv' /\ VerifiedInv' /\ PaceInv' /\ BuildFinds'
             /\ phase' = "filter" /\ calls' = calls => PhaseInv'
  <2>1. mode = "try" /\ calls = <<>>
    BY <1>6 DEF NamesInv, PhaseInv
  <2>2. ReadsInv' /\ PaceInv'
    BY <1>6, <2>1 DEF NamesInv, ReadsInv, PaceInv, Indices, ReadsKept, Required, DeclaredNames, SelectReads
  <2>3. VerifiedInv' /\ BuildFinds'
    BY <1>6 DEF NamesInv, VerifiedInv, Verified, LogsTo, ProvidesTo, Targets, ProviderNames, Indices, BuildFinds
  <2>4. phase' = "filter" /\ calls' = calls => PhaseInv'
    BY <1>6, <2>1 DEF PhaseInv
  <2> QED BY <2>2, <2>3, <2>4
<1>7. CASE Filter
  BY <1>6, <1>7 DEF Filter, NamesInv
<1>8. ASSUME NEW i, SelectNew(i) \/ SelectAgain(i)
      PROVE  NamesInv'
  BY <1>6, <1>8 DEF SelectNew, SelectAgain, NamesInv
<1>9. CASE BuildTryRun
  <2>1. /\ phase = "filter" /\ phase' = "running" /\ at \notin DOMAIN endpoints /\ required_indices = {}
        /\ UNCHANGED <<file, at, mode, endpoints, loggers, load_test_errors, required_indices, needed>>
        /\ calls' = [k \in DOMAIN needed |-> TryCall(k)]
    BY <1>9 DEF BuildTryRun, tryVars, TryCall
  <2>2. mode = "try" /\ DOMAIN endpoints = Indices
    BY <2>1 DEF NamesInv, PhaseInv, TypeInv
  <2>3. \A k : TryCall(k)' = TryCall(k)
    <3>1. UNCHANGED <<file, endpoints, needed>>
      BY <2>1
    <3> QED BY <3>1 DEF TryCall, Built, LogsTo, Targets, ProviderNames, DeclaredNames, Required, SelectReads
  <2>4. Indices' = Indices /\ calls' = [k \in DOMAIN needed |-> TryCall(k)]'
    BY <2>1, <2>3 DEF Indices
  <2>5. PhaseInv'
    BY <2>1, <2>2, <2>4 DEF PhaseInv
  <2> QED BY <1>6, <2>1, <2>5 DEF NamesInv
<1>10. CASE UNCHANGED vars
  <2>1. \A k : TryCall(k)' = TryCall(k)
    BY <1>10 DEF vars, tryVars, TryCall, Built, LogsTo, Targets, ProviderNames, DeclaredNames, Required, SelectReads
  <2>2. \A k : Built(endpoints[k], Paced(endpoints[k]))' = Built(endpoints[k], Paced(endpoints[k]))
    BY <1>10 DEF vars, Built, Paced, LogsTo, Targets, ProviderNames, DeclaredNames, Required, SelectReads
  <2>3. ReadsInv' /\ VerifiedInv' /\ PaceInv' /\ BuildFinds'
    BY <1>10 DEF vars, NamesInv, ReadsInv, PaceInv, Indices, ReadsKept, Required, DeclaredNames, SelectReads, ErrorsOf,
                ResponseProviders, ProviderNames, VerifiedInv, Verified, LogsTo, ProvidesTo, Targets, BuildFinds, DeclaresSpecial
  <2>4. PhaseInv'
    BY <1>10, <2>1, <2>2 DEF vars, tryVars, NamesInv, PhaseInv, Indices
  <2> QED BY <2>3, <2>4 DEF NamesInv
<1> QED BY <1>1, <1>2, <1>3, <1>4, <1>5, <1>7, <1>8, <1>9, <1>10 DEF Next

-----------------------------------------------------------------------------
\* An endpoint without errors stops for a full provider or waits for the responses of another.
LEMMA EndpointPaced ==
  ASSUME NEW e \in Endpoint, NEW b, ReadsKept(e, b), ErrorsOf(e) = {}
  PROVE  LET call == Built(e, Paced(e)) IN
         \/ call.start = "pattern"
         \/ call.start = "while_read" /\ \E i \in DOMAIN call.provides : call.provides[i].send = "block"
         \/ call.takes \cap ResponseProviders # {}
<1> DEFINE call == Built(e, Paced(e))
<1>1. /\ call.start = IF Paced(e) THEN "pattern" ELSE IF e.provides = <<>> THEN "none" ELSE "while_read"
      /\ call.provides = e.provides
      /\ call.takes = (e.providers_to_stream \cap ProviderNames) \cup Required(SelectReads(e.declare))
  BY DEF Built
<1> HIDE DEF call
<1>2. e.peak_load \in BOOLEAN /\ e.provides \in Seq(ProvidesPreProcessed)
  BY DEF Endpoint
<1>3. CASE e.peak_load
  <2>1. e.load_pattern # 0
    BY <1>3 DEF ErrorsOf
  <2>2. Paced(e)
    BY <1>3, <2>1 DEF Paced
  <2> QED BY <1>1, <2>2 DEF call
<1>4. CASE ~e.peak_load
  <2>0. ~Paced(e)
    BY <1>4 DEF Paced
  <2>1. CASE e.required_providers \cap ResponseProviders # {}
    <3>1. PICK p \in e.required_providers : p \in ResponseProviders
      BY <2>1
    <3>2. p \in call.takes
      BY <1>1, <3>1 DEF ReadsKept, ResponseProviders
    <3> QED BY <3>1, <3>2 DEF call
  <2>2. CASE \E i \in DOMAIN e.provides : e.provides[i].send = "block"
    <3>1. PICK i \in DOMAIN e.provides : e.provides[i].send = "block"
      BY <2>2
    <3>2. e.provides # <<>>
      BY <1>2, <3>1
    <3>3. call.start = "while_read"
      BY <1>1, <2>0, <3>2
    <3> QED BY <1>1, <3>1, <3>3 DEF call
  <2>3. e.required_providers \cap ResponseProviders # {} \/ \E i \in DOMAIN e.provides : e.provides[i].send = "block"
    BY <1>4 DEF ErrorsOf
  <2> QED BY <2>1, <2>2, <2>3
<1> QED BY <1>2, <1>3, <1>4

LEMMA NamesImplyPaced == TypeInv /\ NamesInv => NothingUnpaced
<1> SUFFICES ASSUME TypeInv, NamesInv, mode = "load", NEW k \in DOMAIN calls
             PROVE  \/ calls[k].start = "pattern"
                    \/ calls[k].start = "while_read" /\ \E i \in DOMAIN calls[k].provides : calls[k].provides[i].send = "block"
                    \/ calls[k].takes \cap ResponseProviders # {}
  BY DEF NothingUnpaced
<1>1. phase = "running"
  <2>1. DOMAIN <<>> = {}
    OBVIOUS
  <2> QED BY <2>1 DEF NamesInv, PhaseInv
<1>2. load_test_errors = {} /\ calls = [j \in Indices |-> Built(endpoints[j], Paced(endpoints[j]))]
  BY <1>1 DEF NamesInv, PhaseInv
<1>3. k \in Indices /\ calls[k] = Built(endpoints[k], Paced(endpoints[k]))
  BY <1>2
<1>4. endpoints[k] \in Endpoint
  BY <1>1, <1>3 DEF TypeInv
<1>5. ReadsKept(endpoints[k], file.endpoints[k]) /\ ErrorsOf(endpoints[k]) = {}
  BY <1>1, <1>2, <1>3 DEF NamesInv, ReadsInv, PaceInv
<1> QED BY <1>3, <1>4, <1>5, EndpointPaced

LEMMA NamesImplyValues == TypeInv /\ NamesInv => EveryReadHasAValue
<1> SUFFICES ASSUME TypeInv, NamesInv, NEW k \in DOMAIN calls
             PROVE  /\ Required(endpoints[k].templates \cup SelectReads(endpoints[k].provides)) \subseteq HasValue(k)
                    /\ Required(SelectReads(endpoints[k].logs)) \subseteq HasValue(k) \cup Unchecked(k)
  BY DEF EveryReadHasAValue
<1> DEFINE e == endpoints[k]
<1>1. phase = "running"
  <2>1. DOMAIN <<>> = {}
    OBVIOUS
  <2> QED BY <2>1 DEF NamesInv, PhaseInv
<1>2. k \in Indices /\ calls[k].streams = e.providers_to_stream \cap ProviderNames /\ calls[k].declares = DeclaredNames(e)
  <2>1. CASE mode = "load"
    BY <1>1, <2>1 DEF NamesInv, PhaseInv, Built
  <2>2. CASE mode # "load"
    <3>1. calls = [j \in DOMAIN needed |-> TryCall(j)]
      BY <1>1, <2>2 DEF NamesInv, PhaseInv
    <3>2. k \in Indices /\ calls[k] = TryCall(k)
      BY <3>1 DEF TypeInv
    <3> QED BY <3>2 DEF TryCall, Built
  <2> QED BY <2>1, <2>2
<1>3. ReadsKept(e, file.endpoints[k]) /\ e.required_providers \subseteq ProviderNames
  BY <1>1, <1>2 DEF NamesInv, ReadsInv, VerifiedInv, Verified
<1> HIDE DEF e
<1>4. /\ Required(e.templates \cup SelectReads(e.provides)) \subseteq HasValue(k)
      /\ Required(SelectReads(e.logs)) \subseteq HasValue(k) \cup Unchecked(k)
  BY <1>2, <1>3 DEF ReadsKept, HasValue, Unchecked
<1> QED BY <1>4 DEF e

-----------------------------------------------------------------------------
\* No endpoint of a load test makes requests as fast as it can, whatever the file: each has a load
\* pattern, or stops for a full provider, or waits for the responses of another endpoint
\* (from_config and create_load_test_future).
THEOREM NeverUnpaced == Spec => []NothingUnpaced
<1>1. Init => TypeInv /\ NamesInv
  BY InitType, InitNames
<1>2. TypeInv /\ NamesInv /\ [Next]_vars => (TypeInv /\ NamesInv)'
  BY NextType, NextNames
<1>3. TypeInv /\ NamesInv => NothingUnpaced
  BY NamesImplyPaced
<1> QED BY <1>1, <1>2, <1>3, PTL DEF Spec

-----------------------------------------------------------------------------
(***************************************************************************)
(* The endpoints of a try run.  An endpoint is queued when another one     *)
(* that is in the test requires what it provides; that happens once for    *)
(* each provider, so an emptied provider stands for endpoints that are     *)
(* queued or known to be needed.  Whatever holds of the included endpoints *)
(* and passes on to those they ask holds of all that are taken.            *)
(***************************************************************************)
Wanted(k) == endpoints[k].required_providers \cap ResponseProviders
\* The endpoints some endpoint of the test has asked for: q is the queue, n is endpoints_needed_for_test.
Called(q, n) == q \cup {k \in DOMAIN n : n[k]}

TryKept(provided, q, n, a) ==
  /\ \A p \in ProviderNames : provided[p] = ProvidedBy(endpoints, p) \/ ProvidedBy(endpoints, p) \subseteq Called(q, n)
  /\ \A p \in ProviderNames : provided[p] \subseteq ProvidedBy(endpoints, p)
  /\ \A k \in DOMAIN n : \A p \in Wanted(k) : ProvidedBy(endpoints, p) \subseteq Called(q, n)
  /\ Called(q, n) \subseteq Asked(DOMAIN n)
  /\ \A k \in Indices : k < a /\ endpoints[k].included => k \in DOMAIN n
  /\ a \in Indices => \A k \in DOMAIN n : k < a
  /\ \A S \in SUBSET Indices : Included \cup Asked(S) \subseteq S => DOMAIN n \subseteq S

TryInv ==
  /\ phase \in {"parsed", "loggers", "loaded"} => required_indices = {} /\ needed = <<>>
  /\ phase \in {"filter", "running"} /\ mode = "try" => TryKept(providers, required_indices, needed, at)

\* Who is asked for what.
LEMMA AskedProvide ==
  ASSUME DOMAIN endpoints = Indices, NEW S
  PROVE  \A j : j \in Asked(S) <=> \E k \in S : \E p \in Wanted(k) : j \in ProvidedBy(endpoints, p)
BY DEF Asked, Provider, Wanted, ProvidedBy

LEMMA AskedMonotone ==
  ASSUME DOMAIN endpoints = Indices, NEW S, NEW T, S \subseteq T
  PROVE  Asked(S) \subseteq Asked(T)
BY AskedProvide

LEMMA IndicesRange == file \in Files => \E n \in Nat : Indices = 1..n
<1> SUFFICES ASSUME file \in Files PROVE \E n \in Nat : Indices = 1..n
  OBVIOUS
<1>1. file.endpoints \in Seq(EndpointPreProcessed)
  BY FileTypes
<1> QED BY <1>1 DEF Indices

LEMMA TryKeptNext ==
  ASSUME file' = file, endpoints' = endpoints
  PROVE  TryKept(providers', required_indices', needed', at') => TryKept(providers, required_indices, needed, at)'
<1>1. Indices' = Indices /\ ProviderNames' = ProviderNames /\ Included' = Included
  BY DEF Indices, ProviderNames, Included
<1>2. \A k : Wanted(k)' = Wanted(k)
  BY DEF Wanted, ResponseProviders, ProviderNames
<1>3. \A S : Asked(S)' = Asked(S)
  BY DEF Asked, Provider, ResponseProviders, ProviderNames
<1>4. \A p : ProvidedBy(endpoints, p)' = ProvidedBy(endpoints, p)
  OBVIOUS
<1> QED BY <1>1, <1>2, <1>3, <1>4 DEF TryKept, Called

\* What Include does to the endpoints that are called for.
LEMMA IncludeCalls ==
  ASSUME TypeInv, NEW i \in Indices \ DOMAIN needed, NEW bypass_filter \in BOOLEAN, NEW queue,
         Include(i, bypass_filter, queue),
         bypass_filter => i \in required_indices /\ queue = required_indices \ {i},
         ~bypass_filter => queue = required_indices
  PROVE  /\ DOMAIN needed' = DOMAIN needed \cup {i}
         /\ Called(required_indices', needed')
              = Called(required_indices, needed) \cup (UNION {providers[p] : p \in Wanted(i)})
         /\ \A p \in ProviderNames : providers'[p] = IF p \in Wanted(i) THEN {} ELSE providers[p]
<1>1. /\ needed' = [j \in DOMAIN needed \cup {i} |-> IF j = i THEN bypass_filter ELSE needed[j]]
      /\ required_indices' = queue \cup (UNION {providers[p] : p \in Wanted(i)})
      /\ \A p \in ProviderNames : providers'[p] = IF p \in Wanted(i) THEN {} ELSE providers[p]
  BY DEF Include, Wanted
<1>2. DOMAIN needed' = DOMAIN needed \cup {i}
  BY <1>1
<1>3. CASE bypass_filter
  <2>1. {k \in DOMAIN needed' : needed'[k]} = {k \in DOMAIN needed : needed[k]} \cup {i}
    BY <1>1, <1>3
  <2> QED BY <1>1, <1>2, <1>3, <2>1 DEF Called
<1>4. CASE ~bypass_filter
  <2>1. {k \in DOMAIN needed' : needed'[k]} = {k \in DOMAIN needed : needed[k]}
    BY <1>1, <1>4
  <2> QED BY <1>1, <1>2, <1>4, <2>1 DEF Called
<1> QED BY <1>3, <1>4

LEMMA IncludeKeeps ==
  ASSUME TypeInv, phase # "parsed", TryKept(providers, required_indices, needed, at),
         NEW i \in Indices \ DOMAIN needed, NEW a,
         DOMAIN needed' = DOMAIN needed \cup {i},
         Called(required_indices', needed') = Called(required_indices, needed) \cup (UNION {providers[p] : p \in Wanted(i)}),
         \A p \in ProviderNames : providers'[p] = IF p \in Wanted(i) THEN {} ELSE providers[p],
         i \in Included \cup required_indices,
         \A k \in Indices : k < a => k < at \/ k = i,
         a \in Indices => \A k \in DOMAIN needed \cup {i} : k < a
  PROVE  TryKept(providers', required_indices', needed', a)
<1>0. DOMAIN endpoints = Indices
  BY DEF TypeInv
<1>1. Wanted(i) \subseteq ProviderNames
  BY DEF Wanted, ResponseProviders
<1>2. \A p \in Wanted(i) : ProvidedBy(endpoints, p) \subseteq Called(required_indices', needed')
  <2> SUFFICES ASSUME NEW p \in Wanted(i)
               PROVE  ProvidedBy(endpoints, p) \subseteq Called(required_indices', needed')
    OBVIOUS
  <2>1. providers[p] = ProvidedBy(endpoints, p) \/ ProvidedBy(endpoints, p) \subseteq Called(required_indices, needed)
    BY <1>1 DEF TryKept
  <2> QED BY <2>1
<1>3. \A p \in ProviderNames : \/ providers'[p] = ProvidedBy(endpoints, p)
                               \/ ProvidedBy(endpoints, p) \subseteq Called(required_indices', needed')
  <2> SUFFICES ASSUME NEW p \in ProviderNames, p \notin Wanted(i)
               PROVE  \/ providers'[p] = ProvidedBy(endpoints, p)
                      \/ ProvidedBy(endpoints, p) \subseteq Called(required_indices', needed')
    BY <1>2
  <2>1. providers'[p] = providers[p]
    OBVIOUS
  <2>2. providers[p] = ProvidedBy(endpoints, p) \/ ProvidedBy(endpoints, p) \subseteq Called(required_indices, needed)
    BY DEF TryKept
  <2> QED BY <2>1, <2>2
<1>4. \A p \in ProviderNames : providers'[p] \subseteq ProvidedBy(endpoints, p)
  BY DEF TryKept
<1>5. \A k \in DOMAIN needed' : \A p \in Wanted(k) : ProvidedBy(endpoints, p) \subseteq Called(required_indices', needed')
  <2>1. \A k \in DOMAIN needed : \A p \in Wanted(k) : ProvidedBy(endpoints, p) \subseteq Called(required_indices, needed)
    BY DEF TryKept
  <2> QED BY <1>2, <2>1
<1>6. Called(required_indices', needed') \subseteq Asked(DOMAIN needed')
  <2>1. Called(required_indices, needed) \subseteq Asked(DOMAIN needed')
    <3>1. Called(required_indices, needed) \subseteq Asked(DOMAIN needed)
      BY DEF TryKept
    <3>2. Asked(DOMAIN needed) \subseteq Asked(DOMAIN needed')
      BY <1>0, AskedMonotone
    <3> QED BY <3>1, <3>2
  <2>2. \A p \in Wanted(i) : providers[p] \subseteq Asked(DOMAIN needed')
    <3> SUFFICES ASSUME NEW p \in Wanted(i), NEW j \in providers[p]
                 PROVE  j \in Asked(DOMAIN needed')
      OBVIOUS
    <3>1. j \in ProvidedBy(endpoints, p)
      BY <1>1 DEF TryKept
    <3>2. i \in DOMAIN needed'
      OBVIOUS
    <3> QED BY <1>0, <3>1, <3>2, AskedProvide
  <2> QED BY <2>1, <2>2
<1>7. \A k \in Indices : k < a /\ endpoints[k].included => k \in DOMAIN needed'
  BY DEF TryKept
<1>8. a \in Indices => \A k \in DOMAIN needed' : k < a
  OBVIOUS
<1>9. ASSUME NEW S \in SUBSET Indices, Included \cup Asked(S) \subseteq S
      PROVE  DOMAIN needed' \subseteq S
  <2>1. DOMAIN needed \subseteq S
    BY <1>9 DEF TryKept
  <2>2. CASE i \in Included
    BY <1>9, <2>1, <2>2
  <2>3. CASE i \in required_indices
    <3>1. i \in Asked(DOMAIN needed)
      BY <2>3 DEF TryKept, Called
    <3>2. Asked(DOMAIN needed) \subseteq Asked(S)
      BY <1>0, <2>1, AskedMonotone
    <3> QED BY <1>9, <2>1, <3>1, <3>2
  <2> QED BY <2>2, <2>3
<1> QED BY <1>3, <1>4, <1>5, <1>6, <1>7, <1>8, <1>9 DEF TryKept

LEMMA InitTry == Init => TryInv
BY DEF Init, TryInv

LEMMA NextTry == TypeInv /\ NamesInv /\ TryInv /\ [Next]_vars => TryInv'
<1> SUFFICES ASSUME TypeInv, NamesInv, TryInv, [Next]_vars
             PROVE  TryInv'
  OBVIOUS
<1>1. CASE ReadEndpoints
  BY <1>1 DEF ReadEndpoints, tryVars, TryInv
<1>2. CASE AddLogger
  BY <1>2 DEF AddLogger, tryVars, TryInv
<1>3. CASE Verify
  BY <1>3 DEF Verify, tryVars, TryInv
<1>4. CASE StartLoadTest
  BY <1>4 DEF StartLoadTest, tryVars, TryInv
<1>5. ASSUME NEW on \in BOOLEAN, StartTryRun(on)
      PROVE  TryInv'
  <2>1. /\ phase' \in {"filter", "panicked"} /\ required_indices' = {} /\ needed' = <<>> /\ at' = 1 /\ file' = file
        /\ providers' = [p \in ProviderNames |-> ProvidedBy(endpoints', p)]
    BY <1>5 DEF StartTryRun, TryInv
  <2>2. DOMAIN needed' = {} /\ Called(required_indices', needed') = {}
    BY <2>1 DEF Called
  <2>3. Indices' = Indices /\ ProviderNames' = ProviderNames
    BY <2>1 DEF Indices, ProviderNames
  <2>4. \A p \in ProviderNames : providers'[p] = ProvidedBy(endpoints', p)
    BY <2>1
  <2>5. \A k \in Indices : ~(k < at')
    <3>1. \E n \in Nat : Indices = 1..n
      BY IndicesRange DEF TypeInv
    <3> QED BY <2>1, <3>1
  <2>6. TryKept(providers, required_indices, needed, at)'
    BY <2>2, <2>3, <2>4, <2>5 DEF TryKept, Called
  <2> QED BY <2>1, <2>6 DEF TryInv
<1>6. ASSUME phase = "filter", phase' \in {"filter", "running"}, file' = file, endpoints' = endpoints, mode' = mode,
             TryKept(providers', required_indices', needed', at')
      PROVE  TryInv'
  <2>1. TryKept(providers, required_indices, needed, at)'
    BY <1>6, TryKeptNext
  <2> QED BY <1>6, <2>1 DEF TryInv
<1>7. CASE Filter
  <2>1. /\ phase = "filter" /\ phase' = "filter" /\ at \in Indices /\ at' = at + 1 /\ file' = file /\ endpoints' = endpoints
        /\ mode' = mode /\ mode = "try"
    BY <1>7 DEF Filter, TypeInv, NamesInv, PhaseInv
  <2>2. PICK n \in Nat : Indices = 1..n
    BY IndicesRange DEF TypeInv
  <2>3. TryKept(providers, required_indices, needed, at)
    BY <2>1 DEF TryInv
  <2>4. \A k \in DOMAIN needed : k < at
    BY <2>1, <2>3 DEF TryKept
  <2>5. DOMAIN needed \subseteq Indices /\ DOMAIN endpoints = Indices
    BY <2>1 DEF TypeInv
  <2>6. \A k \in Indices : k < at' => k < at \/ k = at
    BY <2>1, <2>2
  <2>7. \A k \in DOMAIN needed \cup {at} : k < at'
    BY <2>1, <2>2, <2>4, <2>5
  <2>8. CASE endpoints[at].included
    <3>1. at \in Indices \ DOMAIN needed /\ at \in Included
      BY <2>1, <2>2, <2>4, <2>5, <2>8 DEF Included
    <3>2. Include(at, FALSE, required_indices)
      BY <1>7, <2>8 DEF Filter
    <3>3. /\ DOMAIN needed' = DOMAIN needed \cup {at}
          /\ Called(required_indices', needed')
               = Called(required_indices, needed) \cup (UNION {providers[p] : p \in Wanted(at)})
          /\ \A p \in ProviderNames : providers'[p] = IF p \in Wanted(at) THEN {} ELSE providers[p]
      BY <3>1, <3>2, IncludeCalls
    <3>4. phase # "parsed"
      BY <2>1
    <3>5. TryKept(providers', required_indices', needed', at')
      BY <2>3, <2>6, <2>7, <3>1, <3>3, <3>4, IncludeKeeps
    <3> QED BY <1>6, <2>1, <3>5
  <2>9. CASE ~endpoints[at].included
    <3>1. UNCHANGED tryVars
      BY <1>7, <2>9 DEF Filter
    <3>2. \A k \in Indices : k < at' /\ endpoints[k].included => k \in DOMAIN needed
      BY <2>3, <2>6, <2>9 DEF TryKept
    <3>3. TryKept(providers, required_indices, needed, at')
      BY <2>3, <2>7, <3>2 DEF TryKept
    <3> QED BY <1>6, <2>1, <3>1, <3>3 DEF tryVars
  <2> QED BY <2>8, <2>9
<1>8. ASSUME NEW i \in required_indices, SelectNew(i)
      PROVE  TryInv'
  <2>1. /\ phase = "filter" /\ phase' = "filter" /\ at \notin Indices /\ at' = at /\ file' = file /\ endpoints' = endpoints
        /\ mode' = mode /\ mode = "try" /\ i \in Indices \ DOMAIN needed
        /\ Include(i, TRUE, required_indices \ {i})
    BY <1>8 DEF SelectNew, TypeInv, NamesInv, PhaseInv
  <2>2. TryKept(providers, required_indices, needed, at)
    BY <2>1 DEF TryInv
  <2>3. /\ DOMAIN needed' = DOMAIN needed \cup {i}
        /\ Called(required_indices', needed')
             = Called(required_indices, needed) \cup (UNION {providers[p] : p \in Wanted(i)})
        /\ \A p \in ProviderNames : providers'[p] = IF p \in Wanted(i) THEN {} ELSE providers[p]
    BY <1>8, <2>1, IncludeCalls
  <2>4. TryKept(providers', required_indices', needed', at)
    BY <1>8, <2>1, <2>2, <2>3, IncludeKeeps
  <2> QED BY <1>6, <2>1, <2>4
<1>9. ASSUME NEW i \in required_indices, SelectAgain(i)
      PROVE  TryInv'
  <2>1. /\ phase = "filter" /\ phase' = "filter" /\ at' = at /\ file' = file /\ endpoints' = endpoints /\ providers' = providers
        /\ mode' = mode /\ mode = "try" /\ i \in DOMAIN needed
        /\ needed' = [needed EXCEPT ![i] = TRUE] /\ required_indices' = required_indices \ {i}
    BY <1>9 DEF SelectAgain, NamesInv, PhaseInv
  <2>2. TryKept(providers, required_indices, needed, at)
    BY <2>1 DEF TryInv
  <2>3. DOMAIN needed' = DOMAIN needed
    BY <2>1 DEF TypeInv
  <2>4. Called(required_indices', needed') = Called(required_indices, needed)
    BY <1>9, <2>1 DEF Called, TypeInv
  <2>5. TryKept(providers', required_indices', needed', at')
    BY <2>1, <2>2, <2>3, <2>4 DEF TryKept
  <2> QED BY <1>6, <2>1, <2>5
<1>10. CASE BuildTryRun
  <2>1. /\ phase = "filter" /\ phase' = "running" /\ mode' = mode /\ mode = "try"
        /\ UNCHANGED <<file, at, endpoints, providers, required_indices, needed>>
    BY <1>10 DEF BuildTryRun, tryVars, NamesInv, PhaseInv
  <2>2. TryKept(providers', required_indices', needed', at')
    BY <2>1 DEF TryInv
  <2> QED BY <1>6, <2>1, <2>2
<1>11. CASE UNCHANGED vars
  <2>1. UNCHANGED <<file, phase, at, mode, endpoints, providers, required_indices, needed>>
    BY <1>11 DEF vars, tryVars
  <2>2. TryKept(providers, required_indices, needed, at) => TryKept(providers, required_indices, needed, at)'
    BY <2>1, TryKeptNext
  <2> QED BY <2>1, <2>2 DEF TryInv
<1> QED BY <1>1, <1>2, <1>3, <1>4, <1>5, <1>7, <1>8, <1>9, <1>10, <1>11 DEF Next

LEMMA TryInvServes == TypeInv /\ NamesInv /\ TryInv => TryRunServed
<1> SUFFICES ASSUME TypeInv, NamesInv, TryInv, mode = "try", phase = "running"
             PROVE  /\ Included \cup Asked(DOMAIN calls) \subseteq DOMAIN calls
                    /\ \A S \in SUBSET DOMAIN calls : Included \cup Asked(S) \subseteq S => S = DOMAIN calls
                    /\ \A k \in DOMAIN calls : (calls[k].provides # <<>>) = (k \in Asked(DOMAIN calls))
  BY DEF TryRunServed
<1>1. required_indices = {} /\ at \notin Indices /\ calls = [k \in DOMAIN needed |-> TryCall(k)]
  BY DEF NamesInv, PhaseInv
<1>2. /\ DOMAIN calls = DOMAIN needed /\ DOMAIN endpoints = Indices /\ DOMAIN needed \subseteq Indices
      /\ endpoints \in [Indices -> Endpoint] /\ needed \in [DOMAIN needed -> BOOLEAN]
  BY <1>1 DEF TypeInv
<1>3. TryKept(providers, required_indices, needed, at)
  BY DEF TryInv
<1>4. Called(required_indices, needed) = {k \in DOMAIN needed : needed[k]}
  BY <1>1 DEF Called
<1>5. Asked(DOMAIN needed) = {k \in DOMAIN needed : needed[k]}
  <2>1. {k \in DOMAIN needed : needed[k]} \subseteq Asked(DOMAIN needed)
    BY <1>3, <1>4 DEF TryKept
  <2>2. ASSUME NEW j \in Asked(DOMAIN needed)
        PROVE  j \in {k \in DOMAIN needed : needed[k]}
    <3>1. PICK k \in DOMAIN needed : \E p \in Wanted(k) : j \in ProvidedBy(endpoints, p)
      BY <1>2, AskedProvide
    <3> QED BY <1>3, <1>4, <3>1 DEF TryKept
  <2> QED BY <2>1, <2>2
<1>6. Included \subseteq DOMAIN needed
  <2>1. PICK n \in Nat : Indices = 1..n
    BY IndicesRange DEF TypeInv
  <2>2. \A k \in Indices : k < at
    BY <1>1, <2>1 DEF TypeInv
  <2> QED BY <1>2, <1>3, <2>2 DEF Included, TryKept
<1>7. \A S \in SUBSET DOMAIN calls : Included \cup Asked(S) \subseteq S => S = DOMAIN calls
  BY <1>2, <1>3 DEF TryKept
<1>8. ASSUME NEW k \in DOMAIN calls
      PROVE  (calls[k].provides # <<>>) = (k \in Asked(DOMAIN calls))
  <2>1. k \in DOMAIN needed /\ calls[k] = TryCall(k) /\ needed[k] \in BOOLEAN
    BY <1>1, <1>2, <1>8
  <2>2. CASE needed[k]
    <3>1. k \in Asked(DOMAIN needed)
      BY <1>5, <2>1, <2>2
    <3>2. \E p : p \in ProvidesTo(endpoints[k])
      BY <3>1 DEF Asked, Provider
    <3>3. endpoints[k].provides # <<>>
      BY <3>2 DEF ProvidesTo, Targets
    <3>4. calls[k].provides = endpoints[k].provides
      BY <2>1, <2>2 DEF TryCall, Built
    <3> QED BY <1>2, <3>1, <3>3, <3>4
  <2>3. CASE ~needed[k]
    <3>1. k \notin Asked(DOMAIN needed)
      BY <1>5, <2>1, <2>3
    <3>2. calls[k].provides = <<>>
      BY <2>1, <2>3 DEF TryCall, Built
    <3> QED BY <1>2, <3>1, <3>2
  <2> QED BY <2>1, <2>2, <2>3
<1> QED BY <1>2, <1>5, <1>6, <1>7, <1>8

-----------------------------------------------------------------------------
\* Every name is there when it is looked up, whatever the file: what from_config accepts is built
\* unless a declare reads a special name, a request reads names that have a value, and a try run
\* takes in those that provide what its endpoints require, and nobody else (EndpointBuilder::build,
\* Endpoints::build).
THEOREM NamesAlwaysResolve == Spec => []NamesResolve
<1>1. Init => TypeInv /\ NamesInv /\ TryInv
  BY InitType, InitNames, InitTry
<1>2. TypeInv /\ NamesInv /\ TryInv /\ [Next]_vars => (TypeInv /\ NamesInv /\ TryInv)'
  BY NextType, NextNames, NextTry
<1>3. TypeInv /\ NamesInv /\ TryInv => NamesResolve
  BY NamesImplyValues, TryInvServes DEF NamesResolve, NamesInv
<1> QED BY <1>1, <1>2, <1>3, PTL DEF Spec
=============================================================================
