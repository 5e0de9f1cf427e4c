---------------------------- MODULE YamlDecoder ----------------------------
(***************************************************************************)
(* lib/config/src/from_yaml.rs: YamlDecoder turns the events of the YAML   *)
(* parser (yaml_rust, external) into the events the configuration is read  *)
(* from.  It replaces an alias by the events of the node its anchor is on: *)
(* it records the events of every anchored node and replays them.          *)
(*                                                                         *)
(* peek and next give one event per call; what they give does not depend   *)
(* on when they are called, so the events given are collected in `out' and *)
(* read by the parsers of module ConfigYaml.                               *)
(***************************************************************************)
EXTENDS Integers, Sequences

CONSTANTS
  Inputs,    \* the event streams that the files are made of
  Scalars    \* the scalars that appear in them

Starts == {"MappingStart", "SequenceStart"}
Ends == {"MappingEnd", "SequenceEnd"}

NoScalar == [text |-> "", plain |-> FALSE, tag |-> <<>>]

\* YamlEvent, the events that the decoder gives.
YamlEvent == [ev : Starts \cup Ends \cup {"Scalar"}, sc : Scalars \cup {NoScalar}]

\* The events of the YAML parser carry the number of the anchor on the node (0: none).
ParserEvent == [ev : Starts \cup Ends \cup {"Scalar", "Alias"}, sc : Scalars \cup {NoScalar}, id : Nat]

ASSUME InputsAssumption ==
  Inputs \subseteq {f \in Seq(ParserEvent) : \A i \in 1..Len(f) :
    (f[i].ev \in Ends => f[i].id = 0) /\ (f[i].ev = "Alias" => f[i].id > 0)}

\* A Range<usize> of positions (from 0) in aliased_events: the next one and the end.
EventRange == [start : Nat, end : Nat]

\* AliasOrEvent: an entry is an event, or the range of the node an alias stands for.
NoRange == [start |-> 0, end |-> 0]
AliasOrEvent == [alias : BOOLEAN, range : EventRange, event : YamlEvent]

VARIABLES
  input,              \* what the YAML parser has not given yet
  aliased_events,     \* the events of anchored nodes, in order
  alias_map,          \* anchor -> range of aliased_events
  reference_stack,    \* the open collections since the first anchored one: [id, start], id 0 for None
  replaying_alias,    \* the ranges being replayed, the innermost last
  out                 \* the events given so far
decoderVars == <<input, aliased_events, alias_map, reference_stack, replaying_alias, out>>

DecoderInit ==
  /\ input \in Inputs
  /\ aliased_events = <<>>
  /\ alias_map = [i \in {} |-> NoRange]
  /\ reference_stack = <<>>
  /\ replaying_alias = <<>>
  /\ out = <<>>

in_reference == reference_stack # <<>>
EventOf(x) == [ev |-> x.ev, sc |-> x.sc]
AliasEntry(r) == [alias |-> TRUE, range |-> r, event |-> [ev |-> "Scalar", sc |-> NoScalar]]
EventEntry(e) == [alias |-> FALSE, range |-> NoRange, event |-> e]

Bind(id, r) == alias_map' = [k \in (DOMAIN alias_map) \cup {id} |-> IF k = id THEN r ELSE alias_map[k]]

\* Replaying: the innermost range has an event, an alias to go into, or is at its end.
Depth == Len(replaying_alias)
Innermost == replaying_alias[Depth]
Advanced == [replaying_alias EXCEPT ![Depth].start = @ + 1]

ReplayEvent ==
  /\ replaying_alias # <<>>
  /\ Innermost.start < Innermost.end
  /\ LET x == aliased_events[Innermost.start + 1] IN
       /\ ~x.alias
       /\ out' = Append(out, x.event)
       /\ replaying_alias' = Advanced
  /\ UNCHANGED <<input, aliased_events, alias_map, reference_stack>>

ReplayInto ==
  /\ replaying_alias # <<>>
  /\ Innermost.start < Innermost.end
  /\ LET x == aliased_events[Innermost.start + 1] IN
       /\ x.alias
       /\ replaying_alias' = Append(Advanced, x.range)
  /\ UNCHANGED <<input, aliased_events, alias_map, reference_stack, out>>

ReplayEnd ==
  /\ replaying_alias # <<>>
  /\ ~(Innermost.start < Innermost.end)
  /\ replaying_alias' = SubSeq(replaying_alias, 1, Depth - 1)
  /\ UNCHANGED <<input, aliased_events, alias_map, reference_stack, out>>

\* An alias: what it stands for is replayed; inside an anchored node it is recorded as an alias.
\* One that has no range yet (it is inside the node it names) is skipped.
PullAlias ==
  /\ replaying_alias = <<>>
  /\ input # <<>> /\ Head(input).ev = "Alias"
  /\ input' = Tail(input)
  /\ LET i == Head(input).id IN
       IF i \in DOMAIN alias_map
       THEN /\ replaying_alias' = <<alias_map[i]>>
            /\ aliased_events' = IF in_reference THEN Append(aliased_events, AliasEntry(alias_map[i]))
                                 ELSE aliased_events
       ELSE UNCHANGED <<replaying_alias, aliased_events>>
  /\ UNCHANGED <<alias_map, reference_stack, out>>

\* Pulling an event of kind K that is not an alias.
Pulled == Head(input)

Pull(K) ==
  /\ replaying_alias = <<>>
  /\ input # <<>> /\ Pulled.ev \in K
  /\ input' = Tail(input)
  /\ aliased_events' = IF in_reference \/ Pulled.id > 0
                       THEN Append(aliased_events, EventEntry(EventOf(Pulled)))
                       ELSE aliased_events
  /\ out' = Append(out, EventOf(Pulled))
  /\ UNCHANGED replaying_alias

PullScalar ==
  /\ Pull({"Scalar"})
  /\ IF Pulled.id > 0 THEN Bind(Pulled.id, [start |-> Len(aliased_events), end |-> Len(aliased_events)])
                      ELSE UNCHANGED alias_map
  /\ UNCHANGED reference_stack

\* Slip: a collection without an anchor, inside an anchored one, is not counted.
PullStartUncounted ==
  /\ Pull(Starts)
  /\ reference_stack' = IF Pulled.id > 0
                        THEN Append(reference_stack, [id |-> Pulled.id, start |-> Len(aliased_events)])
                        ELSE reference_stack
  /\ UNCHANGED alias_map

PullStart ==
  /\ Pull(Starts)
  /\ reference_stack' =
       IF Pulled.id > 0 THEN Append(reference_stack, [id |-> Pulled.id, start |-> Len(aliased_events)])
       ELSE IF in_reference THEN Append(reference_stack, [id |-> 0, start |-> 0])
       ELSE reference_stack
  /\ UNCHANGED alias_map

\* Slip: the range of an anchored collection is closed one event too late.
PullEndLate ==
  /\ Pull(Ends)
  /\ IF in_reference
     THEN LET top == reference_stack[Len(reference_stack)] IN
            /\ reference_stack' = SubSeq(reference_stack, 1, Len(reference_stack) - 1)
            /\ IF top.id > 0 THEN Bind(top.id, [start |-> top.start, end |-> Len(aliased_events) + 2])
                             ELSE UNCHANGED alias_map
     ELSE UNCHANGED <<reference_stack, alias_map>>

\* The end of a collection: with an anchor on it, its range is complete.
PullEnd ==
  /\ Pull(Ends)
  /\ IF in_reference
     THEN LET top == reference_stack[Len(reference_stack)] IN
            /\ reference_stack' = SubSeq(reference_stack, 1, Len(reference_stack) - 1)
            /\ IF top.id > 0 THEN Bind(top.id, [start |-> top.start, end |-> Len(aliased_events) + 1])
                             ELSE UNCHANGED alias_map
     ELSE UNCHANGED <<reference_stack, alias_map>>

Decode == ReplayEvent \/ ReplayInto \/ ReplayEnd \/ PullAlias \/ PullScalar \/ PullStart \/ PullEnd

\* Everything the file holds was given.
Decoded == input = <<>> /\ replaying_alias = <<>>

DecoderTypeOK ==
  /\ input \in Seq(ParserEvent)
  /\ aliased_events \in Seq(AliasOrEvent)
  /\ DOMAIN alias_map \subseteq Nat
  /\ \A i \in DOMAIN alias_map : alias_map[i] \in EventRange
  /\ reference_stack \in Seq([id : Nat, start : Nat])
  /\ replaying_alias \in Seq(EventRange)
  /\ out \in Seq(YamlEvent)

(***************************************************************************)
(* Nothing refers forward: a range ends within what is recorded, and an    *)
(* alias that was recorded inside an anchored node stands for events       *)
(* recorded before it.  So an alias replays events that exist, and a       *)
(* replay that goes into another alias moves back and ends: an anchored    *)
(* node that names itself, directly or through another, is never replayed  *)
(* for ever (peek, from_yaml.rs:256-266 and :277-285, which index          *)
(* aliased_events without a check).                                        *)
(***************************************************************************)
NothingForward ==
  /\ DecoderTypeOK
  /\ \A i \in DOMAIN alias_map : alias_map[i].end <= Len(aliased_events)
  /\ \A i \in 1..Len(replaying_alias) : replaying_alias[i].end <= Len(aliased_events)
  /\ \A i \in 1..Len(reference_stack) : reference_stack[i].start <= Len(aliased_events)
  /\ \A i \in 1..Len(aliased_events) :
       aliased_events[i].alias => aliased_events[i].range.end < i
=============================================================================
