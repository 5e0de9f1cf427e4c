------------------------------ MODULE LoadPattern ------------------------------
(***************************************************************************)
(* The starts of an endpoint's requests: the load pattern and peak load of *)
(* the configuration (lib/config: PreLoadPattern, LinearBuilder), the      *)
(* segments made of them (create_load_test_future) and the stream of       *)
(* starts that ModInterval makes of the segments (lib/mod_interval).       *)
(*                                                                         *)
(* Time is counted in ticks, where the code has nanoseconds, and a rate is *)
(* a whole number of hits per minute where it has an f64.                  *)
(***************************************************************************)
EXTENDS Integers, Sequences

CONSTANTS Patterns,  \* the load patterns: sequences of pieces [from, to, over], in percent and ticks
          PeakLoads, \* hits: [n, per] with per in {"minute", "second"}
          StartAts,  \* where in the pattern the test starts: the option --start-at, or the time of an update
          Second,    \* ticks in a second
          MaxHits,   \* a bound on the count of the starts that is kept
          Delays     \* by how much the endpoint polls or the timer fires late

None == -1
Minute == 60 * Second

ASSUME TimeAssumption == Second \in Nat \ {0} /\ Delays \subseteq Nat /\ StartAts \subseteq Nat /\ MaxHits \in Nat
ASSUME LoadAssumption ==
  /\ Patterns \subseteq Seq([from : Nat \cup {None}, to : Nat, over : Nat])
  /\ PeakLoads \subseteq [n : Nat, per : {"minute", "second"}]

VARIABLES segments,        \* ModInterval: the segments, those that are to come once the stream runs
          current_segment, x_offset, next_start, following_start, \* ModIntervalStreamState
          now,             \* the clock; 0 is the beginning of the pattern, which is the code's start_time
          stream,          \* "new", "idle", "sleeping", "ended" or "panicked"
          trigger,         \* when the sleep ends
          hits,            \* how many starts the stream has given
          pattern, start_at \* what was asked for

state == <<segments, current_segment, x_offset, next_start, following_start>>
vars == <<state, now, stream, trigger, hits, pattern, start_at>>

-----------------------------------------------------------------------------
(* From the configuration to the segments.                                 *)

\* PreLoadPattern::evaluate: a piece without `from` goes on where the one before ended.
LastEnd(p, i) == IF i = 1 THEN 0 ELSE p[i - 1].to
StartPercent(p, i) == IF p[i].from = None THEN LastEnd(p, i) ELSE p[i].from

PerMinute(peak) == IF peak.per = "minute" THEN peak.n ELSE peak.n * 60
Segment(start, end, duration) == [start |-> start, end |-> end, duration |-> duration]
Segments(p, peak) == [i \in DOMAIN p |->
  Segment((StartPercent(p, i) * PerMinute(peak)) \div 100, (p[i].to * PerMinute(peak)) \div 100, p[i].over)]

\* Sums(a)[n] is the sum of the first n members of a.
Sums(a) == LET sum[n \in 0 .. Len(a)] == IF n = 0 THEN 0 ELSE sum[n - 1] + a[n] IN sum
\* When the n-th segment ends, and the pattern.
EndOf(segs, n) == Sums([i \in DOMAIN segs |-> segs[i].duration])[n]
Duration(segs) == EndOf(segs, Len(segs))

-----------------------------------------------------------------------------
(* LinearSegment: the time to the next start, x ticks into a segment; the  *)
(* rate there is Rate / (duration * Minute) hits a tick.                   *)
Rate(s, x) == s.start * s.duration + (s.end - s.start) * x
Rounded(a, b) == (2 * a + b) \div (2 * b)
Abs(n) == IF n < 0 THEN -n ELSE n

\* The time in which a line of the slope of s, from 0, comes to one hit: the square root of 2 / slope.
FromZero(s) ==
  LET square == (2 * Minute * s.duration) \div Abs(s.end - s.start) IN
  CHOOSE w \in 0..square : w * w <= square /\ square < (w + 1) * (w + 1)

\* get_hps_at: below one hit in the whole segment the slope alone counts; no hits at all for a flat one.
NoHits(s, x) == s.duration = 0 \/ (Rate(s, x) < Minute /\ s.start = s.end)
Wait(s, x) == IF Rate(s, x) < Minute THEN FromZero(s) ELSE Rounded(s.duration * Minute, Rate(s, x))

-----------------------------------------------------------------------------
(* calculate_next_start, for the state of the stream in st.                *)
end_time == start_at + Duration(pattern)
Ends(st) == [st EXCEPT !.following = None]
By(st, time) == IF time <= end_time THEN [st EXCEPT !.following = time] ELSE Ends(st)

\* The segment that is over is left for the next one, once.
Moved(st) == [st EXCEPT !.current = Head(st.rest), !.rest = Tail(st.rest), !.offset = @ + st.current.duration]

StartIn(st, time) ==
  LET x == time - st.offset IN
  IF ~NoHits(st.current, x) THEN By(st, time + Wait(st.current, x))
  ELSE IF st.rest = <<>> THEN Ends(st)
  ELSE IF x > st.current.duration THEN [st EXCEPT !.panics = TRUE]  \* Duration underflows
  ELSE By(st, time + st.current.duration - x)

\* Slip: a segment is left only after its end, not at its end.
NextStartAfter(st, time) ==
  IF time - st.offset <= st.current.duration THEN StartIn(st, time)
  ELSE IF st.rest = <<>> THEN Ends(st) ELSE StartIn(Moved(st), time)
NextStart(st, time) ==
  IF time - st.offset < st.current.duration THEN StartIn(st, time)
  ELSE IF st.rest = <<>> THEN Ends(st) ELSE StartIn(Moved(st), time)

-----------------------------------------------------------------------------
(* into_stream.                                                            *)
Init ==
  /\ pattern \in {Segments(p, peak) : p \in Patterns, peak \in PeakLoads}
  /\ start_at \in StartAts  \* this pattern may be over by then
  /\ segments = pattern
  /\ now = start_at /\ stream = "new" /\ trigger = None /\ hits = 0
  /\ current_segment = Segment(0, 0, 0) /\ x_offset = 0 /\ next_start = 0 /\ following_start = None

Keep(st) ==
  /\ current_segment' = st.current /\ segments' = st.rest /\ x_offset' = st.offset
  /\ following_start' = st.following

\* The first poll sets the state up, every poll goes one start further.
Current == [current |-> current_segment, rest |-> segments, offset |-> x_offset, following |-> following_start,
            panics |-> FALSE]
SetUp == NextStart([current |-> Head(segments), rest |-> Tail(segments), offset |-> 0, following |-> None,
                    panics |-> FALSE], now)

\* Slip: next_start keeps the time of the first poll, and every later one seems late.
EmitOften(st, polled) ==
  /\ next_start' = IF stream = "new" THEN now ELSE next_start
  /\ LET latency == IF polled > next_start' THEN polled - next_start' ELSE 0
     IN trigger' = IF st.following - latency > polled THEN st.following - latency ELSE polled
  /\ stream' = "sleeping"
\* The start that was calculated by the poll before; what this poll was late is taken off the sleep.
Emit(st, polled) ==
  /\ next_start' = st.following
  /\ LET before == IF stream = "new" THEN now ELSE next_start
         latency == IF polled > before THEN polled - before ELSE 0
     IN trigger' = IF st.following - latency > polled THEN st.following - latency ELSE polled
  /\ stream' = "sleeping"

Give(st, polled) ==
  IF st.panics THEN stream' = "panicked" /\ Keep(st) /\ UNCHANGED <<next_start, trigger>>
  ELSE IF st.following = None THEN stream' = "ended" /\ Keep(st) /\ UNCHANGED <<next_start, trigger>>
  ELSE \E further \in {NextStart(st, st.following)} :
       IF further.panics THEN stream' = "panicked" /\ Keep(further) /\ UNCHANGED <<next_start, trigger>>
       ELSE Emit(st, polled) /\ Keep(further)

FirstPoll ==
  /\ stream = "new"
  /\ IF segments = <<>> THEN stream' = "ended" /\ UNCHANGED <<state, trigger>>
     ELSE \E st \in {SetUp} : Give(st, now)
  /\ UNCHANGED <<now, hits, pattern, start_at>>

Poll(late) ==
  /\ stream = "idle"
  /\ now' = now + late
  /\ Give(Current, now + late)
  /\ UNCHANGED <<hits, pattern, start_at>>

Fire(late) ==
  /\ stream = "sleeping"
  /\ now' = trigger + late /\ hits' = (IF hits < MaxHits THEN hits + 1 ELSE hits) /\ stream' = "idle" /\ trigger' = None
  /\ UNCHANGED <<state, pattern, start_at>>

\* Delays are counted up to the end of the pattern.
Next == FirstPoll \/ \E late \in Delays : (late > 0 => now <= end_time) /\ (Poll(late) \/ Fire(late))

Spec == Init /\ [][Next]_vars /\ WF_vars(Next)

-----------------------------------------------------------------------------
\* The hits of a segment in its first x ticks and those of a pattern up to time t: the area under
\* its line, a hit being 2 * Minute.
HitsIn(s, x) ==
  LET y == IF x < s.duration THEN x ELSE s.duration IN
  IF x <= 0 \/ s.duration = 0 THEN 0 ELSE 2 * s.start * y + ((s.end - s.start) * y * y) \div s.duration
Hits(segs, t) == Sums([i \in DOMAIN segs |-> HitsIn(segs[i], t - EndOf(segs, i - 1))])[Len(segs)]

\* The highest rate of a pattern.
Rates(segs) == {segs[i].start : i \in DOMAIN segs} \cup {segs[i].end : i \in DOMAIN segs} \cup {0}
Highest(segs) == CHOOSE r \in Rates(segs) : \A q \in Rates(segs) : q <= r

\* Whatever the delays and however they are made up for, there are at no time more requests than
\* the load pattern has hits up to then, but for one and one for each of its segments: a wait
\* follows the rate at its beginning, which a falling load and the end of a segment leave
\* behind, and making up for a late poll may bring a start forward, never before the start in front
\* of it.  A wait is a whole number of ticks: each may gain what the highest load does in a tick.
\* In a segment that falls to 0 the waits gain about a quarter of the logarithm of its hits, so this
\* is so for up to some hundred of them.
NoExtraLoad ==
  stream = "idle" =>
    2 * Minute * hits <= Hits(pattern, now) - Hits(pattern, start_at) + 2 * Minute * (Len(pattern) + 1)
                         + hits * (2 * Highest(pattern) + 1)

\* The starts come to an end.  The one way not to is that the subtraction of
\* the time that is left of a segment underflows (a panic), and that needs a
\* segment with no hits between two others, which the start before it jumped
\* over (calculate_next_start, lines 87-123).
PauseInside == \E i \in 2 .. Len(pattern) - 1 : NoHits(pattern[i], 0)
PatternEnds == <>(stream = "ended" \/ (stream = "panicked" /\ PauseInside))
===============================================================================
