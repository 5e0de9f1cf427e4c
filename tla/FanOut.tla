------------------------------- MODULE FanOut -------------------------------
(***************************************************************************)
(* An endpoint as the task that polls it sees it: ForEachParallel takes    *)
(* the items of the endpoint's stream, spawns a request for each and waits *)
(* for the requests' oneshot channels; limit_fn, which Endpoint::into_future*)
(* gives it, says how many requests may be under way.                      *)
(*                                                                         *)
(* Requests run on other threads, so every pull from the stream and every  *)
(* poll of a oneshot is a step.  Requests are numbered in the order they   *)
(* are spawned, which is the order of the vector of oneshots.              *)
(***************************************************************************)
EXTENDS Integers, FiniteSets

CONSTANTS
  N,           \* bound: items the stream may yield
  MaxParallel, \* max_parallel_requests; 0 when it is not configured
  Blocking,    \* the providers the endpoint fills with send: block
  Lengths,     \* bound: the lengths and
  Limits,      \* the limits such a provider may be found to have
  Ceiling      \* of the multiplier, 10 in the code

ASSUME FanOutAssumption ==
  /\ N \in Nat /\ MaxParallel \in Nat
  /\ IsFiniteSet(Blocking)
  /\ Lengths \subseteq Nat /\ Limits \subseteq Nat
  /\ Ceiling \in Nat \ {0}

Requests == 1 .. N

NoError     == 0
StreamError == N + 1

VARIABLES
  pc,         \* asleep (Pending), pull, collect, done
  woken,      \* the task is to be polled
  limit,      \* what limit_fn said when the poll began; 0 means none
  stream,     \* open, closed (None)
  streamWaits, \* the stream was Pending and holds the task's waker
  futures,    \* the requests whose oneshot is to be polled (again)
  rest,       \* those of this iteration not polled yet
  registered, \* those that hold the task's waker
  progress,   \* made_progress_this_iter
  error,
  request,    \* none, running, ok, failed
  multiplier, allFull \* state of limit_fn

fan  == <<limit, stream, futures, rest, progress, error>>
vars == <<pc, woken, fan, streamWaits, registered, request, multiplier, allFull>>

Init ==
  /\ pc = "asleep" /\ woken = TRUE /\ limit = 0
  /\ stream = "open" /\ streamWaits = FALSE
  /\ futures = {} /\ rest = {} /\ registered = {}
  /\ progress = FALSE /\ error = NoError
  /\ request = [r \in Requests |-> "none"]
  /\ multiplier = 1 /\ allFull = 0

Running == {r \in Requests : request[r] = "running"}
Spawned == {r \in Requests : request[r] # "none"}
-----------------------------------------------------------------------------
(***************************************************************************)
(* limit_fn.  len and cap are what the blocking providers show when it     *)
(* looks at them.                                                          *)
(***************************************************************************)
Room(len, cap) == {IF len[b] < cap[b] THEN cap[b] - len[b] ELSE 0 : b \in Blocking}

\* The places of the provider that has most.
EmptySlots(n, len, cap) == n \in Room(len, cap) /\ \A m \in Room(len, cap) : m <= n

FullPolls(len, cap) ==
  IF \A b \in Blocking : len[b] = cap[b]
  THEN (IF allFull < multiplier THEN allFull + 1 ELSE allFull)
  ELSE 0

\* Slip: the ceiling is passed by one.
GrowsPast(slots, len) ==
  /\ \E b \in Blocking : len[b] = 0
  /\ multiplier <= Ceiling
  /\ Cardinality(futures) = slots * multiplier

Grows(slots, len) ==
  /\ \E b \in Blocking : len[b] = 0
  /\ multiplier < Ceiling
  /\ Cardinality(futures) = slots * multiplier

Shrinks(len, cap) == FullPolls(len, cap) = multiplier /\ multiplier > 1

AtLeastOne(n) == IF n = 0 THEN 1 ELSE n

LimitNow(slots, m) ==
  IF MaxParallel # 0 /\ MaxParallel < AtLeastOne(slots) * m
  THEN MaxParallel
  ELSE AtLeastOne(slots) * m

AskLimit(len, cap) ==
  IF Blocking = {}
  THEN limit' = MaxParallel /\ UNCHANGED <<multiplier, allFull>>
  ELSE \E slots \in Room(len, cap) :
         /\ EmptySlots(slots, len, cap)
         /\ multiplier' = IF Grows(slots, len) THEN multiplier + 1
                          ELSE IF Shrinks(len, cap) THEN multiplier - 1
                          ELSE multiplier
         /\ allFull' = IF ~Grows(slots, len) /\ Shrinks(len, cap) THEN 0 ELSE FullPolls(len, cap)
         /\ limit' = LimitNow(slots, multiplier')
-----------------------------------------------------------------------------
(***************************************************************************)
(* ForEachParallel::poll.                                                  *)
(***************************************************************************)
Poll(len, cap) ==
  /\ pc = "asleep" /\ woken
  /\ AskLimit(len, cap)
  /\ pc' = "pull" /\ woken' = FALSE /\ progress' = FALSE
  /\ UNCHANGED <<stream, streamWaits, futures, rest, registered, error, request>>

\* Slip: one request too many.
MayPullMore == stream = "open" /\ (limit = 0 \/ limit >= Cardinality(futures))

MayPull == stream = "open" /\ (limit = 0 \/ limit > Cardinality(futures))

\* The oneshots are taken out of the vector to be polled one by one.
TakeFutures(pulled) == pc' = "collect" /\ futures' = {} /\ rest' = pulled

Spawn ==
  /\ pc = "pull" /\ MayPull
  /\ \E r \in Requests :
       /\ \A q \in Requests : q < r <=> q \in Spawned
       /\ request' = [request EXCEPT ![r] = "running"]
       /\ TakeFutures(futures \cup {r})
  /\ progress' = TRUE
  /\ UNCHANGED <<woken, limit, stream, streamWaits, registered, error, multiplier, allFull>>

StreamPending ==
  /\ pc = "pull" /\ MayPull
  /\ streamWaits' = TRUE
  /\ TakeFutures(futures)
  /\ UNCHANGED <<woken, limit, stream, registered, progress, error, request, multiplier, allFull>>

StreamEnds ==
  /\ pc = "pull" /\ MayPull
  /\ stream' = "closed"
  /\ TakeFutures(futures)
  /\ UNCHANGED <<woken, limit, streamWaits, registered, progress, error, request, multiplier, allFull>>

StreamFails ==
  /\ pc = "pull" /\ MayPull
  /\ stream' = "closed" /\ error' = StreamError
  /\ TakeFutures({})
  /\ UNCHANGED <<woken, limit, streamWaits, registered, progress, request, multiplier, allFull>>

NoPull ==
  /\ pc = "pull" /\ ~MayPull
  /\ TakeFutures(futures)
  /\ UNCHANGED <<woken, limit, stream, streamWaits, registered, progress, error, request,
                 multiplier, allFull>>

\* The oneshots are polled in order; one that is not ready goes back and
\* keeps the waker, one that was dropped is done, one with an error fails.
Collect ==
  /\ pc = "collect"
  /\ \E r \in rest :
       /\ \A q \in rest : r <= q
       /\ rest' = rest \ {r}
       /\ IF request[r] = "running"
          THEN /\ futures' = futures \cup {r} /\ registered' = registered \cup {r}
               /\ UNCHANGED <<progress, error>>
          ELSE /\ progress' = TRUE
               /\ error' = IF request[r] = "failed" THEN r ELSE error
               /\ UNCHANGED <<futures, registered>>
  /\ UNCHANGED <<pc, woken, limit, stream, streamWaits, request, multiplier, allFull>>

\* Slip: the stream is over, so the endpoint is.
EndIterationEarly ==
  /\ pc = "collect" /\ rest = {}
  /\ IF error # NoError
     THEN pc' = "done" /\ futures' = {} /\ stream' = "closed"
     ELSE /\ UNCHANGED <<futures, stream>>
          /\ pc' = IF stream = "closed" THEN "done"
                   ELSE IF progress THEN "pull" ELSE "asleep"
  /\ progress' = FALSE
  /\ UNCHANGED <<woken, limit, streamWaits, rest, registered, error, request, multiplier, allFull>>

\* Slip: only a pull is progress; a place that became free is not used.
EndIterationAsleep ==
  /\ pc = "collect" /\ rest = {}
  /\ IF error # NoError
     THEN pc' = "done" /\ futures' = {} /\ stream' = "closed"
     ELSE /\ UNCHANGED <<futures, stream>>
          /\ pc' = IF futures = {} /\ stream = "closed" THEN "done" ELSE "asleep"
  /\ progress' = FALSE
  /\ UNCHANGED <<woken, limit, streamWaits, rest, registered, error, request, multiplier, allFull>>

\* An error ends the future and drops the stream and the oneshots; the
\* requests that were spawned go on by themselves.
EndIteration ==
  /\ pc = "collect" /\ rest = {}
  /\ IF error # NoError
     THEN pc' = "done" /\ futures' = {} /\ stream' = "closed"
     ELSE /\ UNCHANGED <<futures, stream>>
          /\ pc' = IF futures = {} /\ stream = "closed" THEN "done"
                   ELSE IF progress THEN "pull" ELSE "asleep"
  /\ progress' = FALSE
  /\ UNCHANGED <<woken, limit, streamWaits, rest, registered, error, request, multiplier, allFull>>
-----------------------------------------------------------------------------
(***************************************************************************)
(* The spawned tasks and the stream.  The end of a request drops or fills  *)
(* the other half of its oneshot, which wakes the task if it has polled.   *)
(***************************************************************************)
RequestEnds(r) ==
  /\ request[r] = "running"
  /\ \E outcome \in {"ok", "failed"} : request' = [request EXCEPT ![r] = outcome]
  /\ woken' = (woken \/ r \in registered)
  /\ registered' = registered \ {r}
  /\ UNCHANGED <<pc, fan, streamWaits, multiplier, allFull>>

StreamWakes ==
  /\ streamWaits
  /\ woken' = TRUE /\ streamWaits' = FALSE
  /\ UNCHANGED <<pc, fan, registered, request, multiplier, allFull>>

TaskPolled == \E len \in [Blocking -> Lengths], cap \in [Blocking -> Limits] : Poll(len, cap)

TaskStep ==
  \/ TaskPolled \/ Spawn \/ StreamPending \/ StreamEnds \/ StreamFails \/ NoPull
  \/ Collect \/ EndIteration

Next == TaskStep \/ StreamWakes \/ \E r \in Requests : RequestEnds(r)

Spec == Init /\ [][Next]_vars

\* The runtime polls a woken task and runs the spawned ones; requests end
\* (a response has a timeout, a body that was begun is taken to end); and the
\* stream does not stay Pending for ever: a load pattern is finite.
Fairness ==
  /\ WF_vars(TaskStep) /\ WF_vars(StreamWakes) /\ SF_vars(StreamEnds)
  /\ \A r \in Requests : WF_vars(RequestEnds(r))

FairSpec == Spec /\ Fairness
-----------------------------------------------------------------------------
TypeOK ==
  /\ pc \in {"asleep", "pull", "collect", "done"}
  /\ woken \in BOOLEAN /\ streamWaits \in BOOLEAN /\ progress \in BOOLEAN
  /\ limit \in Nat
  /\ stream \in {"open", "closed"}
  /\ futures \subseteq Requests /\ rest \subseteq Requests /\ registered \subseteq Requests
  /\ error \in 0 .. N + 1
  /\ request \in [Requests -> {"none", "running", "ok", "failed"}]
  /\ multiplier \in 1 .. Ceiling /\ allFull \in 0 .. multiplier

\* However the providers fill and drain and whenever requests end, no more
\* requests run than max_parallel_requests allows (poll, line 69).
NeverOverLimit == MaxParallel # 0 => Cardinality(Running) <= MaxParallel

\* An endpoint ends without an error only when its stream has, and when every
\* request it spawned has ended, none of them with an error (lines 91-114).
EndsWhenAllDone ==
  pc = "done" /\ error = NoError =>
    stream = "closed" /\ \A r \in Spawned : request[r] = "ok"

\* A task that sleeps with nobody about to wake it waits for something: every
\* oneshot it has is open and has its waker, and the stream will wake it or
\* all places are taken (lines 68-89 and 115: another round after progress).
SleepsWithReason ==
  pc = "asleep" /\ ~woken =>
    /\ futures \cup (IF stream = "open" THEN {0} ELSE {}) # {}
    /\ futures \subseteq Running \cap registered
    /\ stream = "open" => streamWaits \/ (limit # 0 /\ Cardinality(futures) >= limit)

\* An endpoint ends once its stream has (ForEachParallel::poll).
EndpointEnds == <>(pc = "done")
=============================================================================
