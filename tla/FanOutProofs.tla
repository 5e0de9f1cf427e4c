---------------------------- MODULE FanOutProofs ----------------------------
(* What the run of FanOut checks on a small endpoint, for any number of     *)
(* items, blocking providers and parallel requests.                         *)
EXTENDS FanOut, FiniteSetTheorems, TLAPS

-----------------------------------------------------------------------------
(***************************************************************************)
(* Between two rounds nothing is left to poll and there is no error.  A    *)
(* request whose oneshot was given up has ended well, or there is an error *)
(* and the endpoint is about to end.                                       *)
(***************************************************************************)
Calm == pc \in {"asleep", "pull"} => rest = {} /\ error = NoError

Settled == error = NoError => \A r \in Spawned : r \in futures \cup rest \/ request[r] = "ok"

Ended == pc = "done" /\ error = NoError => futures = {} /\ rest = {} /\ stream = "closed"

LimitInForce ==
  MaxParallel # 0 /\ pc \in {"pull", "collect"} => limit >= 1 /\ limit <= MaxParallel

\* A oneshot that was put back has the waker, or the task was woken since.
Watched == pc \in {"collect", "asleep"} /\ ~woken => futures \subseteq Running \cap registered

\* A round that made no progress has met a stream that will wake the task, or
\* may not pull.
Stuck ==
  \/ woken
  \/ stream = "closed"
  \/ streamWaits
  \/ limit # 0 /\ Cardinality(futures \cup rest) >= limit

HasCause == pc = "asleep" \/ (pc = "collect" /\ ~progress) => Stuck

NotOver == pc = "asleep" /\ ~woken => futures # {} \/ stream = "open"

FanInv ==
  /\ TypeOK
  /\ Calm /\ Settled /\ Ended
  /\ LimitInForce /\ NeverOverLimit
  /\ Watched /\ HasCause /\ NotOver

LEMMA FanSets ==
  \A S : S \subseteq Requests => IsFiniteSet(S) /\ Cardinality(S) \in Nat
<1>1. IsFiniteSet(Requests)
  BY FanOutAssumption, FS_Interval DEF Requests
<1>2. ASSUME NEW S, S \subseteq Requests PROVE IsFiniteSet(S) /\ Cardinality(S) \in Nat
  BY <1>1, <1>2, FS_Subset, FS_CardinalityType
<1>. QED  BY <1>2

LEMMA ProductAtLeastOne ==
  ASSUME NEW a \in Nat, NEW b \in Nat, a >= 1, b >= 1
  PROVE  a * b \in Nat /\ a * b >= 1
<1>. QED  OBVIOUS

LEMMA InitFan == Init => FanInv
<1>. SUFFICES ASSUME Init PROVE FanInv
  OBVIOUS
<1>0. 1 \in 1 .. Ceiling /\ 0 \in 0 .. 1 /\ 0 \in 0 .. N + 1 /\ 0 \in Nat
  BY FanOutAssumption
<1>1. TypeOK
  BY <1>0 DEF Init, TypeOK, NoError
<1>2. Running = {} /\ Spawned = {}
  BY DEF Init, Running, Spawned
<1>3. NeverOverLimit
  BY <1>2, FS_EmptySet, FanOutAssumption DEF NeverOverLimit
<1>4. Calm /\ Ended /\ LimitInForce /\ HasCause /\ NotOver
  BY DEF Init, Calm, Ended, LimitInForce, HasCause, Stuck, NotOver
<1>5. Settled /\ Watched
  BY <1>2 DEF Init, Settled, Watched
<1>. QED  BY <1>1, <1>3, <1>4, <1>5 DEF FanInv

-----------------------------------------------------------------------------
(***************************************************************************)
(* A poll.  Whatever the providers hold, limit_fn stays in its range and   *)
(* leaves at least one place.                                              *)
(***************************************************************************)
LEMMA LimitInRange ==
  ASSUME TypeOK,
         NEW len \in [Blocking -> Lengths], NEW cap \in [Blocking -> Limits],
         AskLimit(len, cap)
  PROVE  /\ multiplier' \in 1 .. Ceiling /\ allFull' \in 0 .. multiplier'
         /\ limit' \in Nat
         /\ MaxParallel # 0 => limit' >= 1 /\ limit' <= MaxParallel
<1>1. CASE Blocking = {}
  BY <1>1, FanOutAssumption DEF AskLimit, TypeOK
<1>2. CASE Blocking # {}
  <2>1. PICK slots \in Room(len, cap) :
          /\ multiplier' = IF Grows(slots, len) THEN multiplier + 1
                           ELSE IF Shrinks(len, cap) THEN multiplier - 1
                           ELSE multiplier
          /\ allFull' = IF ~Grows(slots, len) /\ Shrinks(len, cap) THEN 0 ELSE FullPolls(len, cap)
          /\ limit' = LimitNow(slots, multiplier')
    BY <1>2 DEF AskLimit
  <2>2. slots \in Nat
    <3>1. PICK b \in Blocking : slots = IF len[b] < cap[b] THEN cap[b] - len[b] ELSE 0
      BY DEF Room
    <3>2. len[b] \in Nat /\ cap[b] \in Nat
      BY FanOutAssumption
    <3>. QED  BY <3>1, <3>2
  <2>3. FullPolls(len, cap) \in 0 .. multiplier
    BY DEF FullPolls, TypeOK
  <2>4. multiplier' \in 1 .. Ceiling /\ allFull' \in 0 .. multiplier'
    BY <2>1, <2>3, FanOutAssumption DEF Grows, Shrinks, TypeOK
  <2>5. AtLeastOne(slots) \in Nat /\ AtLeastOne(slots) >= 1
    BY <2>2 DEF AtLeastOne
  <2>6. multiplier' \in Nat /\ multiplier' >= 1
    BY <2>4, FanOutAssumption
  <2>7. AtLeastOne(slots) * multiplier' \in Nat /\ AtLeastOne(slots) * multiplier' >= 1
    BY <2>5, <2>6, ProductAtLeastOne
  <2>8. /\ LimitNow(slots, multiplier') \in Nat
        /\ MaxParallel # 0 => /\ LimitNow(slots, multiplier') >= 1
                              /\ LimitNow(slots, multiplier') <= MaxParallel
    BY <2>7, FanOutAssumption DEF LimitNow
  <2>. QED  BY <2>1, <2>4, <2>8
<1>. QED  BY <1>1, <1>2

LEMMA PollKeeps ==
  ASSUME FanInv, TaskPolled
  PROVE  FanInv'
<1>1. PICK len \in [Blocking -> Lengths], cap \in [Blocking -> Limits] : Poll(len, cap)
  BY DEF TaskPolled
<1>2. /\ multiplier' \in 1 .. Ceiling /\ allFull' \in 0 .. multiplier'
      /\ limit' \in Nat
      /\ MaxParallel # 0 => limit' >= 1 /\ limit' <= MaxParallel
  BY <1>1, LimitInRange DEF Poll, FanInv
<1>3. TypeOK'
  BY <1>1, <1>2 DEF Poll, FanInv, TypeOK
<1>4. Running' = Running /\ Spawned' = Spawned
  BY <1>1 DEF Poll, Running, Spawned
<1>5. Calm' /\ Settled' /\ Ended'
  BY <1>1, <1>4 DEF Poll, FanInv, Calm, Settled, Ended
<1>6. LimitInForce' /\ NeverOverLimit'
  BY <1>1, <1>2, <1>4 DEF Poll, FanInv, LimitInForce, NeverOverLimit
<1>7. Watched' /\ HasCause' /\ NotOver'
  BY <1>1 DEF Poll, Watched, HasCause, NotOver
<1>. QED  BY <1>3, <1>5, <1>6, <1>7 DEF FanInv

(***************************************************************************)
(* The pull.                                                               *)
(***************************************************************************)
LEMMA RunningAreFutures ==
  ASSUME Calm, Settled, pc = "pull"
  PROVE  Running \subseteq futures
<1>. QED  BY DEF Calm, Settled, Running, Spawned

LEMMA SpawnKeeps ==
  ASSUME FanInv, Spawn
  PROVE  FanInv'
<1>1. PICK r \in Requests :
        /\ \A q \in Requests : q < r <=> q \in Spawned
        /\ request' = [request EXCEPT ![r] = "running"]
        /\ TakeFutures(futures \cup {r})
  BY DEF Spawn
<1>2. r \notin Spawned
  BY <1>1, FanOutAssumption DEF Requests
<1>3. TypeOK'
  BY <1>1 DEF Spawn, TakeFutures, FanInv, TypeOK
<1>4. Running' = Running \cup {r} /\ Spawned' = Spawned \cup {r}
  BY <1>1 DEF Running, Spawned, FanInv, TypeOK
<1>5. \A q \in Spawned : request'[q] = request[q]
  BY <1>1, <1>2 DEF FanInv, TypeOK, Spawned
<1>6. Calm' /\ Settled' /\ Ended'
  BY <1>1, <1>4, <1>5 DEF Spawn, TakeFutures, FanInv, Calm, Settled, Ended
<1>7. LimitInForce' /\ HasCause' /\ NotOver'
  BY <1>1 DEF Spawn, TakeFutures, FanInv, LimitInForce, HasCause, NotOver
<1>8. Watched'
  BY <1>1 DEF Spawn, TakeFutures, Watched
<1>9. ASSUME MaxParallel # 0 PROVE Cardinality(Running') <= MaxParallel
  <2>1. Running \subseteq futures /\ futures \subseteq Requests
    BY RunningAreFutures DEF FanInv, Spawn, TypeOK
  <2>2. limit > Cardinality(futures) /\ limit <= MaxParallel /\ limit \in Nat
    BY <1>9 DEF Spawn, MayPull, FanInv, LimitInForce, TypeOK
  <2>3. /\ IsFiniteSet(futures) /\ IsFiniteSet(Running)
        /\ Cardinality(futures) \in Nat /\ Cardinality(Running) \in Nat
    BY <2>1, FanSets
  <2>4. Cardinality(Running) <= Cardinality(futures)
    BY <2>1, <2>3, FS_Subset
  <2>5. /\ Cardinality(Running \cup {r}) <= Cardinality(Running) + 1
        /\ Cardinality(Running \cup {r}) \in Nat
    BY <2>3, FS_AddElement
  <2>6. Cardinality(Running') = Cardinality(Running \cup {r})
    BY <1>4
  <2>. QED  BY <2>2, <2>3, <2>4, <2>5, <2>6, FanOutAssumption
<1>10. NeverOverLimit'
  BY <1>9 DEF NeverOverLimit
<1>. QED  BY <1>3, <1>6, <1>7, <1>8, <1>10 DEF FanInv

\* A round that pulls nothing.
LEMMA IdlePullKeeps ==
  ASSUME FanInv, StreamPending \/ StreamEnds \/ NoPull
  PROVE  FanInv'
<1>1. /\ pc = "pull" /\ pc' = "collect" /\ futures' = {} /\ rest' = futures
      /\ UNCHANGED <<woken, limit, registered, progress, error, request, multiplier, allFull>>
      /\ stream' \in {stream, "closed"} /\ streamWaits' \in BOOLEAN
  BY DEF StreamPending, StreamEnds, NoPull, TakeFutures, FanInv, TypeOK
<1>2. TypeOK'
  BY <1>1 DEF FanInv, TypeOK
<1>3. Running' = Running /\ Spawned' = Spawned
  BY <1>1 DEF Running, Spawned
<1>4. Calm' /\ Settled' /\ Ended'
  BY <1>1, <1>3 DEF FanInv, Calm, Settled, Ended
<1>5. LimitInForce' /\ NeverOverLimit' /\ Watched' /\ NotOver'
  BY <1>1, <1>3 DEF FanInv, LimitInForce, NeverOverLimit, Watched, NotOver
<1>6. Stuck'
  <2>1. CASE NoPull
    <3>1. stream' = "closed" \/ (limit' # 0 /\ ~ limit' > Cardinality(futures))
      <4>1. stream' = stream /\ limit' = limit /\ stream \in {"open", "closed"}
        BY <2>1 DEF NoPull, FanInv, TypeOK
      <4>2. stream # "open" \/ (limit # 0 /\ ~ limit > Cardinality(futures))
        BY <2>1 DEF NoPull, MayPull
      <4>. QED  BY <4>1, <4>2
    <3>2. Cardinality(futures) \in Nat /\ limit' \in Nat
      BY <1>1, FanSets DEF FanInv, TypeOK
    <3>3. (futures \cup rest)' = futures
      BY <1>1
    <3>. QED  BY <3>1, <3>2, <3>3 DEF Stuck
  <2>2. CASE StreamPending \/ StreamEnds
    BY <2>2 DEF StreamPending, StreamEnds, Stuck
  <2>. QED  BY <2>1, <2>2
<1>7. HasCause'
  BY <1>6 DEF HasCause
<1>. QED  BY <1>2, <1>4, <1>5, <1>7 DEF FanInv

LEMMA StreamFailsKeeps ==
  ASSUME FanInv, StreamFails
  PROVE  FanInv'
<1>1. N + 1 \in 0 .. N + 1 /\ StreamError # NoError
  BY FanOutAssumption DEF StreamError, NoError
<1>2. TypeOK'
  BY <1>1 DEF StreamFails, TakeFutures, FanInv, TypeOK, StreamError
<1>3. Running' = Running
  BY DEF Running, StreamFails
<1>4. Calm' /\ Settled' /\ Ended'
  BY <1>1 DEF StreamFails, TakeFutures, Calm, Settled, Ended
<1>5. LimitInForce' /\ NeverOverLimit' /\ Watched' /\ NotOver'
  BY <1>3 DEF StreamFails, TakeFutures, FanInv, LimitInForce, NeverOverLimit, Watched, NotOver
<1>6. HasCause'
  BY DEF StreamFails, HasCause, Stuck
<1>. QED  BY <1>2, <1>4, <1>5, <1>6 DEF FanInv

(***************************************************************************)
(* The rest of a round, and what others do.                                *)
(***************************************************************************)
LEMMA CollectKeeps ==
  ASSUME FanInv, Collect
  PROVE  FanInv'
<1>1. PICK r \in rest :
        /\ rest' = rest \ {r}
        /\ IF request[r] = "running"
           THEN /\ futures' = futures \cup {r} /\ registered' = registered \cup {r}
                /\ UNCHANGED <<progress, error>>
           ELSE /\ progress' = TRUE
                /\ error' = IF request[r] = "failed" THEN r ELSE error
                /\ UNCHANGED <<futures, registered>>
  BY DEF Collect
<1>2. /\ pc = "collect"
      /\ UNCHANGED <<pc, woken, limit, stream, streamWaits, request, multiplier, allFull>>
  BY DEF Collect
<1>3. r \in Requests /\ r \in 0 .. N + 1 /\ r # NoError
  BY FanOutAssumption DEF FanInv, TypeOK, Requests, NoError
<1>4. request[r] \in {"none", "running", "ok", "failed"}
  BY <1>3 DEF FanInv, TypeOK
<1>5. TypeOK'
  BY <1>1, <1>2, <1>3 DEF FanInv, TypeOK
<1>6. Running' = Running /\ Spawned' = Spawned
  BY <1>2 DEF Running, Spawned
<1>7. Settled'
  <2>1. CASE error' = NoError
    <3>1. error = NoError /\ request[r] # "failed"
      BY <1>1, <1>3, <2>1
    <3>. QED  BY <1>1, <1>2, <1>4, <1>6, <3>1 DEF FanInv, Settled, Spawned
  <2>. QED  BY <2>1 DEF Settled
<1>8. Calm' /\ Ended' /\ LimitInForce' /\ NeverOverLimit' /\ NotOver'
  BY <1>2, <1>6 DEF FanInv, Calm, Ended, LimitInForce, NeverOverLimit, NotOver
<1>9. Watched'
  BY <1>1, <1>2, <1>3, <1>6 DEF FanInv, Watched, Running
<1>10. HasCause'
  <2>1. CASE request[r] = "running"
    <3>1. (futures \cup rest)' = futures \cup rest
      BY <1>1, <2>1
    <3>. QED  BY <1>1, <1>2, <2>1, <3>1 DEF FanInv, HasCause, Stuck
  <2>2. CASE request[r] # "running"
    BY <1>1, <1>2, <2>2 DEF HasCause
  <2>. QED  BY <2>1, <2>2
<1>. QED  BY <1>5, <1>7, <1>8, <1>9, <1>10 DEF FanInv

LEMMA EndIterationKeeps ==
  ASSUME FanInv, EndIteration
  PROVE  FanInv'
<1>1. TypeOK'
  BY DEF EndIteration, FanInv, TypeOK
<1>2. Running' = Running /\ Spawned' = Spawned
  BY DEF EndIteration, Running, Spawned
<1>3. CASE error # NoError
  <2>1. Calm' /\ Settled' /\ Ended' /\ Watched' /\ HasCause' /\ NotOver'
    BY <1>3 DEF EndIteration, Calm, Settled, Ended, Watched, HasCause, NotOver
  <2>2. LimitInForce' /\ NeverOverLimit'
    BY <1>2, <1>3 DEF EndIteration, FanInv, LimitInForce, NeverOverLimit
  <2>. QED  BY <1>1, <2>1, <2>2 DEF FanInv
<1>4. CASE error = NoError
  <2>1. /\ pc = "collect" /\ rest = {}
        /\ pc' = IF futures = {} /\ stream = "closed" THEN "done"
                 ELSE IF progress THEN "pull" ELSE "asleep"
        /\ UNCHANGED <<futures, stream, woken, limit, streamWaits, rest, registered, error,
                       request, multiplier, allFull>>
    BY <1>4 DEF EndIteration
  <2>2. Calm' /\ Settled' /\ Ended'
    BY <1>2, <1>4, <2>1 DEF FanInv, Calm, Settled, Ended
  <2>3. LimitInForce' /\ NeverOverLimit'
    BY <1>2, <2>1 DEF FanInv, LimitInForce, NeverOverLimit
  <2>4. Watched' /\ NotOver'
    BY <1>2, <2>1 DEF FanInv, TypeOK, Watched, NotOver
  <2>5. HasCause'
    BY <2>1 DEF FanInv, TypeOK, HasCause, Stuck
  <2>. QED  BY <1>1, <2>2, <2>3, <2>4, <2>5 DEF FanInv
<1>. QED  BY <1>3, <1>4

LEMMA RequestEndsKeeps ==
  ASSUME FanInv, NEW r \in Requests, RequestEnds(r)
  PROVE  FanInv'
<1>1. PICK outcome \in {"ok", "failed"} : request' = [request EXCEPT ![r] = outcome]
  BY DEF RequestEnds
<1>2. /\ request[r] = "running"
      /\ woken' = (woken \/ r \in registered) /\ registered' = registered \ {r}
      /\ UNCHANGED <<pc, limit, stream, futures, rest, progress, error, streamWaits, multiplier,
                     allFull>>
  BY DEF RequestEnds, fan
<1>3. TypeOK'
  BY <1>1, <1>2 DEF FanInv, TypeOK
<1>4. Running' = Running \ {r} /\ Spawned' = Spawned
  BY <1>1, <1>2 DEF FanInv, TypeOK, Running, Spawned
<1>5. Settled'
  BY <1>1, <1>2, <1>4 DEF FanInv, TypeOK, Settled, Spawned
<1>6. Calm' /\ Ended' /\ LimitInForce' /\ HasCause' /\ NotOver'
  BY <1>2 DEF FanInv, TypeOK, Calm, Ended, LimitInForce, HasCause, Stuck, NotOver
<1>7. Watched'
  BY <1>2, <1>4 DEF FanInv, TypeOK, Watched
<1>8. NeverOverLimit'
  <2>1. Running' \subseteq Running /\ Running \subseteq Requests
    BY <1>4 DEF Running
  <2>2. /\ IsFiniteSet(Running) /\ Cardinality(Running) \in Nat
        /\ Cardinality(Running') \in Nat /\ Cardinality(Running') <= Cardinality(Running)
    BY <2>1, FanSets, FS_Subset
  <2>. QED  BY <2>2, FanOutAssumption DEF FanInv, NeverOverLimit
<1>. QED  BY <1>3, <1>5, <1>6, <1>7, <1>8 DEF FanInv

LEMMA StreamWakesKeeps ==
  ASSUME FanInv, StreamWakes
  PROVE  FanInv'
<1>1. TypeOK'
  BY DEF StreamWakes, fan, FanInv, TypeOK
<1>2. Running' = Running /\ Spawned' = Spawned
  BY DEF StreamWakes, Running, Spawned
<1>. QED
  BY <1>1, <1>2 DEF StreamWakes, fan, FanInv, Calm, Settled, Ended, LimitInForce, NeverOverLimit,
     Watched, HasCause, Stuck, NotOver

LEMMA StutterKeeps ==
  ASSUME FanInv, UNCHANGED vars
  PROVE  FanInv'
<1>1. Running' = Running /\ Spawned' = Spawned
  BY DEF vars, Running, Spawned
<1>2. TypeOK'
  BY DEF vars, fan, FanInv, TypeOK
<1>. QED
  BY <1>1, <1>2 DEF vars, fan, FanInv, Calm, Settled, Ended, LimitInForce, NeverOverLimit,
     Watched, HasCause, Stuck, NotOver

LEMMA FanOutInvariant == Spec => []FanInv
<1>1. FanInv /\ [Next]_vars => FanInv'
  <2>. SUFFICES ASSUME FanInv, [Next]_vars PROVE FanInv'
    OBVIOUS
  <2>1. CASE TaskPolled
    BY <2>1, PollKeeps
  <2>2. CASE Spawn
    BY <2>2, SpawnKeeps
  <2>3. CASE StreamPending \/ StreamEnds \/ NoPull
    BY <2>3, IdlePullKeeps
  <2>4. CASE StreamFails
    BY <2>4, StreamFailsKeeps
  <2>5. CASE Collect
    BY <2>5, CollectKeeps
  <2>6. CASE EndIteration
    BY <2>6, EndIterationKeeps
  <2>7. CASE StreamWakes
    BY <2>7, StreamWakesKeeps
  <2>8. CASE \E r \in Requests : RequestEnds(r)
    BY <2>8, RequestEndsKeeps
  <2>9. CASE UNCHANGED vars
    BY <2>9, StutterKeeps
  <2>. QED
    BY <2>1, <2>2, <2>3, <2>4, <2>5, <2>6, <2>7, <2>8, <2>9 DEF Next, TaskStep
<1>. QED  BY InitFan, <1>1, PTL DEF Spec

-----------------------------------------------------------------------------
\* The variables of poll and of limit_fn stay in their ranges: the multiplier
\* is between 1 and the ceiling, whatever the providers hold.
THEOREM FanOutTypeCorrect == Spec => []TypeOK
<1>1. FanInv => TypeOK
  BY DEF FanInv
<1>. QED  BY <1>1, FanOutInvariant, PTL

\* No endpoint has more requests under way than max_parallel_requests allows,
\* an endpoint that failed included: its requests go on, but none is added.
THEOREM ParallelRequestsAreBounded == Spec => []NeverOverLimit
<1>1. FanInv => NeverOverLimit
  BY DEF FanInv
<1>. QED  BY <1>1, FanOutInvariant, PTL

\* An endpoint that ends without an error has drained its stream and all its
\* requests ended well: no oneshot is forgotten.
THEOREM SuccessMeansAllDone == Spec => []EndsWhenAllDone
<1>1. FanInv => EndsWhenAllDone
  BY DEF FanInv, Settled, Ended, EndsWhenAllDone
<1>. QED  BY <1>1, FanOutInvariant, PTL

\* The task never sleeps without somebody to wake it.
THEOREM NoLostWakeup == Spec => []SleepsWithReason
<1>1. FanInv => SleepsWithReason
  <2>. SUFFICES ASSUME FanInv, pc = "asleep", ~woken PROVE SleepsWithReason
    BY DEF SleepsWithReason
  <2>1. rest = {} /\ futures \subseteq Running \cap registered
    BY DEF FanInv, Calm, Watched
  <2>2. stream = "open" => streamWaits \/ (limit # 0 /\ Cardinality(futures) >= limit)
    <3>1. futures \cup rest = futures
      BY <2>1
    <3>. QED  BY <3>1 DEF FanInv, HasCause, Stuck
  <2>3. futures \cup (IF stream = "open" THEN {0} ELSE {}) # {}
    BY DEF FanInv, NotOver
  <2>. QED  BY <2>1, <2>2, <2>3 DEF SleepsWithReason
<1>. QED  BY <1>1, FanOutInvariant, PTL
=============================================================================
