---------------------------- MODULE StatsProofs ----------------------------
(* What the run of Stats checks on a few responses and buckets, for any.    *)
EXTENDS Stats, SequenceTheorems, FiniteSetTheorems, TLAPS

-----------------------------------------------------------------------------
(***************************************************************************)
(* Rounding.                                                               *)
(***************************************************************************)
LEMMA Multiples ==
  ASSUME NEW b \in Nat \ {0}, NEW j \in Int, NEW k \in Int, j * b < k * b + b
  PROVE  j <= k
<1>. SUFFICES ASSUME j >= k + 1 PROVE FALSE
  OBVIOUS
<1>1. PICK d \in Nat : j = k + 1 + d
  <2>1. j - (k + 1) \in Nat
    OBVIOUS
  <2>. QED  BY <2>1
<1>2. j * b = (k * b + b) + d * b
  BY <1>1
<1>3. d * b >= 0
  BY <1>1
<1>. QED  BY <1>2, <1>3

LEMMA QuotientIsNatural ==
  ASSUME NEW n \in Nat, NEW b \in Nat \ {0}, NEW q \in Int, NEW r \in 0 .. b - 1, n = b * q + r
  PROVE  q \in Nat /\ n = q * b + r
<1>1. n = q * b + r
  OBVIOUS
<1>2. 0 * b < q * b + b
  BY <1>1
<1>3. q >= 0
  BY <1>2, Multiples
<1>. QED  BY <1>1, <1>3

LEMMA DivMod ==
  ASSUME NEW n \in Nat, NEW b \in Nat \ {0}
  PROVE  /\ n \div b \in Nat /\ n % b \in 0 .. b - 1
         /\ n = (n \div b) * b + (n % b)
<1>1. n \div b \in Int /\ n % b \in 0 .. b - 1
  OBVIOUS
<1>2. n = b * (n \div b) + (n % b)
  OBVIOUS
<1>. QED  BY <1>1, <1>2, QuotientIsNatural

LEMMA NoRemainder ==
  ASSUME NEW k \in Nat, NEW b \in Nat \ {0}
  PROVE  (k * b) % b = 0
<1>. DEFINE n == k * b
            p == n \div b
            r == n % b
<1>1. n \in Nat
  OBVIOUS
<1>2. p \in Nat /\ r \in 0 .. b - 1 /\ n = p * b + r
  BY <1>1, DivMod
<1>. HIDE DEF p, r
<1>3. k <= p
  BY <1>2, Multiples
<1>4. p <= k
  <2>1. p * b < k * b + b
    BY <1>2
  <2>. QED  BY <1>2, <2>1, Multiples
<1>5. r = 0
  BY <1>2, <1>3, <1>4
<1>. QED  BY <1>5 DEF r

LEMMA RoundIsDown ==
  ASSUME NEW n \in Nat
  PROVE  /\ Round(n) \in Nat /\ Round(n) % BucketSize = 0
         /\ Round(n) <= n /\ n < Round(n) + BucketSize
<1>. DEFINE q == n \div BucketSize
            m == n % BucketSize
<1>1. BucketSize \in Nat \ {0}
  BY StatsAssumption
<1>2. q \in Nat /\ m \in 0 .. BucketSize - 1 /\ n = q * BucketSize + m
  BY <1>1, DivMod
<1>3. Round(n) = q * BucketSize
  BY DEF Round
<1>. HIDE DEF q, m
<1>. QED  BY <1>1, <1>2, <1>3, NoRemainder

LEMMA RoundIs ==
  ASSUME NEW n \in Nat, NEW t \in Nat, t % BucketSize = 0, t <= n, n < t + BucketSize
  PROVE  Round(n) = t
<1>. DEFINE q == n \div BucketSize
            k == t \div BucketSize
<1>1. BucketSize \in Nat \ {0}
  BY StatsAssumption
<1>2. k \in Nat /\ t = k * BucketSize
  BY <1>1, DivMod
<1>3. q \in Nat
  BY <1>1, DivMod
<1>4. Round(n) = q * BucketSize
  BY DEF Round
<1>. HIDE DEF q, k
<1>5. Round(n) <= n /\ n < Round(n) + BucketSize
  BY RoundIsDown
<1>6. q <= k
  <2>1. q * BucketSize < k * BucketSize + BucketSize
    BY <1>1, <1>2, <1>3, <1>4, <1>5
  <2>. QED  BY <1>1, <1>2, <1>3, <2>1, Multiples
<1>7. k <= q
  <2>1. k * BucketSize < q * BucketSize + BucketSize
    BY <1>1, <1>2, <1>3, <1>4, <1>5
  <2>. QED  BY <1>1, <1>2, <1>3, <2>1, Multiples
<1>8. q = k
  BY <1>2, <1>3, <1>6, <1>7
<1>. QED  BY <1>2, <1>4, <1>8

-----------------------------------------------------------------------------
(***************************************************************************)
(* Types.                                                                  *)
(***************************************************************************)
LEMMA AppendHas ==
  ASSUME NEW S, NEW s \in Seq(S), NEW e \in S
  PROVE  /\ Append(s, e) \in Seq(S) /\ DOMAIN s = 1 .. Len(s)
         /\ DOMAIN Append(s, e) = 1 .. Len(s) + 1
         /\ \A i \in 1 .. Len(s) : Append(s, e)[i] = s[i]
         /\ Append(s, e)[Len(s) + 1] = e
OBVIOUS

LEMMA TailHas ==
  ASSUME NEW S, NEW s \in Seq(S), s # <<>>
  PROVE  /\ Tail(s) \in Seq(S) /\ DOMAIN s = 1 .. Len(s) /\ Len(s) \in Nat \ {0}
         /\ DOMAIN Tail(s) = 1 .. Len(s) - 1
         /\ \A i \in 1 .. Len(s) - 1 : Tail(s)[i] = s[i + 1]
         /\ Head(s) = s[1]
OBVIOUS

LEMMA BucketIsMessage == TypeOK => Bucket \in Messages
BY DEF TypeOK, Bucket, Messages

LEMMA CombineType ==
  ASSUME NEW a \in [Responses -> Nat], NEW b \in [Responses -> Nat]
  PROVE  Combine(a, b) \in [Responses -> Nat]
BY DEF Combine

LEMMA InitTypeOK == Init => TypeOK
<1>. SUFFICES ASSUME Init PROVE TypeOK
  OBVIOUS
<1>1. now \in Nat /\ BucketSize \in Nat
  BY StatsAssumption DEF Init
<1>2. Round(now) \in Nat /\ Round(now) % BucketSize = 0
  BY <1>1, RoundIsDown
<1>3. tick \in Nat
  BY <1>1, <1>2 DEF Init
<1>4. Nothing \in [Responses -> Nat]
  BY DEF Nothing
<1>5. <<>> \in Seq(Responses \cup {"start"}) /\ <<>> \in Seq({"update", "end"})
      /\ <<>> \in Seq(Messages) /\ <<>> \in Seq([Responses -> Nat])
  OBVIOUS
<1>6. 0 \in 0 .. MaxUpdates
  BY StatsAssumption
<1>7. time \in Nat /\ time % BucketSize = 0
  BY <1>2 DEF Init
<1>. QED  BY <1>1, <1>3, <1>4, <1>5, <1>6, <1>7 DEF Init, TypeOK

LEMMA WakeType ==
  ASSUME TypeOK, NEW w \in {"end", "tick", "message"}, Wake(w)
  PROVE  task' \in {"ready", "asleep", "done", "panicked"} /\ wakers' \subseteq {"end", "tick", "message"}
BY DEF TypeOK, Wake

LEMMA CloseTestType ==
  ASSUME TypeOK, CloseTest
  PROVE  /\ time' \in Nat /\ time' % BucketSize = 0
         /\ current' \in [Responses -> Nat] /\ totals' \in [Responses -> Nat]
         /\ file' \in Seq(Messages) /\ finals' \in Seq([Responses -> Nat])
<1>1. Combine(totals, current) \in [Responses -> Nat] /\ Nothing \in [Responses -> Nat]
  BY CombineType DEF TypeOK, Nothing
<1>2. BucketSize \in Nat \ {0} /\ 0 % BucketSize = 0
  BY StatsAssumption
<1>3. file' \in Seq(Messages)
  BY BucketIsMessage DEF TypeOK, CloseTest, WriteBucket
<1>4. finals' \in Seq([Responses -> Nat])
  BY <1>1 DEF TypeOK, CloseTest
<1>. QED  BY <1>1, <1>2, <1>3, <1>4 DEF CloseTest

LEMMA CloseBucketType ==
  ASSUME TypeOK, CloseBucket
  PROVE  /\ task' \in {"ready", "asleep", "done", "panicked"}
         /\ time' \in Nat /\ time' % BucketSize = 0
         /\ current' \in [Responses -> Nat] /\ totals' \in [Responses -> Nat]
         /\ file' \in Seq(Messages) /\ finals' \in Seq([Responses -> Nat])
<1>1. Combine(totals, current) \in [Responses -> Nat] /\ Nothing \in [Responses -> Nat]
  BY CombineType DEF TypeOK, Nothing
<1>2. Round(now) \in Nat /\ Round(now) % BucketSize = 0
  BY RoundIsDown DEF TypeOK
<1>3. Append(file, Bucket) \in Seq(Messages)
  BY BucketIsMessage DEF TypeOK
<1>4. CASE task' = "panicked" /\ UNCHANGED <<buckets, file>>
  BY <1>4 DEF buckets, TypeOK
<1>5. CASE time' = Round(now) /\ current' = Nothing /\ totals' = Combine(totals, current)
           /\ WriteBucket /\ UNCHANGED <<task, finals>>
  BY <1>1, <1>2, <1>3, <1>5 DEF WriteBucket, TypeOK
<1>6. CASE UNCHANGED <<time, current, totals, file, task, finals>>
  BY <1>6 DEF TypeOK
<1>. QED  BY <1>4, <1>5, <1>6 DEF CloseBucket

LEMMA NextTypeOK == TypeOK /\ [Next]_vars => TypeOK'
<1>. SUFFICES ASSUME TypeOK, [Next]_vars PROVE TypeOK'
  OBVIOUS
<1>0. BucketSize \in Nat /\ MaxUpdates \in Nat
  BY StatsAssumption
<1>1. CASE Pass
  <2>1. task' \in {"ready", "asleep", "done", "panicked"} /\ wakers' \subseteq {"end", "tick", "message"}
    BY <1>1, WakeType DEF Pass, TypeOK
  <2>. QED  BY <1>1, <2>1 DEF Pass, TypeOK, load, buckets
<1>2. CASE Start \/ SetupFails
  <2>1. task' \in {"ready", "asleep", "done", "panicked"} /\ wakers' \subseteq {"end", "tick", "message"}
    BY <1>2, WakeType DEF Start, SetupFails
  <2>2. inbox' \in Seq(Responses \cup {"start"}) /\ test' \in {"setup", "running", "failed"}
    <3>1. CASE Start
      BY <3>1, AppendHas DEF Start, TypeOK
    <3>2. CASE SetupFails
      BY <3>2 DEF SetupFails, TypeOK, clock, buckets
    <3>. QED  BY <1>2, <3>1, <3>2
  <2>. QED  BY <1>2, <2>1, <2>2 DEF Start, SetupFails, TypeOK, clock, buckets
<1>3. ASSUME NEW r \in Responses, Tell(r) PROVE TypeOK'
  <2>1. task' \in {"ready", "asleep", "done", "panicked"} /\ wakers' \subseteq {"end", "tick", "message"}
    BY <1>3, WakeType DEF Tell
  <2>2. inbox' \in Seq(Responses \cup {"start"}) /\ told' \subseteq Responses
    BY <1>3 DEF Tell, TypeOK
  <2>. QED  BY <1>3, <2>1, <2>2 DEF Tell, TypeOK, clock, buckets
<1>4. CASE End \/ Update
  <2>1. task' \in {"ready", "asleep", "done", "panicked"} /\ wakers' \subseteq {"end", "tick", "message"}
    BY <1>4, WakeType DEF End, Update
  <2>2. news' \in Seq({"update", "end"}) /\ ended' \in BOOLEAN /\ updates' \in 0 .. MaxUpdates
    <3>1. CASE End
      BY <3>1, AppendHas DEF End, TypeOK
    <3>2. CASE Update
      <4>1. news' \in Seq({"update", "end"}) /\ ended' = ended
        BY <3>2, AppendHas DEF Update, TypeOK, clock, buckets
      <4>2. updates' \in 0 .. MaxUpdates
        BY <1>0, <3>2 DEF Update, TypeOK
      <4>. QED  BY <4>1, <4>2 DEF TypeOK
    <3>. QED  BY <1>4, <3>1, <3>2
  <2>. QED  BY <1>4, <2>1, <2>2 DEF End, Update, TypeOK, clock, buckets
<1>5. CASE TestComplete
  <2>1. news' \in Seq({"update", "end"})
    BY <1>5 DEF TestComplete
  <2>. QED  BY <1>5, <2>1, CloseTestType DEF TestComplete, TypeOK, clock, load
<1>6. CASE ConfigUpdate
  <2>1. news' \in Seq({"update", "end"}) /\ task' \in {"ready", "asleep", "done", "panicked"}
    BY <1>6 DEF ConfigUpdate
  <2>. QED  BY <1>6, <2>1 DEF ConfigUpdate, TypeOK, clock, load, buckets
<1>7. CASE NewBucket
  <2>1. tick' \in Nat
    BY <1>0, <1>7, StatsAssumption DEF NewBucket, NextTick, TypeOK
  <2>2. wakers' \subseteq {"end", "tick", "message"}
    BY <1>7 DEF NewBucket, TypeOK
  <2>3. /\ task' \in {"ready", "asleep", "done", "panicked"}
        /\ time' \in Nat /\ time' % BucketSize = 0
        /\ current' \in [Responses -> Nat] /\ totals' \in [Responses -> Nat]
        /\ file' \in Seq(Messages) /\ finals' \in Seq([Responses -> Nat])
    <3>1. CASE started
      BY <1>7, <3>1, CloseBucketType DEF NewBucket
    <3>2. CASE ~started
      BY <1>7, <3>2, CloseTestType DEF NewBucket, TypeOK
    <3>. QED  BY <3>1, <3>2
  <2>. QED  BY <1>7, <2>1, <2>2, <2>3 DEF NewBucket, TypeOK, load
<1>8. CASE ReadStart
  <2>1. inbox' \in Seq(Responses \cup {"start"})
    BY <1>8, TailHas DEF ReadStart, TypeOK
  <2>2. [kind |-> "header"] \in Messages
    BY DEF Messages
  <2>3. file' \in Seq(Messages) /\ wakers' \subseteq {"end", "tick", "message"}
    BY <1>8, <2>2, AppendHas DEF ReadStart, TypeOK
  <2>. QED  BY <1>8, <2>1, <2>3 DEF ReadStart, TypeOK, clock, load, buckets
<1>9. CASE ReadResponse
  <2>. DEFINE r == Head(inbox)
  <2>1. inbox' \in Seq(Responses \cup {"start"}) /\ r \in Responses
    BY <1>9, TailHas DEF ReadResponse, TypeOK
  <2>. HIDE DEF r
  <2>2. Count(r) /\ wakers' \subseteq {"end", "tick", "message"}
    BY <1>9 DEF ReadResponse, TypeOK, r
  <2>3. [kind |-> "tags", tag |-> Tag[r]] \in Messages
    BY <2>1 DEF Messages
  <2>4. file' \in Seq(Messages)
    BY <2>2, <2>3, AppendHas DEF Count, TypeOK
  <2>5. current' \in [Responses -> Nat] /\ tags' \subseteq {Tag[q] : q \in Responses}
    BY <2>1, <2>2 DEF Count, TypeOK
  <2>. QED  BY <1>9, <2>1, <2>2, <2>4, <2>5 DEF ReadResponse, Count, TypeOK, clock, load
<1>10. CASE Closed \/ Sleep
  BY <1>10 DEF Closed, Sleep, TypeOK, clock, load, buckets
<1>11. CASE UNCHANGED vars
  BY <1>11 DEF vars, TypeOK, clock, load, buckets
<1>. QED  BY <1>1, <1>2, <1>3, <1>4, <1>5, <1>6, <1>7, <1>8, <1>9, <1>10, <1>11 DEF Next, Poll

\* Every variable of Stats keeps its type.
THEOREM StatsTypeCorrect == Spec => []TypeOK
<1>. QED  BY InitTypeOK, NextTypeOK, PTL DEF Spec
-----------------------------------------------------------------------------
(***************************************************************************)
(* Time.  The interval and the current bucket move on together: while the  *)
(* task lives, the bucket ends at most a second before the next tick.      *)
(***************************************************************************)
OnTime == ~SlowStart /\ MaxLate + 1 < BucketSize

TimeInv ==
  /\ NoPanic
  /\ ~Over =>
       /\ finals = <<>>
       /\ time <= now /\ time + BucketSize <= tick /\ tick <= time + BucketSize + 1
       /\ now - tick <= MaxLate
       /\ ~started => now < tick

LEMMA InitTime == Init => TimeInv
<1>. SUFFICES ASSUME Init PROVE TimeInv
  OBVIOUS
<1>1. now \in Nat /\ BucketSize \in Nat \ {0} /\ MaxLate \in Nat
  BY StatsAssumption DEF Init
<1>2. time <= now /\ now < time + BucketSize /\ time \in Nat
  BY <1>1, RoundIsDown DEF Init
<1>3. PICK phase \in {0, 1} : tick = time + BucketSize + phase
  BY DEF Init
<1>. QED  BY <1>1, <1>2, <1>3 DEF Init, TimeInv, NoPanic, Over

\* A step that leaves the times and the summaries alone and panics not.
LEMMA SameTime ==
  ASSUME TypeOK, TimeInv, UNCHANGED <<now, tick, time, finals>>, task' # "panicked",
         Over => Over', started => started'
  PROVE  TimeInv'
BY DEF TypeOK, TimeInv, NoPanic, Over

LEMMA WakeKeeps ==
  ASSUME TypeOK, TimeInv, NEW w, Wake(w)
  PROVE  task' # "panicked" /\ (Over <=> Over')
BY DEF TypeOK, TimeInv, NoPanic, Over, Wake

\* The tick is served within the bucket that follows the current one.
LEMMA ServedInTime ==
  ASSUME OnTime, TypeOK, TimeInv, NewBucket
  PROVE  started /\ Round(now) = time + BucketSize
<1>1. /\ BucketSize \in Nat \ {0} /\ MaxLate \in Nat
      /\ now \in Nat /\ tick \in Nat /\ time \in Nat /\ time % BucketSize = 0
  BY StatsAssumption DEF TypeOK
<1>2. task = "ready" /\ now >= tick
  BY DEF NewBucket, TickDue, NoNews, Polled
<1>3. started /\ time + BucketSize <= now /\ now < (time + BucketSize) + BucketSize
  BY <1>1, <1>2 DEF TimeInv, Over, OnTime
<1>4. (time + BucketSize) % BucketSize = 0
  <2>. DEFINE k == time \div BucketSize
  <2>1. k \in Nat /\ time = k * BucketSize
    BY <1>1, DivMod
  <2>. HIDE DEF k
  <2>2. time + BucketSize = (k + 1) * BucketSize
    BY <1>1, <2>1
  <2>. QED  BY <1>1, <2>1, <2>2, NoRemainder
<1>. QED  BY <1>1, <1>3, <1>4, RoundIs

LEMMA NextTime == OnTime /\ TypeOK /\ TimeInv /\ [Next]_vars => TimeInv'
<1>. SUFFICES ASSUME OnTime, TypeOK, TimeInv, [Next]_vars PROVE TimeInv'
  OBVIOUS
<1>0. BucketSize \in Nat \ {0} /\ MaxLate \in Nat
  BY StatsAssumption
<1>1. CASE Pass
  <2>1. task' # "panicked" /\ (Over <=> Over')
    <3>1. CASE Wake("tick")
      BY <3>1, WakeKeeps
    <3>2. CASE UNCHANGED task
      BY <3>2 DEF TimeInv, NoPanic, Over
    <3>. QED  BY <1>1, <3>1, <3>2 DEF Pass
  <2>2. UNCHANGED <<tick, time, finals, started>> /\ now' = now + 1
    BY <1>1 DEF Pass, buckets
  <2>3. ~Over => now + 1 - tick <= MaxLate /\ (~started => now + 1 < tick)
    BY <1>1 DEF Pass, OnTime
  <2>. QED  BY <1>0, <2>1, <2>2, <2>3 DEF TimeInv, NoPanic, TypeOK
<1>2. ASSUME Start \/ SetupFails \/ End \/ Update \/ \E r \in Responses : Tell(r)
      PROVE  TimeInv'
  <2>1. PICK w \in {"end", "message"} : Wake(w)
    BY <1>2 DEF Start, SetupFails, End, Update, Tell
  <2>2. UNCHANGED <<now, tick, time, finals, started>>
    BY <1>2 DEF Start, SetupFails, End, Update, Tell, clock, buckets
  <2>. QED  BY <2>1, <2>2, WakeKeeps, SameTime
<1>3. CASE TestComplete \/ Closed
  BY <1>3 DEF TestComplete, Closed, TimeInv, NoPanic, Over
<1>4. CASE ConfigUpdate \/ ReadStart \/ ReadResponse \/ Sleep
  <2>1. UNCHANGED <<now, tick, time, finals>> /\ (started => started') /\ ~Over /\ task' # "panicked"
    BY <1>4 DEF ConfigUpdate, ReadStart, ReadResponse, Sleep, NoTick, NoNews, Polled, Over, Count,
                clock, buckets
  <2>. QED  BY <2>1, SameTime
<1>5. CASE NewBucket
  <2>1. started /\ Round(now) = time + BucketSize
    BY <1>5, ServedInTime
  <2>2. task = "ready" /\ now >= tick
    BY <1>5 DEF NewBucket, TickDue, NoNews, Polled
  <2>3. now \in Nat /\ tick \in Nat /\ time \in Nat
    BY DEF TypeOK
  <2>4. CloseBucket /\ time < Round(now) /\ Round(now) - BucketSize = time
    BY <1>0, <1>5, <2>1, <2>3 DEF NewBucket
  <2>5. time' = time + BucketSize /\ UNCHANGED <<task, finals>>
    BY <2>1, <2>4 DEF CloseBucket
  <2>6. tick' = tick + BucketSize /\ UNCHANGED <<now, started>>
    BY <1>5 DEF NewBucket, NextTick
  <2>7. /\ finals = <<>> /\ time + BucketSize <= tick /\ tick <= time + BucketSize + 1
        /\ now - tick <= MaxLate
    BY <2>2 DEF TimeInv, Over
  <2>. QED  BY <1>0, <2>1, <2>2, <2>3, <2>5, <2>6, <2>7 DEF TimeInv, NoPanic
<1>6. CASE UNCHANGED vars
  BY <1>6 DEF vars, clock, buckets, TimeInv, NoPanic, Over
<1>. QED  BY <1>1, <1>2, <1>3, <1>4, <1>5, <1>6 DEF Next, Poll

\* The task does not panic for any size of the buckets, if the test begins
\* in the first one and the task is never late for nearly a whole one.
THEOREM NeverPanics == OnTime => (Spec => []NoPanic)
<1>. SUFFICES ASSUME OnTime PROVE Spec => []NoPanic
  OBVIOUS
<1>1. TimeInv => NoPanic
  BY DEF TimeInv
<1>. QED  BY <1>1, InitTypeOK, NextTypeOK, InitTime, NextTime, PTL DEF Spec
LEMMA StepCountsInTime ==
  ASSUME OnTime, TypeOK, TimeInv, [Next]_vars, NEW r \in Responses, current'[r] > current[r]
  PROVE  time <= now /\ now <= time + BucketSize
<1>0. current \in [Responses -> Nat]
  BY DEF TypeOK
<1>1. ReadResponse
  <2>1. current' # current /\ current' # Nothing
    BY <1>0 DEF Nothing
  <2>2. ~TestComplete /\ ~CloseTest /\ ~CloseBucket
    BY <2>1 DEF TestComplete, CloseTest, CloseBucket, buckets
  <2>. QED  BY <2>1, <2>2 DEF Next, Poll, Pass, Start, SetupFails, End, Update, Tell, ConfigUpdate,
                              NewBucket, ReadStart, Closed, Sleep, vars, buckets
<1>2. ~Over /\ now < tick
  BY <1>1 DEF ReadResponse, NoTick, NoNews, Polled, TickDue, Over, TypeOK
<1>3. /\ now \in Nat /\ tick \in Nat /\ time \in Nat /\ BucketSize \in Nat
      /\ time <= now /\ tick <= time + BucketSize + 1
  BY <1>2, StatsAssumption DEF TypeOK, TimeInv
<1>. QED  BY <1>2, <1>3

\* A response is counted in the bucket of the time it is read at.
THEOREM AlwaysCountsInTime == OnTime => (Spec => CountsInTime)
<1>. SUFFICES ASSUME OnTime PROVE Spec => CountsInTime
  OBVIOUS
<1>1. TypeOK /\ TimeInv /\ [Next]_vars =>
        [\A r \in Responses :
           current'[r] > current[r] => time <= now /\ now <= time + BucketSize]_vars
  BY StepCountsInTime
<1>. QED  BY <1>1, InitTypeOK, NextTypeOK, InitTime, NextTime, PTL DEF Spec, CountsInTime

-----------------------------------------------------------------------------
(***************************************************************************)
(* Counting.  The inbox holds a response at most once, and only one that   *)
(* was told.                                                               *)
(***************************************************************************)
Waits(r) == \E i \in DOMAIN inbox : inbox[i] = r
Read(r)  == r \in told /\ ~Waits(r)
Sum(r)   == current[r] + (IF finals = <<>> THEN totals[r] ELSE finals[1][r])

CountInv ==
  /\ \A r \in Responses : Waits(r) => r \in told
  /\ \A i, j \in DOMAIN inbox : inbox[i] = inbox[j] /\ inbox[i] \in Responses => i = j
  /\ \A r \in Responses : Sum(r) = IF Read(r) THEN 1 ELSE 0

LEMMA CountedOnceIs == CountInv => CountedOnce
<1>1. \A r : Read(r) <=> (r \in told /\ \A i \in DOMAIN inbox : inbox[i] # r)
  BY DEF Read, Waits
<1>. QED  BY <1>1 DEF CountInv, CountedOnce, Sum

\* A step that neither counts nor takes or adds a response.
LEMMA SameCount ==
  ASSUME TypeOK, CountInv, UNCHANGED <<told, inbox>>, \A r \in Responses : Sum(r)' = Sum(r)
  PROVE  CountInv'
BY DEF CountInv, Read, Waits

LEMMA AppendWaits ==
  ASSUME TypeOK, NEW m \in Responses \cup {"start"}, inbox' = Append(inbox, m)
  PROVE  /\ \A r : Waits(r)' <=> (Waits(r) \/ r = m)
         /\ ((\A i, j \in DOMAIN inbox : inbox[i] = inbox[j] /\ inbox[i] \in Responses => i = j)
             /\ (m \in Responses => ~Waits(m)))
            => \A i, j \in DOMAIN inbox' : inbox'[i] = inbox'[j] /\ inbox'[i] \in Responses => i = j
<1>1. inbox \in Seq(Responses \cup {"start"}) /\ Len(inbox) \in Nat
  BY DEF TypeOK
<1>2. /\ DOMAIN inbox = 1 .. Len(inbox) /\ DOMAIN inbox' = 1 .. Len(inbox) + 1
      /\ \A i \in 1 .. Len(inbox) : inbox'[i] = inbox[i]
      /\ inbox'[Len(inbox) + 1] = m
  BY <1>1, AppendHas
<1>3. 1 .. Len(inbox) + 1 = 1 .. Len(inbox) \cup {Len(inbox) + 1}
  BY <1>1
<1>. QED  BY <1>2, <1>3 DEF Waits

LEMMA TailWaits ==
  ASSUME TypeOK, inbox # <<>>, inbox' = Tail(inbox), NEW h, h = Head(inbox),
         \A i, j \in DOMAIN inbox : inbox[i] = inbox[j] /\ inbox[i] \in Responses => i = j
  PROVE  /\ Waits(h) /\ (h \in Responses => ~Waits(h)')
         /\ \A r : r # h => (Waits(r)' <=> Waits(r))
         /\ \A i, j \in DOMAIN inbox' : inbox'[i] = inbox'[j] /\ inbox'[i] \in Responses => i = j
<1>. DEFINE n == Len(inbox)
<1>1. /\ n \in Nat \ {0} /\ DOMAIN inbox = 1 .. n /\ DOMAIN inbox' = 1 .. n - 1
      /\ \A i \in 1 .. n - 1 : inbox'[i] = inbox[i + 1]
      /\ h = inbox[1]
  BY TailHas DEF TypeOK
<1>. HIDE DEF n
<1>2. \A i \in 1 .. n - 1 : i + 1 \in 1 .. n /\ i + 1 # 1
  BY <1>1
<1>3. \A i \in 1 .. n : i # 1 => i - 1 \in 1 .. n - 1 /\ (i - 1) + 1 = i
  BY <1>1
<1>4. 1 \in 1 .. n
  BY <1>1
<1>5. Waits(h) /\ (h \in Responses => ~Waits(h)')
  <2>1. ASSUME h \in Responses, NEW i \in 1 .. n - 1 PROVE h # inbox'[i]
    BY <1>1, <1>2, <1>4, <2>1
  <2>2. Waits(h)
    BY <1>1, <1>4 DEF Waits
  <2>3. Waits(h)' => \E i \in 1 .. n - 1 : inbox'[i] = h
    BY <1>1 DEF Waits
  <2>. QED  BY <2>1, <2>2, <2>3
<1>6. ASSUME NEW r, r # h PROVE Waits(r)' <=> Waits(r)
  <2>1. Waits(r)' => Waits(r)
    <3>1. ASSUME NEW i \in 1 .. n - 1, inbox'[i] = r PROVE Waits(r)
      <4>1. i + 1 \in DOMAIN inbox /\ inbox[i + 1] = r
        BY <1>1, <1>2, <3>1
      <4>. QED  BY <4>1 DEF Waits
    <3>. QED  BY <1>1, <3>1 DEF Waits
  <2>2. Waits(r) => Waits(r)'
    <3>1. ASSUME NEW i \in 1 .. n, inbox[i] = r PROVE Waits(r)'
      <4>1. i # 1
        BY <1>1, <1>6, <3>1
      <4>2. i - 1 \in DOMAIN inbox' /\ inbox'[i - 1] = r
        BY <1>1, <1>3, <3>1, <4>1
      <4>. QED  BY <4>2 DEF Waits
    <3>. QED  BY <1>1, <3>1 DEF Waits
  <2>. QED  BY <2>1, <2>2
<1>7. ASSUME NEW i \in 1 .. n - 1, NEW j \in 1 .. n - 1,
             inbox'[i] = inbox'[j], inbox'[i] \in Responses
      PROVE  i = j
  <2>1. i + 1 = j + 1
    BY <1>1, <1>2, <1>7
  <2>. QED  BY <1>1, <2>1
<1>. QED  BY <1>1, <1>5, <1>6, <1>7

LEMMA InitCount == Init => CountInv
<1>. SUFFICES ASSUME Init PROVE CountInv
  OBVIOUS
<1>1. inbox = <<>> /\ told = {} /\ finals = <<>> /\ current = Nothing /\ totals = Nothing
  BY DEF Init
<1>2. DOMAIN inbox = {}
  BY <1>1
<1>3. \A r \in Responses : Sum(r) = 0 /\ ~Read(r) /\ ~Waits(r)
  BY <1>1, <1>2 DEF Sum, Read, Waits, Nothing
<1>. QED  BY <1>2, <1>3 DEF CountInv

\* A step of the buckets that moves what was counted.
LEMMA MoveCounts ==
  ASSUME TypeOK, finals = <<>>, CloseBucket \/ CloseTest
  PROVE  \A r \in Responses : Sum(r)' = Sum(r)
<1>. SUFFICES ASSUME NEW r \in Responses PROVE Sum(r)' = Sum(r)
  OBVIOUS
<1>1. current \in [Responses -> Nat] /\ totals \in [Responses -> Nat]
  BY DEF TypeOK
<1>2. current[r] \in Nat /\ totals[r] \in Nat /\ Nothing[r] = 0
      /\ Combine(totals, current)[r] = totals[r] + current[r]
  BY <1>1 DEF Nothing, Combine
<1>3. Sum(r) = current[r] + totals[r]
  BY DEF Sum
<1>4. CASE CloseTest
  <2>1. finals' = <<Combine(totals, current)>> /\ current' = Nothing
    BY <1>4 DEF CloseTest
  <2>2. finals' # <<>> /\ finals'[1] = Combine(totals, current)
    BY <2>1
  <2>. QED  BY <1>2, <1>3, <2>1, <2>2 DEF Sum
<1>5. CASE CloseBucket
  <2>1. \/ current' = current /\ totals' = totals
        \/ current' = Nothing /\ totals' = Combine(totals, current)
    BY <1>5 DEF CloseBucket, buckets
  <2>2. finals' = <<>>
    BY <1>5 DEF CloseBucket, buckets
  <2>. QED  BY <1>2, <1>3, <2>1, <2>2 DEF Sum
<1>. QED  BY <1>4, <1>5

LEMMA NextCount == OnTime /\ TypeOK /\ TimeInv /\ CountInv /\ [Next]_vars => CountInv'
<1>. SUFFICES ASSUME OnTime, TypeOK, TimeInv, CountInv, [Next]_vars PROVE CountInv'
  OBVIOUS
<1>0. "start" \notin Responses
  BY StatsAssumption
<1>1. ASSUME UNCHANGED <<told, inbox, buckets>> PROVE CountInv'
  BY <1>1, SameCount DEF buckets, Sum
<1>2. CASE Pass \/ SetupFails \/ End \/ Update \/ ConfigUpdate \/ Closed \/ Sleep
  BY <1>1, <1>2 DEF Pass, SetupFails, End, Update, ConfigUpdate, Closed, Sleep, load
<1>3. CASE Start
  <2>1. inbox' = Append(inbox, "start") /\ told' = told /\ UNCHANGED buckets
    BY <1>3 DEF Start
  <2>2. \A r \in Responses : (Waits(r)' <=> Waits(r)) /\ Sum(r)' = Sum(r)
    BY <1>0, <2>1, AppendWaits DEF buckets, Sum
  <2>3. \A i, j \in DOMAIN inbox' : inbox'[i] = inbox'[j] /\ inbox'[i] \in Responses => i = j
    BY <1>0, <2>1, AppendWaits DEF CountInv
  <2>. QED  BY <2>1, <2>2, <2>3 DEF CountInv, Read
<1>4. ASSUME NEW q \in Responses, Tell(q) PROVE CountInv'
  <2>1. inbox' = Append(inbox, q) /\ told' = told \cup {q} /\ q \notin told /\ UNCHANGED buckets
    BY <1>4 DEF Tell
  <2>2. \A r \in Responses : (Waits(r)' <=> Waits(r) \/ r = q) /\ Sum(r)' = Sum(r)
    BY <2>1, AppendWaits DEF buckets, Sum
  <2>3. ~Waits(q)
    BY <2>1 DEF CountInv
  <2>4. \A i, j \in DOMAIN inbox' : inbox'[i] = inbox'[j] /\ inbox'[i] \in Responses => i = j
    BY <2>1, <2>3, AppendWaits DEF CountInv
  <2>. QED  BY <2>1, <2>2, <2>4 DEF CountInv, Read
<1>5. CASE TestComplete \/ NewBucket
  <2>1. finals = <<>>
    BY <1>5 DEF TestComplete, NewBucket, TickDue, NoNews, Polled, TimeInv, Over
  <2>2. CloseBucket \/ CloseTest
    BY <1>5 DEF TestComplete, NewBucket
  <2>. QED  BY <1>5, <2>1, <2>2, MoveCounts, SameCount DEF TestComplete, NewBucket, load
<1>6. CASE ReadStart
  <2>1. inbox # <<>> /\ inbox' = Tail(inbox) /\ Head(inbox) = "start" /\ UNCHANGED <<told, buckets>>
    BY <1>6 DEF ReadStart, load
  <2>2. \A r \in Responses : Waits(r)' <=> Waits(r)
    BY <1>0, <2>1, TailWaits DEF CountInv
  <2>3. \A i, j \in DOMAIN inbox' : inbox'[i] = inbox'[j] /\ inbox'[i] \in Responses => i = j
    BY <2>1, TailWaits DEF CountInv
  <2>4. \A r \in Responses : Sum(r)' = Sum(r)
    BY <2>1 DEF buckets, Sum
  <2>. QED  BY <2>1, <2>2, <2>3, <2>4 DEF CountInv, Read
<1>7. CASE ReadResponse
  <2>1. PICK q \in Responses : q = Head(inbox)
    BY <1>7 DEF ReadResponse
  <2>2. inbox # <<>> /\ inbox' = Tail(inbox) /\ Count(q) /\ told' = told
    BY <1>7, <2>1 DEF ReadResponse, load
  <2>3. Waits(q) /\ ~Waits(q)' /\ \A r \in Responses : r # q => (Waits(r)' <=> Waits(r))
    BY <2>1, <2>2, TailWaits DEF CountInv
  <2>4. \A i, j \in DOMAIN inbox' : inbox'[i] = inbox'[j] /\ inbox'[i] \in Responses => i = j
    BY <2>1, <2>2, TailWaits DEF CountInv
  <2>5. ASSUME NEW r \in Responses PROVE Sum(r)' = IF r = q THEN Sum(r) + 1 ELSE Sum(r)
    <3>1. /\ finals = <<>> /\ UNCHANGED <<totals, finals>>
          /\ current' = [current EXCEPT ![q] = @ + 1]
      BY <1>7, <2>2 DEF ReadResponse, NoTick, NoNews, Polled, TimeInv, Over, Count
    <3>2. current[r] \in Nat /\ totals[r] \in Nat
          /\ current'[r] = IF r = q THEN current[r] + 1 ELSE current[r]
      BY <3>1 DEF TypeOK
    <3>. QED  BY <3>1, <3>2 DEF Sum
  <2>6. q \in told /\ Sum(q) = 0
    BY <2>3 DEF CountInv, Read
  <2>. QED  BY <2>2, <2>3, <2>4, <2>5, <2>6 DEF CountInv, Read
<1>8. CASE UNCHANGED vars
  BY <1>1, <1>8 DEF vars, load
<1>. QED  BY <1>2, <1>3, <1>4, <1>5, <1>6, <1>7, <1>8 DEF Next, Poll

\* Every response the task has read is counted once, in what it collects or
\* in the summary it leaves.
THEOREM ResponsesCountedOnce == OnTime => (Spec => []CountedOnce)
<1>. SUFFICES ASSUME OnTime PROVE Spec => []CountedOnce
  OBVIOUS
<1>1. TypeOK /\ TimeInv /\ CountInv /\ [Next]_vars => CountInv'
  BY NextCount
<1>2. TypeOK /\ TimeInv /\ [Next]_vars => TimeInv'
  BY NextTime
<1>. QED  BY <1>1, <1>2, InitTypeOK, NextTypeOK, InitTime, InitCount, CountedOnceIs, PTL DEF Spec

-----------------------------------------------------------------------------
(***************************************************************************)
(* The stats file.  A step leaves it alone, or appends the header, the tag *)
(* of the response it counts, or the bucket it closes.                     *)
(***************************************************************************)
\* The end is known by the news: what lags behind is not the end.
EndInv ==
  /\ ~ended => news = <<>> \/ news = <<"update">>
  /\ finals # <<>> => ended
  /\ Len(finals) <= 1

\* Nothing is read, nor written, before the start.
StartInv ==
  /\ ~started => IF inbox = <<>> THEN test # "running" ELSE Head(inbox) = "start"
  /\ ~started /\ ~Over => file = <<>>
  /\ started => file # <<>> /\ file[1].kind = "header"

Tally(r)  == {i \in FileBuckets : file[i].entries[r] = 1}
Summed(r) == IF finals = <<>> THEN totals[r] ELSE finals[1][r]
TallyInv  == \A r \in Responses : Cardinality(Tally(r)) = Summed(r)

Last(i)       == \A j \in FileBuckets : j <= i
Follows(j, i) == i < j /\ \A k \in FileBuckets : k > i => j <= k
PlaceInv ==
  \A i \in FileBuckets :
    \/ Last(i) /\ (finals = <<>> => time = file[i].time + BucketSize)
    \/ \E j \in FileBuckets : Follows(j, i) /\ file[j].time = file[i].time + BucketSize

TagIs(i, t) == file[i] = [kind |-> "tags", tag |-> t]
TagInv ==
  /\ \A i, j \in DOMAIN file, t \in tags : TagIs(i, t) /\ TagIs(j, t) => i = j
  /\ \A i \in DOMAIN file : file[i].kind = "tags" => file[i].tag \in tags
  /\ \A t \in tags : \E i \in DOMAIN file : TagIs(i, t)
  /\ \A r \in Responses : current[r] > 0 => Tag[r] \in tags
  /\ \A i \in FileBuckets, r \in Responses :
       file[i].entries[r] > 0 => \E j \in 1 .. i : TagIs(j, Tag[r])

FileInv == EndInv /\ StartInv /\ TallyInv /\ PlaceInv /\ TagInv

LEMMA FileGrows ==
  ASSUME TypeOK, NEW m \in Messages, file' = Append(file, m)
  PROVE  /\ Len(file) \in Nat /\ DOMAIN file = 1 .. Len(file)
         /\ DOMAIN file' = 1 .. Len(file) + 1
         /\ \A i \in 1 .. Len(file) : file'[i] = file[i]
         /\ file'[Len(file) + 1] = m
         /\ FileBuckets \subseteq 1 .. Len(file)
         /\ FileBuckets' = IF m.kind = "bucket" THEN FileBuckets \cup {Len(file) + 1} ELSE FileBuckets
<1>1. file \in Seq(Messages) /\ Len(file) \in Nat
  BY DEF TypeOK
<1>2. /\ DOMAIN file = 1 .. Len(file) /\ DOMAIN file' = 1 .. Len(file) + 1
      /\ \A i \in 1 .. Len(file) : file'[i] = file[i]
      /\ file'[Len(file) + 1] = m
  BY <1>1, AppendHas
<1>3. 1 .. Len(file) + 1 = 1 .. Len(file) \cup {Len(file) + 1}
  BY <1>1
<1>. QED  BY <1>1, <1>2, <1>3 DEF FileBuckets

LEMMA BucketHas ==
  ASSUME TypeOK, NEW i \in FileBuckets
  PROVE  /\ i \in Nat /\ i \in DOMAIN file /\ i >= 1
         /\ file[i].kind = "bucket" /\ file[i].time \in Nat /\ file[i].entries \in [Responses -> Nat]
<1>1. file \in Seq(Messages) /\ i \in DOMAIN file /\ file[i].kind = "bucket"
  BY DEF TypeOK, FileBuckets
<1>2. file[i] \in Messages /\ i \in Nat /\ i >= 1
  BY <1>1
<1>3. file[i] \in [kind : {"bucket"}, time : Nat, entries : [Responses -> Nat]]
  BY <1>1, <1>2 DEF Messages
<1>. QED  BY <1>1, <1>2, <1>3

Quiet   == UNCHANGED <<buckets, tags, file>>
Header  == UNCHANGED <<buckets, tags>> /\ file' = Append(file, [kind |-> "header"])
Closing ==
  /\ WriteBucket /\ current' = Nothing /\ UNCHANGED tags
  /\ \/ finals' = <<>> /\ totals' = Combine(totals, current) /\ time' = time + BucketSize
     \/ finals' = <<Combine(totals, current)>>

LEMMA FileSteps ==
  ASSUME OnTime, TypeOK, TimeInv, [Next]_vars
  PROVE  \/ Quiet
         \/ /\ finals = <<>>
            /\ Header \/ Closing \/ \E r \in Responses : Count(r)
<1>0. BucketSize \in Nat \ {0} /\ time \in Nat
  BY StatsAssumption DEF TypeOK
<1>1. CASE \/ Pass \/ Start \/ SetupFails \/ End \/ Update \/ ConfigUpdate \/ Closed \/ Sleep
           \/ \E r \in Responses : Tell(r)
           \/ UNCHANGED vars
  BY <1>1 DEF Pass, Start, SetupFails, End, Update, ConfigUpdate, Closed, Sleep, Tell, vars, Quiet
<1>2. Polled => finals = <<>>
  BY DEF Polled, TimeInv, Over
<1>3. CASE TestComplete
  <2>1. finals = <<>>
    BY <1>2, <1>3 DEF TestComplete
  <2>2. CloseTest /\ UNCHANGED tags
    BY <1>3 DEF TestComplete
  <2>. QED  BY <2>1, <2>2 DEF CloseTest, Closing
<1>4. CASE NewBucket
  <2>1. finals = <<>> /\ started /\ Round(now) = time + BucketSize
    BY <1>2, <1>4, ServedInTime DEF NewBucket, TickDue, NoNews
  <2>2. CloseBucket /\ UNCHANGED tags /\ time < Round(now) /\ time = Round(now) - BucketSize
    BY <1>0, <1>4, <2>1 DEF NewBucket
  <2>. QED  BY <2>1, <2>2 DEF CloseBucket, Closing
<1>5. CASE ReadStart
  BY <1>2, <1>5 DEF ReadStart, NoTick, NoNews, Header
<1>6. CASE ReadResponse
  BY <1>2, <1>6 DEF ReadResponse, NoTick, NoNews
<1>. QED  BY <1>1, <1>3, <1>4, <1>5, <1>6 DEF Next, Poll

\* The task reads an update before the next one comes: the broadcast keeps
\* one, and the task takes the error of the one it missed for the end.
UpdatesAreRead == ended \/ Len(news) <= 1

LEMMA InitFile == Init => FileInv
<1>. SUFFICES ASSUME Init PROVE FileInv
  OBVIOUS
<1>1. /\ test = "setup" /\ inbox = <<>> /\ news = <<>> /\ ended = FALSE /\ started = FALSE
      /\ file = <<>> /\ finals = <<>> /\ tags = {} /\ current = Nothing /\ totals = Nothing
  BY DEF Init
<1>2. DOMAIN file = {} /\ FileBuckets = {}
  BY <1>1 DEF FileBuckets
<1>3. EndInv /\ StartInv /\ PlaceInv
  BY <1>1, <1>2 DEF EndInv, StartInv, PlaceInv
<1>4. ASSUME NEW r \in Responses PROVE Cardinality(Tally(r)) = Summed(r)
  <2>1. Tally(r) = {} /\ Summed(r) = 0
    BY <1>1, <1>2 DEF Tally, Summed, Nothing
  <2>. QED  BY <2>1, FS_EmptySet
<1>5. TagInv
  BY <1>1, <1>2 DEF TagInv, Nothing
<1>. QED  BY <1>3, <1>4, <1>5 DEF FileInv, TallyInv

LEMMA NextEnd ==
  ASSUME OnTime, UpdatesAreRead', TypeOK, TimeInv, EndInv, [Next]_vars
  PROVE  EndInv'
<1>1. ASSUME UNCHANGED <<ended, news, finals>> PROVE EndInv'
  BY <1>1 DEF EndInv
<1>2. CASE Pass \/ Start \/ SetupFails \/ ReadStart \/ ReadResponse \/ Closed \/ Sleep
           \/ (\E r \in Responses : Tell(r)) \/ UNCHANGED vars
  BY <1>1, <1>2 DEF Pass, Start, SetupFails, ReadStart, ReadResponse, Closed, Sleep, Tell, vars,
                    load, buckets, Count
<1>3. CASE End
  BY <1>3 DEF End, EndInv, buckets
<1>4. CASE Update
  <2>1. news' = Append(news, "update") /\ UNCHANGED <<ended, finals>>
    BY <1>4 DEF Update, buckets
  <2>2. ASSUME ~ended PROVE news' = <<"update">>
    <3>1. Len(news') <= 1 /\ (news = <<>> \/ news = <<"update">>)
      BY <2>1, <2>2 DEF UpdatesAreRead, EndInv
    <3>2. news = <<>>
      <4>1. Len(Append(<<"update">>, "update")) = 2
        OBVIOUS
      <4>. QED  BY <2>1, <3>1, <4>1
    <3>. QED  BY <2>1, <3>2
  <2>. QED  BY <2>1, <2>2 DEF EndInv
<1>5. CASE TestComplete
  <2>1. news # <<>> /\ news # <<"update">> /\ news' = <<>> /\ CloseTest /\ UNCHANGED ended
    BY <1>5 DEF TestComplete, load
  <2>2. ended' /\ finals = <<>>
    BY <1>5, <2>1 DEF TestComplete, Polled, EndInv, TimeInv, Over
  <2>3. finals' = <<Combine(totals, current)>>
    BY <2>1, <2>2 DEF CloseTest
  <2>. QED  BY <2>1, <2>2, <2>3 DEF EndInv
<1>6. CASE ConfigUpdate
  BY <1>6 DEF ConfigUpdate, EndInv, load, buckets
<1>7. CASE NewBucket
  <2>1. started /\ Round(now) = time + BucketSize /\ BucketSize \in Nat \ {0} /\ time \in Nat
    BY <1>7, ServedInTime, StatsAssumption DEF TypeOK
  <2>. QED  BY <1>1, <1>7, <2>1 DEF NewBucket, CloseBucket, load, buckets
<1>. QED  BY <1>2, <1>3, <1>4, <1>5, <1>6, <1>7 DEF Next, Poll

LEMMA NextStart ==
  ASSUME OnTime, TypeOK, TimeInv, StartInv, [Next]_vars
  PROVE  StartInv'
<1>. DEFINE Waiting == IF inbox = <<>> THEN test # "running" ELSE Head(inbox) = "start"
<1>1. ~started' => Waiting'
  <2>0. "start" \notin Responses /\ inbox \in Seq(Responses \cup {"start"})
    BY StatsAssumption DEF TypeOK
  <2>1. SUFFICES ASSUME ~started' PROVE Waiting'
    OBVIOUS
  <2>2. ~started /\ Waiting
    BY <2>1 DEF StartInv, Next, Poll, Pass, Start, SetupFails, End, Update, Tell, TestComplete,
                ConfigUpdate, NewBucket, ReadStart, ReadResponse, Closed, Sleep, vars
  <2>3. ~ReadStart /\ ~ReadResponse
    BY <2>0, <2>1, <2>2 DEF ReadStart, ReadResponse
  <2>4. \/ inbox' = inbox /\ (test' = "running" => test = "running")
        \/ inbox' = Append(inbox, "start")
        \/ test = "running" /\ \E r \in Responses : inbox' = Append(inbox, r)
    BY <2>3 DEF Next, Poll, Pass, Start, SetupFails, End, Update, Tell, TestComplete,
                ConfigUpdate, NewBucket, Closed, Sleep, vars, load
  <2>5. ASSUME NEW m \in Responses \cup {"start"}, inbox' = Append(inbox, m)
        PROVE  inbox' # <<>> /\ Head(inbox') = IF inbox = <<>> THEN m ELSE Head(inbox)
    <3>1. CASE inbox = <<>>
      BY <2>5, <3>1
    <3>2. CASE inbox # <<>>
      BY <2>0, <2>5, <3>2
    <3>. QED  BY <3>1, <3>2
  <2>. QED  BY <2>2, <2>4, <2>5
<1>2. CASE ReadStart
  <2>1. ~Over /\ started' /\ file' = Append(file, [kind |-> "header"])
    BY <1>2 DEF ReadStart, NoTick, NoNews, Polled, Over
  <2>2. [kind |-> "header"] \in Messages /\ file \in Seq(Messages)
    BY DEF TypeOK, Messages
  <2>3. file = <<>> \/ (file # <<>> /\ file[1].kind = "header")
    BY <2>1 DEF StartInv
  <2>4. file' # <<>> /\ file'[1].kind = "header"
    BY <2>1, <2>2, <2>3
  <2>. QED  BY <1>1, <2>1, <2>4 DEF StartInv
<1>3. CASE ~ReadStart /\ started
  <2>1. started'
    BY <1>3 DEF Next, Poll, Pass, Start, SetupFails, End, Update, Tell, TestComplete, ConfigUpdate,
                NewBucket, ReadResponse, Closed, Sleep, vars
  <2>2. file' = file \/ \E m \in Messages : file' = Append(file, m)
    <3>1. CASE Quiet \/ Header
      BY <3>1 DEF Quiet, Header, Messages
    <3>2. CASE Closing
      BY <3>2, BucketIsMessage DEF Closing, WriteBucket
    <3>3. ASSUME NEW r \in Responses, Count(r)
          PROVE  file' = file \/ \E m \in Messages : file' = Append(file, m)
      BY <3>3 DEF Count, Messages
    <3>. QED  BY <3>1, <3>2, <3>3, FileSteps
  <2>3. file # <<>> /\ file[1].kind = "header" /\ file \in Seq(Messages)
    BY <1>3 DEF StartInv, TypeOK
  <2>4. file' # <<>> /\ file'[1].kind = "header"
    BY <2>2, <2>3
  <2>. QED  BY <2>1, <2>4 DEF StartInv
<1>4. CASE ~ReadStart /\ ~started
  <2>1. ~started'
    BY <1>4 DEF Next, Poll, Pass, Start, SetupFails, End, Update, Tell, TestComplete, ConfigUpdate,
                NewBucket, ReadResponse, Closed, Sleep, vars
  <2>2. SUFFICES ASSUME ~Over' PROVE file' = <<>>
    BY <1>1, <2>1 DEF StartInv
  <2>3. ~TestComplete /\ ~NewBucket
    BY <1>4, <2>2, ServedInTime DEF TestComplete, Over
  <2>4. ~ReadResponse
    <3>1. "start" \notin Responses
      BY StatsAssumption
    <3>. QED  BY <1>4, <3>1 DEF ReadResponse, StartInv
  <2>5. UNCHANGED file /\ ~Over
    <3>1. CASE Pass \/ Start \/ SetupFails \/ End \/ Update \/ \E r \in Responses : Tell(r)
      <4>1. UNCHANGED file /\ (UNCHANGED task \/ \E w \in {"end", "tick", "message"} : Wake(w))
        BY <3>1 DEF Pass, Start, SetupFails, End, Update, Tell
      <4>. QED  BY <2>2, <4>1, WakeKeeps DEF Over
    <3>2. CASE ConfigUpdate \/ Closed \/ Sleep \/ UNCHANGED vars
      BY <2>2, <3>2 DEF ConfigUpdate, Closed, Sleep, vars, NoTick, NoNews, Polled, Over
    <3>. QED  BY <1>4, <2>3, <2>4, <3>1, <3>2 DEF Next, Poll
  <2>. QED  BY <1>4, <2>5 DEF StartInv
<1>. QED  BY <1>2, <1>3, <1>4

LEMMA NextTally ==
  ASSUME OnTime, TypeOK, TimeInv, CountInv, TallyInv, [Next]_vars
  PROVE  TallyInv'
<1>1. ASSUME FileBuckets' = FileBuckets, \A i \in FileBuckets : file'[i] = file[i],
             UNCHANGED <<totals, finals>>
      PROVE  TallyInv'
  BY <1>1 DEF TallyInv, Tally, Summed
<1>2. CASE Quiet
  BY <1>1, <1>2 DEF Quiet, FileBuckets, buckets
<1>3. ASSUME NEW m \in Messages, m.kind # "bucket", file' = Append(file, m), UNCHANGED <<totals, finals>>
      PROVE  TallyInv'
  <2>1. FileBuckets' = FileBuckets /\ \A i \in FileBuckets : file'[i] = file[i]
    BY <1>3, FileGrows
  <2>. QED  BY <1>1, <1>3, <2>1
<1>4. CASE Header
  BY <1>3, <1>4 DEF Header, Messages, buckets
<1>5. ASSUME NEW r \in Responses, Count(r) PROVE TallyInv'
  <2>1. CASE Tag[r] \in tags
    BY <1>1, <1>5, <2>1 DEF Count, FileBuckets
  <2>2. CASE Tag[r] \notin tags
    BY <1>3, <1>5, <2>2 DEF Count, Messages
  <2>. QED  BY <2>1, <2>2
<1>6. ASSUME Closing, finals = <<>> PROVE TallyInv'
  <2>1. SUFFICES ASSUME NEW r \in Responses PROVE Cardinality(Tally(r)') = Summed(r)'
    BY DEF TallyInv
  <2>0. PICK n \in Nat : n = Len(file)
    BY DEF TypeOK
  <2>2. /\ FileBuckets \subseteq 1 .. n /\ FileBuckets' = FileBuckets \cup {n + 1}
        /\ \A i \in 1 .. n : file'[i] = file[i]
        /\ file'[n + 1] = Bucket
    BY <1>6, <2>0, BucketIsMessage, FileGrows DEF Closing, WriteBucket, Bucket
  <2>3. current[r] \in Nat /\ totals[r] \in Nat /\ current[r] <= 1
    <3>1. current[r] \in Nat /\ totals[r] \in Nat
      BY DEF TypeOK
    <3>2. Sum(r) \in {0, 1}
      BY DEF CountInv
    <3>3. Sum(r) = current[r] + totals[r]
      BY <1>6 DEF Sum
    <3>. QED  BY <3>1, <3>2, <3>3
  <2>4. Summed(r) = totals[r] /\ Summed(r)' = totals[r] + current[r]
    <3>1. Combine(totals, current)[r] = totals[r] + current[r]
      BY DEF Combine
    <3>2. CASE finals' = <<>> /\ totals' = Combine(totals, current)
      BY <1>6, <3>1, <3>2 DEF Summed
    <3>3. CASE finals' = <<Combine(totals, current)>>
      <4>1. finals' # <<>> /\ finals'[1] = Combine(totals, current)
        BY <3>3
      <4>. QED  BY <1>6, <3>1, <4>1 DEF Summed
    <3>. QED  BY <1>6, <3>2, <3>3 DEF Closing
  <2>5. Tally(r)' = IF current[r] = 1 THEN Tally(r) \cup {n + 1} ELSE Tally(r)
    <3>1. file'[n + 1].entries[r] = current[r]
      BY <2>2 DEF Bucket
    <3>2. \A i \in FileBuckets : file'[i].entries[r] = file[i].entries[r]
      BY <2>2
    <3>3. \A i : i \in Tally(r)' <=> i \in FileBuckets \cup {n + 1} /\ file'[i].entries[r] = 1
      BY <2>2 DEF Tally
    <3>4. \A i : i \in Tally(r) <=> i \in FileBuckets /\ file[i].entries[r] = 1
      BY DEF Tally
    <3>. QED  BY <3>1, <3>2, <3>3, <3>4
  <2>6. Tally(r) \subseteq 1 .. n /\ IsFiniteSet(Tally(r)) /\ n + 1 \notin Tally(r)
    <3>1. Tally(r) \in SUBSET (1 .. n)
      BY <2>2 DEF Tally
    <3>3. n + 1 \notin 1 .. n
      OBVIOUS
    <3>2. IsFiniteSet(1 .. n)
      BY <2>2, FS_Interval
    <3>. QED  BY <3>1, <3>2, <3>3, FS_Subset
  <2>7. Cardinality(Tally(r)) = totals[r]
    BY <2>4 DEF TallyInv
  <2>8. CASE current[r] = 1
    BY <2>3, <2>4, <2>5, <2>6, <2>7, <2>8, FS_AddElement
  <2>9. CASE current[r] = 0
    BY <2>3, <2>4, <2>5, <2>7, <2>9
  <2>. QED  BY <2>3, <2>8, <2>9
<1>. QED  BY <1>2, <1>4, <1>5, <1>6, FileSteps

LEMMA NextPlace ==
  ASSUME OnTime, TypeOK, TimeInv, PlaceInv, [Next]_vars
  PROVE  PlaceInv'
<1>1. ASSUME FileBuckets' = FileBuckets, \A i \in FileBuckets : file'[i] = file[i],
             UNCHANGED <<time, finals>>
      PROVE  PlaceInv'
  BY <1>1 DEF PlaceInv, Last, Follows
<1>2. CASE Quiet
  BY <1>1, <1>2 DEF Quiet, FileBuckets, buckets
<1>3. ASSUME NEW m \in Messages, m.kind # "bucket", file' = Append(file, m), UNCHANGED <<time, finals>>
      PROVE  PlaceInv'
  <2>1. FileBuckets' = FileBuckets /\ \A i \in FileBuckets : file'[i] = file[i]
    BY <1>3, FileGrows
  <2>. QED  BY <1>1, <1>3, <2>1
<1>4. CASE Header
  BY <1>3, <1>4 DEF Header, Messages, buckets
<1>5. ASSUME NEW r \in Responses, Count(r) PROVE PlaceInv'
  <2>1. CASE Tag[r] \in tags
    BY <1>1, <1>5, <2>1 DEF Count, FileBuckets
  <2>2. CASE Tag[r] \notin tags
    BY <1>3, <1>5, <2>2 DEF Count, Messages
  <2>. QED  BY <2>1, <2>2
<1>6. ASSUME Closing, finals = <<>> PROVE PlaceInv'
  <2>0. PICK n \in Nat : n = Len(file)
    BY DEF TypeOK
  <2>1. /\ FileBuckets \subseteq 1 .. n /\ FileBuckets' = FileBuckets \cup {n + 1}
        /\ \A i \in 1 .. n : file'[i] = file[i]
        /\ file'[n + 1] = Bucket
    BY <1>6, <2>0, BucketIsMessage, FileGrows DEF Closing, WriteBucket, Bucket
  <2>2. \A i \in 1 .. n : i < n + 1
    BY <2>1
  <2>3. n + 1 \in FileBuckets' /\ file'[n + 1].time = time
    BY <2>1 DEF Bucket
  <2>4. Last(n + 1)' /\ (finals' = <<>> => time' = file'[n + 1].time + BucketSize)
    <3>1. finals' = <<>> => time' = time + BucketSize
      BY <1>6 DEF Closing
    <3>2. Last(n + 1)'
      BY <2>1, <2>2 DEF Last
    <3>. QED  BY <2>3, <3>1, <3>2
  <2>5. ASSUME NEW i \in FileBuckets, Last(i)
        PROVE  Follows(n + 1, i)' /\ file'[n + 1].time = file'[i].time + BucketSize
    <3>1. time = file[i].time + BucketSize
      <4>1. ~ \E j \in FileBuckets : Follows(j, i)
        BY <2>1, <2>5 DEF Last, Follows
      <4>. QED  BY <1>6, <4>1 DEF PlaceInv
    <3>2. file'[n + 1].time = file'[i].time + BucketSize
      BY <2>1, <2>3, <3>1
    <3>3. Follows(n + 1, i)'
      BY <2>1, <2>2, <2>5 DEF Last, Follows
    <3>. QED  BY <3>2, <3>3
  <2>6. ASSUME NEW i \in FileBuckets, NEW j \in FileBuckets, Follows(j, i),
               file[j].time = file[i].time + BucketSize
        PROVE  Follows(j, i)' /\ file'[j].time = file'[i].time + BucketSize
    BY <2>1, <2>2, <2>6 DEF Follows
  <2>7. ASSUME NEW i \in FileBuckets
        PROVE  \E j \in FileBuckets' : Follows(j, i)' /\ file'[j].time = file'[i].time + BucketSize
    <3>1. CASE Last(i)
      BY <2>3, <2>5, <3>1
    <3>2. CASE ~Last(i)
      <4>1. PICK j \in FileBuckets : Follows(j, i) /\ file[j].time = file[i].time + BucketSize
        BY <3>2 DEF PlaceInv
      <4>. QED  BY <2>1, <2>6, <4>1
    <3>. QED  BY <3>1, <3>2
  <2>. QED  BY <2>1, <2>4, <2>7 DEF PlaceInv
<1>. QED  BY <1>2, <1>4, <1>5, <1>6, FileSteps

\* A message that is no tag leaves what is known of the tags.
LEMMA OtherMessage ==
  ASSUME TypeOK, TagInv, NEW m \in Messages, m.kind # "tags", file' = Append(file, m), UNCHANGED tags,
         \A r \in Responses : current'[r] > 0 => Tag[r] \in tags,
         m.kind = "bucket" => \A r \in Responses : m.entries[r] > 0 => Tag[r] \in tags
  PROVE  TagInv'
<1>0. PICK n \in Nat : n = Len(file)
  BY DEF TypeOK
<1>1. /\ DOMAIN file = 1 .. n /\ DOMAIN file' = 1 .. n + 1
      /\ \A i \in 1 .. n : file'[i] = file[i]
      /\ file'[n + 1] = m
      /\ FileBuckets \subseteq 1 .. n
      /\ FileBuckets' = IF m.kind = "bucket" THEN FileBuckets \cup {n + 1} ELSE FileBuckets
  BY <1>0, FileGrows
<1>2. \A i \in 1 .. n + 1 : i \in 1 .. n \/ i = n + 1
  OBVIOUS
<1>3. \A t : (\A i \in 1 .. n : TagIs(i, t)' <=> TagIs(i, t)) /\ ~TagIs(n + 1, t)'
  BY <1>1 DEF TagIs
<1>4. \A i, j \in DOMAIN file', t \in tags' : TagIs(i, t)' /\ TagIs(j, t)' => i = j
  <2>1. SUFFICES ASSUME NEW i \in 1 .. n + 1, NEW j \in 1 .. n + 1, NEW t \in tags,
                        TagIs(i, t)', TagIs(j, t)'
                 PROVE  i = j
    BY <1>1
  <2>2. i \in 1 .. n /\ TagIs(i, t) /\ j \in 1 .. n /\ TagIs(j, t)
    BY <1>2, <1>3, <2>1
  <2>. QED  BY <1>1, <2>2 DEF TagInv
<1>5. \A i \in DOMAIN file' : file'[i].kind = "tags" => file'[i].tag \in tags'
  BY <1>1, <1>2 DEF TagInv
<1>6. \A i \in 1 .. n : i \in 1 .. n + 1
  OBVIOUS
<1>7. \A t \in tags' : \E i \in DOMAIN file' : TagIs(i, t)'
  BY <1>1, <1>3, <1>6 DEF TagInv
<1>8. ASSUME NEW i \in FileBuckets', NEW r \in Responses, file'[i].entries[r] > 0
      PROVE  \E j \in 1 .. i : TagIs(j, Tag[r])'
  <2>1. CASE i \in FileBuckets
    <3>1. file[i].entries[r] > 0 /\ i \in 1 .. n
      BY <1>1, <1>8, <2>1
    <3>2. PICK j \in 1 .. i : TagIs(j, Tag[r])
      BY <2>1, <3>1 DEF TagInv
    <3>3. j \in 1 .. n
      BY <3>1
    <3>. QED  BY <1>3, <3>2, <3>3
  <2>2. CASE i = n + 1 /\ m.kind = "bucket"
    <3>1. Tag[r] \in tags
      BY <1>1, <1>8, <2>2
    <3>2. PICK j \in 1 .. n : TagIs(j, Tag[r])
      BY <1>1, <3>1 DEF TagInv
    <3>. QED  BY <1>3, <1>6, <2>2, <3>2
  <2>. QED  BY <1>1, <1>8, <2>1, <2>2
<1>. QED  BY <1>4, <1>5, <1>7, <1>8 DEF TagInv

LEMMA NewTag ==
  ASSUME TypeOK, TagInv, NEW t, [kind |-> "tags", tag |-> t] \in Messages, t \notin tags,
         file' = Append(file, [kind |-> "tags", tag |-> t]), tags' = tags \cup {t},
         \A r \in Responses : current'[r] > 0 => Tag[r] \in tags'
  PROVE  TagInv'
<1>0. PICK n \in Nat : n = Len(file)
  BY DEF TypeOK
<1>1. /\ DOMAIN file = 1 .. n /\ DOMAIN file' = 1 .. n + 1
      /\ \A i \in 1 .. n : file'[i] = file[i]
      /\ file'[n + 1] = [kind |-> "tags", tag |-> t]
      /\ FileBuckets \subseteq 1 .. n /\ FileBuckets' = FileBuckets
  BY <1>0, FileGrows
<1>2. \A i \in 1 .. n + 1 : i \in 1 .. n \/ i = n + 1
  OBVIOUS
<1>3. /\ \A u : \A i \in 1 .. n : TagIs(i, u)' <=> TagIs(i, u)
      /\ \A u : TagIs(n + 1, u)' <=> u = t
      /\ \A i \in 1 .. n : ~TagIs(i, t)
  BY <1>1 DEF TagIs, TagInv
<1>4. \A i, j \in DOMAIN file', u \in tags' : TagIs(i, u)' /\ TagIs(j, u)' => i = j
  BY <1>1, <1>2, <1>3 DEF TagInv
<1>5. \A i \in DOMAIN file' : file'[i].kind = "tags" => file'[i].tag \in tags'
  BY <1>1, <1>2 DEF TagInv
<1>6. n + 1 \in 1 .. n + 1 /\ \A i \in 1 .. n : i \in 1 .. n + 1
  OBVIOUS
<1>7. \A u \in tags' : \E i \in DOMAIN file' : TagIs(i, u)'
  BY <1>1, <1>3, <1>6 DEF TagInv
<1>8. ASSUME NEW i \in FileBuckets', NEW r \in Responses, file'[i].entries[r] > 0
      PROVE  \E j \in 1 .. i : TagIs(j, Tag[r])'
  <2>1. file[i].entries[r] > 0 /\ i \in 1 .. n /\ i \in FileBuckets
    BY <1>1, <1>8
  <2>2. PICK j \in 1 .. i : TagIs(j, Tag[r])
    BY <2>1 DEF TagInv
  <2>3. j \in 1 .. n
    BY <2>1
  <2>. QED  BY <1>3, <2>2, <2>3
<1>. QED  BY <1>4, <1>5, <1>7, <1>8 DEF TagInv

LEMMA NextTag ==
  ASSUME OnTime, TypeOK, TimeInv, TagInv, [Next]_vars
  PROVE  TagInv'
<1>1. CASE Quiet
  BY <1>1 DEF Quiet, TagInv, TagIs, FileBuckets, buckets
<1>2. CASE Header
  BY <1>2, OtherMessage DEF Header, Messages, buckets, TagInv
<1>3. CASE Closing
  <2>1. Bucket \in Messages /\ Bucket.kind = "bucket" /\ Bucket.entries = current
    BY BucketIsMessage DEF Bucket
  <2>2. \A r \in Responses : current'[r] > 0 => Tag[r] \in tags
    BY <1>3 DEF Closing, Nothing
  <2>3. \A r \in Responses : Bucket.entries[r] > 0 => Tag[r] \in tags
    BY <2>1 DEF TagInv
  <2>. QED  BY <1>3, <2>1, <2>2, <2>3, OtherMessage DEF Closing, WriteBucket
<1>4. ASSUME NEW q \in Responses, Count(q) PROVE TagInv'
  <2>1. \A r \in Responses : current'[r] > 0 => Tag[r] \in tags'
    <3>1. ASSUME NEW r \in Responses, r # q PROVE current'[r] = current[r]
      BY <1>4, <3>1 DEF Count, TypeOK
    <3>2. tags' = tags \cup {Tag[q]}
      BY <1>4 DEF Count
    <3>. QED  BY <3>1, <3>2 DEF TagInv
  <2>2. CASE Tag[q] \in tags
    <3>1. UNCHANGED <<tags, file>>
      BY <1>4, <2>2 DEF Count
    <3>. QED  BY <2>1, <3>1 DEF TagInv, TagIs, FileBuckets
  <2>3. CASE Tag[q] \notin tags
    <3>1. [kind |-> "tags", tag |-> Tag[q]] \in Messages
      BY DEF Messages
    <3>. QED  BY <1>4, <2>1, <2>3, <3>1, NewTag DEF Count
  <2>. QED  BY <2>2, <2>3
<1>. QED  BY <1>1, <1>2, <1>3, <1>4, FileSteps

LEMMA NextFile ==
  ASSUME OnTime, UpdatesAreRead', TypeOK, TimeInv, CountInv, FileInv, [Next]_vars
  PROVE  FileInv'
BY NextEnd, NextStart, NextTally, NextPlace, NextTag DEF FileInv

LEMMA FileIs == TypeOK /\ FileInv => SummaryIsTheFile /\ BucketsAdjoin /\ FileReadable
<1>. SUFFICES ASSUME TypeOK, FileInv PROVE SummaryIsTheFile /\ BucketsAdjoin /\ FileReadable
  OBVIOUS
<1>1. SummaryIsTheFile
  BY DEF FileInv, EndInv, TallyInv, Tally, Summed, SummaryIsTheFile
<1>2. ASSUME NEW i \in FileBuckets,
             NEW later, later = {j \in FileBuckets : j > i},
             NEW first, first = CHOOSE j \in later : \A k \in later : j <= k
      PROVE  IF later # {} THEN file[first].time = file[i].time + BucketSize
             ELSE finals = <<>> => time = file[i].time + BucketSize
  <2>1. \A j \in FileBuckets : j \in Nat
    BY BucketHas
  <2>2. ASSUME NEW j \in FileBuckets, Follows(j, i) PROVE first = j
    <3>1. j \in later /\ \A k \in later : j <= k
      BY <1>2, <2>1, <2>2 DEF Follows
    <3>2. first \in later /\ \A k \in later : first <= k
      BY <1>2, <3>1
    <3>3. first <= j /\ j <= first /\ first \in Nat /\ j \in Nat
      BY <1>2, <2>1, <3>1, <3>2
    <3>. QED  BY <3>3
  <2>3. CASE Last(i) /\ (finals = <<>> => time = file[i].time + BucketSize)
    <3>1. later = {}
      BY <1>2, <2>1, <2>3 DEF Last
    <3>. QED  BY <2>3, <3>1
  <2>4. ASSUME NEW j \in FileBuckets, Follows(j, i), file[j].time = file[i].time + BucketSize
        PROVE  later # {} /\ file[first].time = file[i].time + BucketSize
    <3>1. j \in later
      BY <1>2, <2>1, <2>4 DEF Follows
    <3>. QED  BY <2>2, <2>4, <3>1
  <2>. QED  BY <2>3, <2>4 DEF FileInv, PlaceInv
<1>3. BucketsAdjoin
  BY <1>2 DEF BucketsAdjoin
<1>4. ASSUME NEW i \in FileBuckets, NEW r \in Responses, file[i].entries[r] > 0
      PROVE  Cardinality({j \in 1 .. i : file[j] = [kind |-> "tags", tag |-> Tag[r]]}) = 1
  <2>1. PICK j \in 1 .. i : TagIs(j, Tag[r])
    BY <1>4 DEF FileInv, TagInv
  <2>2. file \in Seq(Messages) /\ i \in 1 .. Len(file) /\ DOMAIN file = 1 .. Len(file)
    BY DEF TypeOK, FileBuckets
  <2>3. \A k \in 1 .. i : k \in DOMAIN file
    BY <2>2
  <2>4. Tag[r] \in tags
    <3>1. file[j].kind = "tags" /\ file[j].tag = Tag[r]
      BY <2>1 DEF TagIs
    <3>. QED  BY <2>3, <3>1 DEF FileInv, TagInv
  <2>5. \A k \in 1 .. i : TagIs(k, Tag[r]) => k = j
    BY <2>1, <2>3, <2>4 DEF FileInv, TagInv
  <2>6. {k \in 1 .. i : file[k] = [kind |-> "tags", tag |-> Tag[r]]} = {j}
    BY <2>1, <2>5 DEF TagIs
  <2>. QED  BY <2>6, FS_Singleton
<1>5. FileReadable
  BY <1>4 DEF FileReadable, FileInv, StartInv
<1>. QED  BY <1>1, <1>3, <1>5

\* The stats file is what the summary sums up, without a gap and with every
\* tag known, for any responses, size of the buckets and updates.
THEOREM FileAlwaysAccurate == OnTime => (Spec /\ []UpdatesAreRead => []FileIsAccurate)
<1>. SUFFICES ASSUME OnTime PROVE Spec /\ []UpdatesAreRead => []FileIsAccurate
  OBVIOUS
<1>1. UpdatesAreRead' /\ TypeOK /\ TimeInv /\ CountInv /\ FileInv /\ [Next]_vars => FileInv'
  BY NextFile
<1>2. TypeOK /\ TimeInv /\ CountInv /\ [Next]_vars => CountInv'
  BY NextCount
<1>3. TypeOK /\ TimeInv /\ [Next]_vars => TimeInv'
  BY NextTime
<1>4. TypeOK /\ FileInv => FileIsAccurate
  BY FileIs DEF FileIsAccurate
<1>. QED  BY <1>1, <1>2, <1>3, <1>4, InitTypeOK, NextTypeOK, InitTime, InitCount, InitFile, PTL DEF Spec
=============================================================================
