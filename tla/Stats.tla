------------------------------- MODULE Stats -------------------------------
(***************************************************************************)
(* The task that collects the statistics of a load test.  It is polled for *)
(* the end of the test, then for the end of a bucket, then for messages,   *)
(* and keeps a bucket of the responses it has read, which it adds to the   *)
(* totals and writes to the stats file when the next bucket begins.        *)
(*                                                                         *)
(* Time is in seconds.  How often a response is counted stands for what a  *)
(* BucketGroupStats counts of it.  What is printed at the end of a bucket, *)
(* and how long the test still takes, changes nothing and is left out.     *)
(***************************************************************************)
EXTENDS Integers, Sequences, FiniteSets

CONSTANTS
  BucketSize,
  Starts,       \* bound: the epochs the task may be created at
  MaxTime,      \* bound: the clock
  MaxLate,      \* bound: seconds the task may be late for the end of a bucket
  SlowStart,    \* the end of a bucket may come before the test has begun
  Responses,    \* bound: the responses, with
  Tag,          \* their tags
  LogProviders, \* log_provider_stats
  MaxUpdates    \* bound: updates of the config file

ASSUME StatsAssumption ==
  /\ BucketSize \in Nat \ {0} /\ MaxTime \in Nat /\ MaxLate \in Nat
  /\ Starts \subseteq Nat
  /\ {SlowStart, LogProviders} \subseteq BOOLEAN
  /\ MaxUpdates \in Nat
  /\ "start" \notin Responses

VARIABLES
  now,     \* the epoch
  tick,    \* when the interval yields next
  test,    \* what the test has come to: setup, running or failed
  told,    \* the responses told
  inbox,   \* the messages the task has not read
  ended,   \* the end of the test was broadcast
  updates, \* the updates broadcast
  news,    \* what was broadcast and not received by the task
  task,    \* ready (to be polled), asleep, done or panicked
  wakers,  \* what would wake it: the end, the tick or a message
  started, \* test_start_time is set
  time,    \* when the current bucket began
  current, \* the current bucket
  totals,
  tags,    \* the tags written to the file
  file,    \* the messages written to the stats file
  finals   \* the summaries of the test

clock   == <<now, tick>>
load    == <<test, told, ended, updates>>
buckets == <<time, current, totals, finals>>
vars    == <<clock, load, inbox, news, task, wakers, started, buckets, tags, file>>

\* Slip: a bucket begins whenever the one before it was closed.
RoundNot(t) == t

Round(t) == (t \div BucketSize) * BucketSize

Nothing == [r \in Responses |-> 0]

Init ==
  /\ now \in Starts
  \* The whole seconds of the clock are rounded, what is left of its second
  \* is not: the interval is up to a second behind the bucket.
  /\ \E phase \in {0, 1} : tick = Round(now) + BucketSize + phase
  /\ test = "setup" /\ told = {} /\ inbox = <<>>
  /\ ended = FALSE /\ updates = 0 /\ news = <<>>
  /\ task = "ready" /\ wakers = {}
  /\ started = FALSE
  /\ time = Round(now) /\ current = Nothing /\ totals = Nothing
  /\ tags = {} /\ file = <<>> /\ finals = <<>>

\* Something happens the task may be waiting for.
Wake(w) ==
  /\ wakers' = wakers \ {w}
  /\ task' = IF task = "asleep" /\ w \in wakers THEN "ready" ELSE task
-----------------------------------------------------------------------------
(***************************************************************************)
(* The world of the task.                                                  *)
(***************************************************************************)
Over == task \in {"done", "panicked"}

Pass ==
  /\ now < MaxTime
  /\ ~Over => now + 1 - tick <= MaxLate
  /\ ~Over /\ ~started /\ ~SlowStart => now + 1 < tick
  /\ now' = now + 1
  /\ IF now' = tick THEN Wake("tick") ELSE UNCHANGED <<task, wakers>>
  /\ UNCHANGED <<tick, load, inbox, news, started, buckets, tags, file>>

Start ==
  /\ test = "setup"
  /\ test' = "running"
  /\ inbox' = Append(inbox, "start")
  /\ Wake("message")
  /\ UNCHANGED <<clock, told, ended, updates, news, started, buckets, tags, file>>

\* No endpoint will ever tell anything.
SetupFails ==
  /\ test = "setup"
  /\ test' = "failed"
  /\ Wake("message")
  /\ UNCHANGED <<clock, told, ended, updates, inbox, news, started, buckets, tags, file>>

\* Requests that are under way go on after the end.
Tell(r) ==
  /\ test = "running" /\ r \notin told /\ ~Over
  /\ told' = told \cup {r}
  /\ inbox' = Append(inbox, r)
  /\ Wake("message")
  /\ UNCHANGED <<clock, test, ended, updates, news, started, buckets, tags, file>>

End ==
  /\ ~ended
  /\ ended' = TRUE
  /\ news' = Append(news, "end")
  /\ Wake("end")
  /\ UNCHANGED <<clock, test, told, updates, inbox, started, buckets, tags, file>>

Update ==
  /\ test = "running" /\ ~Over /\ updates < MaxUpdates
  /\ updates' = updates + 1
  /\ news' = Append(news, "update")
  /\ Wake("end")
  /\ UNCHANGED <<clock, test, told, ended, inbox, started, buckets, tags, file>>
-----------------------------------------------------------------------------
(***************************************************************************)
(* The buckets.                                                            *)
(***************************************************************************)
\* Slip: what is there counts no more.
CombineOver(a, b) == b

Combine(a, b) == [r \in Responses |-> a[r] + b[r]]

Bucket == [kind |-> "bucket", time |-> time, entries |-> current]

WriteBucket == file' = Append(file, Bucket)

\* Stats::append.  A tag is written to the file before the task goes on.
Count(r) ==
  /\ current' = [current EXCEPT ![r] = @ + 1]
  /\ tags' = tags \cup {Tag[r]}
  /\ file' = IF Tag[r] \in tags THEN file ELSE Append(file, [kind |-> "tags", tag |-> Tag[r]])
  /\ UNCHANGED <<time, totals, finals>>

\* Slip: the totals are taken before the last bucket is added.
CloseTestEarly ==
  /\ WriteBucket
  /\ finals' = Append(finals, totals)
  /\ time' = 0 /\ current' = Nothing /\ totals' = Nothing

\* close_out_bucket(None): the test is over, whatever bucket it is.
CloseTest ==
  /\ WriteBucket
  /\ finals' = Append(finals, Combine(totals, current))
  /\ time' = 0 /\ current' = Nothing /\ totals' = Nothing

\* check_current_bucket, which asserts that the bucket before this one was
\* the current one.  The bucket it leaves in previous is taken at once.
CloseBucket ==
  IF time < Round(now) /\ time # Round(now) - BucketSize
  THEN /\ task' = "panicked"
       /\ UNCHANGED <<buckets, file>>
  ELSE /\ IF time < Round(now)
          THEN /\ time' = Round(now) /\ current' = Nothing
               /\ totals' = Combine(totals, current)
               /\ WriteBucket
          ELSE UNCHANGED <<time, current, totals, file>>
       /\ UNCHANGED <<task, finals>>
-----------------------------------------------------------------------------
(***************************************************************************)
(* The stream of create_stats_channel and the loop that reads it.  What is *)
(* found pending has the task's waker from then on.                        *)
(***************************************************************************)
Polled == task = "ready"
NoNews == Polled /\ news = <<>>

\* A receiver that missed a broadcast gets an error, which is an end, too.
TestComplete ==
  /\ Polled /\ news # <<>> /\ news # <<"update">>
  /\ news' = <<>>
  /\ CloseTest
  /\ task' = "done"
  /\ UNCHANGED <<clock, load, inbox, wakers, started, tags>>

\* The readers of the providers are replaced; without log_provider_stats the
\* stream is pending, and polled for nothing else.
ConfigUpdate ==
  /\ Polled /\ news = <<"update">>
  /\ news' = <<>>
  /\ task' = IF LogProviders THEN "ready" ELSE "asleep"
  /\ UNCHANGED <<clock, load, inbox, wakers, started, buckets, tags, file>>

\* Slip: the interval is polled when there is no message.
TickDueLast == NoNews /\ inbox = <<>> /\ now >= tick

TickDue == NoNews /\ now >= tick

\* Slip: the interval counts from when it was polled.
NextTickDelayed == now + BucketSize

\* The ticks that were missed come at once.
NextTick == tick + BucketSize

\* Before the test has begun remaining_seconds is None, as at its end.
NewBucket ==
  /\ TickDue
  /\ tick' = NextTick
  /\ IF started THEN CloseBucket ELSE CloseTest /\ UNCHANGED task
  /\ wakers' = wakers \cup {"end"}
  /\ UNCHANGED <<now, load, inbox, news, started, tags>>

NoTick == NoNews /\ ~TickDue

ReadStart ==
  /\ NoTick /\ inbox # <<>> /\ Head(inbox) = "start"
  /\ inbox' = Tail(inbox)
  /\ started' = TRUE
  /\ file' = Append(file, [kind |-> "header"])
  /\ wakers' = wakers \cup {"end", "tick"}
  /\ UNCHANGED <<clock, load, news, task, buckets, tags>>

ReadResponse ==
  /\ NoTick /\ inbox # <<>> /\ Head(inbox) \in Responses
  /\ inbox' = Tail(inbox)
  /\ Count(Head(inbox))
  /\ wakers' = wakers \cup {"end", "tick"}
  /\ UNCHANGED <<clock, load, news, task, started>>

\* Every sender is gone: there is no summary.
Closed ==
  /\ NoTick /\ inbox = <<>> /\ test = "failed"
  /\ task' = "done"
  /\ UNCHANGED <<clock, load, inbox, news, wakers, started, buckets, tags, file>>

\* Slip: only the stream that was polled last has the waker.
SleepOnMessages ==
  /\ NoTick /\ inbox = <<>> /\ test # "failed"
  /\ task' = "asleep"
  /\ wakers' = {"message"}
  /\ UNCHANGED <<clock, load, inbox, news, started, buckets, tags, file>>

Sleep ==
  /\ NoTick /\ inbox = <<>> /\ test # "failed"
  /\ task' = "asleep"
  /\ wakers' = {"end", "tick", "message"}
  /\ UNCHANGED <<clock, load, inbox, news, started, buckets, tags, file>>

Poll ==
  TestComplete \/ ConfigUpdate \/ NewBucket \/ ReadStart \/ ReadResponse \/ Closed \/ Sleep

Next ==
  \/ Pass \/ Start \/ SetupFails \/ End \/ Update
  \/ \E r \in Responses : Tell(r)
  \/ Poll

Spec == Init /\ [][Next]_vars

\* The runtime polls a task that was woken.
FairSpec == Spec /\ WF_vars(Poll)
-----------------------------------------------------------------------------
Messages ==
       [kind : {"header"}]
  \cup [kind : {"tags"}, tag : {Tag[r] : r \in Responses}]
  \cup [kind : {"bucket"}, time : Nat, entries : [Responses -> Nat]]

TypeOK ==
  /\ now \in Nat /\ tick \in Nat
  /\ test \in {"setup", "running", "failed"}
  /\ told \subseteq Responses
  /\ inbox \in Seq(Responses \cup {"start"})
  /\ ended \in BOOLEAN /\ updates \in 0 .. MaxUpdates
  /\ news \in Seq({"update", "end"})
  /\ task \in {"ready", "asleep", "done", "panicked"}
  /\ wakers \subseteq {"end", "tick", "message"}
  /\ started \in BOOLEAN
  /\ time \in Nat /\ time % BucketSize = 0
  /\ current \in [Responses -> Nat] /\ totals \in [Responses -> Nat]
  /\ tags \subseteq {Tag[r] : r \in Responses}
  /\ file \in Seq(Messages)
  /\ finals \in Seq([Responses -> Nat])

\* "previous bucket had an unexpected time" (check_current_bucket, lines
\* 415-418): the task never panics, however late it is within a bucket.
NoPanic == task # "panicked"

\* What the task has read is counted once, in the current bucket or in the
\* totals, which become the summary (append, combine, close_out_bucket).
CountedOnce ==
  task # "panicked" =>
    \A r \in Responses :
      LET read == r \in told /\ \A i \in DOMAIN inbox : inbox[i] # r
          summed == IF finals = <<>> THEN totals[r] ELSE finals[1][r]
      IN current[r] + summed = IF read THEN 1 ELSE 0

FileBuckets == {i \in DOMAIN file : file[i].kind = "bucket"}

\* The summary of the test is made once, when the test has ended, and counts
\* what the buckets of the stats file count (get_previous_bucket).
SummaryIsTheFile ==
  /\ Len(finals) <= 1
  /\ finals # <<>> =>
       /\ ended
       /\ \A r \in Responses :
            finals[1][r] = Cardinality({i \in FileBuckets : file[i].entries[r] = 1})

\* The buckets of the stats file follow one another without a gap, and the
\* current one comes after them (check_current_bucket, lines 410-422).
BucketsAdjoin ==
  task # "panicked" =>
    \A i \in FileBuckets :
      LET later == {j \in FileBuckets : j > i}
          first == CHOOSE j \in later : \A k \in later : j <= k
      IN IF later # {} THEN file[first].time = file[i].time + BucketSize
         ELSE finals = <<>> => time = file[i].time + BucketSize

\* Who reads the stats file knows every tag of a bucket when it comes to the
\* bucket, and every tag once (append, lines 440-461).
FileReadable ==
  /\ file # <<>> /\ started => file[1].kind = "header"
  /\ \A i \in FileBuckets, r \in Responses :
       file[i].entries[r] > 0 =>
         Cardinality({j \in 1 .. i : file[j] = [kind |-> "tags", tag |-> Tag[r]]}) = 1

\* The stats file is a true account of the test to who reads it from its top:
\* every bucket in its place, every tag known, and what it counts is what the
\* summary says (lines 380-470).
FileIsAccurate == SummaryIsTheFile /\ BucketsAdjoin /\ FileReadable

\* A response is counted in the bucket of the second it is read in, or at
\* most a second after that bucket (the stream polls the interval first).
CountsInTime ==
  [][\A r \in Responses :
       current'[r] > current[r] => time <= now /\ now <= time + BucketSize]_vars

\* When the test has ended the task closes what it has and ends, so that
\* nobody waits for its output for ever.
SummaryComes == ended ~> Over
=============================================================================
