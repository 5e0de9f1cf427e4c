------------------------------ MODULE Request ------------------------------
(***************************************************************************)
(* The requests of one endpoint: the values they are built from, what they *)
(* do with a response, and how the values get back to their providers.     *)
(*                                                                         *)
(* A request takes one value from each provider the endpoint reads (a      *)
(* source) and gives it back according to the provider's auto_return.  What*)
(* a response yields goes to the providers the endpoint fills (a rule      *)
(* each).  Here a provider's channel is its number of items and a limit;   *)
(* Channel models how it is used by several threads at once.               *)
(***************************************************************************)
EXTENDS Naturals, Sequences, FiniteSets

CONSTANTS
  Requests,    \* bound: the requests made
  MaxParallel, \* how many may be under way (FanOut)
  Sources,     \* the providers the endpoint reads, with
  AutoReturn,  \* their auto_return and
  SourceLimit, \* the limit of their channels
  Values,      \* bound: the values,
  Source,      \* the provider each belongs to, and
  Unread,      \* those not sent to it yet (file, list or range)
  Rules,       \* the endpoint's provides are 1 .. Rules, in order, with
  Send,        \* their send option and
  Limit,       \* the limit of the provider's channel
  RowSets,     \* bound: what a rule's select may yield
  HasLogger    \* the endpoint has logs

Options  == {"block", "force", "if_not_full"}
Provides == 1 .. Rules
Rows     == Seq({"value", "error"})

ASSUME RequestAssumption ==
  /\ MaxParallel \in Nat \ {0}
  /\ AutoReturn \in [Sources -> Options] /\ SourceLimit \in [Sources -> Nat]
  /\ Source \in [Values -> Sources] /\ Unread \subseteq Values
  /\ Rules \in Nat /\ Send \in [Provides -> Options] /\ Limit \in [Provides -> Nat]
  /\ RowSets \subseteq Rows
  /\ HasLogger \in BOOLEAN
  /\ {"unread", "home", "zipped", "lost", "refused"} \cap Requests = {}

VARIABLES
  at,      \* where a value is: unread, home (its provider's channel), zipped,
           \* with a request, refused (a full provider), or lost
  over,    \* the endpoint has ended
  stage,   \* where a request is
  rule,    \* the rule it evaluates next
  rows,    \* the rows its block senders have left
  blocked, \* the rules whose block senders it waits for
  logging, \* it waits for the futures that log an error
  stats,   \* what it has told the statistics
  queue,   \* the number of items in the channels the endpoint fills
  closed   \* nobody receives from them any more

sending == <<rows, blocked>>
target  == <<queue, closed>>
vars    == <<at, over, stage, rule, sending, logging, stats, target>>

Init ==
  /\ at = [v \in Values |-> IF v \in Unread THEN "unread" ELSE "home"]
  /\ over = FALSE
  /\ stage = [r \in Requests |-> "idle"]
  /\ rule = [r \in Requests |-> 1]
  /\ rows = [r \in Requests |-> [p \in Provides |-> <<>>]]
  /\ blocked = [r \in Requests |-> {}]
  /\ logging = [r \in Requests |-> FALSE]
  /\ stats = [r \in Requests |-> [responses |-> 0, calls |-> 0]]
  /\ queue = [p \in Provides |-> 0]
  /\ closed = FALSE

Active  == {r \in Requests : stage[r] \notin {"idle", "done", "failed"}}
Held(r) == {v \in Values : at[v] = r}
Home(s) == {v \in Values : at[v] = "home" /\ Source[v] = s}
Zipped  == {v \in Values : at[v] = "zipped"}

Goto(r, s) == stage' = [stage EXCEPT ![r] = s]

\* A ResponseStat: a response, or an error (which is not counted here); the
\* round trip time it may carry is what the calls of a bucket are counted by.
Tell(r, responses, calls) ==
  stats' = [stats EXCEPT ![r] = [responses |-> @.responses + responses,
                                 calls |-> @.calls + calls]]
-----------------------------------------------------------------------------
(***************************************************************************)
(* The endpoint's stream: the primer task of a provider fills its channel, *)
(* zip_all keeps the values that are there until it has one of each.       *)
(***************************************************************************)
Prime(v) ==
  /\ at[v] = "unread"
  /\ Cardinality(Home(Source[v])) < SourceLimit[Source[v]]
  /\ at' = [at EXCEPT ![v] = "home"]
  /\ UNCHANGED <<over, stage, rule, sending, logging, stats, target>>

MayPull == ~over /\ Cardinality(Active) < MaxParallel

\* Slip: a value is taken although one of its provider is there.
ZipAgain(v) ==
  /\ MayPull
  /\ v \in Home(Source[v])
  /\ at' = [at EXCEPT ![v] = "zipped"]
  /\ UNCHANGED <<over, stage, rule, sending, logging, stats, target>>

Zip(v) ==
  /\ MayPull
  /\ v \in Home(Source[v])
  /\ \A w \in Zipped : Source[w] # Source[v]
  /\ at' = [at EXCEPT ![v] = "zipped"]
  /\ UNCHANGED <<over, stage, rule, sending, logging, stats, target>>

Spawn(r) ==
  /\ MayPull
  /\ stage[r] = "idle"
  /\ \A s \in Sources : \E v \in Zipped : Source[v] = s
  /\ at' = [v \in Values |-> IF v \in Zipped THEN r ELSE at[v]]
  /\ Goto(r, "build")
  /\ UNCHANGED <<over, rule, sending, logging, stats, target>>
\* The load pattern is over, or a provider has ended: zip_all drops what it
\* has of the others, and the requests under way go on.
EndpointEnds ==
  /\ MayPull
  /\ over' = TRUE
  /\ at' = [v \in Values |-> IF at[v] = "zipped" THEN "lost" ELSE at[v]]
  /\ UNCHANGED <<stage, rule, sending, logging, stats, target>>
-----------------------------------------------------------------------------
(***************************************************************************)
(* RequestMaker::send_request.                                             *)
(***************************************************************************)
\* The url or a header cannot be evaluated: the future is an error, and the
\* values go with the auto returns that were never polled.
UrlFails(r) ==
  /\ stage[r] = "build"
  /\ at' = [v \in Values |-> IF at[v] = r THEN "lost" ELSE at[v]]
  /\ Goto(r, "failed")
  /\ UNCHANGED <<over, rule, sending, logging, stats, target>>

\* ... and it ends the endpoint, whose stream is dropped.
EndpointFails ==
  /\ ~over /\ \E r \in Requests : stage[r] = "failed"
  /\ over' = TRUE
  /\ at' = [v \in Values |-> IF at[v] = "zipped" THEN "lost" ELSE at[v]]
  /\ UNCHANGED <<stage, rule, sending, logging, stats, target>>

\* The body cannot be made.  Nothing is told, but the auto returns run.
BodyFails(r) ==
  /\ stage[r] = "build"
  /\ Goto(r, "last")
  /\ UNCHANGED <<at, over, rule, sending, logging, stats, target>>

Request(r) ==
  /\ stage[r] = "build"
  /\ Goto(r, "wait")
  /\ UNCHANGED <<at, over, rule, sending, logging, stats, target>>

\* Slip: the time it took is the timeout, whatever went wrong.
RecoverTimed(r, calls) ==
  /\ Tell(r, 0, 1)
  /\ Goto(r, "report")

\* or_else: the error is told and logged, logged errors are dropped.
Recover(r, calls) ==
  /\ Tell(r, 0, calls)
  /\ Goto(r, "report")

\* The timer is polled before the response.
TimesOut(r) ==
  /\ stage[r] = "wait"
  /\ Recover(r, 1)
  /\ UNCHANGED <<at, over, rule, sending, logging, target>>

\* The connection fails, or a where clause cannot be evaluated on the head
\* of the response.
HeadFails(r) ==
  /\ stage[r] = "wait"
  /\ Recover(r, 0)
  /\ UNCHANGED <<at, over, rule, sending, logging, target>>

Reported(r) ==
  /\ stage[r] = "report"
  /\ Goto(r, "last")
  /\ UNCHANGED <<at, over, rule, sending, logging, stats, target>>

\* The timer is gone: nothing limits the time the body takes.
Answered(r) ==
  /\ stage[r] = "wait"
  /\ Goto(r, "body")
  /\ UNCHANGED <<at, over, rule, sending, logging, stats, target>>
-----------------------------------------------------------------------------
(***************************************************************************)
(* BodyHandler::handle.                                                    *)
(***************************************************************************)
\* What send_response_stat adds to the futures of an error.
LogError(r) ==
  logging' = [logging EXCEPT ![r] = @ \/ HasLogger]

BodyBreaks(r) ==
  /\ stage[r] = "body"
  /\ LogError(r)
  /\ Tell(r, 1, 1)
  /\ Goto(r, "join")
  /\ UNCHANGED <<at, over, rule, sending, target>>

\* The loggers come before the provides; a logger's rule may fail, too.  The
\* futures that log what it yields only end, and are left out.
BodyArrives(r) ==
  /\ stage[r] = "body"
  /\ \/ HasLogger /\ Tell(r, 0, 0) /\ LogError(r)
     \/ UNCHANGED <<stats, logging>>
  /\ Goto(r, "rules")
  /\ UNCHANGED <<at, over, rule, sending, target>>

\* What one poll of a sender does with rows that find room for n: values go
\* until there is no room, and the first error ends it.
Sent(rs, n) == Cardinality({i \in DOMAIN rs : i <= n /\ \A j \in 1 .. i : rs[j] = "value"})
Stopped(rs, n) == Sent(rs, n) + 1 \in DOMAIN rs /\ rs[Sent(rs, n) + 1] = "error"
Left(rs, n) == SubSeq(rs, Sent(rs, n) + (IF Stopped(rs, n) THEN 2 ELSE 1), Len(rs))

\* What try_send and poll_ready find: that nobody receives is looked at first,
\* and nothing is sent then, however much room there is.
Room(p) == IF ~closed /\ queue[p] < Limit[p] THEN Limit[p] - queue[p] ELSE 0

\* Slip: a rule is passed over.
NextRuleButOne(r) == rule' = [rule EXCEPT ![r] = @ + 2]

NextRule(r) == rule' = [rule EXCEPT ![r] = @ + 1]

\* The where clause is false, or there is nothing to iterate over.
Skip(r) ==
  /\ stage[r] = "rules" /\ rule[r] \in Provides
  /\ NextRule(r)
  /\ UNCHANGED <<at, over, stage, sending, logging, stats, target>>

RuleFails(r) ==
  /\ stage[r] = "rules" /\ rule[r] \in Provides
  /\ Tell(r, 0, 0) /\ LogError(r)
  /\ NextRule(r)
  /\ UNCHANGED <<at, over, stage, sending, target>>

Block(r, rs) ==
  /\ stage[r] = "rules" /\ rule[r] \in Provides
  /\ Send[rule[r]] = "block"
  /\ rows' = [rows EXCEPT ![r][rule[r]] = rs]
  /\ blocked' = [blocked EXCEPT ![r] = @ \cup {rule[r]}]
  /\ NextRule(r)
  /\ UNCHANGED <<at, over, stage, logging, stats, target>>

\* Force takes no notice of the limit or of who receives, if_not_full stops at both.
SendNow(r, rs) ==
  /\ stage[r] = "rules" /\ rule[r] \in Provides
  /\ LET p    == rule[r]
         n    == IF Send[p] = "force" THEN Len(rs) ELSE Room(p)
     IN /\ Send[p] # "block"
        /\ queue' = [queue EXCEPT ![p] = @ + Sent(rs, n)]
        /\ IF Stopped(rs, n)
           THEN Tell(r, 0, 0) /\ LogError(r)
           ELSE UNCHANGED <<stats, logging>>
  /\ NextRule(r)
  /\ UNCHANGED <<at, over, stage, sending, closed>>

RulesDone(r) ==
  /\ stage[r] = "rules" /\ rule[r] \notin Provides
  /\ Tell(r, 1, 1)
  /\ Goto(r, "join")
  /\ UNCHANGED <<at, over, rule, sending, logging, target>>
-----------------------------------------------------------------------------
(***************************************************************************)
(* The futures of try_join_all: the auto returns, the log futures and the  *)
(* select_all over the block senders.                                      *)
(***************************************************************************)
\* Slip: the blocked provides are waited for first.
ReturnLast(r, v) ==
  /\ stage[r] \in {"join", "last"} /\ blocked[r] = {}
  /\ at[v] = r
  /\ at' = [at EXCEPT ![v] = "home"]
  /\ UNCHANGED <<over, stage, rule, sending, logging, stats, target>>

\* AutoReturn::into_future; it is shared with the end of send_request.
Return(r, v) ==
  /\ stage[r] \in {"join", "last"}
  /\ at[v] = r
  /\ LET s    == Source[v]
         room == Cardinality(Home(s)) < SourceLimit[s]
     IN /\ AutoReturn[s] = "block" => room
        /\ at' = [at EXCEPT ![v] = IF room \/ AutoReturn[s] = "force" THEN "home" ELSE "refused"]
  /\ UNCHANGED <<over, stage, rule, sending, logging, stats, target>>

SendBlocked(r, p) ==
  /\ stage[r] = "join" /\ p \in blocked[r]
  /\ rows[r][p] # <<>> /\ Head(rows[r][p]) = "value" /\ Room(p) > 0
  /\ queue' = [queue EXCEPT ![p] = @ + 1]
  /\ rows' = [rows EXCEPT ![r][p] = Tail(@)]
  /\ UNCHANGED <<at, over, stage, rule, blocked, logging, stats, closed>>

\* The sender is through, came to an error, or nobody receives any more.
SenderEnds(r, p) ==
  \/ Sent(rows[r][p], 1) = 0 /\ (rows[r][p] = <<>> \/ Stopped(rows[r][p], 1))
  \/ closed

\* Senders that are dropped are polled once more by Drop, those that
\* select_all leaves over are polled once before that.
DropSenders(r, twice) ==
  /\ queue' = [p \in Provides |->
       IF p \in blocked[r]
       THEN LET once == Sent(rows[r][p], Room(p))
            IN IF p \in twice
               THEN queue[p] + once + Sent(Left(rows[r][p], Room(p)), Room(p) - once)
               ELSE queue[p] + once
       ELSE queue[p]]
  /\ rows' = [rows EXCEPT ![r] = [p \in Provides |-> <<>>]]
  /\ blocked' = [blocked EXCEPT ![r] = {}]

\* The first sender that ends ends the wait for all of them; it has taken the
\* row that stopped it when Drop polls it.
SelectBlocked(r, p) ==
  /\ stage[r] = "join" /\ p \in blocked[r]
  /\ SenderEnds(r, p)
  /\ DropSenders(r, blocked[r])
  /\ UNCHANGED <<at, over, stage, rule, logging, stats, closed>>

Logged(r) ==
  /\ stage[r] = "join" /\ logging[r]
  /\ logging' = [logging EXCEPT ![r] = FALSE]
  /\ UNCHANGED <<at, over, stage, rule, sending, stats, target>>

\* The select of a logger yields an error for the error it is to log: that
\* ends the join, and the error is an error of the request.
LogFails(r) ==
  /\ stage[r] = "join" /\ logging[r]
  /\ logging' = [logging EXCEPT ![r] = FALSE]
  /\ DropSenders(r, {})
  /\ Recover(r, 0)
  /\ UNCHANGED <<at, over, rule, closed>>

Joined(r) ==
  /\ stage[r] = "join"
  /\ Held(r) = {} /\ blocked[r] = {} /\ ~logging[r]
  /\ Goto(r, "last")
  /\ UNCHANGED <<at, over, rule, sending, logging, stats, target>>

Done(r) ==
  /\ stage[r] = "last"
  /\ Held(r) = {}
  /\ Goto(r, "done")
  /\ UNCHANGED <<at, over, rule, sending, logging, stats, target>>
-----------------------------------------------------------------------------
(***************************************************************************)
(* The endpoint that reads what this one provides.                         *)
(***************************************************************************)
Consume(p) ==
  /\ ~closed /\ queue[p] > 0
  /\ queue' = [queue EXCEPT ![p] = @ - 1]
  /\ UNCHANGED <<at, over, stage, rule, sending, logging, stats, closed>>

Close ==
  /\ ~closed /\ closed' = TRUE
  /\ UNCHANGED <<at, over, stage, rule, sending, logging, stats, queue>>
-----------------------------------------------------------------------------
Outcome(r) ==
  UrlFails(r) \/ BodyFails(r) \/ Request(r) \/ TimesOut(r) \/ HeadFails(r) \/ Answered(r)

Evaluate(r) ==
  \/ Skip(r) \/ RuleFails(r) \/ RulesDone(r)
  \/ \E rs \in RowSets : Block(r, rs) \/ SendNow(r, rs)

Finish(r) ==
  \/ Reported(r) \/ Joined(r) \/ Done(r) \/ Logged(r) \/ LogFails(r)
  \/ \E v \in Values : Return(r, v)
  \/ \E p \in Provides : SendBlocked(r, p) \/ SelectBlocked(r, p)

RequestStep(r) ==
  \/ Spawn(r) \/ Outcome(r) \/ BodyBreaks(r) \/ BodyArrives(r) \/ Evaluate(r) \/ Finish(r)

Next ==
  \/ \E v \in Values : Prime(v) \/ Zip(v)
  \/ EndpointFails \/ EndpointEnds
  \/ \E r \in Requests : RequestStep(r)
  \/ Close \/ \E p \in Provides : Consume(p)

Spec == Init /\ [][Next]_vars

\* The runtime polls every task that can go on, and a request that was sent
\* is answered or times out.  Nothing makes a body end or a provider be read.
Fairness ==
  /\ WF_vars(EndpointFails)
  /\ \A v \in Values : WF_vars(Prime(v)) /\ WF_vars(Zip(v))
  /\ \A r \in Requests : WF_vars(Spawn(r) \/ Outcome(r) \/ Evaluate(r) \/ Finish(r))

FairSpec == Spec /\ Fairness
-----------------------------------------------------------------------------
Stages ==
  {"idle", "build", "wait", "body", "rules", "join", "report", "last", "done", "failed"}

TypeOK ==
  /\ at \in [Values -> {"unread", "home", "zipped", "lost", "refused"} \cup Requests]
  /\ over \in BOOLEAN
  /\ stage \in [Requests -> Stages]
  /\ rule \in [Requests -> 1 .. Rules + 1]
  /\ rows \in [Requests -> [Provides -> Rows]]
  /\ blocked \in [Requests -> SUBSET Provides]
  /\ logging \in [Requests -> BOOLEAN]
  /\ stats \in [Requests -> [responses : Nat, calls : Nat]]
  /\ queue \in [Provides -> Nat]
  /\ closed \in BOOLEAN

\* Whatever goes wrong with a request, its values go back: none is left with
\* a request that has ended, and none is lost before the endpoint ends or a
\* url or a header cannot be evaluated (send_request, lines 124-193 and
\* 387-393).
ValuesComeBack ==
  \A v \in Values :
    /\ at[v] \in Requests => at[v] \in Active
    /\ at[v] = "lost" => over \/ \E r \in Requests : stage[r] = "failed"
    /\ at[v] = "refused" => AutoReturn[Source[v]] = "if_not_full"

\* An endpoint that ends while others go on keeps at most one value of each
\* provider from them: what zip_all had in hand (zip_all, lines 53-56).
KeepsOneOfEach ==
  (\A r \in Requests : stage[r] # "failed") =>
    \A v, w \in Values :
      at[v] = "lost" /\ at[w] = "lost" /\ Source[v] = Source[w] => v = w

\* A value that an endpoint takes is sent, comes back or is the one of its
\* provider the zip had in hand: no other provider's reader goes without
\* because of how a request or an endpoint ended (send_request, lines 124-193;
\* zip_all, lines 53-56).
ValuesKept == ValuesComeBack /\ KeepsOneOfEach

\* A request is one call in the statistics however it ends: at most one
\* response, which is its only call.
OneCall ==
  \A r \in Requests :
    /\ stats[r].responses <= 1 /\ stats[r].calls <= 1
    /\ stats[r].responses = 1 => stats[r].calls = 1

\* A response that was handled ends its request, unless every provider the
\* request waits for stays full and is received from (handle, lines 184-196).
AnsweredEnds ==
  \A r \in Requests :
    stage[r] = "rules" ~>
      \/ stage[r] = "done"
      \/ [](blocked[r] # {} /\ ~closed /\ \A p \in blocked[r] : Room(p) = 0)

\* The values of a request that was answered are given back, also if nobody
\* ever reads what the endpoint provides (handle, lines 116-119 and 196).
Returned == \A r \in Requests : stage[r] = "join" ~> Held(r) = {}

\* A request whose response was handled gives back what it took and ends, with
\* the one exception AnsweredEnds names (handle, lines 116-119 and 184-196).
RequestsEnd == Returned /\ AnsweredEnds
=============================================================================
