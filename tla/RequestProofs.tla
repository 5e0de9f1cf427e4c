--------------------------- MODULE RequestProofs ---------------------------
(* What the run of Request checks on two requests, for any number of        *)
(* requests, providers, values and rows.                                    *)
EXTENDS Request, FiniteSetTheorems, TLAPS

-----------------------------------------------------------------------------
(***************************************************************************)
(* Types.                                                                  *)
(***************************************************************************)
LEMMA SentIsNatural ==
  ASSUME NEW rs \in Rows, NEW n
  PROVE  Sent(rs, n) \in Nat
<1>. DEFINE S == {i \in DOMAIN rs : i <= n /\ \A j \in 1 .. i : rs[j] = "value"}
<1>1. DOMAIN rs = 1 .. Len(rs) /\ Len(rs) \in Nat
  BY DEF Rows
<1>2. IsFiniteSet(DOMAIN rs)
  BY <1>1, FS_Interval
<1>3. IsFiniteSet(S)
  BY <1>2, FS_Subset
<1>. QED  BY <1>3, FS_CardinalityType DEF Sent

LEMMA LeftIsRows ==
  ASSUME NEW rs \in Rows, NEW n
  PROVE  Left(rs, n) \in Rows
<1>1. Sent(rs, n) \in Nat
  BY SentIsNatural
<1>2. Left(rs, n) = SubSeq(rs, Sent(rs, n) + 1, Len(rs)) \/ Left(rs, n) = SubSeq(rs, Sent(rs, n) + 2, Len(rs))
  BY DEF Left
<1>3. \A k \in Nat : SubSeq(rs, k + 1, Len(rs)) \in Rows /\ SubSeq(rs, k + 2, Len(rs)) \in Rows
  BY DEF Rows
<1>. QED  BY <1>1, <1>2, <1>3

LEMMA RoomIsNatural ==
  ASSUME TypeOK, NEW p \in Provides
  PROVE  Room(p) \in Nat
BY RequestAssumption DEF TypeOK, Room

LEMMA InitTypeOK == Init => TypeOK
<1>. SUFFICES ASSUME Init PROVE TypeOK
  OBVIOUS
<1>1. 1 \in 1 .. Rules + 1
  BY RequestAssumption
<1>2. <<>> \in Rows
  BY DEF Rows
<1>. QED  BY <1>1, <1>2 DEF Init, TypeOK, Stages

\* A request moves to another stage, tells something, and values move.
LEMMA GotoType ==
  ASSUME TypeOK, NEW r \in Requests, NEW s \in Stages, Goto(r, s)
  PROVE  stage' \in [Requests -> Stages]
BY DEF TypeOK, Goto

LEMMA TellType ==
  ASSUME TypeOK, NEW r \in Requests, NEW i \in Nat, NEW j \in Nat, Tell(r, i, j)
  PROVE  stats' \in [Requests -> [responses : Nat, calls : Nat]]
<1>1. stats[r] \in [responses : Nat, calls : Nat]
  BY DEF TypeOK
<1>2. stats[r].responses + i \in Nat /\ stats[r].calls + j \in Nat
  BY <1>1
<1>. QED  BY <1>2 DEF TypeOK, Tell

LEMMA DropType ==
  ASSUME TypeOK, NEW r \in Requests, NEW twice, DropSenders(r, twice)
  PROVE  /\ queue' \in [Provides -> Nat]
         /\ rows' \in [Requests -> [Provides -> Rows]]
         /\ blocked' \in [Requests -> SUBSET Provides]
<1>1. <<>> \in Rows
  BY DEF Rows
<1>2. rows' \in [Requests -> [Provides -> Rows]] /\ blocked' \in [Requests -> SUBSET Provides]
  BY <1>1 DEF TypeOK, DropSenders
<1>3. ASSUME NEW p \in Provides
      PROVE  /\ queue[p] \in Nat
             /\ \A n : Sent(rows[r][p], n) \in Nat
             /\ \A n, m : Sent(Left(rows[r][p], n), m) \in Nat
  <2>1. rows[r][p] \in Rows /\ queue[p] \in Nat
    BY <1>3 DEF TypeOK
  <2>2. \A n : Sent(rows[r][p], n) \in Nat /\ Left(rows[r][p], n) \in Rows
    BY <2>1, SentIsNatural, LeftIsRows
  <2>. QED  BY <2>1, <2>2, SentIsNatural
<1>4. queue' \in [Provides -> Nat]
  <2>1. queue' = [p \in Provides |->
           IF p \in blocked[r]
           THEN LET once == Sent(rows[r][p], Room(p))
                IN IF p \in twice
                   THEN queue[p] + once + Sent(Left(rows[r][p], Room(p)), Room(p) - once)
                   ELSE queue[p] + once
           ELSE queue[p]]
    BY DEF DropSenders
  <2>. QED  BY <1>3, <2>1
<1>. QED  BY <1>2, <1>4

\* The steps that only move a request on.
Moves(r) ==
  \/ UrlFails(r) \/ BodyFails(r) \/ Request(r) \/ TimesOut(r) \/ HeadFails(r) \/ Answered(r)
  \/ Spawn(r) \/ BodyBreaks(r) \/ BodyArrives(r) \/ RulesDone(r)
  \/ Reported(r) \/ Joined(r) \/ Done(r) \/ Logged(r)

LEMMA StagesListed ==
  {"idle", "build", "wait", "body", "rules", "join", "report", "last", "done", "failed"} \subseteq Stages
BY DEF Stages

LEMMA MovesTypeOK ==
  ASSUME TypeOK, NEW r \in Requests, Moves(r)
  PROVE  TypeOK'
<1>. USE StagesListed
<1>1. CASE UrlFails(r)
  BY <1>1, GotoType DEF UrlFails, TypeOK, sending, target
<1>2. CASE BodyFails(r)
  BY <1>2, GotoType DEF BodyFails, TypeOK, sending, target
<1>3. CASE Request(r)
  BY <1>3, GotoType DEF Request, TypeOK, sending, target
<1>4. CASE TimesOut(r)
  BY <1>4, GotoType, TellType DEF TimesOut, Recover, TypeOK, sending, target
<1>5. CASE HeadFails(r)
  BY <1>5, GotoType, TellType DEF HeadFails, Recover, TypeOK, sending, target
<1>6. CASE Answered(r)
  BY <1>6, GotoType DEF Answered, TypeOK, sending, target
<1>7. CASE Spawn(r)
  BY <1>7, GotoType DEF Spawn, TypeOK, sending, target
<1>8. CASE BodyBreaks(r)
  BY <1>8, GotoType, TellType, RequestAssumption DEF BodyBreaks, LogError, TypeOK, sending, target
<1>9. CASE BodyArrives(r)
  BY <1>9, GotoType, TellType, RequestAssumption DEF BodyArrives, LogError, TypeOK, sending, target
<1>10. CASE RulesDone(r)
  BY <1>10, GotoType, TellType DEF RulesDone, TypeOK, sending, target
<1>11. CASE Reported(r)
  BY <1>11, GotoType DEF Reported, TypeOK, sending, target
<1>12. CASE Joined(r)
  BY <1>12, GotoType DEF Joined, TypeOK, sending, target
<1>13. CASE Done(r)
  BY <1>13, GotoType DEF Done, TypeOK, sending, target
<1>14. CASE Logged(r)
  BY <1>14 DEF Logged, TypeOK, sending, target
<1>. QED  BY <1>1, <1>2, <1>3, <1>4, <1>5, <1>6, <1>7, <1>8, <1>9, <1>10, <1>11, <1>12,
             <1>13, <1>14 DEF Moves

LEMMA RuleType ==
  ASSUME TypeOK, NEW r \in Requests, rule[r] \in Provides, NextRule(r)
  PROVE  rule' \in [Requests -> 1 .. Rules + 1]
BY RequestAssumption DEF TypeOK, NextRule, Provides

LEMMA RulesTypeOK ==
  ASSUME TypeOK, NEW r \in Requests,
         \/ Skip(r) \/ RuleFails(r)
         \/ \E rs \in RowSets : Block(r, rs) \/ SendNow(r, rs)
  PROVE  TypeOK'
<1>1. CASE Skip(r)
  BY <1>1, RuleType DEF Skip, TypeOK, sending, target
<1>2. CASE RuleFails(r)
  BY <1>2, RuleType, TellType, RequestAssumption DEF RuleFails, LogError, TypeOK, sending, target
<1>3. ASSUME NEW rs \in RowSets, Block(r, rs) PROVE TypeOK'
  <2>1. rs \in Rows
    BY RequestAssumption
  <2>2. rule' \in [Requests -> 1 .. Rules + 1]
    BY <1>3, RuleType DEF Block
  <2>3. rows' \in [Requests -> [Provides -> Rows]] /\ blocked' \in [Requests -> SUBSET Provides]
    BY <1>3, <2>1 DEF Block, TypeOK, sending, target
  <2>. QED  BY <1>3, <2>2, <2>3 DEF Block, TypeOK, sending, target
<1>4. ASSUME NEW rs \in RowSets, SendNow(r, rs) PROVE TypeOK'
  <2>1. rs \in Rows
    BY RequestAssumption
  <2>2. rule' \in [Requests -> 1 .. Rules + 1]
    BY <1>4, RuleType DEF SendNow
  <2>3. queue' \in [Provides -> Nat]
    <3>. DEFINE n == IF Send[rule[r]] = "force" THEN Len(rs) ELSE Room(rule[r])
    <3>1. queue' = [queue EXCEPT ![rule[r]] = @ + Sent(rs, n)]
      BY <1>4 DEF SendNow
    <3>2. Sent(rs, n) \in Nat
      BY <2>1, SentIsNatural
    <3>. HIDE DEF n
    <3>3. rule[r] \in Provides /\ queue[rule[r]] \in Nat
      BY <1>4 DEF SendNow, TypeOK
    <3>4. queue[rule[r]] + Sent(rs, n) \in Nat
      BY <3>2, <3>3
    <3>. QED  BY <3>1, <3>3, <3>4 DEF TypeOK
  <2>4. /\ stats' \in [Requests -> [responses : Nat, calls : Nat]]
        /\ logging' \in [Requests -> BOOLEAN]
    <3>1. (Tell(r, 0, 0) /\ LogError(r)) \/ UNCHANGED <<stats, logging>>
      BY <1>4 DEF SendNow
    <3>. QED  BY <3>1, TellType, RequestAssumption DEF LogError, TypeOK
  <2>. QED  BY <1>4, <2>2, <2>3, <2>4 DEF SendNow, TypeOK, sending
<1>. QED  BY <1>1, <1>2, <1>3, <1>4

LEMMA JoinTypeOK ==
  ASSUME TypeOK, NEW r \in Requests,
         \/ LogFails(r)
         \/ \E v \in Values : Return(r, v)
         \/ \E p \in Provides : SendBlocked(r, p) \/ SelectBlocked(r, p)
  PROVE  TypeOK'
<1>1. CASE LogFails(r)
  <2>1. DropSenders(r, {}) /\ Tell(r, 0, 0) /\ Goto(r, "report")
    BY <1>1 DEF LogFails, Recover
  <2>. QED  BY <1>1, <2>1, DropType, TellType, GotoType, StagesListed DEF LogFails, TypeOK, sending, target
<1>2. ASSUME NEW v \in Values, Return(r, v) PROVE TypeOK'
  BY <1>2 DEF Return, TypeOK, sending, target
<1>3. ASSUME NEW p \in Provides, SendBlocked(r, p) PROVE TypeOK'
  <2>1. rows[r][p] \in Rows /\ rows[r][p] # <<>>
    BY <1>3 DEF SendBlocked, TypeOK, sending, target
  <2>2. Tail(rows[r][p]) \in Rows
    BY <2>1 DEF Rows
  <2>3. rows' \in [Requests -> [Provides -> Rows]]
    BY <1>3, <2>2 DEF SendBlocked, TypeOK, sending, target
  <2>4. queue' \in [Provides -> Nat]
    BY <1>3 DEF SendBlocked, TypeOK, sending, target
  <2>. QED  BY <1>3, <2>3, <2>4 DEF SendBlocked, TypeOK, sending, target
<1>4. ASSUME NEW p \in Provides, SelectBlocked(r, p) PROVE TypeOK'
  BY <1>4, DropType DEF SelectBlocked, TypeOK, sending, target
<1>. QED  BY <1>1, <1>2, <1>3, <1>4

LEMMA NextTypeOK == TypeOK /\ [Next]_vars => TypeOK'
<1>. SUFFICES ASSUME TypeOK, [Next]_vars PROVE TypeOK'
  OBVIOUS
<1>1. ASSUME NEW v \in Values, Prime(v) \/ Zip(v) PROVE TypeOK'
  BY <1>1 DEF Prime, Zip, TypeOK, sending, target
<1>2. CASE EndpointFails \/ EndpointEnds
  BY <1>2 DEF EndpointFails, EndpointEnds, TypeOK, sending, target
<1>3. ASSUME NEW r \in Requests, RequestStep(r) PROVE TypeOK'
  BY <1>3, MovesTypeOK, RulesTypeOK, JoinTypeOK
     DEF RequestStep, Outcome, Evaluate, Finish, Moves
<1>4. CASE Close
  BY <1>4 DEF Close, TypeOK, sending
<1>5. ASSUME NEW p \in Provides, Consume(p) PROVE TypeOK'
  BY <1>5 DEF Consume, TypeOK, sending
<1>6. CASE UNCHANGED vars
  BY <1>6 DEF vars, sending, target, TypeOK
<1>. QED  BY <1>1, <1>2, <1>3, <1>4, <1>5, <1>6 DEF Next

\* Every variable of Request keeps its type.
THEOREM RequestTypeCorrect == Spec => []TypeOK
<1>. QED  BY InitTypeOK, NextTypeOK, PTL DEF Spec

-----------------------------------------------------------------------------
(***************************************************************************)
(* Values.  A value leaves a request before the request ends, and a        *)
(* request that has failed stays failed.                                   *)
(***************************************************************************)
LEMMA GotoKeeps ==
  ASSUME TypeOK, NEW r \in Requests, NEW s, Goto(r, s)
  PROVE  /\ stage'[r] = s
         /\ \A q \in Requests : q # r => stage'[q] = stage[q]
BY DEF TypeOK, Goto

\* A step that leaves the values alone and moves on a request that is not at
\* its end and goes to a stage that is not.
LEMMA ValuesStay ==
  ASSUME TypeOK, ValuesComeBack, UNCHANGED <<at, over>>, NEW r \in Requests,
         stage[r] # "failed",
         \A q \in Requests : q # r => stage'[q] = stage[q],
         stage'[r] \in {"idle", "done", "failed"} => Held(r) = {}
  PROVE  ValuesComeBack'
<1>1. ASSUME NEW v \in Values, at[v] \in Requests PROVE at[v] \in Active'
  BY <1>1 DEF ValuesComeBack, Active, Held
<1>2. \A q \in Requests : stage[q] = "failed" => stage'[q] = "failed"
  OBVIOUS
<1>. QED  BY <1>1, <1>2 DEF ValuesComeBack

LEMMA MovesValues ==
  ASSUME TypeOK, ValuesComeBack, NEW r \in Requests, Moves(r)
  PROVE  ValuesComeBack'
<1>1. CASE UrlFails(r)
  <2>1. /\ UNCHANGED over /\ stage'[r] = "failed" /\ stage[r] = "build"
        /\ \A q \in Requests : q # r => stage'[q] = stage[q]
    BY <1>1, GotoKeeps DEF UrlFails
  <2>2. \A v \in Values : at'[v] = IF at[v] = r THEN "lost" ELSE at[v]
    BY <1>1 DEF UrlFails
  <2>3. "lost" \notin Requests
    BY RequestAssumption
  <2>. QED  BY <2>1, <2>2, <2>3 DEF ValuesComeBack, Active
<1>2. CASE Spawn(r)
  <2>1. /\ UNCHANGED over /\ stage'[r] = "build" /\ stage[r] = "idle"
        /\ \A q \in Requests : q # r => stage'[q] = stage[q]
    BY <1>2, GotoKeeps DEF Spawn
  <2>2. \A v \in Values : at'[v] = IF v \in Zipped THEN r ELSE at[v]
    BY <1>2 DEF Spawn
  <2>3. r # "lost" /\ r # "refused"
    BY RequestAssumption
  <2>. QED  BY <2>1, <2>2, <2>3 DEF ValuesComeBack, Active
<1>3. CASE Done(r)
  BY <1>3, GotoKeeps, ValuesStay DEF Done
<1>4. ASSUME \/ BodyFails(r) \/ Request(r) \/ TimesOut(r) \/ HeadFails(r) \/ Answered(r)
             \/ BodyBreaks(r) \/ BodyArrives(r) \/ RulesDone(r) \/ Reported(r) \/ Joined(r)
      PROVE  ValuesComeBack'
  <2>1. PICK s \in {"last", "wait", "report", "body", "join", "rules"} : Goto(r, s)
    BY <1>4 DEF BodyFails, Request, TimesOut, HeadFails, Recover, Answered, BodyBreaks, BodyArrives,
                RulesDone, Reported, Joined
  <2>2. UNCHANGED <<at, over>> /\ stage[r] # "failed"
    BY <1>4 DEF BodyFails, Request, TimesOut, HeadFails, Answered, BodyBreaks, BodyArrives,
                RulesDone, Reported, Joined
  <2>. QED  BY <2>1, <2>2, GotoKeeps, ValuesStay
<1>5. CASE Logged(r)
  BY <1>5, ValuesStay DEF Logged
<1>. QED  BY <1>1, <1>2, <1>3, <1>4, <1>5 DEF Moves

LEMMA ReturnValues ==
  ASSUME TypeOK, ValuesComeBack, NEW r \in Requests, NEW v \in Values, Return(r, v)
  PROVE  ValuesComeBack'
<1>1. UNCHANGED <<over, stage>>
  BY DEF Return
<1>2. \/ at' = [at EXCEPT ![v] = "home"]
      \/ at' = [at EXCEPT ![v] = "refused"] /\ AutoReturn[Source[v]] = "if_not_full"
  BY RequestAssumption DEF Return, Options
<1>3. "home" \notin Requests /\ "refused" \notin Requests
  BY RequestAssumption
<1>. QED  BY <1>1, <1>2, <1>3 DEF ValuesComeBack, Active, TypeOK

LEMMA NextValues == TypeOK /\ ValuesComeBack /\ [Next]_vars => ValuesComeBack'
<1>. SUFFICES ASSUME TypeOK, ValuesComeBack, [Next]_vars PROVE ValuesComeBack'
  OBVIOUS
<1>0. {"home", "zipped", "lost"} \cap Requests = {}
  BY RequestAssumption
<1>1. ASSUME NEW v \in Values, Prime(v) \/ Zip(v) PROVE ValuesComeBack'
  BY <1>0, <1>1 DEF Prime, Zip, ValuesComeBack, Active, TypeOK
<1>2. CASE EndpointFails \/ EndpointEnds
  BY <1>0, <1>2 DEF EndpointFails, EndpointEnds, ValuesComeBack, Active, TypeOK
<1>3. ASSUME NEW r \in Requests, RequestStep(r) PROVE ValuesComeBack'
  <2>1. CASE Moves(r)
    BY <2>1, MovesValues
  <2>2. CASE \E v \in Values : Return(r, v)
    BY <2>2, ReturnValues
  <2>3. CASE LogFails(r)
    <3>1. UNCHANGED <<at, over>> /\ stage[r] = "join" /\ Goto(r, "report")
      BY <2>3 DEF LogFails, Recover
    <3>. QED  BY <3>1, GotoKeeps, ValuesStay
  <2>4. ASSUME \/ Skip(r) \/ RuleFails(r)
               \/ \E rs \in RowSets : Block(r, rs) \/ SendNow(r, rs)
               \/ \E p \in Provides : SendBlocked(r, p) \/ SelectBlocked(r, p)
        PROVE  ValuesComeBack'
    <3>1. UNCHANGED <<at, over, stage>>
      BY <2>4 DEF Skip, RuleFails, Block, SendNow, SendBlocked, SelectBlocked
    <3>. QED  BY <3>1 DEF ValuesComeBack, Active
  <2>. QED  BY <1>3, <2>1, <2>2, <2>3, <2>4 DEF RequestStep, Outcome, Evaluate, Finish, Moves
<1>4. ASSUME Close \/ (\E p \in Provides : Consume(p)) \/ UNCHANGED vars PROVE ValuesComeBack'
  BY <1>4 DEF Close, Consume, vars, ValuesComeBack, Active
<1>. QED  BY <1>1, <1>2, <1>3, <1>4 DEF Next

\* However requests end, none keeps a value, none is lost while the endpoint
\* goes on, and only if_not_full gives one up.
THEOREM ValuesAlwaysComeBack == Spec => []ValuesComeBack
<1>1. Init => ValuesComeBack
  BY RequestAssumption DEF Init, ValuesComeBack
<1>. QED  BY <1>1, InitTypeOK, NextTypeOK, NextValues, PTL DEF Spec

-----------------------------------------------------------------------------
(***************************************************************************)
(* What zip_all has in hand: one of each, and nothing is lost before the   *)
(* endpoint ends.                                                          *)
(***************************************************************************)
ZipsOneOfEach == \A v, w \in Zipped : Source[v] = Source[w] => v = w

ZipInv == TypeOK /\ ValuesComeBack /\ ZipsOneOfEach /\ KeepsOneOfEach

\* A step that takes nothing, loses nothing and mends no failure.
LEMMA NothingTaken ==
  ASSUME ZipInv,
         \A v \in Values : at'[v] = at[v] \/ at'[v] \notin {"zipped", "lost"},
         \A q \in Requests : stage[q] = "failed" => stage'[q] = "failed"
  PROVE  (ZipsOneOfEach /\ KeepsOneOfEach)'
BY DEF ZipInv, ZipsOneOfEach, KeepsOneOfEach, Zipped

LEMMA NextZip == ZipInv /\ [Next]_vars => ZipInv'
<1>. SUFFICES ASSUME ZipInv, [Next]_vars PROVE (ZipsOneOfEach /\ KeepsOneOfEach)'
  BY NextTypeOK, NextValues DEF ZipInv
<1>0. TypeOK /\ ValuesComeBack /\ {"home", "refused", "zipped", "lost"} \cap Requests = {}
  BY RequestAssumption DEF ZipInv
<1>1. ASSUME NEW v \in Values, Prime(v) PROVE (ZipsOneOfEach /\ KeepsOneOfEach)'
  BY <1>0, <1>1, NothingTaken DEF Prime, TypeOK
<1>2. ASSUME NEW v \in Values, Zip(v) PROVE (ZipsOneOfEach /\ KeepsOneOfEach)'
  BY <1>0, <1>2 DEF Zip, ZipInv, ZipsOneOfEach, KeepsOneOfEach, Zipped, TypeOK
<1>3. CASE EndpointFails
  <2>1. PICK q \in Requests : stage'[q] = "failed"
    BY <1>3 DEF EndpointFails
  <2>2. \A v \in Values : at'[v] # "zipped"
    BY <1>3 DEF EndpointFails
  <2>. QED  BY <2>1, <2>2 DEF ZipsOneOfEach, KeepsOneOfEach, Zipped
<1>4. CASE EndpointEnds
  <2>1. ~over /\ UNCHANGED stage /\ \A v \in Values : at'[v] = IF at[v] = "zipped" THEN "lost" ELSE at[v]
    BY <1>4 DEF EndpointEnds, MayPull
  <2>2. (\A q \in Requests : stage[q] # "failed") => \A v \in Values : at[v] # "lost"
    BY <1>0, <2>1 DEF ValuesComeBack
  <2>. QED  BY <2>1, <2>2 DEF ZipInv, ZipsOneOfEach, KeepsOneOfEach, Zipped
<1>5. ASSUME NEW r \in Requests, RequestStep(r) PROVE (ZipsOneOfEach /\ KeepsOneOfEach)'
  <2>1. CASE UrlFails(r)
    <3>1. stage'[r] = "failed"
      BY <1>0, <2>1, GotoKeeps DEF UrlFails
    <3>2. \A v \in Values : at'[v] = IF at[v] = r THEN "lost" ELSE at[v]
      BY <2>1 DEF UrlFails
    <3>. QED  BY <3>1, <3>2 DEF ZipInv, ZipsOneOfEach, KeepsOneOfEach, Zipped
  <2>2. CASE Spawn(r)
    <3>1. stage'[r] = "build" /\ stage[r] = "idle" /\ \A q \in Requests : q # r => stage'[q] = stage[q]
      BY <1>0, <2>2, GotoKeeps DEF Spawn
    <3>2. \A v \in Values : at'[v] = r \/ at'[v] = at[v]
      BY <2>2 DEF Spawn
    <3>. QED  BY <1>0, <3>1, <3>2, NothingTaken
  <2>3. CASE \E v \in Values : Return(r, v)
    <3>1. PICK v \in Values : Return(r, v)
      BY <2>3
    <3>2. UNCHANGED stage /\ (at' = [at EXCEPT ![v] = "home"] \/ at' = [at EXCEPT ![v] = "refused"])
      BY <3>1 DEF Return
    <3>. QED  BY <1>0, <3>2, NothingTaken DEF TypeOK
  <2>4. CASE Moves(r) /\ ~UrlFails(r) /\ ~Spawn(r)
    <3>1. UNCHANGED at /\ stage[r] # "failed"
             /\ \/ UNCHANGED stage
                \/ \E s : Goto(r, s)
      BY <2>4 DEF Moves, BodyFails, Request, TimesOut, HeadFails, Recover, Answered, BodyBreaks,
                  BodyArrives, RulesDone, Reported, Joined, Done, Logged
    <3>. QED  BY <1>0, <3>1, GotoKeeps, NothingTaken
  <2>5. CASE LogFails(r)
    <3>1. UNCHANGED at /\ stage[r] = "join" /\ Goto(r, "report")
      BY <2>5 DEF LogFails, Recover
    <3>. QED  BY <1>0, <3>1, GotoKeeps, NothingTaken
  <2>6. ASSUME \/ Skip(r) \/ RuleFails(r)
               \/ \E rs \in RowSets : Block(r, rs) \/ SendNow(r, rs)
               \/ \E p \in Provides : SendBlocked(r, p) \/ SelectBlocked(r, p)
        PROVE  (ZipsOneOfEach /\ KeepsOneOfEach)'
    <3>1. UNCHANGED at /\ UNCHANGED stage
      BY <2>6 DEF Skip, RuleFails, Block, SendNow, SendBlocked, SelectBlocked
    <3>. QED  BY <3>1, NothingTaken
  <2>. QED  BY <1>5, <2>1, <2>2, <2>3, <2>4, <2>5, <2>6
            DEF RequestStep, Outcome, Evaluate, Finish, Moves
<1>6. ASSUME Close \/ (\E p \in Provides : Consume(p)) \/ UNCHANGED vars
      PROVE  (ZipsOneOfEach /\ KeepsOneOfEach)'
  <2>1. UNCHANGED at /\ UNCHANGED stage
    BY <1>6 DEF Close, Consume, vars
  <2>. QED  BY <2>1, NothingTaken
<1>. QED  BY <1>1, <1>2, <1>3, <1>4, <1>5, <1>6 DEF Next

\* An endpoint that ends keeps at most one value of each provider.
THEOREM EndpointKeepsOneOfEach == Spec => []KeepsOneOfEach
<1>1. Init => ZipInv
  <2>1. Init => ValuesComeBack /\ Zipped = {} /\ \A v \in Values : at[v] # "lost"
    BY RequestAssumption DEF Init, ValuesComeBack, Zipped
  <2>. QED  BY <2>1, InitTypeOK DEF ZipInv, ZipsOneOfEach, KeepsOneOfEach
<1>2. ZipInv => KeepsOneOfEach
  BY DEF ZipInv
<1>. QED  BY <1>1, <1>2, NextZip, PTL DEF Spec

\* Both, as the run checks them: whatever goes wrong, the values of an endpoint
\* go back, but for the one of each provider that was being zipped at its end.
THEOREM ValuesAreKept == Spec => []ValuesKept
<1>1. ValuesComeBack /\ KeepsOneOfEach <=> ValuesKept
  BY DEF ValuesKept
<1>. QED  BY <1>1, ValuesAlwaysComeBack, EndpointKeepsOneOfEach, PTL


-----------------------------------------------------------------------------
(***************************************************************************)
(* Calls.  Nothing is told before a request is answered or given up.       *)
(***************************************************************************)
Untold == {"idle", "build", "wait", "body", "rules"}

NotYetTold ==
  \A r \in Requests : stage[r] \in Untold => stats[r].responses = 0 /\ stats[r].calls = 0

CallInv == TypeOK /\ OneCall /\ NotYetTold

LEMMA TellIs ==
  ASSUME TypeOK, NEW r \in Requests, NEW i \in Nat, NEW j \in Nat, Tell(r, i, j)
  PROVE  /\ stats'[r].responses = stats[r].responses + i
         /\ stats'[r].calls = stats[r].calls + j
         /\ \A q \in Requests : q # r => stats'[q] = stats[q]
BY DEF TypeOK, Tell

\* Enough for one request: it tells nothing and does not go back, ...
LEMMA SilentStep ==
  ASSUME CallInv, UNCHANGED stats, NEW r \in Requests,
         \A q \in Requests : q # r => stage'[q] = stage[q],
         stage'[r] \in Untold => stage[r] \in Untold
  PROVE  (OneCall /\ NotYetTold)'
BY DEF CallInv, OneCall, NotYetTold

\* ... or it tells an error without a time, ...
LEMMA UntimedStep ==
  ASSUME CallInv, NEW r \in Requests, Tell(r, 0, 0),
         \A q \in Requests : q # r => stage'[q] = stage[q],
         stage'[r] \in Untold => stage[r] \in Untold
  PROVE  (OneCall /\ NotYetTold)'
<1>1. \A q \in Requests : /\ stats'[q].responses = stats[q].responses
                          /\ stats'[q].calls = stats[q].calls
  <2>1. stats[r].responses \in Nat /\ stats[r].calls \in Nat
    BY DEF CallInv, TypeOK
  <2>. QED  BY <2>1, TellIs DEF CallInv
<1>. QED  BY <1>1 DEF CallInv, OneCall, NotYetTold

\* ... or it has told nothing so far.
LEMMA FirstCall ==
  ASSUME CallInv, NEW r \in Requests, NEW i \in {0, 1}, Tell(r, i, 1),
         \A q \in Requests : q # r => stage'[q] = stage[q],
         stage[r] \in Untold, stage'[r] \notin Untold
  PROVE  (OneCall /\ NotYetTold)'
<1>1. stats[r].responses = 0 /\ stats[r].calls = 0
  BY DEF CallInv, NotYetTold
<1>2. stats'[r].responses = i /\ stats'[r].calls = 1 /\ \A q \in Requests : q # r => stats'[q] = stats[q]
  BY <1>1, TellIs DEF CallInv
<1>. QED  BY <1>2 DEF CallInv, OneCall, NotYetTold

LEMMA NextCalls == CallInv /\ [Next]_vars => CallInv'
<1>. SUFFICES ASSUME CallInv, [Next]_vars PROVE (OneCall /\ NotYetTold)'
  BY NextTypeOK DEF CallInv
<1>0. TypeOK
  BY DEF CallInv
<1>1. ASSUME \/ EndpointFails \/ EndpointEnds \/ Close \/ UNCHANGED vars
             \/ \E v \in Values : Prime(v) \/ Zip(v)
             \/ \E p \in Provides : Consume(p)
      PROVE  (OneCall /\ NotYetTold)'
  <2>1. UNCHANGED stats /\ UNCHANGED stage
    BY <1>1 DEF EndpointFails, EndpointEnds, Close, vars, Prime, Zip, Consume
  <2>. QED  BY <2>1 DEF CallInv, OneCall, NotYetTold
<1>2. ASSUME NEW r \in Requests, RequestStep(r) PROVE (OneCall /\ NotYetTold)'
  <2>1. ASSUME \/ Spawn(r) \/ UrlFails(r) \/ BodyFails(r) \/ Request(r) \/ Answered(r)
               \/ Reported(r) \/ Joined(r) \/ Done(r)
        PROVE  (OneCall /\ NotYetTold)'
    <3>1. PICK s : Goto(r, s) /\ UNCHANGED stats /\ (s \in Untold => stage[r] \in Untold)
      BY <2>1 DEF Spawn, UrlFails, BodyFails, Request, Answered, Reported, Joined, Done, Untold
    <3>. QED  BY <1>0, <3>1, GotoKeeps, SilentStep
  <2>2. ASSUME \/ Skip(r) \/ Logged(r)
               \/ \E rs \in RowSets : Block(r, rs)
               \/ \E v \in Values : Return(r, v)
               \/ \E p \in Provides : SendBlocked(r, p) \/ SelectBlocked(r, p)
        PROVE  (OneCall /\ NotYetTold)'
    <3>1. UNCHANGED stats /\ UNCHANGED stage
      BY <2>2 DEF Skip, Logged, Block, Return, SendBlocked, SelectBlocked
    <3>. QED  BY <3>1, SilentStep
  <2>3. CASE RuleFails(r)
    BY <2>3, UntimedStep DEF RuleFails
  <2>4. ASSUME NEW rs \in RowSets, SendNow(r, rs) PROVE (OneCall /\ NotYetTold)'
    <3>1. Tell(r, 0, 0) \/ UNCHANGED stats
      BY <2>4 DEF SendNow
    <3>2. UNCHANGED stage
      BY <2>4 DEF SendNow
    <3>. QED  BY <3>1, <3>2, UntimedStep, SilentStep
  <2>5. CASE BodyArrives(r)
    <3>1. Goto(r, "rules") /\ stage[r] = "body" /\ (Tell(r, 0, 0) \/ UNCHANGED stats)
      BY <2>5 DEF BodyArrives
    <3>2. stage[r] \in Untold
      BY <3>1 DEF Untold
    <3>. QED  BY <1>0, <3>1, <3>2, GotoKeeps, UntimedStep, SilentStep
  <2>6. CASE HeadFails(r)
    <3>1. Goto(r, "report") /\ Tell(r, 0, 0) /\ "report" \notin Untold
      BY <2>6 DEF HeadFails, Recover, Untold
    <3>. QED  BY <1>0, <3>1, GotoKeeps, UntimedStep
  <2>7. CASE LogFails(r)
    <3>1. Goto(r, "report") /\ Tell(r, 0, 0) /\ "report" \notin Untold
      BY <2>7 DEF LogFails, Recover, Untold
    <3>. QED  BY <1>0, <3>1, GotoKeeps, UntimedStep
  <2>8. ASSUME TimesOut(r) \/ BodyBreaks(r) \/ RulesDone(r) PROVE (OneCall /\ NotYetTold)'
    <3>1. PICK i \in {0, 1}, s \in {"report", "join"} : Tell(r, i, 1) /\ Goto(r, s) /\ stage[r] \in Untold
      BY <2>8 DEF TimesOut, Recover, BodyBreaks, RulesDone, Untold
    <3>2. s \notin Untold
      BY DEF Untold
    <3>. QED  BY <1>0, <3>1, <3>2, GotoKeeps, FirstCall
  <2>. QED  BY <1>2, <2>1, <2>2, <2>3, <2>4, <2>5, <2>6, <2>7, <2>8
            DEF RequestStep, Outcome, Evaluate, Finish
<1>. QED  BY <1>1, <1>2 DEF Next

\* A request is counted as a call at most once, and a response is a call.
THEOREM CalledOnce == Spec => []OneCall
<1>1. Init => CallInv
  BY InitTypeOK DEF Init, CallInv, OneCall, NotYetTold
<1>2. CallInv => OneCall
  BY DEF CallInv
<1>. QED  BY <1>1, <1>2, NextCalls, PTL DEF Spec
=============================================================================
