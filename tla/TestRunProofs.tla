--------------------------- MODULE TestRunProofs ---------------------------
(* What the run of TestRun checks for a few incidents, for any number.      *)
EXTENDS TestRun, TLAPS

\* Every message is sent by Send, and every other step leaves the broadcast
\* alone or receives.
LEMMA SendType ==
  ASSUME TypeOK, NEW m \in Ends \cup {"update"}, Send(m)
  PROVE  /\ last' \in Ends \cup {"none", "update"} /\ first' \in Ends \cup {"none"}
         /\ unseen' \in [Tasks -> 0 .. 2] /\ unheard' \in [Runs -> 0 .. 2]
BY DEF TypeOK, Send, OneMore

LEMMA ReceiveType ==
  ASSUME TypeOK, NEW t \in Tasks, Receive(t)
  PROVE  /\ last' \in Ends \cup {"none", "update"} /\ first' \in Ends \cup {"none"}
         /\ unseen' \in [Tasks -> 0 .. 2] /\ unheard' \in [Runs -> 0 .. 2]
BY DEF TypeOK, Receive

LEMMA FinallyType ==
  ASSUME TypeOK, NEW w \in Writers, NEW what \in {"summary", "reason"}, Finally(w, what)
  PROVE  final' \in [Writers -> {"none", "summary", "reason"}]
<1>1. final \in [Writers -> {"none", "summary", "reason"}]
  BY DEF TypeOK
<1>2. final' = final \/ final' = [final EXCEPT ![w] = what]
  BY DEF Finally
<1>. QED  BY <1>1, <1>2

LEMMA InitTypeOK == Init => TypeOK
<1>. SUFFICES ASSUME Init PROVE TypeOK
  OBVIOUS
<1>1. 0 \in 0 .. Budget /\ 0 \in 0 .. 2
  BY TestRunAssumption
<1>2. writer \in [Writers -> {"open", "done", "failed"}]
  BY DEF Init
<1>3. unseen \in [Tasks -> 0 .. 2] /\ unheard \in [Runs -> 0 .. 2]
  BY <1>1 DEF Init
<1>. QED  BY <1>1, <1>2, <1>3 DEF Init, TypeOK, SetUp

LEMMA SetUpTypeOK ==
  ASSUME TypeOK, SetUpCtrlC \/ SetUpStats \/ SetUpWatcher \/ SetUpRun \/ SetupFails
  PROVE  TypeOK'
<1>1. CASE SetUpCtrlC \/ SetUpStats \/ SetUpWatcher
  BY <1>1 DEF SetUpCtrlC, SetUpStats, SetUpWatcher, TypeOK, SetUp, broadcast, output, user
<1>2. CASE SetUpRun
  BY <1>2, TestRunAssumption DEF SetUpRun, TypeOK, Runs, broadcast, output, user
<1>3. CASE SetupFails
  <2>1. Send("completed")
    BY <1>3 DEF SetupFails
  <2>. QED  BY <1>3, <2>1, SendType DEF SetupFails, TypeOK, output, user, Ends
<1>. QED  BY <1>1, <1>2, <1>3

LEMMA MainTypeOK ==
  ASSUME TypeOK, MainUpdated \/ MainEnds \/ Tell \/ AwaitStderr \/ AwaitStdout
  PROVE  TypeOK'
<1>1. CASE MainUpdated
  BY <1>1, ReceiveType DEF MainUpdated, TypeOK, Tasks, output, user
<1>2. CASE MainEnds
  <2>1. "completed" \in Ends /\ "main" \in Tasks
    BY DEF Ends, Tasks
  <2>2. Send("completed") \/ Receive("main")
    BY <1>2 DEF MainEnds
  <2>3. /\ last' \in Ends \cup {"none", "update"} /\ first' \in Ends \cup {"none"}
        /\ unseen' \in [Tasks -> 0 .. 2] /\ unheard' \in [Runs -> 0 .. 2]
    BY <2>1, <2>2, SendType, ReceiveType
  <2>4. result' \in Ends \cup {"none"}
    BY <1>2, <2>1 DEF MainEnds, Result, Updated, TypeOK
  <2>. QED  BY <1>2, <2>3, <2>4 DEF MainEnds, TypeOK, output, user
<1>3. CASE Tell
  <2>1. final' \in [Writers -> {"none", "summary", "reason"}]
    BY <1>3, FinallyType DEF Tell, Writers, TypeOK
  <2>. QED  BY <1>3, <2>1 DEF Tell, TypeOK, broadcast, user
<1>4. CASE AwaitStderr \/ AwaitStdout
  BY <1>4 DEF AwaitStderr, AwaitStdout, TypeOK, broadcast, output, user
<1>. QED  BY <1>1, <1>2, <1>3, <1>4

LEMMA TaskTypeOK ==
  ASSUME TypeOK, PassOnCtrlC \/ CtrlCEnds \/ StatsHearsUpdate \/ StatsEnds \/ WatcherStep
  PROVE  TypeOK'
<1>1. CASE PassOnCtrlC
  BY <1>1, SendType DEF PassOnCtrlC, TypeOK, Ends, output, user
<1>2. CASE CtrlCEnds \/ StatsHearsUpdate \/ WatcherHears
  <2>1. PICK t \in Tasks : Receive(t)
    BY <1>2 DEF CtrlCEnds, StatsHearsUpdate, WatcherHears, Tasks
  <2>. QED  BY <1>2, <2>1, ReceiveType DEF CtrlCEnds, StatsHearsUpdate, WatcherHears, TypeOK, output, user
<1>3. CASE StatsEnds
  <2>1. Receive("stats") /\ "stats" \in Tasks
    BY <1>3 DEF StatsEnds, Tasks
  <2>2. final' \in [Writers -> {"none", "summary", "reason"}]
    BY <1>3, FinallyType DEF StatsEnds, Console, Writers
  <2>. QED  BY <1>3, <2>1, <2>2, ReceiveType DEF StatsEnds, TypeOK, user
<1>4. CASE Reload
  <2>1. /\ edited' = FALSE /\ watcher' \in {"waits", "reloads"}
        /\ UNCHANGED <<kind, broadcast, main, result, ctrlC, stats, runs, output, pressed, spent>>
    BY <1>4 DEF Reload
  <2>2. edited' \in BOOLEAN /\ watcher' \in {"none", "waits", "reloads", "builds", "gone"}
    BY <2>1
  <2>3. UNCHANGED <<kind, last, first, unseen, unheard, main, result, ctrlC, stats, runs, writer, final, pressed, spent>>
    BY <2>1 DEF broadcast, output
  <2>. QED  BY <2>2, <2>3 DEF TypeOK
<1>5. CASE SendUpdate
  BY <1>5, SendType DEF SendUpdate, TypeOK, output, user
<1>6. CASE \E r \in Runs \ {1} : Build(r)
  BY <1>6 DEF Build, TypeOK, broadcast, output, user
<1>. QED  BY <1>1, <1>2, <1>3, <1>4, <1>5, <1>6 DEF WatcherStep

LEMMA RunTypeOK ==
  ASSUME TypeOK, NEW r \in Runs, RunStep(r)
  PROVE  TypeOK'
<1>1. ASSUME NEW m \in Ends, Stop(r, m) PROVE TypeOK'
  BY <1>1, SendType DEF Stop, TypeOK, output, user
<1>2. CASE EndpointsEnd(r) \/ TimesOut(r)
  BY <1>1, <1>2 DEF EndpointsEnd, TimesOut, Ends
<1>3. CASE Hears(r)
  BY <1>3 DEF Hears, TypeOK, output, user
<1>4. CASE EndpointWakes(r) \/ RequestsEnd(r)
  BY <1>4 DEF EndpointWakes, RequestsEnd, TypeOK, broadcast, output, user
<1>5. CASE Kill(r)
  <2>1. spent' \in 0 .. Budget
    BY <1>5, TestRunAssumption DEF Kill, Spend, TypeOK
  <2>. QED  BY <1>5, <2>1, SendType DEF Kill, TypeOK, Ends, output
<1>. QED  BY <1>2, <1>3, <1>4, <1>5 DEF RunStep

LEMMA WorldTypeOK ==
  ASSUME TypeOK, (\E w \in Writers : WriterDone(w) \/ WriteFails(w)) \/ FileFails \/ Press \/ Edit
  PROVE  TypeOK'
<1>0. Spend => spent' \in 0 .. Budget
  BY TestRunAssumption DEF Spend, TypeOK
<1>1. ASSUME NEW w \in Writers, WriterDone(w) PROVE TypeOK'
  BY <1>1 DEF WriterDone, TypeOK, broadcast, user
<1>2. ASSUME NEW w \in Writers, WriteFails(w) PROVE TypeOK'
  BY <1>0, <1>2, SendType DEF WriteFails, TypeOK, Ends
<1>3. CASE Press
  BY <1>3 DEF Press, TypeOK, broadcast, output
<1>4. CASE Edit
  BY <1>0, <1>4 DEF Edit, TypeOK, broadcast, output
<1>5. CASE FileFails
  BY <1>0, <1>5, SendType DEF FileFails, TypeOK, Ends, output
<1>. QED  BY <1>1, <1>2, <1>3, <1>4, <1>5

LEMMA NextTypeOK == TypeOK /\ [Next]_vars => TypeOK'
<1>. SUFFICES ASSUME TypeOK, [Next]_vars PROVE TypeOK'
  OBVIOUS
<1>1. CASE UNCHANGED vars
  BY <1>1 DEF vars, TypeOK, broadcast, output, user
<1>2. CASE Next
  BY <1>2, SetUpTypeOK, MainTypeOK, TaskTypeOK, RunTypeOK, WorldTypeOK DEF Next, MainStep
<1>. QED  BY <1>1, <1>2

\* Every variable of TestRun keeps its type.
THEOREM TestRunTypeCorrect == Spec => []TypeOK
<1>. QED  BY InitTypeOK, NextTypeOK, PTL DEF Spec

-----------------------------------------------------------------------------
(***************************************************************************)
(* The result.  While create_run waits, what it has not received is what   *)
(* was sent first, an update, or more than one message.                    *)
(***************************************************************************)
WaitInv ==
  main \in SetUp \cup {"waits"} =>
    /\ result = "none"
    /\ unseen["main"] = 0 => first = "none"
    /\ unseen["main"] = 1 => IF last = "update" THEN first = "none"
                              ELSE last = first /\ first # "none"

ReportInv == FirstEndReported /\ WaitInv

LEMMA InitReport == Init => ReportInv
BY DEF Init, ReportInv, FirstEndReported, WaitInv, Tasks

\* Whoever sends, what is first stays so.
LEMMA SendReports ==
  ASSUME TypeOK, ReportInv, NEW m \in Ends \cup {"update"}, Send(m), result' = result,
         main' = main \/ main' \notin SetUp \cup {"waits"}
  PROVE  ReportInv'
<1>1. FirstEndReported'
  <2>1. first' = first \/ (first = "none" /\ result \in {"none", "completed"})
    BY DEF Send, ReportInv, FirstEndReported
  <2>. QED  BY <2>1 DEF ReportInv, FirstEndReported
<1>2. ASSUME main' \in SetUp \cup {"waits"} PROVE WaitInv'
  <2>1. main' = main /\ result = "none"
    BY <1>2 DEF ReportInv, WaitInv
  <2>2. unseen["main"] \in 0 .. 2 /\ unseen'["main"] = OneMore(unseen["main"])
    BY <1>2, <2>1 DEF Send, Listens, Tasks, TypeOK
  <2>3. unseen["main"] # 0 => unseen'["main"] = 2
    BY <2>2 DEF OneMore
  <2>4. unseen["main"] = 0 => unseen'["main"] = 1 /\ first = "none"
    BY <1>2, <2>1, <2>2 DEF OneMore, ReportInv, WaitInv
  <2>5. last' = m /\ (first = "none" => first' = IF m = "update" THEN "none" ELSE m)
        /\ m # "none"
    BY DEF Send, Ends
  <2>. QED  BY <2>1, <2>2, <2>3, <2>4, <2>5 DEF WaitInv
<1>. QED  BY <1>1, <1>2 DEF ReportInv, WaitInv

LEMMA SameReport ==
  ASSUME TypeOK, ReportInv, UNCHANGED <<last, first, result>>, unseen'["main"] = unseen["main"],
         main' = main \/ main' \notin SetUp \cup {"waits"} \/ (main \in SetUp /\ main' \in SetUp \cup {"waits"})
  PROVE  ReportInv'
BY DEF ReportInv, FirstEndReported, WaitInv

LEMMA NextReport == TypeOK /\ ReportInv /\ [Next]_vars => ReportInv'
<1>. SUFFICES ASSUME TypeOK, ReportInv, [Next]_vars PROVE ReportInv'
  OBVIOUS
<1>1. CASE SetUpCtrlC \/ SetUpStats \/ SetUpWatcher \/ SetUpRun \/ Tell \/ AwaitStderr \/ AwaitStdout
  BY <1>1, SameReport
     DEF SetUpCtrlC, SetUpStats, SetUpWatcher, SetUpRun, Tell, AwaitStderr, AwaitStdout, SetUp, broadcast
<1>2. CASE MainUpdated
  <2>1. main = "waits" /\ unseen["main"] = 1 /\ last = "update" /\ unseen'["main"] = 0
        /\ UNCHANGED <<last, first, main, result>>
    BY <1>2 DEF MainUpdated, Updated, Receive, Tasks, TypeOK
  <2>. QED  BY <2>1 DEF ReportInv, FirstEndReported, WaitInv
<1>3. CASE MainEnds
  <2>1. main = "waits" /\ unseen["main"] \in 1 .. 2 /\ ~(unseen["main"] = 1 /\ last = "update")
    BY <1>3 DEF MainEnds, Updated, TypeOK, Tasks
  <2>2. result' \in {"completed", first} /\ main' \notin SetUp \cup {"waits"}
    BY <1>3, <2>1 DEF MainEnds, Result, ReportInv, WaitInv, SetUp
  <2>3. (result' = "completed" \/ first # "none") => first' = first \/ result' = "completed"
    BY <1>3 DEF MainEnds, Send, Receive
  <2>4. result' = "completed" \/ first # "none"
    BY <1>3, <2>1 DEF MainEnds, Result, ReportInv, WaitInv
  <2>. QED  BY <2>2, <2>3, <2>4 DEF ReportInv, FirstEndReported, WaitInv
<1>4. CASE SetupFails \/ FileFails
  BY <1>4, SendReports DEF SetupFails, FileFails, Ends, SetUp
<1>5. CASE PassOnCtrlC \/ SendUpdate
  BY <1>5, SendReports DEF PassOnCtrlC, SendUpdate, Ends
<1>6. CASE CtrlCEnds \/ StatsHearsUpdate \/ StatsEnds \/ WatcherHears
  <2>1. UNCHANGED <<last, first, main, result>> /\ \E t \in Tasks \ {"main"} : Receive(t)
    BY <1>6 DEF CtrlCEnds, StatsHearsUpdate, StatsEnds, WatcherHears, Receive, Tasks
  <2>2. unseen'["main"] = unseen["main"]
    BY <2>1 DEF Receive, TypeOK, Tasks
  <2>. QED  BY <2>1, <2>2, SameReport
<1>7. CASE Reload \/ \E r \in Runs \ {1} : Build(r)
  BY <1>7, SameReport DEF Reload, Build, broadcast
<1>8. ASSUME NEW r \in Runs, RunStep(r) PROVE ReportInv'
  <2>1. ASSUME NEW m \in Ends, Stop(r, m) PROVE ReportInv'
    BY <2>1, SendReports DEF Stop
  <2>2. CASE EndpointsEnd(r) \/ TimesOut(r)
    BY <2>1, <2>2 DEF EndpointsEnd, TimesOut, Ends
  <2>3. CASE Hears(r) \/ EndpointWakes(r) \/ RequestsEnd(r)
    BY <2>3, SameReport DEF Hears, EndpointWakes, RequestsEnd, broadcast
  <2>4. CASE Kill(r)
    BY <2>4, SendReports DEF Kill, Ends
  <2>. QED  BY <1>8, <2>2, <2>3, <2>4 DEF RunStep
<1>9. ASSUME NEW w \in Writers, WriterDone(w) \/ WriteFails(w) PROVE ReportInv'
  <2>1. CASE WriterDone(w)
    BY <2>1, SameReport DEF WriterDone, broadcast
  <2>2. CASE WriteFails(w)
    BY <2>2, SendReports DEF WriteFails, Ends
  <2>. QED  BY <1>9, <2>1, <2>2
<1>10. CASE Press \/ Edit \/ UNCHANGED vars
  BY <1>10, SameReport DEF Press, Edit, vars, broadcast
<1>. QED  BY <1>1, <1>2, <1>3, <1>4, <1>5, <1>6, <1>7, <1>8, <1>9, <1>10 DEF Next, MainStep, WatcherStep

\* However many ends the test has, what create_run reports is the first one
\* or, after it was overtaken, none of them.
THEOREM FirstEndIsReported == Spec => []FirstEndReported
<1>1. ReportInv => FirstEndReported
  BY DEF ReportInv
<1>. QED  BY <1>1, InitTypeOK, NextTypeOK, InitReport, NextReport, PTL DEF Spec

-----------------------------------------------------------------------------
(***************************************************************************)
(* The end.  Until the first end is sent there are only updates, no task   *)
(* that must tell them from an end has missed one, and a try run has none. *)
(***************************************************************************)
OnTime == ~SlowTasks

TryInv == kind # "run" => watcher = "none" /\ main \notin {"stats", "watch"} /\ last # "update"

Discerning == {"main", "stats", "watcher"}
OnlyUpdates ==
  /\ last \in {"none", "update"}
  /\ \A t \in Discerning : unseen[t] \in {0, 1} /\ (unseen[t] = 1 => last = "update")
  /\ watcher = "reloads" => unseen["watcher"] = 0
NobodyEnded == result = "none" /\ stats # "done" /\ watcher # "gone"

EndInv == TryInv /\ (first = "none" => OnlyUpdates /\ NobodyEnded)

LEMMA InitEnd == Init => EndInv
BY DEF Init, EndInv, TryInv, OnlyUpdates, NobodyEnded, Discerning, Tasks

\* An end that is sent is the first, or comes after it.
LEMMA SendsEnd ==
  ASSUME TypeOK, EndInv, NEW m \in Ends, Send(m), UNCHANGED kind,
         watcher' = watcher, main' = main \/ main' \notin {"stats", "watch"}
  PROVE  EndInv'
<1>1. first' # "none" /\ last' # "update"
  BY DEF Send, Ends
<1>. QED  BY <1>1 DEF EndInv, TryInv

\* A step that sends nothing.
LEMMA SendsNothing ==
  ASSUME TypeOK, EndInv, UNCHANGED <<kind, last, first>>,
         unseen' = unseen \/ \E t \in Tasks : Receive(t),
         TryInv', first = "none" => NobodyEnded',
         first = "none" /\ watcher' = "reloads" /\ watcher # "reloads" => unseen'["watcher"] = 0
  PROVE  EndInv'
<1>. SUFFICES ASSUME first = "none" PROVE OnlyUpdates'
  BY DEF EndInv
<1>1. \A t \in Tasks : unseen'[t] = unseen[t] \/ unseen'[t] = 0
  BY DEF Receive, TypeOK
<1>. QED  BY <1>1 DEF EndInv, OnlyUpdates, Discerning, Tasks

LEMMA MainEnd ==
  ASSUME TypeOK, EndInv, MainEnds
  PROVE  EndInv'
<1>1. first # "none"
  <2>. SUFFICES ASSUME first = "none" PROVE FALSE
    OBVIOUS
  <2>1. unseen["main"] \in {0, 1} /\ (unseen["main"] = 1 => last = "update")
    BY DEF EndInv, OnlyUpdates, Discerning
  <2>. QED  BY <2>1 DEF MainEnds, Updated
<1>2. CASE Send("completed") /\ main' = "failed"
  BY <1>2, SendsEnd DEF MainEnds, Ends
<1>3. CASE Receive("main") /\ main' = "tells"
  <2>1. TryInv' /\ first' # "none"
    BY <1>1, <1>3 DEF MainEnds, Receive, EndInv, TryInv
  <2>. QED  BY <2>1 DEF EndInv
<1>. QED  BY <1>2, <1>3 DEF MainEnds

\* The statistics and the watcher tell an update from an end, unless they lag.
LEMMA TasksEnd ==
  ASSUME TypeOK, EndInv, CtrlCEnds \/ StatsHearsUpdate \/ StatsEnds \/ WatcherHears
  PROVE  EndInv'
<1>1. UNCHANGED <<kind, main, last, first, result>> /\ (\E t \in Tasks : Receive(t))
  BY DEF CtrlCEnds, StatsHearsUpdate, StatsEnds, WatcherHears, Receive, Tasks
<1>2. (TryInv' /\ watcher' # "reloads") \/ watcher' = watcher
  BY DEF CtrlCEnds, StatsHearsUpdate, StatsEnds, WatcherHears, Receive, EndInv, TryInv
<1>3. TryInv'
  BY <1>1 DEF CtrlCEnds, StatsHearsUpdate, StatsEnds, WatcherHears, EndInv, TryInv
<1>4. ASSUME first = "none" PROVE NobodyEnded'
  <2>1. \A t \in Discerning : unseen[t] \in {0, 1} /\ (unseen[t] = 1 => last = "update" /\ kind = "run")
    BY <1>4 DEF EndInv, OnlyUpdates, TryInv
  <2>2. ~StatsEnds
    BY <2>1 DEF StatsEnds, StatsUpdated, Updated, Discerning
  <2>3. WatcherHears => watcher' = "waits"
    BY <2>1 DEF WatcherHears, Updated, Discerning
  <2>. QED
    BY <1>1, <1>4, <2>2, <2>3 DEF CtrlCEnds, StatsHearsUpdate, WatcherHears, EndInv, NobodyEnded
<1>. QED  BY <1>1, <1>2, <1>3, <1>4, SendsNothing

\* The second that is over before an update is sent has shown the last one to
\* everybody, the watcher included.
LEMMA WatcherEnd ==
  ASSUME OnTime, TypeOK, EndInv, Reload \/ SendUpdate \/ \E r \in Runs : Build(r)
  PROVE  EndInv'
<1>1. CASE Reload
  <2>1. first = "none" => unseen["watcher"] = 0
    BY <1>1 DEF OnTime, Reload, Updated, EndInv, OnlyUpdates, Discerning
  <2>2. TryInv' /\ (NobodyEnded => NobodyEnded')
    BY <1>1 DEF Reload, EndInv, TryInv, NobodyEnded, broadcast, output
  <2>. QED  BY <1>1, <2>1, <2>2, SendsNothing DEF Reload, EndInv, broadcast
<1>2. CASE SendUpdate
  <2>1. TryInv' /\ last' = "update" /\ first' = first /\ watcher' = "builds"
        /\ UNCHANGED <<result, stats>>
    BY <1>2 DEF SendUpdate, Send, EndInv, TryInv
  <2>2. ASSUME first = "none" PROVE \A t \in Discerning : unseen[t] = 0
    BY <1>2, <2>2 DEF OnTime, SendUpdate, EndInv, OnlyUpdates, Discerning
  <2>3. ASSUME first = "none", NEW t \in Discerning PROVE unseen'[t] \in {0, 1}
    <3>1. unseen'[t] = (IF Listens(t) THEN OneMore(unseen[t]) ELSE 0) /\ unseen[t] = 0
      BY <1>2, <2>2, <2>3 DEF SendUpdate, Send, Discerning, Tasks
    <3>. QED  BY <3>1 DEF OneMore
  <2>. QED  BY <2>1, <2>3 DEF EndInv, OnlyUpdates, NobodyEnded
<1>3. CASE \E r \in Runs : Build(r)
  <2>1. TryInv' /\ (NobodyEnded => NobodyEnded')
    BY <1>3 DEF Build, EndInv, TryInv, NobodyEnded, broadcast, output
  <2>. QED  BY <1>3, <2>1, SendsNothing DEF Build, EndInv, broadcast
<1>. QED  BY <1>1, <1>2, <1>3

LEMMA NextEnd == OnTime /\ TypeOK /\ EndInv /\ [Next]_vars => EndInv'
<1>. SUFFICES ASSUME OnTime, TypeOK, EndInv, [Next]_vars PROVE EndInv'
  OBVIOUS
<1>a. ASSUME UNCHANGED <<kind, broadcast, result, watcher>>, main' = main \/ main' \notin {"stats", "watch"},
             stats' = stats \/ stats' # "done"
      PROVE  EndInv'
  <2>1. TryInv' /\ (NobodyEnded => NobodyEnded')
    BY <1>a DEF EndInv, TryInv, NobodyEnded, broadcast
  <2>. QED  BY <1>a, <2>1, SendsNothing DEF EndInv, broadcast
<1>1. CASE SetUpCtrlC \/ SetUpStats \/ SetUpWatcher
  <2>1. TryInv' /\ (NobodyEnded => NobodyEnded')
    BY <1>1, TestRunAssumption
    DEF SetUpCtrlC, SetUpStats, SetUpWatcher, EndInv, TryInv, NobodyEnded, broadcast, TypeOK
  <2>. QED
    BY <1>1, <2>1, SendsNothing DEF SetUpCtrlC, SetUpStats, SetUpWatcher, EndInv, broadcast
<1>2. CASE SetUpRun \/ Tell \/ AwaitStderr \/ AwaitStdout
  BY <1>2, <1>a DEF SetUpRun, Tell, AwaitStderr, AwaitStdout
<1>3. CASE MainUpdated
  <2>1. TryInv' /\ (NobodyEnded => NobodyEnded') /\ Receive("main") /\ watcher' = watcher
    BY <1>3 DEF MainUpdated, Receive, EndInv, TryInv, NobodyEnded
  <2>. QED  BY <1>3, <2>1, SendsNothing DEF MainUpdated, Receive, EndInv, Tasks
<1>4. CASE MainEnds
  BY <1>4, MainEnd
<1>5. CASE SetupFails \/ PassOnCtrlC \/ FileFails
  BY <1>5, SendsEnd DEF SetupFails, PassOnCtrlC, FileFails, Ends
<1>6. CASE CtrlCEnds \/ StatsHearsUpdate \/ StatsEnds \/ WatcherHears
  BY <1>6, TasksEnd
<1>7. CASE Reload \/ SendUpdate \/ \E r \in Runs \ {1} : Build(r)
  BY <1>7, WatcherEnd
<1>8. ASSUME NEW r \in Runs, RunStep(r) PROVE EndInv'
  <2>1. ASSUME NEW m \in Ends, Stop(r, m) PROVE EndInv'
    BY <2>1, SendsEnd DEF Stop
  <2>2. CASE EndpointsEnd(r) \/ TimesOut(r)
    BY <2>1, <2>2 DEF EndpointsEnd, TimesOut, Ends
  <2>3. CASE Hears(r)
    <3>1. TryInv' /\ (NobodyEnded => NobodyEnded')
      BY <2>3 DEF Hears, EndInv, TryInv, NobodyEnded
    <3>. QED  BY <2>3, <3>1, SendsNothing DEF Hears, EndInv
  <2>4. CASE EndpointWakes(r) \/ RequestsEnd(r)
    BY <2>4, <1>a DEF EndpointWakes, RequestsEnd
  <2>5. CASE Kill(r)
    BY <2>5, SendsEnd DEF Kill, Ends
  <2>. QED  BY <1>8, <2>2, <2>3, <2>4, <2>5 DEF RunStep
<1>9. ASSUME NEW w \in Writers, WriterDone(w) \/ WriteFails(w) PROVE EndInv'
  <2>1. CASE WriterDone(w)
    BY <2>1, <1>a DEF WriterDone
  <2>2. CASE WriteFails(w)
    BY <2>2, SendsEnd DEF WriteFails, Ends
  <2>. QED  BY <1>9, <2>1, <2>2
<1>10. CASE Press \/ Edit \/ UNCHANGED vars
  BY <1>10, <1>a DEF Press, Edit, vars
<1>. QED  BY <1>1, <1>2, <1>3, <1>4, <1>5, <1>6, <1>7, <1>8, <1>9, <1>10 DEF Next, MainStep, WatcherStep

\* While no task is kept from its poll for a whole second, what is reported is
\* the first end there was, and no task ends before there is one.
THEOREM EndsAreReported == OnTime => (Spec => []EndsReported)
<1>. SUFFICES ASSUME OnTime PROVE Spec => []EndsReported
  OBVIOUS
<1>1. ReportInv /\ EndInv => EndsReported
  BY DEF ReportInv, EndInv, NobodyEnded, EndsReported, EndIsAnEnd
<1>2. TypeOK /\ EndInv /\ [Next]_vars => EndInv'
  BY NextEnd
<1>. QED
  BY <1>1, <1>2, InitTypeOK, NextTypeOK, InitReport, NextReport, InitEnd, PTL DEF Spec

-----------------------------------------------------------------------------
(***************************************************************************)
(* The runs.  Between the update and the run that is built for it every    *)
(* run before has the update to hear.                                      *)
(***************************************************************************)
RunsInv ==
  /\ OneRun
  /\ main \in SetUp => \A r \in Runs : runs[r] = "none"
  /\ main \in SetUp => watcher \in {"none", "waits", "gone"}
  /\ \A r \in Runs : runs[r] = "none" => \A s \in Runs : r < s => runs[s] = "none"
  /\ watcher = "builds" => \A r \in Runs : Live(r) => unheard[r] > 0

LEMMA InitRuns == Init => RunsInv
BY DEF Init, RunsInv, OneRun, Live

\* A step that starts no run, and lets none forget what it has to hear.
LEMMA KeepRuns ==
  ASSUME TypeOK, RunsInv,
         main' \in SetUp => main \in SetUp,
         main' \in SetUp => watcher' \in {"none", "waits", "gone"},
         watcher' = "builds" => watcher = "builds",
         \A r \in Runs : (runs'[r] = "none") <=> (runs[r] = "none"),
         \A r \in Runs : Live(r)' => Live(r) /\ (unheard[r] > 0 => unheard'[r] > 0)
  PROVE  RunsInv'
<1>1. OneRun'
  BY DEF RunsInv, OneRun
<1>2. watcher' = "builds" => \A r \in Runs : Live(r)' => unheard'[r] > 0
  BY DEF RunsInv
<1>. QED  BY <1>1, <1>2 DEF RunsInv

LEMMA SendHeard ==
  ASSUME TypeOK, NEW m, Send(m), NEW r \in Runs, Live(r)
  PROVE  unheard'[r] > 0
BY DEF Send, OneMore

LEMMA NextRuns == OnTime /\ TypeOK /\ RunsInv /\ [Next]_vars => RunsInv'
<1>. SUFFICES ASSUME OnTime, TypeOK, RunsInv, [Next]_vars PROVE RunsInv'
  OBVIOUS
<1>0. TypeOK'
  BY NextTypeOK
<1>1. CASE SetUpCtrlC \/ SetUpStats \/ SetUpWatcher
  BY <1>1, KeepRuns DEF SetUpCtrlC, SetUpStats, SetUpWatcher, SetUp, Live, broadcast, RunsInv
<1>2. CASE SetUpRun
  <2>1. /\ runs' = [runs EXCEPT ![1] = "running"] /\ main' = "waits" /\ watcher' = watcher
        /\ main \in SetUp /\ unheard' = unheard
    BY <1>2 DEF SetUpRun, SetUp, broadcast
  <2>2. \A r \in Runs : runs[r] = "none" /\ ~Live(r)
    BY <2>1 DEF RunsInv, Live
  <2>3. \A r \in Runs : r # 1 => runs'[r] = "none" /\ ~Live(r)'
    BY <2>1, <2>2 DEF TypeOK, Live
  <2>4. \A r, s \in Runs : r < s => s # 1
    BY TestRunAssumption DEF Runs
  <2>5. watcher' # "builds" /\ main' \notin SetUp
    BY <2>1 DEF RunsInv, SetUp
  <2>. QED  BY <2>3, <2>4, <2>5 DEF RunsInv, OneRun
<1>3. ASSUME SetupFails \/ PassOnCtrlC \/ FileFails \/ \E w \in Writers : WriteFails(w) PROVE RunsInv'
  <2>1. \E m \in Ends : Send(m)
    BY <1>3 DEF SetupFails, PassOnCtrlC, FileFails, WriteFails, Ends
  <2>2. UNCHANGED <<runs, watcher>> /\ (main' = main \/ main' = "failed")
    BY <1>3 DEF SetupFails, PassOnCtrlC, FileFails, WriteFails
  <2>. QED  BY <2>1, <2>2, SendHeard, KeepRuns DEF Live, SetUp, RunsInv
<1>4. CASE MainUpdated \/ CtrlCEnds \/ StatsHearsUpdate \/ StatsEnds
  BY <1>4, KeepRuns DEF MainUpdated, CtrlCEnds, StatsHearsUpdate, StatsEnds, Receive, Live, RunsInv
<1>5. CASE MainEnds
  <2>1. UNCHANGED <<runs, watcher>> /\ main' \notin SetUp
    BY <1>5 DEF MainEnds, SetUp
  <2>2. Send("completed") \/ UNCHANGED unheard
    BY <1>5 DEF MainEnds, Receive
  <2>. QED  BY <2>1, <2>2, SendHeard, KeepRuns DEF Live
<1>6. CASE Tell \/ AwaitStderr \/ AwaitStdout
  BY <1>6, KeepRuns DEF Tell, AwaitStderr, AwaitStdout, SetUp, Live, broadcast
<1>7. CASE Reload
  <2>1. main \notin SetUp /\ UNCHANGED <<main, runs, unheard>> /\ watcher' \in {"waits", "reloads"}
    BY <1>7 DEF Reload, OnTime, broadcast
  <2>. QED  BY <2>1, KeepRuns DEF Live
<1>8. CASE SendUpdate
  <2>1. UNCHANGED <<main, runs>> /\ watcher' = "builds" /\ watcher = "reloads" /\ Send("update")
    BY <1>8 DEF SendUpdate
  <2>2. main \notin SetUp
    BY <2>1 DEF RunsInv
  <2>3. \A r \in Runs : Live(r)' => Live(r) /\ unheard'[r] > 0
    BY <2>1, SendHeard DEF Live
  <2>. QED  BY <2>1, <2>2, <2>3 DEF RunsInv, OneRun
<1>9. ASSUME NEW q \in Runs \ {1}, Build(q) PROVE RunsInv'
  <2>1. /\ watcher = "builds" /\ watcher' = "waits" /\ runs[q] = "none" /\ runs[q - 1] # "none"
        /\ runs' = [runs EXCEPT ![q] = "running"] \/ runs' = runs
        /\ UNCHANGED <<main, unheard>>
    BY <1>9 DEF Build, broadcast
  <2>2. main \notin SetUp
    BY <2>1 DEF RunsInv
  <2>3. \A r \in Runs : r # q => runs'[r] = runs[r]
    BY <2>1 DEF TypeOK
  <2>4. q - 1 \in Runs /\ q \in Nat /\ \A r \in Runs : r \in Nat
    BY TestRunAssumption DEF Runs
  <2>5. \A r \in Runs : r < q => runs[r] # "none"
    <3>1. \A r \in Runs : r < q - 1 => runs[r] # "none"
      BY <2>1, <2>4 DEF RunsInv
    <3>2. \A r \in Runs : r < q => r < q - 1 \/ r = q - 1
      BY <2>4
    <3>. QED  BY <2>1, <3>1, <3>2
  <2>6. \A s \in Runs : q < s => runs[s] = "none"
    BY <2>1 DEF RunsInv
  <2>7. OneRun'
    <3>1. ASSUME NEW r \in Runs, NEW s \in Runs, r < s, runs'[s] # "none", Live(r)'
          PROVE  unheard[r] > 0
      <4>1. r # q
        BY <2>3, <2>4, <2>6, <3>1
      <4>2. Live(r)
        BY <2>3, <3>1, <4>1 DEF Live
      <4>. QED  BY <2>1, <4>2 DEF RunsInv
    <3>. QED  BY <2>1, <3>1 DEF OneRun
  <2>8. ASSUME NEW r \in Runs, runs'[r] = "none", NEW s \in Runs, r < s PROVE runs'[s] = "none"
    <3>1. runs[r] = "none"
      BY <2>1, <2>3, <2>8
    <3>2. s # q
      BY <2>5, <2>8, <3>1
    <3>. QED  BY <2>3, <2>8, <3>1, <3>2 DEF RunsInv
  <2>. QED  BY <2>1, <2>2, <2>7, <2>8 DEF RunsInv
<1>10. CASE WatcherHears
  BY <1>10, KeepRuns DEF WatcherHears, Receive, Live, RunsInv
<1>11. ASSUME NEW q \in Runs, RunStep(q) PROVE RunsInv'
  <2>1. ASSUME NEW m, Stop(q, m), Live(q) PROVE RunsInv'
    <3>1. /\ Send(m) /\ UNCHANGED <<main, watcher>>
          /\ \A r \in Runs : runs'[r] = IF r = q THEN "stopped" ELSE runs[r]
      BY <2>1 DEF Stop, TypeOK
    <3>2. runs[q] # "none"
      BY <2>1 DEF Live
    <3>. QED  BY <3>1, <3>2, SendHeard, KeepRuns DEF Live, RunsInv
  <2>2. CASE EndpointsEnd(q) \/ TimesOut(q)
    BY <2>1, <2>2 DEF EndpointsEnd, TimesOut, Live
  <2>3. CASE Hears(q)
    <3>1. /\ UNCHANGED <<main, watcher>> /\ runs[q] = "running"
          /\ \A r \in Runs : r # q => runs'[r] = runs[r] /\ unheard'[r] = unheard[r]
          /\ runs'[q] = "stopped" \/ (runs'[q] = "asleep" /\ unheard'[q] = 1)
      BY <2>3 DEF Hears, TypeOK
    <3>. QED  BY <3>1, KeepRuns DEF Live, RunsInv
  <2>4. CASE EndpointWakes(q) \/ RequestsEnd(q)
    <3>1. /\ UNCHANGED <<main, watcher, unheard>> /\ runs[q] \in {"asleep", "stopped"}
          /\ \A r \in Runs : r # q => runs'[r] = runs[r]
          /\ runs'[q] = "done" \/ (runs'[q] = "running" /\ runs[q] = "asleep")
      BY <2>4 DEF EndpointWakes, RequestsEnd, TypeOK, broadcast
    <3>. QED  BY <3>1, KeepRuns DEF Live, RunsInv
  <2>5. CASE Kill(q)
    <3>1. Send("killed") /\ UNCHANGED <<main, watcher, runs>>
      BY <2>5 DEF Kill
    <3>. QED  BY <3>1, SendHeard, KeepRuns DEF Live, RunsInv
  <2>. QED  BY <1>11, <2>2, <2>3, <2>4, <2>5 DEF RunStep
<1>12. ASSUME (\E w \in Writers : WriterDone(w)) \/ Press \/ Edit \/ UNCHANGED vars PROVE RunsInv'
  <2>1. UNCHANGED <<main, watcher, runs, unheard>>
    BY <1>12 DEF WriterDone, Press, Edit, vars, broadcast
  <2>. QED  BY <2>1, KeepRuns DEF Live, RunsInv
<1>. QED  BY <1>1, <1>2, <1>3, <1>4, <1>5, <1>6, <1>7, <1>8, <1>9, <1>10, <1>11, <1>12
          DEF Next, MainStep, WatcherStep

\* However often the config is changed, only the run of the last change has
\* nothing to hear that ends it.
THEOREM OneRunAtATime == OnTime => (Spec => []OneRun)
<1>. SUFFICES ASSUME OnTime PROVE Spec => []OneRun
  OBVIOUS
<1>1. TypeOK /\ RunsInv /\ [Next]_vars => RunsInv'
  BY NextRuns
<1>2. RunsInv => OneRun
  BY DEF RunsInv
<1>. QED  BY <1>1, <1>2, InitTypeOK, NextTypeOK, InitRuns, PTL DEF Spec

-----------------------------------------------------------------------------
(***************************************************************************)
(* The output.  A writer is not done before those who have something to    *)
(* write last have sent it, and create_run returns when both are done.     *)
(***************************************************************************)
Told    == main \in {"stderr", "stdout", "exited"}
Killed  == result \in {"killed", "ctrlC"}

WritersInv ==
  /\ main \in SetUp => writer["stdout"] # "done" /\ writer["stderr"] # "done"
  /\ main \in {"waits", "tells"} => writer["stderr"] # "done"
  /\ stats = "alive" => writer[Console] # "done"
  /\ main \in {"stdout", "exited"} => writer["stderr"] # "open"
  /\ main = "exited" => writer["stdout"] # "open"

StatsInv ==
  /\ main \notin SetUp \cup {"failed"} => stats # "none"
  /\ kind = "run" /\ main \in {"watch", "run"} => stats # "none"
  /\ stats = "done" =>
       writer[Console] = "failed" \/ final[Console] = "summary" \/ (kind = "try" /\ final["stderr"] = "reason")

ReasonInv ==
  kind = "run" =>
    /\ final["stderr"] \in {"none", "reason"}
    /\ final["stderr"] = "reason" => Told /\ Killed
    /\ Told /\ Killed => final["stderr"] = "reason" \/ writer["stderr"] = "failed"

OutInv == WritersInv /\ StatsInv /\ ReasonInv

LEMMA OutputIsComplete == TypeOK /\ OutInv => OutputComplete
<1>. SUFFICES ASSUME TypeOK, OutInv, main = "exited" PROVE OutputComplete
  BY DEF OutputComplete
<1>1. /\ writer["stdout"] \in {"done", "failed"} /\ writer["stderr"] \in {"done", "failed"}
      /\ stats \in {"alive", "done"} /\ kind \in {"run", "try"}
  BY TestRunAssumption DEF TypeOK, OutInv, WritersInv, StatsInv, SetUp, Writers
<1>2. stats = "alive" => writer[Console] = "failed"
  BY <1>1 DEF OutInv, WritersInv, Console
<1>3. CASE kind = "run"
  BY <1>1, <1>2, <1>3 DEF OutputComplete, OutInv, StatsInv, ReasonInv, Console, Told, Killed
<1>4. CASE kind = "try"
  BY <1>1, <1>2, <1>4 DEF OutputComplete, OutInv, StatsInv, Console
<1>. QED  BY <1>1, <1>3, <1>4

LEMMA InitOut == Init => OutInv
BY DEF Init, OutInv, WritersInv, StatsInv, ReasonInv, SetUp, Writers, Told

LEMMA SameOut ==
  ASSUME OutInv, UNCHANGED <<kind, main, result, stats, output>>
  PROVE  OutInv'
BY DEF OutInv, WritersInv, StatsInv, ReasonInv, Console, Told, Killed, output

LEMMA SetUpOut ==
  ASSUME TypeOK, OutInv, SetUpCtrlC \/ SetUpStats \/ SetUpWatcher \/ SetUpRun \/ SetupFails
  PROVE  OutInv'
<1>1. /\ main \in SetUp /\ UNCHANGED <<kind, result, final>> /\ kind \in {"run", "try"}
      /\ UNCHANGED <<writer["stdout"], writer["stderr"]>>
  BY TestRunAssumption DEF SetUpCtrlC, SetUpStats, SetUpWatcher, SetUpRun, SetupFails, SetUp, output, TypeOK, Writers
<1>2. main' \in SetUp \cup {"waits", "failed"} /\ Console \in {"stdout", "stderr"} /\ Console' = Console
  BY <1>1 DEF SetUpCtrlC, SetUpStats, SetUpWatcher, SetUpRun, SetupFails, SetUp, Console
<1>3. stats' = stats \/ (stats' = "alive" /\ main' # "failed")
  BY DEF SetUpCtrlC, SetUpStats, SetUpWatcher, SetUpRun, SetupFails
<1>4. WritersInv'
  BY <1>1, <1>2, <1>3 DEF OutInv, WritersInv, SetUp
<1>5. (kind = "run" /\ main' \in {"watch", "run"}) => stats' # "none"
  BY DEF SetUpCtrlC, SetUpStats, SetUpWatcher, SetUpRun, SetupFails, OutInv, StatsInv
<1>6. main' = "waits" => stats' # "none"
  BY <1>1 DEF SetUpCtrlC, SetUpStats, SetUpWatcher, SetUpRun, SetupFails, OutInv, StatsInv
<1>7. StatsInv'
  <2>1. writer[Console]' = writer[Console] /\ final' = final
    BY <1>1, <1>2
  <2>. QED  BY <1>1, <1>2, <1>3, <1>5, <1>6, <2>1 DEF OutInv, StatsInv, SetUp
<1>8. ReasonInv'
  BY <1>1, <1>2 DEF OutInv, ReasonInv, Told, Killed, SetUp
<1>. QED  BY <1>4, <1>7, <1>8 DEF OutInv

LEMMA MainOut ==
  ASSUME TypeOK, OutInv, MainEnds \/ Tell \/ AwaitStderr \/ AwaitStdout
  PROVE  OutInv'
<1>0. kind \in {"run", "try"} /\ final \in [Writers -> {"none", "summary", "reason"}]
      /\ writer \in [Writers -> {"open", "done", "failed"}]
      /\ "stderr" \in Writers /\ "stdout" \in Writers
  BY TestRunAssumption DEF TypeOK, Writers
<1>1. CASE MainEnds
  BY <1>1 DEF MainEnds, OutInv, WritersInv, StatsInv, ReasonInv, Console, Told, SetUp, output
<1>2. CASE Tell
  <2>1. main = "tells" /\ main' = "stderr" /\ UNCHANGED <<kind, result, stats, writer>>
    BY <1>2 DEF Tell
  <2>2. writer["stderr"] \in {"open", "failed"}
    BY <1>0, <2>1 DEF OutInv, WritersInv
  <2>3. final' = IF Killed /\ writer["stderr"] = "open" THEN [final EXCEPT !["stderr"] = "reason"] ELSE final
    BY <1>2 DEF Tell, Finally, Killed
  <2>4. /\ final'["stdout"] = final["stdout"]
        /\ final'["stderr"] = IF Killed /\ writer["stderr"] = "open" THEN "reason" ELSE final["stderr"]
    BY <1>0, <2>3
  <2>5. WritersInv'
    BY <2>1 DEF OutInv, WritersInv, Console, SetUp
  <2>6. StatsInv'
    BY <1>0, <2>1, <2>4 DEF OutInv, StatsInv, Console, SetUp
  <2>7. ReasonInv'
    <3>1. kind = "run" => final["stderr"] = "none"
      BY <2>1 DEF OutInv, ReasonInv, Told
    <3>. QED  BY <2>1, <2>2, <2>4, <3>1 DEF ReasonInv, Told, Killed
  <2>. QED  BY <2>5, <2>6, <2>7 DEF OutInv
<1>3. CASE AwaitStderr \/ AwaitStdout
  BY <1>3 DEF AwaitStderr, AwaitStdout, OutInv, WritersInv, StatsInv, ReasonInv, Console, Told, Killed, SetUp, output
<1>. QED  BY <1>1, <1>2, <1>3

LEMMA StatsOut ==
  ASSUME TypeOK, OutInv, StatsEnds
  PROVE  OutInv'
<1>0. kind \in {"run", "try"} /\ final \in [Writers -> {"none", "summary", "reason"}]
      /\ writer \in [Writers -> {"open", "done", "failed"}] /\ Console \in Writers
  BY TestRunAssumption DEF TypeOK, Writers, Console
<1>1. stats = "alive" /\ stats' = "done" /\ UNCHANGED <<kind, main, result, writer>>
  BY DEF StatsEnds
<1>2. writer[Console] \in {"open", "failed"}
  BY <1>0, <1>1 DEF OutInv, WritersInv, Writers
<1>3. final' = IF writer[Console] = "open" THEN [final EXCEPT ![Console] = "summary"] ELSE final
  BY DEF StatsEnds, Finally, Console
<1>4. WritersInv'
  BY <1>1 DEF OutInv, WritersInv, Console
<1>5. StatsInv'
  <2>1. writer[Console] = "failed" \/ final'[Console] = "summary"
    BY <1>0, <1>2, <1>3
  <2>2. Console' = Console
    BY <1>1 DEF Console
  <2>. QED  BY <1>1, <2>1, <2>2 DEF OutInv, StatsInv
<1>6. ReasonInv'
  <2>1. kind = "run" => final'["stderr"] = final["stderr"]
    BY <1>0, <1>3 DEF Console, Writers
  <2>. QED  BY <1>1, <2>1 DEF OutInv, ReasonInv, Told, Killed
<1>. QED  BY <1>4, <1>5, <1>6 DEF OutInv

LEMMA WriterOut ==
  ASSUME TypeOK, OutInv, NEW w \in Writers, WriterDone(w) \/ WriteFails(w)
  PROVE  OutInv'
<1>0. writer \in [Writers -> {"open", "done", "failed"}] /\ kind \in {"run", "try"}
      /\ Console \in {"stdout", "stderr"}
  BY TestRunAssumption DEF TypeOK, Console
<1>1. UNCHANGED <<kind, main, result, stats, final>> /\ writer[w] = "open"
  BY DEF WriterDone, WriteFails
<1>2. CASE WriterDone(w)
  <2>1. writer' = [writer EXCEPT ![w] = "done"] /\ ~Held(w)
    BY <1>2 DEF WriterDone
  <2>2. /\ w \in {"stdout", "stderr"} => main \notin SetUp
        /\ w = "stderr" => main \notin {"waits", "tells"}
        /\ w = Console => stats # "alive"
    BY <1>0, <2>1 DEF Held, Console
  <2>3. \A v \in {"stdout", "stderr"} : writer'[v] = IF v = w THEN "done" ELSE writer[v]
    BY <1>0, <2>1 DEF Writers
  <2>. QED  BY <1>0, <1>1, <2>2, <2>3 DEF OutInv, WritersInv, StatsInv, ReasonInv, Console, Told, Killed
<1>3. CASE WriteFails(w)
  <2>1. writer' = [writer EXCEPT ![w] = "failed"]
    BY <1>3 DEF WriteFails
  <2>2. \A v \in {"stdout", "stderr"} : writer'[v] = IF v = w THEN "failed" ELSE writer[v]
    BY <1>0, <2>1 DEF Writers
  <2>. QED  BY <1>0, <1>1, <2>2 DEF OutInv, WritersInv, StatsInv, ReasonInv, Console, Told, Killed
<1>. QED  BY <1>2, <1>3

LEMMA NextOut == TypeOK /\ OutInv /\ [Next]_vars => OutInv'
<1>. SUFFICES ASSUME TypeOK, OutInv, [Next]_vars PROVE OutInv'
  OBVIOUS
<1>1. CASE \/ MainUpdated \/ PassOnCtrlC \/ CtrlCEnds \/ StatsHearsUpdate \/ FileFails
           \/ Press \/ Edit \/ UNCHANGED vars
  BY <1>1, SameOut
  DEF MainUpdated, PassOnCtrlC, CtrlCEnds, StatsHearsUpdate, FileFails, Press, Edit, vars
<1>2. CASE WatcherStep
  BY <1>2, SameOut DEF WatcherStep, Reload, SendUpdate, Build, WatcherHears
<1>3. ASSUME NEW r \in Runs, RunStep(r) PROVE OutInv'
  BY <1>3, SameOut DEF RunStep, EndpointsEnd, Hears, EndpointWakes, TimesOut, RequestsEnd, Kill, Stop
<1>. QED  BY <1>1, <1>2, <1>3, SetUpOut, MainOut, StatsOut, WriterOut DEF Next, MainStep

\* When create_run returns without an error, the summary and the reason of
\* the end are written, or the place they go to cannot be written to.
THEOREM OutputIsWritten == Spec => []OutputComplete
<1>. QED  BY InitTypeOK, NextTypeOK, InitOut, NextOut, OutputIsComplete, PTL DEF Spec
=============================================================================
