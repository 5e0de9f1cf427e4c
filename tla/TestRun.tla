------------------------------ MODULE TestRun ------------------------------
(***************************************************************************)
(* A load test or a try run from its set-up to the exit of the program:    *)
(* create_run, the tasks it starts and the broadcast they tell one another *)
(* the end of the test by.  A process is a task of the runtime, or one of  *)
(* its threads for what blocks.                                            *)
(*                                                                         *)
(* The broadcast keeps one message.  Who has not received the last one and *)
(* is sent another gets an error instead of the first.                     *)
(***************************************************************************)
EXTENDS Naturals

CONSTANTS
  Kinds,      \* the subcommands: run, try
  LoggerTo,   \* the writers the loggers of the config write to
  Budget,     \* bound: changes of the config file, messages beyond the limit
              \* of a logger that kills, and reads and writes that fail,
              \* taken together
  BadUpdates, \* a changed config may parse and yet make no load test
  SlowTasks   \* a task may not be polled for a second

ASSUME TestRunAssumption ==
  /\ Kinds \subseteq {"run", "try"}
  /\ LoggerTo \subseteq {"stdout", "stderr"}
  /\ Budget \in Nat
  /\ {BadUpdates, SlowTasks} \subseteq BOOLEAN

Tasks   == {"main", "ctrlC", "stats", "watcher"}
Runs    == 1 .. Budget + 1
Writers == {"stdout", "stderr"}

VARIABLES
  kind,
  last,    \* the last message broadcast
  first,   \* the first one that was not an update
  unseen,  \* how many messages a task has not received, 2 for more than one
  unheard, \* the same for a run
  main,    \* where create_run is
  result,  \* of the test
  pressed, \* Ctrl-C was
  ctrlC,
  stats,
  watcher,
  edited,  \* the config file is newer than the watcher knows
  spent,   \* of the budget
  runs,    \* the run of the first config and one for each update
  writer,  \* the threads that write to them
  final    \* what a writer keeps to write last

broadcast == <<last, first, unseen, unheard>>
output    == <<writer, final>>
user      == <<pressed, edited, spent>>
vars      == <<kind, broadcast, main, result, ctrlC, stats, watcher, runs, output, user>>

Exited  == main \in {"exited", "failed"}
SetUp   == {"ctrlC", "stats", "watch", "run"}
Live(r) == runs[r] \in {"running", "asleep"}

Init ==
  /\ kind \in Kinds
  /\ last = "none" /\ first = "none"
  /\ unseen = [t \in Tasks |-> 0] /\ unheard = [r \in Runs |-> 0]
  /\ main = "ctrlC" /\ result = "none"
  /\ pressed = FALSE /\ edited = FALSE /\ spent = 0
  /\ ctrlC = "none" /\ stats = "none" /\ watcher = "none"
  /\ runs = [r \in Runs |-> "none"]
  /\ writer = [w \in Writers |-> "open"]
  /\ final = [w \in Writers |-> "none"]
-----------------------------------------------------------------------------
(***************************************************************************)
(* The broadcast, and the writers.                                         *)
(***************************************************************************)
OneMore(n) == IF n = 0 THEN 1 ELSE 2

Listens(t) ==
  CASE t = "main"    -> main \in SetUp \cup {"waits"}
    [] t = "ctrlC"   -> ctrlC = "alive"
    [] t = "stats"   -> stats = "alive"
    [] t = "watcher" -> watcher \in {"waits", "reloads", "builds"}

Send(m) ==
  /\ last' = m
  /\ first' = IF first = "none" /\ m # "update" THEN m ELSE first
  /\ unseen' = [t \in Tasks |-> IF Listens(t) THEN OneMore(unseen[t]) ELSE 0]
  /\ unheard' = [r \in Runs |-> IF Live(r) THEN OneMore(unheard[r]) ELSE 0]

Receive(t) ==
  /\ unseen' = [unseen EXCEPT ![t] = 0]
  /\ UNCHANGED <<last, first, unheard>>

Updated(t) == unseen[t] = 1 /\ last = "update"

\* Where the statistics are told.
Console == IF kind = "run" THEN "stdout" ELSE "stderr"

\* A writer goes on while somebody can send to it.
Held(w) ==
  \/ main \in SetUp
  \/ main \in {"waits", "tells"} /\ w = "stderr"
  \/ stats = "alive" /\ w = Console
  \/ watcher \in {"waits", "reloads", "builds"}
  \/ w \in LoggerTo /\ \E r \in Runs : Live(r) \/ runs[r] = "stopped"

Finally(w, what) == final' = IF writer[w] = "open" THEN [final EXCEPT ![w] = what] ELSE final

\* The last message is written, and done_tx is told.
WriterDone(w) ==
  /\ writer[w] = "open" /\ ~Held(w)
  /\ writer' = [writer EXCEPT ![w] = "done"]
  /\ UNCHANGED <<kind, broadcast, main, result, ctrlC, stats, watcher, runs, final, user>>

Spend == spent < Budget /\ spent' = spent + 1

\* done_tx is dropped.
WriteFails(w) ==
  /\ writer[w] = "open" /\ (main \notin SetUp \/ stats # "none")
  /\ writer' = [writer EXCEPT ![w] = "failed"]
  /\ Spend
  /\ Send("error")
  /\ UNCHANGED <<kind, main, result, ctrlC, stats, watcher, runs, final, pressed, edited>>
-----------------------------------------------------------------------------
(***************************************************************************)
(* create_run and _create_run.                                             *)
(***************************************************************************)
SetUpCtrlC ==
  /\ main = "ctrlC"
  /\ main' = IF kind = "run" THEN "stats" ELSE "run"
  /\ ctrlC' = "alive"
  /\ UNCHANGED <<kind, broadcast, result, stats, watcher, runs, output, user>>

SetUpStats ==
  /\ main = "stats"
  /\ main' = "watch"
  /\ stats' = "alive"
  /\ UNCHANGED <<kind, broadcast, result, ctrlC, watcher, runs, output, user>>

SetUpWatcher ==
  /\ main = "watch"
  /\ main' = "run"
  /\ watcher' \in {"none", "waits"}
  /\ UNCHANGED <<kind, broadcast, result, ctrlC, stats, runs, output, user>>

\* What was sent before is not heard by the run.
SetUpRun ==
  /\ main = "run"
  /\ main' = "waits"
  /\ runs' = [runs EXCEPT ![1] = "running"]
  /\ stats' = IF kind = "try" THEN "alive" ELSE stats
  /\ UNCHANGED <<kind, broadcast, result, ctrlC, watcher, output, user>>

\* Nobody waits for what is still to be written, the error included.
SetupFails ==
  /\ main \in SetUp
  /\ main' = "failed"
  /\ Send("completed")
  /\ UNCHANGED <<kind, result, ctrlC, stats, watcher, runs, output, user>>

\* Slip: after an error the receiver is asked again.
ResultSeenAgain == last

\* An error of the receiver leaves the result as it is.
Result == IF unseen["main"] = 2 THEN "completed" ELSE last

MainUpdated ==
  /\ main = "waits" /\ Updated("main")
  /\ Receive("main")
  /\ UNCHANGED <<kind, main, result, ctrlC, stats, watcher, runs, output, user>>

MainEnds ==
  /\ main = "waits" /\ unseen["main"] > 0 /\ ~Updated("main")
  /\ result' = Result
  /\ IF Result = "error" THEN main' = "failed" /\ Send("completed")
     ELSE main' = "tells" /\ Receive("main")
  /\ UNCHANGED <<kind, ctrlC, stats, watcher, runs, output, user>>

\* Slip: stderr is kept until it is written.
TellAndKeep ==
  /\ main = "tells" /\ ~Held("stderr")
  /\ main' = "stderr"
  /\ UNCHANGED <<kind, broadcast, result, ctrlC, stats, watcher, runs, output, user>>

Tell ==
  /\ main = "tells"
  /\ main' = "stderr"
  /\ IF result \in {"killed", "ctrlC"} THEN Finally("stderr", "reason") ELSE UNCHANGED final
  /\ UNCHANGED <<kind, broadcast, result, ctrlC, stats, watcher, runs, writer, user>>

AwaitStderr ==
  /\ main = "stderr" /\ writer["stderr"] # "open"
  /\ main' = "stdout"
  /\ UNCHANGED <<kind, broadcast, result, ctrlC, stats, watcher, runs, output, user>>

\* Slip: stdout is not waited for.
ExitAtOnce ==
  /\ main = "stdout"
  /\ main' = "exited"
  /\ UNCHANGED <<kind, broadcast, result, ctrlC, stats, watcher, runs, output, user>>

AwaitStdout ==
  /\ main = "stdout" /\ writer["stdout"] # "open"
  /\ main' = "exited"
  /\ UNCHANGED <<kind, broadcast, result, ctrlC, stats, watcher, runs, output, user>>

MainStep ==
  SetUpCtrlC \/ SetUpStats \/ SetUpWatcher \/ SetUpRun \/ MainUpdated \/ MainEnds \/ Tell
    \/ AwaitStderr \/ AwaitStdout
-----------------------------------------------------------------------------
(***************************************************************************)
(* The tasks.                                                              *)
(***************************************************************************)
\* The signal comes first.
PassOnCtrlC ==
  /\ ctrlC = "alive" /\ pressed
  /\ ctrlC' = "done"
  /\ Send("ctrlC")
  /\ UNCHANGED <<kind, main, result, stats, watcher, runs, output, user>>

\* Whatever is broadcast ends this task, an update too.
CtrlCEnds ==
  /\ ctrlC = "alive" /\ ~pressed /\ unseen["ctrlC"] > 0
  /\ ctrlC' = "done"
  /\ Receive("ctrlC")
  /\ UNCHANGED <<kind, main, result, stats, watcher, runs, output, user>>

\* Slip: as in a try run, whatever is broadcast is the end.
StatsUpdatedNever == FALSE

StatsUpdated == stats = "alive" /\ kind = "run" /\ Updated("stats")

StatsHearsUpdate ==
  /\ StatsUpdated
  /\ Receive("stats")
  /\ UNCHANGED <<kind, main, result, ctrlC, stats, watcher, runs, output, user>>

StatsEnds ==
  /\ stats = "alive" /\ unseen["stats"] > 0 /\ ~StatsUpdated
  /\ stats' = "done"
  /\ Finally(Console, "summary")
  /\ Receive("stats")
  /\ UNCHANGED <<kind, main, result, ctrlC, watcher, runs, writer, user>>

\* A second after the last time the file is looked at.  What does not parse
\* is left at that.
Reload ==
  /\ watcher = "waits" /\ edited
  /\ SlowTasks \/ (main \notin SetUp /\ ~Updated("watcher"))
  /\ edited' = FALSE
  /\ watcher' \in {"waits", "reloads"}
  /\ UNCHANGED <<kind, broadcast, main, result, ctrlC, stats, runs, output, pressed, spent>>

\* The second that is over has let everybody see the update before.
SendUpdate ==
  /\ watcher = "reloads"
  /\ \/ SlowTasks \/ last # "update"
     \/ /\ \A t \in {"main", "stats"} : unseen[t] = 0
        /\ \A r \in Runs : Live(r) => unheard[r] = 0
  /\ watcher' = "builds"
  /\ Send("update")
  /\ UNCHANGED <<kind, main, result, ctrlC, stats, runs, output, user>>

Build(r) ==
  /\ watcher = "builds"
  /\ watcher' = "waits"
  /\ runs[r] = "none" /\ runs[r - 1] # "none"
  /\ \/ runs' = [runs EXCEPT ![r] = "running"]
     \/ BadUpdates /\ UNCHANGED runs
  /\ UNCHANGED <<kind, broadcast, main, result, ctrlC, stats, output, user>>

WatcherHears ==
  /\ watcher = "waits" /\ unseen["watcher"] > 0
  /\ watcher' = IF Updated("watcher") THEN "waits" ELSE "gone"
  /\ Receive("watcher")
  /\ UNCHANGED <<kind, main, result, ctrlC, stats, runs, output, user>>

WatcherStep == Reload \/ SendUpdate \/ (\E r \in Runs \ {1} : Build(r)) \/ WatcherHears
-----------------------------------------------------------------------------
(***************************************************************************)
(* A run: its endpoints first, then the broadcast, then the time.  What it *)
(* has requested goes on when it has ended.                                *)
(***************************************************************************)
Stop(r, m) ==
  /\ runs' = [runs EXCEPT ![r] = "stopped"]
  /\ Send(m)
  /\ UNCHANGED <<kind, main, result, ctrlC, stats, watcher, output, user>>

EndpointsEnd(r) == Live(r) /\ \E m \in {"completed", "error"} : Stop(r, m)

\* Slip: an update is for the statistics only.
HearsEnd(r) ==
  /\ runs[r] = "running" /\ unheard[r] > 0
  /\ unheard' = [unheard EXCEPT ![r] = 0]
  /\ runs' = [runs EXCEPT ![r] = IF unheard[r] = 1 /\ last = "update" THEN "running" ELSE "stopped"]
  /\ UNCHANGED <<kind, last, first, unseen, main, result, ctrlC, stats, watcher, output, user>>

\* A try run takes an error of the receiver for nothing, and is not woken by
\* the message it has still to receive.
Hears(r) ==
  /\ runs[r] = "running" /\ unheard[r] > 0
  /\ IF kind = "try" /\ unheard[r] = 2
     THEN runs' = [runs EXCEPT ![r] = "asleep"] /\ unheard' = [unheard EXCEPT ![r] = 1]
     ELSE runs' = [runs EXCEPT ![r] = "stopped"] /\ unheard' = [unheard EXCEPT ![r] = 0]
  /\ UNCHANGED <<kind, last, first, unseen, main, result, ctrlC, stats, watcher, output, user>>

\* An endpoint of the try run has something to do.
EndpointWakes(r) ==
  /\ runs[r] = "asleep"
  /\ runs' = [runs EXCEPT ![r] = "running"]
  /\ UNCHANGED <<kind, broadcast, main, result, ctrlC, stats, watcher, output, user>>

TimesOut(r) == kind = "run" /\ runs[r] = "running" /\ unheard[r] = 0 /\ Stop(r, "completed")

RequestsEnd(r) ==
  /\ runs[r] = "stopped"
  /\ runs' = [runs EXCEPT ![r] = "done"]
  /\ UNCHANGED <<kind, broadcast, main, result, ctrlC, stats, watcher, output, user>>

\* Logger::start_send, once for each message beyond the limit.
Kill(r) ==
  /\ Live(r) \/ runs[r] = "stopped"
  /\ Spend
  /\ Send("killed")
  /\ UNCHANGED <<kind, main, result, ctrlC, stats, watcher, runs, output, pressed, edited>>

\* A file of a provider cannot be read, or a log file or the statistics' file
\* cannot be written.  The runs go on until they hear of it.
FileFails ==
  /\ main \notin SetUp \ {"run"} \/ stats # "none"
  /\ Spend
  /\ Send("error")
  /\ UNCHANGED <<kind, main, result, ctrlC, stats, watcher, runs, output, pressed, edited>>
-----------------------------------------------------------------------------
Press ==
  /\ ~pressed
  /\ pressed' = TRUE
  /\ UNCHANGED <<kind, broadcast, main, result, ctrlC, stats, watcher, runs, output, edited, spent>>

Edit ==
  /\ watcher \in {"waits", "reloads", "builds"}
  /\ Spend
  /\ edited' = TRUE
  /\ UNCHANGED <<kind, broadcast, main, result, ctrlC, stats, watcher, runs, output, pressed>>

RunStep(r) == EndpointsEnd(r) \/ Hears(r) \/ EndpointWakes(r) \/ TimesOut(r) \/ RequestsEnd(r) \/ Kill(r)

Next ==
  /\ ~Exited
  /\ \/ MainStep \/ SetupFails
     \/ PassOnCtrlC \/ CtrlCEnds \/ StatsHearsUpdate \/ StatsEnds \/ WatcherStep
     \/ \E r \in Runs : RunStep(r)
     \/ \E w \in Writers : WriterDone(w) \/ WriteFails(w)
     \/ FileFails \/ Press \/ Edit

Spec == Init /\ [][Next]_vars

\* The runtime polls what is woken, the duration of a test passes, and the
\* requests under way end.
Fairness ==
  /\ WF_vars(~Exited /\ MainStep)
  /\ WF_vars(~Exited /\ (PassOnCtrlC \/ CtrlCEnds))
  /\ WF_vars(~Exited /\ (StatsHearsUpdate \/ StatsEnds))
  /\ WF_vars(~Exited /\ WatcherStep)
  /\ \A r \in Runs : WF_vars(~Exited /\ (Hears(r) \/ TimesOut(r) \/ RequestsEnd(r)))
  /\ \A w \in Writers : WF_vars(~Exited /\ WriterDone(w))

FairSpec == Spec /\ Fairness
-----------------------------------------------------------------------------
Ends == {"completed", "killed", "ctrlC", "error"}

TypeOK ==
  /\ kind \in Kinds
  /\ last \in Ends \cup {"none", "update"} /\ first \in Ends \cup {"none"}
  /\ unseen \in [Tasks -> 0 .. 2] /\ unheard \in [Runs -> 0 .. 2]
  /\ main \in SetUp \cup {"waits", "tells", "stderr", "stdout", "exited", "failed"}
  /\ result \in Ends \cup {"none"}
  /\ pressed \in BOOLEAN /\ edited \in BOOLEAN
  /\ spent \in 0 .. Budget
  /\ ctrlC \in {"none", "alive", "done"} /\ stats \in {"none", "alive", "done"}
  /\ watcher \in {"none", "waits", "reloads", "builds", "gone"}
  /\ runs \in [Runs -> {"none", "running", "asleep", "stopped", "done"}]
  /\ writer \in [Writers -> {"open", "done", "failed"}]
  /\ final \in [Writers -> {"none", "summary", "reason"}]

\* Of several reasons for the test to end the first is reported, unless it
\* was overtaken by another and is not reported at all (_create_run, lines
\* 410-421).
FirstEndReported == result \in {"none", "completed", first}

\* No task takes an update, or what it missed, for the end of the test while
\* the test goes on.
EndIsAnEnd ==
  (result # "none" \/ stats = "done" \/ watcher = "gone") => first # "none"

\* The result of a test is the reason it ended for, and there is one: a task
\* that lags behind the broadcasts makes no end up (lines 410-421).
EndsReported == FirstEndReported /\ EndIsAnEnd

\* A run that was replaced has its end to hear, so that the load of two runs
\* never adds up for longer than that takes (create_config_watcher).
OneRun ==
  \A r \in Runs, s \in Runs :
    (r < s /\ runs[s] # "none" /\ Live(r)) => unheard[r] > 0

\* Who waits for the end of create_run has the summary of the test and the
\* reason it was killed for, unless they could not be written.  The summary
\* and the reason of a try run are written to the same place, where only the
\* later one is kept.
OutputComplete ==
  main = "exited" =>
    IF kind = "run"
    THEN /\ writer["stdout"] = "failed" \/ final["stdout"] = "summary"
         /\ writer["stderr"] = "failed" \/ (result \in {"killed", "ctrlC"} <=> final["stderr"] = "reason")
    ELSE writer["stderr"] = "failed" \/ final["stderr"] # "none"

\* A load test exits, however it is updated, killed or fails.
LoadTestExits == kind = "run" ~> Exited
=============================================================================
