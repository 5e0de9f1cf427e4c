---------------------------- MODULE LoadTestConfig ----------------------------
(***************************************************************************)
(* From a parsed configuration file to the endpoints of a test:            *)
(* LoadTest::from_config with the functions it calls, then either          *)
(* create_load_test_future or create_try_run_future up to the point where  *)
(* every endpoint is built (lib/config/src/lib.rs, src/lib.rs,             *)
(* src/request.rs).                                                        *)
(*                                                                         *)
(* An expression or template is the set of names it reads.  What it        *)
(* computes from them is not modelled here, and a template that fails to   *)
(* parse or to evaluate stops the program before a test exists.            *)
(***************************************************************************)
EXTENDS Naturals, Sequences

CONSTANTS Files,        \* the parsed configuration files
          Names,        \* the names they may use, for a variable, a provider, a logger or a declared value
          HeaderNames,
          Specials      \* names the program itself gives a value: request, response, stats, error, for_each

Partial(S, T) == UNION {[D -> T] : D \in SUBSET S}
LogsPreProcessed == [to : Names, reads : SUBSET Names]
ProvidesPreProcessed == [to : Names, reads : SUBSET Names, send : {"none", "block", "force", "if_not_full"}]
EndpointPreProcessed ==
  [headers : Partial(HeaderNames, [null : BOOLEAN, reads : SUBSET Names]),
   url : SUBSET Names, tags : SUBSET Names, body : SUBSET Names,
   provides : Seq(ProvidesPreProcessed), declare : Seq([name : Names, reads : SUBSET Names]), logs : Seq(LogsPreProcessed),
   peak_load : BOOLEAN, load_pattern : Nat, included : BOOLEAN]
LoggerPreProcessed == [name : Names, select : BOOLEAN, reads : SUBSET Names]
LoadTestPreProcessed(provider_names) ==
  [vars : SUBSET Names, providers : [provider_names -> {"response", "file", "list", "range"}],
   headers : Partial(HeaderNames, SUBSET Names), load_pattern : Nat,
   endpoints : Seq(EndpointPreProcessed), loggers : Seq(LoggerPreProcessed)]

ASSUME FilesAssumption == \A f \in Files : /\ f \in LoadTestPreProcessed(DOMAIN f.providers)
                                          /\ DOMAIN f.providers \subseteq Names
ASSUME NamesAssumption == /\ {"request", "response", "stats"} \subseteq Specials
                          /\ Specials \cup {"try_run"} \subseteq Names

VARIABLES file,              \* the parsed file
          phase, at,         \* what from_config or the try run is at, and at which logger or endpoint
          endpoints,         \* LoadTest::endpoints
          loggers,           \* LoadTest::loggers: the names
          load_test_errors,  \* as a set: only the first is ever looked at
          mode,              \* "none", "load" (a load test) or "try" (a try run)
          providers,         \* Endpoints::providers: a name to the endpoints that provide it
          required_indices,  \* the queue of build, as a set: it is emptied whatever its order
          needed,            \* endpoints_needed_for_test: an endpoint to whether its provides are needed
          calls              \* the endpoints that run

vars == <<file, phase, at, endpoints, loggers, load_test_errors, mode, providers, required_indices, needed, calls>>
tryVars == <<providers, required_indices, needed>>

ProviderNames == DOMAIN file.providers
ResponseProviders == {p \in ProviderNames : file.providers[p] = "response"}

\* What RequiredProviders keeps of an expression's names: a name of `vars` is
\* replaced by its value, a special name becomes a bit.
Required(reads) == (reads \ file.vars) \ Specials

-----------------------------------------------------------------------------
(* Endpoint::from_preprocessed.                                            *)

\* A header of an endpoint is Null or a template; Null takes the global header away.
KeptHeaders(e) == {h \in DOMAIN file.headers : ~(h \in DOMAIN e.headers /\ e.headers[h].null)}
HeaderReads(e) == (UNION {file.headers[h] : h \in KeptHeaders(e)})
                  \cup (UNION {e.headers[h].reads : h \in DOMAIN e.headers})
SelectReads(selects) == UNION {selects[i].reads : i \in DOMAIN selects}
DeclaredNames(e) == {e.declare[i].name : i \in DOMAIN e.declare}

\* Slip: the names of the global headers are left out.
OwnReads(e) == Required((UNION {e.headers[h].reads : h \in DOMAIN e.headers}) \cup SelectReads(e.provides)
                        \cup e.url \cup e.tags \cup e.body)
RequestReads(e) == Required(HeaderReads(e) \cup SelectReads(e.provides) \cup e.url \cup e.tags \cup e.body)

WithSend(e) == [i \in DOMAIN e.provides |->
  [e.provides[i] EXCEPT !.send = IF @ # "none" THEN @ ELSE IF e.peak_load THEN "if_not_full" ELSE "block"]]

FromPreprocessed(e) ==
  LET providers_to_stream == RequestReads(e) \ DeclaredNames(e) IN
  [provides |-> WithSend(e),
   declare |-> e.declare,
   templates |-> HeaderReads(e) \cup e.url \cup e.tags \cup e.body,
   logs |-> e.logs,
   peak_load |-> e.peak_load,
   load_pattern |-> IF e.load_pattern # 0 THEN e.load_pattern ELSE file.load_pattern,
   providers_to_stream |-> providers_to_stream \cup Required(SelectReads(e.logs)),
   required_providers |-> Required(SelectReads(e.declare)) \cup providers_to_stream,
   included |-> e.included]

\* Slip: any provides is taken for one that makes the endpoint wait.
ErrorsUnlessProvides(e) ==
  CASE ~e.peak_load /\ e.required_providers \cap ResponseProviders = {} /\ e.provides = <<>> -> {"MissingPeakLoad"}
    [] e.peak_load /\ e.load_pattern = 0 -> {"MissingLoadPattern"}
    [] OTHER -> {}
\* The errors that stop a load test, found before the loggers are added.
ErrorsOf(e) ==
  CASE ~e.peak_load /\ e.required_providers \cap ResponseProviders = {}
                    /\ ~\E i \in DOMAIN e.provides : e.provides[i].send = "block" -> {"MissingPeakLoad"}
    [] e.peak_load /\ e.load_pattern = 0 -> {"MissingLoadPattern"}
    [] OTHER -> {}

-----------------------------------------------------------------------------
(* LoadTest::from_config.                                                  *)
Init ==
  /\ file \in Files
  /\ phase = "parsed" /\ at = 1
  /\ endpoints = <<>> /\ loggers = {} /\ load_test_errors = {}
  /\ mode = "none" /\ providers = [p \in ProviderNames |-> {}] /\ required_indices = {} /\ needed = <<>> /\ calls = <<>>

ReadEndpoints ==
  /\ phase = "parsed" /\ phase' = "loggers"
  /\ endpoints' = [k \in DOMAIN file.endpoints |-> FromPreprocessed(file.endpoints[k])]
  /\ load_test_errors' = UNION {ErrorsOf(endpoints'[k]) : k \in DOMAIN endpoints'}
  /\ UNCHANGED <<file, at, loggers, mode, tryVars, calls>>

\* append_processed_logger on every endpoint.
LogTo(es, logger) ==
  [k \in DOMAIN es |-> [es[k] EXCEPT
     !.logs = Append(@, [to |-> logger.name, reads |-> logger.reads]),
     !.providers_to_stream = @ \cup Required(logger.reads),
     !.required_providers = @ \cup Required(logger.reads)]]

AddLogger ==
  /\ phase = "loggers" /\ at \in DOMAIN file.loggers
  /\ LET logger == file.loggers[at] IN
     /\ loggers' = loggers \cup {logger.name}
     /\ IF Required(logger.reads) \subseteq ProviderNames
        THEN /\ endpoints' = IF logger.select THEN LogTo(endpoints, logger) ELSE endpoints
             /\ phase' = phase /\ at' = at + 1
        ELSE phase' = "refused" /\ UNCHANGED <<endpoints, at>>
  /\ UNCHANGED <<file, load_test_errors, mode, tryVars, calls>>

Targets(selects) == {selects[i].to : i \in DOMAIN selects}
LogsTo(e) == Targets(e.logs)
ProvidesTo(e) == Targets(e.provides)

Verified(e) == LogsTo(e) \subseteq loggers /\ e.required_providers \cup ProvidesTo(e) \subseteq ProviderNames

Verify ==
  /\ phase = "loggers" /\ at \notin DOMAIN file.loggers
  /\ phase' = IF \A k \in DOMAIN endpoints : Verified(endpoints[k]) THEN "loaded" ELSE "refused"
  /\ UNCHANGED <<file, at, endpoints, loggers, load_test_errors, mode, tryVars, calls>>

-----------------------------------------------------------------------------
(* EndpointBuilder::build: what an endpoint takes its values from and what *)
(* makes it start a request.                                               *)
Built(e, start_stream) ==
  [start |-> IF start_stream THEN "pattern" ELSE IF e.provides = <<>> THEN "none" ELSE "while_read",
   provides |-> e.provides,
   logs |-> LogsTo(e),
   streams |-> e.providers_to_stream \cap ProviderNames,
   declares |-> DeclaredNames(e),
   takes |-> (e.providers_to_stream \cap ProviderNames) \cup Required(SelectReads(e.declare))]

\* What build looks up and takes for certain to be there.
Finds(e, outs) ==
  /\ ProvidesTo(e) \subseteq ProviderNames
  /\ LogsTo(e) \subseteq outs
  /\ SelectReads(e.declare) \ file.vars \subseteq ProviderNames

Paced(e) == e.peak_load /\ e.load_pattern # 0

\* create_load_test_future.
StartLoadTest ==
  /\ phase = "loaded" /\ mode' = "load"
  /\ phase' = IF load_test_errors # {} THEN "refused"
              ELSE IF \A k \in DOMAIN endpoints : Finds(endpoints[k], loggers) THEN "running" ELSE "panicked"
  /\ calls' = IF phase' = "running" THEN [k \in DOMAIN endpoints |-> Built(endpoints[k], Paced(endpoints[k]))] ELSE calls
  /\ UNCHANGED <<file, at, endpoints, loggers, load_test_errors, tryVars>>

-----------------------------------------------------------------------------
(* create_try_run_future and Endpoints.                                    *)
TryRunLogger == [name |-> "try_run", select |-> TRUE, reads |-> {"request", "response", "stats"}]

\* Endpoints::append.
ProvidedBy(es, p) == {k \in DOMAIN es : p \in ProvidesTo(es[k]) \ es[k].required_providers}

\* clear_loggers: the loggers go, the names they read stay.
Cleared(es) == [k \in DOMAIN es |-> [es[k] EXCEPT !.logs = <<>>]]
Blocking(provides) == [i \in DOMAIN provides |-> [provides[i] EXCEPT !.send = "block"]]
SendBlock(es) == [k \in DOMAIN es |-> [es[k] EXCEPT !.provides = Blocking(@)]]

\* Every endpoint is built, whether the filter includes it or not.
StartTryRun(loggers_on) ==
  /\ phase = "loaded" /\ mode' = "try"
  /\ endpoints' = SendBlock(LogTo(IF loggers_on THEN endpoints ELSE Cleared(endpoints), TryRunLogger))
  /\ loggers' = (IF loggers_on THEN loggers ELSE {}) \cup {TryRunLogger.name}
  /\ providers' = [p \in ProviderNames |-> ProvidedBy(endpoints', p)]
  /\ phase' = IF \A k \in DOMAIN endpoints' : Finds(endpoints'[k], loggers') THEN "filter" ELSE "panicked"
  /\ at' = 1
  /\ UNCHANGED <<file, load_test_errors, required_indices, needed, calls>>

\* An endpoint is taken into the test, and the endpoints that provide what it requires are queued.
Include(i, bypass_filter, queue) ==
  LET wanted == endpoints[i].required_providers \cap ResponseProviders IN
  /\ needed' = [j \in DOMAIN needed \cup {i} |-> IF j = i THEN bypass_filter ELSE needed[j]]
  /\ required_indices' = queue \cup UNION {providers[p] : p \in wanted}
  /\ providers' = [p \in ProviderNames |-> IF p \in wanted THEN {} ELSE providers[p]]

\* The pass over all endpoints, with the filter.
Filter ==
  /\ phase = "filter" /\ at \in DOMAIN endpoints /\ at' = at + 1
  /\ IF endpoints[at].included THEN Include(at, FALSE, required_indices) ELSE UNCHANGED tryVars
  /\ UNCHANGED <<file, phase, endpoints, loggers, load_test_errors, mode, calls>>

\* An index of the queue: an endpoint that another one requires.
SelectNew(i) ==
  /\ phase = "filter" /\ at \notin DOMAIN endpoints /\ i \in required_indices \ DOMAIN needed
  /\ Include(i, TRUE, required_indices \ {i})
  /\ UNCHANGED <<file, phase, at, endpoints, loggers, load_test_errors, mode, calls>>

SelectAgain(i) ==
  /\ phase = "filter" /\ at \notin DOMAIN endpoints /\ i \in required_indices \cap DOMAIN needed
  /\ needed' = [needed EXCEPT ![i] = TRUE]
  /\ required_indices' = required_indices \ {i}
  /\ UNCHANGED <<file, phase, at, endpoints, loggers, load_test_errors, mode, providers, calls>>

\* clear_provides and add_start_stream for the endpoints whose provides nobody needs.
BuildTryRun ==
  /\ phase = "filter" /\ at \notin DOMAIN endpoints /\ required_indices = {}
  /\ phase' = "running"
  /\ calls' = [k \in DOMAIN needed |->
       IF needed[k] THEN Built(endpoints[k], FALSE)
       ELSE [Built(endpoints[k], FALSE) EXCEPT !.start = "once", !.provides = <<>>]]
  /\ UNCHANGED <<file, at, endpoints, loggers, load_test_errors, mode, tryVars>>

-----------------------------------------------------------------------------
Next == \/ ReadEndpoints \/ AddLogger \/ Verify \/ StartLoadTest \/ (\E on \in BOOLEAN : StartTryRun(on))
        \/ Filter \/ (\E i \in required_indices : SelectNew(i) \/ SelectAgain(i)) \/ BuildTryRun

Spec == Init /\ [][Next]_vars

-----------------------------------------------------------------------------
\* What from_config accepts can be built: `provides should reference a provider` and `logs should
\* reference a valid logger` hold.  `provider should be available` does not for an expression of
\* `declare` that reads a name the program gives its value for a response: from_config lets it
\* pass, as it is no provider's name to check, and there is no response yet to take it from.
DeclaresSpecial(e) == SelectReads(e.declare) \cap Specials # {}
BuildFinds == phase = "panicked" => \E k \in DOMAIN endpoints : DeclaresSpecial(endpoints[k])

\* What an endpoint evaluates for a request (url, headers, tags, body, provides, logs) reads names
\* that have a value: the endpoint takes one from a provider or declares one.  A name that its own
\* `logs` read is not checked to be anybody's: null is logged when it is not.
HasValue(k) == calls[k].streams \cup calls[k].declares
Unchecked(k) == SelectReads(file.endpoints[k].logs) \ ProviderNames
EveryReadHasAValue ==
  \A k \in DOMAIN calls :
    /\ Required(endpoints[k].templates \cup SelectReads(endpoints[k].provides)) \subseteq HasValue(k)
    /\ Required(SelectReads(endpoints[k].logs)) \subseteq HasValue(k) \cup Unchecked(k)

\* No endpoint of a load test makes requests as fast as it can: each has a load pattern, or
\* stops for a full provider, or waits for the responses of another endpoint.
NothingUnpaced ==
  mode = "load" => \A k \in DOMAIN calls :
    \/ calls[k].start = "pattern"
    \/ calls[k].start = "while_read" /\ \E i \in DOMAIN calls[k].provides : calls[k].provides[i].send = "block"
    \/ calls[k].takes \cap ResponseProviders # {}

\* The endpoints of a try run are the ones the filter includes and, of the others, exactly
\* those that provide, directly or in turn, what these require (the names their own
\* `logs` read apart); an endpoint whose
\* provides another one waits for sends them, and nobody else does.
Provider(j, k) == \E p \in endpoints[k].required_providers \cap ResponseProviders :
                     p \in ProvidesTo(endpoints[j]) \ endpoints[j].required_providers
Asked(S) == {j \in DOMAIN endpoints : \E k \in S : Provider(j, k)}
Included == {k \in DOMAIN endpoints : endpoints[k].included}
TryRunServed ==
  mode = "try" /\ phase = "running" =>
    /\ Included \cup Asked(DOMAIN calls) \subseteq DOMAIN calls
    /\ \A S \in SUBSET DOMAIN calls : Included \cup Asked(S) \subseteq S => S = DOMAIN calls
    /\ \A k \in DOMAIN calls : (calls[k].provides # <<>>) = (k \in Asked(DOMAIN calls))

\* Every name is there when it is looked up: by the builder of an endpoint, by the expressions of a
\* request, and for an endpoint of a try run the one that fills the provider it waits for.
NamesResolve == BuildFinds /\ EveryReadHasAValue /\ TryRunServed
===============================================================================
