# pewpew in TLA+

pewpew is an HTTP load tester. A configuration declares *providers* (channels of
values that files, lists, ranges or responses fill), *loggers* (channels that end
in a writer) and *endpoints* (request templates with a load pattern). Every
endpoint is a stream of permits and provider values that is turned into requests;
what the responses yield goes back into providers and loggers.

This directory models that program in TLA+, checks the models with TLC and proves
the statements that do not depend on the size of an instance with TLAPS.

    tlc -workers 4 -config ChannelRace.cfg MCChannel     # any run of PROJECT.json
    tlapm ChannelProofs.tla                              # any *Proofs module

`PROJECT.json` lists the components, the runs, which source lines each definition
stands for, the variants of definitions ("slips") that the properties tell from
the code, the hazards, the findings and the theorems.

## Inventory

| Component | State | Operations | Hard behaviour | Correct when |
|---|---|---|---|---|
| `lib/channel` | lock-free queue, hash set of digests, soft limit and `has_maxed`, three counters, three event lists; a listener per handle | `try_send`, `force_send`, `Sink::poll_ready`/`start_send`, `Receiver::poll_next`, `OnDemandReceiver::poll_next`, clone, drop | every access is a separate atomic step on a multi-threaded runtime; notify(1) coalesces; listeners are created after the check they depend on | nothing duplicated or lost, limit overshoot bounded, ends seen by everyone, nobody sleeps for ever |
| Endpoints (`src/request.rs`, `src/request/*`) | streams of provider values, permits, `on_demand` gate, outgoing auto-returns, block senders | gather values, build a request, send it, time it out, evaluate response rules, `provides`/`logs` with Block, Force or IfNotFull, give provider values back | values taken and then lost by an early error, a full provider, two requests of one endpoint in flight at once; the `on_demand` wake-up order | a value taken with `auto_return` comes back, a demand is answered, an endpoint ends when its providers do |
| Test lifecycle (`src/lib.rs`) | broadcast of the test end, endpoint futures, stats and writer tasks, config watcher | create a run or try run, first end wins, timeout, Ctrl-C, reload | broadcast of capacity 1 that lags, two ends at the same moment, futures dropped while they hold values | one end is reported, every reader of it ends, what was written is flushed |
| Loggers and writers (`src/providers.rs`, `src/line_writer.rs`) | remaining `limit`, `kill`, channel of buffers, last buffer kept for the end of the file | log a message, finish, write | the limit is counted down by concurrent requests; the closing bytes come last | `limit` messages are written; the one after them ends the test if `kill` is set |
| Providers (`src/providers.rs`, `src/providers/*`) | reader position, buffer, the positions of the values, the queue of its thread | next line, csv row, json value; repeat, random; forward to the channel | a value cut by two reads, an empty last line, a file that is repeated at random, a thread that blocks on a queue nobody reads | each value once per pass, in order unless random; the thread goes on or ends |
| Statistics (`src/stats.rs`) | current and previous bucket, pending response statistics, counts per tag | record, rotate bucket, write header and bucket lines, finish | a message that is older than the bucket, the end of the test racing messages that are still queued | each response is counted once, in the bucket of its time |
| Load patterns (`lib/mod_interval`) | segments, offset, next and following start | `append_segment`, `into_stream`, `transition_from` | a wait longer than a segment, segments of no hits or no time, late polls that are made up for | never more requests than the area under the pattern; the starts end |
| Fan-out (`lib/for_each_parallel`) | spawned items, limit function, first error | poll | completion in any order, the limit changes while items run | never more than the limit in flight, the first error stops it |
| Combinators (`lib/select_any`, `lib/zip_all`, `lib/either`) | next index, partial tuple | poll | an element that ends or fails while others wait | no value is dropped, none is starved |
| Configuration (`lib/config`) | the decoder's record of anchored events; a parsed file; the endpoints and the names they read | decode, parse every structure, build a load test, select the endpoints of a try run | nested anchors and aliases; names that are declared, global, required by loggers added later | what is accepted is what the file says, and every name is there when it is looked up |
| Expressions (`lib/config`) | trees, templates, selects | build the tree, evaluate for a request, iterate for `for_each`, stream for `declare` | precedence, products of `for_each`, a `where` asked before the body is there, an `if` that pulls from one arm | the rows and values the guide describes |
| `lib/body_reader`, wasm wrappers, results viewer | - | decompress, bindings, browser page | - | not modelled: no state of the load test |

Components interact through channels only: an endpoint holds `Receiver`s of the
providers it reads, `Sender`s of the providers and loggers it writes, and, when it
is `on_demand`, `OnDemandReceiver`s of the providers it fills. The test end is a
broadcast that every endpoint, writer and statistics task selects on.

## Modules

| Module | Models | Depends on |
|---|---|---|
| `Events` | the event-listener crate (external): listeners in order, those notified, notify(1) that coalesces | |
| `Channel` | `lib/channel/src/lib.rs`, `hash_set.rs`; a step is one access to shared memory | `Events` |
| `BoundedQueue` | what a channel promises (abstract) | |
| `ChannelPromise` | what a channel promises on one thread: its refinement of `BoundedQueue`; how its limit grows | `Channel`, `BoundedQueue` |
| `MCChannel` | instances of `Channel` for TLC | `ChannelPromise` |
| `FanOut` | `lib/for_each_parallel`, the requests it spawns, the limit function of `Endpoint::into_future` | |
| `Request`, `MCRequest` | the requests of an endpoint: `zip_all` over providers, `send_request`, response and body handlers, auto returns, block senders | |
| `Stats`, `MCStats` | the statistics task of a load test | |
| `TestRun` | `create_run`, its tasks, the broadcast, runs and updates, the writers of stdout and stderr | |
| `YamlDecoder` | `YamlDecoder` of `from_yaml.rs`: anchors recorded and replayed | |
| `ConfigYaml`, `MCConfigYaml` | every structure of a configuration file and the parsers they share; files as trees and what they mean | `YamlDecoder` |
| `LoadTestConfig`, `MCLoadTestConfig` | `LoadTest::from_config`, then the load test or try run up to its built endpoints | |
| `LoadPattern`, `MCLoadPattern` | load patterns, `LinearSegment`, the stream of `lib/mod_interval` | |
| `Readers`, `MCReaders` | the readers of lines, JSON and csv, lists, their thread and the task that forwards | |
| `Expressions` | trees of expressions and their three evaluations (operators only) | |
| `Select`, `MCSelect` | `Select`, the precheck of `ResponseHandler`, declared names | `Expressions` |
| `ChannelProofs` | theorems about `Events` and `Channel` in every interleaving, then about `ChannelPromise` | `ChannelPromise` |
| `FanOutProofs`, `RequestProofs`, `StatsProofs`, `TestRunProofs`, `LoadPatternProofs`, `ReadersProofs` | theorems about the module of that name | |
| `ConfigProofs` | theorems about `YamlDecoder` and `LoadTestConfig` | these two |

Definitions that start with the comment "Slip:" are not part of the model: each
is a plausible mistake in the definition after it, and `PROJECT.json` says which
property tells it from the code. Some properties are a conjunction of named
parts (`NobodyWaits`, `ListenersServed`, `SetIsQueue`, `ValuesKept`, `RequestsEnd`,
`FileIsAccurate`, `EndsReported`, `NamesResolve`, `ReadAsWritten`); the parts are
defined, with their reasons, next to them.

A part of one module is data in another, and that is how they compose: a channel
is a count with a limit in `Request` and an arbitrary length in `FanOut`; a request
is `Running` or not in `FanOut`; the end of a test is one message in `Stats` and
`TestRun`; an expression is the set of the names it reads in `LoadTestConfig` and a
tree in `Select`; `ConfigYaml` stops where `LoadTestConfig` begins.

### Channel

A process is a handle. `pc[p]` names the next access of the call the handle is in
and stands for the place in the source; `item[p]` is the item the call holds,
`seen[p]` and `seenLimit[p]` the length and the limit it has read, `forced` counts
the items pushed without a look at the limit. `Preemptive`
says whether calls of different handles may interleave (tokio's multi-threaded
runtime, `src/src/bin/pewpew.rs`) or run one after the other (one worker thread).
The atomics are sequentially consistent in the model; a Release or Acquire that
is too weak for that is out of its scope. The queue is the linearizable
`ConcurrentQueue`, the set a linearizable `HashSet` of digests; two values may
share a digest only if `Digest` says so.

A listener is named by its owner. The code's `listener: Option<EventListener>` is
the membership of the handle in the event: `ListenersOwned` checks that no handle
has two and that none outlives its handle.

`BoundedQueue` is what an endpoint may rely on: first in first out, never beyond
the limit, a limit that grows only on an empty queue, an end that is told when
nothing is left. `KeepsPromise` is the refinement (`queue` for `items`,
the counters for `writers` and `readers`, the receivers at `ended` for `ended`).
It holds for calls that do not overlap and do not force; with overlapping calls
the limit is soft (`SoftLimit`), and the end may come early (finding
`ChannelEarlyEnd`), so that part of the promise is the queue's only on one thread.

### FanOut

The state is that of `ForEachParallel` and of the closure that computes its limit:
`stream` and `streamWaits` (the pulled stream), `futures` (the oneshots to be
polled), `rest` (those of this iteration not polled yet), `registered` (those that
hold the task's waker), `limit`, `multiplier` and `allFull`. One iteration of the
loop of `poll` is a pull (`Spawn`, `StreamPending`, `StreamEnds`, `StreamFails` or
`NoPull`), a `Collect` for each oneshot and `EndIteration`. A request that ends
(`RequestEnds`) may do so between any two of them. What the limit function sees of
the providers (`len`, `cap`) is arbitrary at each poll: other tasks fill and empty
them, and `force` passes their limit.

### Request

`at[v]` is where a value is: not read yet, in its provider's channel, taken by
`zip_all`, with request `r`, refused by a full provider, or lost. `stage[r]` is
where a request is, from its url to the last auto return. A stage stands for a
point where the future can be suspended; the paths between them are its actions,
with one action for each error (`UrlFails`, `BodyFails`, `TimesOut`, `HeadFails`,
`BodyBreaks`, `RuleFails`, `LogFails`). `rows[r][p]` is what the block sender of
rule `p` still has to send; `SelectBlocked` is `select_all`, which ends when the
first sender does and drops the others, whose `Drop` sends what fits.

The channels are counts here. What is sent, and whether a `where` is true, is an
arbitrary choice from `RowSets`; `Select` says what the rows are.

### Stats

`task` is the state of the future: ready to be polled, asleep with `wakers`, done
or panicked. The order in which the stream polls its parts (the end of the test,
the interval, the messages; `create_stats_channel`) is the guards `NoNews` and
`NoTick`. The clock has whole seconds; the interval begins at an `Instant`, which
is up to a second behind the whole second the bucket was rounded from, hence
`phase` in `Init`. `MaxLate` says how late the task is served, `SlowStart` whether
an interval may end before the test has sent its `Start`.

### TestRun

Every task and thread of the program that the end of a test passes through:
`main` is `create_run`, `ctrlC`, `stats` and `watcher` the tasks it spawns, `runs`
the endpoint futures of the first config and of each update, `writer` the threads
of `blocking_writer`. The broadcast has a capacity of one: `unseen[t]` is 0, 1 or 2
("lagged", whatever the number), `last` is what a receiver that is not lagged
gets. A writer ends when nobody `Held` a sender of it. `FileFails` is the error of a
provider's file (`providers.rs:98`), of a log file or of the statistics' file, whose tasks
and threads nobody waits for.
`Kinds` chooses the load test and the try run.

### YamlDecoder and ConfigYaml

The decoder is a machine over the events of yaml_rust (external): one action for
each kind of event it pulls, and three for a replay (an event, an alias to go into,
the end of a range). `aliased_events`, `alias_map`, `reference_stack` and
`replaying_alias` are the code's. What it gives does not depend on when `peek` and
`next` are called, so it is collected in `out`.

The `FromYaml` of every structure of the file is the same loop with another table
of fields: the loop is `Fields`, and a structure is its table (`Endpoint`, `Logger`,
`CsvSettings`, ...). Parsers are operators from the events that are left to a value,
an error or a panic. `MCConfigYaml` has files as trees, the events a tree gives, the
tree with its aliases written out (`Resolved`) and what a tree means (`Written`),
stated without events: `ReadAsWritten` compares the two.

### LoadTestConfig

`from_config` reads the endpoints (`ReadEndpoints`: none of them sees another), adds
one logger after the other (`AddLogger`) and verifies; after `loaded` the program makes a
load test or a try run. The selection of a try run is the pass with the filter and
the queue of `Endpoints::build`, kept as a set: it is emptied whatever its order.
Building looks names up and takes them for certain to be there (`Finds`); where one is
not, the phase is `panicked`. An expression is the set of names it reads; `Required` is
what `RequiredProviders` keeps of them. The files are any parsed files
(`FilesAssumption`): the runs give some, the proofs need only their types.

### LoadPattern

Time is in ticks and rates in whole hits per minute. `calculate_next_start` is
`NextStart` with the segment left once (`Moved`), the wait of the rate at its
beginning and the subtraction that may underflow (`panics`). `Poll` and `Fire` may
be late by `Delays`; `Emit` makes up for it as the code does. `start_at` may lie after the
end of a pattern, which an update or `--start-at` brings about for an endpoint with a shorter
pattern than others: the stream then goes on from one segment to the next at each start,
with the rate of the line beyond the segment's end.

### Readers

`thread` is the blocking thread with its iterator, `queue` the channel of five
between it and the task of `file`, `closed` and `killed` the end of that task. A
read gives `KB8` bytes; `FindLine` and `FindJson` are the two searches in a buffer.
The rows of csv are found by the csv crate (external): a csv file is a sequence of
rows one of which may be an error.

### Expressions and Select

The grammar's pieces become a tree as in `expression_helper`, and there are three
ways to use it: `Evaluate` with the values of a request, `AsIter` for `for_each`, and
`Pull`, which takes values from providers for a `declare`. `Select` is the life of one
rule of an endpoint: refused or built, its `where` asked with the head of the
response (`Precheck`), its rows one by one. What the guide promises is stated
without trees: `Reduced` applies the leftmost operator of the highest precedence, with
a `-` that subtracts whatever the sign (`Number`), `Tuple` numbers the cartesian product,
`Reads` counts the names in the arms that are taken.

## Runs

| Run | Instance | Shows |
|---|---|---|
| `ChannelRace` | 2 senders (one cloned and dropped at will), 1 receiver (dropped at will), 3 values with digests of their own, 2 messages each, limit 1, unique, dynamic, preemptive, all three ways to send; 3.3 million states | set, queue, counters, listeners and the soft limit agree in every interleaving |
| `ChannelOneThread` | 1 sender and 1 on-demand receiver that are dropped at will, 2 receivers, 2 on-demand receivers, 3 messages, limit 2, not preemptive, not forced; 0.1 million states | refinement of `BoundedQueue`, how the limit grows, one yield for a need, the end is never early, nobody waits for ever |
| `FanOut` | 4 items, at most 3 requests, 2 blocking providers, multiplier up to 3 | the limit, the end, no lost wake-up; the endpoint ends |
| `Request` | 2 requests in flight, 2 values of one provider (`block`), 3 provides (block, block, if_not_full), loggers | values are kept, one call for a request, requests end |
| `Stats` | buckets of 3 s, 13 s (3 to 4 buckets), 3 responses with 2 tags, 1 update, 1 s late | nothing is counted twice or lost, the file is accurate; the summary comes |
| `TestRun` | both kinds of test, 3 changes of the config, kills, read or write errors; 0.8 million states | ends are reported, one run at a time, the output is written; a load test exits |
| `ConfigYaml` | the smallest file with one change at any one place: a value, a kind of node, a field missing, unknown or twice, an empty collection, an anchor with an alias next to or inside it | a file is read as it is written |
| `LoadTestConfig` | a file whose parts read each of 6 kinds of names; 2 endpoints and all that may pace them; 3 endpoints with 2 providers and the filter | names resolve, nothing is unpaced |
| `LoadPattern` | up to 3 pieces, 60 or 120 hits a minute, 100 ticks a second, started at 3 places, some of them after the end of the pattern, on time or 2.5 s late; 0.16 million states | never more load than asked for; the starts end |
| `Readers` | every file of up to 4 bytes of 3 (lines) or 4 (JSON) characters, up to 3 rows, reads of 3 bytes, a queue of 2 | values as written, the thread serves or ends |
| `Select` | all triples of 8 operators in 4 shapes, no difference below zero; 11 selects by 7 wheres by up to 2 of 7 for_each; 13 declared expressions | rows and declared values as written |
| `ChannelEarlyEnd` | 2 senders, 1 receiver, 1 message each, limit 1, preemptive | the finding, below |

Why these bounds. A lost notification or a stale read in `Channel` needs a
process that reads, one that changes what was read and one that profits: two
senders and a receiver are all roles, a limit of 1 with 4 messages makes the
queue full, passed by one, forced past and empty again. A limit of 1 does not grow (see
below); the limit grows in `ChannelOneThread`, and that the soft limit holds when it
grows under senders that have read it is proved. On one thread the calls do not
overlap, so a second sender adds no order of accesses: one sender, two receivers
and two on-demand receivers are what one notification can be taken from (the
liveness properties of two senders do not finish in five minutes). A limit of 2 is the
least from which a channel grows. The fan-out reaches its limit with one
request to spare in both directions, and the multiplier its floor and ceiling.
Two requests over two values reach every pair of stages, and three provides
every pair of block senders and one that does not wait. Three to four buckets
have a first, an inner and a last one. Three events of the budget are an update, a
second one while the first is heard, and a kill or a failed write at any time.
The decoder has an anchor within an anchor, beside it and replayed within a replay;
the parsers meet each field with each kind of node. Three endpoints are the least
in which one that is required requires another. Three pieces have a first, an
inner and a last segment, shorter and longer than a wait. Four bytes with reads of
three cut a value, a newline and an empty line at each place. Three operators are
the least that tell precedence from associativity on both sides.

Deadlock is not checked (`CHECK_DEADLOCK FALSE`) where a system ends, or stops when
its bounded input is used up, with a liveness property where stopping would be
wrong; `Readers`, whose last state stutters explicitly, is checked.

### Fairness

- `Channel`: a call that was begun is finished and an endpoint polls a channel
  again when it is woken, so senders and receivers that are not dropped go on. A
  handle is treated strongly fairly since `At` disables it while another is in a
  call on the one thread; the runtime's queue is first in first out. On-demand
  receivers need only finish their calls.
- `FanOut`: the runtime polls a woken task and runs the spawned ones. The stream
  closes at some time, since a load pattern is finite; a request ends, since a
  response has a timeout and a body that was begun is taken to end.
- `Request`: every future that can go on does. A response comes or the timer does.
  Nothing makes a body arrive (there is no timer then) or a provider be read.
- `Stats`: a woken task is polled; the clock, the responses and the end may stop.
- `TestRun`: what is woken is polled, the duration of a test passes, and requests
  under way end.
- `LoadPattern`: the endpoint polls and the timer fires, however late.
- `Readers`: the thread and the task of `file` run. Nobody need drop the receivers.

`LoadTestConfig`, `ConfigYaml` and `Select` are sequential; their properties are
about what they come to, not whether.

## Findings

- `ChannelEarlyEnd`: `poll_next` looks at the queue first and at the senders
  afterwards; the last item of the last sender can be left in the queue.

Seen with other constants or other inputs, where a property fails or which an
instance leaves out for this reason:

*Channel*
- With `Preemptive` and `Calls = {"ready"}` `EverythingReceived` fails:
  `poll_next` finds the queue empty and listens afterwards (`lib.rs:603`) without
  looking again. An item pushed in between wakes nobody. `poll_ready` has the mirror
  case; it looks again only for the end of the receivers.
- `StartLimit = 1`: `FilledThenEmptiedGrows` fails. A receive
  compares the length after it with the limit, so a channel of limit 1 that is
  filled and emptied never grows, which the comment at lines 21-23 says it does.

*Request*
- With a source limit of 1 instead of 2 `Returned` fails: an auto return of `block`
  (`request.rs:82`) waits for room that only another request of the endpoint makes,
  and at its limit there is none.

*Stats*
- `SlowStart = TRUE`: a tick before `Start` is taken for the end of the
  test, and `SummaryIsTheFile` fails. With `LogProviders = FALSE`: after an update
  the task sleeps with nothing to wake it but what it was polled for before, and
  `SummaryComes` fails. With two updates unread the receiver lags, which the task
  takes for the end.
- `MaxLate` of a bucket: the task panics on the assertion at `stats.rs:415` and the
  test has no summary (`NoPanic`).
- `stats.rs:832` subtracts unsigned durations: a tick served after the duration of
  the test and before its end wraps or panics. The model has no duration.

*TestRun*
- `BadUpdates = TRUE`: an update that parses and makes no test ends the old run
  (`lib.rs:652`) and with it the task of Ctrl-C (`:339`); the process goes on without
  load, and `LoadTestExits` fails.
- `SlowTasks = TRUE`: two updates that a task has not been polled
  between are taken for the end of the test (`EndIsAnEnd`), and a run that is
  built while an update is sent hears nothing of it (`OneRun`).
- A try run that missed a message is not woken by the one that ends it, and may not
  exit when its endpoints have nothing to do: `LoadTestExits` is about load tests.
- Nobody waits for the writers of the stats file and of logs, nor for stderr after
  an error: what they have not written is lost.

*Configuration*
- An alias of a scalar (`[&x foo, *x]`) replays nothing: its range is `i..i`
  (`from_yaml.rs:300`). An alias that is replayed within its own anchor is skipped.
- An empty collection where a structure is wanted (`endpoints: []`) is refused or,
  for a list of structures, runs into `unreachable!`.
- The names a logger reads are required after the declared ones were left out, so
  a declared name that a log reads is taken from a provider of that name as well
  (`lib.rs:2756-2779`). The names that `logs` of an endpoint reads are not verified
  (`lib.rs:2931`).
- Those names are not required either: when nobody provides them null is logged
  (`request.rs:306` goes on to the next name), and a try run does not take in the
  endpoints that would (`Unchecked` in `EveryReadHasAValue`).
- A `declare` that reads `request`, `response`, `stats`, `error` or `for_each` is accepted,
  since `RequiredProviders` keeps a bit of it and no name to verify, and building its
  endpoint panics (`select_parser.rs:555`, "provider should be available"):
  `BuildFinds` says that nothing else does.
- A try run without loggers (`clear_loggers`) goes on reading the providers that the
  loggers read, which the guide (`cli.md:79`) does not say.

*Load patterns*
- A segment with no hits between two others, jumped over by the start before it,
  makes the subtraction of the remaining time underflow: the stream panics
  (`PauseInside` in `PatternEnds`).
- A wait follows the rate at its beginning, past the end of its segment: a load that
  starts slowly from 0 misses hits, and one that falls to 0 has about a quarter of the
  logarithm of its hits too many (`NoExtraLoad` allows one a segment). After a late poll the latency is subtracted twice.

*Readers*
- A JSON number that straddles a read of 8 KB is two numbers (`json_reader.rs:78`).
- A csv file without rows that is repeated calls itself without end
  (`csv_reader.rs:137`). The comparator that shuffles a list is not an order.

*Expressions*
- A `where` that reads `for_each` sees none when the select does not (`select_parser.rs:1497`,
  against `endpoints-section.md:190`), nor when it is asked before the body is read
  (`response_handler.rs:45`).
- `for_each: entries(x)` is spread twice, against `:188` of the same page; an error in
  a `for_each` that no select reads is swallowed.
- `1 - 2` is 0 (`to_json_number` casts to a `u64`, `select_parser.rs:842`), where the guide
  (`expressions.md:20`) says that `-` subtracts: `RowsAsWritten` fails on any expression with a
  difference below zero, and the run leaves them out (`MCSelect`); `!` has no effect, its rule in
  `select.pest` being silent; `for_each.length` is null.
- `collect(x, 0)` collects 4 values, the first capacity of a vector; `collect(x, 3, 5)`
  never collects 5. As a stream `&&` and `||` need both sides, and fail with either.
- An object indexed by a number is found in borrowed data and fails in owned data.

## Proofs

Every theorem is proved for every value of the constants that satisfies the
assumption of its module; nothing is assumed besides unless it is said here.

- **`ChannelProofs`**: `TypeOK` is inductive. It includes that who is about to push or
  to remove a digest holds the item, which is what `Push` and `Remove` need; the
  types of the event operators come first. `CountsMatch` is inductive with it.
  `SetIsQueue` is not: a sender past `insert` may push. `UniqueInv`
  adds that the set is exact (`SetExact`) and that a digest held by a call is neither
  queued nor held by another (`HeldApart`). Each action moves a digest between the
  set, a hand and the queue, and the three are kept together. `SoftLimit` needs the
  reason: a sender that has read a length below `m` and not pushed yet counts.
  `OvershootInv` states for every `m` from the limit on that the queue and the
  senders that read less than `m` together stay below `m + |Senders|` and what was
  forced; for every `m`, because the limit may grow while a sender holds what it read.
- **`ChannelProofs`**, in every interleaving: `ListenersServed` from `ListenInv`, which says
  for each of the three events at which labels a handle may be listed in it
  (`Homed`), that a sender that sleeps listens, and that once the receivers are gone it
  has been notified; that no receiver is still on its way to notify (`Closed`) makes
  the last of these inductive. `OneYieldPerNeed` is an action property that follows from it:
  at most one on-demand listener is notified at a time, and a yield uses it up.
- **`ChannelProofs`**, for calls that do not overlap (`~Preemptive`): `CallInv` says that at
  most one handle is within a call (`Alone`), what a call knows at each label
  (`SenderSees`, `ReceiverSees`: the length it read is the length, the limit is the limit, the
  queue is empty, nobody sends any more), and who takes the flag `hasMaxed` of an empty
  channel. From it `EndOfStreamMeansDrained`, the refinement of `BoundedQueue` (every step is
  one of its steps or a stutter; also assumes that no call is `force`, which passes
  the limit by design) and `FilledThenEmptiedGrows` (also assumes `StartLimit >= 2`:
  see the finding for a limit of 1). Overlapping calls break
  the first of these (`ChannelEarlyEnd`) and the limit of the second.
- **`FanOutProofs`**: one inductive invariant, `FanInv`. `NeverOverLimit` needs that
  a running request is among the oneshots (`RunningAreFutures`) and that the
  limit in force is at most the maximum; `SleepsWithReason` needs that the task is
  woken, or a round without progress has met a stream with its waker or a full
  limit (`HasCause`), and that a oneshot put back has its waker (`Watched`).
- **`RequestProofs`**: `ValuesKept` has two parts. `ValuesComeBack` is inductive with
  `TypeOK`, once it is known that a failed request stays failed. `KeepsOneOfEach`
  needs `ZipInv`: `zip_all` holds one value of each provider. `OneCall` needs `CallInv`:
  nothing is told before the stage that tells it, and whoever recovers from an error
  was not counted.
- **`StatsProofs`**: division is not in the provers' reach with a symbolic divisor,
  so `Round` is brought to `t = q * BucketSize + r` first. `TimeInv` says the
  interval and the bucket move together, at most a second apart; from it follow
  `NoPanic`, `CountsInTime` and, with `CountInv` (a response is in the inbox once,
  or read and counted once), `CountedOnce`. These three assume
  `OnTime == ~SlowStart /\ MaxLate + 1 < BucketSize`: a task that is served within its
  bucket. `FileIsAccurate` needs `FileInv`: what is in the file, in the buckets and not yet
  counted adds up for each response (`TallyInv`), the buckets of the file follow each
  other up to the one that is open (`PlaceInv`), a tag is written once and before
  what is counted for it (`TagInv`), and the beginning and the end of the file. It
  also assumes `[]UpdatesAreRead`: the task reads an update before the next one comes. Two
  unread updates make the receiver lag, the task takes that for the end (see the findings) and
  the file ends early: TLC finds it with `MaxUpdates = 2`.
- **`TestRunProofs`**: `FirstEndReported` needs `WaitInv`: what `create_run` has not
  received is the first end, an update, or more than one message. `EndsReported` adds
  that no task makes an end up, which needs `EndInv`: as long as nobody has ended the
  test, the tasks that tell an update from an end (`Discerning`) have at most one message
  unread, it is an update of a load test, and a try run has none. `OneRun` needs
  `RunsInv`: between an update and the run built for it every earlier run still
  has the update to hear. Both assume `OnTime == ~SlowTasks`, that a task
  is polled within the second between two looks at the config. `OutputComplete`
  needs `OutInv`: who still holds a writer, and what each has left to write last.
- **`ConfigProofs`**, `YamlDecoder`: `NothingForward` is inductive with `Nested`: of the ranges that
  are replayed each ends at least one event further back than the one it is replayed
  in. With it replays nest no deeper than events were recorded: no alias can
  reach its own replay.
- **`ConfigProofs`**, `LoadTestConfig`, for any files: `ReadsInv` relates each endpoint to what the file says
  of it however many loggers were added, `VerifiedInv` what `Verify` has seen of them after
  it, `PaceInv` says that a logger never makes an endpoint that had a pace lose it
  (`NothingUnpaced`). The selection of a try run is a closure, and `TryInv` is what holds
  within it: whoever provides what a selected endpoint requires is selected with
  its provides or queued, nobody is selected or queued but who is asked for, and a
  provider whose endpoints were queued is emptied. At the end the queue is empty,
  and what was selected is the least set that is closed (`TryRunServed`).
- **`LoadPatternProofs`**: `LoadInv` says where the stream is (`InPlace`: what it keeps are the
  last segments of the pattern, its place is where they begin, and the next start is
  not before it unless it is the first) and that the starts given, and the one that is
  to come, are hits of the pattern up to their times (`InTime`). Its step is that a wait gains a
  hit: the area under the line from one start to the next is a hit, up to a tick of
  rounding, where the segment does not fall (`WaitGains`); a wait that goes past the end of
  its segment costs one hit, of the one a segment that is allowed (`NextStartIs`). A sleep
  that makes up for a late poll does not end before the start in front, so it is at most
  one start early (`FireKeeps`); that is the one more that is allowed. Sums over
  segments are recursive functions; what is needed of them goes by bounded induction
  (`UpTo`). `NeverExtraLoad` is `NoExtraLoad` for every pattern without a segment that falls (`Rises`): in one that falls each wait, of the rate at its
  beginning, is a little short, and the hits it gains are not bounded. `PanicsOnlyInPauses`
  is for every pattern.
- **`ReadersProofs`**, for any files, any size of a read and any limit of the queue:
  `ValuesAsWritten`. The lemmas first say what a search finds in a buffer that begins
  between two values (`FindsLine`, `FindsJson`, gathered in `BytesFound`): the next value
  of the file, or nothing before more is read. That the end of a value is found alike in the buffer and in
  the file is shown for JSON by the depth of the brackets (`JsonDepths`). `PlaceInv` keeps the
  reader between two values, with exactly what it has read beyond that place in its
  buffer. In order, the values given are then those up to the place (`InOrderInv`). A
  random reader comes to know the marks, the places where its values begin, one by one in its
  scan (`RandomInv`); afterwards what is left to it, what it is about to give and what
  it has given are all the marks, each once (`ScannedInv`). A list that is shuffled has the
  values of the file in another order (`ListInv`). The theorem assumes
  `[]NumbersWhole`: no read ends between two digits of a JSON number. There the reader takes
  the digits it has for the number (see the findings), and the theorem does not hold. Files
  of lines and csv and JSON files of one-digit numbers, those of the run, meet this however the reads fall
  (`GivesOneDigitNumbers`), others in runs whose reads end elsewhere.

Only model-checked: all liveness properties (`NobodyWaits`, `EndpointEnds`, `RequestsEnd`,
`SummaryComes`, `LoadTestExits`, `PatternEnds`, `ReaderServes`), which need fairness and ENABLED,
and these provers reason about neither; what the recursive definitions of
`ConfigYaml` and `Select` compute (`ReadAsWritten`, `RowsAsWritten`, `DeclaredAsWritten`), which would go
by induction over a tree; and `NoExtraLoad` where a segment falls. There it is not true for every
value of the constants (a fall to 0 over enough hits passes it), so the run has the
patterns that fall, by up to a hundred percent in at most 20 seconds, and the theorem the others.

## Not modelled

- On-demand endpoints' gate (`request.rs:652-673`) over time, the values that
  `zip_all` holds between two polls, `select_any`: two endpoints over the same
  providers are not composed.
- The limit of a logger, what the writers of log and stats files have left to write (their
  errors are in `TestRun`), response providers' set-up.
- The totals of a try run and the histograms: data.
- `transition_from` of `lib/mod_interval`, which only its tests call.
- In expressions: `epoch`, `join`, `json_path`, `match`, `start_pad` and `end_pad`,
  `random`, `replace`, the random lengths of `collect` and `repeat`, `/` (numbers are
  whole), templates within paths; the grammar itself. In files: durations, percents
  and dates as text, error values.
- I/O errors of readers, except a csv row that cannot be read; the formats of csv. A row
  that is no UTF-8 passes the scan, which reads bytes (`csv_reader.rs:79`), and fails in
  `next` only (`:129`): the run has rows that fail in both.
- The bodies of responses, decompression, the WebAssembly wrappers and the
  results viewer: data or presentation without state of the load test.
- Reordering by the memory model, and the external crates beyond what the source
  relies on (tokio's broadcast, event-listener, concurrent-queue).
- Statistics of providers (`ChannelStatsReader`): they only read.
- What is printed, except which message a writer writes last.

## Plan

Done, in this order, the most important behaviour first: `Channel` (everything runs
through it), `FanOut` (how an endpoint runs its requests), `Request` (what happens
to a value), `Stats` (what is reported), `TestRun` (how it starts and ends), then
what they are given: `YamlDecoder` and `ConfigYaml`, `LoadTestConfig`, `LoadPattern`,
`Readers`, `Expressions` and `Select`.

Next, if the project is taken further:

1. `OnDemand`: endpoints over channels with the gate that forgets a demand while the
   zip is pending, `select_any`, and two endpoints over the same two providers. Abstract
   specification: a demand is answered or its provider ends.
2. The limit and `kill` of a logger under concurrent requests, and the writers of
   files.
3. Theorems: what of `Select` does not depend on the tree of an expression (when a rule is
   asked, how many rows it makes); `NoExtraLoad` where a load falls, with
   the logarithm of its hits.
