# A verification project for loadtest

`loadtest` runs scenarios against a target. Each scenario owns a pool of worker
goroutines, a metrics collector with a drain goroutine, and a runner that starts,
parks, resumes, restarts and completes it; a terminal UI or a headless command
drives the runners, and mailers, CSV writers and dashboards watch them. TLC checks the
specifications here on small instances; TLAPS proves, for every size, each invariant and
each property of steps that a run checks, and that the runner implements its abstract
specification. Liveness stays with TLC.

| Module | Models | Checked by |
|---|---|---|
| `LoadGenerator` | `internal/engine/load_generator.go` | `Generator.cfg` |
| `Collector` | `internal/metrics/collector.go`, without `Snapshot` | with `Snapshot` |
| `Snapshot` | `Collector.Snapshot` beside a running collector | `Collector.cfg` |
| `Runner` | `internal/engine/runner.go`, composed with pool and collector | `Runner*.cfg` |
| `Lifecycle` | what a runner promises: the abstract specification | as a property of `Runner.cfg` |
| `ScenarioRules` | `internal/config`: defaults, overrides of a suite, every rule | with `Exchange` |
| `Replies` | `internal/template` (extracts), `internal/engine/predicate` | with `Exchange` |
| `MockServer` | `internal/mockserver`: answers and the server's life | with `Exchange` |
| `Exchange` | `engine/session.go`, `precalc.go`, `NewRunner`, `internal/transport` | `Exchange.cfg` (`MCExchange`) |
| `MailConfig` | `internal/mail/config.go`, `merge.go`, the wiring's decisions | with `MailNotify` |
| `MailNotify` | `cmd/loadtest/email.go`, `mail/sender.go`, `status.go`, driven by `Lifecycle` | `Mail*.cfg` (`Mail`) |
| `Launch` | which files `loadtest run` loads, and offers | with `Dashboard` |
| `LogBuffer` | the scrolled log ring and the window of a list | with `Dashboard` |
| `Dashboard` | `internal/tui`, `cmd/loadtest/run.go`: start-up, keys, teardown | `Dashboard.cfg`, `RemoveThenQuit.cfg` (`MCDashboard`) |
| `Throughput` | `internal/metrics/throughput.go` | with `Report` |
| `Buckets` | `internal/metrics/buckets.go`, recording in `histogram.go` | with `Report` |
| `Report` | `RateCountsTheWindow`, `FileEndsFinal`, `BarsMatchLabels` | ring of 3 slots, lag of 2, 2 sessions, 1 reader, 5 slots of time, 2 requests, 1 restart, 3 bucket settings |
| `LoadGeneratorProofs`, `CollectorProofs`, `SnapshotProofs`, `RunnerProofs`, `ExchangeProofs`, `DashboardProofs` | proofs about the modules they are named for | tlapm |
| `MailProofs` | proofs about `MailConfig` and `MailNotify` | tlapm |
| `ReportProofs` | proofs about `Report`, `Throughput` and `Buckets` | tlapm |

`PROJECT.json` has the runs, the mutations each property detects, the source lines
behind each definition, the hazards and the findings.

## Inventory

**Worker pool** (`engine/load_generator.go`). State: the session context and the accept
context of the current cycle, `running`, `startTime`, `elapsedBank`, `totalSent`, a
WaitGroup. `Start` opens a cycle with the time that is left, `worker` loops until accept
is cancelled (by the parent, by the duration timer, by the worker that finds the cap used
up), `Wait` waits for the pool and banks the elapsed time, `Reset` forgets everything.
Called by the runner; calls a session per number. Hard: two callers in `Wait`, workers
racing for the last number, the WaitGroup's reuse rule, a time budget spread over several
cycles. Correct when the cap is exact, time is banked once, the pool is empty after
`Wait`, and a cycle ends by itself only for a reason.

**Metrics collector** (`metrics/collector.go`). State: atomic counters, histograms, a
buffered channel of outcomes, the pair `done`/`doneAck`. Sessions call `SubmitSent` and
`Submit` (which drops on a full buffer); a drain goroutine applies outcomes; `Stop` closes
`done`, awaits `doneAck` and replaces both; `Snapshot` reads without stopping anything.
Hard: the hand-over at `Stop`, channel fields replaced while a goroutine reads them, torn
reads. Correct when every request is accounted for once and the figures are final when
`Stop` has returned.

**Scenario runner** (`engine/runner.go`). State: the lifecycle state, the root context,
`doneCh`, `stopCollectorOnce`. Commands `Start`, `Stop`, `Resume`, `Restart` come from one
goroutine; each launch leaves a watcher goroutine that waits for the pool, stops the
collector, sets DONE, calls `onTerminal` and closes `doneCh`. Hard: watcher against Stop,
watcher against the next launch, several waits without the lock. Correct when DONE and
STOPPED mean final figures, each completion is announced once and in order, every command
returns, nothing panics.

**Session step loop** (`engine/session.go`, `engine/precalc.go`). Local state per session:
step index, context, extracted values. Renders, sends, extracts, picks the next step by
predicate. Hard: predicates that jump back, render
failures after partial work, cancellation between steps, state shared by all sessions: the
counters of the sequences, the pre-rendered bodies, the transport's label. Correct when each
request has one outcome, no two sessions share a sequence value, and a session ends.

**Expr predicates, templates, context factory** (`engine/predicate`, `template/`,
`config/context.go`). Pure, but for the atomic sequences. Hard: what counts as static, what
a missing key prints, which namespace shadows which.

**Scenario configuration** (`config/`). Defaults, the override of a suite, the rules of
scenario and mock files. Correct when what the rules accept can be run.

**Transports** (`transport/`, `engine/transport_factory.go`). Wrappers of HTTP and NATS
clients; a protocol label derived from its previous value. **Mock server**
(`mockserver/`). Endpoints that answer, fail or keep silent by a roll of the dice; a
`Shutdown` that waits five seconds for the handlers.

**Throughput, histogram, buckets** (`metrics/`). A ring of ten time slots; bucket edges.
Hard: the boundary of the window, clocks of several goroutines, rounding of edges.

**CSV report** (`report/csv.go`). A ticker goroutine, a stop channel, column names fixed by
the first row. Hard: columns that appear after the header; `Stop` twice; the last row.

**Mail notifications** (`cmd/loadtest/email.go`, `mail/sender.go`, `mail/status.go`).
Start, progress and terminal mails hang on the runner's callbacks, each send on a goroutine
of its own, one `Status` per scenario. Hard: a ticker registered after the run has ended, a
progress mail after the done mail, a slow send overwriting the status of a later one, the
exit of the command while a mail is under way. **Mail configuration** (`mail/config.go`,
`mail/merge.go`). Three layers, field by field.

**Terminal UI** (`tui/`). Parallel slices of runners, cleanups, snapshots and log buffers;
key handlers issue the runner's commands; `x` removes, `a` adds, `q` stops all and polls
until they have ended. Hard: slices kept in step, keys after `q`, cleanup that runs twice.

**Command line and headless mode** (`cmd/loadtest/run.go`). Resolves files, builds all
runners, waits for each `doneCh`, then for the mails; signals; deferred cleanup; rolls back
when one of several scenarios cannot be built.

**Manual, help, version**: text only.

Interaction: the UI calls the runner; the runner calls `generator.Start/Wait/Reset` and
`collector.Start/Stop/ResetAll`; workers call the session, which calls the transport and
`SubmitSent/Submit`; the watcher calls back into the mailer and closes `doneCh`; UI, CSV
writer and mailer poll `Snapshot`.

## The modules and the code

**LoadGenerator.** A cycle is one `Start`: the module numbers the cycles because goroutines
of an old one keep its contexts, while `CapReached` and `Cancel` go through the fields,
that is, the current cycle. Every worker goroutine ever spawned is an element of
`Workers`. One action per atomic step of `worker`: the loop check, the limiter, `Add` on
`totalSent`, the comparison with the cap, the session. `Wait` is two steps, parking and
the section under the mutex, with the real behaviour of `sync.WaitGroup`: the last `Done`
releases every parked goroutine, and one that then finds the counter above zero panics.
`Next` allows `Start` only when the pool is `Quiescent`; `Runner` shows when the program
respects that.

**Collector.** The four atomics, the channel and the drain goroutine (outer select, inner
loop, the two halves of `apply`). The two channel fields are numbered by `pair`, since the
drain goroutine reads the fields anew each time and `Stop` replaces them; closing one twice
is a panic. `inFlight` and `unsent` are history: requests whose outcome is not submitted
yet and outcomes of steps that failed before sending.

**Snapshot** extends `Collector` with a reader that takes one figure per step in the order
of the source.

**Runner** instantiates both. The user's goroutine and each watcher have a program counter;
what they do under `r.mu` is one step, each wait is several. `stopCollectorOnce` is a flag
and its holder, which `Launch` overwrites as the code does. A session sends one request.
Nothing makes a watcher run before the next launch: `Stop` waits for the pool and the
collector, not for the watcher, and a `Resume` may follow at once. The history variable
`overtaken` records a launch over a watcher that has yet to look at the state. After it
the code breaks promises (`RunnerStaleDone` shows one); what is said of DONE, of
STOPPED, of the components and of `Lifecycle` is therefore said up to that launch
(`~ overtaken`), with no assumption on how goroutines are scheduled. `OvertakesAfterStop`
says that it takes a Stop to get there: runs that end by themselves and are restarted
never do. The announcements, the abortion of requests and liveness are checked beyond it.

**Lifecycle** has four variables: phase, outcomes pending, outcomes counted, completions not
announced yet. `Runner` implements it (`ImplementsLifecycle`) under the mapping at the end
of `Runner.tla`: STOPPED splits into STOPPING, while the Stop is still inside its waits,
and STOPPED; pending is what is in flight, buffered or in the drain goroutine's hand;
counted is what the three outcome counters hold; owed is the number of watchers between
DONE and the close of `doneCh`. A runner begins IDLE, or SCRIPT_ERROR when an expr predicate
did not compile; only a reset leads out of that.

**Exchange** follows one scenario file from the disk to the wire. `Load` applies defaults,
the override and the rules of `ScenarioRules`; `Build` is `NewRunner`, with every refusal of
the transport, the context factory, the templates and the predicates in the order of the
code, and the pre-rendering of static bodies. Then sessions walk the steps: `Draw` takes one
generator after the other, since other sessions may draw in between; rendering and sending,
publishing, and each way a request comes back (answer, timeout, abort, a server that is not
there, a body that breaks) are actions of their own. A template is a JSON object whose keys
are constants or references into `ctx` and `session`; `hidden` keys are references in a form
that the regular expressions of `IsStatic` do not see. `Replies` has the extracts and both
kinds of predicate, with the operand types of the expr environment; `MockServer` the rolls
of the dice, the answers, `Start` with what makes it fail, and `Stop` with its five seconds.

**MailConfig** is the merge of defaults, the scenario's block, the mail file and the typed
flags, with a field as the set of its values (empty: not set). **MailNotify** runs up to
three goroutines per run through one send function: the one of `onStart`, the progress
ticker it leaves behind, and the watcher in `onTerminal`. The runner is the abstract
`Lifecycle` itself, instantiated with the module's own variables, so that a run may end,
be parked or be reset wherever the runner's promises allow. Every mail is delivered by a
goroutine whose SMTP dialogue may fail at each of its steps. `mode` is headless (which
waits for `doneCh` and then `WaitAll`, at most 60 seconds) or tui (keys s, r, R, q). When the
main goroutine exits, the others end where they are. `status` is the state of
the one `Status` that all sends of a scenario share.

**Dashboard** is the process: `Launch` decides which files are loaded, the start-up actions
build runners and writers with the roll-back of each mode, the dashboard handles one message
at a time, and both modes tear down. A runner is what `Lifecycle` promises with `Stop` as
one step, because it blocks the goroutine that owns the screen; a `Finish` may come between
any two messages. The four parallel lists are four variables, changed where the code
changes them; log lines go through a bounded channel to a listener that each message
re-arms. `LogBuffer` has the ring, the scroll offset and the visible window.

**Report** puts the figures of one scenario beside their readers. A session reads the clock
and records it later, under the ring's lock, so readings arrive late and out of order
(`Throughput`); a reader asks for the rate in the same two steps, and its advance clears
places of the ring that late records still aim at; replies go into the bars of `Buckets`; the writer's goroutine samples,
fixes its header at its first row and writes one last row when it is stopped. The histogram
is external: it tells values apart up to `Exact`, gives back the upper end of its own bar
above that, and stores nothing above `top`.

## Runs

| Run | Shows | Bounds |
|---|---|---|
| `Generator` | `CapHeld`, `DrainedWhenNotRunning`, `NoWaitGroupReuse`, `NaturalEndHasReason`, `NoSessionOnSpentBudget`, types | 2 workers, cap 2, limit 2 ticks, 3 cycles |
| `Collector` | `NothingLost`, `FinalWhenStopped`, `NoDoubleClose`, `MatchedWithinReceived`, types | buffer of 1, 4 kinds of outcome, 2 starts, 3 requests |
| `Runner` | `OvertakesAfterStop`, `DoneMeansFinal`, `StopMeansFinal`, `AbortsOnlyByStop`, `NoPanic`, `TerminalOnceThenClosed`, `OnlyUserLeavesStopped`, `GeneratorContract`, `CollectorContract`, `ImplementsLifecycle` | 2 workers, cap 2, buffer of 1, 2 lifecycles |
| `RunnerEnds` | `RunEnds`, `DoneIsAnnounced`, `CommandsReturn` | 1 worker, limit 1 tick, 2 lifecycles |
| `Mail` | `OnlyWantedMail`, `OneLiveTicker`, `StatusSettles`, `PasswordNeedsTLS`, `HeadlessWaitsForMail` | 66 combinations of layers, 2 runs, 2 keys, 1 request between resets |
| `Exchange` | `AcceptedScenarioRuns`, `OwnIds`, `OneOutcomeEach`, `SessionsEnd` | 2 sessions, 19 files good and bad over HTTP and NATS |
| `Dashboard` | `ScreenOK`, `TornDown`, `StartsAsTold`, `Exits` | 23 command lines, 4 keys, 4 runners, 2 log lines |
| `Report` | `RateCountsTheWindow`, `FileEndsFinal`, `BarsMatchLabels` | ring of 3 slots, lag of 2, 2 sessions, 1 reader, 5 slots of time, 2 requests, 1 restart, 3 bucket settings |
| `RunnerStaleDone` | a counterexample to `DoneAlwaysFinal` | 1 worker, 2 lifecycles |
| `MailVerdict` | a counterexample to `VerdictMatchesOutcome` | the dashboard, all triggers |
| `RemoveThenQuit` | a counterexample to `NoDoubleTeardown` | one scenario with a CSV report |
| `CsvColumns` | a counterexample to `Rectangular` | ring of 2 slots, 1 session, 2 predicates, 3 requests |

The questions behind some of the properties:

* `OnlyWantedMail` holds over every merge of the layers, including the file that does not
  parse; `OneLiveTicker` over every interleaving of `onStart` of one run with the end of that
  run and the start of the next; `HeadlessWaitsForMail` because the callback registers the
  mail before `doneCh` is closed; `StatusSettles` although several sends share one status.
* `AcceptedScenarioRuns` relates two parts of the program: what the rules let through, the
  constructors must not refuse, and no session may meet a step that has no address or does
  not exist. `OwnIds` relates sessions to each other and to pre-rendering: the body that goes
  out is what the session's own context renders to. `SessionsEnd` says when a session ends
  by itself: a predicate that leads back may keep it for ever.
* `ScreenOK` is what the views index by; `TornDown` covers every failure of the start-up,
  every quit and every interrupt; `Exits` is the liveness of `q`, with the exception the code
  has (a key after `q` may launch a run again).
* `StartsAsTold` says what each front end starts: the dashboard just what the command line
  names, and scanned files if told to; the headless command all that compiles.
* `RateCountsTheWindow` compares the ring with a count of every event by the slot in which
  it happened, and the time by which the count is divided with the oldest event in it: it may
  fall short of that by the lag of a late reading, and by no more. `BarsMatchLabels` compares
  bars with labels when rounding makes edges meet.

Why the bounds are enough. Two workers are what it takes for one to pass the cap while the
other holds a number, or to be in a session while the other ends the pool; cap 2 leaves
numbers for a resumed cycle; three cycles give a Resume after a Resume, so that time banked
twice reaches the limit too early. A buffer of one is full as soon as two outcomes meet a
busy drain goroutine. Two lifecycles are one overtaking; that watchers overtaken
more often announce nothing twice is proved (`CallbackOnceBeforeClose`). `MaxTime` equals
the limit or more, so the timer always gets to fire; `MaxTokens` stops the limiter only
where there is no cap, and never hides the end of a pool, which comes through the accept
context. Resets are not bounded: they lead back to states seen before. `Mail`: two runs give a ticker and a send that outlive
the run they belong to; one request between resets is enough for the figures to say done or
error; two keys reach stop-and-resume, restart and quit-while-running. A ticker sends one
mail at most: further ones repeat its states. `Exchange`: two sessions are what an id can
be shared by; no jump looks further than one step. `Dashboard`: four keys remove, confirm,
add and quit, or quit and revive; four runners are two loaded and two added; one scenario
that logs two lines fills a ring of one. `TabCount` 2 lets the log tab be reached with one key.
`Report`: a lag of two slots in a ring of three stands for less than a second in a ring
of ten (`MaxLag < BucketCount` is the rule that matters); five slots pass round the ring
more than once; two requests are one on each side of the window's edge, or two out of
order. Latencies 0 and 4 are below the range and at or above its end, and 4 is above
`Exact`.

Runs do not check for deadlock: an idle runner whose user calls nothing, a command that has
exited, a session that is over, or a run that has used up a bound, rightly stops. That nothing
waits for ever is `CommandsReturn`, `RunEnds`, `DoneIsAnnounced`, `SessionsEnd` and `Exits`.

Fairness. The Go scheduler runs every goroutine that can take a step, and nothing makes a
user press a key or a target answer.

* `Runner!Spec`: the user's goroutine inside a command, each watcher, each drain goroutine,
  each worker with its session, the timer with the clock. A request is answered, by the
  target or by its timeout, which is part of the worker's fairness.
* `Exchange!Spec`: each session, once begun. Whether a request is served is the mock
  server's affair and has no fairness; the timeout that the session itself sets has.
* `Dashboard!Spec`: start-up, the tick of the dashboard, its `quitDoneMsg`, the exit, and
  the end of each run that has one (`RunEnds` of the runner, for scenarios with a limit).
  Keys, interrupts and log lines have none.

## What the counterexamples say

* `RunnerStaleDone`: `Stop` waits for the pool and the collector but not for the watcher.
  If the user resumes before that watcher has looked at the state, it finds RUNNING, takes
  the new lifecycle for its own and settles DONE while requests are still being sent.
  The same launch can go wrong in two more ways, which is why the contracts hold only until
  it: the watcher may still be inside `wg.Wait`, released but not awake, when the resumed
  pool adds its workers (load_generator.go:121), and `sync.WaitGroup` panics, though
  README.md:20 invites the user to stop and resume "on the fly"; or it is about to take
  `stopCollectorOnce`, which the launch has just replaced (runner.go:330), and stops the
  collector under the new pool, where collector.go:165-166 forbids `Submit` after `Stop`.
* `MailVerdict`: the terminal callback classifies a run by a snapshot that it takes after
  the runner's lock is released (email.go:449). A Restart in between has reset the figures,
  so a failed run is announced as done, where email.go:373-375 promises the mail that matches
  the outcome.
* `RemoveThenQuit`: the deferred cleanup of `run.go` tears down every managed scenario, those
  that `x` has removed included; the CSV writer's `Stop` closes its channel a second time,
  which panics. The comment (run.go:247-249) says that what `x` removed "were already torn
  down" and that only "whatever survives to quit" is cleaned up.
* `CsvColumns`: the first row is written before any predicate has matched, so its header
  lacks the columns that later rows have; the comment promises a rectangular file.

Disagreements met on the way that have no run of their own, by component:

* Pool, collector, runner. `totalSent` is described as the number of session starts, but
  every worker that finds the cap used up has added one. `Snapshot` reads `sent` before
  `received` (collector.go:290, 315), so a busy scenario may show more replies than
  requests, where the comment promises a consistent view. `Restart` sets IDLE whatever the
  state was (runner.go:306), so a scenario in SCRIPT_ERROR runs all the same, against
  runner.go:65-67. The comment on `onStart` (runner.go:53-56) excludes the start inside
  `Restart`; the code fires it there.
* Sessions. The first value of a sequence is used up by the snapshot that pre-rendering
  takes (precalc.go:32 against config/context.go:15); `Restart` does not reset the counters
  (manual.md:1643). `IsStatic` does not recognise `{{index .ctx "id"}}`, so such a body is
  rendered once for all sessions; `OwnIds` leaves those templates out. An expr predicate
  on `body.*` never finds its operand over NATS. The total and the rate of the load count
  sessions, where the manual speaks of messages.
* Configuration. `LoadSuite` merges the override after validation (load_files.go:90-92), and
  the merge takes any value but zero (load_files.go:156-172), so that a negative one may
  leave a pool without workers; `AcceptedScenarioRuns` asks for workers only when no
  overridden number is negative. A
  context table without a type, or one that cannot be decoded, passes the rules and is
  refused by `NewContextFactory`. A template `""` is rejected, though the manual allows it.
* Transports and mock server. A label like "HTTP/1.1 (negotiated to h1.1)" is lost at the
  second response (protocol.go:40-57 against manual.md:1242-1244). Two endpoints with one path
  make the mock server panic (server.go:146). Its NATS `Stop` does not wait for handlers,
  and a subscription that fails leaves the connection open.
* Command line. `runHeadless` takes the named and the scanned scenarios as one list and starts
  all that compile (run.go:79-81, 539-548), whatever `--auto-start` says; run.go:50-52 and the
  manual (manual.md:131, 161-165) leave scanned ones idle when it is false. `StartsAsTold`
  states what each front end does.
* Rate. Two sessions read the clock, and the later reading gets the lock first: it becomes
  `firstRecord` (throughput.go:38-44), the earlier event is counted over too short a time, and
  the rate starts with a peak; throughput.go:27-28 has the time of the first call there.
  `RateCountsTheWindow` bounds the error.
* Mail. The ticker checks RUNNING and then sends, so a progress mail may follow the terminal
  mail, against email.go:473-477. An earlier mail that ends late writes its outcome into the
  status that names the terminal mail by then (sender.go:106-109), against status.go:66-70;
  `StatusSettles` says only that it does not stay pending. `wantsEmail` is true despite `--no-mail` when the mail file
  does not load. Quitting the dashboard may lose the terminal mail (run.go:301-303). An
  error in QUIT marks a delivered mail as failed (sender.go:199).
* Command and dashboard. The list of named files keeps duplicates, though run.go:121 speaks
  of loading each once; the browser offers a file that is loaded already. Scenarios added
  with `a` or `b` are not cleaned up on exit (types.go:29-32) and get no mail; `TornDown` is
  about those the command was started with. A CSV file that cannot be opened in headless
  mode leaves the writers before it open. A key after `q` can launch a run again, which
  `Exits` excludes through `revived`. Evictions move a scrolled log view, against the comment at
  log.go:26-35.
* Report. A writer that appends to a file writes the header again. A range smaller than
  its number of fine buckets gives an edge of zero.

## Proofs

A theorem holds for every value of the constants that satisfies the named assumptions of
the module; the bounds (`MaxTime`, `MaxKeys`, ...) are constants like the others. Each
`Spec => []P` follows the same plan: an inductive invariant, one lemma for `Init`, one or
more for the steps with one case per action, one that the invariant implies `P`, and PTL to
put them together.

### Pool, collector, snapshot

`LoadGeneratorProofs` proves, for every number of workers and cycles, every cap and every
limit (only `GeneratorAssumption`, the types of the constants), each property of the run
`Generator`:

| Theorem | Property | Inductive invariant |
|---|---|---|
| `TypeCorrect` | `TypeOK` | `Typed` |
| `WaitDrainsPool` | `DrainedWhenNotRunning` | `Pool` |
| `WaitGroupNotReused` | `NoWaitGroupReuse` | `Pool` |
| `CapNeverExceeded` | `CapHeld` | `Cap` |
| `NoCycleEndsEarly` | `NaturalEndHasReason` | `Time` |
| `SpentBudgetStartsNothing` | `NoSessionOnSpentBudget` | `Time` |

The properties are not inductive alone. `Typed` adds `startTime <= now`, without which the
bank could leave the naturals. `Pool` adds that a goroutine let out of `wg.Wait` finds the
pool empty: this is what makes an early return or a refill impossible. `Cap` counts the
workers that hold a number within the cap and have not started their session yet: sessions
plus these stay within both `totalSent` and the cap, so a second number below the cap never
exists. `Time` adds that bank plus current cycle are exactly the time the pool ran
(`BankIsExact`, which banking twice would break), that the timer is set to the moment where
that reaches the limit (`TimerIsRight`), that tickets are numbers already drawn, and that a
cycle opened with nothing left is closed before its workers look.

`CollectorProofs` does the same for the collector, from `CollectorAssumption`, and
`SnapshotProofs` for the snapshot:

| Theorem | Property | Inductive invariant |
|---|---|---|
| `CollectorTypeCorrect` | `TypeOK` | `TypeOK` |
| `ChannelsClosedOnce` | `NoDoubleClose` | `HandOver` |
| `EveryOutcomeCounted` | `NothingLost` | `NothingLost`, with `HandOver` |
| `StopLeavesFinalFigures` | `FinalWhenStopped` | `HandOver` and `NothingLost` |
| `MatchesNeverOvertakeReplies` | `MatchedWithinReceived` | `MatchesBehind`, `SeenBehind` |

`HandOver` is what makes the two channel fields safe to replace: only the drain goroutine of
the last `Start` is active (`OneDrain`), it listens on the pair in the fields (`Listening`),
that pair's `done` is closed exactly while one Stop waits (`OneStop`), the next pair is fresh
(`FreshChannels`), and without an active goroutine nothing is buffered or in flight
(`Quiet`). The first lemma of `SnapshotProofs` shows that a reader's steps leave the
collector alone, so its theorems hold beside a reader; `MatchesBehind` counts the reply whose
predicate the drain goroutine has still to record.

### Runner

The theorems above are about `Next` of each component, whose guards are its rules of use.
`RunnerProofs` shows that the composed program keeps the rules, so that they hold inside it.

| Theorem | Property | Holds |
|---|---|---|
| `CallbackOnceBeforeClose` | `TerminalOnceThenClosed` | always |
| `StopIsSticky` | `OnlyUserLeavesStopped` | always |
| `OnlyStopAborts` | `AbortsOnlyByStop` | always |
| `OvertakingNeedsAStop` | `OvertakesAfterStop` | always |
| `RunnerObeysGenerator` | `GeneratorContract` | until a watcher is overtaken |
| `RunnerObeysCollector` | `CollectorContract` | until a watcher is overtaken |
| `ComponentsKeepTheirPromises` | `CapHeld`, `NaturalEndHasReason`, `NoSessionOnSpentBudget`, `NothingLost`, `FinalWhenStopped` of the instances | until a watcher is overtaken |
| `ProcessSurvives` | `NoPanic` | until a watcher is overtaken |
| `DoneIsFinal` | `DoneMeansFinal` | until a watcher is overtaken |
| `StopIsFinal` | `StopMeansFinal` | until a watcher is overtaken |
| `RunnerImplementsLifecycle` | `ImplementsLifecycle` | until a watcher is overtaken |

All of them are theorems of `SafeSpec`, from `RunnerAssumption` (types of the constants)
alone; "until a watcher is overtaken" is part of the properties (`~ overtaken`), and the
counterexample above shows why it is there. `OvertakingNeedsAStop` says
when that is no restriction: in every behaviour in which no run is stopped. The first three
rest on `Channels` (every `doneCh` belongs to the one watcher that made DONE
of its lifecycle, and has been announced as often as that watcher's place says) and on
`CancelledByStop`. The invariant of the others is
`RunnerInv == Channels /\ Prompt /\ Parts`, which holds while `~ overtaken`. `Parts` is the
components' own invariants, taken from their proof modules by `INSTANCE`, so that no step of
a component is proved twice.
`Prompt` relates the parts: one watcher at most is under way and it is that of the last
lifecycle, the pool is that of this lifecycle, the Once is held by whoever is inside the
collector's Stop and has run when the state is at rest, and the requests that workers wait
for are as many as the collector has in flight. With it each step of the runner is a step of
each component or leaves it alone (`StepContract`), which carries `Parts` over, and a step
of `Lifecycle` or a stutter under the refinement mapping (`UserRefines` and the lemmas after
it).

### Exchange

| Theorem | Property | From |
|---|---|---|
| `AcceptedFilesRun` | `AcceptedScenarioRuns` | `Accepted`, `Walking` |
| `EveryRequestOneOutcome` | `OneOutcomeEach` | `OneOutcomeEach`, `Walking` |
| `IdsAreOwn` | `OwnIds` | `Drawing`, `Distinct`, under `TextsDiffer` |
| `BodiesAreOwn` | the second half of `OwnIds` | `Drawing` |

`ExchangeInv` is the four together. `Accepted` says what the rules leave of a file (`Sound`:
every jump has its step, every request its address, every reference a known namespace), which
the override cannot undo; `Walking` where each session is; `Drawing` that each counter is at
least what was drawn from it, and that each body is rendered from a snapshot with the same
constants as the session's own. `Distinct` is the first half of `OwnIds`. It needs that
different integers have different texts, since the module TLC leaves open what `ToString`
is; `TextsDiffer` says so as a hypothesis of that one theorem. `ExchangeAssumption` gives
the setups the shape of a decoded file.

### Mail

| Theorem | Says | From |
|---|---|---|
| `NoMailWins` | a typed `--no-mail` leaves mail disabled, whatever the layers say | definitions |
| `TypedTextWins` | a typed text that is not empty is the merged one, in every field | definitions |
| `OnlyWantedMailGoesOut` | `OnlyWantedMail` | `Hooks`, `Posted` |
| `HeadlessKeepsItsMail` | `HeadlessWaitsForMail` | `HeadlessEnds`, `Posted` |
| `AtMostOneLiveTicker` | `OneLiveTicker` | itself, with `Shape` |
| `StatusNeverStuck` | `StatusSettles` | itself, with `Shape` |
| `NoPasswordInTheClear` | `PasswordNeedsTLS` | itself |

`MailInv == Shape /\ Hooks /\ Posted /\ HeadlessEnds`. `Shape` has the types
and which goroutines a run can have; `Hooks` that whoever is inside a hook was called through
a configuration that can be delivered; `Posted` that the terminal mail is there when it has to
be; `HeadlessEnds` follows main from the close of `doneCh` through `WaitAll`, which must have
the terminal mail among those it awaits. No assumption but `MailAssumption`: the
setups, with every field of every layer, are arbitrary.

### Dashboard

| Theorem | Property | From |
|---|---|---|
| `DashboardFitToDraw` | `ScreenOK` | `Listed`, `Buffered`, `Focused` |
| `CommandTearsDown` | `TornDown` | `Underway` |
| `CommandStarts` | `StartsAsTold` | `Told` |

`DashboardInv == Typed /\ Listed /\ Buffered /\ Focused /\ Underway`: the parallel lists are
about the same distinct runners, each with a listener; each ring has lines of its own runner
and an offset inside; the selection and the confirmation are about the list as it is; the
scenarios of the command have their runners. `Told` says that until the first key the
runners are those of the loaded files, in order, that the dashboard runs those that had to
start, and the headless command those that compile.
What `Launch` loads is a fold over directories inside which suites are folded: the lemmas
from `FoldExists` to `CommandLoads` say that the scan finds no file twice and none that is
named, and that the first part of the list is what the command line names. The assumptions are that
command lines and suites name files that exist in `Files`, and that the scenarios of a
command fit into `MaxRunners`.

### Report

| Theorem | Says | From |
|---|---|---|
| `RateIsOfTheWindow` | `RateCountsTheWindow` | `RingInv` |
| `EdgesStayIncreasing` | appending an edge the way the code does keeps the edges strictly increasing, whatever rounding gave | definitions |
| `BarIsTheOneLabelled` | over strictly increasing edges, a latency is in the bar whose label covers it, and in no other | definitions |
| `BarsAreAsLabelled` | `BarsMatchLabels` | `BarsInv` |
| `TheFileEndsFinal` | `FileEndsFinal` | `FileInv` |

`RingInv` says which slot of `recorded` each place of the ring holds, that no reading of a
session is older than `MaxLag < BucketCount` slots, that a reader's is not ahead of the clock,
and that `firstRecord` is at most `MaxLag` later than the oldest event recorded; the heart of it is that `Advance` clears
just the places whose slots have left the window, however far the clock has gone. `BarsInv`
says that a bar is the sum of what was recorded in the range of its label: every layout gives
strictly increasing edges (`EdgesFit`), so a latency has one bar. `FileInv` says that the
writer is told to stop only after the run has ended for good. `SettingsAssumption` types the
bucket settings and puts the range's end within what the histogram stores.

### Induction, and what is left to TLC

The sums, the lists of edges and the lists of files are folds of the community modules. The
library's induction theorems take an operator as a parameter and cannot be used here, so
what a fold computes is proved from well-foundedness: of the inputs for which the claim
would be false take the least (`LeastExists`, by `WFMin`), and contradict it (`EveryNumber`,
`EverySubset`, `FoldExists`). The modules involved have no RECURSIVE operator.

Only model-checked:

* liveness: `DoneIsAnnounced`, `RunEnds`, `CommandsReturn`, `SessionsEnd` and `Exits` depend on
  fairness, and with it on ENABLED, which the provers do not handle;
* the four runs that find a violation;
* the mock server's own behaviour (`MockServer`) beyond what the theorems on `Exchange` need.

## Not modelled

* What is drawn: `overview.go` and the `View` methods, colours, layout, formatting of
  figures. The rows and lines that are visible are in.
* Manual, help, version, and the printing of `validate`, whose rules are in `ScenarioRules`.
* Libraries: TOML decoding, `text/template` and the expr language beyond one comparison,
  with the helper functions the program adds; TLS, certificates and connections; SMTP, HTTP
  and NATS as protocols below the calls the program makes; the percentiles of the
  histogram, and `observeMax`.
* MIME text, attachments and the summary line of a mail; the in-memory log that only mails
  attach.
* Numbers that random generators draw; the limiter's rate: a token may come at any time.
* `LoadGenerator.Stop` and `onDone`, which have no user in the program.
* In `Runner`: more than one step per session (that is `Exchange`), and the `onStart` callback,
  which changes no state of the runner (its effects are in `MailNotify`).
* In `Dashboard`: mails, so that the state space stays small; they are in `MailNotify`.

## Plan

Done, in this order: `LoadGenerator`, `Collector`, `Snapshot`, `Lifecycle`, `Runner` and the
proofs of the first three; `MailConfig`, `MailNotify`; `ScenarioRules`, `Replies`,
`MockServer`, `Exchange`; `Launch`, `LogBuffer`, `Dashboard`; `Throughput`, `Buckets`,
`Report`; then `RunnerProofs`, `MailProofs`, `ExchangeProofs`, `DashboardProofs`,
`ReportProofs`.

Left: that `Lifecycle` alone keeps the promises its users rely on (`MailNotify` takes it as it
is, and its theorems with it); properties of steps about the dashboard's runners, as
`Exits` has them under fairness; which bodies `hidden` references give away, as a theorem
about pre-rendering rather than an exception of `OwnIds`.
