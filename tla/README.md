# TLA+ models of cc-nerf-buster

`cc-nerf-buster` is a local forward proxy that Claude Code talks through. It reads the
usage and the rate-limit headers of every answer, keeps counters, gauges and a running
estimate of what one percent of a rate-limit window costs, serves them on `/metrics`,
and writes one line per measured request to `usage.jsonl`. Python tools beside it drive
Claude Code through the proxy and estimate the same quantity from that log.

This directory holds TLA+ modules translated from that code, the configurations that
model-check them on small instances, and proofs of their main properties for every value
of the constants.

## 1. Inventory

| Part | Code | State it keeps | Operations | Talks to |
|---|---|---|---|---|
| Metrics | `metrics.go` | counters per model/org/upstream; per org/upstream a `gaugeSet`: atomic gauges, and under `costMu` the cumulative cost, two snapshots, two estimators; `quota_estimates.json` | `Record`, `persistEstimates`, `NewMetrics`/`loadEstimates`, `IncLogErrors` | called by the request path, read by the scraper |
| Metrics endpoint | `metrics.go` 402-558 | none | `ServeHTTP` | read lock on the maps, then each `costMu` |
| Capacity calibration | `metrics.go` 217-294 | what the estimators mean | the delta method | the upstream's meter |
| Throttled log | `throttle.go` | entry per category: last time, suppressed count | `throttledLog` | every goroutine that logs |
| Recording files | `log.go`, `debug.go`, `har.go`, end of `forwardWithCapture` | `usage.jsonl`, `debug.jsonl`, HAR document, buffered writers and their error, `first`, `closed` | `Write`, `Close`, one handler per request, shutdown | metrics, main |
| Proxy request path | `proxy.go` | connection, capture buffer, one-shot listener | CONNECT, passthrough, TLS termination, `forwardWithCapture`, stream capture | upstream, CA, metrics, writers |
| Anthropic protocol | `anthropic.go` | none | SSE/JSON parsing, quota headers, pricing | request path, metrics |
| SSL inspection | `ssl_inspect.go` | CA on disk, leaf cache | `LoadOrCreateCA`, `CertForHost` | request path |
| Process life cycle | `main.go` | flags, listener, writers | start, signal, ordered shutdown | all of the above |
| Quota estimator | `tools/quota_probe/estimator.py` | none: computed from the log | rows, observations, crossings, pairs, interval, stop test | `usage.jsonl` |
| Quota probe driver | `tools/quota_probe/measure.py` | samples, failures in a row, blocks | call Claude, wait for the log line, estimate, stop | Claude Code, proxy, estimator |
| Legacy capacity probe | `tools/capacity_probe/probe.py`, `crossings.py` | in memory the iteration, the last snapshot, the summed units, blocks; in a run directory `manifest.json`, `snapshots.jsonl`, `iterations.jsonl`, `position-constraints.jsonl` | start, iterate, bracket, stop on a signal, `--resume`, `--continue`, compare with an earlier run, result panel | proxy, `/metrics`, `report.py` |
| Capacity reports | `report.py`, `passive-report.py`, `validate_crossings.py` | `bounds.json`, `report.md` | detect boundaries, measure ticks, compare two estimators, sum `usage.jsonl` up | run directories, `usage.jsonl` |
| Mock upstream | `cmd/mock-anthropic/main.go` | a meter | answers | used by hand and by tests |
| Site builder | `scripts/build-site.py` | the output directory | load runs, clean, index, pages, `md_to_html` | published run directories |
| Install scripts, archived results | `scripts/*.sh`, `results/` | files | set-up; data and old copies of the tools | - |

The request path of the proxy is one goroutine per request on a hijacked connection. When
an answer has been copied to the client, that goroutine parses what it captured, calls
`Metrics.Record`, appends to `usage.jsonl`, and possibly writes a debug dump and a HAR
entry. `Record` touches three kinds of state in turn: atomics, a mutex per key, and one
file shared by all keys. The scraper runs beside it, and so does `main` when a signal
arrives. The Python tools see only `usage.jsonl`, in the order in which the handlers
reached the log.

What is hard here, and what makes each part correct:

* **Metrics.** `Record` enters `costMu` twice and other recorders run in between; the
  file is shared but the lock is not; a crash can fall between truncating and writing.
  Correct when no cost is counted twice, when a reload never finds more than was
  measured, and when an entry is not lost from the file.
* **Endpoint.** A scrape is no snapshot and holds one lock while waiting for another.
  Correct when what it shows together belongs together, and when it ends.
* **Calibration.** Five cases of one function, over sequences of any length, with
  rollovers that show and rollovers that do not, restarts and answers out of order. Correct
  when the estimate stays near the upstream's real price however many ticks have passed.
* **Throttle.** Entry found under a lock, tested and changed without one. Correct when no
  suppressed message is forgotten and a category is not printed too often.
* **Recording.** Writers are closed while handlers write; a failed flush is sticky; a torn
  line swallows the next one. Correct when each request is logged or its loss reported,
  and when the HAR document can be parsed.
* **Estimator and driver.** The estimate is read off bracketed crossings from an unknown
  starting position. Correct when the reported interval contains the truth, when the
  samples counted for the stop test are the ones that were taken, when the next percent is
  where the driver steers to, and when failures end the run and never bend its result.
* **Legacy probe.** A reading of the counters may precede an answer that claude already
  has; a signal or a kill falls between any two writes to the run directory, and a resumed
  run goes on from what is there. Correct when the rows sum up to what was used, when rows
  and crossings agree, and when every estimate made of them contains the truth.
* **Run directories, reports and site.** Files are truncated and filled; a later invocation
  or a build meets what a killed one left. Correct when a result that a run is compared with
  is measured and up to date, when derived files lag behind in order, and when a build ends
  and shows what it found.

The hazards of each part, at their lines and with the properties aimed at them, are in
`PROJECT.json`.

## 2. Modules

| Module | Models | Depends on |
|---|---|---|
| `CapacityEstimate` | `updateCapacityEstimate`, `quotaSnapshot`, `capacityEstimator` as operators | - |
| `Metrics` | `Record`, `persistEstimates`, `NewMetrics`: concurrent recorders, crashes, failed writes | `CapacityEstimate` |
| `Pricing` | the three price tables: `RequestCost`, `request_cost`, `request_cost_usd` | - |
| `PassiveReport` | `estimate_window` of passive-report.py as an operator | - |
| `Calibration` | `Metrics` composed with a metering upstream, `usage.jsonl` and the passive report | `Metrics`, `Pricing`, `PassiveReport` |
| `CalibrationProofs` | proofs about `Calibration` and `Pricing` | `Calibration`, `Sums` |
| `Scrape` | `Metrics` composed with `ServeHTTP` and the lock of the maps | `Metrics` |
| `MetricsProofs` | proofs about `Metrics` and `Scrape` | `Scrape` |
| `Throttle` | `throttledLog` | - |
| `ThrottleProofs` | proofs about `Throttle` | `Throttle`, `Sums` |
| `Recording` | the end of `forwardWithCapture`, the three writers, shutdown, restart | - |
| `RecordingProofs` | proofs about `Recording` | `Recording` |
| `QuotaEstimator` | `build_crossings`, `estimate_interval`, the steering's `in_window` and bulk step as operators | - |
| `QuotaRun` | a measurement run: upstream, requests in flight, rows, estimate | `QuotaEstimator` |
| `QuotaDriver` | `drive` of measure.py and the priming call, composed with the run's traffic | `QuotaRun` |
| `QuotaProofs` | proofs about `QuotaRun` and `QuotaDriver`, among them that the second implements the first | `QuotaDriver`, `Sums` |
| `Crossings` | crossings.py and the gate of validate_crossings.py as operators | - |
| `CapacityReport` | boundaries, ticks and bounds of report.py as operators | - |
| `UsageLog` | abstract: a log of readings of a counter | - |
| `CapacityProbe` | the legacy probe with its proxy, upstream, run directory, signals, kills, resumed invocations | `Crossings`, `CapacityReport`, `UsageLog` |
| `CapacityProbeProofs` | proofs about `CapacityProbe`, among them that it implements `UsageLog` | `CapacityProbe`, `Sums` |
| `RunDirectories` | all run directories: `--resume`, `--continue`, comparison, torn files | - |
| `Markdown` | `md_to_html` as operators over kinds of lines, and what it is there for | - |
| `Site` | published copies of run directories and builds of the site from them | `RunDirectories`, `Markdown` |
| `SiteProofs` | proofs about `Site` and `RunDirectories` | `Site`, `Sums` |
| `Sums` | lemmas: induction over naturals and finite sets, sums over sets | - |

Each `MC*` module instantiates one of these for TLC.

### How state and actions correspond to the code

**Metrics.** A *recorder* is a goroutine inside `Record`. The actions are the stretches no
other recorder can split: `Begin` (metrics.go:147-166, counters found and bumped), `AddCost`
(168-181, first critical section), `StoreGauges` (the atomics), `UpdateEstimates` (198-214,
second critical section), and while `costMu` stays held `ReadEstimates`, `OpenTruncated` and
`WriteEstimates` - the three system calls of read file, `O_TRUNC`, write. `WriteFails` is an
error of `os.WriteFile`; `Restart` kills the process anywhere and runs `NewMetrics` on what
the disk holds. The file is a record of its kind (absent, older schema, torn, current) and
its entries; a write over a longer image that another recorder put there in the meantime
leaves a torn file. Costs and utilizations are naturals: the rounding of float64 is left
out, its comparisons and sums kept. Histories (`spent`, `rewrites`, ...) influence nothing.

**Calibration** adds the upstream: `Serve` charges a request and forms the headers,
`Deliver` prices it with `RequestCost` and hands it to a recorder, `WriteLine` puts it into
`usage.jsonl` after `Record` has returned, where the passive report prices it by its own
table; `Rollover` empties a window, `Crash` loses the answers and lines under way but not the
charges. The header a response carries includes the response's own usage. A request may cost many
units; then a window that was reset can be back at its percent before the next answer, and no
fall of the utilization tells.

**Scrape** adds the series map and a scrape: `OpenScrape` takes the read lock,
`ReadGauges`, `ReadCost`, `EndScrape` are the families in the order they are printed, the
last two waiting for `costMu`. A call is numbered so that a scrape can be compared with the
calls it reflects; only the calls in `Followed` keep their number.

**Throttle** has a program counter per caller; lookup is atomic (throttleMu), everything
after it is interleaved. `lastLog` is a plain multi-word `time.Time` written without a lock:
a read of the zero value that races with the first write may find a mixture, which then
counts as any time (`Torn`). Between two set values the mixture lies between them as far as
the test can tell, and is covered by reading either.

**Recording** has a program counter per handler and a `phase` for `main`. `usage.jsonl` is the
set of readable lines, the set of lines glued to a torn one, and whether the last line is torn.
The three outcomes of `JSONLWriter.Write` beside a line that is written are
`WriteLogUnencodable` (`json.Marshal` refuses an event, for the NaN or Inf of a utilization
header), `WriteLogFails` and `WriteLogRejected`. The HAR document is the sequence of pieces
written after the preamble.

**QuotaEstimator / QuotaRun.** A pair of crossings stays a constraint
`lo <= dk * tick <= hi` instead of a fraction. `LogRow` is one round of `build_crossings`;
the driver recomputes everything from the whole log after each call, which gives the same
because the log only grows.

**QuotaDriver** puts the client beside that traffic. `step` says where `drive` is:
`Primed` is the call of with_proxy.sh, `BeginIteration`, `StartClaude`, `ClaudeSucceeds`,
`ClaudeFails`, `EventLands`, `WaitExpires` and `Retry` are `attempt_claude_call` and the
retries around it, `Sample` is what a served iteration cost, `Estimate` the estimate and
the stop test. The proxy finishes and logs a request whose client is gone
(`measuredUpstreamContext`, proxy.go:347-353), so charges and lines (`Charge`, `Refuse`,
`WriteServed`, `WriteExcluded`, `WriteRefused`, `WindowResets`) are actions of their own that
interleave with the driver's. The wait is satisfied by *any* line that is new since the
attempt began, a refusal's or the priming call's too, as in the code. Three histories
influence nothing: `streak` counts failed attempts since the last success, `abandoned` holds
the requests of failed attempts, and `asClaimed` is true while the driver's comment
(measure.py:433-436) holds: failed attempts left no line of status 200 and no open
request, and no call's line was overtaken. The size of a prompt is a choice; where the
driver expects the next percent and how far a bulk step goes are operators of
`QuotaEstimator` (`InWindow`, `InBulk`), and how the actuator is fitted is `Recalibrated`.

**CapacityProbe** is one run directory and every invocation that works on it. `pc` names the
place in probe.py's `main`: reading the baseline, writing the manifest, the head of the loop,
claude running, the snapshot after it, the row, the crossing and the bookkeeping behind it
(`CloseIteration`), the post-flight, the report. Each write to a file is a step of its own,
so that `Die` falls between any two; `Signal` only sets the flag that the code tests. What an
invocation keeps in memory goes with `Quit`; `Resume` rebuilds it from the files as
`load_resume_state` does, with `total` at zero as the code has it. The proxy records an
answer (`Record`) when it likes, before or after claude has exited; `StopProxy`,
`StartProxy` and `Rollover` are what may go wrong outside. Units are priced tokens, the cost
of a call is a choice among `CallUnits`, a percent costs `TickUnits`. `faithful` is true
while the gauge and the counters have followed one window in the order of its charges since
the baseline. The probe is the only client of its account.

**RunDirectories / Site.** Here a run is the clean ticks its snapshots hold, and the files are
what matters: a file is absent, torn (truncated and not filled) or whole; `Truncate` and `Fill`
are the two halves of `write_text`. Whether a run is dry is known in two ways, by its
directory's name, which with-proxy.sh makes of the word `--dry-run`, and by its manifest, which
the probe makes of its parsed options; an abbreviated option or a directory given by hand let
them differ. A run leaves its own directory out of the comparison by the spelling of its path
(probe.py:461), so `Resume` chooses whether it is given in the listed one. Of the four files
that report.py derives the model has the two that are read again, bounds.json and report.md.
`Publish` copies a directory into `results/` as it is. A build is a step per directory looked
at, the removal of the old site, the index, and per page a step per round of `md_to_html`'s
loop over a document whose lines are kinds; the documents are what report.py prints
(`ReportLines`) and every report of an older probe that stays within the converter's subset.
The text of a quote is converted again, as a document of its own; report.py prints one quote,
of a line of plain text. Archived reports have no line that ends a paragraph without beginning
a block (`InSubset`): of such a line md_to_html never gets away (build-site.py:312-315), and
none of the reports in `results/` has one.

## 3. Runs

Every bound is a constant of the configuration. Deadlock is checked except in `probe`,
`resumed` and `site`, whose systems stop when their invocations or builds are used up and
whose liveness properties say that they do not stop earlier. The others stutter, when their
bounds are used up, in a named action (`Finished`, `Over`, ...) that requires them to be
quiet, so a recorder that hangs is a deadlock.

| Run | Instance | Shows |
|---|---|---|
| `race` | 2 recorders, 2 keys, 6 calls, utilization 0..2, 1 crash, 1 failed write, no file or an old one | `TypeOK`; no dollar enters an estimate twice (`EveryDollarOnce`); the file never runs ahead of memory (`DiskNeverAhead`); a recorder writes its own key's current entry (`OwnEntryCurrent`); while rewrites do not overlap the file keeps every key's estimates, over crashes in the middle of a write too (`DiskMatchesMemory`) |
| `lost` (violation) | the same without crash and fault | overlapping rewrites of two keys lose an entry (`OthersPreserved`) |
| `calibrated` | 1 recorder, both windows, charges of 100 and 400, ticks of 300 and 500, 6 calls, a rollover, a crash, a failed write | neither the proxy's estimate (`Calibrated`) nor the passive report's (`PassiveAmortised`) has an error that grows with the ticks, although a call may cost more than one; what a rollover that no fall shows hides is bounded too; the passive prices are off by 8/5 at most |
| `scrape` | 2 recorders, 2 keys, 3 calls, one followed, 1 scrape, 1 failed write, fair | a shown utilization comes with its cost (`CostCoversUtilization`); every scrape and every call of `Record` ends (`LocksAreGivenBack`) |
| `throttle` | 3 callers, 2 categories, 4 calls, clock 0..3, interval 2 | `ThrottleTypeOK`; no call is forgotten or told twice (`EveryCallAccounted`); lines are an interval apart unless callers met (`OncePerInterval`) |
| `files` | 2 handlers, 3 requests, 2 failed writes, 2 processes | `RecordingTypeOK`; a request is logged or its loss reported, and a death costs a request of each handler at most (`LoggedOrReported`); the HAR document of a process that closed it is valid, that of a killed one repairable (`HarCanBeRead`); the log keeps up with the metrics until a flush fails, but for events that JSON cannot hold (`LogKeepsUp`) |
| `quota` | 2 in flight, 6 requests, ticks of 3, prices 0, 2, 7, one rollover, one cut answer | faithful runs give an interval that holds the truth and never contradict themselves (`IntervalSound`); no pair of crossings makes the constructor of `Interval` raise (`PairsAreIntervals`); the driver's steering knows where the next percent is (`BoundaryForeseen`) |
| `driver` | prompts of 1 and 2 tokens, 3 requests, 2 in flight, ticks of 2, 3 iterations of 2 attempts, 2 tolerated failures, a refusal, a cut answer, a reset, fair | `DriverTypeOK`; the samples of a run as claimed are its calls, account for the log and are fitted by the true line (`SamplesAreCalls`); such a run keeps the log in order (`OrderKept`); it gives up neither early nor late (`GivesUpInTime`); once it measures it ends (`DriverEnds`) |
| `retried` (violation) | the same with 4 requests and neither refusal, cut nor reset | the tokens of a killed attempt are sampled with those of its retry (`RetryNeverDoubleCounts`) |
| `probe` | ticks of 2, calls of 1 and 3, starts 0 and 3, target 1 tick, dry runs of 2 iterations, 1 answer pending, 1 resume, 1 signal or kill, 1 stop of the proxy or rollover, fair | `ProbeTypeOK`; the rows are the usage between the snapshots (`RowsTelescope`); rows and crossings agree (`StreamsInLockstep`); every estimate of a faithful run contains the truth: from the rebuilt crossings (`DerivedSound`), within an invocation (`LiveSound`), from report.py's ticks (`TicksBracketed`), and the gate opens for a right prior just where there are consecutive percents that the prior does not exclude (`GatePasses`); a completed run has measured what it announced or, from a baseline of zero, exactly one tick fewer (`MeasuresWhatItNeeds`); the panel shows every row once (`PanelShowsEveryRow`); invocations end (`Ends`); the run directory implements `UsageLog` (`ImplementsLog`) |
| `resumed` (violation) | the same | crossings of a resumed run exclude the true cost of a tick (`EveryCrossingContributes`) |
| `site` | 3 invocations of the probe on at most 2 runs, 1 kill, 2 clean ticks in all, 3 copies, builds or kills of a build over 3 names, archived reports of up to 3 lines | `SiteTypeOK`; a comparison shows measured ticks, and all of them unless an invocation died (`ComparisonIsCurrent`); derived files lag in order (`DerivedFilesKeepOrder`); the site is that of the last build that finished (`SiteShowsLastBuild`); builds end (`BuildEnds`) |

Why the bounds suffice. Two recorders of two keys are the least that can interleave
rewrites of the file, and two of one key the least that compete for a `costMu`; symmetry
over both sets is sound because neither is ordered nor named anywhere. Six calls fit, on a
single key, a first observation, an anchor, a counted tick, a rollover and a second anchor
with a tick, which visits every case of `updateCapacityEstimate`; utilization 0..2 gives
falls, repeats and rises. One crash suffices because a crash leaves only the file behind,
and every file content a run can leave is reached before it. In `calibrated` all charges are
multiples of 100, so that only the start's hundreds matter (`MCStarts`); the two requests
have cache writes with and without a breakdown by time to live. The one of 400 is dearer than a
tick of the short window (300), so it moves one or two percents, and after a reset it alone can
bring the window back to its percent; it is cheaper than a tick of the long window (500), where
a rollover behind an anchor always shows. In `scrape` the second call is followed: the first has made the series, the third can
overtake it. In `throttle` three callers let one store `lastLog` while a second tests and a
third reports. In `quota` a price of 7 crosses two or three ticks of 3 at once (a group), 2
sits inside a tick, 0 moves no bucket; the start anywhere in the window gives every
alignment. In `driver` three iterations of two attempts let a success fall between failures
and two failed iterations follow each other; three requests give the priming call, a failed
attempt whose request goes on, and its retry, and two in flight let the second overtake the
first. In `probe` a call of 3 units may cross one tick or two, a call of 1 none or one; from
a baseline above zero (start 3) a target of one tick needs two crossings, from zero one. One
resume gives a second invocation whose rows follow the first's, one kill or signal the state
it starts from, four iterations (`IterLimit`) both a run that reaches its target and one that
does not, two dry iterations (`DryIterations`) one behind a block that a late answer closed. In
`site` three invocations on two runs (`MaxDirs`, `MaxRuns`) are two runs and a resume of either, or
one run resumed twice, under another spelling too; two ticks (`MaxTicks`, over all runs) let a
comparison be with an older state of a run. Runs are probed beside the shortest archived report
only (`MCInit`); copies and builds are made once the probes are over, of one run (`MaxCopied`,
`ProbesAreOver`): a build works on a checkout, and whatever a copy finds in a
directory at some moment is what a kill at that moment leaves there. Copies, builds and kills of
a build together are three (`MaxWork`): two copies of one run and their build, a copy between
two builds or before them, a build after a killed one. Three lines
are enough for every pair of neighbouring kinds with something behind it.

The configurations of the violation runs differ from the passing ones only in what the
disagreement needs.

### Fairness

Four runs need it. `scrape` assumes strong fairness of each recorder's steps and of the
scrape's (`FairScrapeSpec`). Both are goroutines that Go's scheduler keeps running; their only
waits are `costMu`, a `sync.Mutex`, which in starvation mode hands itself to the longest
waiter, and `Metrics.mu`, whose `RWMutex` admits a waiting writer once the present readers are
done and the readers that came later after it. Starting a call or a scrape is not fair, nor is
a failed write. `driver` assumes weak fairness of measure.py's own steps (`Measuring`,
`FairDriverSpec`): claude is killed after `claude_timeout_seconds`, the wait for a line ends
after ten seconds, the backoff is a sleep. It assumes none of the priming call before it
(`Primed`): with_proxy.sh:94-102 runs that claude without a time-out, so a run whose priming
call hangs never begins, and `DriverEnds` speaks of runs that have begun. `probe` assumes weak
fairness of an invocation's own steps, and that claude exits: the probe waits for it without a
time-out (`communicate`, probe.py:1509), so `Ends` says nothing of a claude that hangs, but of
every other way the loop can go on. The endpoint's answer (`urlopen` without a time-out) is
local and comes from a proxy that answers or is gone. `site` assumes weak fairness of a build,
which waits for nothing (`BuildStep`; the probes beside it are assumed nothing of). Nothing is
assumed of the upstream or the proxy. Every other property is a safety property and assumes no
fairness.

### Abstract specifications

* `UsageLog` is what a run directory is for: a log of readings of one counter that only
  grows, each reading between the one before and the counter of the moment. `CapacityProbe`
  implements it (`ImplementsLog`) with the baseline and the rows' snapshots as the log,
  whatever interruptions leave behind; once the proxy was replaced only the growing is left.
* `QuotaRun` is the abstract run that `QuotaDriver` implements: a log written by anybody.
* `ExpectedHtml` (`Markdown`) and `Rendered` (`Site`) say without a loop what a build leaves.

## 4. Proofs

TLAPS checks these for every value of the constants, under the named assumptions in the
modules alone (`EventsAssumption`, `MarkersAssumption`, `FilesAssumption`,
`BoundsAssumption`; `MeterAssumption`; `ScrapeAssumption`; `ThrottleAssumption`;
`RecordingAssumption`; `RunAssumption`, `BucketAssumption`; `DriverAssumption`;
`ProbeAssumption`; `RunsAssumption`, `SiteAssumption`), which TLC evaluates in the runs.
Every invariant and every action property that a passing run checks is stated by a theorem.
Of sizes they ask that callers, handlers and directory listings are finite. `MeterAssumption` asks
more of the requests: their models are in every price table, what the upstream charges is what
`RequestCost` says and is positive, the breakdown of cache writes adds up to them or is absent, and
there is a dearest request. It may cost any number of ticks.

Where a model had a form that could not be reasoned about it was given another one that
means the same: sums over sets are `SumFunction` and `SumFunctionOnSet` (`Crossings`,
`CapacityReport`, `CapacityProbe`, `Throttle`, `QuotaDriver`), `Calibration` instantiates the
price tables under names, `Site` has a stable sort of its own (`ByStart`) and counts where
`Rendered` recursed, and the panel's lists are built by a recursive function (`ItersOf`).

**Sums.** The models sum over lines, samples, pairs and callers; the library's sum is a fold
in an order that is nobody's business. `Sums` proves that the sum over a finite set does not
depend on it: every nonempty set of naturals has a least element (`LeastNatural`), so
induction can be done over *sets* of numbers and of subsets (`NaturalsByInduction`,
`SubsetsByInduction`), which needs no operator as a parameter; the recursion of the fold has
one solution (`SummingUnique`), and adding, removing and replacing an element do what they
should (`SumAdd`, `SumRemove`, `SumSame`, `SumExtends`, ...). The other modules do their own
inductions, over rows, blocks, crossings or lines of a document, with `NaturalsByInduction`.

**MetricsProofs.** `TypeCorrect`: `Spec => []TypeOK`. `NoDollarTwice`, `DiskIsEarlier` and
`OwnEntryNeverStale` come from one inductive invariant,

    IInv == TypeOK /\ Backed /\ DiskBehind /\ ImagesBehind /\ Locking /\ OwnEntryCurrent

None of the three is inductive. That the estimate stays below what was spent needs
`Backed`: the anchored cost and the estimate never exceed the cumulative cost and its part
before this process. That the *disk* stays behind needs the same of the images in the
recorders' hands (`ImagesBehind`), since a stale one may be written later, and of each
recorder's own entry, which is current only because nobody else is past the lock
(`Locking`, `OwnEntryCurrent`). One lemma per kind of step (bookkeeping, releasing,
updating, reading) carries the argument.

`DiskKeepsUp` proves `DiskMatchesMemory` by a second invariant, `ApartInv`: as long as
rewrites do not overlap, at most one recorder is between reading and the end of writing,
what it holds of the other keys is what memory holds, and the file, when nobody is
rewriting it, equals memory.

The endpoint: `ScrapesOnlyRead` shows that `Scrape` implements `Metrics`, so everything above
holds beside any number of scrapes. `ScrapeCoversUtilization` proves `CostCoversUtilization`;
`ScrapeInv` follows the cost of a call from `costMu` to the gauges (`SettledFirst`,
`GaugesPaid`) and to a scrape between its two readings (`ReadingPaid`).

`CallsAreBounded` and `WaitsEndAtARewrite` say why nobody waits forever, as far as that can
be said without fairness: a call has at most six steps and a scrape three, each brings it
nearer to its end (`CallsMoveOn`, `ScrapeMovesOn`), a `costMu` is only kept through a rewrite of
the file (`HeldForARewrite`), and a rewrite waits for nobody, not even for the lock of the maps
that a waiting scrape keeps (`WaitsAreShort`).

**ThrottleProofs.** `CallsAreAccounted` proves `EveryCallAccounted` for any number of callers.
`AccountInv` adds a balance per category (`Balanced`): the calls are those told of by lines,
those waiting in the counter, those in a caller's hands, and what a caller has swapped out
and not printed yet. `LinesKeepDistance` proves `OncePerInterval`: `DistanceInv` follows a line
from the test that lets it pass to the print; as long as no two callers met, nobody else
writes `lastLog` in between (`Alone`), it is never older than a line (`LastIsLast`), and who
has passed the test is an interval away from every line (`Passed`). A racy mixture is ruled
out by `NewIsSilent`: who reads `lastLog` alone after the first line reads what was stored.

**RecordingProofs.** `RecordingTypeCorrect`, `NoneLostInSilence` (`LoggedOrReported`) and
`LogFollowsMetrics` (`LogKeepsUp`) come from

    RInv == RecordingTypeOK /\ Numbered /\ Fresh /\ Following /\ Down /\ Torn /\ Kept

`Numbered` makes a request one handler's, `Fresh` says that nothing is known of it before its
handler gets to the log, which is why a line is never both written and reported, and a
failed write always adds a new request to those that excuse a torn line (`Torn`).
`Following` places a request of the metrics that has no line yet with a handler that is
about to write it, or among those that JSON could not hold. What the ends of the process cost
(`Untold`, `CostOfDeaths`) is a second induction: a death adds to them the requests between answer
and line, one of a handler, and every other step that takes a request out of that place writes its line
or reports it. The handlers' steps behind the log share one lemma (`PastLogKeeps`), the
outcomes of `JSONLWriter.Write` another (`LogKeeps`).

`HarStaysReadable` proves `HarCanBeRead` with `HarInv`: entries and commas take turns, the
text ends in a comma exactly while the one handler that holds the lock is between its two
writes (`Unfinished`), and main closes the document while nobody writes (`ClosedLast`).

**QuotaProofs** is about `QuotaRun` and `QuotaDriver`. `EstimateIsSound` proves `IntervalSound`
for any prices, tick, number of requests in flight and length of run. `RunInductive` states
its invariant: in a faithful run there is one unknown starting position such that every
crossing's bracket, moved by it, contains the boundary of its percent (`Chained`), and the
measured cost plus the requests in flight balances what was charged (`Balanced`). A pair of
crossings then bounds the distance of two boundaries, which is `dk` ticks; the starting
position cancels. This is the claim of the repository's README.md:50 with the premise it
needs. `SteeringIsSafe` proves `BoundaryForeseen` from the same invariant: the last crossing's
bracket contains the last boundary, the next one is a tick further, and every constraint
admits the tick, so the near edge of the window never lies past the boundary, and nine
tenths of the way to it falls short. `PairsMakeIntervals` (`PairsAreIntervals`) needs no
faithfulness: brackets are in the order of the cost summed so far (`OrderInv`).

`DriverIsARun` shows that `QuotaDriver` implements `QuotaRun`: each step of the traffic is a
step of the run, the driver's own steps stutter. `GivesUp` proves `GivesUpInTime` for every
`MAX_CALL_ATTEMPTS` and `MAX_CONSECUTIVE_FAILURES`; the property is not inductive, and
`Counted` says at each step what the streak is in terms of the code's two counters.
`OrderIsKept` proves `OrderKept` with `OneAtATime`: in a run as claimed at most one request is
open, none between calls, and none once an attempt's line has landed; so the row that lands
is always the oldest. `MeasurementIsSound` puts the three together: such a measurement's
interval contains the true cost of a tick. `SamplesAreTheCalls` proves `SamplesAreCalls` from
`CallInv`: at each step the open request and the lines since the iteration began are the
call's (`OneCall`), samples and lines before it balance (`Accounted`), and the estimator has
measured the same lines (`Measured`). That the fitted line is the prompt's is an induction
over the samples: points on a line are fitted by it unless all have one size.

`RetriesCountOnce` is the premise under which `RetryNeverDoubleCounts` holds although it fails in
`retried`: as long as the failed attempts are as the comment has them (`asClaimed`). Lines are
numbered by requests, an attempt's own is newer than every line before it (`Numbered`), and
no request of an abandoned attempt is open or was served (`NoneLeft`). `DriverIsBounded` gives
the driver, its priming call included, a clock that never passes `LastClock`, a bound in `MAX_CALL_ATTEMPTS` and the number of
iterations alone: its own steps move the clock on, upstream and proxy leave it where it is.

**CapacityProbeProofs.** `ProbeTypeCorrect`, `RowsAddUp` (`RowsTelescope`) and
`ProbeImplementsLog` (`ImplementsLog`) come from `IInv == Types /\ Recorded /\ Placed`.
`Recorded` is about the disk: rows are numbered without a gap, each has its snapshot and its
units are the difference of two; snapshots without a row may lie in between.
`Placed` ties memory to it at each `pc`: between the snapshot and the row the newest
snapshot is the one to come, and `current` is that of the last row. A resumed run reuses a
stale label, and what makes that harmless is that the last snapshot of a label counts and
that no label a row refers to is ever written again (`Appended`). The refinement maps each step
of the probe to `Count`, `Restart`, `Read` or a stutter.

Everything about the crossings and the estimates comes from

    PInv == IInv /\ Grows /\ Standing /\ Lines /\ Follows /\ Cuts /\ Numbered

`Standing` says what an invocation has summed up since it began, `Lines` that every crossing
lies in the percents its row passed and every row that passed one has it, `Cuts` which rows a
death left without. `Lockstep` (`StreamsInLockstep`) is about these alone. `Follows` is what a
faithful run promises: there is one unknown part of the window that the proxy never counted,
and every reading is that part and the counted units, also through answers still pending.
From it every bracket contains its boundary once it is moved by the unknown and by what the
invocation began with; so the crossings of one invocation admit the true cost
(`LiveEstimateIsSound`), those rebuilt from the rows do (`DerivedEstimateIsSound`), the report's
ticks bracket it and the error of their midpoint is the sum of theirs (`BracketsAreSound`), and
a run that reached its target has passed each percent on the way in a step of its own, so that
its boundaries, and with them its ticks, can be counted: from a baseline of zero in one invocation
exactly (`TargetIsMeasured`). That `DerivedSound` also promises that the rows never fall, where the
rebuilding would raise, is `Follows` again: the percents are those of a growing sum.
`GateOpens` (`GatePasses`) goes another way: with each percent once, the legacy midpoints
telescope, so that they cannot all lie on one side of a pair's interval; what can shut the gate for
a right prior is that there are no midpoints, or that the prior lies on one side of all of them.

`PanelIsComplete` proves the action property `PanelShowsEveryRow` with one more invariant,
`Panelled`: the closed blocks tile the rows of the invocation (`Tiled`), the open one goes on
behind them and has a number of its own (`Open`), or it is the last closed one and the target
is reached. So `already_recorded` decides rightly, however the loop ended, and the panel's
three lists are neighbouring blocks that join to all rows (`ItersOfRange`, `TilesFlatten`).

`CrossingsContribute` is the premise under which `EveryCrossingContributes` holds although it
fails in `resumed`: no resume (`FirstInvocation`). `InvocationIsBounded` is the clock of the probe's
loop; rows stay in the loop's range however often a run is resumed (`InRange`).

**CalibrationProofs.** `OnePrice`: the tables of anthropic.go and estimator.py, transcribed one
beside the other, hold the same prices, and the estimator's rules give the proxy's cost for every
model and usage. `PassiveOverstates`: passive-report.py's give at least that, and at
most 8/5 of it, which is the factor of `PassiveAmortised`.

`EstimateIsCalibrated` proves `Calibrated` for one recorder (`Alone`), any keys, prices, ticks
and number of rollovers, crashes and failed writes. `CalInv` relates the window upstream, the
anchor and the estimate: an interval that is added begins and ends with an overshoot below
one charge, and the end of one is the beginning of the next (`Settled`); while a request is on
its way the same holds of the state it was charged in (`Flying`), and of what is on disk
(`Stored`). Nothing is asked of the size of a charge: an answer may move several percents, and a
window that was reset may come back at its percent or beyond it. What the anchored interval then
lacks is what was charged before the reset, less than a charge and a tick past the last crossing
(`Unseen`), once per rollover (`UnseenKeeps`); where no charge reaches a tick it is nothing.
With several recorders of a key answers may be recorded out of order, and the
property fails (section 5), so `Alone` is the premise of the run too. `ReportAmortises` proves
`PassiveAmortised` for one recorder and one key: `LogInv` holds the balance of lines, lost
lines and movement seen (`Amortised`) between each charge and its line.

**SiteProofs.** `DerivedFilesStayInOrder` proves `DerivedFilesKeepOrder` for any number of
runs, resumes and kills; `DirInv` adds that the report is
behind the snapshots too, for the time in which bounds.json is torn, and that bounds.json is that
of the snapshots while the report is written. `ComparisonsAreCurrent` (`ComparisonIsCurrent`) adds that
every run nobody works on has reported all its ticks, unless an invocation died (`UpToDate`), and
keeps what was found current until the invocation ends (`ComparedIsReal`, `FoundInv`). `SiteIsLastBuild`
proves `SiteShowsLastBuild` for reports of any length: `BuildInv` says at each stage of a build
which runs are loaded, sorted and rendered, and that each round of `md_to_html`'s loop begins
where a maximal run of lines begins (`Converting`), so that what it emits is the block that
the document means; the index is the runs in the order of their start because the sort is
stable. `SiteTypeCorrect` is their sum.
`BuildIsBounded` gives a build a lexicographic
measure (`Left`: stages, directories or pages, lines), which each of its steps diminishes. It
needs a directory listing to be finite (`SiteAssumption`); the round of `md_to_html`'s loop that
meets a line no branch takes is the one that could have stood still.

**Model-checked only.** Liveness (`LocksAreGivenBack`, `DriverEnds`, `Ends`, `BuildEnds`) is
out of this prover's reach, as is `ENABLED`: that a step which can be taken is taken in the
end. Proved is the other half of each: there are only so many steps to take
(`CallsAreBounded`, `WaitsEndAtARewrite`, `DriverIsBounded`, `InvocationIsBounded`,
`BuildIsBounded`). The three properties that the code violates (section 5) are proved with the
premise that it is missing: `OthersPreserved` as `DiskMatchesMemory`, while rewrites do not
overlap; `RetryNeverDoubleCounts`, while attempts fail as claimed; `EveryCrossingContributes`,
until the run is resumed.

## 5. What the code does differently from what is written about it

* `lost`: metrics.go:356-357 says that other org/upstream entries of the file are preserved.
  Each `gaugeSet` has its own lock, so two keys may read the same file and the second write
  drops the first one's update. It is back after that key's next tick.
* `retried`: measure.py:433-436 says that a failed attempt's traffic is logged as non-200, so
  that retrying never counts twice. An attempt that is killed while its request is being
  answered leaves a line of status 200 within the iteration, which the sample adds to the
  retry's.
* `resumed`: probe.py:1686-1687 says that every crossing contributes. `total_units` starts at
  zero in a resumed invocation (probe.py:1418) while the crossings it loaded carry the sums
  of the first one, so pairs of both exclude the true cost. The crossings rebuilt from the
  rows (`DerivedSound`) are right.

Noted without a run:

* An answer recorded late with a lower utilization counts as a rollover (metrics.go:230); the
  next, higher one then becomes an anchor although it lies inside its unit, which
  metrics.go:266-268 calls a just-after-cross position. `calibrated` records in order.
* anthropic.go:14 speaks of a record written for every intercepted request; handlers on
  hijacked connections are not waited for by `Server.Shutdown` (main.go:192).
* README.md:50 says that pairing cancels the unknown start. Crossings of two windows are
  paired by percent as well (estimator.py:315), and the unknown of each does not cancel.
* Two callers that meet in a category both log (throttle.go:11 says once per 60 seconds;
  `OncePerInterval` excludes them).
* The HAR document of a killed process may end in a comma, and the function `recoverHAR` that
  har.go:18-19 names does not exist.
* log.go:71-73 says that the log cannot drift behind the metrics. After one failed flush
  `bufio.Writer` returns its error for every later event, so one transient error ends the log of
  that process; and an answer whose utilization header is NaN or Inf, which `ParseFloat` accepts,
  is counted but cannot be encoded (log.go:55-60). Only `ccnb_log_errors_total` tells of either.
* A run from a baseline of zero counts its first crossing as a tick (probe.py:1282) although it only
  anchors one: it stops with "→ {target_ticks} clean tick(s)" (probe.py:1718) and has measured one
  fewer than that and than it announced (1251). `MeasuresWhatItNeeds` states the exact number.
* validate_crossings.py makes 0 .. 0 of the band when no two percents are consecutive (67-68) and exits
  with 1, as for a disagreement (157-163), though the run only has nothing to compare. A right
  prior that lies on one side of all midpoints shuts the gate too.
* probe.py:461 compares paths as they are written, so a run resumed under another spelling of its
  directory may be compared with its own earlier result.
* Whether a run is dry is taken from its directory's name by the comparison (probe.py:463) and from
  its manifest by --continue (646) and report.md; with-proxy.sh:34-42 names it for the literal
  word `--dry-run` only, which argparse lets one abbreviate.
* An answer without usage is excluded from the measured cost although the upstream charged it
  (estimator.py:247-248).
* passive-report.py:28 says that its price table must stay in sync with anthropic.go; it lacks
  `claude-opus-4-8` and prices five-minute cache writes as one-hour writes. Its
  `default_data_dir` reads `os` without importing it when `XDG_DATA_HOME` is set (336), and
  `render_report` takes the minimum of nothing when no line has a quota (313).
* crossings.py:305-308 says that the arithmetic cannot invert an interval; with the crossings
  of a resumed run it can.
* The footer shows a prior as the running estimate after one jump of two percents
  (probe.py:926-935): its crossings share a bracket and make no pair.
* probe.py:1726-1727 says that the iterations of a dry run that ended in the middle of a tick
  are shown as in flight. When other traffic lets a dry run pass a percent that is its
  target, the loop goes on with the block it has closed (1711-1715), which then counts as
  already recorded (1730), and the iterations behind the crossing are in no table.
  `PanelShowsEveryRow` leaves such a dry run out.
* The printed resume command names the recipe `probe-5h`, which runs the quota probe, and the
  legacy recipe's wrapper always passes `--run-dir`, which excludes `--resume`.

The premises of a *faithful* quota run are what the driver tries to arrange: one `claude`
call at a time (measure.py:437-440), without its side traffic (308-324). `OrderKept` says
that it succeeds while its attempts fail as its comment has it; a killed attempt, or the
priming call's line when it lands late, can break the order.

## 6. Not modelled

* Rounding of float64, the text of `/metrics`, formatting and wording of log lines, tables,
  cards and style sheets: pure functions of their input.
* Utilization headers that are no whole percents. Where one is NaN or Inf, `Recording` has what
  becomes of its line; what `Record` makes of such a number is left out.
* JSON and SSE grammar and the header parsing of `anthropic.go`, TLS itself: sequential code
  with unit tests. The routing, tunnels and body capture of `proxy.go` are net/http's and one
  sequential copy.
* The CA files and the leaf cache of `ssl_inspect.go`: two files and one reader.
* The prompt corpora and the sizes the probes choose from them (a choice in the models), the
  dry run's synthetic events of measure.py, the token amounts in the result panel, the list of
  cycles that reports print.
* The mock upstream, a test stand-in; the install scripts; the older copies of the tools in
  `results/`, which are data of past runs. `Site` takes an archived report as a document.

Assumed, because nothing in the code decides it: the header of a response includes its own
usage; the probe is its account's only client, so every snapshot reads the same series
(probe.py:276); the requests' models are in every table and `RequestCost` is the upstream's
price (`MeterAssumption`, section 4); the passive report's property is about the log of one key.

## 7. Plan

1. Done: the modules and proofs above.
2. The side of the log that the readers see: `usage.jsonl` written line by line and read
   while a line is being written (`QuotaDriver` reads whole lines).
3. The capture of a stream and the one-shot listener of `proxy.go`: the client's copy and the
   capture, cut streams, the limit of the buffer, the end of a connection; feeds `Recording`.
4. Creation of series in `Metrics` (double-checked locking) and the CA of `ssl_inspect.go`.
5. A second series in `CapacityProbe`, to state what a snapshot of another organization does.
6. An abstract durable store of estimates that `Metrics` implements while rewrites do not
   overlap.
7. Proofs: `Calibrated` for recorders of different keys, which cannot overtake one another;
   that `Site` shows its last build in terms of an abstract site; the new modules.

The project keeps to a dozen runs; a new module's questions join an existing run when they
share an instance, and the runs that show a known disagreement make room otherwise.
