# Sub-Translate: a verification project

Sub-Translate walks a directory for `*_en.srt` files, translates them through a
LibreTranslate server with a small pool of workers, and writes `*_en.vi.srt`
beside them. It is meant to be stopped and started again: a job state file
remembers which files are done, a persistent cache remembers translated lines,
and an adaptive throttle keeps the server from being overrun. This directory
holds TLA+ models of those parts and of what surrounds them (subtitle files,
command line, menus, dashboard), the TLC configurations that check them, and
proofs about each of them that TLAPS checks.

Run a model with `tlc -workers 2 -config <X>.cfg <module>` and the proofs with
`tlapm <module>.tla`, both in this directory. Line numbers refer to the
files under `src/internal/` unless another directory is given.

## 1. Inventory

| Part | Source | State | Operations | What is hard about it |
|---|---|---|---|---|
| Job state | `jobstate/jobstate.go` | table path → status in memory, log handle; snapshot, `.tmp` and `.wal` on disk | Load, IsDone, MarkSuccess, MarkFailed, Close, Compact, Delete | stops between two system calls, failing or short writes, operations after the handle is gone |
| Orchestrator | `orchestrator/orchestrator.go` | options, list of files, job channel, statistics, context | Run: scan, resume filter, pool, wait, cleanup | workers interleaved, cancellation at any moment, runs after runs over what earlier ones left on disk |
| File processing | `orchestrator/file_processor.go` | the output file | processFile | the output is written in place and in several writes |
| Scanner | `scanner/scanner.go` | none | Scan, OutputPath | takes the existence of an output for a finished translation |
| Cache in memory | `translator/cache.go` | 16 shards, each with a map and a recency list | Get, Put, Size | keys by normalized text, eviction, TTL, a lock per shard |
| Cache on disk | `translator/cache_persist.go` | snapshot, `.tmp`, `.wal`, log handle | Load, appendWAL, Save, Close | three parties (workers, flusher, Run) in Save and Put at once |
| Translation client | `translator/{translate,retry,http,client}.go` | results so far, attempt, contexts, metrics | TranslateTexts, batches, retries, split fallback | batch size changes under way, three nested deadlines, repeated failure |
| Throttle | `throttle/*.go` | delay and batch size (shared); average latency, decayed counters, state machine | Run, applyBackoff, RecordRequest, New | metrics and two tickers in any order, must not stay slow |
| Health check | `translator/health.go` | attempt | HealthCheck | bounded retry, a deadline per probe, cancellation between two probes |
| SRT | `srt/{parser,writer}.go` | parser state, current block | Parse, Write | blocks that are malformed or separated unusually, translations that look like structure |
| Configuration | `config/config.go`, `src/cmd/main.go` | Config | Default, LoadFromFile, Validate, flag merge | which source of a value wins |
| Menus | `tui/*.go` | Config, browser (directory, cursor, window, history) | menus, directory browser, runs from the menu | cursor against a window and a listing that change, two contexts |
| Dashboard | `orchestrator/dashboard.go`, `ui_helpers.go`, `ui` | state per worker, lines printed last | SetWorker, LogFile, doRender | redraws relative to a cursor others move |
| Report | `report` | none | Print | nothing decides on it |

How they interact: `main` (or the menu) builds a Config and calls `Run`. Run
asks the scanner for files and the job state what is done, starts the workers,
the flusher (a goroutine that calls `Cache.Save` every five minutes) and the
throttle's loop. A worker calls `processFile`, which calls
`Client.TranslateTexts`; that reads and fills the shared cache, reads the
throttle's two atomics before every request and sends it a metric after every
batch request. The worker then records the outcome in the job state and,
under another lock, in the statistics. After the last worker Run closes the
flusher's channel, saves the cache and, if nothing failed and nothing was
cancelled, deletes the job state.

What makes each part correct:

* Job state: what a later Load reads is what the process had, at whatever
  moment it stopped; no deleted or overwritten status comes back; one failure
  costs a known set of records.
* Orchestrator: each file is worked on once; statistics and job state agree;
  the job state is deleted only after success; a failure is retried and not
  forgotten; every run ends.
* Cache: the snapshot is never torn; an entry is lost only in a known window;
  a Load brings back order and values; the cache never answers with another
  line's translation.
* Client: line i of the answer belongs to line i; a call ends, with a bounded
  number of requests; it fails only for a reason of its own; it stops when told.
* Throttle: delay and batch stay in range; slower at once, faster only after
  evidence; full speed again when the server is well.
* SRT: what is parsed are whole paragraphs in order, nothing well-formed is
  dropped, and the output reads back as the same blocks.
* Front end: flags win over the file; the browser's cursor stays in its listing
  and its window; a cancelled run sends no probe but the one it was about to; the
  newest box of the dashboard is whole; a run always comes back to its caller.

`PROJECT.json` lists the components with their status and, under "hazards",
what is hard to test in this code, each at its line with the properties that
would catch it.

## 2. Modules

| Module | Models | Notes |
|---|---|---|
| `ResumeLedger` | what the job state promises | abstract: `live`, `durable`, `attached` |
| `JobState` | `jobstate.go`, one action per system call | implements `ResumeLedger` |
| `JobStateFaults` | the same with failing calls and torn lines | extends `JobState` |
| `Pipeline` | Run, the workers, processFile, the scanner's decision, over successive runs | composed with the job state through `ResumeLedger` |
| `CachePersistence` | Put's log line, Save, Load, the flusher, the end of Run, as sets of keys | abstract for the next |
| `TranslationCache` | the same with values, recency order, eviction, expiry and Save's race with Put | implements `CachePersistence` |
| `TranslateClient` | one call of TranslateTexts | environment: server, clock, other workers, throttle |
| `Throttle` | the throttle's decision loop | environment: metrics |
| `SrtFile` | Parse, processFile's lines, Write | the server's answers are free |
| `Dashboard` | the live display and the calls workers make to it | |
| `FrontEnd` | command line, configuration, menus, browser, health check | extends `Dashboard` |
| `JobStateProofs`, `PipelineProofs`, `CachePersistenceProofs`, `TranslationCacheProofs`, `TranslateClientProofs`, `ThrottleProofs`, `SrtFileProofs`, `FrontEndProofs` | theorems | each extends the module it is named after; `JobStateProofs` also `JobStateFaults` and `MCJobState` |
| `MC*` | symmetry sets, settings and constant values; `MCJobState` and `MCTranslateClient` also hold the code's loop or recursion as a reference for what abstracts it | |

### Correspondence

**JobState.** `entries` is `State.entries` (a missing key is `None`), `walFile`
is whether the handle is open, `snapshot` is the table the snapshot file would
load as, `wal` the sequence of log lines. `Mark` is MarkSuccess and MarkFailed,
which change the map and the log under one lock and so are one step. Compact
and Delete are one action per system call, so that `Stop` can come between
them. `Recovered` is what Load would build. `Replay` says what the loop of
replayWAL (jobstate.go:125-133) computes: the last line about a path decides;
`ReplayIsTheLoop` compares that with the loop itself.

**JobStateFaults.** `tail` is what follows the log's last newline: nothing, an
unparsable piece, or a record whose newline is missing. The handle is reopened
with `O_APPEND` and nothing repairs the tail, so the next record is glued to it
and replayWAL skips both. `damaged` is the set of paths such an event may have
cost since Load; it is only ever read by the property.

**Pipeline.** `phase` is where Run stands, `wpc`, `wjob`, `wok` are each
worker's position, file and `err == nil`. `output` is what a later run can see
of an output file. `live`, `durable`, `attached` are the job state as the
ledger JobState implements; Delete is three steps as in the code. `Crash` ends
the process anywhere, `Cancel` is a signal. Every run has a directory of its own
choice, one of `Trees`, which may overlap (`-dir`, the menus); the job state is one
file for all of them (config.go:57), so that a clean run in one directory deletes the
records of another. Either removal of Delete may fail, and so may reading the job
state. Nobody else writes to the directories. `promise`, chosen once, says what the environment keeps to in
all runs: that no output is ever cut short, or that nobody uses `--overwrite`.
Properties that need one of the two say so; with neither, the two hazards
destroy outputs the job state calls done, as below.

**CachePersistence.** A translation is taken to depend on its text, so cache,
snapshot and log are sets of keys. Put is two steps (`Put` under the shard's
lock, `Append` under `walMu`). Save collects the shards in order, one step
each, then opens, writes, renames, truncates. `fd` follows the file a Save has
open across renames, which matters when two Saves use the one temporary name.
`exposed` is the set of keys whose line was written behind the back of a Save
that was about to truncate, or could not be written or read. `cut` says that the
log ends in a line without its newline, which makes the next line unreadable (as
in `JobStateFaults`). `Expire` is a Get past the TTL. Run's own Save waits for the
workers but not for the flusher, as in the code: the flusher may be anywhere in its
Save, and may even begin another one. `overlapped` remembers whether two Saves of the
process ever had a snapshot to put in place at the same time; it is only read by
properties.

**TranslationCache.** A shard is its recency list, the log a sequence of entries,
and the server may answer one key in more than one way. Save holds pointers: the
keys in `linked` are entries it still shares with their shard, which a Put
rewrites in place under Save's eyes; reading a string while it is written may
yield either value or neither (`Garbage`). `Rebuilt` is what Load makes of
snapshot and log, list by list. `drift` records the events after which a shard's
order or values may differ from that. The module's states, forgetting values and
order, are those of `CachePersistence` (`Persistence`). Unlike that module it has no
failing calls and no overlapping Saves: what it says holds of the executions in which
the flusher's Save happens to be over when Run's own begins.

**TranslateClient.** Texts are model values; `Normal` maps a line to the
representative of its cache key, so two lines that differ in case share an
entry. `Translated(l)` is the server's answer to `l`; tagging it lets a property
say whose translation it is. `all`, `offset`, `batch`, `attempt` are the
variables of translateBatched and translateBatch. The recursion of
translateSplit is modelled by what it does, the lines from left to right until
one fails; `SplitGoesLeftToRight`, an assumption TLC evaluates, compares that
with the recursion for up to 12 lines. A context
is live, late (the rate limiter may refuse because the deadline is nearer than
the wait) or done.

**Throttle.** The variables of the loop. `requestDelay` and `maxBatchSize` are the
user's `RequestDelay` and `BatchSize`, chosen once from `Settings`; the code accepts
every delay and every positive batch size (config.go:148, 160), also outside the
throttle's own bounds. Fractions are integer divisions as
`int64(float64)` truncates. `cooldown` counts decision ticks. RecordRequest
never blocks and may drop a metric, so the loop sees any sequence of metrics.
`calm` (ticks since the last back-off) and `firstBaseline` are history.

**SrtFile.** A line is its number, and its kind is what the parser can tell of
it: blank, a number, a timestamp in range, any other text. `parser` is Parse's
state, current block and result. `texts` are processFile's references to lines,
`answers` the kinds of their translations. A line of `out` knows by `from` which
line of the file it stands for, and Write may stop after any of them.

**Dashboard.** `screen` is the lines above the cursor since the dashboard was
created. A render goes up by `lastPrintedLines`, at most to the top of a terminal of
`Rows` lines, and has then `text` to print, one line a step, over the `under` lines
that are still below the cursor; until the last is out it holds the mutex
(`Unlocked`). A worker's calls are separate steps (`at`), as the mutex is released
between them. The logger does not take it: `Warn` writes a line at any time, between
two rows of a box too. Such a line counts as one line of the terminal and takes the
place of the line it is printed over. A row is its place in the box and the number of
files done when it was printed; what it says of a worker is left out. `FrameRows` is
the rows beside the workers', nine in the code.

**FrontEnd.** `where` is the menu or the stage of a run. A menu is one step with
its choice free. Five settings stand for all, one of each way they are merged:
`dir` a text, `api` a text that is validated, `concurrency` a number that counts
when positive, `overwrite` a switch that counts when on, `adaptive` the one the
list of flags lacks. `browser` is the browser's directory, cursor, first row,
listing and two histories. A directory may disappear while it is shown. `probe`
and `attempt` are HealthCheck's loop, the check of the context and the request two
steps of it; `late` counts the requests sent after the run was cancelled. `ctx` is
main's context, `runCtx` the run's, which under the menus listens for signals on its own.

## 3. Runs and what they show

| Run | Configuration | Result |
|---|---|---|
| `job_state` | 2 files, logs of up to 4 lines, every initial snapshot | types, `NothingLostWhileOpen`, the replay loop, the refinement of `ResumeLedger` |
| `job_state_faults` | 2 files, symmetric, logs of up to 3 lines | `DamageConfined`: a failure costs only what it names, and a clean mark repairs it |
| `job_state_torn_line` | 2 files, logs of up to 2 lines | **violated** `NilErrorMeansPersisted` |
| `pipeline` | 3 files (one without text) in two directories that share one, 2 workers, either promise | one worker per file, report against job state, deletion, success means output, resume, retry, no forgotten failure, clean runs, termination |
| `pipeline_retry` | 2 files, 2 workers, writes may stop | **violated** `FailedIsRetried` |
| `throttle` | no delay with a batch above the floor, and a delay above the ceiling with a batch below the floor; 2 latencies (fast, spike), series of 2, a ceiling below and above three baselines | range and direction of the parameters, recovery |
| `cache_persistence` | 2 keys, 2 shards of one entry, 2 workers, flusher and final Save free to overlap | what tears the snapshot, confined loss, complete final Save |
| `cache_overlap` | the same with one worker | **violated** `SnapshotIsWhole` |
| `translation_cache` | 1 shard of 2 entries, 2 keys, one with two answers, 2 workers, log of 2 | what Load rebuilds, the final Save, the refinement of `CachePersistence` |
| `translate_client` | seven files of 0, 1 and 3 lines (2 of 3 texts share a key), batches of 1 to 3, one retry | alignment of results and cache, reasons to fail, number of requests, cancellation, return |
| `srt_file` | all files of up to 7 lines, answers blank, number or text | paragraphs, no unexplained loss, output reads back |
| `front_end` | 6 directories on 2 drives, window of 2, 2 files, 2 workers, a box of 3 rows on a terminal of 5, one line of the logger, 2 probes | merge of settings, cursor, cancellation, dashboard, return |

The passing runs say that the intended behaviour holds where the code can keep
it. The three violated ones are disagreements with what the code's own comments
say:

1. `job_state_torn_line` (jobstate.go:175). A line cut short has no newline;
   the next mark is appended to it, returns nil and is unreadable later.
2. `pipeline_retry` (scanner.go:60-65). A file fails while its output is being
   written. The next `--resume` run finds the partial output, the scanner skips
   the file before the job state is asked, and a clean end deletes its record.
3. `cache_overlap` (orchestrator.go:219). Closing the flusher's channel does not
   wait for a Save in progress; both Saves open the same `.tmp`, and one
   renames what the other has just truncated. `TornOnlyByOverlap` is the other half:
   nothing else tears a snapshot. Without tearing it, the flusher's older snapshot can
   also take the place of Run's after Run has emptied the log, and entries are lost
   although Save returned nil; `LossConfined` and `FinalSaveIsComplete` except
   processes in which two Saves overlapped.

Others follow from the same models, and bound what the passing runs claim:

* A Put into a shard that Save has already collected writes its line before Save
  truncates the log (cache_persist.go:202 against cache.go:40, "Each Put appends
  one line to the WAL"): a stop then loses it. `LossConfined` and
  `LogRebuildsCache` name this window (`exposed`).
* A clean run over one directory deletes the failures of another with the shared
  state file (orchestrator.go:227). As long as no write is cut short that costs
  nothing: a file that is not a recorded success and has no output is on the list of
  the next run over its directory (`UnfinishedIsRetried`). With a stump, the failure
  is the last trace of the file, and `FailureNotForgotten` speaks of the run's own
  directory only.
* With neither promise (`--overwrite`, and writes that may stop)
  `SuccessMeansTranslated` and `ResumeSkipsOnlyTranslated` fail:
  file_processor.go:72 truncates an output the job state calls done.
* A back-off can make the client faster (loop.go:273, "multiplicative
  increase"): a recalibration lowers the baseline and with it the ceiling
  `max(MaxDelay, 3*baseline)`; a delay that stood above the new ceiling is cut
  down to it by the next 429 or 5xx. With the default `MaxDelay` of 5 s this
  takes a server whose requests need more than 1.7 s. `BackoffSlowsDown` names
  it as an exception.
* Settings outside the throttle's bounds are valid. A delay of zero stays zero
  through every back-off until the first recovery; a delay above the ceiling falls
  to it at the first back-off; a batch size below `MinBatchSize` (5) is raised to it
  (loop.go:289). `ParamsInRange` and `BackoffSlowsDown` name these exceptions, and are
  checked and proved with them.
* The baseline is never raised (loop.go:106, 246): `FullSpeedAgain` is claimed
  for a server whose healthy latency is the lowest that was measured, and fails
  for one that was calibrated on faster answers.
* Load drops the error of opening the log (jobstate.go:75-79). `JobState` has
  that case (`walFile' \in {"open", "nil"}`); marks then reach memory only, and
  the refinement says so through `attached`.
* `LoadFails`: a snapshot that exists but cannot be read leaves the cache empty,
  and the final Save then replaces it and truncates the log
  (orchestrator.go:106, cache_persist.go:75-77).
* Load fills shards from the least recent entry (cache_persist.go:92), while the
  comment at line 17 speaks of "MRU-first so Load can stop early". The recency a
  Get gives is not logged; entries written with the TTL off never expire later.
* translateSplit sends only single-line requests, so a failed batch of N lines
  costs up to N of them, where translate.go:102 speaks of O(log N).
* A lone number before a block costs that block (parser.go:69,
  `AfterLoneIndex`), and an empty translation ends its block in the output
  (writer.go:23), both named in the properties.
* A line of the logger pushes one row of the box out of the next render's reach,
  where it stays (dashboard.go:128); a line between two rows stays there until the
  box is printed again. `BoxIsWhole` bounds what remains by the number of such lines.
* The log line of a finished file is counted in `lastPrintedLines`, so the next
  render writes over it, where dashboard.go:134 says it scrolls above the box.
* `-adaptive=false` is lost when a config file is read too (main.go:98-111); the
  file cannot switch throttling off either. `FlagsOverrideFile` speaks of every
  other setting.

### Bounds

* Files and workers: the pipeline's properties relate one file or one pair of
  workers. Runs follow each other without a bound, in two directories of which each
  has a file of its own and both have a third, so that either run can delete what the
  other recorded, and finds what the other wrote. `PipelineProofs` lifts the bounds.
* Log length: `MaxWal` bounds `Mark`; its lines are full histories over the
  two files, so that every order of two statuses of two paths, and one
  overwritten, occurs. The proofs lift the bound. `MaxLog` is 2 in
  `translation_cache`: two lines of one key, or one of each, in both orders.
* Throttle: the two settings are outside the throttle's bounds in both ways; the
  first recovery brings them inside. `MaxRequests` caps the decayed counter, above
  which a metric is not taken; rates below, between and above the two thresholds all occur. Series
  and cooldown are two ticks instead of five, which keeps every comparison. The
  smoothing factor is 1 (the average is the last latency), which makes the
  average jump as far as it can. `ThrottleProofs` lifts all of it for safety.
  The proofs of the other parts lift the bounds below as well, but for what
  `TranslationCache` and `OutputReadsBack` say (section 4).
* Client: files of three lines with batches of two leave a batch and a rest, and
  a batch of three splits unevenly. `sentLate` counts to two.
* Cache: each actor that can hold a different step of Put or Save is there. Two
  keys in one shard of two entries change order and are rewritten in place; in
  `cache_persistence` they share one of two shards of one entry, so that a Put
  evicts another worker's.
* `SrtFile`: seven lines hold two blocks, or one behind two malformed lines.
* `FrontEnd`: three folders in a window of two scroll. A box of two workers and one
  row more stands for the nine: rows are printed by the same statement one after the
  other. With its log line it just fits the terminal, and one line of the logger, at
  any of the moments between two rows, pushes the rest up. Command lines give no
  flag, one, or all.
  `MaxHistory` and `MaxGone` bound the browser's stacks and what disappears.

The type invariants of `CachePersistence`, `TranslationCache`,
`TranslateClient`, `SrtFile`, `FrontEnd` and `JobStateFaults`, and `PhaseOK`, hold
in the same configurations; the runs leave them out because they say little.

### Fairness

* `Pipeline!FairSpec`: as long as a goroutine of Run can take a step, one of them
  does (`WF` of all together, weaker than of each and enough here). A translation ends
  because its context has a deadline (orchestrator.go:177). Start, Cancel and Crash
  are not fair.
* `TranslateClient!FairSpec`: `WF` of the call: the limiter, timers and the HTTP
  client (60 s) return. That contexts end is not assumed.
* `Throttle!FairSpec`: both tickers fire again and again and metrics keep
  coming; recovery is claimed from the moment the server is well for good.
* `FrontEnd!FairSpec`: `WF` of the health check (a probe has a deadline), of the start
  of the workers, of a render's next line (standard output takes it) and of the run's
  end and report. `SF` of each worker: a file has a deadline, and its worker then
  needs the dashboard's mutex, which others take again and again to show their
  progress; `sync.Mutex` hands over to a goroutine that has waited for a millisecond.
  No key need ever be pressed.

`CHECK_DEADLOCK FALSE` stands where the model ends: a call of TranslateTexts
returns, a file is written, the program exits.

## 4. Proofs

TLAPS proves the following for every value of the constants that the named
assumptions of the modules allow. Together the theorems state every invariant
and action property the passing runs check; only four liveness properties are
left to TLC.

**`JobStateProofs`**, for every set of files, every bound on the log and every
initial snapshot:

* `TypeCorrect`: `Spec => []TypeOK`;
* `OpenLogLosesNothing`: `Spec => []NothingLostWhileOpen`;
* `JobStateImplementsLedger`: `Spec => ImplementsLedger`, by showing that the
  initial state maps to an initial state of the ledger and every step to a step
  or a stutter.

The assumptions are those of `JobState`: `None` is not a status and `MaxWal` is
a natural number. `NothingLostWhileOpen` is not inductive: Compact's
last step empties the log, which is harmless only because the snapshot already
equals the table. `PhaseOK` says which file holds what between two system calls,
and `IInv`, the conjunction of the three, is inductive. The lemmas are about
replaying a log: an appended line changes its own path only (`ReplayAppend`),
replaying over a table that already contains the log changes nothing
(`ReplayTwice`, why a stop between Compact's rename and removal is harmless),
and a path keeps its status or falls back to the base when the base is replaced
(`ReplayRebase`, Delete). `Replay` is a definition by the last mention of a path,
not a recursion, which keeps those lemmas short; `ReplayIsLoop`
(`Spec => []ReplayIsTheLoop`) proves that the loop computes it.

The same module proves, for `JobStateFaults` with its failing calls, short writes
and stops, `DamageStaysConfined`: `FaultSpec => []DamageConfined` (and
`FaultTypesKept`). What Load rebuilds is no longer the whole table, so the lemmas
about replaying are used path by path: a line about another path changes nothing
(`ReplayOther`), and a log replayed over a base that already agrees with it on one
path leaves that path alone (`ReplayOver`). The invariant adds `ClosedFirst`:
Compact and Delete touch the log only after they closed it. `NonePathAssumption`
keeps the unreadable line, which is about no path, apart from the files.

**`PipelineProofs`**, for every finite set of files, of which any may be empty, every
set of directories over them that share the job state, and every set of workers with a first one, over any number of runs:

* `OneWorkerAlways`, `DeleteSafe`, `SuccessSound`: `Spec => []OneWorkerPerFile`,
  `[]DeletedOnlyAfterSuccess`, `[]SuccessMeansTranslated`;
* `CleanRunSound`: `Spec => []CleanRunMeansAllTranslated`;
* `TypeCorrect`, `ReportSound`: `Spec => []TypeOK`, `[]ReportMatchesLedger`;
* `ResumeSkipSound`, `UnfinishedSound`, `FailureKept`: the action properties
  `ResumeSkipsOnlyTranslated`, `UnfinishedIsRetried`, `FailureNotForgotten`;
* `PipelineUsesLedger`: `Spec => Ledger!LedgerSpec`, and `DeletesClosed`: the guard
  of `Forget` never holds Run up. Every step of Run is one `ResumeLedger` allows;
  `JobStateImplementsLedger` is the other half: `jobstate.go` does no more than
  `ResumeLedger` allows. The two abstract steps Run never takes are `CatchUp`, which is `Compact`
  (no caller in src/ but the tests), and a `Detach` of its own outside `Delete`.

The first three share one inductive invariant `IInv`. Deletion is safe because a
file of the run is queued, held by a worker, reported as failed or recorded as a
success as long as nobody cancels (`Accounted`), because the queue is empty when
the last worker has left, and because the ledger is written before the file is
counted (`Recorded`). A success is sound because a file that waits has no output
and one about to be recorded has all of it (`Written`), which needs that no two
workers hold one file (`Apart`). `CleanRunSound` stands on a second invariant,
`Whole`: without cut writes a partial output is always in a worker's hands, and
whoever skips a file or calls it a success has seen an output. The report needs a
third, `CInv`, because a worker records a file and counts it in two steps:
`succeeded` counts the files that are over and not failed (`Counted`), a reported
failure is a recorded one that nobody works on (`Reported`), and what a run skips,
its list and the outcome it is cleaned up with fit together (`Decided`). The
action properties follow from the three; `UnfinishedSound` also needs `Loaded`, that
what is in memory when the files are filtered is what is on disk, or nothing. TLC checks all three on a small instance.

**`CachePersistenceProofs`**, for every set of keys, shards and workers:
`OnlyOverlapTears` (`Spec => TornOnlyByOverlap`), `LossIsConfined` and
`FinalSaveCompletes` (`Spec => []LossConfined`, `[]FinalSaveIsComplete`; and
`TypeCorrect`), about the flusher as it is, which nobody waits for. Until the first
overlap, and if none comes for good, the invariant says who can be at work (`Alone`,
`OneAtATime`), what the two files of a Save hold between its system calls, that a
Save which will truncate the log has collected every entry it has passed, but for the
exposed ones, and that once the workers are done a Save collects everything: so the
flusher may save again after Run's own Save and lose nothing. `CacheAssumption` says
among others that the flusher and Run are two.

**`TranslationCacheProofs`**, for every set of keys, values, shards and workers,
every capacity and every length of the log:

* `TypesHold`: `Spec => []TypeOK`, the shape of shards and snapshots, which no run lists;
* `LogRebuilds`: `Spec => []LogRebuildsCache`, what Load makes of snapshot and log
  at any stop;
* `FinalSaveRestores`: `Spec => []FinalSaveRestoresCache`;
* `CacheImplementsPersistence`: `Spec => ImplementsPersistence`, which carries the
  theorems of `CachePersistenceProofs` over to the cache
  with lists and values.

The proofs about the log rest on a few facts about the lists. A line puts one entry
to the front (`PushedMoves`). What Load makes of a shard depends on that shard's list
and lines only (`ReplayIsLocal`), and however two lists differ, after the same lines
they begin alike, as far as the keys reach that the lines name (`LogDecides`).
Hence replaying a log a second time, over lists that already hold it, changes nothing
(`LogTwice`), which is why a stop between the rename of a snapshot and the truncation
of the log is harmless, with order and eviction. Lists that differ only in the values
of some keys still differ in no more after the log (`AlikeReplayed`), and the line
yet to come about such a key makes them equal: the case of an entry that a Put
rewrites in place while Save holds a pointer to it.

`LogRebuildsCache` is not inductive, since it says nothing of a shard while a Put is
between its two halves or a Save under way. `Replays` says of such a shard that what
Load would build, from the snapshot or from the one a Save is about to put in its
place, becomes the shard with the line yet to come (`Yet`, `CatchesUp`). `Types`,
`Steps` (who saves, and what each step of Save leaves) and `FinalSave` (nothing moves
during Run's own Save) support it. TLC found them to hold on the run's instance
before they were proved. For the refinement, one lemma per action (`Impl*`) shows the
step of `CachePersistence` it maps to; `PutEvicts` says that a Put costs a key only
where the shard is full, `RebuiltFits` that Load builds keys of the files only and
drops some only where a shard is full.
`TranslationCacheAssumption` says that the capacity is positive, the shard of a key
is a shard, shards are numbered, and the flusher and Run are two.

**`TranslateClientProofs`**, for every text, every equivalence of lines, every
sequence of batch sizes and every number of retries: `EveryLineTranslated`,
`CacheStaysTrue`, `FailsForALine`, `CallsBounded`, `CancelStopsCalls` (and
`TypeCorrect`). Alignment follows from `Lookups` (what is missing, in the order of
the text, and what the cache answered) and `AnswersInOrder` (the answers so far
are those of the first missing lines, whatever batches brought them). `Budget`
keeps the accounts: every line answered for has paid for the requests of one line
and for a share in those of one batch.

**`ThrottleProofs`**, for every delay and every positive batch size a user can set,
every configuration of natural numbers with at least one stable cycle (the code's
literal is 5) and `MinDelay` not above `MaxDelay` (`DefaultsAssumption`: 50 ms and 5 s
in `DefaultConfig`, which no setting changes), and every set of positive latencies
with a largest one:

* `TypesAlways`: `Spec => []TypeOK`, with errors never more than requests;
* `SpeedUpIsEarned`: `Spec => SlowToSpeedUp`;
* `ParamsStayInRange` and `BackoffIsSlower`: `Spec => []ParamsInRange` and
  `Spec => BackoffSlowsDown`, with the exceptions the two properties name.

The invariant `Calm` keeps books: in a cooldown, ticks passed and ticks left make
a whole cooldown; afterwards every stable tick that is credited was calm.
`Calibrated` keeps the ceiling of the first baseline the highest. `StepShape`
reduces every step to a back-off, a recovery, or neither.

**`SrtFileProofs`**, for files of any length: `BlocksAreWhole`, `LossIsExplained` and
`OutputReadsAgain` (`Spec => []BlocksAreParagraphs`, `[]LossExplained`,
`[]OutputReadsBack`). The block at work is the paragraph read last (`AtWork`), a
block put aside is a paragraph that is over (`PutAside`), and a paragraph that
begins like a block is where the parser has it: at work or put aside (`Followed`).
Without the last, `LossExplained` says nothing of a paragraph before the file is at
its end. `OutputReadsAgain` reads the output with the same parser: `Written` says
that `out` is the beginning of `Output`, `Lays` where in it each block begins, and
`ReadsBlocks`, by induction over the lines, in what state the parser is after each
line of each block; a line of text is taken for text whatever it looks like
because the parser is in its text state there, and leaves it only at a blank line.

**`FrontEndProofs`**, for every tree of directories, every window, every set of
command lines, any number of workers, files and lines of the logger:

* `FlagsWin`: `Spec => FlagsOverrideFile`, from the steps alone;
* `ProbeStopsOnCancel`: `Spec => []AtMostOneLateProbe`. Once a probe was late the
  context is done, and no check is passed any more (`ProbeSound`);
* `CursorStaysVisible`: `Spec => []CursorVisible`. The cursor is visible because
  the top of the loop makes it so whatever a key did (`ShownIsSound`), as long as
  cursor and window are numbers (`Sane`);
* `NewestBoxIsWhole`: `Spec => []BoxIsWhole`, with `FrameRows` of any number. `Laid`
  says what the lines a render has printed so far look like, between the logger's and
  below what earlier ones left; `ScreenSound` that this and `text` make up a whole
  render at any moment. One lemma for each thing that can happen to the screen: a
  line of the render (`PrintLaid`), a line of the logger (`WarnLaid`), the cursor going
  up for the next render (`RenderLaid`), where k lines of the logger leave at most k
  rows of the old box out of reach, which bounds what remains over the whole run.

`FrontEndAssumption` says that a concurrency, where one is given, is an integer,
as the types of the flag and of the field in the file do.

**Folds.** What a loop over a log or a file computes is proved by induction, and the
library's induction theorems take an operator, which the provers cannot
instantiate. `JobStateProofs`, `TranslationCacheProofs` and `SrtFileProofs`
therefore begin with the same few lemmas: `UpTo` is induction over a set of
numbers, from the well-foundedness of `<` and the least element of the set where
something fails; `FoldExists` is the existence of the function that `FoldLeft`'s
recursion describes, for an operator given as a function. From these each module
proves that its fold goes line by line (`LoopUnfolds`, `RebuildRuns`,
`ReparseReads`).

What is only model-checked, and why: `RunEnds`, `FullSpeedAgain`, `CallReturns` and
`RunComesBack`. Liveness under fairness is out of the prover's reach.

## 5. Not modelled

The report, which only prints the statistics. Of modelled parts: the scanner's
directory walk and name filters; drawing, colours, widths and the decoding of
keys; settings of which no property speaks, and the rounding the settings menu
does to a rate it shows; metrics of latency and errors; the length of back-offs
and Retry-After; the clock of the TTL (any entry may be found expired); the
width of the shard hash; values and order in a cache whose two Saves overlap (which
keys survive is in `CachePersistence`); translations that contain line breaks; the
exit code;
and the loss of unsynced data in a power failure. A hazard in `PROJECT.json`
without a property says why none covers it.

## 6. Plan

Left for later:

* `ClientUnderThrottle`: `TranslateClient` and `Throttle` composed through the
   two atomics and the metrics channel; the fallback's requests are invisible
   to the throttle (retry.go:75).
