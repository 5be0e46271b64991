# series-factory: a TLA+ development

Specifications, model-checking configurations and machine-checked proofs for the
series factory: the batch programs that turn exchange archives and on-chain logs
into index shards and bars, calibrate and verify them, and the maintenance jobs
that run beside the live aggregator. Paths are relative to the repository root
(`src/src/...` is the crate's `src/`); *live* means the live aggregator, a program
of the SDK (`nxr_sdk`) that is not in this repository and is modelled as
external, from how the code here uses it.

## 1. The system

```
 archives ──fetch-crypto-history──▶ ticks/<exch>/<pair>/*.ticks
                                        │ ticks-to-idx (one per exchange)
                                        ▼
                         indexes/<exch>/<pair>.idx  ──merge-idx──▶  indexes/<id>/<date>.idx
                                                                      │        ▲
                     backfill-all runs all of it,          s10-from-idx,      live aggregator, heal-idx,
                     per ticker, as subprocesses           renko-from-idx     resample-idx, migrate-*,
                                                                │             onchain-backfill
                          nxr-calibrate ──k──▶ renko            ▼
                                                              bars  ──▶ integrity-check,
                                                                        renko-continuity-check,
                                                                        data-quality-audit
```

The programs share no memory. They interact through the file system (a tree per
exchange, a directory per ticker, one parameter file), through advisory locks
(`.writer.lock`, the parameter file's) and, inside backfill-all, through exit
codes, a semaphore and a JSON report.

| Component | State | Operations | What is hard | What makes it correct |
|---|---|---|---|---|
| Daily shard writer (`sharding.rs`) | the directory of a ticker, `current`, `touched`, the buffer, `.writer.lock` | `new`, `append` with rotation, `close`, drop | midnight under a running job; stragglers; a live writer with an open descriptor; crash between unlink and rewrite | nothing live is lost; a rerun converges; no descriptor of an unlinked file |
| Shard healing (`idx_heal.rs`, `heal_idx.rs`) | the ticker directory, `.heal-staging`, `.bak-*`, the lock file *inside* the directory | list, rewrite, copy today's shard, lock, two renames | live starts, stops and writes in between; crash between the renames | nothing destroyed; live never writes into a backup; every record under its date |
| Subprocess gate (`HeavySemaphore`) | permits, a condition variable | `acquire`, permit drop, `run_step` | two pools share it; spurious wakeups; barging | no lost wakeup, no starvation |
| Ticker plan (`run_ticker`) | everything on disk for one ticker, `PlanCtx`, step results | probe, monthly fetch/fold loop, merge, validation, bars, gaps, repair recursion | any step fails, panics, is killed, is resumed; staging is purged on every way out, and a purge may fail; the repair runs the chain inside itself | staging purged or the ticker failed, no folded day lost, "ok" means built, always ends |
| Download and convert (`sources/`, `fetch_*`) | raw files, `.partial` files, the cache | monthly archive first, daily ones otherwise; numbered parts | retries, truncated bodies, empty archives, entries that do not open, kill while converting | a file in the cache is whole unless its conversion skipped something; a run without failures returns all there is |
| Tick folding (`ticks_to_idx.rs`) | one log per exchange, the open cycle | fold a file, flush, delete it | failed streams, order of files, records ahead of their file | each tick once, the records of the reference definition |
| Composite merge (`merge_idx.rs`) | heap, slots, boundary, `ShardedWriter` | pop, close cycles, blend, final flush, manifest | logs that interleave, tie, fall behind; idle stretches; last cycle over midnight; read errors | equals its definition, a day is this run's output |
| s10 and renko bars (`s10_from_idx.rs`, `renko_from_idx.rs`) | the open bucket, the last brick, one shard per day, a manifest | fold a record, fill a gap, guard a jump, write a shard | records late, silent, odd; a new k over old shards | gapless grid; the two checkers agree with the builder |
| Down-sampling (`resample_idx.rs`) | shards, `.idx.new`, `.idx.bak` | last record per bin, two renames per shard | crash between the renames, a second run at another cadence, no lock | what is committed is the last of each bin; a missing shard can be had back |
| Migrations (`migrate_phantom_ids.rs`, `migrate_quote_basis.rs`) | ticker directories, manifests, a journal | classify, move shard by shard, park | crash, half-moved ticker, live beside it | nothing destroyed, what is left behind is known, no series mixed |
| On-chain history (`onchain_backfill.rs`) | staged shards, lock, sidecar, manifest; the one-second grid | page, retry, replay, stage, commit, prune | two runs in one directory; an indexer that stalls; warm-up | every record warm, every warm second recorded, a success leaves the days whole |
| Calibration (`calibrate.rs`, `nxr_calibrate.rs`) | the parameter file shared with nxr-weights, the staged set, a queue of outcomes | search k, stage, flush, promote, finish | kills, failed writes, resume, another writer of the file, staircase response | the published set is one run's work, coverage adds up, the run completes |
| Verification (`integrity_check.rs`, `data_quality_audit.rs`, `renko_continuity_check.rs`, `seam.rs`) | what a pass remembers of the rows before | row checks, gap classes, seams, verdict, promotion of an orphaned backup | what a row is compared to; midnight; a live writer between the steps of the scan | no silence and no broken joint passes; promoting loses only rows written after the scan had read their file |
| Volatility series, library glue, manual day merge, `glue_check`, `migrate_to_sharded`, synthetic producers | none, or one pass | numerical batch work | floating point | – |

`PROJECT.json` lists every component with its status, and every hazard at its
line with the properties that cover it.

## 2. The modules

| Module | Models | Extends / instantiates |
|---|---|---|
| `DayLog` | what a ticker's directory promises: one append-only log per UTC day, one owner | – |
| `IdxShards` | `ShardedWriter` beside live, on inodes, descriptors, lock and buffer | `INSTANCE DayLog` (refinement) |
| `HealIdx` | `heal_ticker_shards` beside live | – |
| `HeavyGate` | `HeavySemaphore` and `run_step` | – |
| `Backfill` | `run_ticker` with the effect of each subprocess on disk | – |
| `Fetch` | one download task, both layouts of archive | – |
| `TicksToIdx` | the fold of raw files into the log of one exchange | – |
| `MergeIdx` | the k-way merge of merge-idx | – |
| `Resample` | resample-idx on one shard | – |
| `Migrate` | both id migrations beside live | – |
| `Onchain` | onchain-backfill: walk, grid, gate, commit | – |
| `S10`, `Renko`, `Seam` | the two bar builders and the joints between shards | `Renko`, `Seam` extend `S10` |
| `Integrity`, `Audit` | the row checks and the audit's verdict | `Integrity` extends `Seam`, `Audit` extends `Integrity` |
| `Quality` | rebuilds, recalibrations, live and both checkers on one ticker | composes `Audit` and `Renko` |
| `Fit`, `Calibrate` | the search for k; the nightly program around it | `Calibrate` extends `Fit` |
| `*Proofs` | theorems about the module it is named after; `BackfillProofs` also those about `HeavyGate`, `IdxShardsProofs` about `Resample`, `MigrateProofs` about `Calibrate`, `QualityProofs` about `HealIdx` | the modules, TLAPS |
| `MC*` | constants of the runs | the module they instantiate |

Definitions whose comment starts with "Mutant" are variants of an operation with a
plausible mistake in it. No specification uses them; they are substituted for the
operation they name to see that a property notices.

### IdxShards (with DayLog)

State: `entry` (the directory, `<date>.idx` → inode), `content` (the inodes),
`lock`, the descriptor and date of live and of the run, the `BufWriter` of the
run, its `touched` set, the clock. One action per operation: `Tick` of the clock,
live's open, append, rotation and stop, and the run's `ShardedWriter::new`,
`append` (rotation, unlink of a closed day on first touch, open and append in one
action; a crash between the unlink and the open is an action of its own), a spill
of the buffer, `close` and a crash. A record is who wrote it and when. `acked`,
`emitted`, `own` and `replaced` are history variables the properties read.

`DayLog` has no files in it: a log per day, an owner, and the rule that only
closed days are started over, once per run. The refinement maps a day's log to
what a reader sees when it opens that date (`Visible`).

### HealIdx

A shard is a set of records (owner and time), a tree a function from dates to
shards, or `NoDir`. The actions follow `heal_ticker_shards` in its order: list
(the moment `today` is read), stage, rewrite one source shard (drop foreign
records, route every record to the shard of its own date), copy today's shard,
lock, move the directory away, move staging in; `HealCrash` between any two; live
starts, appends, stops and rolls over at midnight at any moment. The lock file is
in the directory and moves with it: after the first rename nobody holds the lock
of the directory that will be in place.

### HeavyGate

A worker is `out`, `locking` (wants the mutex), `parked` (in `cv.wait`) or
`child` (holds a permit while its subprocess runs). A critical section is one step.
Release may or may not hit a parked worker (`notify_one`), wakeups may be
spurious, a newcomer may overtake a woken worker.

### Backfill

`run_ticker` as a control-flow machine: `start, gate, fetch, fold, merge,
merging, validate, s10, renko, validateBars, gaps, status`. Each subprocess is
the set of effects it may leave on disk, whether it succeeds, fails or is killed.
Data is days: a raw file is the set of days it covers, a log the sequence of
days folded into it, a shard the set of the sources it blends. The repair pass is
the same machine with `pass = 1` on the window of the missing days, as in the code,
which calls `run_ticker` from `run_ticker`. `Launch` is a start of the process
with the options of one element of `Flags`; `Crash` kills it anywhere, and `Panic` ends
the ticker between two subprocesses as `catch_unwind` does, with nothing purged. What
removes staging (`Delete`) may fail and leave any of it. `cleanup_ticker_staging`
(`Cleanup`) says so in the report and the ticker has failed, though the run goes on
after the one behind the validation; the sweeps of a start, of a month, of a stale log
and ticks-to-idx itself only log it. `faults` bounds kills, panics and failed removals;
`unpurged` is a history: a purge of this run met an error, or the worker panicked.

### Fetch

One task, over closed and open months. `archive` is what the venue holds, `cache`
the `.ticks` files; a file is the set of days whose trades it has. A month is tried as
one archive, then day by day; bitget's parts are walked until one is missing. Every
download may fail, be cut short or be missing, attempts run out, the process stops
anywhere, and the clock may close a month between two runs. A conversion ends in one of
three ways: an error, with nothing under the final name (`ConvertFails`); the whole
archive (`Convert`); or what was left after an entry or a chunk that could not be read,
under the final name all the same (`ConvertSkips`, `common.rs:592-595`, `606-612`, `641`).
The history `lossy` records which files of the cache are of the third kind; no guard
reads it, for nothing in the code can tell them apart.

### TicksToIdx

One exchange, over all the months backfill-all folds into the same log. `Start` is
the fetch of the next month, the sweep of what the last one left, and the start of the
job; within a file `Skip`, `CloseCycle`, `CloseCycleFails` and `Ingest` are the ways
through the loop over frames (one iteration of the inner `while` for `CloseCycle`),
`FileFolded` is the end of a file with `maybe_delete_folded_tick`, `Finish` and
`FinishFails` the end of `main`, `Crash` a kill anywhere. A tick is its time and whether
its prices make sense, named by month, file and position, so that a tick folded twice
would be seen. Whether the outlier filter rejects a tick is a choice. `synced` is how much
of the log was flushed: a crash keeps that and any part of the rest.

### MergeIdx

A log is a sequence of times. `Take` is an iteration of the `while let Some(..) =
heap.pop()` loop that stays in the cycle, `CloseCycle` one iteration of the inner
`while ts_ms >= next_cycle_ms`, `Flush` the final flush, `Close` and `WriteManifest`
the rest of `main`. The heap is not a variable: what is on top (`IsTop`) is determined
by how much of each log was read. `lost` is a window of 4096 records whose read
failed, which `peek_ts` takes for the end of the log. The shards are written as
`ShardedWriter` does it (`Routed`).

### Resample

One closed shard. A run re-bins it (last record of a bin wins, the flag is set, foreign
records are dropped), verifies what it staged as `.idx.new`, and commits by renaming the
shard to `.idx.bak` and the staged file to the shard; it may be killed between any two
of these and run again at either cadence.

### Migrate

Both tools walk their tickers and trees with the same steps, which are the actions:
classify (`Start`), skip, refuse, park or begin a ticker, list a tree, move one shard,
fail, write the destination's manifest, finish the source's, journal the tree. They
differ on a date the destination has: migrate-phantom-ids parks the source's file,
migrate-quote-basis decided per ticker up front and gives the tree up. Live starts
today's shard under the old id until the new core is deployed, also in trees that are
journaled done by then. `shown` is a history: the shards that were in a tree's listing.

### Onchain

Each run is a record with its own program counter: fetch (a page, a retry, a stall),
compute, write (prechecks), locked (the same checks again under the lock), staged,
commit (one rename at a time, oldest day first), prune, done. The grid is computed as the
code does it: events in block order, held prices, a window, the per-leg gate, the
composite, the warm-up after a red second.

### Quality, with S10, Renko, Seam, Integrity and Audit

`S10` and `Renko` fold rows into bars and bricks as operators; `Integrity` is the pass
of integrity-check over a file; `Audit` the gap classes, the frozen-feed gate, the brick
and bar invariants and the verdict. `Quality` is the ticker: a job reads the index when
it starts and writes a shard at a time, the manifest last; days come late; the
calibrator changes k; today's shard is swapped for a thinned copy while live appends to
whichever file its descriptor is on; integrity-check lists, reads the time of the backup,
reads the time of the shard, renames the one over the other and reads the files, each a
step of its own with no lock held; the audit reads the index first and the series later.

### Fit and Calibrate

`Fit` is the search: bracket, probe, bisection, floor, warm start, on a ticker whose
days are a travel and a volatility. `Calibrate` is the night: start (run id, roster),
arm, base pass, promotion, crosses, inferred USDC pairs, final write. A write takes the
lock, reads the file again, drains the queue and renames; it may fail, and what it would
have written is retried with the next or when the run ends. nxr-weights writes its own
fields of the same file.

## 3. What is checked

| Run | Instance | Properties |
|---|---|---|
| `idx_shards` | 4 instants over 3 days, 4 inodes (symmetric), 2 offline runs of 3 records | `LiveTailReachable`, `ReplacedIsOwnOutput`, `ImplementsDayLog` |
| `heavy_gate` | 4 workers, cap 2, 2 steps each, deadlock checked | `NoLostWakeup`, `EveryStepRuns` |
| `heal_idx` | 5 instants over 3 days, one two-slot bin, 2 runs | `NoDeadBackupWrites`, `NothingDestroyed`, `ClosedDaysKept` |
| `backfill` | 4 days in 2 months, today's shard from live, 2 exchanges and the oracle, 2 starts with no option, `--resume` or `--keep-staging`, 1 kill, panic or purge that fails | `StagingPurged`, `OkIsBuilt`, `FoldedIsBuilt`, `TickerEnds` |
| `fetch` | 3 days in 2 months, 2 parts a day, 2 attempts for a monthly and 1 for another archive; deadlock checked | `CacheWhole`, `FaultFreeRunIsComplete`, `FetchEnds` |
| `ticks_to_idx` | 2 months, two files of up to two ticks and one of one or two, cycle 2; one input with frames without prices and an empty month | `EachTickOnce`, `MatchesReference`, `RemovedIsSynced` |
| `merge_idx` | 2 logs of up to 3 and 2 records on 6 instants in 2 of 3 days, cycle 2, stale 3, window 2, 2 runs | `MatchesReference`, `ShardsAreOutput` |
| `resample` | every shard of up to 3 records over 7 instants, ordered or not, own or foreign; cadences 2 and 4; any number of runs | `CommittedIsLastOfBin`, `MissingIsRecoverable` |
| `migrate` | 8 worlds: one ticker with an empty or taken destination, two stablecoins with and without a twin; 2 trees, 3 runs, 3 days | `NothingDestroyed`, `LeavesOnlySkippedOrLate`, `TwinNeverMixed` |
| `onchain` | 2 runs (symmetric), 2 pools, 4 days of 4 seconds, 31 worlds, 5 argument sets | `RecordsAreWarm`, `WarmIsRecorded`, `SuccessIsWhole`, `OnlyForceReplaces` |
| `quality` | 3 days of 3 bars of 2 units; worlds with a silence anywhere, one odd row of each kind, late days, recalibrations, live writers; deadlock checked | `BarsAreTheGrid`, `BarsPassTheChecks`, `ChecksLookBack`, `SilenceFails`, `PassedIsSeamless`, `PromotionLosesOnlyUnseen` |
| `calibrate` | 5 tickers (pair, USDC pair, cross, forced cross, unlisted), 3 nights, 2 windows, 2 faults, 1 foreign write; deadlock checked | `CoverageHonest`, `PublishedIsBest`, `PromotedIsThisRun`, `WeightsKept`, `RunCompletes` |

What they show, in that order. Whatever an offline run does, is killed at, or does again
after midnight passed under it, the records live wrote for the current day are in
the file a reader opens, and a closed day that was started over holds one run's
output; the whole is an implementation of `DayLog`. The gate loses no wakeup and
every step gets its turn. heal-idx destroys nothing, never strands live in a
backup, and keeps every record of a closed day under its own date. backfill-all
ends no ticker with staging left but one it reports as failed, after a purge that met an
error or a panic; a clean build loses no day it folded, and it
always ends with a report. A download that is cut, fails or is killed never leaves
a part of an archive under its final name, and an empty monthly archive
does not hide the daily ones. ticks-to-idx counts no tick twice whatever fails; on
ticks in order its log is at any moment the reference records less the cycle that is
open, and a raw file that was removed is on disk but for the cycle it ended in.
merge-idx computes the definition of the composite series, which does not mention heaps
or order of arrival. A shard resample-idx committed is the last record of every bin of
what was written, through any sequence of runs, and a shard missing under its name is
there as `.bak` with what completes it. The migrations move, park or leave every
shard, once; of what was closed when it began, a run without a failure leaves under an
old id only the tickers it skips as colliding, those an earlier run had half moved
included, and what live started in a tree after its last listing, when that run
journaled it done. onchain-backfill writes exactly the seconds its gate had been green for
the whole warm-up, and neither of two runs replaces what it was not forced to. The bar
builders, rebuilt and cut short in any order, give the grid both checkers accept, and
what the checkers pass has neither a silence nor a broken joint; a backup put back costs
the readers no row but those written between the scan's reading of the times and its
rename. A calibration, killed
and resumed over nights, publishes one run's work and reverts nobody else's.

Every property is falsified by a mutant of the code's operations.

Why the bounds are enough:

- `idx_shards`: two instants on the first day and one on the next two give a
  straggler a day to return to, a midnight under an open descriptor and a day that is
  closed in one run and current in another; four inodes suffice for two shards, a
  replaced one and an orphan.
- `heavy_gate`: four workers on two permits is the smallest instance with two
  parked workers, a woken one and a newcomer at the same time.
- `heal_idx`: two runs are needed for a run that finds what a killed one left; three days
  for a closed day with a record of another closed day and of the current one.
- `backfill`: two months for raw files of a later month left by a killed run; two
  exchanges for a fold that fails beside one that succeeds; a monthly and a daily
  archive, either of which may not come, and live's shard of the last day, so that there
  are gaps to repair; one fault in two starts, since a second one meets what the first may leave: a start that
  finds leftovers, and a purge that fails in a repair pass. `--resume` with `--keep-staging` is left
  to the proofs.
- `fetch`: a month of two days can be had in part; a second month is still open in the
  first run and closed in the next; a second attempt is the smallest retry.
- `ticks_to_idx`: cycles of two milliseconds and ticks up to five apart cross an idle
  cycle, within a file, between two files and between two months; two files are needed
  for a cycle that spans a removed file and a file that fails in the middle.
- `merge_idx`: six instants with cycles of two hold a tie, a record on a boundary, idle
  cycles, a cycle cut by midnight and a record that is stale; two out-of-order logs are
  among the inputs.
- `resample`: three records hold two of a bin around one of another, in any order; a
  cadence that divides the other is the case in which a second run finds work.
- `migrate`: a ticker with two shards in a tree can be half moved, two trees journalled
  by half; three runs are a kill, a resumption and a run that finds nothing; the two
  stablecoins are each other's collision once one has moved.
- `onchain`: two runs are what a lock has to keep apart; a window of one, a warm-up of two
  and a hold of four seconds each end within a day of four and across a midnight.
- `quality`: a silence may start and end on either side of each midnight; the rows and
  the thresholds are chosen so that each check is met by one row and missed by its neighbour.
- `calibrate`: three nights for a set that is too old to resume after one more; two faults
  for a kill and then a failed write of the resumed run.

Deadlock is checked where the clock or the work goes on; the other programs simply stop.

### Where the code and its documentation part

Met while modelling; the models do what the code does, and none of the runs asserts
the sentence.

- Healing. `idx_heal.rs:124-126` has a record merged into the shard of its own day, never
  overwriting: one routed to the current day is overwritten when today's shard is copied
  over it (`:208`). `:74-76` has the live shard untouched and guarded by the lock taken at
  `:219`: the copy (`:208`) comes before the lock. `:4` calls the swap atomic; it is two
  renames, with no directory in between.
- Backfill. `backfill_all.rs:1342-1343` calls purged staging fully consumed: with `--resume`
  the merge is skipped on an old manifest and the rebuilt logs are purged (`:1275`,
  `:1348`). `:1034-1037` has a fresh build start from nothing: raw files of a killed run are
  folded with the new ones (`:1071-1077`). `:1480-1482` has a repair drive the missing days
  only: the merge replaces complete days of its window (`:1284-1291`). `:1248-1249`
  cleans staging on the failure path so that a killed ticker orphans nothing: one whose
  worker panics is reported failed with its staging left (`:1860-1881`), and so is one
  whose purge met an error (`:855-868`); `StagingPurged` states both. `:116-118`:
  `--keep-staging` does not keep raw files, which the month sweep deletes (`:1201`).
  `:1274`: a resumed run compares no hash (`:1565-1582`). `:629`: no severity of a gap makes
  a run fail (`:698`, `:1520`). `:1510-1512` calls the audit after a repair the proof; its
  window has the length of the repaired range but trails from today (`:1485-1488`), and may
  not see it.
- Shard writer. `sharding.rs:66`, `:136-137` call a rerun idempotent; on the current day it
  appends a second time (`:146-151`, where the code says so itself).
- Merge. `merge_idx.rs:482` takes a read error for the end of a log, and the merge succeeds
  on a prefix; `:68-69` blends every provider that is not stale, not those that delivered in
  the cycle.
- Fold. `ticks_to_idx.rs:198-201`: after a file is removed its records are on disk; its last
  ticks may be in the cycle that is still open. `RemovedIsSynced` says how much that is.
- Fetch. `common.rs:639-640` keeps a half-written file from its final name; a conversion that
  passed over a zip entry (`:606-612`) or a chunk of rows (`:592-595`, for instance the one
  with a header line, for the parsers that do not expect one) is renamed like a whole one
  (`:641`), only the log says so, and every later run trusts it (`:736`, `:787`):
  `CacheWhole` states that exception, and `FaultFreeRunIsComplete` is about tasks that meet
  no such file. `:638-641` has an empty conversion removed so that it is tried again; a
  monthly file that was already empty in the cache is trusted (`:743`).
- Resample. `resample_idx.rs:333` has `.bak` retain everything: after a second run it
  retains the first run's output.
- Migrate. `migrate_quote_basis.rs:32` says no half-merge is possible: two stablecoins of
  one asset without a twin are both moved into it. `:39-41`, `:48-50` and `:56-58` have the
  next run finish a ticker that was cut short or left `PartialToday`; what had been moved,
  or any file there, makes it collide (`:253-259`, `:341`), and it is skipped for good, or
  its rest is parked. `:42-45` has the aggregator retargeted first: the file it then writes
  under the USD id collides too. `:330-331` says a drained directory is no candidate: its
  retired manifest (`:461-466`) is a file, so it is. `migrate_phantom_ids.rs:45-50` has the
  next run finish a tree that live writes to; a tree that holds no shard of the day when it
  is moved is journaled done (`:272-276`) and never looked at again (`:310-312`), and what
  live goes on to write there stays. `LeavesOnlySkippedOrLate` states both exceptions; that
  each is needed shows in runs without it.
- On-chain. `onchain_backfill.rs:551` says an empty or failed run touches nothing: one that
  fails or is stopped among its renames has replaced the shards before.
- Audit. The figure that makes a pair stable also makes a feed stuck, so a feed that repeats
  one price is excused from the gate for it (`data_quality_audit.rs:1404-1412`, against
  `:1387-1392`, `:290-292`). A gap over midnight is always "closed" (`:1098-1100`,
  `:1144-1146`): `SilenceFails` holds because the flat bars of it are counted elsewhere.
  With the defaults, quiet gaps (60 s) end below where gaps begin (120 s): "quiet" is never
  given. Check R2 does not see days without bricks.
- File checks. `integrity_check.rs:1512-1518` has the promotion reunite readers with the live
  data ("recovered live data", `:1581`). The times are read at `:1562-1563`, the rename is at
  `:1576`, and no lock is held: a live writer that was restarted in between has reopened
  today's shard, and the rows it appended there are unlinked with it.
  `PromotionLosesOnlyUnseen` states that exception. With `--strict`, a gapless s10 shard of fewer than 100 bars fails; the
  header's bounds of mean(ci/mid) (100 bps) and of a bar's close (`:41`, kline close = open)
  are not those of the code (0.001; open + bucket − 1); files are collected before a backup
  is promoted, so that the promoted one may not be read; promoting after live restarted
  unlinks the file live writes. Confidence above accepted, zero depth and more than 64
  accepted are judged differently by the checker and the audit.
- Renko. A rebuild with a new k leaves the shards of days on which it has no brick, while
  the manifest vouches for the new k; a reseed of the jump guard breaks continuity.
  `PassedIsSeamless` says that one of the checkers notices.
- Calibrate. A promotion after the base pass (`nxr_calibrate.rs:1590`) takes the crosses' k
  out of the live set until the final write (against `:1262`, `:1585`); a cross whose fit
  failed does not keep its prior k (against `:1606-1609`); `:137` counts on `panic =
  "abort"`, which `Cargo.toml` does not set; `calibrate.rs:14`, `:148-150` take bricks per
  day to fall with k, which fails when a larger k leaves dead days out of the median (days
  that travel 9, 17, 40 and 40), so `PublishedIsBest` is about windows where it does fall;
  `min_window_days` (`:51`) is read by nothing; a fallback that succeeded is counted as such
  only after a resume.

### Fairness

- `HeavyGate!GateFairSpec`: weak fairness for each worker on its own steps: it asks for a
  permit if it has a step to run, gets the mutex and either takes a permit or parks, and
  its child ends. The operating system schedules threads, the mutex is held for a few
  instructions, and a subprocess is a finite batch job. A spurious wakeup is allowed and
  never required. That barging starves nobody follows from the finite number of
  steps each worker has left.
- `Backfill!FairSpec`: weak fairness on the ticker's own thread. Subprocesses end; the
  process need neither be started nor killed.
- `Fetch!Spec`: weak fairness on the task's own steps; a transfer ends, with a result or an
  error (the client has a timeout). It need not succeed, nor be stopped.
- `Calibrate!CalSpec`: weak fairness on the steps of the program and on its start: the nightly
  job starts it until a run ends. Kills and failed writes are never required and, in the
  instance, finitely many.
- The other specifications state none: their properties are safety.

## 4. What is proved

For every value of the constants that satisfies the named assumptions of the module, with
TLAPS:

| Theorem | Says |
|---|---|
| `IdxShardsProofs!TypeCorrect`, `Inductive` | types; the inductive invariant `IInv` |
| `IdxShardsProofs!LiveTailSafe`, `RerunConverges`, `NoOrphan` | `LiveTailReachable`, `ReplacedIsOwnOutput`, no writer on an unlinked file |
| `IdxShardsProofs!TailOnlyGrows` | the current day's shard is never rewritten |
| `IdxShardsProofs!Refinement` | `Spec => DayLog!Spec` under the mapping |
| `IdxShardsProofs!ResampleInductive`, `CommitIsLastOfBin`, `CommitCutShortRecovers` | `CommittedIsLastOfBin` and `MissingIsRecoverable` for any shard, in order or not, any sequence of runs and kills |
| `BackfillProofs!GateInductive`, `GateType`, `GateConserved`, `GateNoLostWakeup`, `RamCap` | the gate's invariants and the bound on heavy subprocesses |
| `BackfillProofs!BackfillInductive`, `StagingAlwaysPurged`, `OkIsTrue`, `FreshBuildCarries` | `StagingPurged`, `OkIsBuilt` and `FoldedIsBuilt` for any exchanges, calendar, archive and number of runs |
| `QualityProofs!HealInductive`, `HealDestroysNothing`, `HealNeverOrphansLive`, `HealKeepsClosedDays` | no record destroyed, no live descriptor in a backup, every closed day kept under its date |
| `QualityProofs!QualityInductive`, `QualityGrid`, `QualityBars`, `QualityPromotes` | `BarsAreTheGrid`, `BarsPassTheChecks` and `PromotionLosesOnlyUnseen` for any rows, days, builds, kills and live writers |
| `QualityProofs!QualitySeamless`, `QualitySilence`, `QualityLooksBack` | `PassedIsSeamless`, `SilenceFails` and `ChecksLookBack`: what the checkers report, and what they let pass, of any shards |
| `MergeIdxProofs!MergeType`, `MergeInductive`, `MergeLooksBack`, `MergeIncreases` | types, no look-ahead, increasing boundaries, for any logs, sorted or not |
| `MergeIdxProofs!MergeOwnsItsDays`, `MergeIsReference` | `ShardsAreOutput`, and `MatchesReference`: the heap and the cycles compute the definition of the composite |
| `TicksToIdxProofs!FoldType`, `FoldInductive`, `FoldOnce`, `FoldStamped` | types, no tick counted twice or lost unreported, no record stamped before a tick in it, for any files |
| `TicksToIdxProofs!FoldRemovesSynced`, `FoldIsReference` | `RemovedIsSynced`, and `MatchesReference`: on ticks in order the log is the reference records |
| `FetchProofs!FetchInductive`, `FetchCacheWhole`, `FetchReturnsWhole`, `FetchComplete` | a cached file holds its archive, whole unless its conversion skipped something; so does every file a task returns; a task without a failure that meets no such file returns all there is |
| `OnchainProofs!OnchainInductive`, `OnchainSuccess`, `OnchainForce` | `SuccessIsWhole` and `OnlyForceReplaces` for any number of runs |
| `OnchainProofs!OnchainFetches`, `OnchainWarm`, `OnchainRecorded` | `RecordsAreWarm` and `WarmIsRecorded` for any chain, pools, ranges and page sizes |
| `MigrateProofs!MigrateInductive`, `MigrateKeeps`, `MigrateNeverMixes`, `MigrateSweeps`, `MigrateLeavesOnly` | `NothingDestroyed`, `TwinNeverMixed` and `LeavesOnlySkippedOrLate` for any tickers, trees, shards and runs |
| `MigrateProofs!CalInductive`, `CoverageIsHonest`, `WeightsAreKept`, `PublishesItsOwn` | `CoverageHonest`, `WeightsKept` and `PromotedIsThisRun` for any roster, fits, windows, nights, kills and failed writes |
| `MigrateProofs!PublishesTheBest` | `PublishedIsBest`: the search finds the best k there is, for any days, targets, bounds and number of iterations that suffice |

How the arguments go:

- **Shards.** `LiveTailReachable` is not inductive: an unlink by the run could hit live's
  inode if two dates shared one or if the run acted without the lock. `IInv` adds that an
  inode has one name (`FilesNotShared`), that a writer without the lock has nothing open or
  buffered (`IdleWriters`), that only touched days before today are started over
  (`OwnTouched`), and that live records are not from the future. The refinement follows from
  the same invariant, one abstract step or stutter per action. The assumptions are that the
  calendar is monotone and that an inode is not the null descriptor.
- **Resample.** Two facts carry it. Along a pass (`Passed`) what is staged so far holds the
  last record of every bin begun, and nothing else. And of two cadences where one is a
  multiple of the other, down-sampling at one after the other is down-sampling at the
  coarser (`BinOfBin`, `Coarser`, `Finer`): this is why the property asks for nested
  cadences, and it is not claimed for others. The invariant (`ResampleIInv`) then says,
  position by position, which of the three names holds what was written, what the last
  commit made of it, or what is about to replace it. The assumptions are that a shard is a
  sequence of records and a cadence positive.
- **Gate.** That a release stays within the cap needs conservation; that `notify_one` is
  enough is the counting argument that free permits never outnumber the workers on their way
  to the mutex while one is parked. The only assumption is a finite set of workers and a
  positive cap.
- **Backfill.** `StagingPurged` and `OkIsBuilt` are read at the end of a run, so each step
  needs what it will owe. `Purged` says from which position on an exchange has nothing
  staged, unless a purge went wrong, and `Reported` that a run in which one did has failed; `Built` what the steps behind promise of shards, manifest and bars; `Fresh`, of a
  build from scratch, where the days folded of an exchange are: in its log, in the order of
  days and with what is still to come later than they, or in the shards. The repair pass
  runs the same steps inside the run, and the invariant holds of it with the window it was
  given. The assumptions are that the calendar is an interval of days with monotone months
  and that a seed is a set of shards.
- **Heal.** `ClosedDaysKept` needs `KeptSoFar`: of every closed day that was listed and is
  behind the job, each record is in staging under its date, itself or as its bin; that a bin
  does not start the day before is an assumption. `NothingDestroyed` needs to know where a
  record may be at each phase: `Phases` says which trees exist when, `LockHolders` who may
  write.
- **Quality.** The fold of s10-from-idx is followed row by row (`GridInv`): what it has
  flushed is the grid of the buckets before the open one, what it keeps are the prices of
  that one, and a late row joins the bar that is open. Two grids, of whatever rows, follow
  each other as the checkers want it, so what a directory has to satisfy (`WellBarred`: a
  shard is part of some grid and opens on its own day) survives any mixture of builds. A job
  in mid-write has on disk what its plan says, less what is still to come (`JobInv`). That a
  promotion loses no other row needs `PairInv`: while live writes into the backup, or the backup
  is the newer, it has all that the directory's file has; and, since the two times are read
  one after the other and the rename comes later still, `ScanInv` of a scan in progress: the
  time it has of the backup is one the backup had, and once the shard was found older, the
  backup has all the shard has but what was written to it since (`unseen`). A checker's memory is compared with
  looking back: the last row, the last quote (`PassMid`), the run of equal mids the quotes
  end with and the longest so far (`RunsOf`). Slots without a row side by side are flat bars
  side by side, midnight included, so a silence is a run the audit counts; and a joint is
  either inside a shard, where the file checker looks, or between two that have rows, where
  the audit does. The assumptions are that a day is a whole number of bars and that NaN and
  the null value are told apart from prices and times.
- **Merge.** A composite is safe because everything popped is before the open boundary and
  every boundary emitted is before it; for logs out of order the first holds because the
  boundary only moves forward. `ShardsAreOutput` also needs that a run comes to its days in
  order (`Touches`). For `MatchesReference` the logs are in order; then the boundary is on
  the grid of cycles (`OnGrid`), what is popped is before what is not (`HeadsAfter`), the
  open cycle has a record if the code says so (`DirtyIs`), and what was emitted is the
  reference over the records popped, less that cycle (`Done`).
- **Fold.** `EachTickOnce` is not inductive: a tick could be taken a second time if one
  taken lay ahead of the cursor. `Behind` says none does, in the lexicographic order of
  month, file and position; files are only ever skipped forward. That no record is stamped
  before a tick it holds needs that whatever is open is before the boundary (`OpenBefore`),
  which is why an out-of-order tick does no harm: it joins the open cycle, whose stamp is
  later still. `RemovedIsSynced` needs where the fold's clock stands (`Clock`) and what of
  each file is flushed (`Kept`, `Removed`). `MatchesReference` is proved as
  `RemovedIsSynced` is where files are in order: the ticks open and recorded are spread over
  the cycles as the grid says (`Spread`, `OnGrid`, `Cycles`), the records are the
  reference's (`Done`) and in the order of time, over the months too (`Increasing`,
  `Later`).
- **Fetch.** `CacheWhole` needs that what is being converted exists and is not cached yet, that
  a file that lacks something is there, and that the task which skipped it counts as one with
  a failure (`Sound`); and that the target stands where the loops do (`Cursors`: in particular at no part beyond the one that cannot exist);
  what is said of the files a task returns needs that a unit being downloaded is not among what was
  returned already (`Returned`), since an empty conversion is removed.
  `FaultFreeRunIsComplete` follows the loops: of the months and days behind them (`Placed`,
  `Filed`), what the archives hold is in the files returned, or the month is among those
  reported (`Accounted`). It rests on the calendar: months are sets of days in order, and a
  window has no holes.
- **On-chain.** Two runs interleave freely but for the lock. `Kept` says what is true of a
  run inside it, phase by phase (what is left to rename, that the rest is its own, that an
  unforced run found its days free *under the lock*); `Others` shows that no step of another
  run disturbs that, because it would need the lock. The precheck made before the lock plays
  no part in the argument; a run that does not look at the lock (the mutant) breaks it. What
  a run writes is followed from the chain on: the binary search returns the block at which
  the clock passes the second (`FirstBlockIs`), because block times do not decrease; the
  logs fetched are all those up to the page the walk has come to (`LogsUpTo`, `Fetched`),
  because a page ends where the next one starts; the sorted events, replayed up to a second,
  leave each leg its latest swap (`InOrderIs`, `ReplayIs`). The grid is then an induction
  over seconds (`GridOk`): the samples are those of the chain, `green` is the start of the
  green stretch that reaches the last second (`GreenOk`), and the records so far are warm
  ones, with one less than a heartbeat old at every warm second (`OutOk`). The assumptions
  are that block times do not decrease, that the logs of a leg are finite and at places of
  their own, and that the grid starts after 1970; the mean is opaque.
- **Migrations.** That one shard is in one place is not inductive: a rename could put it on
  top of another, or live start a second shard of a day. `Unique` says that tree, day and
  origin name a shard; `Home` that what no migration has a claim on (the destination's own
  shards, and live ones where the writer goes on) is where it was written, which is what
  keeps live's next shard from being a second one; `Cursors` that what a run decided about a
  ticker before its first move stays right: the twin cannot have come since, because only
  tickers move. What a clean run leaves behind needs the journal of the runs before it to
  be true: of a tree that is done nothing any listing showed is left (`Journals`), although
  live writes on beside them, since what it starts no listing has shown, and a shard of the
  current day that one has is still there (`Known`). `Listing` says what of a tree is still
  to move, and `Passed` what is behind the run: no step puts a shard back to where it was,
  so what was cleared stays cleared.
- **Calibration.** What the file says is only half of what a run has done: outcomes wait in
  the queue until a write takes them along, and a write may fail. `Due` is the file with the
  queue applied, and the invariant (`CalIInv`) is about it: its attempts and the tickers
  left to try add up to the roster (`Progress`), what it has staged of tickers still known
  is what the run remembers, and all of that was fitted by the run whose id it bears
  (`OfRun`). An outcome staged applies to `Due` once (`DrainAppend`), a write leaves `Due`
  as it is, and what nxr-weights writes is none of what it depends on (`DrainSame`). A write
  reverts nothing because its copy is the file as long as it holds the lock (`Writing`). The
  assumptions are a finite roster of which the legs are part, a run id that is not the
  null one, and that an override is between K_FLOOR and K_MAX_SAFETY, as the code checks
  (`nxr_calibrate.rs:1435`, `:1656`).
- **Fit.** `PublishedIsBest` is about the search and about the night. On a window where a
  larger k never means more bricks, a bracket has more bricks than the target at its lower
  side and no more at its upper one (`Brackets`). A halving keeps that and its width is
  within `Width`, so it ends at neighbouring rungs (`BisectIs`): nothing below the lower is
  nearer the target than the lower, nothing above the upper nearer than the upper
  (`NeighboursAreBest`). The probe then moves only to what is strictly nearer, and a k that
  a scale step hit is within tolerance (`ProbeKeepsClose`). For the night, every k that is
  live, staged, queued or read back (`FitInv`) came out of that search on the days of its
  ticker, or is an override, which `PublishedIsBest` does not judge. That the iterations
  suffice, `Width[Iters] <= 1`, is an assumption on the configuration: twelve halvings
  (`config.yml:136`) end below the half percent that moves one rung (`calibrate.rs:88`) as
  long as K_MAX_SAFETY, a constant of the SDK, is less than e^20 times K_FLOOR.

Induction along a sequence or a recursive function is done over the set of positions up to
which a claim holds (`Upwards`): a set of naturals that has 0 and with a number below the
bound its successor has them all, by the well-foundedness of the naturals.

Only model-checked:

- liveness (`EveryStepRuns`, `TickerEnds`, `FetchEnds`, `RunCompletes`): fairness and ENABLED
  are out of the prover's reach.

## 5. What is not modelled

- Prices, volumes, weights and the blending arithmetic (floating point; most of it in
  the SDK): which records are blended is modelled, not what comes out. Where a price
  decides the control flow (gate, jump guard, bricks, calibration) it is an integer.
- File formats, CSV layouts, HTTP, the argument parsers, logging, progress.
- The volatility series, the regime statistics and rendering of the audit,
  `live_latency_audit`, `window_sweep`, the drift reports, `glue_check`: one pass over
  closed input, no state between runs.
- The trailing-k renko variant, the synthetic producers and the builders of
  `bar_construction`: their folds are those of `Renko` and `S10` with other arithmetic.
- `migrate_to_sharded` and the manual day merge: one-shot tools of an operator.
- The subset of steps (`--steps`), the aggregate report and the parallelism *between*
  tickers of backfill-all, except for the gate they share.
- Errors of the disk while a shard is flushed on drop (swallowed in the SDK).
- In `Quality` the swap of today's shard is one step; its two renames, with no shard in
  between, are those of `Resample`, `HealIdx` and `IdxShards`. A scan that falls between them
  finds a backup and no shard, puts the backup back, and the swap then replaces it.

## 6. Plan

In order of what it would add:

1. `Fetch` as an implementation of a write-once file, with `Backfill`'s raw files as
   its client.
2. The trailing-k renko variant beside `Renko`, sharing `Quality`'s checks.
3. `migrate_to_sharded`: the split of a single file, killed anywhere.
