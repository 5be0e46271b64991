------------------------------- MODULE Backfill -------------------------------
(***************************************************************************)
(* backfill-all (src/src/bin/backfill_all.rs) for one ticker: run_ticker,  *)
(* with the startup sweep of main before it and, inside it, the repair     *)
(* pass that runs it once more on the days the gap audit reports.          *)
(*                                                                         *)
(* The subprocesses it starts are modelled by what they do to the disk:    *)
(* fetch-crypto-history and fetch-pyth-history (raw .ticks files),         *)
(* ticks-to-idx (folds raw files into one log per exchange), merge-idx     *)
(* (blends the logs into daily composite shards and a manifest),           *)
(* s10-from-idx and renko-from-idx (bars), data-quality-audit (gaps). Each *)
(* may fail, the process may be killed between two effects, and it is      *)
(* started again, with or without --resume and --keep-staging.             *)
(*                                                                         *)
(* Data is abstracted to days: a raw file is the set of days it covers, a  *)
(* per-exchange log the sequence of the days folded into it, a composite   *)
(* shard the set of its sources. One run sees one date. Progress markers   *)
(* and heartbeat counters are log output and left out.                     *)
(***************************************************************************)
EXTENDS Integers, SequencesExt

CONSTANTS
  Cex,        \* exchanges of --exchanges, all of them in config.yml
  Pyth,       \* the oracle, used when no exchange has coverage
  Live,       \* the live aggregator as a source of composite records
  Days,       \* UTC dates, an interval ending today
  MonthOf,    \* [Days -> Int], calendar months of two days or more
  Today,      \* current UTC date
  From, To,   \* --from, --to
  MaxWindow,  \* --gap-window-days
  Archive,    \* [Providers -> SUBSET Files]: files the archives offer
  Seeds,      \* shards that may exist at the start
  Flags,      \* the options it may be started with: [resume, keep: BOOLEAN]
  None,       \* "no such file"
  MaxRuns,    \* bound: starts of the process
  MaxFaults   \* bound: kills, panics and purges that fail

Providers == Cex \cup {Pyth}
Sources == Providers \cup {Live}

\* A .ticks file: the days it has ticks of.
Files == (SUBSET Days) \ {{}}

ASSUME DaysAssumption ==
  /\ Today \in Int /\ \E first \in Days : Days = first..Today
  /\ From \in Days /\ To \in Days /\ From <= To
  /\ MonthOf \in [Days -> Int]
  /\ \A d, e \in Days : d <= e => MonthOf[d] <= MonthOf[e]
ASSUME ArchiveAssumption == Archive \in [Providers -> SUBSET Files]
ASSUME SeedsAssumption ==
  \A s \in Seeds : DOMAIN s \subseteq Days /\ s \in [DOMAIN s -> SUBSET Sources]
ASSUME NoneAssumption == None \notin Seq(Days)
ASSUME BoundsAssumption == MaxWindow \in Nat \ {0} /\ MaxRuns \in Nat /\ MaxFaults \in Nat
ASSUME FlagsAssumption == Flags \subseteq [resume: BOOLEAN, keep: BOOLEAN]

VARIABLES
  \* on disk
  raw,       \* [Providers -> SUBSET Files]: ticks/<exch>/<pair>/*.ticks
  idx,       \* [Providers -> Seq(Days) or None]: indexes/<exch>/<pair>.idx
  shards,    \* composite shards: a function from dates to sets of sources
  manifest,  \* the shards manifest.json describes, or None
  s10,       \* dates with a .s10 shard
  renko,     \* is there a .renko shard?
  barsDone,  \* does the manifest of the bars exist?
  \* the process
  runs,      \* starts so far (bounded by MaxRuns)
  faults,    \* kills, panics and failed purges (bounded by MaxFaults)
  flags,     \* [resume, keep: BOOLEAN]
  pc,        \* where run_ticker is
  pass,      \* PlanCtx.repair_pass
  window,    \* <<PlanCtx.from, PlanCtx.to>>
  active,    \* active_exchanges
  month,     \* month of the 'months loop
  todo,      \* exchanges not fetched yet, or dates not merged yet
  queue,     \* [Providers -> SUBSET Files]: files ticks-to-idx has to fold
  clock,     \* [Providers -> Int]: how far its cycle clock has come
  hard,      \* hard_fail
  failed,    \* a step of the report has failed
  report,    \* status in the report: "none", "ok" or "failed"
  \* history, read by the properties only
  clean,     \* no file of another build was left in the way of this one
  folded,    \* [Providers -> SUBSET Days]: days folded by this pass, until it purges
  used,      \* exchanges this run has worked on
  unpurged   \* a purge of this run has reported an error, or its worker panicked

disk    == <<raw, idx, shards, manifest, s10, renko, barsDone>>
stage   == <<raw, idx>>
output  == <<shards, manifest, s10, renko, barsDone>>
loop    == <<month, todo, queue, clock, hard>>
plan    == <<flags, runs, pass, window, active>>
verdict == <<failed, report>>
faulty  == <<faults, unpurged>>
history == <<clean, folded, used, faulty>>
vars    == <<disk, pc, plan, loop, verdict, history>>

NoFiles == [x \in Providers |-> {}]
NoClock == [x \in Providers |-> (CHOOSE d \in Days : \A e \in Days : d <= e) - 1]
NoShards == [d \in {} |-> {}]

Init ==
  /\ raw = NoFiles
  /\ idx = [x \in Providers |-> None]
  /\ shards \in Seeds
  /\ manifest \in IF shards = NoShards THEN {None} ELSE {None, shards}
  /\ s10 = {} /\ renko = FALSE /\ barsDone = FALSE
  /\ runs = 0 /\ faults = 0 /\ flags = [resume |-> FALSE, keep |-> FALSE]
  /\ pc = "down" /\ pass = 0 /\ window = <<From, To>> /\ active = {}
  /\ month = MonthOf[From] /\ todo = {} /\ queue = NoFiles /\ clock = NoClock /\ hard = FALSE
  /\ failed = FALSE /\ report = "none"
  /\ clean = TRUE /\ folded = NoFiles /\ used = {} /\ unpurged = FALSE

-----------------------------------------------------------------------------
(* Start and end of a run.                                                 *)

Without(f, xs, nothing) == [x \in Providers |-> IF x \in xs THEN nothing ELSE f[x]]

RawFiles(xs) == UNION {{x} \X raw[x] : x \in xs}
Logs(xs) == {x \in xs : idx[x] # None}

\* The raw files of xs and the logs of ys are removed. An error is one that
\* cannot be, and stays.
Delete(xs, ys, error) ==
  \E files \in SUBSET RawFiles(xs), logs \in SUBSET Logs(ys) :
    /\ error = (files # {} \/ logs # {})
    /\ faults' = IF error THEN faults + 1 ELSE faults
    /\ faults' <= MaxFaults
    /\ raw' = [x \in Providers |->
                 IF x \in xs THEN {f \in raw[x] : <<x, f>> \in files} ELSE raw[x]]
    /\ idx' = Without(idx, ys \ logs, None)

\* cleanup_ticker_staging, for the active exchanges. With an error its step of
\* the report has failed.
Cleanup(error) ==
  /\ Delete(active, active, error)
  /\ unpurged' = (unpurged \/ error)

PurgeUnlessKept(error) ==
  IF flags.keep THEN ~error /\ UNCHANGED <<stage, faulty>> ELSE Cleanup(error)

\* What a pass holds in memory, before it has looked at anything.
NewPass ==
  /\ pass' = 0 /\ window' = <<From, To>> /\ active' = {}
  /\ clean' = TRUE /\ folded' = NoFiles

\* The memory of a process that has done nothing yet.
Forget ==
  /\ NewPass
  /\ failed' = FALSE /\ used' = {} /\ unpurged' = FALSE

\* main: the sweep of orphaned staging, then the plan of the only ticker.
Launch ==
  /\ pc = "down" /\ runs < MaxRuns
  /\ runs' = runs + 1
  /\ flags' \in Flags
  /\ IF manifest = None
     THEN UNCHANGED <<stage, faults>>
     ELSE \E error \in BOOLEAN : Delete(Cex, Cex, error)
  /\ pc' = "start" /\ report' = "none"
  /\ Forget
  /\ UNCHANGED <<output, loop>>

IdleLoop ==
  /\ month' = MonthOf[From] /\ todo' = {} /\ queue' = NoFiles /\ clock' = NoClock
  /\ hard' = FALSE

\* run_ticker gives up. A repair pass returns into the run that started it,
\* where only the status is left to compute.
ReturnFailed ==
  /\ failed' = TRUE
  /\ IF pass = 1
     THEN pc' = "status" /\ UNCHANGED report
     ELSE pc' = "down" /\ report' = "failed"
  /\ NewPass
  /\ UNCHANGED <<flags, runs, used>>

\* The early return of a step that failed: staging is purged all the same.
Abort ==
  /\ \E error \in BOOLEAN : PurgeUnlessKept(error)
  /\ ReturnFailed
  /\ IdleLoop
  /\ UNCHANGED output

\* Killed or evicted. The process is gone, the disk is as it was.
Crash ==
  /\ pc # "down"
  /\ faults < MaxFaults /\ faults' = faults + 1
  /\ pc' = "down" /\ report' = "none"
  /\ flags' = [resume |-> FALSE, keep |-> FALSE]
  /\ Forget /\ IdleLoop
  /\ UNCHANGED <<disk, runs>>

\* The worker panics between two subprocesses. catch_unwind of main reports the
\* ticker failed, whatever pass it was in; nothing is purged.
Panic ==
  /\ pc \notin {"down", "merging"} /\ queue = NoFiles
  /\ pc = "fetch" => todo \in {{}, active}
  /\ pc' = "down" /\ failed' = TRUE /\ report' = "failed"
  /\ faults < MaxFaults /\ faults' = faults + 1
  /\ unpurged' = TRUE
  /\ IdleLoop
  /\ NewPass
  /\ UNCHANGED <<disk, flags, runs, used>>

-----------------------------------------------------------------------------
(* Availability and the resume gate.                                       *)

\* Free space below --min-free-gib.
DiskFloor ==
  /\ pc = "start"
  /\ ReturnFailed
  /\ UNCHANGED <<disk, loop, faulty>>

\* probe_availability: the exchanges with coverage, or the oracle if none.
Probe ==
  /\ pc = "start"
  /\ \E covered \in SUBSET Cex :
       active' = IF covered = {} THEN {Pyth} ELSE covered
  /\ used' = used \cup active'
  /\ clean' = (\A x \in active' : raw[x] = {}) /\ folded' = NoFiles
  /\ pc' = "gate"
  /\ UNCHANGED <<disk, flags, runs, pass, window, loop, verdict, faulty>>

Complete == \A x \in active : idx[x] # None

\* --resume, every log exists and integrity-check finds no error in it (or
\* it does, and the run takes GateBuild): no fetch, no fold; left-over raw files
\* are removed.
GateSkip ==
  /\ pc = "gate"
  /\ flags.resume /\ Complete
  /\ \E error \in BOOLEAN : Delete(active, {}, error)
  /\ pc' = "merge"
  /\ UNCHANGED <<output, plan, loop, verdict, clean, folded, used, unpurged>>

\* Otherwise the logs are removed and built month by month; one that cannot be
\* removed is appended to.
GateBuild ==
  /\ pc = "gate"
  /\ \E error \in BOOLEAN : Delete({}, active, error)
  /\ clean' = (clean /\ \A x \in active : idx'[x] = None)
  /\ month' = MonthOf[window[1]] /\ todo' = active
  /\ pc' = "fetch"
  /\ UNCHANGED <<output, plan, queue, clock, hard, verdict, folded, used, unpurged>>

-----------------------------------------------------------------------------
(* One month: fetch, fold, sweep.                                          *)

MonthDays == {d \in Days : MonthOf[d] = month}
MonthWindow == {d \in MonthDays : window[1] <= d /\ d <= window[2]}

\* fetch_monthly_daily: the archive of a month that is over, whatever part of
\* it was asked for, unless it fails; else one archive per day of the window.
FetchMonthly(x) ==
  /\ \A d \in MonthDays : d < Today
  /\ MonthDays \in raw[x] \cup Archive[x]
  /\ raw' = [raw EXCEPT ![x] = @ \cup {MonthDays}]

FetchDaily(x) ==
  /\ ~(MonthDays \in raw[x] /\ \A d \in MonthDays : d < Today)
  /\ \E days \in SUBSET {d \in MonthWindow : {d} \in Archive[x]} :
       raw' = [raw EXCEPT ![x] = @ \cup {{d} : d \in days}]

\* fetch-pyth-history: one file, written anew, or none.
FetchPyth(x) ==
  \/ UNCHANGED raw
  \/ \E days \in Archive[x] :
       /\ days \subseteq MonthWindow
       /\ raw' = [raw EXCEPT ![x] = {days}]

\* A failed fetch is not fatal.
Fetch(x) ==
  /\ pc = "fetch"
  /\ x \in todo
  /\ IF x = Pyth THEN FetchPyth(x) ELSE FetchMonthly(x) \/ FetchDaily(x)
  /\ todo' = todo \ {x}
  /\ UNCHANGED <<idx, output, pc, plan, month, queue, clock, hard, verdict, history>>

\* Only one that could not be spawned, or was killed, is: the loop is left
\* before the fold and the sweep.
FetchLost ==
  /\ pc = "fetch"
  /\ todo # {}
  /\ Abort

\* ticks-to-idx starts on every active exchange and lists its files.
FoldStart ==
  /\ pc = "fetch"
  /\ todo = {}
  /\ queue' = [x \in Providers |-> IF x \in active THEN raw[x] ELSE {}]
  /\ clock' = NoClock
  /\ idx' = [x \in Providers |->
               IF x \in active /\ raw[x] # {} /\ idx[x] = None THEN <<>> ELSE idx[x]]
  /\ pc' = "fold"
  /\ UNCHANGED <<raw, output, plan, month, todo, hard, verdict, history>>

\* The file names sort by date, and a month after its days.
FirstFile(files) ==
  CHOOSE f \in files : \A g \in files :
    \/ Max(f) < Max(g)
    \/ Max(f) = Max(g) /\ Cardinality(f) <= Cardinality(g)

\* The days of a file in their order.
Ascending(days) ==
  CHOOSE s \in [1..Cardinality(days) -> days] :
    \A i, j \in 1..Cardinality(days) : i < j => s[i] < s[j]

\* A day behind the cycle clock goes into the cycle that is open: it leaves no
\* record of its own.
Ahead(x, f) == Ascending({d \in f : d > clock[x]})

\* A file that --delete-after-convert cannot remove stays.
FoldFile(x) ==
  LET f == FirstFile(queue[x]) IN
  /\ pc = "fold"
  /\ queue[x] # {}
  /\ queue' = [queue EXCEPT ![x] = @ \ {f}]
  /\ idx' = [idx EXCEPT ![x] = @ \o Ahead(x, f)]
  /\ clock' = [clock EXCEPT ![x] = Max({@, Max(f)})]
  /\ folded' = [folded EXCEPT ![x] = @ \cup f]
  /\ \/ ~flags.keep /\ raw' = [raw EXCEPT ![x] = @ \ {f}] /\ UNCHANGED faults
     \/ flags.keep /\ UNCHANGED <<raw, faults>>
     \/ faults < MaxFaults /\ ~flags.keep /\ UNCHANGED raw /\ faults' = faults + 1
  /\ UNCHANGED <<output, pc, plan, month, todo, hard, verdict, clean, used, unpurged>>

\* The stream fails on the way: the file is left, the next one taken.
FoldError(x) ==
  LET days == Ahead(x, FirstFile(queue[x])) IN
  /\ pc = "fold"
  /\ queue[x] # {}
  /\ queue' = [queue EXCEPT ![x] = @ \ {FirstFile(@)}]
  /\ \E read \in {<<>>} \cup (Prefixes(days) \ {days}) :
       /\ idx' = [idx EXCEPT ![x] = @ \o read]
       /\ clock' = [clock EXCEPT ![x] = Max({@} \cup ToSet(read))]
       /\ folded' = [folded EXCEPT ![x] = @ \cup ToSet(read)]
  /\ UNCHANGED <<raw, output, pc, plan, month, todo, hard, verdict, clean, used, faulty>>

\* ticks-to-idx itself fails on x; those of the other exchanges run on.
FoldLost(x) ==
  /\ pc = "fold"
  /\ queue[x] # {}
  /\ queue' = [queue EXCEPT ![x] = {}]
  /\ hard' = TRUE
  /\ UNCHANGED <<disk, pc, plan, month, todo, clock, verdict, history>>

\* Mutant of MonthFailed: the ticker fails and leaves its staging.
MonthFailedUnswept ==
  /\ pc = "fold"
  /\ queue = NoFiles
  /\ hard
  /\ ReturnFailed
  /\ IdleLoop
  /\ UNCHANGED <<disk, faulty>>

\* delete_month_raw_ticks, whatever --keep-staging says, then the failure of
\* the loop, with its purge.
MonthFailed ==
  /\ pc = "fold"
  /\ queue = NoFiles
  /\ hard
  /\ \E error \in BOOLEAN :
       IF flags.keep THEN Delete(active, {}, error) /\ UNCHANGED unpurged ELSE Cleanup(error)
  /\ ReturnFailed
  /\ IdleLoop
  /\ UNCHANGED output

\* delete_month_raw_ticks, then the next month of the window. A file it cannot
\* remove is folded once more, with those of that month.
MonthDone ==
  /\ pc = "fold"
  /\ queue = NoFiles
  /\ ~hard
  /\ \E error \in BOOLEAN : Delete(active, {}, error)
  /\ clean' = (clean /\ \A x \in active : raw'[x] = {})
  /\ IF MonthOf[window[2]] = month
     THEN pc' = "merge" /\ IdleLoop
     ELSE /\ pc' = "fetch" /\ todo' = active
          /\ month' = Min({MonthOf[d] : d \in {e \in Days : MonthOf[e] > month}})
          /\ UNCHANGED <<queue, clock, hard>>
  /\ UNCHANGED <<output, plan, verdict, folded, used, unpurged>>

-----------------------------------------------------------------------------
(* merge-idx. It is given no exchange: it reads the log of every provider  *)
(* of the configuration that has one.                                      *)

\* manifest_ok(composite_dir, "idx").
MergedBefore == manifest # None /\ DOMAIN shards # {}

\* Mutant of MergeSkip: a manifest is enough, resumed or not.
MergeSkipAlways ==
  /\ pc = "merge"
  /\ MergedBefore
  /\ pc' = "validate"
  /\ UNCHANGED <<disk, plan, loop, verdict, history>>

MergeSkip ==
  /\ pc = "merge"
  /\ flags.resume /\ MergedBefore
  /\ pc' = "validate"
  /\ UNCHANGED <<disk, plan, loop, verdict, history>>

\* The days of a log the k-way merge gets to see in their place: a record
\* behind a later one is read when the cycle clock has passed it.
InOrder(log) ==
  IF log = None THEN {}
  ELSE {log[i] : i \in {j \in DOMAIN log : \A k \in 1..(j - 1) : log[k] <= log[j]}}

Blended(d) == {x \in Providers : d \in InOrder(idx[x])}

BlendDays == {d \in Days : Blended(d) # {}}

\* A day's last cycle may close after midnight: its record opens a shard there.
MergeStart ==
  /\ pc = "merge"
  /\ ~(flags.resume /\ MergedBefore)
  /\ \E x \in Providers : idx[x] # None
  /\ \E spill \in SUBSET {d \in Days : d - 1 \in BlendDays} :
       todo' = BlendDays \cup spill
  /\ pc' = "merging"
  /\ UNCHANGED <<disk, plan, month, queue, clock, hard, verdict, history>>

\* ShardedWriter on the next date: a closed day starts over, the current one
\* is appended to (module IdxShards).
MergeDay ==
  /\ pc = "merging"
  /\ todo # {}
  /\ LET d == Min(todo)
         kept == IF d < Today \/ d \notin DOMAIN shards THEN {} ELSE shards[d]
     IN /\ todo' = todo \ {d}
        /\ shards' = [e \in DOMAIN shards \cup {d} |->
                        IF e = d THEN kept \cup Blended(d) ELSE shards[e]]
  /\ UNCHANGED <<stage, manifest, s10, renko, barsDone, pc, plan, month, queue, clock, hard,
                 verdict, history>>

\* Mutant of MergeDone: the manifest of an earlier run is left.
MergeDoneQuiet ==
  /\ pc = "merging"
  /\ todo = {}
  /\ manifest' = IF manifest = None THEN shards ELSE manifest
  /\ pc' = "validate"
  /\ UNCHANGED <<stage, shards, s10, renko, barsDone, plan, loop, verdict, history>>

\* The manifest is rebuilt from the shards of the directory.
MergeDone ==
  /\ pc = "merging"
  /\ todo = {}
  /\ manifest' = shards
  /\ pc' = "validate"
  /\ UNCHANGED <<stage, shards, s10, renko, barsDone, plan, loop, verdict, history>>

\* No input, the lock held by the live aggregator, or an error on the way.
MergeFail ==
  /\ \/ pc = "merging"
     \/ pc = "merge" /\ ~(flags.resume /\ MergedBefore)
  /\ Abort

\* validate_shards finds no error: staging is consumed, and purged. A purge
\* with an error fails the ticker, but the run goes on to the bars.
ValidateIdx ==
  /\ pc = "validate"
  /\ \E error \in BOOLEAN : PurgeUnlessKept(error) /\ failed' = (failed \/ error)
  /\ clean' = TRUE /\ folded' = NoFiles
  /\ pc' = "s10"
  /\ UNCHANGED <<output, plan, loop, report, used>>

ValidateIdxFail ==
  /\ pc = "validate"
  /\ DOMAIN shards # {}
  /\ Abort

-----------------------------------------------------------------------------
(* Bars, validation, gaps and repair.                                      *)

Closed == {d \in DOMAIN shards : d < Today}

\* s10-from-idx --to-date yesterday: gapless from the first shard to the last.
S10Build ==
  /\ pc = "s10"
  /\ ~(flags.resume /\ barsDone /\ s10 # {})
  /\ Closed # {}
  /\ s10' = s10 \cup {d \in Days : Min(Closed) <= d /\ d <= Max(Closed)}
  /\ barsDone' = TRUE
  /\ pc' = "renko"
  /\ UNCHANGED <<stage, shards, manifest, renko, plan, loop, verdict, history>>

S10Skip ==
  /\ pc = "s10"
  /\ flags.resume /\ barsDone /\ s10 # {}
  /\ pc' = "renko"
  /\ UNCHANGED <<disk, plan, loop, verdict, history>>

S10Fail ==
  /\ pc = "s10"
  /\ ~(flags.resume /\ barsDone /\ s10 # {})
  /\ Abort

\* renko-from-idx needs .s10 shards; it may have no brick to write.
RenkoBuild ==
  /\ pc = "renko"
  /\ ~(flags.resume /\ barsDone /\ renko)
  /\ s10 # {}
  /\ renko' \in {renko, TRUE}
  /\ barsDone' = TRUE
  /\ pc' = IF pass = 0 THEN "validateBars" ELSE "gaps"
  /\ UNCHANGED <<stage, shards, manifest, s10, plan, loop, verdict, history>>

RenkoSkip ==
  /\ pc = "renko"
  /\ flags.resume /\ barsDone /\ renko
  /\ pc' = IF pass = 0 THEN "validateBars" ELSE "gaps"
  /\ UNCHANGED <<disk, plan, loop, verdict, history>>

RenkoFail ==
  /\ pc = "renko"
  /\ ~(flags.resume /\ barsDone /\ renko)
  /\ Abort

\* A bad shard fails the ticker, but the run goes on to the gaps.
ValidateBars ==
  /\ pc = "validateBars"
  /\ failed' \in {failed, TRUE}
  /\ pc' = "gaps"
  /\ UNCHANGED <<disk, plan, loop, report, history>>

\* data-quality-audit on the trailing days: dates without a shard between the
\* first and the last it finds.
AuditDays ==
  LET n == Min({Max({window[2] - window[1], 1}), MaxWindow})
  IN {d \in Days : d >= Today - n}

Audited ==
  LET seen == DOMAIN shards \cap AuditDays IN
  {d \in AuditDays \ seen : \E e, f \in seen : e < d /\ d < f}

\* The step itself has succeeded, whatever it found: the pass returns.
AuditDone ==
  /\ pc = "gaps"
  /\ IF pass = 1
     THEN pc' = "status" /\ UNCHANGED report
     ELSE pc' = "down" /\ report' = IF failed THEN "failed" ELSE "ok"
  /\ NewPass
  /\ UNCHANGED <<disk, loop, failed, flags, runs, used, faulty>>

\* No gap, or none that a pass may still repair.
GapsReport ==
  /\ pass = 1 \/ Audited = {}
  /\ AuditDone

\* The answer of data-quality-audit is no JSON: an error in the report, and no
\* gap that is known of.
GapsUnread ==
  /\ pass = 0 /\ Audited # {}
  /\ AuditDone

\* data-quality-audit could not be spawned.
GapsLost ==
  /\ pc = "gaps"
  /\ ReturnFailed
  /\ UNCHANGED <<disk, loop, faulty>>

\* Mutant of Repair: the same plan again, whatever the pass.
RepairAgain ==
  /\ pc = "gaps"
  /\ Audited # {}
  /\ pass' = 1
  /\ window' = window
  /\ active' = {}
  /\ pc' = "start"
  /\ UNCHANGED <<disk, loop, flags, runs, verdict, history>>

\* Missing days, in the first pass: run_ticker again, from the first of them
\* to the day after the last.
Repair ==
  /\ pc = "gaps"
  /\ pass = 0
  /\ Audited # {}
  /\ pass' = 1
  /\ window' = <<Min(Audited), Max(Audited) + 1>>
  /\ active' = {}
  /\ pc' = "start"
  /\ UNCHANGED <<disk, loop, flags, runs, verdict, history>>

\* Back from the repair pass: the status of the whole.
Status ==
  /\ pc = "status"
  /\ report' = IF failed THEN "failed" ELSE "ok"
  /\ pc' = "down"
  /\ UNCHANGED <<disk, plan, loop, failed, history>>

-----------------------------------------------------------------------------

RunTicker ==
  \/ DiskFloor \/ Probe \/ GateSkip \/ GateBuild
  \/ \E x \in Providers : Fetch(x) \/ FoldFile(x) \/ FoldError(x) \/ FoldLost(x)
  \/ FetchLost \/ FoldStart \/ MonthFailed \/ MonthDone
  \/ MergeSkip \/ MergeStart \/ MergeDay \/ MergeDone \/ MergeFail
  \/ ValidateIdx \/ ValidateIdxFail
  \/ S10Build \/ S10Skip \/ S10Fail \/ RenkoBuild \/ RenkoSkip \/ RenkoFail
  \/ ValidateBars \/ GapsReport \/ GapsUnread \/ GapsLost \/ Repair \/ Status

Next == Launch \/ Crash \/ Panic \/ RunTicker

\* Every subprocess ends, and the worker of the pool goes on.
Spec == Init /\ [][Next]_vars

FairSpec == Spec /\ WF_vars(RunTicker)
-----------------------------------------------------------------------------
(* Properties. *)

\* Whichever step of whichever pass the ticker ended at, well or not, a run
\* without --keep-staging has left no raw file and no log of the exchanges it
\* worked on, unless a purge met an error or the worker panicked: then the
\* report of the run that leaves them is "failed". Removals whose errors are
\* dropped on the way (a stale log, a month's files, a converted file) leave
\* nothing behind in silence (what orphaned staging does to the volume:
\* backfill_all.rs:108-114, :832-839, :1248-1249).
StagingPurged ==
  report # "none" /\ ~flags.keep /\ (\E x \in used : raw[x] # {} \/ idx[x] # None) =>
    unpurged /\ report = "failed"

\* A run that rebuilds from scratch (no --resume, nothing left over from a
\* killed run or by a removal that failed) purges its staging only when every
\* day it has folded, of every exchange, is in the composite shard of that day.
FoldedIsBuilt ==
  [][pc = "validate" /\ pc' = "s10" /\ clean /\ ~flags.resume =>
       \A x \in active : \A d \in folded[x] :
         d \in DOMAIN shards /\ x \in shards[d]]_vars

\* An "ok" report of a run without --resume: the manifest describes the shards
\* on disk, and no closed shard is without its bars, whatever killed runs
\* left and whatever the repair pass rewrote.
OkIsBuilt ==
  report = "ok" /\ ~flags.resume =>
    /\ manifest = shards
    /\ Closed \subseteq s10

\* Every run that is not killed reports: the loops of run_ticker end, and a
\* gap that no source can fill is repaired once (PlanCtx.repair_pass).
TickerEnds == []<>(pc = "down")
=============================================================================
