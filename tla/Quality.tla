------------------------------ MODULE Quality ------------------------------
(***************************************************************************)
(* One ticker's directories and the programs that build and judge them:    *)
(* s10-from-idx and renko-from-idx write the series day by day, each       *)
(* killed anywhere; the calibrator changes k in between; the live writer   *)
(* appends to today's shard while an offline tool swaps it for a resampled *)
(* copy; integrity-check lists, reads the times of the two files that      *)
(* leaves, renames the one over the other and reads, with no lock held;    *)
(* the audit reads the index first and the series later.                   *)
(***************************************************************************)
EXTENDS Audit, Renko

CONSTANTS
  Worlds,    \* [idx, late, ks, pegged, live, vol, torn, strict, runs]: the shards; the days that come
             \* later; the ks the calibrator finds; what is known of the pair; how often today's
             \* shard changes; the volatility rows; whether the first shard is cut short; the
             \* mode; which of the two checkers runs beside the rest
  CurrentDay,
  Since,     \* the first day integrity-check looks at
  LiveRow    \* a record of the live writer

IndexRow ==
  [t : Nat, bid : Int, ask : Int, sentinel : BOOLEAN, noBook : BOOLEAN, enc : {"raw", "freshness", "active"},
   conf : Nat, fresh : BOOLEAN, accepted : Nat, rejected : Nat, vbid : Nat, vask : Nat, ci : Nat]

IsShard(rows, d) == rows \in Seq(IndexRow) /\ \A i \in DOMAIN rows : Day(rows[i].t) = d

ASSUME QualityAssumption ==
  /\ CurrentDay \in Nat /\ LiveRow \in IndexRow /\ None \notin Seq(IndexRow) /\ None # "PASS"
  /\ \A w \in Worlds : /\ DOMAIN w.idx \subseteq 0..CurrentDay /\ w.late \subseteq DOMAIN w.idx
                       /\ \A d \in DOMAIN w.idx : IsShard(w.idx[d], d)
                       /\ w.ks \in Seq(Nat \ {0})

VARIABLES
  world, idx, s10, renko,
  params, stamp,   \* how many ks there were; the k of the manifest, or None
  backup, mtime, writer, clock, \* today's .idx.bak, or None; the time of [idx, bak]; the name the
                             \* live writer's file has; how often it changed
  unseen,          \* history: the rows live wrote to today's shard since the scan read its time
  job,             \* [pc, out, rows, k]: idle, s10 or renko; the shards to write; what was read
  check,           \* [pc, heal, files, bak, orphan, code]; bak: the time of the .bak, as read
  cert             \* [pc, in, verdict]

series == <<s10, renko, stamp>>
pair  == <<backup, mtime, writer, clock, unseen>>
qualityVars == <<world, idx, series, params, pair, job, check, cert>>

K == IF params = 0 THEN None ELSE world.ks[params]

WithShard(shards, d, rows) == [e \in {d} \cup DOMAIN shards |-> IF e = d THEN rows ELSE shards[e]]

Idle    == [pc |-> "idle", out |-> <<>>, rows |-> <<>>, k |-> None]
NoCheck == [pc |-> "idle", heal |-> FALSE, files |-> {}, bak |-> 0, orphan |-> FALSE, code |-> None]
NoCert  == [pc |-> "idle", in |-> None, verdict |-> None]

QualityInit ==
  /\ world \in Worlds
  /\ idx = [d \in DOMAIN world.idx \ world.late |-> world.idx[d]]
  /\ s10 = <<>> /\ renko = <<>> /\ stamp = None /\ params = 0
  /\ backup = None /\ mtime = [idx |-> 0, bak |-> 0] /\ writer = "idx" /\ clock = 0 /\ unseen = {}
  /\ job = Idle /\ check = NoCheck /\ cert = NoCert

\* Days merged late, and a calibration.
Arrive ==
  /\ world.late \ DOMAIN idx # {}
  /\ idx' = [d \in world.late \cup DOMAIN idx |-> IF d \in world.late THEN world.idx[d] ELSE idx[d]]
  /\ UNCHANGED <<world, series, params, pair, job, check, cert>>

Calibrate ==
  /\ params < Len(world.ks)
  /\ params' = params + 1
  /\ UNCHANGED <<world, idx, series, pair, job, check, cert>>

-----------------------------------------------------------------------------
\* The two jobs.

S10Start(to) ==
  /\ job.pc = "idle"
  /\ UpTo(idx, to) # <<>>
  /\ job' = [pc |-> "s10", out |-> S10Shards(idx, to), rows |-> RowsOf(UpTo(idx, to)), k |-> None]
  /\ UNCHANGED <<world, idx, series, params, pair, check, cert>>

\* Without bars or without a k nothing is built.
RenkoStart ==
  /\ job.pc = "idle"
  /\ idx # <<>> /\ s10 # <<>> /\ K # None
  /\ job' = [pc |-> "renko", out |-> RenkoShards(idx, K), rows |-> RowsOf(idx), k |-> K]
  /\ UNCHANGED <<world, idx, series, params, pair, check, cert>>

Written == DOMAIN job.out = {}

WriteShard ==
  /\ job.pc # "idle" /\ ~Written
  /\ LET d == Min(DOMAIN job.out)
     IN /\ job' = [job EXCEPT !.out = [e \in DOMAIN @ \ {d} |-> @[e]]]
        /\ s10' = IF job.pc = "s10" THEN WithShard(s10, d, job.out[d]) ELSE s10
        /\ renko' = IF job.pc = "renko" THEN WithShard(renko, d, job.out[d]) ELSE renko
  /\ UNCHANGED <<world, idx, stamp, params, pair, check, cert>>

\* The manifest comes last; the k of the bricks is stamped into it.
WriteManifest ==
  /\ job.pc # "idle" /\ Written
  /\ stamp' = IF job.pc = "renko" THEN job.k ELSE stamp
  /\ job' = Idle
  /\ UNCHANGED <<world, idx, s10, renko, params, pair, check, cert>>

Kill ==
  /\ job.pc # "idle"
  /\ job' = Idle
  /\ UNCHANGED <<world, idx, series, params, pair, check, cert>>

-----------------------------------------------------------------------------
\* Today's shard.

Thin(rows) ==
  Only(rows, {i \in DOMAIN rows : \A r \in ToSet(rows) : Bucket(r.t) = Bucket(rows[i].t) => r.t <= rows[i].t})

\* Live's next record is later than all there are, under whatever name.
TodayRows == ToSet(idx[CurrentDay]) \cup IF backup = None THEN {} ELSE ToSet(backup)
NextRow   == [LiveRow EXCEPT !.t = Max({CurrentDay * DayLen - 1} \cup {r.t : r \in TodayRows}) + 1]

Touched == clock < world.live /\ CurrentDay \in DOMAIN idx /\ clock' = clock + 1

\* An in-place resample renames the shard and writes the copy.
SwapToday ==
  /\ Touched
  /\ backup' = idx[CurrentDay]
  /\ idx' = [idx EXCEPT ![CurrentDay] = Thin(@)]
  /\ mtime' = [idx |-> clock', bak |-> mtime.idx]
  /\ writer' = IF writer = "idx" THEN "bak" ELSE "gone"
  /\ UNCHANGED <<world, series, params, unseen, job, check, cert>>

\* Live follows its descriptor, whatever the file is called now, until midnight.
LiveWrite ==
  /\ Touched /\ Day(NextRow.t) = CurrentDay
  /\ \/ /\ writer = "idx"
        /\ idx' = [idx EXCEPT ![CurrentDay] = Append(@, NextRow)]
        /\ mtime' = [mtime EXCEPT !.idx = clock']
        /\ unseen' = IF check.pc = "promote" THEN unseen \cup {NextRow} ELSE unseen
        /\ UNCHANGED backup
     \/ /\ writer = "bak"
        /\ backup' = Append(backup, NextRow)
        /\ mtime' = [mtime EXCEPT !.bak = clock']
        /\ UNCHANGED <<idx, unseen>>
     \/ writer = "gone" /\ UNCHANGED <<idx, backup, mtime, unseen>>
  /\ UNCHANGED <<world, series, params, writer, job, check, cert>>

LiveRestart ==
  /\ Touched
  /\ writer # "idx"
  /\ writer' = "idx"
  /\ UNCHANGED <<world, idx, series, params, backup, mtime, unseen, job, check, cert>>

-----------------------------------------------------------------------------
\* integrity-check of the directory.

FilesOf(kind, shards) == {<<kind, d>> : d \in {e \in DOMAIN shards : e >= Since}}

CheckList(heal) ==
  /\ check.pc = "idle" /\ "check" \in world.runs
  /\ check' = [NoCheck EXCEPT !.pc = "listed", !.heal = heal,
                              !.files = FilesOf("idx", idx) \cup FilesOf("s10", s10) \cup FilesOf("renko", renko)]
  /\ UNCHANGED <<world, idx, series, params, pair, job, cert>>

\* The scan: without a backup of today there is nothing to compare.
ScanBackup ==
  /\ check.pc = "listed"
  /\ check' = IF backup = None THEN [check EXCEPT !.pc = "scanned"]
              ELSE [check EXCEPT !.pc = "compare", !.bak = mtime.bak]
  /\ UNCHANGED <<world, idx, series, params, pair, job, cert>>

\* Mutant: any backup of today.
OrphanedAny == TRUE

\* Only a backup that was newer than today's shard is an orphan.
Orphaned == CurrentDay \in DOMAIN idx => check.bak > mtime.idx

ScanShard ==
  /\ check.pc = "compare"
  /\ check' = IF Orphaned /\ check.heal THEN [check EXCEPT !.pc = "promote"]
              ELSE [check EXCEPT !.pc = "scanned", !.orphan = Orphaned]
  /\ UNCHANGED <<world, idx, series, params, pair, job, cert>>

\* The backup of the moment takes the place of the shard of the moment.
Promote ==
  /\ check.pc = "promote"
  /\ check' = [check EXCEPT !.pc = "scanned"]
  /\ idx' = WithShard(idx, CurrentDay, backup)
  /\ backup' = None
  /\ mtime' = [mtime EXCEPT !.idx = mtime.bak]
  /\ writer' = IF writer = "bak" THEN "idx" ELSE "gone"
  /\ unseen' = {}
  /\ UNCHANGED <<world, series, params, clock, job, cert>>

PromoteFails ==
  /\ check.pc = "promote"
  /\ check' = [check EXCEPT !.pc = "scanned", !.orphan = TRUE]
  /\ unseen' = {}
  /\ UNCHANGED <<world, idx, series, params, backup, mtime, writer, clock, job, cert>>

Now == (CurrentDay + 1) * DayLen
Torn(f) == world.torn /\ f = <<"idx", Min(DOMAIN idx)>>

CheckFile(f) ==
  File(Torn(f), CASE f[1] = "idx"   -> CheckIdx(idx[f[2]], Now, world.strict)
                  [] f[1] = "s10"   -> CheckS10(s10[f[2]], world.strict)
                  [] f[1] = "renko" -> CheckBars(renko[f[2]]))

CheckRead ==
  /\ check.pc = "scanned"
  /\ LET found == UNION {CheckFile(f) : f \in check.files} \cup CheckVol(world.vol, Now)
     IN check' = [NoCheck EXCEPT !.code = Max({ExitCode(found, world.strict), IF check.orphan THEN 2 ELSE 0})]
  /\ UNCHANGED <<world, idx, series, params, pair, job, cert>>

-----------------------------------------------------------------------------
\* The audit.

AuditRead ==
  /\ cert.pc # "read" /\ "audit" \in world.runs
  /\ cert' = [NoCert EXCEPT !.pc = "read", !.in = idx]
  /\ UNCHANGED <<world, idx, series, params, pair, job, check>>

Audited == [idx |-> cert.in, s10 |-> s10, renko |-> renko, k |-> K, stamp |-> stamp,
            pegged |-> world.pegged, resolved |-> TRUE, from |-> 0, to |-> CurrentDay]

AuditJudge ==
  /\ cert.pc = "read"
  /\ cert' = [pc |-> "judged", in |-> Audited, verdict |-> Verdict(Audited)]
  /\ UNCHANGED <<world, idx, series, params, pair, job, check>>

QualityNext ==
  \/ Arrive \/ Calibrate
  \/ \E to \in {CurrentDay - 1, CurrentDay} : S10Start(to)
  \/ RenkoStart \/ WriteShard \/ WriteManifest \/ Kill
  \/ SwapToday \/ LiveWrite \/ LiveRestart
  \/ \E heal \in BOOLEAN : CheckList(heal)
  \/ ScanBackup \/ ScanShard \/ Promote \/ PromoteFails \/ CheckRead
  \/ AuditRead \/ AuditJudge

QualitySpec == QualityInit /\ [][QualityNext]_qualityVars
-----------------------------------------------------------------------------
\* Properties.

\* The rows that are not late: no usable row before them is in a later bucket.
OnTime(rows) ==
  {i \in DOMAIN rows : Usable(rows[i]) /\ \A j \in 1..(i - 1) : Usable(rows[j]) => Bucket(rows[j].t) <= Bucket(rows[i].t)}

\* Once s10-from-idx has written its last shard, the bars are the gapless grid of what it read: one
\* bar for every bucket from the first to the last that has a row, in the shard of the day it opens
\* on, over the prices of its rows, flat at the last price before it if it has none.
BarsAreTheGrid ==
  (job.pc = "s10" /\ Written) =>
    LET on   == OnTime(job.rows)
        at(b) == {i \in on : Bucket(job.rows[i].t) = b}
        px(i) == Mid2(job.rows[i])
        bs   == {Bucket(job.rows[i].t) : i \in on}
    IN on # {} => \A b \in {x \in Min(bs)..Max(bs) : x % Bar = 0} :
         LET bars == s10[Day(b)]
             last == Max({i \in on : Bucket(job.rows[i].t) <= b})
         IN /\ Day(b) \in DOMAIN s10
            /\ \E k \in DOMAIN bars :
                 /\ \A m \in DOMAIN bars : bars[m].t0 = b <=> m = k
                 /\ bars[k].n = Cardinality(at(b)) /\ bars[k].c = px(last)
                 /\ bars[k].h = Max({px(i) : i \in at(b)} \cup IF at(b) = {} THEN {px(last)} ELSE {})

\* Whatever was built, rebuilt or cut short, and whatever the records hold, the bars on disk raise no
\* error in integrity-check and no K1, K2 or OHLC reason in the audit: a missing shard is a gap, never
\* an overlap or a bar off the grid.
BarsPassTheChecks ==
  /\ \A d \in DOMAIN s10 : At("error", CheckS10(s10[d], FALSE)) = {}
  /\ LET rows == RowsOf(s10)
     IN \A i \in DOMAIN rows : ~BadBar(Before(rows, i), rows[i]) /\ ~OffGrid(Before(rows, i), rows[i])
  /\ \A j \in Joints(s10) : ~SeamBreak(j)

\* The pass over an index file finds what looking back from every row finds: the time is the row's
\* before it whatever that row was, the mid is that of the last real and sound quote, and a frozen
\* run is one of such quotes.
ChecksLookBack ==
  \A d \in DOMAIN idx :
    LET rows  == idx[d]
        real  == Only(rows, {i \in DOMAIN rows : Derived(rows[i]) /\ ~rows[i].sentinel})
        found == CheckIdx(rows, Now, FALSE)
        base(i) == {j \in 1..(i - 1) : Derived(rows[j]) /\ ~rows[j].sentinel}
        has(i, w) == \E f \in found : f.row = i /\ f.what = w
    IN /\ \A i \in DOMAIN rows :
            /\ has(i, "backwards") <=> i > 1 /\ rows[i].t < rows[i - 1].t
            /\ has(i, "jump") <=>
                 /\ Derived(rows[i]) /\ ~rows[i].sentinel /\ base(i) # {}
                 /\ rows[i].t - rows[i - 1].t <= IdxMaxGap
                 /\ LET p == Mid2(rows[Max(base(i))])
                    IN Distance(Mid2(rows[i]), p) * JumpIn > p
       /\ has(0, "stuck") <=>
            \E i \in DOMAIN real : i + StuckRun - 1 <= Len(real)
                                   /\ \A j \in i..(i + StuckRun - 1) : Mid2(real[j]) = Mid2(real[i])

\* A silence the gap check calls closed is still seen: if the series was built from the records the
\* audit read, none of more than ZeroRun whole bars between two usable records passes, midnight or not.
SilenceFails ==
  (cert.verdict = "PASS" /\ cert.in.s10 = S10Shards(cert.in.idx, CurrentDay)) =>
    LET rows == RowsOf(cert.in.idx)
        on   == OnTime(rows)
    IN \A i \in on : (\E j \in on : j > i) =>
         rows[Min({j \in on : j > i})].t - rows[i].t < (ZeroRun + 1) * Bar

\* Between them the audit and the file checker miss no joint: if the one passes and the other finds no
\* error in the shards of bricks, every brick opens where the one before it closed, across shards
\* that are empty, missing or of another build.
PassedIsSeamless ==
  (cert.verdict = "PASS" /\ \A d \in DOMAIN cert.in.renko : CheckBars(cert.in.renko[d]) = {}) =>
    LET rows == RowsOf(cert.in.renko) IN \A i \in 2..Len(rows) : rows[i].o = rows[i - 1].c

\* Putting an orphaned backup back takes no record away from the readers, whoever wrote which file
\* when, but those a restarted live writer added to today's shard after the scan had read its time
\* (integrity_check.rs:1562-1576: no lock is held from the reads to the rename).
PromotionLosesOnlyUnseen ==
  [][(backup # None /\ backup' = None) =>
       ToSet(idx[CurrentDay]) \subseteq ToSet(idx'[CurrentDay]) \cup unseen]_qualityVars
=============================================================================
