------------------------------ MODULE Onchain ------------------------------
(***************************************************************************)
(* onchain-backfill: the swaps of an asset's pools are paged out of an     *)
(* indexer, replayed on a one-second grid through the live quality gate,   *)
(* and the records put into daily shards.  Two runs share one directory,   *)
(* each killed or failing anywhere; the writer lock is all that is between *)
(* them.                                                                   *)
(*                                                                         *)
(* Time is in seconds, a day DayLen of them.  A pool's price after a swap  *)
(* is an integer; its depth is enough.  The average over the window and    *)
(* the composite of the legs are nxr_onchain's: means.  Bridging to USD    *)
(* multiplies by the quote mark and is left out, its coverage checks are   *)
(* not.  Symlinks and staged temporary files, which no listing sees, are   *)
(* left out.                                                               *)
(***************************************************************************)
EXTENDS Integers, Sequences, FiniteSets, FiniteSetsExt, SequencesExt, Functions

CONSTANTS
  Runs,
  Worlds,    \* [time, logs, quote, shards]: block -> its second; the logs; the second of each
             \* quote bar; the days that have a shard
  Legs,      \* leg -> [v4, hooked]
  LegOrder,  \* the order of the configuration: sequence
  Args,      \* [from, to, force, prune, sparse] of the runs
  PageSizes, \* how many blocks a reply covers
  Today,
  DayLen, Lookback, Twap, Warmup, HoldCap, Heartbeat, QuoteGap,
  MinLegs,   \* the fewest legs of a composite
  Band,      \* the prices of the peg band
  MaxTries   \* attempts per request

ASSUME OnchainAssumption ==
  /\ DayLen \in Nat \ {0} /\ Heartbeat \in Nat \ {0} /\ MaxTries \in Nat \ {0}
  /\ \A k \in {Lookback, Twap, Warmup, HoldCap, QuoteGap, MinLegs, Today} : k \in Nat
  /\ PageSizes \subseteq Nat /\ Band \subseteq Nat
  /\ LegOrder # <<>> /\ LegOrder \in Seq(DOMAIN Legs) /\ Range(LegOrder) = DOMAIN Legs
  /\ \A a \in Args :
       /\ a.from \in Nat /\ a.to \in Nat /\ a.from <= a.to /\ a.to < Today   \* validate_range
       /\ a.from * DayLen >= Warmup + Twap   \* the grid starts after 1970

\* A chain: blocks from 0 on, whose clock does not go back, and a leg's logs at
\* places of their own in them.
ASSUME WorldAssumption ==
  \A w \in Worlds :
    /\ Max(DOMAIN w.time) \in Nat /\ w.time \in [0..Max(DOMAIN w.time) -> Nat]
    /\ \A b, c \in DOMAIN w.time : b <= c => w.time[b] <= w.time[c]
    /\ IsFiniteSet(w.logs)
    /\ \A x \in w.logs : x.block \in DOMAIN w.time /\ x.idx \in Nat
    /\ \A x, y \in w.logs : x.leg = y.leg /\ x.block = y.block /\ x.idx = y.idx => x = y

VARIABLES
  world,
  shard,     \* day -> [by, rows]; no shard: not in the domain
  sidecar, manifest, \* whether there is a sidecar; the days the manifest lists, if there is one
  lock,      \* the runs that hold .writer.lock: at most one
  last,      \* the last to have taken it; history
  run        \* each run's own state

disk == <<shard, sidecar, manifest>>
vars == <<world, disk, lock, last, run>>

-----------------------------------------------------------------------------
\* Blocks and pages.

Height == Max(DOMAIN world.time)

\* Binary search for the lowest block at or after a second.
FirstBlockAt(sec) ==
  LET search[lo \in 0..(Height + 1)] ==
        [hi \in 0..(Height + 1) |->
           LET mid == (lo + hi) \div 2 IN
           IF lo >= hi THEN lo
           ELSE IF world.time[mid] < sec THEN search[mid + 1][hi] ELSE search[lo][mid]]
  IN search[0][Height + 1]

FromSec(a) == a.from * DayLen
EndSec(a)  == (a.to + 1) * DayLen
GridStart(a) == FromSec(a) - Warmup - Twap
Blocks(a)  == FirstBlockAt(FromSec(a) - Lookback) .. (FirstBlockAt(EndSec(a)) - 1)
End(a)     == FirstBlockAt(EndSec(a))
Truncated(a) == world.time[Height] < EndSec(a)

-----------------------------------------------------------------------------
\* Events and the quality gate.

Before(x, y) == x.block < y.block \/ (x.block = y.block /\ x.idx < y.idx)
InOrder(logs) ==
  CHOOSE s \in [1..Cardinality(logs) -> logs] : \A i, j \in DOMAIN s : i < j => Before(s[i], s[j])

OfLeg(logs, l) == {x \in logs : x.leg = l}
Usable(logs)   == {x \in logs : x.kind = "swap"}
Events(logs, l) ==
  LET s == InOrder(Usable(OfLeg(logs, l)))
  IN [i \in DOMAIN s |-> [sec |-> world.time[s[i].block], px |-> s[i].px]]

\* A leg without a usable event, or over one undecodable log in a hundred.
CountsOk(logs, l) ==
  LET own == OfLeg(logs, l) IN
  /\ Usable(own) # {}
  /\ Cardinality({x \in own : x.kind = "bad"}) * 100 <= Cardinality(own)

\* Quote::new: bars from before the grid to its end, none too far apart.
QuoteOk(a) ==
  LET q == world.quote IN
  /\ q # <<>> /\ q[1] <= GridStart(a)
  /\ \A i \in 1..(Len(q) - 1) : q[i + 1] - q[i] <= QuoteGap
  /\ Last(q) + QuoteGap >= EndSec(a)

Mean(f) == SumFunction(f) \div Cardinality(DOMAIN f)

\* Enough legs, one of which is not a v4 pool, or is alone and without a hook.
Gate(views) ==
  /\ DOMAIN views # {}
  /\ Cardinality(DOMAIN views) >= MinLegs
  /\ \E l \in DOMAIN views : ~Legs[l].v4 \/ (MinLegs = 1 /\ ~Legs[l].hooked)
  /\ Mean(views) \in Band

\* The price a leg holds at a second: that of its last event, if there is one
\* and it is not older than the cap.
Last2(ev, t) == Max({i \in DOMAIN ev : ev[i].sec <= t} \cup {0})
Holds(ev, t) == Last2(ev, t) # 0 /\ t - ev[Last2(ev, t)].sec <= HoldCap
Held(ev, t)  == ev[Last2(ev, t)].px

NoGrid == [samples |-> [l \in DOMAIN Legs |-> <<>>], green |-> -1, mid |-> -1, emit |-> 0,
           out |-> <<>>, dropped |-> [l \in DOMAIN Legs |-> 0]]

\* A leg's average over the window; only a leg that holds a price has one.
View(samples, t) == Mean(Restrict(samples, {u \in DOMAIN samples : u >= t - Twap /\ u <= t}))

Put(f, d, v) == [x \in DOMAIN f \cup {d} |-> IF x = d THEN v ELSE f[x]]

\* Mutant: a red second does not restart the warm-up.
SecondNoReset(ev, a, g, t) ==
  LET live    == {l \in DOMAIN Legs : Holds(ev[l], t)}
      samples == [l \in DOMAIN Legs |-> IF l \in live
                    THEN Put(g.samples[l], t, Held(ev[l], t)) ELSE g.samples[l]]
      views   == [l \in live |-> View(samples[l], t)]
      green   == IF g.green # -1 THEN g.green ELSE IF Gate(views) THEN t ELSE -1
      due     == /\ Gate(views) /\ t >= FromSec(a) /\ t - green >= Warmup
                 /\ Mean(views) # g.mid \/ t - g.emit >= Heartbeat
  IN [samples |-> samples, green |-> green,
      mid  |-> IF due THEN Mean(views) ELSE g.mid,
      emit |-> IF due THEN t ELSE g.emit,
      out  |-> IF due THEN Append(g.out, [sec |-> t, mid |-> Mean(views)]) ELSE g.out,
      dropped |-> g.dropped]

\* One second of the grid: samples, views, the gate and its warm-up, and a record
\* on a change of the mid or when the last one is a heartbeat old.
Second(ev, a, g, t) ==
  LET known   == {l \in DOMAIN Legs : Last2(ev[l], t) # 0}
      live    == {l \in known : Holds(ev[l], t)}
      samples == [l \in DOMAIN Legs |-> IF l \in live
                    THEN Put(g.samples[l], t, Held(ev[l], t)) ELSE g.samples[l]]
      views   == [l \in live |-> View(samples[l], t)]
      green   == IF ~Gate(views) THEN -1 ELSE IF g.green = -1 THEN t ELSE g.green
      due     == /\ green # -1 /\ t >= FromSec(a) /\ t - green >= Warmup
                 /\ Mean(views) # g.mid \/ t - g.emit >= Heartbeat
  IN [samples |-> samples, green |-> green,
      mid  |-> IF due THEN Mean(views) ELSE g.mid,
      emit |-> IF due THEN t ELSE g.emit,
      out  |-> IF due THEN Append(g.out, [sec |-> t, mid |-> Mean(views)]) ELSE g.out,
      dropped |-> [l \in DOMAIN Legs |->
                     g.dropped[l] + IF t >= FromSec(a) /\ l \in known \ live THEN 1 ELSE 0]]

\* run_grid.
Grid(logs, a) ==
  LET ev == [l \in DOMAIN Legs |-> Events(logs, l)]
      n  == EndSec(a) - GridStart(a)
      g[i \in 0..n] == IF i = 0 THEN NoGrid ELSE Second(ev, a, g[i - 1], GridStart(a) + i - 1)
  IN g[n]

\* A leg dropped for over a quarter of the range.
Sparse(g, a) == \E l \in DOMAIN Legs : g.dropped[l] * 100 > 25 * (EndSec(a) - FromSec(a))

-----------------------------------------------------------------------------
\* The run before it writes.

NoArgs == [from |-> 0, to |-> 0, force |-> FALSE, prune |-> FALSE, sparse |-> FALSE]
New == [pc |-> "idle", args |-> NoArgs, leg |-> 0, cur |-> 0, tries |-> 0, logs |-> {}, recs |-> <<>>, todo |-> {}]

Range2(a) == a.from .. a.to

\* precheck.
Refused(a) ==
  \/ \E d \in DOMAIN shard : d >= Today
  \/ ~a.force /\ (Range2(a) \cap DOMAIN shard # {} \/ sidecar \/ manifest # {})

At(r, pc) == run[r].pc = pc
Go(r, upd) == run' = [run EXCEPT ![r] = upd]
Quit(r)    == run' = [run EXCEPT ![r] = [New EXCEPT !.pc = "failed", !.args = run[r].args]]

Begin(r, a) ==
  /\ At(r, "idle")
  /\ IF Refused(a) \/ Truncated(a) THEN Go(r, [New EXCEPT !.pc = "failed", !.args = a])
     ELSE Go(r, [New EXCEPT !.pc = "fetch", !.args = a, !.leg = 1, !.cur = Min(Blocks(a) \cup {End(a)})])
  /\ UNCHANGED <<world, disk, lock, last>>

\* One page: the leg's logs of the blocks it covers, and where the next one starts.
Page(r) ==
  LET s == run[r] IN
  /\ At(r, "fetch") /\ s.cur < End(s.args)
  /\ \E n \in PageSizes :
       LET next == Min({s.cur + n, End(s.args)})
           new  == {x \in world.logs : x.leg = LegOrder[s.leg] /\ x.block >= s.cur /\ x.block < next}
       IN Go(r, [s EXCEPT !.cur = next, !.tries = 0, !.logs = @ \cup new])
  /\ UNCHANGED <<world, disk, lock, last>>

\* 429, 408, 5xx and transport errors are tried again.
PageRetry(r) ==
  /\ At(r, "fetch") /\ run[r].cur < End(run[r].args)
  /\ IF run[r].tries + 1 < MaxTries THEN Go(r, [run[r] EXCEPT !.tries = @ + 1]) ELSE Quit(r)
  /\ UNCHANGED <<world, disk, lock, last>>

\* Mutant: a page that makes no progress ends the walk.
StuckQuietly(r) ==
  /\ At(r, "fetch") /\ run[r].cur < End(run[r].args)
  /\ Go(r, [run[r] EXCEPT !.cur = End(run[r].args)])
  /\ UNCHANGED <<world, disk, lock, last>>

\* A page without progress, or any other 4xx.
Stuck(r) ==
  /\ At(r, "fetch") /\ run[r].cur < End(run[r].args)
  /\ Quit(r)
  /\ UNCHANGED <<world, disk, lock, last>>

LegDone(r) ==
  LET s == run[r] IN
  /\ At(r, "fetch") /\ s.cur >= End(s.args)
  /\ IF ~CountsOk(s.logs, LegOrder[s.leg]) THEN Quit(r)
     ELSE IF s.leg < Len(LegOrder)
     THEN Go(r, [s EXCEPT !.leg = @ + 1, !.cur = Min(Blocks(s.args) \cup {End(s.args)})])
     ELSE Go(r, [s EXCEPT !.pc = "compute"])
  /\ UNCHANGED <<world, disk, lock, last>>

\* The quote's bars, the grid and the sparse gate.
Compute(r) ==
  LET s == run[r] IN
  /\ At(r, "compute")
  /\ LET g == Grid(s.logs, s.args) IN
       IF ~QuoteOk(s.args) \/ (Sparse(g, s.args) /\ ~s.args.sparse) THEN Quit(r)
       ELSE Go(r, [s EXCEPT !.pc = "write", !.recs = g.out, !.logs = {}, !.leg = 0, !.cur = 0])
  /\ UNCHANGED <<world, disk, lock, last>>

-----------------------------------------------------------------------------
\* write_days.

RowsOf(recs, d) == SelectSeq(recs, LAMBDA x : x.sec >= d * DayLen /\ x.sec < (d + 1) * DayLen)
Full(s)  == {d \in Range2(s.args) : RowsOf(s.recs, d) # <<>>}
Empty(s) == Range2(s.args) \ Full(s)

\* Mutant: the writer lock is not looked at.
AcquireUnlocked(r) ==
  /\ At(r, "write")
  /\ IF Refused(run[r].args) THEN Quit(r) /\ UNCHANGED <<lock, last>>
     ELSE Go(r, [run[r] EXCEPT !.pc = "locked"]) /\ lock' = lock \cup {r} /\ last' = r
  /\ UNCHANGED <<world, disk>>

\* precheck, then the lock or an error.
Acquire(r) ==
  /\ At(r, "write")
  /\ IF Refused(run[r].args) \/ lock # {} THEN Quit(r) /\ UNCHANGED <<lock, last>>
     ELSE Go(r, [run[r] EXCEPT !.pc = "locked"]) /\ lock' = {r} /\ last' = r
  /\ UNCHANGED <<world, disk>>

Release(r) == lock' = lock \ {r}

\* precheck again, and every shard and the sidecar to temporary files.
Stage(r) ==
  /\ At(r, "locked")
  /\ IF Refused(run[r].args) \/ Full(run[r]) = {} THEN Quit(r) /\ Release(r)
     ELSE Go(r, [run[r] EXCEPT !.pc = "staged"]) /\ UNCHANGED lock
  /\ UNCHANGED <<world, disk, last>>

\* precheck for the last time.
Recheck(r) ==
  /\ At(r, "staged")
  /\ IF Refused(run[r].args) THEN Quit(r) /\ Release(r)
     ELSE Go(r, [run[r] EXCEPT !.pc = "commit", !.todo = Full(run[r])]) /\ UNCHANGED lock
  /\ UNCHANGED <<world, disk, last>>

\* One shard's rename, oldest first.
Commit(r) ==
  LET s == run[r] IN
  /\ At(r, "commit")
  /\ \E d \in s.todo :
       /\ \A e \in s.todo : d <= e
       /\ shard' = Put(shard, d, [by |-> r, rows |-> RowsOf(s.recs, d)])
       /\ Go(r, [s EXCEPT !.todo = @ \ {d}])
  /\ UNCHANGED <<world, sidecar, manifest, lock, last>>

CommitSidecar(r) ==
  /\ At(r, "commit") /\ run[r].todo = {}
  /\ sidecar' = TRUE
  /\ Go(r, [run[r] EXCEPT !.pc = "prune", !.todo = IF run[r].args.prune THEN Empty(run[r]) ELSE {}])
  /\ UNCHANGED <<world, shard, manifest, lock, last>>

Prune(r) ==
  LET s == run[r] IN
  /\ At(r, "prune")
  /\ \E d \in s.todo :
       /\ \A e \in s.todo : d <= e
       /\ shard' = Restrict(shard, DOMAIN shard \ {d})
       /\ Go(r, [s EXCEPT !.todo = @ \ {d}])
  /\ UNCHANGED <<world, sidecar, manifest, lock, last>>

\* Mutant: only the shards of this run are listed.
FinishOwn(r) ==
  /\ At(r, "prune") /\ run[r].todo = {}
  /\ manifest' = Full(run[r])
  /\ Go(r, [run[r] EXCEPT !.pc = "done"])
  /\ Release(r)
  /\ UNCHANGED <<world, shard, sidecar, last>>

\* The manifest from a scan.
Finish(r) ==
  /\ At(r, "prune") /\ run[r].todo = {}
  /\ manifest' = DOMAIN shard
  /\ Go(r, [run[r] EXCEPT !.pc = "done"])
  /\ Release(r)
  /\ UNCHANGED <<world, shard, sidecar, last>>

\* An I/O error or a kill: the lock goes with the process.
Stop(r) ==
  /\ run[r].pc \in {"locked", "staged", "commit", "prune"}
  /\ Quit(r)
  /\ Release(r)
  /\ UNCHANGED <<world, disk, last>>

Init ==
  /\ world \in Worlds
  /\ shard = [d \in world.shards |-> [by |-> "before", rows |-> <<>>]]
  /\ sidecar = FALSE /\ manifest = {}
  /\ lock = {} /\ last = "before"
  /\ run = [r \in Runs |-> New]

Step(r) ==
  \/ \E a \in Args : Begin(r, a)
  \/ Page(r) \/ PageRetry(r) \/ Stuck(r) \/ LegDone(r) \/ Compute(r)
  \/ Acquire(r) \/ Stage(r) \/ Recheck(r) \/ Commit(r) \/ CommitSidecar(r) \/ Prune(r) \/ Finish(r) \/ Stop(r)

Next == \E r \in Runs : Step(r)

Spec == Init /\ [][Next]_vars

-----------------------------------------------------------------------------
\* Reference: the gate from the chain alone.

Swaps(l, a, t) ==
  {x \in world.logs : x.leg = l /\ x.kind = "swap" /\ world.time[x.block] <= t
                      /\ world.time[x.block] >= FromSec(a) - Lookback}
Latest(S) == CHOOSE x \in S : \A y \in S : x.block > y.block \/ (x.block = y.block /\ x.idx >= y.idx)
Alive(l, a, t) == Swaps(l, a, t) # {} /\ t - world.time[Latest(Swaps(l, a, t)).block] <= HoldCap
Average(l, a, t) ==
  LET at == {u \in Max({GridStart(a), t - Twap})..t : Alive(l, a, u)}
  IN Mean([u \in at |-> Latest(Swaps(l, a, u)).px])
Views(a, t) == [l \in {k \in DOMAIN Legs : Alive(k, a, t)} |-> Average(l, a, t)]
Warm(a, t)  == \A u \in (t - Warmup)..t : Gate(Views(a, u))

Computed(r) == run[r].pc \in {"write", "locked", "staged", "commit", "prune", "done"}

\* "continuous warmup" (onchain_backfill.rs:324): no record is of a second the
\* pools' swaps up to then had not kept green for the whole warm-up, or shows
\* another mid than theirs, whatever pages they came in.
RecordsAreWarm ==
  \A r \in Runs : Computed(r) =>
    \A i \in DOMAIN run[r].recs :
      LET x == run[r].recs[i] a == run[r].args IN
      /\ x.sec \in FromSec(a)..(EndSec(a) - 1)
      /\ Warm(a, x.sec) /\ x.mid = Mean(Views(a, x.sec))

\* "A record is emitted on a mid change and at most 5 s apart" (:34): at every
\* warm second the latest record is less than a heartbeat old and shows the mid.
WarmIsRecorded ==
  \A r \in Runs : Computed(r) =>
    LET a == run[r].args s == run[r].recs IN
    \A t \in FromSec(a)..(EndSec(a) - 1) : Warm(a, t) =>
      \E i \in DOMAIN s :
        /\ s[i].sec <= t /\ \A j \in DOMAIN s : j > i => s[j].sec > t
        /\ t - s[i].sec < Heartbeat /\ s[i].mid = Mean(Views(a, t))

\* "existing shards/sidecar are refused without --force" (:13): whatever the
\* other run does in the meantime, a shard is replaced or removed only by a
\* forced run that holds the writer lock, within its range, and removed only
\* when it was told to prune.
OnlyForceReplaces ==
  [][\A d \in DOMAIN shard :
       d \notin DOMAIN shard' \/ shard'[d] # shard[d] =>
         /\ last \in lock /\ lock = {last}
         /\ run[last].args.force /\ d \in Range2(run[last].args)
         /\ d \notin DOMAIN shard' => run[last].args.prune]_vars

\* write_days: when a run has succeeded and nobody has taken the lock since,
\* its days hold its rows and nothing else's, days without rows are as they were
\* unless pruned, and the manifest lists the directory.
SuccessIsWhole ==
  \A r \in Runs : At(r, "done") /\ last = r =>
    LET a == run[r].args IN
    /\ manifest = DOMAIN shard /\ sidecar
    /\ \A d \in Range2(a) : IF d \in Full(run[r])
         THEN d \in DOMAIN shard /\ shard[d] = [by |-> r, rows |-> RowsOf(run[r].recs, d)]
         ELSE a.prune => d \notin DOMAIN shard
=============================================================================
