------------------------------ MODULE Resample ------------------------------
(***************************************************************************)
(* resample-idx on one daily shard: down-sampling to a coarser cadence by  *)
(* the last record of each bin, verification, `.idx.new`, and the commit   *)
(* by two renames.  Shards are independent: each is resampled under its    *)
(* own catch_unwind, and the report and the exit status decide nothing.    *)
(* The shard's day is over: collect_shards skips the current one.          *)
(*                                                                         *)
(* A record is its timestamp, the input record whose body it carries,      *)
(* whether the body's ticker is the directory's, and FLAG_IDX_HEALED.      *)
(***************************************************************************)
EXTENDS Integers, Sequences, SequencesExt

CONSTANTS
  Shards,   \* the shards as they were written: sequences of records
  Targets,  \* --target-ms of the runs
  None      \* no such file

\* A record.
Rows == [ts : Nat, src : Nat, own : BOOLEAN, healed : BOOLEAN]

ASSUME ResampleAssumption ==
  Shards \subseteq Seq(Rows) /\ Targets \subseteq Nat \ {0} /\ None \notin Seq(Rows)

VARIABLES
  written,  \* the shard as its writers left it; history
  idx,      \* <date>.idx
  staged,   \* <date>.idx.new
  bak,      \* <date>.idx.bak
  pc,       \* where the run stands
  args,     \* its target cadence, and whether it commits
  level     \* the coarsest cadence committed; history

files == <<idx, staged, bak>>
resampleVars == <<written, files, pc, args, level>>

-----------------------------------------------------------------------------
\* Down-sampling.

Bin(ts, target) == (ts \div target) * target

Stamp(r, target) == [r EXCEPT !.ts = Bin(r.ts, target), !.healed = TRUE]

\* Mutant: the first record of a bin wins.
AddFirst(out, r, target) ==
  IF out # <<>> /\ Last(out).ts = Bin(r.ts, target) THEN out ELSE Append(out, Stamp(r, target))

\* A record of the open bin replaces its representative.
Add(out, r, target) ==
  IF out # <<>> /\ Last(out).ts = Bin(r.ts, target)
  THEN Append(Front(out), Stamp(r, target))
  ELSE Append(out, Stamp(r, target))

\* resample_last_in_bucket: one pass.
Down(recs, target) ==
  LET out[n \in 0..Len(recs)] == IF n = 0 THEN <<>> ELSE Add(out[n - 1], recs[n], target)
  IN out[Len(recs)]

\* The records of the directory's ticker.
Own(recs) ==
  LET own[n \in 0..Len(recs)] ==
        IF n = 0 THEN <<>>
        ELSE IF recs[n].own THEN Append(own[n - 1], recs[n]) ELSE own[n - 1]
  IN own[Len(recs)]

\* The positive gaps between neighbours, in ascending order.
Gaps(recs) ==
  LET gap(i) == recs[i + 1].ts - recs[i].ts
      up     == {i \in 1..(Len(recs) - 1) : gap(i) > 0}
  IN SetToSortSeq({<<gap(i), i>> : i \in up},
                  LAMBDA a, b : a[1] < b[1] \/ (a[1] = b[1] /\ a[2] < b[2]))

\* The mean of the two middle gaps, halves rounded up.
Median(recs) ==
  LET g == Gaps(recs) n == Len(g) IN
  IF n = 0 THEN 0
  ELSE IF n % 2 = 1 THEN g[(n + 1) \div 2][1]
  ELSE (g[n \div 2][1] + g[n \div 2 + 1][1] + 1) \div 2

AlreadyTarget(recs, target) ==
  /\ Len(recs) >= 2
  /\ \A i \in DOMAIN recs : recs[i].healed
  /\ Median(recs) = target

\* verify_invariants; its checks of the confidence markers and of the message
\* type ask whether bodies were copied.
Verified(old, new, target) ==
  /\ Len(new) <= Len(old)
  /\ \A i \in DOMAIN new : new[i].ts % target = 0 /\ new[i].healed
  /\ \A i \in 1..(Len(new) - 1) : new[i].ts < new[i + 1].ts
  /\ Last(new).ts <= Last(old).ts

-----------------------------------------------------------------------------
\* One run over the shard. A shard that is not there, has no record of its
\* ticker, is at the target already or fails verification is left alone.

Idle == pc = "idle"

NoArgs == [target |-> 0, commit |-> FALSE]

\* list_shards only sees <date>.idx: a shard that lost it is never taken up again.
Start(t, commit) ==
  /\ Idle /\ idx # None
  /\ pc' = "read"
  /\ args' = [target |-> t, commit |-> commit]
  /\ UNCHANGED <<written, files, level>>

End == pc' = "idle" /\ args' = NoArgs

Skip ==
  /\ pc = "read"
  /\ LET recs == Own(idx) IN
       \/ recs = <<>>
       \/ recs # <<>> /\ AlreadyTarget(recs, args.target)
       \/ recs # <<>> /\ ~Verified(recs, Down(recs, args.target), args.target)
  /\ End
  /\ UNCHANGED <<written, files, level>>

\* write_atomic, then the commit if it is asked for.
Stage ==
  /\ pc = "read"
  /\ LET recs == Own(idx)
         new  == Down(recs, args.target)
     IN /\ recs # <<>> /\ ~AlreadyTarget(recs, args.target)
        /\ Verified(recs, new, args.target)
        /\ staged' = new
  /\ IF args.commit THEN pc' = "staged" /\ UNCHANGED args ELSE End
  /\ UNCHANGED <<written, idx, bak, level>>

\* Mutant: the new file is renamed first.
MoveOldLast ==
  /\ pc = "staged"
  /\ idx' = None /\ bak' = staged /\ staged' = None
  /\ pc' = "moved"
  /\ UNCHANGED <<written, args, level>>

MoveOld ==
  /\ pc = "staged"
  /\ bak' = idx /\ idx' = None
  /\ pc' = "moved"
  /\ UNCHANGED <<written, staged, args, level>>

MoveNew ==
  /\ pc = "moved"
  /\ idx' = staged /\ staged' = None
  /\ level' = IF args.target > level THEN args.target ELSE level
  /\ End
  /\ UNCHANGED <<written, bak>>

\* Killed, or an I/O error of the shard: the next shard is taken up.
Abort ==
  /\ ~Idle
  /\ End
  /\ UNCHANGED <<written, files, level>>

ResampleInit ==
  /\ written \in Shards
  /\ idx = written /\ staged = None /\ bak = None
  /\ pc = "idle" /\ args = NoArgs /\ level = 0

ResampleNext ==
  \/ Skip \/ Stage \/ MoveOld \/ MoveNew \/ Abort
  \/ \E t \in Targets, commit \in BOOLEAN : Start(t, commit)

ResampleSpec == ResampleInit /\ [][ResampleNext]_resampleVars

-----------------------------------------------------------------------------
ResampleTypeOK ==
  /\ written \in Shards
  /\ idx \in Seq(Rows) \cup {None} /\ staged \in Seq(Rows) \cup {None} /\ bak \in Seq(Rows) \cup {None}
  /\ pc \in {"idle", "read", "staged", "moved"}
  /\ pc # "idle" => args \in [target : Targets, commit : BOOLEAN]
  /\ level \in Targets \cup {0}

\* The last records of the bins, and the sequence of them with bins ascending.
LastIn(recs, target) ==
  {i \in 1..Len(recs) : \A j \in 1..Len(recs) : j > i => Bin(recs[j].ts, target) # Bin(recs[i].ts, target)}
Ascending(recs) == \A i \in 1..(Len(recs) - 1) : recs[i].ts < recs[i + 1].ts
AreLastOfBins(new, recs, target) ==
  /\ Range(new) = {Stamp(recs[i], target) : i \in LastIn(recs, target)}
  /\ Ascending(new)

\* Of any two cadences one is a multiple of the other.
Nested == \A s, t \in Targets : s % t = 0 \/ t % s = 0

\* resample_idx.rs:18-20: whatever runs were started, cut short and repeated, at
\* cadences that are multiples of each other, a committed shard holds for every
\* bin of the coarsest one the last record of it that was written, re-stamped and
\* otherwise unchanged.
CommittedIsLastOfBin ==
  Nested /\ level # 0 /\ idx # None => AreLastOfBins(idx, Own(written), level)

\* resample_idx.rs:95-96: a shard whose commit was cut short can be completed
\* from .new as well as rolled back from .bak, which hold two different files.
MissingIsRecoverable ==
  idx = None => /\ staged # None /\ bak # None
                /\ \E t \in Targets : staged = Down(Own(bak), t)
=============================================================================
