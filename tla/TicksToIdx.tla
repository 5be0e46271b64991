------------------------------ MODULE TicksToIdx ------------------------------
(***************************************************************************)
(* ticks-to-idx (src/src/bin/ticks_to_idx.rs): folds the raw .ticks files  *)
(* of one exchange, in order, into records of one cycle each, appended to  *)
(* the log of the exchange, and removes every file it has folded. The      *)
(* orchestrator starts it once a month on the files of that month          *)
(* (Backfill): the log goes on, the cycle clock starts afresh.             *)
(*                                                                         *)
(* The log is written through a buffer: a record is on disk for sure once  *)
(* the log was flushed. The job may be killed anywhere, files may not      *)
(* open, appends, flushes and removals may fail.                           *)
(*                                                                         *)
(* A tick is a time, and whether its prices make sense; it is named by     *)
(* month, file and position. Whether the outlier filter takes it is a      *)
(* choice: the statistics behind it are not modelled. A torn frame at the  *)
(* end of a file is cut off: the file is what is left.                     *)
(***************************************************************************)
EXTENDS Integers, SequencesExt

CONSTANTS
  Times,   \* milliseconds
  Inputs,  \* SUBSET Seq(Seq(Seq(Ticks))): the files of every month
  Cycle,   \* --cycle-ms
  None     \* no boundary yet

Ticks == [at : Times, sane : BOOLEAN]

ASSUME TimesAssumption == Times \subseteq Nat
ASSUME InputsAssumption == Inputs \subseteq Seq(Seq(Seq(Ticks)))
ASSUME CycleAssumption == Cycle \in Nat \ {0}
ASSUME NoneAssumption == None \notin Int

VARIABLES
  input,   \* the files, as they were fetched
  month,   \* which of them this run is given
  remove,  \* --delete-after-convert
  raw,     \* files on disk: indexes into input[month]
  log,     \* the records appended
  synced,  \* how many of them are on disk for sure
  pc,      \* "idle", "folding", "down": killed or gave up
  file,    \* the file being streamed
  pos,     \* frames of it behind us
  acc,     \* TickAccumulator: ticks ingested since it was flushed
  next,    \* next_cycle_ms
  last,    \* last_tick_ms
  \* history
  first,   \* the time the cycle clock of this run started at
  taken,   \* ticks ingested
  dropped  \* of these, the ones whose record could not be appended

disk == <<raw, log, synced>>
clock == <<next, last>>
history == <<first, taken, dropped>>
vars == <<input, month, remove, disk, pc, file, pos, acc, clock, history>>

Files == input[month]
Frame(f, i) == Files[f][i]
Name(f, i) == <<month, f, i>>

\* The tick of a name.
TickOf(n) == input[n[1]][n[2]][n[3]]

Init ==
  /\ input \in Inputs /\ remove \in BOOLEAN
  /\ month = 0
  /\ raw = {} /\ log = <<>> /\ synced = 0
  /\ pc = "idle" /\ file = 1 /\ pos = 0
  /\ acc = {} /\ next = None /\ last = 0
  /\ first = 0 /\ taken = {} /\ dropped = {}

\* The next month is fetched, what is left of the last one is swept, and the
\* job starts. With no file at all there is nothing to do.
Start ==
  /\ pc = "idle" /\ month < Len(input)
  /\ month' = month + 1
  /\ raw' = 1..Len(input[month + 1])
  /\ pc' = IF input[month + 1] = <<>> THEN "idle" ELSE "folding"
  /\ file' \in 1..(Len(input[month + 1]) + 1) /\ pos' = 0
  /\ acc' = {} /\ next' = None /\ last' = 0
  /\ UNCHANGED <<input, remove, log, synced, history>>

-----------------------------------------------------------------------------
(* stream_file_into_acc.                                                   *)

Streaming == pc = "folding" /\ file <= Len(Files)

\* On to the next file that can be opened and mapped.
NextFile == file' \in (file + 1)..(Len(Files) + 1) /\ pos' = 0

\* The frame under the cursor, if its prices make sense.
AtTick == Streaming /\ pos < Len(Files[file]) /\ Frame(file, pos + 1).sane
Now == Frame(file, pos + 1).at

\* A bid or an ask of nothing, or a crossed book.
Skip ==
  /\ Streaming /\ pos < Len(Files[file]) /\ ~Frame(file, pos + 1).sane
  /\ pos' = pos + 1
  /\ UNCHANGED <<input, month, remove, disk, pc, file, acc, clock, history>>

Due == IF next = None THEN FALSE ELSE Now >= next

\* What the record of a cycle is stamped with.
Boundary == next

\* Mutant of CloseCycle: the accumulator is not emptied.
CloseCycleKeeps ==
  /\ AtTick /\ Due
  /\ log' = IF acc = {} THEN log ELSE Append(log, [at |-> Boundary, of |-> acc])
  /\ next' = next + Cycle
  /\ UNCHANGED <<input, month, remove, raw, synced, pc, file, pos, acc, last, history>>

\* Mutant of CloseCycle: cycles with nothing in them are jumped over, and the
\* grid is anchored again where the ticks go on.
CloseCycleJumps ==
  /\ AtTick /\ Due
  /\ log' = IF acc = {} THEN log ELSE Append(log, [at |-> Boundary, of |-> acc])
  /\ acc' = {}
  /\ next' = Now + Cycle
  /\ UNCHANGED <<input, month, remove, raw, synced, pc, file, pos, last, history>>

\* The tick is not before the boundary: the cycle ends first.
CloseCycle ==
  /\ AtTick /\ Due
  /\ log' = IF acc = {} THEN log ELSE Append(log, [at |-> Boundary, of |-> acc])
  /\ acc' = {}
  /\ next' = next + Cycle
  /\ UNCHANGED <<input, month, remove, raw, synced, pc, file, pos, last, history>>

\* Its record cannot be appended. It is not in the accumulator any more, and
\* the file counts as not folded: the job goes on with the next one.
CloseCycleFails ==
  /\ AtTick /\ Due /\ acc # {}
  /\ acc' = {} /\ dropped' = dropped \cup acc
  /\ NextFile
  /\ UNCHANGED <<input, month, remove, disk, pc, clock, first, taken>>

\* The tick is before the boundary, which the first one sets: it is ingested,
\* or rejected as an outlier.
Ingest ==
  /\ AtTick /\ ~Due
  /\ next' = IF next = None THEN Now + Cycle ELSE next
  /\ first' = IF next = None THEN Now ELSE first
  /\ pos' = pos + 1
  /\ \/ /\ acc' = acc \cup {Name(file, pos + 1)}
        /\ taken' = taken \cup {Name(file, pos + 1)}
        /\ last' = Now
     \/ UNCHANGED <<acc, taken, last>>
  /\ UNCHANGED <<input, month, remove, disk, pc, file, dropped>>

-----------------------------------------------------------------------------
(* The files.                                                              *)

\* Mutant of FileFolded: the file is removed before the log is flushed.
FileFoldedUnsynced ==
  /\ Streaming /\ pos = Len(Files[file])
  /\ raw' \in {raw, IF remove THEN raw \ {file} ELSE raw}
  /\ synced' = synced
  /\ NextFile
  /\ UNCHANGED <<input, month, remove, log, pc, acc, clock, history>>

\* The file is through. maybe_delete_folded_tick flushes the log, then removes
\* the file; where one fails it stays.
FileFolded ==
  /\ Streaming /\ pos = Len(Files[file])
  /\ \/ /\ remove
        /\ synced' = Len(log)
        /\ raw' \in {raw, raw \ {file}}
     \/ UNCHANGED <<raw, synced>>
  /\ NextFile
  /\ UNCHANGED <<input, month, remove, log, pc, acc, clock, history>>

\* The log with the record of the cycle that is open.
Ended == IF acc = {} THEN log ELSE Append(log, [at |-> IF next < last THEN last ELSE next, of |-> acc])

\* No file is left: the open cycle ends, and the log is flushed.
Finish ==
  /\ pc = "folding" /\ file > Len(Files)
  /\ log' = Ended
  /\ synced' = Len(Ended)
  /\ acc' = {}
  /\ pc' = "idle"
  /\ UNCHANGED <<input, month, remove, raw, file, pos, clock, history>>

\* The last append or flush fails: the job exits with an error.
FinishFails ==
  /\ pc = "folding" /\ file > Len(Files)
  /\ pc' = "down" /\ acc' = {}
  /\ \E n \in synced..Len(Ended) : log' = SubSeq(Ended, 1, n)
  /\ UNCHANGED <<input, month, remove, raw, synced, file, pos, clock, history>>

\* Killed: what is in the buffer and in the accumulator is gone.
Crash ==
  /\ pc = "folding"
  /\ pc' = "down" /\ acc' = {}
  /\ \E n \in synced..Len(log) : log' = SubSeq(log, 1, n)
  /\ UNCHANGED <<input, month, remove, raw, synced, file, pos, clock, history>>

Fold ==
  \/ Skip \/ CloseCycle \/ CloseCycleFails \/ Ingest
  \/ FileFolded \/ Finish \/ FinishFails

Next == Start \/ Fold \/ Crash

Spec == Init /\ [][Next]_vars

Names == Nat \X Nat \X Nat
Records == [at : Nat, of : SUBSET Names]

TypeOK ==
  /\ input \in Seq(Seq(Seq(Ticks))) /\ month \in 0..Len(input) /\ remove \in BOOLEAN
  /\ raw \subseteq Nat
  /\ log \in Seq(Records) /\ synced \in 0..Len(log)
  /\ pc \in {"idle", "folding", "down"} /\ (pc = "folding" => month > 0)
  /\ file \in Nat \ {0} /\ pos \in Nat
  /\ pc = "folding" =>
       file <= Len(Files) + 1 /\ (file <= Len(Files) => pos <= Len(Files[file]))
  /\ next \in Nat \cup {None} /\ last \in Nat
  /\ acc \subseteq taken /\ taken \subseteq Names /\ dropped \subseteq taken

Recorded(n) == UNION {log[i].of : i \in 1..n}

\* No tick is counted twice, over all the months, whatever fails: every one
\* that was ingested is in one record, or open, or its record could not be
\* appended, or the job is dead.
EachTickOnce ==
  /\ \A i, j \in 1..Len(log) : i # j => log[i].of \cap log[j].of = {}
  /\ acc \cap Recorded(Len(log)) = {} /\ dropped \cap (acc \cup Recorded(Len(log))) = {}
  /\ pc # "down" => taken = Recorded(Len(log)) \cup acc \cup dropped

\* The files and the months follow each other in time.
Ordered ==
  \A m \in 1..Len(input), k \in 1..Len(input) :
    \A f \in 1..Len(input[m]), g \in 1..Len(input[k]) :
      \A i \in 1..Len(input[m][f]), j \in 1..Len(input[k][g]) :
        /\ k < m => input[k][g][j].at < input[m][f][i].at
        /\ k = m /\ (g < f \/ (g = f /\ j <= i)) => input[k][g][j].at <= input[m][f][i].at

\* No record holds a tick that is not before its stamp.
StampedAfter == \A i \in 1..Len(log) : \A n \in log[i].of : TickOf(n).at < log[i].at

\* Where the cycle of a time ends, on the grid of the first tick of the month.
End(t) == first + Cycle * ((t - first) \div Cycle + 1)

\* The definition of the records of a month: one for every cycle with a tick in
\* it, of all its ticks.
Reference(ticks) ==
  {[at |-> e, of |-> {n \in ticks : End(TickOf(n).at) = e}] : e \in {End(TickOf(n).at) : n \in ticks}}

OfMonth(ticks) == {n \in ticks : n[1] = month}
Open == IF acc = {} THEN {} ELSE {[at |-> next, of |-> acc]}

\* On ticks in order the job computes that definition, of the ticks it took: at
\* any moment all of it but the cycle that is open. And over all the months the
\* log is in the order of time.
MatchesReference ==
  pc # "down" /\ Ordered =>
    /\ {r \in Range(log) : OfMonth(r.of) # {}} \cup Open = Reference(OfMonth(taken \ dropped))
    /\ \A i, j \in 1..Len(log) : i < j => log[i].at < log[j].at
    /\ acc # {} => \A i \in 1..Len(log) : log[i].at < next

\* A raw file that is gone is in the log, on disk, but for the cycle it ended in.
RemovedIsSynced ==
  Ordered /\ month > 0 =>
    \A n \in taken :
      n[1] = month /\ n[2] \in (1..Len(Files)) \ raw =>
        \/ n \in Recorded(synced)
        \/ \A u \in Range(Files[n[2]]) : u.sane => u.at - TickOf(n).at < Cycle
=============================================================================
