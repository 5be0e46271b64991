------------------------------ MODULE MergeIdx ------------------------------
(***************************************************************************)
(* merge-idx (src/src/bin/merge_idx.rs): the k-way merge of the logs of    *)
(* the providers of one ticker into composite records, one per cycle in    *)
(* which something was delivered, routed to daily shards.                  *)
(*                                                                         *)
(* A log is the sequence of the times of its records, a record is named by *)
(* its source and its position. A composite is its boundary and the        *)
(* records it blends; prices, weights and flags are abstracted. A torn     *)
(* record at the end of a log is cut off on load: the log is what is left. *)
(* Locks and the live aggregator are the business of IdxShards: here the   *)
(* job has the directory to itself, may be killed anywhere, and is run     *)
(* again on the same logs.                                                 *)
(***************************************************************************)
EXTENDS Integers, SequencesExt

CONSTANTS
  Sources,   \* indexes of the sources, in the order of the providers
  Times,     \* milliseconds at which records may be stamped
  Logs,      \* SUBSET [Sources -> Seq(Times)]
  Cycle,     \* --cycle-ms
  Stale,     \* --stale-secs, in milliseconds
  Window,    \* WINDOW: records read at once
  DayMs,     \* milliseconds of a day
  Today,     \* current UTC date
  Seeds,     \* what the shards may be at the start
  None,      \* no boundary yet
  MaxRuns    \* bound: starts of the job

ASSUME SourcesAssumption == Sources \subseteq Nat /\ Times \subseteq Nat
ASSUME LogsAssumption == Logs \subseteq [Sources -> Seq(Times)]
ASSUME CycleAssumption == Cycle \in Nat \ {0} /\ DayMs \in Nat \ {0} /\ Window \in Nat \ {0}
\* 200 ms and 30 s by default.
ASSUME StaleAssumption == Stale \in Nat /\ Cycle <= Stale

Composites == [at : Nat, of : SUBSET (Sources \X Nat)]

ASSUME SeedsAssumption ==
  \A t \in Seeds : DOMAIN t \subseteq Nat /\ t \in [DOMAIN t -> Seq(Composites)]
ASSUME NoneAssumption == None \notin Int
ASSUME BoundsAssumption == MaxRuns \in Nat /\ Today \in Nat

VARIABLES
  log,       \* the logs, which the job only reads
  shards,    \* [Nat -> Seq(Composite)] for the days that have one
  manifest,  \* number of records per day, as recorded
  runs,      \* starts so far (bounded by MaxRuns)
  pc,        \* "idle", "merging", "closing", "closed"
  open,      \* sources that could be loaded
  lost,      \* sources whose next window could not be read
  pos,       \* [Sources -> Nat]: records popped; the last one is in the slot
  next,      \* next_cycle_ms
  dirty,     \* a record was popped since the last composite
  touched,   \* ShardedWriter.touched
  emitted    \* history: the composites of this run

disk == <<shards, manifest>>
vars == <<log, disk, runs, pc, open, lost, pos, next, dirty, touched, emitted>>

NoneRead == [s \in Sources |-> 0]
Counted == [d \in DOMAIN shards |-> Len(shards[d])]

Init ==
  /\ log \in Logs
  /\ shards \in Seeds
  /\ manifest = Counted
  /\ runs = 0 /\ pc = "idle"
  /\ open = {} /\ lost = {} /\ pos = NoneRead /\ next = None /\ dirty = FALSE
  /\ touched = {} /\ emitted = <<>>

\* The logs that can be opened, one at least. The rest is skipped.
Start ==
  /\ pc = "idle" /\ runs < MaxRuns
  /\ runs' = runs + 1
  /\ open' \in SUBSET Sources \ {{}}
  /\ pc' = "merging"
  /\ lost' = {} /\ pos' = NoneRead /\ next' = None /\ dirty' = FALSE
  /\ touched' = {} /\ emitted' = <<>>
  /\ UNCHANGED <<log, disk>>

-----------------------------------------------------------------------------
(* The heap and the slots.                                                 *)

TimeOf(r) == log[r[1]][r[2]]

Pending(s) == s \in open \ lost /\ pos[s] < Len(log[s])

HeadTime(s) == log[s][pos[s] + 1]

\* The entry on top: the earliest record, of the first source among equals.
IsTop(s) ==
  /\ Pending(s)
  /\ \A t \in Sources : Pending(t) =>
       \/ HeadTime(s) < HeadTime(t)
       \/ HeadTime(s) = HeadTime(t) /\ s <= t

\* sim_now: the clock of the slots starts at the earliest of the first records,
\* and a record stamped before that counts as stamped then.
Anchor == Min({log[s][1] : s \in {t \in open : log[t] # <<>>}})
SeenAt(s) == Max({Anchor, log[s][pos[s]]})

\* compute_vwap_at: the last record of every source, unless it is stale.
Slots(at) ==
  {<<s, pos[s]>> : s \in {t \in Sources : pos[t] > 0 /\ at - SeenAt(t) <= Stale}}

Composite(at) == [at |-> at, of |-> Slots(at)]

DayOf(t) == t \div DayMs

-----------------------------------------------------------------------------
(* ShardedWriter::append.                                                  *)

\* Mutant of Routed: the shard is appended to, whoever wrote it.
RoutedAfter(c) ==
  LET d == DayOf(c.at)
      old == IF d \in DOMAIN shards THEN shards[d] ELSE <<>>
  IN [e \in DOMAIN shards \cup {d} |-> IF e = d THEN Append(old, c) ELSE shards[e]]

\* A closed day starts over at the first record of the run.
Routed(c) ==
  LET d == DayOf(c.at)
      old == IF d \in DOMAIN shards /\ (d \in touched \/ d >= Today)
             THEN shards[d] ELSE <<>>
  IN [e \in DOMAIN shards \cup {d} |-> IF e = d THEN Append(old, c) ELSE shards[e]]

\* Emits a composite at a boundary, if there is anything to blend.
Emit(at) ==
  IF dirty /\ Slots(at) # {}
  THEN /\ shards' = Routed(Composite(at))
       /\ touched' = touched \cup {DayOf(at)}
       /\ emitted' = Append(emitted, Composite(at))
  ELSE UNCHANGED <<shards, touched, emitted>>

-----------------------------------------------------------------------------
(* The loop.                                                               *)

\* The record on top is not before the boundary.
Due(s) == IF next = None THEN FALSE ELSE HeadTime(s) >= next

\* It is not: the cycle ends first.
CloseCycle ==
  /\ pc = "merging"
  /\ \E s \in Sources : IsTop(s) /\ Due(s)
  /\ Emit(next)
  /\ dirty' = FALSE
  /\ next' = next + Cycle
  /\ UNCHANGED <<log, manifest, runs, pc, open, lost, pos>>

\* The first record anchors the grid.
Boundary(s) == IF next = None THEN HeadTime(s) + Cycle ELSE next

\* It is before: it goes into its slot. A window that cannot be read ends its
\* source.
Take(s) ==
  /\ pc = "merging"
  /\ IsTop(s) /\ ~Due(s)
  /\ next' = Boundary(s)
  /\ pos' = [pos EXCEPT ![s] = @ + 1]
  /\ dirty' = TRUE
  /\ lost' \in {lost, lost \cup IF (pos[s] + 1) % Window = 0 THEN {s} ELSE {}}
  /\ UNCHANGED <<log, disk, runs, pc, open, touched, emitted>>

\* Mutant of Flush: the last cycle is left.
FlushNot ==
  /\ pc = "merging"
  /\ \A s \in Sources : ~Pending(s)
  /\ pc' = "closing"
  /\ UNCHANGED <<log, disk, runs, open, lost, pos, next, dirty, touched, emitted>>

\* The heap is empty: the last cycle ends at its boundary.
Flush ==
  /\ pc = "merging"
  /\ \A s \in Sources : ~Pending(s)
  /\ Emit(next)
  /\ pc' = "closing"
  /\ UNCHANGED <<log, manifest, runs, open, lost, pos, next, dirty>>

\* ShardedWriter::close flushes the shard of the last day.
Close ==
  /\ pc = "closing"
  /\ pc' = "closed"
  /\ UNCHANGED <<log, disk, runs, open, lost, pos, next, dirty, touched, emitted>>

\* The manifest is rebuilt from the shards of the directory.
WriteManifest ==
  /\ pc = "closed"
  /\ manifest' = Counted
  /\ pc' = "idle"
  /\ UNCHANGED <<log, shards, runs, open, lost, pos, next, dirty, touched, emitted>>

\* Killed: what the buffered log of the day has not written is gone.
Crash ==
  /\ pc # "idle"
  /\ pc' = "idle"
  /\ IF emitted = <<>> \/ pc = "closed"
     THEN UNCHANGED shards
     ELSE LET d == DayOf(Last(emitted).at)
              own == Cardinality({k \in DOMAIN emitted : DayOf(emitted[k].at) = d})
          IN \E n \in 0..Len(shards[d]) :
               n <= own /\ shards' = [shards EXCEPT ![d] = SubSeq(@, 1, Len(@) - n)]
  /\ open' = {} /\ lost' = {} /\ pos' = NoneRead /\ next' = None /\ dirty' = FALSE
  /\ touched' = {} /\ emitted' = <<>>
  /\ UNCHANGED <<log, manifest, runs>>

Merge == CloseCycle \/ (\E s \in Sources : Take(s)) \/ Flush \/ Close \/ WriteManifest

Next == Start \/ Merge \/ Crash

Spec == Init /\ [][Next]_vars

TypeOK ==
  /\ log \in [Sources -> Seq(Times)]
  /\ shards \in [DOMAIN shards -> Seq(Composites)] /\ DOMAIN shards \subseteq Nat
  /\ manifest \in [DOMAIN manifest -> Nat]
  /\ runs \in 0..MaxRuns /\ pc \in {"idle", "merging", "closing", "closed"}
  /\ open \subseteq Sources /\ lost \subseteq open
  /\ pos \in [Sources -> Nat] /\ \A s \in Sources : pos[s] <= Len(log[s])
  /\ next \in Nat \cup {None} /\ dirty \in BOOLEAN
  /\ touched \subseteq DOMAIN shards
  /\ emitted \in Seq(Composites)

\* A composite blends nothing stamped on its boundary or later, however the
\* records of the logs interleave, tie, or fall behind within a log.
NoLookAhead ==
  \A k \in DOMAIN emitted : \A r \in emitted[k].of : TimeOf(r) < emitted[k].at

\* The boundaries of a run strictly increase, whatever order the logs are in
\* (the series readers and integrity-check require it).
StrictlyIncreasing ==
  \A j, k \in DOMAIN emitted : j < k => emitted[j].at < emitted[k].at

Popped == UNION {{s} \X (1..pos[s]) : s \in Sources}

\* Where the cycle of a time ends, on the grid of the first record.
First == Min({TimeOf(r) : r \in Popped})
End(t) == First + Cycle * ((t - First) \div Cycle + 1)

\* The records of a source before a boundary, and the last one of every source,
\* unless stale.
Before(s, at) == {i \in 1..pos[s] : log[s][i] < at}
Blend(at) ==
  {r \in {<<s, Max(Before(s, at))>> : s \in {t \in Sources : Before(t, at) # {}}} :
     at - TimeOf(r) <= Stale}

\* The definition of the merge that does not merge: one composite for every
\* cycle in which a record is stamped.
Reference == {[at |-> at, of |-> Blend(at)] : at \in {End(TimeOf(r)) : r \in Popped}}

Sorted == \A s \in Sources : \A i, j \in 1..Len(log[s]) : i <= j => log[s][i] <= log[s][j]

\* On logs that are in order the loop computes the reference definition, in the
\* order of time: at any moment all of it but the cycle that is still open, and
\* at the end all of it, with every record of every source that could be read.
MatchesReference ==
  /\ Sorted =>
       /\ StrictlyIncreasing
       /\ Range(emitted) = {c \in Reference : ~(pc = "merging" /\ dirty /\ c.at = next)}
  /\ pc \in {"closing", "closed"} => \A s \in open \ lost : pos[s] = Len(log[s])

\* The stretch of the output that falls on a day: the boundaries increase.
OfDay(d) ==
  LET on == {k \in DOMAIN emitted : DayOf(emitted[k].at) = d}
  IN SubSeq(emitted, Min(on), Max(on))

\* Whatever an earlier or a killed run left, the shard of a closed day this run
\* has touched is this run's output for the day, and that of the current day
\* ends with it (sharding.rs:66-73).
ShardsAreOutput ==
  \A d \in touched :
    \E n \in 0..Len(shards[d]) :
      /\ OfDay(d) = SubSeq(shards[d], n + 1, Len(shards[d]))
      /\ d < Today => n = 0
=============================================================================
