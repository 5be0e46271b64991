------------------------------ MODULE IdxShards ------------------------------
(***************************************************************************)
(* One ticker's shard directory <indexes>/<id>/ and the two programs that  *)
(* write into it:                                                          *)
(*                                                                         *)
(*   - the live aggregator (external: IdxShardWriter of the SDK), which    *)
(*     appends one record per cycle to the shard of the current UTC day    *)
(*     and keeps its descriptor open;                                      *)
(*   - an offline run, which writes through ShardedWriter                  *)
(*     (src/src/sharding.rs): a buffered log per UTC day, rotated on the   *)
(*     date of each record, the first touch of a closed day unlinking the  *)
(*     shard an earlier run left behind.                                   *)
(*                                                                         *)
(* Both take .writer.lock. A file is an inode: unlinking a directory entry *)
(* leaves an open descriptor writing to a file no reader will ever list.   *)
(* That, a crash at any point, the clock passing midnight under a running  *)
(* job and stragglers that go back to an earlier date are what the model   *)
(* is about. Record contents are abstracted to who wrote them and when.    *)
(***************************************************************************)
EXTENDS Integers, FiniteSets, SequencesExt

CONSTANTS
  Slots,     \* instants of the clock; one live record per slot at most
  Days,      \* UTC dates
  DayOf,     \* [Slots -> Days]: ts_ms_to_utc_date
  Files,     \* inodes
  NoFile,    \* "no directory entry" / "no open descriptor"
  MaxEmit,   \* bound: records one offline run appends
  MaxRuns    \* bound: offline runs

ASSUME SlotsAssumption == Slots \subseteq Int
ASSUME DaysAssumption == Days \subseteq Int
ASSUME DayOfAssumption == DayOf \in [Slots -> Days]
ASSUME MonotoneAssumption == \A t, u \in Slots : t <= u => DayOf[t] <= DayOf[u]
ASSUME NoFileAssumption == NoFile \notin Files
ASSUME BoundsAssumption == MaxEmit \in Nat /\ MaxRuns \in Nat

VARIABLES
  now,      \* the clock
  entry,    \* [Days -> Files \cup {NoFile}]: the directory, <date>.idx
  content,  \* [Files -> Seq(Records)]: the bytes of an inode
  lock,     \* holder of .writer.lock: "none", "live" or "run"
  liveFd,   \* the live writer's open descriptor
  liveDay,  \* and the date it was opened for
  runFd,    \* ShardedWriter.current: descriptor ...
  runDay,   \* ... and date (meaningful while runFd # NoFile)
  runBuf,   \* records in the BufWriter of current
  touched,  \* ShardedWriter.touched
  runs,     \* offline runs started so far (bounded by MaxRuns)
  \* history, read by the properties only
  acked,    \* slots whose live record was appended
  emitted,  \* slots the current run has appended
  own,      \* [Days -> Seq(Records)]: what it appended to each day, in order
  replaced  \* days the current run started over

Records == {"live", "run"} \X Slots

Today == DayOf[now]

NothingYet == [d \in Days |-> <<>>]

liveVars == <<liveFd, liveDay>>
runVars  == <<runs, runFd, runDay, runBuf, touched, emitted, own, replaced>>
vars == <<now, entry, content, lock, liveVars, runVars, acked>>

\* What a reader of <d>.idx sees: list_shards finds the entry, or no shard.
Visible(d) == IF entry[d] = NoFile THEN <<>> ELSE content[entry[d]]

InUse == {entry[d] : d \in Days} \cup {liveFd, runFd}

Init ==
  /\ now \in {t \in Slots : \A u \in Slots : t <= u}
  /\ entry = [d \in Days |-> NoFile]
  /\ content = [f \in Files |-> <<>>]
  /\ lock = "none"
  /\ liveFd = NoFile
  /\ liveDay \in {Today}
  /\ runs = 0
  /\ runFd = NoFile
  /\ runDay \in {Today}
  /\ runBuf = <<>>
  /\ touched = {}
  /\ acked = {}
  /\ emitted = {}
  /\ own = NothingYet
  /\ replaced = {}

Tick ==
  /\ now + 1 \in Slots
  /\ now' = now + 1
  /\ UNCHANGED <<entry, content, lock, liveVars, runVars, acked>>

-----------------------------------------------------------------------------
(* The live aggregator. Its code is not in the repository: this is the     *)
(* behaviour sharding.rs states of it (lock at open, append-only to the    *)
(* current day, descriptor kept open, rotation on the date).               *)

LiveOpen ==
  /\ lock = "none"
  /\ lock' = "live"
  /\ UNCHANGED <<now, entry, content, liveVars, runVars, acked>>

HoldsToday == liveFd # NoFile /\ liveDay = Today

LiveRecord ==
  /\ lock = "live"
  /\ now \notin acked
  /\ acked' = acked \cup {now}
  /\ UNCHANGED <<now, lock, runVars>>

\* The descriptor already open for the current day.
LiveAppendHeld ==
  /\ LiveRecord
  /\ HoldsToday
  /\ content' = [content EXCEPT ![liveFd] = Append(@, <<"live", now>>)]
  /\ UNCHANGED <<entry, liveVars>>

\* Date rotation, or first record since the start: the shard is opened for append ...
LiveAppendReopen ==
  /\ LiveRecord
  /\ ~HoldsToday
  /\ entry[Today] # NoFile
  /\ liveFd' = entry[Today] /\ liveDay' = Today
  /\ content' = [content EXCEPT ![entry[Today]] = Append(@, <<"live", now>>)]
  /\ UNCHANGED entry

\* ... and created if absent.
LiveAppendCreate ==
  /\ LiveRecord
  /\ ~HoldsToday
  /\ entry[Today] = NoFile
  /\ \E f \in Files \ InUse :
       /\ liveFd' = f /\ liveDay' = Today
       /\ entry' = [entry EXCEPT ![Today] = f]
       /\ content' = [content EXCEPT ![f] = <<<<"live", now>>>>]

LiveAppend == LiveAppendHeld \/ LiveAppendReopen \/ LiveAppendCreate

\* Scaled to zero, or killed: the log is unbuffered and the kernel drops the flock.
LiveStop ==
  /\ lock = "live"
  /\ lock' = "none"
  /\ liveFd' = NoFile
  /\ UNCHANGED <<now, entry, content, liveDay, runVars, acked>>

-----------------------------------------------------------------------------
(* The offline run.                                                        *)

\* Mutant of RunNew: the lock is not looked at.
RunNewUnlocked ==
  /\ lock' = "run"
  /\ runs < MaxRuns
  /\ runs' = runs + 1
  /\ runFd' = NoFile /\ runBuf' = <<>>
  /\ touched' = {} /\ replaced' = {} /\ emitted' = {} /\ own' = NothingYet
  /\ UNCHANGED <<now, entry, content, liveVars, runDay, acked>>

\* ShardedWriter::new: fails, and the job with it, when the lock is held.
RunNew ==
  /\ lock = "none"
  /\ lock' = "run"
  /\ runs < MaxRuns
  /\ runs' = runs + 1
  /\ runFd' = NoFile /\ runBuf' = <<>>
  /\ touched' = {} /\ replaced' = {} /\ emitted' = {} /\ own' = NothingYet
  /\ UNCHANGED <<now, entry, content, liveVars, runDay, acked>>

\* The content of every inode once the buffer of the current log is on disk.
Flushed ==
  IF runFd = NoFile THEN content ELSE [content EXCEPT ![runFd] = @ \o runBuf]

MayEmit(t) ==
  /\ lock = "run"
  /\ t <= now
  /\ t \notin emitted
  /\ Cardinality(emitted) < MaxEmit

\* append, fast path: the record belongs to the current log.
RunAppendSame(t) ==
  /\ MayEmit(t)
  /\ runFd # NoFile /\ DayOf[t] = runDay
  /\ runBuf' = Append(runBuf, <<"run", t>>)
  /\ emitted' = emitted \cup {t}
  /\ own' = [own EXCEPT ![DayOf[t]] = Append(@, <<"run", t>>)]
  /\ UNCHANGED <<now, entry, content, lock, liveVars, runs, runFd, runDay, touched, replaced, acked>>

NeedRotate(t) == runFd = NoFile \/ DayOf[t] # runDay

\* Mutants of StartsOver: no check of the date, no memory of the days already opened.
StartsOverAnyDay(d) == d \notin touched
StartsOverAgain(d) == d < Today

\* A closed day this run has not opened before: its old shard is unlinked.
StartsOver(d) == d < Today /\ d \notin touched

\* append, rotation: drop (flush) the current log, unlink the target when it
\* starts over, open it for append, buffer the record.
Rotate(t) ==
  LET d == DayOf[t] IN
  /\ MayEmit(t)
  /\ NeedRotate(t)
  /\ touched' = touched \cup {d}
  /\ replaced' = IF StartsOver(d) THEN replaced \cup {d} ELSE replaced
  /\ runDay' = d
  /\ runBuf' = <<<<"run", t>>>>
  /\ emitted' = emitted \cup {t}
  /\ own' = [own EXCEPT ![d] = Append(@, <<"run", t>>)]
  /\ UNCHANGED <<now, lock, liveVars, runs, acked>>

\* The open finds the day's shard: a day this run has opened before, or the
\* current day, whose shard is never unlinked.
RunRotateOnto(t) ==
  /\ Rotate(t)
  /\ ~StartsOver(DayOf[t])
  /\ entry[DayOf[t]] # NoFile
  /\ runFd' = entry[DayOf[t]]
  /\ content' = Flushed
  /\ UNCHANGED entry

\* The open creates it: there was none, or it has just been unlinked.
RunRotateCreate(t) ==
  /\ Rotate(t)
  /\ StartsOver(DayOf[t]) \/ entry[DayOf[t]] = NoFile
  /\ \E f \in Files \ InUse :
       /\ runFd' = f
       /\ entry' = [entry EXCEPT ![DayOf[t]] = f]
       /\ content' = [Flushed EXCEPT ![f] = <<>>]

RunRotate(t) == RunRotateOnto(t) \/ RunRotateCreate(t)

\* The BufWriter filled up: its bytes reach the file.
RunSpill ==
  /\ lock = "run"
  /\ runBuf # <<>>
  /\ content' = Flushed
  /\ runBuf' = <<>>
  /\ UNCHANGED <<now, entry, lock, liveVars, runs, runFd, runDay, touched, emitted, own, replaced, acked>>

EndRun ==
  /\ lock' = "none"
  /\ runFd' = NoFile /\ runBuf' = <<>>
  /\ touched' = {} /\ replaced' = {} /\ emitted' = {} /\ own' = NothingYet
  /\ UNCHANGED <<now, liveVars, runs, runDay, acked>>

\* close, then the process exits and the lock goes with it.
RunClose ==
  /\ lock = "run"
  /\ content' = Flushed
  /\ EndRun
  /\ UNCHANGED entry

\* Killed between two calls: the buffer is lost, the lock is not.
RunCrash ==
  /\ lock = "run"
  /\ EndRun
  /\ UNCHANGED <<entry, content>>

\* Killed inside a rotation, after the unlink and before the open.
RunCrashRotating(t) ==
  /\ MayEmit(t)
  /\ NeedRotate(t)
  /\ StartsOver(DayOf[t])
  /\ content' = Flushed
  /\ entry' = [entry EXCEPT ![DayOf[t]] = NoFile]
  /\ EndRun

-----------------------------------------------------------------------------

Next ==
  \/ Tick
  \/ LiveOpen \/ LiveAppend \/ LiveStop
  \/ RunNew \/ RunSpill \/ RunClose \/ RunCrash
  \/ \E t \in Slots : RunAppendSame(t) \/ RunRotate(t) \/ RunCrashRotating(t)

Spec == Init /\ [][Next]_vars
-----------------------------------------------------------------------------
(* Properties. *)

TypeOK ==
  /\ now \in Slots
  /\ entry \in [Days -> Files \cup {NoFile}]
  /\ content \in [Files -> Seq(Records)]
  /\ lock \in {"none", "live", "run"}
  /\ liveFd \in Files \cup {NoFile} /\ liveDay \in Days
  /\ runs \in 0..MaxRuns
  /\ runFd \in Files \cup {NoFile} /\ runDay \in Days
  /\ runBuf \in Seq(Records)
  /\ touched \in SUBSET Days
  /\ acked \in SUBSET Slots
  /\ emitted \in SUBSET Slots
  /\ own \in [Days -> Seq(Records)]
  /\ replaced \in SUBSET Days

\* Every record the live aggregator has written for the current UTC day is in
\* the file a reader of that day opens, whatever offline runs started, crashed
\* or were rerun meanwhile (sharding.rs:81-87: the incident was that "every
\* record the live process wrote today is gone at the next list_shards").
LiveTailReachable ==
  \A t \in acked : DayOf[t] = Today => <<"live", t>> \in Range(Visible(Today))

\* An open descriptor is the file its directory entry names: neither writer
\* ever appends to an unlinked inode.
NoOrphanFd ==
  /\ liveFd # NoFile => entry[liveDay] = liveFd
  /\ runFd # NoFile => entry[runDay] = runFd

\* Records the run holds in the buffer of day d.
Pending(d) == IF runFd # NoFile /\ runDay = d THEN runBuf ELSE <<>>

\* A closed day the run has started over holds this run's records in the
\* order it produced them and nothing else: no remains of an earlier,
\* possibly crashed run, and nothing lost when a straggler rotates back to a
\* date the run had already left (the touched set, sharding.rs:71-73).
ReplacedIsOwnOutput ==
  \A d \in replaced : Visible(d) \o Pending(d) = own[d]

\* The inductive invariant behind the two properties above. A directory entry
\* owns its inode; a writer without the lock has nothing open and nothing
\* buffered; only closed, touched days are started over.
FilesNotShared ==
  \A d, e \in Days : entry[d] = entry[e] /\ entry[d] # NoFile => d = e

IdleWriters ==
  /\ lock # "live" => liveFd = NoFile
  /\ lock # "run" => runFd = NoFile /\ replaced = {}
  /\ runFd = NoFile => runBuf = <<>>
  /\ runFd # NoFile => runDay \in touched

OwnTouched ==
  /\ replaced \subseteq touched
  /\ \A d \in replaced : d < Today
  /\ \A d \in Days \ touched : own[d] = <<>>

AckedPast == \A t \in acked : t <= now

IInv ==
  /\ TypeOK
  /\ FilesNotShared
  /\ IdleWriters
  /\ OwnTouched
  /\ AckedPast
  /\ NoOrphanFd
  /\ LiveTailReachable
  /\ ReplacedIsOwnOutput

\* The shard of the current day (and of a later date) is never unlinked or
\* rewritten: what a reader saw of it stays a prefix of what it sees next.
TailAppendOnly ==
  [][\A d \in Days : d >= Today => IsPrefix(Visible(d), Visible(d)')]_vars

\* The directory implements one append-only log per day with a single owner.
Abstract == INSTANCE DayLog WITH
  owner <- lock,
  log <- [d \in Days |-> Visible(d)],
  fresh <- replaced

ImplementsDayLog == Abstract!Spec
=============================================================================
