------------------------------- MODULE HealIdx -------------------------------
(***************************************************************************)
(* heal-idx (src/src/idx_heal.rs): the offline repair of one ticker's      *)
(* shard directory. It lists the shards, rewrites those of closed days     *)
(* into a staging directory, copies the current day's shard next to them,  *)
(* takes the writer lock and swaps the directories with two renames.       *)
(*                                                                         *)
(* The live aggregator (external) runs, stops and restarts all the while,  *)
(* midnight passes, and the job may die between any two steps. The lock    *)
(* file is inside the directory and moves away with it.                    *)
(*                                                                         *)
(* A record is who it belongs to and its timestamp; prices and volumes of  *)
(* a merged bin are abstracted. A shard is the set of its records, a tree  *)
(* a function from the listed days to shards.                              *)
(***************************************************************************)
EXTENDS Integers, FiniteSets

CONSTANTS
  Slots,     \* instants; a live record per slot at most
  Days,      \* UTC dates
  DayOf,     \* [Slots -> Days]: ts_ms_to_utc_date
  Bin,       \* [Slots -> Slots]: bin_start at target_ms
  Start,     \* the slot the model starts at
  Seeds,     \* what the shards of earlier days may hold at the start
  NoDir,     \* "the path does not exist"
  MaxHeals   \* bound: runs of heal-idx

ASSUME SlotsAssumption == Slots \subseteq Int /\ Start \in Slots
ASSUME DayOfAssumption == DayOf \in [Slots -> Days] /\ Days \subseteq Int
ASSUME MonotoneAssumption == \A t, u \in Slots : t <= u => DayOf[t] <= DayOf[u]
\* target_ms divides a day: a bin does not start on the day before.
ASSUME BinAssumption ==
  /\ Bin \in [Slots -> Slots]
  /\ \A t \in Slots : Bin[t] <= t /\ Bin[Bin[t]] = Bin[t] /\ DayOf[Bin[t]] = DayOf[t]

Records == {"own", "foreign"} \X Slots

ASSUME BoundsAssumption == MaxHeals \in Nat

\* What an earlier day's shard holds: records up to now, foreign ones
\* included, and possibly stragglers of a later date than the file's.
ASSUME SeedsAssumption ==
  \A s \in Seeds : s \subseteq {r \in Records : r[2] <= Start}

ASSUME NoDirAssumption ==
  \A D \in SUBSET Days : NoDir \notin [D -> SUBSET Records]

VARIABLES
  now,      \* the clock
  dir,      \* the tree at <indexes>/<id>, or NoDir
  staging,  \* the tree at <id>.heal-staging, or NoDir
  moved,    \* the tree of the last <id>.bak-<time>, or NoDir
  bak,      \* records of all the .bak trees
  lock,     \* holder of the .writer.lock at <indexes>/<id>
  live,     \* the live writer: "off", or where its descriptor is: "dir", "bak"
  phase,    \* heal_ticker_shards: its position
  today,    \* heal: today_utc()
  listed,   \* heal: days of list_shards
  todo,     \* heal: closed days not yet rewritten
  heals,    \* runs started (bounded by MaxHeals)
  acked     \* history: records ever stored

healVars == <<phase, today, listed, todo, heals>>
treeVars == <<dir, staging, moved, bak>>
vars == <<now, treeVars, lock, live, healVars, acked>>

Today == DayOf[now]

Shard(tree, d) == IF d \in DOMAIN tree THEN tree[d] ELSE {}

InTree(tree) == IF tree = NoDir THEN {} ELSE UNION {tree[d] : d \in DOMAIN tree}

Put(tree, d, recs) ==
  [e \in DOMAIN tree \cup {d} |-> IF e = d THEN recs ELSE tree[e]]

\* A directory without a shard.
Empty == [d \in {} |-> {}]

Own(recs) == {r \in recs : r[1] = "own"}

Init ==
  /\ now = Start
  /\ dir \in {[d \in {e \in Days : e < DayOf[Start]} |-> s] : s \in Seeds}
  /\ acked = InTree(dir)
  /\ staging = NoDir /\ moved = NoDir /\ bak = {}
  /\ lock = "none" /\ live = "off"
  /\ phase = "idle" /\ today = DayOf[Start] /\ listed = {} /\ todo = {} /\ heals = 0

Tick ==
  /\ now + 1 \in Slots
  /\ now' = now + 1
  /\ UNCHANGED <<treeVars, lock, live, healVars, acked>>

-----------------------------------------------------------------------------
(* The live aggregator (external): what idx_heal.rs:65-78 says of it.      *)

\* It creates the directory if there is none, and takes the lock in it.
LiveOpen ==
  /\ live = "off" /\ lock = "none"
  /\ live' = "dir" /\ lock' = "live"
  /\ dir' = IF dir = NoDir THEN Empty ELSE dir
  /\ UNCHANGED <<now, staging, moved, bak, healVars, acked>>

LiveAppend ==
  LET r == <<"own", now>> IN
  /\ live # "off"
  /\ r \notin acked
  /\ acked' = acked \cup {r}
  /\ IF live = "dir"
     THEN dir' = Put(dir, Today, Shard(dir, Today) \cup {r}) /\ UNCHANGED bak
     ELSE bak' = bak \cup {r} /\ UNCHANGED dir
  /\ UNCHANGED <<now, staging, moved, lock, live, healVars>>

LiveStop ==
  /\ live # "off"
  /\ live' = "off"
  /\ lock' = IF lock = "live" THEN "none" ELSE lock
  /\ UNCHANGED <<now, treeVars, healVars, acked>>

-----------------------------------------------------------------------------
(* heal_ticker_shards.                                                     *)

\* list_shards: fails when there is no directory or no shard.
HealList ==
  /\ phase = "idle" /\ heals < MaxHeals
  /\ dir # NoDir /\ DOMAIN dir # {}
  /\ heals' = heals + 1
  /\ listed' = DOMAIN dir
  /\ phase' = "listed"
  /\ UNCHANGED <<now, treeVars, lock, live, today, todo, acked>>

\* today_utc, after the listing: the shards of earlier days are the ones to
\* heal, and there must be one. A stale staging directory is removed.
HealDate ==
  /\ phase = "listed"
  /\ today' = Today
  /\ todo' = {d \in listed : d < Today}
  /\ IF todo' = {}
     THEN phase' = "idle" /\ UNCHANGED staging
     ELSE phase' = "rewriting" /\ staging' = Empty
  /\ UNCHANGED <<now, dir, moved, bak, lock, live, listed, heals, acked>>

\* --dry-run removes the stale staging directory and writes nothing.
HealDryRun ==
  /\ phase = "listed"
  /\ today' = Today
  /\ \E d \in listed : d < Today
  /\ staging' = NoDir
  /\ phase' = "idle"
  /\ UNCHANGED <<now, dir, moved, bak, lock, live, listed, todo, heals, acked>>

\* resample_bins moves every record to the start of its bin; dedupe_bins only
\* those that share one. Records of other tickers are dropped.
Healed(recs, resampled) ==
  LET own == Own(recs)
      Alone(r) == \A q \in own : Bin[q[2]] = Bin[r[2]] => q = r
  IN {IF ~resampled /\ Alone(r) THEN r ELSE <<"own", Bin[r[2]]>> : r \in own}

OfDay(recs, d) == {r \in recs : DayOf[r[2]] = d}

\* Mutant of Routed: a date's records replace what earlier files left there.
RoutedOver(tree, recs) ==
  [d \in DOMAIN tree \cup {DayOf[r[2]] : r \in recs} |->
     IF OfDay(recs, d) = {} THEN tree[d] ELSE OfDay(recs, d)]

\* merge_into_staging_shard: into what is already there, one shard per date
\* of the records.
Routed(tree, recs) ==
  [d \in DOMAIN tree \cup {DayOf[r[2]] : r \in recs} |->
     Shard(tree, d) \cup OfDay(recs, d)]

\* One source shard, in date order.
HealRewrite ==
  /\ phase = "rewriting"
  /\ todo # {}
  /\ LET d == CHOOSE e \in todo : \A f \in todo : e <= f IN
       /\ todo' = todo \ {d}
       /\ \E resampled \in BOOLEAN :
            staging' = Routed(staging, Healed(Shard(dir, d), resampled))
  /\ UNCHANGED <<now, dir, moved, bak, lock, live, phase, today, listed, heals, acked>>

\* The first listed shard that is not closed is copied over the staging shard
\* of the current day.
HealPassthrough ==
  /\ phase = "rewriting"
  /\ todo = {}
  /\ LET open == {d \in listed : d >= today} IN
       staging' = IF open = {} THEN staging
                  ELSE Put(staging, today, Shard(dir, CHOOSE d \in open : \A e \in open : d <= e))
  /\ phase' = "staged"
  /\ UNCHANGED <<now, dir, moved, bak, lock, live, today, listed, todo, heals, acked>>

\* Without --commit the staging directory is the result. With it, the lock is
\* taken or the job fails.
HealStop ==
  /\ phase = "staged"
  /\ phase' = "idle"
  /\ UNCHANGED <<now, treeVars, lock, live, today, listed, todo, heals, acked>>

\* Mutant of HealLock: the commit does not look at the lock.
HealLockForced ==
  /\ phase = "staged"
  /\ lock' = "heal"
  /\ phase' = "locked"
  /\ UNCHANGED <<now, treeVars, live, today, listed, todo, heals, acked>>

HealLock ==
  /\ phase = "staged"
  /\ lock = "none"
  /\ lock' = "heal"
  /\ phase' = "locked"
  /\ UNCHANGED <<now, treeVars, live, today, listed, todo, heals, acked>>

\* Mutant of HealMoveAway: the old directory is deleted, not kept.
HealDelete ==
  /\ phase = "locked"
  /\ dir' = NoDir /\ moved' = dir
  /\ lock' = "none"
  /\ phase' = "moved"
  /\ UNCHANGED <<now, staging, bak, live, today, listed, todo, heals, acked>>

\* rename <id> to <id>.bak-<time>: the lock file and open descriptors go along.
HealMoveAway ==
  /\ phase = "locked"
  /\ dir' = NoDir /\ moved' = dir /\ bak' = bak \cup InTree(dir)
  /\ lock' = "none"
  /\ live' = IF live = "dir" THEN "bak" ELSE live
  /\ phase' = "moved"
  /\ UNCHANGED <<now, staging, today, listed, todo, heals, acked>>

\* rename staging to <id>: fails when somebody has created <id> meanwhile (it
\* holds their lock file).
HealPromote ==
  /\ phase = "moved"
  /\ phase' = "idle"
  /\ IF dir = NoDir THEN dir' = staging /\ staging' = NoDir
                    ELSE UNCHANGED <<dir, staging>>
  /\ UNCHANGED <<now, moved, bak, lock, live, today, listed, todo, heals, acked>>

\* Killed: the kernel drops the lock, the directories stay as they are.
HealCrash ==
  /\ phase # "idle"
  /\ phase' = "idle"
  /\ lock' = IF lock = "heal" THEN "none" ELSE lock
  /\ UNCHANGED <<now, treeVars, live, today, listed, todo, heals, acked>>

Heal ==
  \/ HealList \/ HealDate \/ HealDryRun \/ HealRewrite \/ HealPassthrough
  \/ HealStop \/ HealLock \/ HealMoveAway \/ HealPromote \/ HealCrash

Next == Tick \/ LiveOpen \/ LiveAppend \/ LiveStop \/ Heal

Spec == Init /\ [][Next]_vars
-----------------------------------------------------------------------------
(* Properties. *)

IsTree(tree) ==
  \/ tree = NoDir
  \/ DOMAIN tree \subseteq Days /\ tree \in [DOMAIN tree -> SUBSET Records]

TypeOK ==
  /\ now \in Slots
  /\ IsTree(dir) /\ IsTree(staging) /\ IsTree(moved)
  /\ bak \subseteq Records /\ acked \subseteq Records
  /\ lock \in {"none", "live", "heal"} /\ live \in {"off", "dir", "bak"}
  /\ phase \in {"idle", "listed", "rewriting", "staged", "locked", "moved"}
  /\ today \in Days /\ listed \subseteq Days /\ todo \subseteq Days
  /\ heals \in 0..MaxHeals

Represented(r, tree) ==
  \/ r \in Shard(tree, DayOf[r[2]])
  \/ <<"own", Bin[r[2]]>> \in Shard(tree, DayOf[r[2]])

\* Who writes where. The live writer has a descriptor exactly while it holds
\* the lock of the directory in place, which is not moved before heal has it.
LockHolders ==
  /\ live = "off" <=> lock # "live"
  /\ phase = "locked" <=> lock = "heal"
  /\ lock # "none" => dir # NoDir

\* The live writer never appends to a directory that has been moved away (the
\* incident of idx_heal.rs:68-78: ticks landing "in the dead backup").
NoDeadBackupWrites == live # "bak"

\* Whatever interleaves, crashes or fails, no stored record is destroyed: it
\* is in the directory or in one of the backups.
NothingDestroyed == acked \subseteq InTree(dir) \cup bak

\* When the healed tree is put in place, every record of the ticker that a
\* listed closed shard held is in it, itself or as the bin it was merged
\* into, under the date of its timestamp; the records whose date is the
\* current one or later are the subject of StragglersKept.
ClosedDaysKept ==
  [][phase = "moved" /\ dir' = staging =>
       \A d \in listed : d < today =>
         \A r \in Own(Shard(moved, d)) :
           DayOf[r[2]] < today => Represented(r, dir')]_vars
=============================================================================
