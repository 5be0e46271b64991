---------------------------- MODULE QualityProofs ----------------------------
(***************************************************************************)
(* heal-idx, and the jobs and checkers that run over a ticker's            *)
(* directories, for any clock, dates, bins, shards and rows.               *)
(*                                                                         *)
(* heal-idx destroys no record, the live writer never appends to a backup, *)
(* and every closed day is kept under its date.  The second rests on who   *)
(* may hold the lock in which phase, the first on the promotion never      *)
(* replacing a directory that exists, the third on where each record is    *)
(* while shards are staged.                                                *)
(*                                                                         *)
(* The bars of s10-from-idx are the gapless grid of the rows it read.  The *)
(* fold is followed row by row: what is flushed is the grid of the buckets *)
(* before the open one, what is kept are the prices of that one.  Bars of  *)
(* such a grid, whichever builds they come from, follow each other as the  *)
(* checkers want them.                                                     *)
(***************************************************************************)
EXTENDS HealIdx, Quality, FiniteSetTheorems, SequenceTheorems, WellFoundedInduction, TLAPS

\* What each position of the job has in its hands.
Phases ==
  /\ phase \in {"listed", "rewriting", "staged", "locked"} => dir # NoDir
  /\ phase \in {"rewriting", "staged", "locked", "moved"} => staging # NoDir

IInv == TypeOK /\ Phases /\ LockHolders /\ NoDeadBackupWrites /\ NothingDestroyed

LEMMA RecordSlot == \A r \in Records : r[2] \in Slots
  BY DEF Records

LEMMA FunctionIsTree ==
  ASSUME NEW D \in SUBSET Days, NEW f \in [D -> SUBSET Records]
  PROVE  IsTree(f) /\ f # NoDir /\ DOMAIN f = D
  BY NoDirAssumption DEF IsTree

LEMMA EmptyTree == IsTree(Empty) /\ Empty # NoDir /\ InTree(Empty) = {}
<1>1. Empty \in [{} -> SUBSET Records] /\ {} \in SUBSET Days  BY DEF Empty
<1>2. IsTree(Empty) /\ Empty # NoDir /\ DOMAIN Empty = {}  BY <1>1, FunctionIsTree
<1>3. QED  BY <1>2 DEF InTree

LEMMA ShardType ==
  ASSUME NEW tree, IsTree(tree), tree # NoDir, NEW d
  PROVE  Shard(tree, d) \in SUBSET Records /\ Shard(tree, d) \subseteq InTree(tree)
  BY DEF IsTree, Shard, InTree

LEMMA InTreeType ==
  ASSUME NEW tree, IsTree(tree)
  PROVE  InTree(tree) \subseteq Records
  BY DEF IsTree, InTree

\* Put changes one shard of a tree.
LEMMA PutTree ==
  ASSUME NEW tree, IsTree(tree), tree # NoDir, NEW d \in Days, NEW recs \in SUBSET Records
  PROVE  /\ IsTree(Put(tree, d, recs)) /\ Put(tree, d, recs) # NoDir
         /\ Shard(tree, d) \subseteq recs => InTree(tree) \cup recs \subseteq InTree(Put(tree, d, recs))
<1> DEFINE D == DOMAIN tree \cup {d}
           f == Put(tree, d, recs)
<1>1. D \in SUBSET Days  BY DEF IsTree
<1>2. f \in [D -> SUBSET Records]  BY DEF Put, IsTree
<1>3. IsTree(f) /\ f # NoDir /\ DOMAIN f = D
  <2> HIDE DEF f, D
  <2>1. QED  BY <1>1, <1>2, FunctionIsTree
<1>4. InTree(f) = UNION {f[e] : e \in D}  BY <1>3 DEF InTree
<1>5. ASSUME Shard(tree, d) \subseteq recs  PROVE InTree(tree) \cup recs \subseteq InTree(f)
  <2>1. f[d] = recs /\ \A e \in DOMAIN tree : e # d => f[e] = tree[e]  BY DEF Put
  <2>2. \A e \in DOMAIN tree : tree[e] \subseteq f[e]  BY <1>5, <2>1 DEF Shard
  <2>3. InTree(tree) = UNION {tree[e] : e \in DOMAIN tree}  BY DEF InTree
  <2> HIDE DEF f
  <2>4. QED  BY <1>4, <2>1, <2>2, <2>3
<1>6. QED  BY <1>3, <1>5

LEMMA HealedType ==
  ASSUME NEW recs \in SUBSET Records, NEW resampled
  PROVE  Healed(recs, resampled) \in SUBSET Records
<1>1. \A r \in Own(recs) : r \in Records /\ <<"own", Bin[r[2]]>> \in Records
  BY BinAssumption, RecordSlot DEF Own, Records
<1>2. QED  BY <1>1 DEF Healed

LEMMA RoutedTree ==
  ASSUME NEW tree, IsTree(tree), tree # NoDir, NEW recs \in SUBSET Records
  PROVE  IsTree(Routed(tree, recs)) /\ Routed(tree, recs) # NoDir
<1> DEFINE D == DOMAIN tree \cup {DayOf[r[2]] : r \in recs}
<1>1. D \in SUBSET Days  BY DayOfAssumption, RecordSlot DEF IsTree
<1>2. \A d \in D : Shard(tree, d) \cup OfDay(recs, d) \in SUBSET Records
  BY ShardType DEF OfDay
<1>3. Routed(tree, recs) \in [D -> SUBSET Records]
  BY <1>2 DEF Routed
<1> HIDE DEF D
<1>4. QED  BY <1>1, <1>3, FunctionIsTree

LEMMA InitInv == Init => IInv
<1> SUFFICES ASSUME Init  PROVE IInv
  OBVIOUS
<1>1. PICK s \in Seeds : dir = [d \in {e \in Days : e < DayOf[Start]} |-> s]
  BY DEF Init
<1>2. s \in SUBSET Records  BY SeedsAssumption
<1>3. dir \in [{e \in Days : e < DayOf[Start]} -> SUBSET Records]
  BY <1>1, <1>2
<1>4. IsTree(dir) /\ dir # NoDir  BY <1>3, FunctionIsTree
<1>5. InTree(dir) \subseteq Records  BY <1>4, InTreeType
<1>6. IsTree(NoDir)  BY DEF IsTree
<1>7. TypeOK
  BY <1>4, <1>5, <1>6, SlotsAssumption, DayOfAssumption, BoundsAssumption DEF Init, TypeOK
<1>8. QED
  BY <1>4, <1>7 DEF Init, IInv, Phases, LockHolders, NoDeadBackupWrites, NothingDestroyed

LEMMA LiveStep == IInv /\ (Tick \/ LiveOpen \/ LiveAppend \/ LiveStop) => IInv'
<1> SUFFICES ASSUME IInv, Tick \/ LiveOpen \/ LiveAppend \/ LiveStop  PROVE IInv'
  OBVIOUS
<1> USE DEF IInv
<1>1. Today \in Days  BY DayOfAssumption DEF TypeOK, Today
<1>2. CASE Tick
  BY <1>2 DEF Tick, treeVars, healVars, TypeOK, Phases, LockHolders, NoDeadBackupWrites, NothingDestroyed
<1>3. CASE LiveOpen
  <2>1. IsTree(dir') /\ dir' # NoDir /\ InTree(dir') = InTree(dir)
    <3>1. CASE dir = NoDir
      BY <1>3, <3>1, EmptyTree DEF LiveOpen, InTree
    <3>2. CASE dir # NoDir
      BY <1>3, <3>2 DEF LiveOpen, TypeOK
    <3>3. QED  BY <3>1, <3>2
  <2>2. TypeOK'  BY <1>3, <2>1 DEF LiveOpen, healVars, TypeOK
  <2>3. QED
    BY <1>3, <2>1, <2>2
    DEF LiveOpen, healVars, Phases, LockHolders, NoDeadBackupWrites, NothingDestroyed
<1>4. CASE LiveAppend
  <2> DEFINE r == <<"own", now>>
             recs == Shard(dir, Today) \cup {r}
  <2>1. /\ live = "dir" /\ lock = "live" /\ dir # NoDir /\ IsTree(dir)
        /\ r \in Records
    BY <1>4 DEF LiveAppend, LockHolders, NoDeadBackupWrites, TypeOK, Records
  <2>2. /\ dir' = Put(dir, Today, recs) /\ acked' = acked \cup {r}
        /\ UNCHANGED <<now, staging, moved, bak, lock, live, healVars>>
    BY <1>4, <2>1 DEF LiveAppend
  <2>3. recs \in SUBSET Records /\ Shard(dir, Today) \subseteq recs /\ r \in recs
    BY <2>1, ShardType
  <2>4. IsTree(dir') /\ dir' # NoDir /\ InTree(dir) \cup recs \subseteq InTree(dir')
    <3> HIDE DEF recs
    <3>1. QED  BY <1>1, <2>1, <2>2, <2>3, PutTree
  <2> HIDE DEF r, recs
  <2>5. TypeOK'  BY <2>1, <2>2, <2>4 DEF healVars, TypeOK
  <2>6. NothingDestroyed'  BY <2>2, <2>3, <2>4 DEF NothingDestroyed
  <2>7. QED
    BY <2>2, <2>4, <2>5, <2>6 DEF healVars, Phases, LockHolders, NoDeadBackupWrites
<1>5. CASE LiveStop
  BY <1>5 DEF LiveStop, treeVars, healVars, TypeOK, Phases, LockHolders, NoDeadBackupWrites, NothingDestroyed
<1>6. QED  BY <1>2, <1>3, <1>4, <1>5

\* Up to the commit, heal changes nothing but its staging directory.
LEMMA StagingStep ==
  ASSUME IInv, HealList \/ HealDate \/ HealDryRun \/ HealRewrite \/ HealPassthrough \/ HealStop
  PROVE  /\ UNCHANGED <<now, dir, moved, bak, lock, live, acked>>
         /\ TypeOK' /\ Phases'
         /\ phase # "locked" /\ phase' # "locked"
<1> USE DEF IInv
<1>1. Today \in Days /\ IsTree(NoDir)  BY DayOfAssumption DEF TypeOK, Today, IsTree
<1>2. CASE HealList
  BY <1>2, BoundsAssumption DEF HealList, treeVars, TypeOK, IsTree, Phases
<1>3. CASE HealDate
  BY <1>1, <1>3, EmptyTree DEF HealDate, TypeOK, Phases
<1>4. CASE HealDryRun
  BY <1>1, <1>4 DEF HealDryRun, TypeOK, Phases
<1>5. CASE HealRewrite
  <2>1. dir # NoDir /\ staging # NoDir /\ IsTree(dir) /\ IsTree(staging)
    BY <1>5 DEF HealRewrite, Phases, TypeOK
  <2>2. PICK d, resampled :
          todo' = todo \ {d} /\ staging' = Routed(staging, Healed(Shard(dir, d), resampled))
    BY <1>5 DEF HealRewrite
  <2>3. Healed(Shard(dir, d), resampled) \in SUBSET Records
    BY <2>1, ShardType, HealedType
  <2>4. IsTree(staging') /\ staging' # NoDir  BY <2>1, <2>2, <2>3, RoutedTree
  <2>5. QED  BY <1>5, <2>2, <2>4 DEF HealRewrite, TypeOK, Phases
<1>6. CASE HealPassthrough
  <2>1. dir # NoDir /\ staging # NoDir /\ IsTree(dir) /\ IsTree(staging) /\ today \in Days
    BY <1>6 DEF HealPassthrough, Phases, TypeOK
  <2>2. PICK d : staging' = staging \/ staging' = Put(staging, today, Shard(dir, d))
    BY <1>6 DEF HealPassthrough
  <2>3. Shard(dir, d) \in SUBSET Records  BY <2>1, ShardType
  <2>4. IsTree(staging') /\ staging' # NoDir  BY <2>1, <2>2, <2>3, PutTree
  <2>5. QED  BY <1>6, <2>4 DEF HealPassthrough, TypeOK, Phases
<1>7. CASE HealStop
  BY <1>7 DEF HealStop, treeVars, TypeOK, Phases
<1>8. QED  BY <1>2, <1>3, <1>4, <1>5, <1>6, <1>7

LEMMA CommitStep ==
  ASSUME IInv, HealLock \/ HealMoveAway \/ HealPromote \/ HealCrash
  PROVE  IInv'
<1> USE DEF IInv
<1>1. IsTree(NoDir)  BY DEF IsTree
<1>2. CASE HealLock
  BY <1>2 DEF HealLock, treeVars, TypeOK, Phases, LockHolders, NoDeadBackupWrites, NothingDestroyed
<1>3. CASE HealMoveAway
  <2>1. lock = "heal" /\ live = "off" /\ IsTree(dir)
    BY <1>3 DEF HealMoveAway, LockHolders, TypeOK
  <2>2. InTree(dir) \subseteq Records  BY <2>1, InTreeType
  <2>3. TypeOK'  BY <1>1, <1>3, <2>1, <2>2 DEF HealMoveAway, TypeOK
  <2>4. NothingDestroyed'  BY <1>3 DEF HealMoveAway, NothingDestroyed
  <2>5. QED
    BY <1>3, <2>1, <2>3, <2>4 DEF HealMoveAway, Phases, LockHolders, NoDeadBackupWrites
<1>4. CASE HealPromote
  <2>1. NothingDestroyed'
    <3>1. acked \subseteq InTree(dir) \cup bak /\ acked' = acked /\ bak' = bak
      BY <1>4 DEF HealPromote, NothingDestroyed
    <3>2. InTree(dir) \subseteq InTree(dir')
      <4>1. CASE dir = NoDir  BY <4>1 DEF InTree
      <4>2. CASE dir # NoDir
        <5>1. dir' = dir  BY <1>4, <4>2 DEF HealPromote
        <5>2. QED  BY <5>1
      <4>3. QED  BY <4>1, <4>2
    <3>3. QED  BY <3>1, <3>2 DEF NothingDestroyed
  <2>2. TypeOK'  BY <1>1, <1>4 DEF HealPromote, TypeOK
  <2>3. staging # NoDir /\ lock # "heal"  BY <1>4 DEF HealPromote, Phases, LockHolders
  <2>4. QED
    BY <1>4, <2>1, <2>2, <2>3 DEF HealPromote, Phases, LockHolders, NoDeadBackupWrites
<1>5. CASE HealCrash
  BY <1>5 DEF HealCrash, treeVars, TypeOK, Phases, LockHolders, NoDeadBackupWrites, NothingDestroyed
<1>6. QED  BY <1>2, <1>3, <1>4, <1>5

LEMMA StepInv == IInv /\ [Next]_vars => IInv'
<1> SUFFICES ASSUME IInv, [Next]_vars  PROVE IInv'
  OBVIOUS
<1>1. CASE UNCHANGED vars
  BY <1>1 DEF IInv, vars, treeVars, healVars, TypeOK, Phases, LockHolders, NoDeadBackupWrites, NothingDestroyed
<1>2. CASE Tick \/ LiveOpen \/ LiveAppend \/ LiveStop  BY <1>2, LiveStep
<1>3. CASE HealList \/ HealDate \/ HealDryRun \/ HealRewrite \/ HealPassthrough \/ HealStop
  <2>1. /\ UNCHANGED <<now, dir, moved, bak, lock, live, acked>>
        /\ TypeOK' /\ Phases' /\ phase # "locked" /\ phase' # "locked"
    BY <1>3, StagingStep
  <2>2. QED  BY <2>1 DEF IInv, LockHolders, NoDeadBackupWrites, NothingDestroyed
<1>4. CASE HealLock \/ HealMoveAway \/ HealPromote \/ HealCrash  BY <1>4, CommitStep
<1>5. QED  BY <1>1, <1>2, <1>3, <1>4 DEF Next, Heal

THEOREM HealInductive == Spec => []IInv
  BY InitInv, StepInv, PTL DEF Spec

\* No stored record is destroyed by heal-idx, whatever interleaves with it and
\* wherever it dies: the directory and its backups hold all of them.
THEOREM HealDestroysNothing == Spec => []NothingDestroyed
<1>1. IInv => NothingDestroyed  BY DEF IInv
<1>2. QED  BY <1>1, HealInductive, PTL

\* The live writer never appends to a directory heal-idx has moved away.
THEOREM HealNeverOrphansLive == Spec => []NoDeadBackupWrites
<1>1. IInv => NoDeadBackupWrites  BY DEF IInv
<1>2. QED  BY <1>1, HealInductive, PTL

-----------------------------------------------------------------------------
(* The healed tree carries the closed days.                                *)

\* The records of a day that belong under a closed date are in the staging
\* directory, themselves or as their bin.
Carried(d, tree) ==
  \A r \in Own(Shard(tree, d)) : DayOf[r[2]] < today => Represented(r, staging)

\* Rewriting, that is so of the days dealt with; from then on of all of them, of
\* the tree in place and then of the one moved away. The clock does not go back:
\* what the live writer appends is of no closed day.
KeptSoFar ==
  /\ phase \in {"rewriting", "staged", "locked"} =>
       /\ today <= Today
       /\ \A d \in listed : d < today => d \in todo \/ Carried(d, dir)
  /\ phase \in {"staged", "locked"} => todo = {}
  /\ phase = "moved" => \A d \in listed : d < today => Carried(d, moved)

KInv == IInv /\ KeptSoFar

LEMMA SlotDays == \A t \in Slots : DayOf[t] \in Days /\ DayOf[t] \in Int
  BY DayOfAssumption

\* A tree whose shards only grow keeps what it represents.
LEMMA RepresentedGrows ==
  ASSUME NEW tree, NEW more, NEW r,
         Shard(tree, DayOf[r[2]]) \subseteq Shard(more, DayOf[r[2]]), Represented(r, tree)
  PROVE  Represented(r, more)
  BY DEF Represented

\* Routing grows the shards of the records' dates.
LEMMA RoutedGrows ==
  ASSUME NEW tree, NEW recs, NEW d
  PROVE  /\ Shard(tree, d) \subseteq Shard(Routed(tree, recs), d)
         /\ OfDay(recs, d) \subseteq Shard(Routed(tree, recs), d)
<1> DEFINE D == DOMAIN tree \cup {DayOf[r[2]] : r \in recs}
<1>1. DOMAIN Routed(tree, recs) = D /\ \A e \in D : Routed(tree, recs)[e] = Shard(tree, e) \cup OfDay(recs, e)
  BY DEF Routed
<1>2. CASE d \in D
  <2> HIDE DEF D
  <2>1. QED  BY <1>1, <1>2 DEF Shard
<1>3. CASE d \notin D
  <2>1. Shard(tree, d) = {} /\ OfDay(recs, d) = {}  BY <1>3 DEF Shard, OfDay
  <2>2. QED  BY <2>1
<1>4. QED  BY <1>2, <1>3

\* Of a rewritten shard, each record is there or the start of its bin, of the
\* same day.
LEMMA HealedKeeps ==
  ASSUME NEW recs \in SUBSET Records, NEW resampled, NEW r \in Own(recs)
  PROVE  \E q \in Healed(recs, resampled) :
           /\ DayOf[q[2]] = DayOf[r[2]]
           /\ q = r \/ q = <<"own", Bin[r[2]]>>
<1>1. r \in Records /\ r[2] \in Slots  BY RecordSlot DEF Own
<1>2. DayOf[Bin[r[2]]] = DayOf[r[2]]  BY <1>1, BinAssumption
<1>3. CASE r \in Healed(recs, resampled)  BY <1>3
<1>4. CASE r \notin Healed(recs, resampled)
  <2>1. <<"own", Bin[r[2]]>> \in Healed(recs, resampled)  BY <1>4 DEF Healed
  <2>2. QED  BY <1>2, <2>1
<1>5. QED  BY <1>3, <1>4

LEMMA InitKept == Init => KInv
  BY InitInv DEF Init, KInv, KeptSoFar

\* The live writer and the clock: appends go to the current day.
LEMMA LiveKeeps ==
  ASSUME KInv, IInv', Tick \/ LiveOpen \/ LiveAppend \/ LiveStop
  PROVE  KeptSoFar'
<1> USE DEF KInv, IInv
<1>1. UNCHANGED <<staging, moved, healVars>> /\ now' \in {now, now + 1}
  BY DEF Tick, LiveOpen, LiveAppend, LiveStop, treeVars
<1>2. UNCHANGED <<phase, today, listed, todo>>  BY <1>1 DEF healVars
<1>3. today \in Int /\ Today \in Int /\ Today <= Today' /\ Today' \in Int
  <2>1. now \in Slots /\ now' \in Slots /\ now \in Int /\ today \in Days
    BY SlotsAssumption DEF TypeOK
  <2>2. now <= now'  BY <1>1, <2>1
  <2>3. DayOf[now] <= DayOf[now']  BY <2>1, <2>2, MonotoneAssumption
  <2>4. QED  BY <2>1, <2>3, SlotDays, DayOfAssumption DEF Today
<1>4. ASSUME phase \in {"rewriting", "staged", "locked"}, NEW d \in listed, d < today, today <= Today
      PROVE  Shard(dir', d) = Shard(dir, d)
  <2>1. dir # NoDir  BY <1>4 DEF Phases
  <2>2. CASE dir' = dir  BY <2>2
  <2>3. CASE dir' # dir
    <3>1. LiveAppend  BY <2>1, <2>3 DEF Tick, LiveOpen, LiveStop, treeVars
    <3>2. dir' = Put(dir, Today, Shard(dir, Today) \cup {<<"own", now>>})
      BY <3>1 DEF LiveAppend, NoDeadBackupWrites, TypeOK
    <3>3. d # Today
      <4>1. d \in Int  BY DayOfAssumption DEF TypeOK
      <4>2. QED  BY <1>3, <1>4, <4>1
    <3>4. QED  BY <3>2, <3>3 DEF Put, Shard
  <2>4. QED  BY <2>2, <2>3
<1>5. \A d, r : Represented(r, staging)' = Represented(r, staging)  BY <1>1 DEF Represented
<1>6. ASSUME phase \in {"rewriting", "staged", "locked"}
      PROVE  /\ today <= Today'
             /\ \A d \in listed : d < today => d \in todo \/ Carried(d, dir)'
  <2>1. today <= Today /\ \A d \in listed : d < today => d \in todo \/ Carried(d, dir)
    BY <1>6 DEF KeptSoFar
  <2>2. \A d \in listed : d < today => Shard(dir', d) = Shard(dir, d)  BY <1>4, <1>6, <2>1
  <2>3. ASSUME NEW d \in listed, d < today, d \notin todo  PROVE Carried(d, dir)'
    <3>1. Carried(d, dir) /\ Shard(dir', d) = Shard(dir, d)  BY <2>1, <2>2, <2>3
    <3>2. QED  BY <1>1, <1>2, <3>1 DEF Carried, Represented
  <2>4. QED  BY <1>3, <2>1, <2>3
<1>7. ASSUME phase = "moved", NEW d \in listed, d < today  PROVE Carried(d, moved)'
  <2>1. Carried(d, moved)  BY <1>7 DEF KeptSoFar
  <2>2. QED  BY <1>1, <1>2, <2>1 DEF Carried, Represented
<1>8. QED  BY <1>2, <1>6, <1>7 DEF KeptSoFar

LEMMA RewriteKeeps ==
  ASSUME KInv, IInv', HealRewrite
  PROVE  KeptSoFar'
<1> USE DEF KInv, IInv
<1>1. /\ phase = "rewriting" /\ UNCHANGED <<now, dir, moved, phase, today, listed>>
      /\ dir # NoDir /\ staging # NoDir /\ IsTree(dir)
  BY DEF HealRewrite, Phases, TypeOK
<1>2. PICK d, resampled :
        todo' = todo \ {d} /\ staging' = Routed(staging, Healed(Shard(dir, d), resampled))
  BY DEF HealRewrite
<1> DEFINE recs == Healed(Shard(dir, d), resampled)
<1>3. Shard(dir, d) \in SUBSET Records  BY <1>1, ShardType
<1>4. \A r : Represented(r, staging) => Represented(r, staging')
  BY <1>2, RoutedGrows, RepresentedGrows
<1>5. \A r \in Own(Shard(dir, d)) : Represented(r, staging')
  <2> TAKE r \in Own(Shard(dir, d))
  <2>1. PICK q \in recs : DayOf[q[2]] = DayOf[r[2]] /\ (q = r \/ q = <<"own", Bin[r[2]]>>)
    BY <1>3, HealedKeeps
  <2> HIDE DEF recs
  <2>2. q \in OfDay(recs, DayOf[r[2]])  BY <2>1 DEF OfDay
  <2>3. q \in Shard(staging', DayOf[r[2]])  BY <1>2, <2>2, RoutedGrows DEF recs
  <2>4. QED  BY <2>1, <2>3 DEF Represented
<1>6. today <= Today /\ \A e \in listed : e < today => e \in todo \/ Carried(e, dir)
  BY <1>1 DEF KeptSoFar
<1>7. ASSUME NEW e \in listed, e < today, e \notin todo'  PROVE Carried(e, dir)'
  <2>1. CASE e = d  BY <1>1, <1>5, <2>1 DEF Carried, Represented
  <2>2. CASE e # d
    <3>1. Carried(e, dir)  BY <1>2, <1>6, <1>7, <2>2
    <3>2. QED  BY <1>1, <1>4, <3>1 DEF Carried, Represented
  <2>3. QED  BY <2>1, <2>2
<1>8. QED  BY <1>1, <1>6, <1>7 DEF KeptSoFar, Today

\* Only the shard of the current day is replaced by the live one.
LEMMA PassthroughKeeps ==
  ASSUME KInv, IInv', HealPassthrough
  PROVE  KeptSoFar'
<1> USE DEF KInv, IInv
<1>1. /\ phase = "rewriting" /\ phase' = "staged" /\ todo = {} /\ todo' = todo
      /\ UNCHANGED <<now, dir, moved, today, listed>> /\ dir # NoDir /\ IsTree(dir)
  BY DEF HealPassthrough, Phases, TypeOK
<1>2. PICK d : staging' = staging \/ staging' = Put(staging, today, Shard(dir, d))
  BY DEF HealPassthrough
<1>3. \A e : e # today => Shard(staging', e) = Shard(staging, e)
  BY <1>2 DEF Put, Shard
<1>4. today <= Today /\ \A e \in listed : e < today => Carried(e, dir)
  BY <1>1 DEF KeptSoFar
<1>5. ASSUME NEW e \in listed, e < today  PROVE Carried(e, dir)'
  <2> SUFFICES ASSUME NEW r \in Own(Shard(dir, e)), DayOf[r[2]] < today
               PROVE  Represented(r, staging')
    BY <1>1 DEF Carried, Represented
  <2>1. Represented(r, staging)  BY <1>4, <1>5 DEF Carried
  <2>2. r[2] \in Slots  BY <1>1, ShardType, RecordSlot DEF Own
  <2>3. DayOf[r[2]] # today
    <3>1. DayOf[r[2]] \in Int /\ today \in Int  BY <2>2, SlotDays, DayOfAssumption DEF TypeOK
    <3>2. QED  BY <3>1
  <2>4. QED  BY <1>3, <2>1, <2>3 DEF Represented
<1>6. QED  BY <1>1, <1>4, <1>5 DEF KeptSoFar, Today

LEMMA HealKeeps == KInv /\ IInv' /\ Heal => KeptSoFar'
<1> SUFFICES ASSUME KInv, IInv', Heal  PROVE KeptSoFar'
  OBVIOUS
<1> USE DEF KInv, IInv
<1>1. CASE HealRewrite  BY <1>1, RewriteKeeps
<1>2. CASE HealPassthrough  BY <1>2, PassthroughKeeps
<1>3. CASE HealList \/ HealDryRun \/ HealStop \/ HealPromote \/ HealCrash
  <2>1. phase' \in {"listed", "idle"}
    BY <1>3 DEF HealList, HealDryRun, HealStop, HealPromote, HealCrash
  <2>2. QED  BY <2>1 DEF KeptSoFar
<1>4. CASE HealDate
  <2>1. Today \in Int  BY SlotDays DEF TypeOK, Today
  <2>2. /\ UNCHANGED <<now, listed, dir>> /\ today' = Today /\ todo' = {d \in listed : d < Today}
        /\ phase' \in {"idle", "rewriting"}
    BY <1>4 DEF HealDate
  <2>3. QED  BY <2>1, <2>2 DEF KeptSoFar, Today
<1>5. CASE HealLock
  BY <1>5 DEF HealLock, treeVars, KeptSoFar, Carried, Represented, Today
<1>6. CASE HealMoveAway
  <2>1. /\ phase = "locked" /\ phase' = "moved" /\ moved' = dir
        /\ UNCHANGED <<staging, today, listed>>
    BY <1>6 DEF HealMoveAway
  <2>2. \A d \in listed : d < today => Carried(d, dir)  BY <2>1 DEF KeptSoFar
  <2>3. ASSUME NEW d \in listed, d < today  PROVE Carried(d, moved)'
    BY <2>1, <2>2, <2>3 DEF Carried, Represented
  <2>4. QED  BY <2>1, <2>3 DEF KeptSoFar
<1>7. QED  BY <1>1, <1>2, <1>3, <1>4, <1>5, <1>6 DEF Heal

LEMMA KeptStep == KInv /\ [Next]_vars => KInv'
<1> SUFFICES ASSUME KInv, [Next]_vars  PROVE KInv'
  OBVIOUS
<1>1. IInv'  BY StepInv DEF KInv
<1>2. CASE Tick \/ LiveOpen \/ LiveAppend \/ LiveStop  BY <1>1, <1>2, LiveKeeps DEF KInv
<1>3. CASE Heal  BY <1>1, <1>3, HealKeeps DEF KInv
<1>4. CASE UNCHANGED vars
  BY <1>1, <1>4 DEF vars, treeVars, healVars, KInv, KeptSoFar, Carried, Represented, Today
<1>5. QED  BY <1>2, <1>3, <1>4 DEF Next

\* The tree heal-idx puts in place holds every record of the ticker that a
\* closed day had when it was listed, under its date, itself or as its bin,
\* while the live writer and the clock went on.
THEOREM HealKeepsClosedDays == Spec => ClosedDaysKept
<1>1. KInv /\ [Next]_vars =>
        [phase = "moved" /\ dir' = staging =>
           \A d \in listed : d < today =>
             \A r \in Own(Shard(moved, d)) :
               DayOf[r[2]] < today => Represented(r, dir')]_vars
  BY DEF KInv, KeptSoFar, Carried
<1>2. Spec => []KInv  BY InitKept, KeptStep, PTL DEF Spec
<1>3. QED  BY <1>1, <1>2, PTL DEF Spec, ClosedDaysKept
-----------------------------------------------------------------------------
-----------------------------------------------------------------------------
\* Numbers.

\* What is true at 0, and at a number when it is true before, is true up to N.
Lt == {ss \in Nat \X Nat : ss[1] < ss[2]}

LEMMA Upwards ==
  ASSUME NEW N \in Nat, NEW T, 0 \in T, \A n \in 0..(N - 1) : n \in T => n + 1 \in T
  PROVE  0..N \subseteq T
<1> DEFINE U == (0..N) \ T
<1> SUFFICES ASSUME U # {} PROVE FALSE
  OBVIOUS
<1>1. IsWellFoundedOn(Lt, Nat)  BY NatLessThanWellFounded DEF OpToRel, Lt
<1>2. U \subseteq Nat  OBVIOUS
<1>3. PICK n \in U : \A m \in U : ~ (<<m, n>> \in Lt)  BY <1>1, <1>2, WFMin
<1>4. n \in Nat /\ n # 0 /\ n <= N  OBVIOUS
<1>5. n - 1 \in 0..(N - 1) /\ n - 1 \in Nat /\ (n - 1) + 1 = n  BY <1>4
<1>6. n - 1 \notin T  BY <1>5
<1>7. n - 1 \in U /\ <<n - 1, n>> \in Lt  BY <1>4, <1>5, <1>6 DEF Lt
<1> QED  BY <1>3, <1>7

LEMMA LeastNat ==
  ASSUME NEW T, T \subseteq Nat, T # {}
  PROVE  \E n \in T : \A m \in T : n <= m
<1>1. IsWellFoundedOn(Lt, Nat)  BY NatLessThanWellFounded DEF OpToRel, Lt
<1>2. PICK n \in T : \A m \in T : ~ (<<m, n>> \in Lt)  BY <1>1, WFMin
<1>3. \A m \in T : n <= m
  <2> TAKE m \in T
  <2>1. m \in Nat /\ n \in Nat  OBVIOUS
  <2>2. m < n => <<m, n>> \in Lt  BY <2>1 DEF Lt
  <2> QED  BY <1>2, <2>1, <2>2
<1> QED  BY <1>3

LEMMA MaxBounded ==
  ASSUME NEW S, S \subseteq Int, S # {}, NEW b \in Int, \A s \in S : s <= b
  PROVE  Max(S) \in S /\ \A s \in S : s <= Max(S)
<1> DEFINE T == {b - s : s \in S}
<1>1. T \subseteq Nat /\ T # {}
  <2>1. \A s \in S : b - s \in Nat  OBVIOUS
  <2> QED  BY <2>1
<1>2. PICK n \in T : \A m \in T : n <= m  BY <1>1, LeastNat
<1>3. PICK s \in S : n = b - s  BY <1>2
<1>4. \A r \in S : r <= s
  <2> TAKE r \in S
  <2>1. b - s <= b - r  BY <1>2, <1>3
  <2> QED  BY <2>1
<1>5. \E x \in S : \A y \in S : x >= y  BY <1>4
<1> QED  BY <1>5 DEF Max

LEMMA TwoNumbers ==
  ASSUME NEW m \in Int, NEW n \in Int
  PROVE  /\ Max({m, n}) = IF m >= n THEN m ELSE n
         /\ Min({m, n}) = IF m <= n THEN m ELSE n
<1>1. \E x \in {m, n} : \A y \in {m, n} : x >= y  OBVIOUS
<1>2. \E x \in {m, n} : \A y \in {m, n} : x =< y  OBVIOUS
<1>3. Max({m, n}) \in {m, n} /\ \A y \in {m, n} : Max({m, n}) >= y  BY <1>1 DEF Max
<1>4. Min({m, n}) \in {m, n} /\ \A y \in {m, n} : Min({m, n}) =< y  BY <1>2 DEF Min
<1> QED  BY <1>3, <1>4

LEMMA MinBounded ==
  ASSUME NEW S, S \subseteq Nat, S # {}
  PROVE  Min(S) \in S /\ \A s \in S : Min(S) <= s
<1>1. \E x \in S : \A y \in S : x =< y  BY LeastNat
<1> QED  BY <1>1 DEF Min

\* A fold whose steps stay in S: the function it recurs on is there.
Folded(g, N, S, b, F) ==
  /\ g = [i \in 0..N |-> IF i = 0 THEN b ELSE F[i][g[i - 1]]]
  /\ \A i \in 0..N : g[i] \in S

LEMMA FoldIs ==
  ASSUME NEW N \in Nat, NEW S, NEW b \in S, NEW F, \A i \in 1..N : \A s \in S : F[i][s] \in S
  PROVE  \E g : Folded(g, N, S, b, F)
<1> DEFINE T == {n \in 0..N : \E g : Folded(g, n, S, b, F)}
<1>1. 0 \in T
  <2>1. Folded([i \in 0..0 |-> b], 0, S, b, F)  BY DEF Folded
  <2> QED  BY <2>1
<1>2. ASSUME NEW n \in 0..(N - 1), n \in T PROVE n + 1 \in T
  <2>1. PICK g : Folded(g, n, S, b, F)  BY <1>2
  <2> DEFINE h == [k \in 0..(n + 1) |-> IF k = n + 1 THEN F[n + 1][g[n]] ELSE g[k]]
  <2>2. n \in Nat /\ n + 1 \in 0..N /\ n + 1 \in 1..N /\ (n + 1) - 1 = n /\ n \in 0..n  OBVIOUS
  <2>3. ASSUME NEW k \in 0..(n + 1)
        PROVE  h[k] = (IF k = 0 THEN b ELSE F[k][h[k - 1]]) /\ h[k] \in S
    <3>1. CASE k = n + 1
      <4>1. h[k] = F[n + 1][g[n]]  BY <3>1
      <4>2. k # 0 /\ k - 1 = n /\ n \in 0..(n + 1) /\ n # n + 1  BY <3>1, <2>2
      <4>3. h[k - 1] = g[n]  BY <4>2
      <4>4. g[n] \in S  BY <2>1, <2>2 DEF Folded
      <4> QED  BY <3>1, <4>1, <4>2, <4>3, <4>4, <2>2
    <3>2. CASE k # n + 1
      <4>1. k \in 0..n /\ (k # 0 => k - 1 \in 0..n /\ k - 1 \in 0..(n + 1) /\ k - 1 # n + 1)  BY <3>2, <2>2
      <4>2. h[k] = g[k] /\ (k # 0 => h[k - 1] = g[k - 1])  BY <3>2, <4>1
      <4>3. g[k] = (IF k = 0 THEN b ELSE F[k][g[k - 1]]) /\ g[k] \in S  BY <2>1, <4>1 DEF Folded
      <4> QED  BY <4>2, <4>3
    <3> QED  BY <3>1, <3>2
  <2>4. h = [k \in 0..(n + 1) |-> h[k]]  OBVIOUS
  <2> HIDE DEF h
  <2>5. Folded(h, n + 1, S, b, F)  BY <2>3, <2>4 DEF Folded
  <2> QED  BY <2>2, <2>5
<1> HIDE DEF T
<1>3. 0..N \subseteq T  BY <1>1, <1>2, Upwards
<1>4. N \in T  BY <1>3
<1> QED  BY <1>4 DEF T
-----------------------------------------------------------------------------
\* The elements at some positions.

OnlyStep(g, s, I, i) == g[i] = IF i \in I THEN Append(g[i - 1], s[i]) ELSE g[i - 1]

LEMMA OnlyRuns ==
  ASSUME NEW A, NEW s \in Seq(A), NEW I
  PROVE  \E g : /\ g[0] = <<>> /\ Only(s, I) = g[Len(s)]
                /\ \A i \in 0..Len(s) : g[i] \in Seq(A)
                /\ \A i \in 1..Len(s) : OnlyStep(g, s, I, i)
<1> DEFINE N == Len(s)
           F == [i \in 1..N |-> [o \in Seq(A) |-> IF i \in I THEN Append(o, s[i]) ELSE o]]
           E(g) == g = [i \in 0..N |-> IF i = 0 THEN <<>> ELSE IF i \in I THEN Append(g[i - 1], s[i]) ELSE g[i - 1]]
           c == CHOOSE g : E(g)
<1>1. N \in Nat /\ \A i \in 1..N : s[i] \in A  BY LenProperties
<1>2. \A i \in 1..N : \A o \in Seq(A) : F[i][o] = (IF i \in I THEN Append(o, s[i]) ELSE o) /\ F[i][o] \in Seq(A)
  BY <1>1
<1>3. <<>> \in Seq(A)  OBVIOUS
<1>4. PICK g : Folded(g, N, Seq(A), <<>>, F)
  <2> HIDE DEF F, N
  <2> QED  BY <1>1, <1>2, <1>3, FoldIs
<1>5. \A i \in 0..N : i # 0 => i \in 1..N /\ i - 1 \in 0..N  BY <1>1
<1>6. E(g)
  <2>1. \A i \in 0..N : g[i] = IF i = 0 THEN <<>> ELSE F[i][g[i - 1]]  BY <1>4 DEF Folded
  <2>2. g = [i \in 0..N |-> g[i]]  BY <1>4 DEF Folded
  <2>3. \A i \in 0..N : i # 0 => g[i - 1] \in Seq(A)  BY <1>4, <1>5 DEF Folded
  <2> HIDE DEF F, N
  <2>4. \A i \in 0..N : g[i] = IF i = 0 THEN <<>> ELSE IF i \in I THEN Append(g[i - 1], s[i]) ELSE g[i - 1]
    BY <1>2, <1>5, <2>1, <2>3
  <2> QED  BY <2>2, <2>4
<1>7. E(c)  BY <1>6
<1>8. Only(s, I) = c[N]  BY DEF Only
<1> HIDE DEF c, F, N
<1>9. \A i \in 0..N : c[i] = IF i = 0 THEN <<>> ELSE IF i \in I THEN Append(c[i - 1], s[i]) ELSE c[i - 1]
  BY <1>7
<1>10. 0 \in 0..N /\ \A i \in 1..N : i \in 0..N /\ i # 0 /\ s[i] \in A  BY <1>1
<1>11. c[0] = <<>> /\ \A i \in 1..N : OnlyStep(c, s, I, i)  BY <1>9, <1>10 DEF OnlyStep
<1>12. \A i \in 0..N : c[i] \in Seq(A)
  <2> DEFINE T == {i \in 0..N : c[i] \in Seq(A)}
  <2>1. 0 \in T  BY <1>3, <1>10, <1>11
  <2>2. ASSUME NEW n \in 0..(N - 1), n \in T  PROVE n + 1 \in T
    <3>1. n + 1 \in 1..N /\ n + 1 \in 0..N /\ (n + 1) - 1 = n  BY <1>1
    <3>2. c[n] \in Seq(A) /\ s[n + 1] \in A  BY <2>2, <3>1, <1>10
    <3>3. Append(c[n], s[n + 1]) \in Seq(A)  BY <3>2
    <3>4. c[n + 1] = IF n + 1 \in I THEN Append(c[n], s[n + 1]) ELSE c[n]  BY <1>11, <3>1 DEF OnlyStep
    <3>5. c[n + 1] \in Seq(A)  BY <3>2, <3>3, <3>4
    <3> QED  BY <3>1, <3>5
  <2> HIDE DEF T
  <2>3. 0..N \subseteq T  BY <1>1, <2>1, <2>2, Upwards
  <2> QED  BY <2>3 DEF T
<1> QED  BY <1>8, <1>11, <1>12 DEF N

\* o is what s has at the positions I up to n, in order: f says where.
Picks(f, o, s, I, n) ==
  /\ f \in [1..Len(o) -> I \cap (1..n)]
  /\ \A j, k \in 1..Len(o) : j < k => f[j] < f[k]
  /\ \A i \in I \cap (1..n) : \E k \in 1..Len(o) : f[k] = i
  /\ \A k \in 1..Len(o) : o[k] = s[f[k]]

LEMMA PicksNext ==
  ASSUME NEW A, NEW s \in Seq(A), NEW I, NEW n \in Nat, n + 1 \in 1..Len(s),
         NEW o \in Seq(A), NEW f, Picks(f, o, s, I, n)
  PROVE  \E h : Picks(h, IF n + 1 \in I THEN Append(o, s[n + 1]) ELSE o, s, I, n + 1)
<1>1. CASE n + 1 \notin I
  <2>1. I \cap (1..n) = I \cap (1..(n + 1))  BY <1>1
  <2>2. Picks(f, o, s, I, n + 1)  BY <2>1 DEF Picks
  <2> QED  BY <1>1, <2>2
<1>2. CASE n + 1 \in I
  <2> DEFINE m == Len(o)
             p == Append(o, s[n + 1])
             h == [k \in 1..(m + 1) |-> IF k = m + 1 THEN n + 1 ELSE f[k]]
  <2>1. m \in Nat /\ s[n + 1] \in A  OBVIOUS
  <2>2. Len(p) = m + 1 /\ p[m + 1] = s[n + 1] /\ \A k \in 1..m : p[k] = o[k]  BY <2>1
  <2>3. \A k \in 1..(m + 1) : k # m + 1 => k \in 1..m  BY <2>1
  <2>4. \A k \in 1..m : f[k] \in I \cap (1..n) /\ k \in 1..(m + 1) /\ k # m + 1 /\ m + 1 \in 1..(m + 1)
    BY <2>1 DEF Picks
  <2>5. \A i \in I \cap (1..n) : i \in I \cap (1..(n + 1)) /\ i < n + 1  OBVIOUS
  <2>6. \A k \in 1..m : h[k] = f[k]  BY <2>4
  <2>7. h[m + 1] = n + 1 /\ m + 1 \in 1..(m + 1)  BY <2>1
  <2>8. h \in [1..(m + 1) -> I \cap (1..(n + 1))]
    <3>1. \A k \in 1..(m + 1) : (IF k = m + 1 THEN n + 1 ELSE f[k]) \in I \cap (1..(n + 1))
      BY <1>2, <2>3, <2>4, <2>5
    <3> QED  BY <3>1
  <2> HIDE DEF h, p, m
  <2>9. \A j, k \in 1..(m + 1) : j < k => h[j] < h[k]
    <3> TAKE j, k \in 1..(m + 1)
    <3> HAVE j < k
    <3>1. j \in 1..m  BY <2>1
    <3>2. CASE k = m + 1  BY <2>4, <2>5, <2>6, <2>7, <3>1, <3>2
    <3>3. CASE k # m + 1
      <4>1. k \in 1..m  BY <2>3, <3>3
      <4>2. f[j] < f[k]  BY <3>1, <4>1 DEF Picks, m
      <4> QED  BY <2>6, <3>1, <4>1, <4>2
    <3> QED  BY <3>2, <3>3
  <2>10. \A i \in I \cap (1..(n + 1)) : \E k \in 1..(m + 1) : h[k] = i
    <3> TAKE i \in I \cap (1..(n + 1))
    <3>1. CASE i = n + 1  BY <2>7, <3>1
    <3>2. CASE i # n + 1
      <4>1. i \in I \cap (1..n)  BY <3>2
      <4>2. PICK k \in 1..m : f[k] = i  BY <4>1 DEF Picks, m
      <4> QED  BY <2>4, <2>6, <4>2
    <3> QED  BY <3>1, <3>2
  <2>11. \A k \in 1..(m + 1) : p[k] = s[h[k]]
    <3> TAKE k \in 1..(m + 1)
    <3>1. CASE k = m + 1  BY <2>2, <2>7, <3>1
    <3>2. CASE k # m + 1
      <4>1. k \in 1..m  BY <2>3, <3>2
      <4>2. o[k] = s[f[k]]  BY <4>1 DEF Picks, m
      <4> QED  BY <2>2, <2>6, <4>1, <4>2
    <3> QED  BY <3>1, <3>2
  <2>12. Picks(h, p, s, I, n + 1)  BY <2>2, <2>8, <2>9, <2>10, <2>11 DEF Picks
  <2> QED  BY <1>2, <2>12 DEF p
<1> QED  BY <1>1, <1>2

LEMMA OnlyIs ==
  ASSUME NEW A, NEW s \in Seq(A), NEW I
  PROVE  Only(s, I) \in Seq(A) /\ \E f : Picks(f, Only(s, I), s, I, Len(s))
<1>1. PICK g : /\ g[0] = <<>> /\ Only(s, I) = g[Len(s)]
               /\ \A i \in 0..Len(s) : g[i] \in Seq(A)
               /\ \A i \in 1..Len(s) : OnlyStep(g, s, I, i)
  BY OnlyRuns
<1> DEFINE T == {n \in 0..Len(s) : \E f : Picks(f, g[n], s, I, n)}
<1>2. Len(s) \in Nat /\ 0 \in 0..Len(s) /\ Len(s) \in 0..Len(s)  BY LenProperties
<1>3. 0 \in T
  <2>1. Picks([k \in {} |-> 0], <<>>, s, I, 0)  BY DEF Picks
  <2> QED  BY <1>1, <1>2, <2>1
<1>4. ASSUME NEW n \in 0..(Len(s) - 1), n \in T  PROVE n + 1 \in T
  <2>1. n \in Nat /\ n + 1 \in 1..Len(s) /\ n + 1 \in 0..Len(s) /\ n \in 0..Len(s) /\ (n + 1) - 1 = n  BY <1>2
  <2>2. PICK f : Picks(f, g[n], s, I, n)  BY <1>4
  <2>3. g[n] \in Seq(A)  BY <1>1, <2>1
  <2>4. g[n + 1] = IF n + 1 \in I THEN Append(g[n], s[n + 1]) ELSE g[n]  BY <1>1, <2>1 DEF OnlyStep
  <2>5. \E h : Picks(h, g[n + 1], s, I, n + 1)  BY <2>1, <2>2, <2>3, <2>4, PicksNext
  <2> QED  BY <2>1, <2>5
<1> HIDE DEF T
<1>5. 0..Len(s) \subseteq T  BY <1>2, <1>3, <1>4, Upwards
<1>6. Len(s) \in T  BY <1>2, <1>5
<1> QED  BY <1>1, <1>2, <1>6 DEF T
-----------------------------------------------------------------------------
\* The rows of a directory.

Dated(shards, A) ==
  /\ \E m \in Nat : DOMAIN shards \subseteq 0..m
  /\ \A d \in DOMAIN shards : shards[d] \in Seq(A)

ShardAt(shards, d) == IF d \in DOMAIN shards THEN shards[d] ELSE <<>>

\* g[d] holds the rows of the days before d.
RowsBefore(g, shards, n, A) ==
  /\ n \in Nat /\ DOMAIN shards \subseteq 0..(n - 1)
  /\ g[0] = <<>> /\ RowsOf(shards) = g[n]
  /\ \A d \in 0..n : g[d] \in Seq(A)
  /\ \A d \in 1..n : g[d] = g[d - 1] \o ShardAt(shards, d - 1)

LEMMA RowsRun ==
  ASSUME NEW A, NEW shards, Dated(shards, A)
  PROVE  \E g, n : RowsBefore(g, shards, n, A)
<1> DEFINE D == {0} \cup {d + 1 : d \in DOMAIN shards}
           n == Max(D)
           F == [i \in 1..n |-> [o \in Seq(A) |-> o \o ShardAt(shards, i - 1)]]
           E(g) == g = [d \in 0..n |-> IF d = 0 THEN <<>>
                                       ELSE g[d - 1] \o IF d - 1 \in DOMAIN shards THEN shards[d - 1] ELSE <<>>]
           c == CHOOSE g : E(g)
<1>1. PICK m \in Nat : DOMAIN shards \subseteq 0..m  BY DEF Dated
<1>2. n \in D /\ \A d \in D : d <= n
  <2>1. D \subseteq Int /\ D # {} /\ \A d \in D : d <= m + 1  BY <1>1
  <2>2. m + 1 \in Int  OBVIOUS
  <2> HIDE DEF D
  <2> QED  BY <2>1, <2>2, MaxBounded
<1>3. n \in Nat /\ DOMAIN shards \subseteq 0..(n - 1)
  <2>1. \A d \in DOMAIN shards : d \in Nat /\ d + 1 <= n /\ n \in Nat  BY <1>1, <1>2
  <2>2. n \in Nat  BY <1>1, <1>2
  <2> QED  BY <2>1, <2>2
<1>4. \A d : ShardAt(shards, d) \in Seq(A)  BY DEF ShardAt, Dated
<1>5. RowsOf(shards) = c[n]  BY DEF RowsOf
<1> HIDE DEF n, c
<1>6. \A i \in 1..n : \A o \in Seq(A) : F[i][o] = o \o ShardAt(shards, i - 1) /\ F[i][o] \in Seq(A)
  BY <1>4
<1>7. <<>> \in Seq(A)  OBVIOUS
<1>8. PICK g : Folded(g, n, Seq(A), <<>>, F)
  <2> HIDE DEF F
  <2> QED  BY <1>3, <1>6, <1>7, FoldIs
<1>9. 0 \in 0..n /\ \A i \in 0..n : i # 0 => i \in 1..n /\ i - 1 \in 0..n  BY <1>3
<1>10. E(g)
  <2>1. \A i \in 0..n : g[i] = IF i = 0 THEN <<>> ELSE F[i][g[i - 1]]  BY <1>8 DEF Folded
  <2>2. g = [i \in 0..n |-> g[i]]  BY <1>8 DEF Folded
  <2>3. \A i \in 0..n : i # 0 => g[i - 1] \in Seq(A)  BY <1>8, <1>9 DEF Folded
  <2> HIDE DEF F
  <2>4. \A i \in 0..n : g[i] = IF i = 0 THEN <<>>
                               ELSE g[i - 1] \o IF i - 1 \in DOMAIN shards THEN shards[i - 1] ELSE <<>>
    BY <1>6, <1>9, <2>1, <2>3 DEF ShardAt
  <2> QED  BY <2>2, <2>4
<1>11. E(c)  BY <1>10 DEF c
<1>12. \A i \in 0..n : c[i] = IF i = 0 THEN <<>>
                              ELSE c[i - 1] \o IF i - 1 \in DOMAIN shards THEN shards[i - 1] ELSE <<>>
  BY <1>11
<1>13. \A i \in 1..n : i \in 0..n /\ i # 0  BY <1>3
<1>14. c[0] = <<>> /\ \A i \in 1..n : c[i] = c[i - 1] \o ShardAt(shards, i - 1)
  BY <1>9, <1>12, <1>13 DEF ShardAt
<1>15. \A i \in 0..n : c[i] \in Seq(A)
  <2> DEFINE T == {i \in 0..n : c[i] \in Seq(A)}
  <2>1. 0 \in T  BY <1>7, <1>9, <1>14
  <2>2. ASSUME NEW k \in 0..(n - 1), k \in T  PROVE k + 1 \in T
    <3>1. k + 1 \in 1..n /\ k + 1 \in 0..n /\ (k + 1) - 1 = k  BY <1>3
    <3>2. c[k] \in Seq(A) /\ ShardAt(shards, k) \in Seq(A)  BY <1>4, <2>2
    <3>3. c[k] \o ShardAt(shards, k) \in Seq(A)  BY <3>2
    <3>4. c[k + 1] = c[k] \o ShardAt(shards, k)  BY <1>14, <3>1
    <3> QED  BY <3>1, <3>3, <3>4
  <2> HIDE DEF T
  <2>3. 0..n \subseteq T  BY <1>3, <2>1, <2>2, Upwards
  <2> QED  BY <2>3 DEF T
<1>16. RowsBefore(c, shards, n, A)  BY <1>3, <1>5, <1>14, <1>15 DEF RowsBefore
<1> QED  BY <1>16

\* Where a row comes from, and the row before it.
From(rows, shards, i, d, p) ==
  /\ d \in DOMAIN shards /\ p \in 1..Len(shards[d]) /\ rows[i] = shards[d][p]
  /\ p > 1 => i > 1 /\ rows[i - 1] = shards[d][p - 1]
  /\ p = 1 /\ i > 1 =>
       \E e \in DOMAIN shards :
         /\ e < d /\ shards[e] # <<>> /\ rows[i - 1] = shards[e][Len(shards[e])]
         /\ \A x \in DOMAIN shards : shards[x] # <<>> => x <= e \/ d <= x

Chained(rows, shards, n) ==
  /\ \A i \in 1..Len(rows) : \E d, p : d < n /\ From(rows, shards, i, d, p)
  /\ \A d \in DOMAIN shards : d < n => \A p \in 1..Len(shards[d]) : \E i \in 1..Len(rows) : rows[i] = shards[d][p]
  /\ rows # <<>> =>
       \E e \in DOMAIN shards :
         /\ e < n /\ shards[e] # <<>> /\ rows[Len(rows)] = shards[e][Len(shards[e])]
         /\ \A x \in DOMAIN shards : x < n /\ shards[x] # <<>> => x <= e

LEMMA ChainedNext ==
  ASSUME NEW A, NEW shards, Dated(shards, A), NEW n \in Nat, NEW rows \in Seq(A), Chained(rows, shards, n)
  PROVE  Chained(rows \o ShardAt(shards, n), shards, n + 1)
<1> DEFINE more == ShardAt(shards, n)
           all == rows \o more
           m == Len(rows)
<1>1. \A d \in DOMAIN shards : d \in Nat /\ shards[d] \in Seq(A)  BY DEF Dated
<1>2. more \in Seq(A)  BY <1>1 DEF ShardAt
<1>3. m \in Nat /\ Len(more) \in Nat  BY <1>2
<1>4. Len(all) = m + Len(more) /\ \A i \in 1..(m + Len(more)) : all[i] = IF i <= m THEN rows[i] ELSE more[i - m]
  BY <1>2, ConcatProperties
<1>5. \A i \in 1..m : all[i] = rows[i] /\ i \in 1..(m + Len(more))  BY <1>3, <1>4
<1>6. \A p \in 1..Len(more) : all[m + p] = more[p] /\ m + p \in 1..(m + Len(more)) /\ m + p > m  BY <1>3, <1>4
<1>7. more # <<>> => n \in DOMAIN shards /\ more = shards[n]  BY DEF ShardAt
<1>8. n \in DOMAIN shards => more = shards[n]  BY DEF ShardAt
<1>9. more # <<>> <=> Len(more) # 0  BY <1>2
<1>10. rows # <<>> <=> m # 0  OBVIOUS
<1>11. rows # <<>> =>
         \E e \in DOMAIN shards :
           /\ e < n /\ shards[e] # <<>> /\ rows[m] = shards[e][Len(shards[e])]
           /\ \A x \in DOMAIN shards : x < n /\ shards[x] # <<>> => x <= e
  BY DEF Chained
<1> HIDE DEF more, all, m
<1>12. ASSUME NEW i \in 1..m  PROVE \E d, p : d < n + 1 /\ From(all, shards, i, d, p)
  <2>1. PICK d, p : d < n /\ From(rows, shards, i, d, p)  BY DEF Chained, m
  <2>2. d \in Nat /\ d < n + 1  BY <1>1, <2>1 DEF From
  <2>3. i > 1 => i - 1 \in 1..m  BY <1>3
  <2>4. From(all, shards, i, d, p)  BY <1>5, <2>1, <2>3 DEF From
  <2> QED  BY <2>2, <2>4
<1>13. ASSUME NEW p \in 1..Len(more)  PROVE From(all, shards, m + p, n, p)
  <2>1. n \in DOMAIN shards /\ more = shards[n]  BY <1>3, <1>7, <1>9
  <2>2. all[m + p] = shards[n][p]  BY <1>6, <2>1
  <2>3. p > 1 => m + p > 1 /\ all[(m + p) - 1] = shards[n][p - 1]
    <3>1. p > 1 => p - 1 \in 1..Len(more) /\ m + (p - 1) = (m + p) - 1 /\ m + p > 1  BY <1>3
    <3> QED  BY <1>6, <2>1, <3>1
  <2>4. ASSUME p = 1, m + p > 1
        PROVE \E e \in DOMAIN shards :
                /\ e < n /\ shards[e] # <<>> /\ all[(m + p) - 1] = shards[e][Len(shards[e])]
                /\ \A x \in DOMAIN shards : shards[x] # <<>> => x <= e \/ n <= x
    <3>1. m # 0 /\ (m + p) - 1 = m /\ m \in 1..m  BY <1>3, <2>4
    <3>2. PICK e \in DOMAIN shards :
            /\ e < n /\ shards[e] # <<>> /\ rows[m] = shards[e][Len(shards[e])]
            /\ \A x \in DOMAIN shards : x < n /\ shards[x] # <<>> => x <= e
      BY <1>10, <1>11, <3>1
    <3>3. \A x \in DOMAIN shards : shards[x] # <<>> => x <= e \/ n <= x  BY <1>1, <3>2
    <3>4. all[(m + p) - 1] = rows[m]  BY <1>5, <3>1
    <3> QED  BY <3>2, <3>3, <3>4
  <2> QED  BY <2>1, <2>2, <2>3, <2>4 DEF From
<1>14. ASSUME NEW i \in 1..Len(all)  PROVE \E d, p : d < n + 1 /\ From(all, shards, i, d, p)
  <2>1. CASE i <= m
    <3>1. i \in 1..m  BY <1>3, <1>4, <2>1
    <3> QED  BY <1>12, <3>1
  <2>2. CASE ~ i <= m
    <3>1. i - m \in 1..Len(more) /\ m + (i - m) = i  BY <1>3, <1>4, <2>2
    <3>2. From(all, shards, i, n, i - m)  BY <1>13, <3>1
    <3>3. n < n + 1  OBVIOUS
    <3> QED  BY <3>2, <3>3
  <2> QED  BY <2>1, <2>2
<1>15. ASSUME NEW d \in DOMAIN shards, d < n + 1, NEW p \in 1..Len(shards[d])
       PROVE  \E i \in 1..Len(all) : all[i] = shards[d][p]
  <2>1. CASE d = n
    <3>1. p \in 1..Len(more)  BY <1>8, <2>1
    <3>2. all[m + p] = shards[d][p] /\ m + p \in 1..Len(all)  BY <1>4, <1>6, <1>8, <2>1, <3>1
    <3> QED  BY <3>2
  <2>2. CASE d # n
    <3>1. d < n  BY <1>1, <1>15, <2>2
    <3>2. PICK i \in 1..m : rows[i] = shards[d][p]  BY <3>1 DEF Chained, m
    <3> QED  BY <1>4, <1>5, <3>2
  <2> QED  BY <2>1, <2>2
<1>16. ASSUME all # <<>>
       PROVE \E e \in DOMAIN shards :
               /\ e < n + 1 /\ shards[e] # <<>> /\ all[Len(all)] = shards[e][Len(shards[e])]
               /\ \A x \in DOMAIN shards : x < n + 1 /\ shards[x] # <<>> => x <= e
  <2>1. CASE more # <<>>
    <3>1. n \in DOMAIN shards /\ more = shards[n] /\ Len(more) \in 1..Len(more)  BY <1>3, <1>7, <1>9, <2>1
    <3>2. all[Len(all)] = shards[n][Len(shards[n])]  BY <1>4, <1>6, <3>1
    <3>3. n < n + 1 /\ \A x \in DOMAIN shards : x < n + 1 => x <= n  BY <1>1
    <3> QED  BY <2>1, <3>1, <3>2, <3>3
  <2>2. CASE more = <<>>
    <3>1. Len(more) = 0 /\ Len(all) = m  BY <1>3, <1>4, <1>9, <2>2
    <3>2. m # 0
      <4>1. all \in Seq(A)  BY <1>2 DEF all
      <4>2. Len(all) # 0  BY <1>16, <4>1
      <4> QED  BY <3>1, <4>2
    <3>3. PICK e \in DOMAIN shards :
            /\ e < n /\ shards[e] # <<>> /\ rows[m] = shards[e][Len(shards[e])]
            /\ \A x \in DOMAIN shards : x < n /\ shards[x] # <<>> => x <= e
      BY <1>10, <1>11, <3>2
    <3>4. \A x \in DOMAIN shards : x < n + 1 /\ shards[x] # <<>> => x < n
      <4>1. n \in DOMAIN shards => shards[n] = <<>>  BY <1>8, <2>2
      <4> QED  BY <1>1, <4>1
    <3>5. e < n + 1 /\ all[Len(all)] = rows[m]  BY <1>1, <1>3, <1>5, <3>1, <3>2, <3>3
    <3> QED  BY <3>3, <3>4, <3>5
  <2> QED  BY <2>1, <2>2
<1>17. Chained(all, shards, n + 1)  BY <1>14, <1>15, <1>16 DEF Chained
<1> QED  BY <1>17 DEF all, more

LEMMA RowsAre ==
  ASSUME NEW A, NEW shards, Dated(shards, A)
  PROVE  /\ RowsOf(shards) \in Seq(A)
         /\ \A i \in 1..Len(RowsOf(shards)) : \E d, p : From(RowsOf(shards), shards, i, d, p)
         /\ \A d \in DOMAIN shards : \A p \in 1..Len(shards[d]) :
              \E i \in 1..Len(RowsOf(shards)) : RowsOf(shards)[i] = shards[d][p]
<1>1. PICK g, n : RowsBefore(g, shards, n, A)  BY RowsRun
<1> DEFINE T == {d \in 0..n : Chained(g[d], shards, d)}
<1>2. n \in Nat /\ 0 \in 0..n /\ n \in 0..n /\ \A d \in DOMAIN shards : d \in Nat /\ d < n
  BY <1>1 DEF RowsBefore
<1>3. 0 \in T
  <2>1. g[0] = <<>> /\ Len(<<>>) = 0  BY <1>1 DEF RowsBefore
  <2>2. Chained(<<>>, shards, 0)  BY <1>2 DEF Chained
  <2> QED  BY <1>2, <2>1, <2>2
<1>4. ASSUME NEW d \in 0..(n - 1), d \in T  PROVE d + 1 \in T
  <2>1. d \in Nat /\ d + 1 \in 1..n /\ d + 1 \in 0..n /\ d \in 0..n /\ (d + 1) - 1 = d  BY <1>2
  <2>2. g[d] \in Seq(A) /\ g[d + 1] = g[d] \o ShardAt(shards, d)  BY <1>1, <2>1 DEF RowsBefore
  <2>3. Chained(g[d] \o ShardAt(shards, d), shards, d + 1)  BY <1>4, <2>1, <2>2, ChainedNext
  <2> QED  BY <2>1, <2>2, <2>3
<1> HIDE DEF T
<1>5. 0..n \subseteq T  BY <1>2, <1>3, <1>4, Upwards
<1>6. Chained(RowsOf(shards), shards, n) /\ RowsOf(shards) \in Seq(A)
  BY <1>1, <1>2, <1>5 DEF T, RowsBefore
<1> QED  BY <1>2, <1>6 DEF Chained
-----------------------------------------------------------------------------
\* Buckets.

LEMMA ProductMonotone ==
  ASSUME NEW c \in Nat, NEW a \in Int, NEW b \in Int, a <= b
  PROVE  c * a <= c * b
  OBVIOUS

LEMMA Quotient ==
  ASSUME NEW x \in Nat, NEW c \in Nat \ {0}
  PROVE  x \div c \in Nat /\ c * (x \div c) <= x /\ x < c * (x \div c) + c
  OBVIOUS

LEMMA QuotientUnique ==
  ASSUME NEW x \in Nat, NEW c \in Nat \ {0}, NEW k \in Nat, c * k <= x, x < c * k + c
  PROVE  x \div c = k
<1> DEFINE q == x \div c
<1>1. q \in Nat /\ c * q <= x /\ x < c * q + c  BY Quotient
<1> HIDE DEF q
<1>2. c * q \in Nat /\ c * k \in Nat  BY <1>1
<1>3. ASSUME q + 1 <= k PROVE FALSE
  <2>1. c * (q + 1) <= c * k  BY <1>1, <1>3, ProductMonotone
  <2>2. c * (q + 1) = c * q + c  BY <1>1
  <2> QED  BY <1>1, <1>2, <2>1, <2>2
<1>4. ASSUME k + 1 <= q PROVE FALSE
  <2>1. c * (k + 1) <= c * q  BY <1>1, <1>4, ProductMonotone
  <2>2. c * (k + 1) = c * k + c  OBVIOUS
  <2> QED  BY <1>1, <1>2, <2>1, <2>2
<1>5. q = k  BY <1>1, <1>3, <1>4
<1> QED  BY <1>5 DEF q

LEMMA QuotientMonotone ==
  ASSUME NEW c \in Nat \ {0}, NEW x \in Nat, NEW y \in Nat, x <= y
  PROVE  x \div c <= y \div c
<1> DEFINE q == x \div c
           k == y \div c
<1>1. q \in Nat /\ c * q <= x  BY Quotient
<1>2. k \in Nat /\ y < c * k + c  BY Quotient
<1> HIDE DEF q, k
<1>3. ASSUME k + 1 <= q PROVE FALSE
  <2>1. c * (k + 1) <= c * q  BY <1>1, <1>2, <1>3, ProductMonotone
  <2>2. c * (k + 1) = c * k + c /\ c * k \in Nat /\ c * q \in Nat  BY <1>1, <1>2
  <2> QED  BY <1>1, <1>2, <2>1, <2>2
<1>4. q <= k  BY <1>1, <1>2, <1>3
<1> QED  BY <1>4 DEF q, k

\* The place of a time in the grid of bars.
Slot(t) == t \div Bar

LEMMA BarIs == Bar \in Nat \ {0} /\ DayLen \in Nat \ {0}
  BY S10Assumption

LEMMA SlotIs ==
  ASSUME NEW t \in Nat
  PROVE  Slot(t) \in Nat /\ Bucket(t) = Bar * Slot(t) /\ Bar * Slot(t) <= t /\ t < Bar * Slot(t) + Bar
<1>1. Slot(t) \in Nat /\ Bar * Slot(t) <= t /\ t < Bar * Slot(t) + Bar  BY BarIs, Quotient DEF Slot
<1>2. Bucket(t) = Slot(t) * Bar  BY DEF Bucket, Slot
<1>3. \A q \in Nat : q * Bar = Bar * q  BY BarIs
<1> QED  BY <1>1, <1>2, <1>3

LEMMA GridIs ==
  ASSUME NEW q \in Nat
  PROVE  /\ Bar * q \in Nat /\ (Bar * q) % Bar = 0 /\ Slot(Bar * q) = q
         /\ Bar * (q + 1) = Bar * q + Bar /\ q * Bar = Bar * q
<1>1. Bar * q \in Nat /\ Bar * (q + 1) = Bar * q + Bar /\ q * Bar = Bar * q  BY BarIs
<1>2. Slot(Bar * q) = q
  <2>1. Bar * q <= Bar * q /\ Bar * q < Bar * q + Bar  BY <1>1, BarIs
  <2> QED  BY <1>1, <2>1, BarIs, QuotientUnique DEF Slot
<1>3. (Bar * q) % Bar = 0
  <2>1. ASSUME NEW x \in Nat  PROVE x = Bar * (x \div Bar) + (x % Bar)  BY BarIs
  <2>2. Bar * q = Bar * Slot(Bar * q) + ((Bar * q) % Bar)  BY <1>1, <2>1 DEF Slot
  <2>3. (Bar * q) % Bar \in Int  BY <1>1, BarIs
  <2> QED  BY <1>1, <1>2, <2>2, <2>3
<1> QED  BY <1>1, <1>2, <1>3

LEMMA OnGridIs ==
  ASSUME NEW b \in Nat, b % Bar = 0
  PROVE  Slot(b) \in Nat /\ b = Bar * Slot(b)
<1>1. b = Bar * (b \div Bar) + (b % Bar)  BY BarIs
<1>2. Slot(b) \in Nat  BY SlotIs
<1>3. Bar * Slot(b) \in Nat  BY <1>2, GridIs
<1> QED  BY <1>1, <1>2, <1>3 DEF Slot

LEMMA GridOrder ==
  ASSUME NEW p \in Nat, NEW q \in Nat
  PROVE  /\ p < q => Bar * p + Bar <= Bar * q
         /\ p <= q <=> Bar * p <= Bar * q
         /\ p = q <=> Bar * p = Bar * q
<1>1. Bar \in Nat /\ Bar # 0 /\ Bar * p \in Nat /\ Bar * q \in Nat  BY BarIs, GridIs
<1>2. p < q => Bar * p + Bar <= Bar * q
  <2>1. ASSUME p < q  PROVE Bar * (p + 1) <= Bar * q  BY <1>1, <2>1, ProductMonotone
  <2> QED  BY <2>1, GridIs
<1>3. p <= q => Bar * p <= Bar * q  BY <1>1, ProductMonotone
<1>4. q < p => Bar * q + Bar <= Bar * p
  <2>1. ASSUME q < p  PROVE Bar * (q + 1) <= Bar * p  BY <1>1, <2>1, ProductMonotone
  <2> QED  BY <2>1, GridIs
<1> QED  BY <1>1, <1>2, <1>3, <1>4

LEMMA GridGap ==
  ASSUME NEW p \in Nat, NEW q \in Nat, p <= q
  PROVE  (Bar * q - Bar * p) \div Bar = q - p
<1>1. Bar * p \in Nat /\ Bar * q \in Nat /\ q - p \in Nat  BY GridIs
<1>2. Bar * (q - p) = Bar * q - Bar * p  BY BarIs
<1>3. Bar * (q - p) \in Nat /\ Slot(Bar * (q - p)) = q - p  BY <1>1, GridIs
<1> QED  BY <1>2, <1>3 DEF Slot

LEMMA DayIs ==
  ASSUME NEW t \in Nat, NEW u \in Nat
  PROVE  Day(t) \in Nat /\ (t <= u => Day(t) <= Day(u))
<1>1. Day(t) \in Nat  BY BarIs, Quotient DEF Day
<1>2. t <= u => Day(t) <= Day(u)  BY BarIs, QuotientMonotone DEF Day
<1> QED  BY <1>1, <1>2

-----------------------------------------------------------------------------
\* One row more.

Price   == Nat \ {0}
BarRow  == [kind : {"kline"}, t0 : Nat, t1 : Int, o : Price, h : Price, l : Price, c : Price, n : Nat]
BarState == {st \in [cb : Nat \cup {None}, mids : Seq(Price), bars : Seq(BarRow)] :
               /\ st.cb = None <=> st.mids = <<>>
               /\ st.cb # None => \E q \in Nat : st.cb = Bar * q}

LEMMA SeqExtremes ==
  ASSUME NEW s \in Seq(Price), s # <<>>
  PROVE  /\ Max(ToSet(s)) \in ToSet(s) /\ \A v \in ToSet(s) : v <= Max(ToSet(s))
         /\ Min(ToSet(s)) \in ToSet(s) /\ \A v \in ToSet(s) : Min(ToSet(s)) <= v
         /\ ToSet(s) \subseteq Price
<1>1. Len(s) \in Nat /\ Len(s) # 0 /\ DOMAIN s = 1..Len(s) /\ \A i \in 1..Len(s) : s[i] \in Nat \ {0}
  BY LenProperties DEF Price
<1> DEFINE T == {n \in 0..Len(s) : \E b \in Nat : \A i \in 1..n : s[i] <= b}
<1>2. 0 \in T  BY <1>1
<1>3. ASSUME NEW n \in 0..(Len(s) - 1), n \in T  PROVE n + 1 \in T
  <2>1. PICK b \in Nat : \A i \in 1..n : s[i] <= b  BY <1>3
  <2>2. n + 1 \in 1..Len(s) /\ n + 1 \in 0..Len(s) /\ \A i \in 1..(n + 1) : i \in 1..n \/ i = n + 1  BY <1>1
  <2>3. s[n + 1] \in Nat  BY <1>1, <2>2
  <2>4. b + s[n + 1] \in Nat /\ s[n + 1] <= b + s[n + 1]  BY <2>3
  <2>5. \A i \in 1..n : i \in 1..Len(s) /\ s[i] <= b + s[n + 1]
    <3> TAKE i \in 1..n
    <3>1. i \in 1..Len(s) /\ s[i] <= b  BY <1>1, <2>1
    <3> QED  BY <1>1, <2>3, <3>1
  <2>6. \A i \in 1..(n + 1) : s[i] <= b + s[n + 1]  BY <2>2, <2>4, <2>5
  <2> QED  BY <2>2, <2>4, <2>6
<1> HIDE DEF T
<1>4. 0..Len(s) \subseteq T  BY <1>1, <1>2, <1>3, Upwards
<1>5. PICK b \in Nat : \A i \in 1..Len(s) : s[i] <= b
  <2>1. Len(s) \in T  BY <1>1, <1>4
  <2> QED  BY <2>1 DEF T
<1>6. ToSet(s) \subseteq Price /\ s[1] \in ToSet(s) /\ \A v \in ToSet(s) : v <= b  BY <1>1, <1>5 DEF ToSet, Price
<1>7. ToSet(s) \subseteq Nat /\ ToSet(s) \subseteq Int /\ ToSet(s) # {} /\ b \in Int  BY <1>6 DEF Price
<1>8. Max(ToSet(s)) \in ToSet(s) /\ \A v \in ToSet(s) : v <= Max(ToSet(s))  BY <1>6, <1>7, MaxBounded
<1>9. Min(ToSet(s)) \in ToSet(s) /\ \A v \in ToSet(s) : Min(ToSet(s)) <= v  BY <1>7, MinBounded
<1> QED  BY <1>6, <1>8, <1>9

LEMMA FlushIs ==
  ASSUME NEW t \in Nat, NEW s \in Seq(Price), s # <<>>
  PROVE  LET b == Flush(t, s) IN
         /\ b \in BarRow /\ b.t0 = t /\ b.t1 = t + Bar - 1 /\ b.c = s[Len(s)] /\ b.n = Len(s)
         /\ b.o \in ToSet(s) /\ b.c \in ToSet(s)
         /\ b.h \in ToSet(s) /\ \A v \in ToSet(s) : v <= b.h
         /\ b.l \in ToSet(s) /\ \A v \in ToSet(s) : b.l <= v
<1>1. Len(s) \in Nat /\ Len(s) # 0 /\ DOMAIN s = 1..Len(s)  BY LenProperties
<1>2. s[1] \in ToSet(s) /\ s[Len(s)] \in ToSet(s)  BY <1>1 DEF ToSet
<1> DEFINE hi == Max(ToSet(s))
           lo == Min(ToSet(s))
<1>3. /\ hi \in ToSet(s) /\ \A v \in ToSet(s) : v <= hi
      /\ lo \in ToSet(s) /\ \A v \in ToSet(s) : lo <= v
      /\ ToSet(s) \subseteq Price
  BY SeqExtremes
<1>4. t + Bar - 1 \in Int  BY BarIs
<1>5. Flush(t, s) = [kind |-> "kline", t0 |-> t, t1 |-> t + Bar - 1, o |-> s[1], h |-> hi, l |-> lo,
                     c |-> s[Len(s)], n |-> Len(s)]
  BY DEF Flush, KlineBar
<1> HIDE DEF hi, lo
<1> QED  BY <1>1, <1>2, <1>3, <1>4, <1>5 DEF BarRow

LEMMA FillGapIs ==
  ASSUME NEW p \in Nat, NEW q \in Nat, p < q, NEW close \in Price
  PROVE  LET gap == FillGap(Bar * p, Bar * q, close) IN
         /\ gap \in Seq(BarRow) /\ Len(gap) = q - p - 1
         /\ \A k \in 1..(q - p - 1) : gap[k] = KlineBar(Bar * (p + k), close, close, close, close, 0)
<1>1. (Bar * q - Bar * p) \div Bar = q - p /\ q - p - 1 \in Nat  BY GridGap
<1>2. close > 0 /\ ~ close <= 0  BY DEF Price
<1> DEFINE gap == [k \in 1..(q - p - 1) |-> KlineBar(Bar * (p + k), close, close, close, close, 0)]
<1>3. \A k \in 1..(q - p - 1) : Bar * p + k * Bar = Bar * (p + k) /\ Bar * (p + k) \in Nat
  <2> TAKE k \in 1..(q - p - 1)
  <2>1. k \in Nat /\ p + k \in Nat  BY <1>1
  <2> QED  BY <2>1, BarIs
<1>4. FillGap(Bar * p, Bar * q, close) = gap
  <2>1. FillGap(Bar * p, Bar * q, close)
          = [k \in 1..(q - p - 1) |-> KlineBar(Bar * p + k * Bar, close, close, close, close, 0)]
    BY <1>1, <1>2 DEF FillGap
  <2> QED  BY <1>3, <2>1
<1>5. \A k \in 1..(q - p - 1) : KlineBar(Bar * (p + k), close, close, close, close, 0) \in BarRow
  <2> TAKE k \in 1..(q - p - 1)
  <2>1. Bar * (p + k) \in Nat /\ Bar * (p + k) + Bar - 1 \in Int  BY <1>3, BarIs
  <2> QED  BY <2>1 DEF KlineBar, BarRow
<1>6. gap \in Seq(BarRow) /\ Len(gap) = q - p - 1  BY <1>1, <1>5
<1> QED  BY <1>4, <1>6

LEMMA OpenExcept ==
  ASSUME NEW st \in BarState, NEW x, NEW y
  PROVE  [st EXCEPT !.cb = x, !.mids = Append(@, y)] = [cb |-> x, mids |-> Append(st.mids, y), bars |-> st.bars]
<1>1. st \in [cb : Nat \cup {None}, mids : Seq(Price), bars : Seq(BarRow)]  BY DEF BarState
<1>2. PICK a, b, c : st = [cb |-> a, mids |-> b, bars |-> c]  BY <1>1
<1>3. st.cb = a /\ st.mids = b /\ st.bars = c  BY <1>2
<1>4. [st EXCEPT !.cb = x, !.mids = Append(@, y)] = [[st EXCEPT !.cb = x] EXCEPT !.mids = Append(b, y)]
  BY <1>2, <1>3
<1>5. [st EXCEPT !.cb = x] = [cb |-> x, mids |-> b, bars |-> c]  BY <1>2
<1>6. [[cb |-> x, mids |-> b, bars |-> c] EXCEPT !.mids = Append(b, y)] = [cb |-> x, mids |-> Append(b, y), bars |-> c]
  OBVIOUS
<1> QED  BY <1>3, <1>4, <1>5, <1>6

\* What a row does to the fold.
LEMMA IngestIs ==
  ASSUME NEW st \in BarState, NEW r \in IndexRow
  PROVE  /\ ~Usable(r) => Ingest(st, r) = st
         /\ Usable(r) => Mid2(r) \in Price
         /\ Usable(r) /\ st.cb = None =>
              Ingest(st, r) = [cb |-> Bar * Slot(r.t), mids |-> <<Mid2(r)>>, bars |-> st.bars]
         /\ \A p \in Nat : Usable(r) /\ st.cb = Bar * p =>
              /\ Slot(r.t) < p => Ingest(st, r) = st
              /\ Slot(r.t) = p =>
                   Ingest(st, r) = [cb |-> Bar * p, mids |-> Append(st.mids, Mid2(r)), bars |-> st.bars]
              /\ p < Slot(r.t) =>
                   LET done == Flush(Bar * p, st.mids) IN
                   Ingest(st, r) = [cb |-> Bar * Slot(r.t), mids |-> <<Mid2(r)>>,
                                    bars |-> Append(st.bars, done) \o FillGap(Bar * p, Bar * Slot(r.t), done.c)]
<1>1. r.t \in Nat /\ r.bid \in Int /\ r.ask \in Int  BY DEF IndexRow
<1>2. Slot(r.t) \in Nat /\ Bucket(r.t) = Bar * Slot(r.t) /\ Bar * Slot(r.t) \in Nat  BY <1>1, SlotIs, GridIs
<1>3. st \in [cb : Nat \cup {None}, mids : Seq(Price), bars : Seq(BarRow)]  BY DEF BarState
<1>4. st = [cb |-> st.cb, mids |-> st.mids, bars |-> st.bars]  BY <1>3
<1>5. None \notin Nat  BY S10Assumption
<1>6. ~Usable(r) => Ingest(st, r) = st  BY DEF Ingest
<1>7. Usable(r) => Mid2(r) \in Price  BY <1>1 DEF Usable, Mid2, Price
<1>8. Usable(r) /\ st.cb = None =>
        Ingest(st, r) = [cb |-> Bar * Slot(r.t), mids |-> <<Mid2(r)>>, bars |-> st.bars]
  <2> SUFFICES ASSUME Usable(r), st.cb = None
               PROVE Ingest(st, r) = [cb |-> Bar * Slot(r.t), mids |-> <<Mid2(r)>>, bars |-> st.bars]
    OBVIOUS
  <2>1. st.mids = <<>>  BY DEF BarState
  <2>2. Append(<<>>, Mid2(r)) = <<Mid2(r)>>  OBVIOUS
  <2>3. Ingest(st, r) = Open(st, r)  BY DEF Ingest
  <2>4. Open(st, r) = [cb |-> Bucket(r.t), mids |-> Append(st.mids, Mid2(r)), bars |-> st.bars]  BY OpenExcept DEF Open
  <2> QED  BY <1>2, <2>1, <2>2, <2>3, <2>4
<1>9. ASSUME NEW p \in Nat, Usable(r), st.cb = Bar * p
      PROVE  /\ Slot(r.t) < p => Ingest(st, r) = st
             /\ Slot(r.t) = p =>
                  Ingest(st, r) = [cb |-> Bar * p, mids |-> Append(st.mids, Mid2(r)), bars |-> st.bars]
             /\ p < Slot(r.t) =>
                  LET done == Flush(Bar * p, st.mids) IN
                  Ingest(st, r) = [cb |-> Bar * Slot(r.t), mids |-> <<Mid2(r)>>,
                                   bars |-> Append(st.bars, done) \o FillGap(Bar * p, Bar * Slot(r.t), done.c)]
  <2>1. Bar * p \in Nat /\ Bar * p # None  BY <1>5, GridIs
  <2>2. ASSUME Slot(r.t) < p  PROVE Ingest(st, r) = st
    <3>1. Bucket(r.t) < Bar * p  BY <1>2, <2>1, <2>2, GridOrder, BarIs
    <3> QED  BY <1>2, <1>9, <2>1, <3>1 DEF Ingest
  <2>3. ASSUME Slot(r.t) = p
        PROVE Ingest(st, r) = [cb |-> Bar * p, mids |-> Append(st.mids, Mid2(r)), bars |-> st.bars]
    <3>1. Ingest(st, r) = Open(st, r)  BY <1>2, <1>9, <2>3 DEF Ingest
    <3> QED  BY <1>2, <1>3, <2>3, <3>1 DEF Open
  <2>4. ASSUME p < Slot(r.t)
        PROVE LET done == Flush(Bar * p, st.mids) IN
              Ingest(st, r) = [cb |-> Bar * Slot(r.t), mids |-> <<Mid2(r)>>,
                               bars |-> Append(st.bars, done) \o FillGap(Bar * p, Bar * Slot(r.t), done.c)]
    <3> DEFINE done == Flush(Bar * p, st.mids)
               bs == Append(st.bars, done) \o FillGap(Bar * p, Bar * Slot(r.t), done.c)
    <3>1. Bar * p < Bucket(r.t)  BY <1>2, <2>1, <2>4, GridOrder, BarIs
    <3>2. Ingest(st, r) = Open([st EXCEPT !.mids = <<>>, !.bars = bs], r)
      <4>1. st.cb # None /\ st.cb # Bucket(r.t) /\ ~ Bucket(r.t) < st.cb  BY <1>2, <1>9, <2>1, <3>1
      <4> QED  BY <1>2, <1>9, <4>1 DEF Ingest
    <3> HIDE DEF done, bs
    <3>3. [st EXCEPT !.mids = <<>>, !.bars = bs] = [cb |-> st.cb, mids |-> <<>>, bars |-> bs]
      <4>1. PICK a, b, c : st = [cb |-> a, mids |-> b, bars |-> c]  BY <1>3
      <4>2. [st EXCEPT !.mids = <<>>, !.bars = bs] = [[st EXCEPT !.mids = <<>>] EXCEPT !.bars = bs]  BY <4>1
      <4>3. [st EXCEPT !.mids = <<>>] = [cb |-> a, mids |-> <<>>, bars |-> c]  BY <4>1
      <4>4. [[cb |-> a, mids |-> <<>>, bars |-> c] EXCEPT !.bars = bs] = [cb |-> a, mids |-> <<>>, bars |-> bs]
        OBVIOUS
      <4> QED  BY <4>1, <4>2, <4>3, <4>4
    <3>4. Append(<<>>, Mid2(r)) = <<Mid2(r)>>  OBVIOUS
    <3>5. Ingest(st, r) = [cb |-> Bucket(r.t), mids |-> <<Mid2(r)>>, bars |-> bs]
      BY <3>2, <3>3, <3>4 DEF Open
    <3> QED  BY <1>2, <3>5 DEF bs, done
  <2> QED  BY <2>2, <2>3, <2>4
<1> QED  BY <1>6, <1>7, <1>8, <1>9
-----------------------------------------------------------------------------
\* The grid.

Prices(rows) == [i \in 1..Len(rows) |-> Mid2(rows[i])]
InSlot(rows, x) == {i \in OnTime(rows) : Slot(rows[i].t) = x}
ToSlot(rows, x) == {i \in OnTime(rows) : Slot(rows[i].t) <= x}

\* b is the bar of a slot: so many rows, its closing price that of the last row up to it, its high the
\* highest of the slot's.
IsBar(b, rows, x) ==
  /\ b \in BarRow /\ b.t0 = Bar * x /\ b.t1 = Bar * x + Bar - 1
  /\ b.l <= b.o /\ b.o <= b.h /\ b.l <= b.c /\ b.c <= b.h
  /\ b.n = Cardinality(InSlot(rows, x))
  /\ \E last \in ToSlot(rows, x) : (\A i \in ToSlot(rows, x) : i <= last) /\ b.c = Mid2(rows[last])
  /\ \A i \in InSlot(rows, x) : Mid2(rows[i]) <= b.h
  /\ IF InSlot(rows, x) = {} THEN b.h = b.c ELSE \E i \in InSlot(rows, x) : b.h = Mid2(rows[i])

\* After n rows the bars are those of the slots from f to the one before q, and the prices of q are kept.
GridAt(st, rows, n, f, q, g) ==
  /\ f \in Nat /\ q \in Nat /\ f <= q /\ st.cb = Bar * q /\ Len(st.bars) = q - f
  /\ \A i \in 1..n : Usable(rows[i]) => Slot(rows[i].t) <= q
  /\ \A i \in OnTime(rows) : f <= Slot(rows[i].t)
  /\ \E i \in OnTime(rows) : Slot(rows[i].t) = f
  /\ Picks(g, st.mids, Prices(rows), InSlot(rows, q), n)
  /\ \A k \in 1..(q - f) : IsBar(st.bars[k], rows, f + k - 1)

GridInv(st, rows, n) ==
  /\ st \in BarState
  /\ st.cb = None => st.bars = <<>> /\ \A i \in 1..n : ~Usable(rows[i])
  /\ st.cb # None => \E f, q, g : GridAt(st, rows, n, f, q, g)

LEMMA RowFields ==
  ASSUME NEW rows \in Seq(IndexRow), NEW i \in 1..Len(rows)
  PROVE  /\ rows[i] \in IndexRow /\ rows[i].t \in Nat /\ Mid2(rows[i]) \in Int /\ Slot(rows[i].t) \in Nat
         /\ Bucket(rows[i].t) = Bar * Slot(rows[i].t)
         /\ Usable(rows[i]) => Mid2(rows[i]) \in Price
<1>1. rows[i] \in IndexRow  OBVIOUS
<1>2. rows[i].t \in Nat /\ rows[i].bid \in Int /\ rows[i].ask \in Int  BY <1>1 DEF IndexRow
<1>3. Mid2(rows[i]) \in Int  BY <1>2 DEF Mid2
<1>4. Usable(rows[i]) => Mid2(rows[i]) \in Price  BY <1>3 DEF Usable, Price
<1> QED  BY <1>1, <1>2, <1>3, <1>4, SlotIs

LEMMA OnTimeIs ==
  ASSUME NEW rows \in Seq(IndexRow), NEW i
  PROVE  i \in OnTime(rows) <=>
           /\ i \in 1..Len(rows) /\ Usable(rows[i])
           /\ \A j \in 1..(i - 1) : Usable(rows[j]) => Slot(rows[j].t) <= Slot(rows[i].t)
<1>1. DOMAIN rows = 1..Len(rows) /\ Len(rows) \in Nat  OBVIOUS
<1>2. ASSUME i \in 1..Len(rows)
      PROVE \A j \in 1..(i - 1) : Bucket(rows[j].t) <= Bucket(rows[i].t) <=> Slot(rows[j].t) <= Slot(rows[i].t)
  <2> TAKE j \in 1..(i - 1)
  <2>1. j \in 1..Len(rows)  BY <1>1, <1>2
  <2>2. Slot(rows[j].t) \in Nat /\ Bucket(rows[j].t) = Bar * Slot(rows[j].t)  BY <2>1, RowFields
  <2>3. Slot(rows[i].t) \in Nat /\ Bucket(rows[i].t) = Bar * Slot(rows[i].t)  BY <1>2, RowFields
  <2> QED  BY <2>2, <2>3, GridOrder
<1> QED  BY <1>1, <1>2 DEF OnTime

\* The rows that are on time come in the order of their slots.
LEMMA OnTimeOrder ==
  ASSUME NEW rows \in Seq(IndexRow), NEW i \in OnTime(rows), NEW j \in OnTime(rows), i <= j
  PROVE  Slot(rows[i].t) <= Slot(rows[j].t)
<1>1. i \in 1..Len(rows) /\ j \in 1..Len(rows) /\ Usable(rows[i])  BY OnTimeIs
<1>2. Slot(rows[i].t) \in Nat  BY <1>1, RowFields
<1>3. CASE i = j  BY <1>2, <1>3
<1>4. CASE i # j
  <2>1. i \in 1..(j - 1)  BY <1>1, <1>4
  <2> QED  BY <1>1, <2>1, OnTimeIs
<1> QED  BY <1>3, <1>4

LEMMA PricesAre ==
  ASSUME NEW rows \in Seq(IndexRow)
  PROVE  /\ Prices(rows) \in Seq(Int) /\ Len(Prices(rows)) = Len(rows)
         /\ \A i \in 1..Len(rows) : Prices(rows)[i] = Mid2(rows[i])
<1>1. Len(rows) \in Nat /\ \A i \in 1..Len(rows) : Mid2(rows[i]) \in Int  BY RowFields
<1> QED  BY <1>1 DEF Prices

LEMMA PricesInt ==
  ASSUME NEW s \in Seq(Price)
  PROVE  s \in Seq(Int)
<1>1. Len(s) \in Nat /\ s = [i \in 1..Len(s) |-> s[i]] /\ \A i \in 1..Len(s) : s[i] \in Int  BY DEF Price
<1> QED  BY <1>1

LEMMA NoBarIs == NoBar \in BarState /\ NoBar.cb = None /\ NoBar.mids = <<>> /\ NoBar.bars = <<>>
<1>1. <<>> \in Seq(Price) /\ <<>> \in Seq(BarRow)  OBVIOUS
<1> QED  BY <1>1 DEF NoBar, BarState

LEMMA IngestType ==
  ASSUME NEW st \in BarState, NEW r \in IndexRow
  PROVE  Ingest(st, r) \in BarState
<1>1. r.t \in Nat /\ Slot(r.t) \in Nat /\ Bar * Slot(r.t) \in Nat  BY SlotIs, GridIs DEF IndexRow
<1>2. st.mids \in Seq(Price) /\ st.bars \in Seq(BarRow) /\ (st.cb # None => st.mids # <<>>)
      /\ st.cb \in Nat \cup {None} /\ (st.cb # None => \E q \in Nat : st.cb = Bar * q)
  BY DEF BarState
<1>3. None \notin Nat  BY S10Assumption
<1>4. ASSUME NEW x \in Nat, NEW m \in Seq(Price), m # <<>>, NEW b \in Seq(BarRow)
      PROVE [cb |-> Bar * x, mids |-> m, bars |-> b] \in BarState
  <2>1. Bar * x \in Nat /\ Bar * x # None  BY <1>3, GridIs
  <2> QED  BY <1>4, <2>1 DEF BarState
<1>5. CASE ~Usable(r)  BY <1>5, IngestIs
<1>6. CASE Usable(r) /\ st.cb = None
  <2>1. Mid2(r) \in Price  BY <1>6, IngestIs
  <2>2. <<Mid2(r)>> \in Seq(Price) /\ <<Mid2(r)>> # <<>>  BY <2>1
  <2>3. Ingest(st, r) = [cb |-> Bar * Slot(r.t), mids |-> <<Mid2(r)>>, bars |-> st.bars]  BY <1>6, IngestIs
  <2> QED  BY <1>1, <1>2, <1>4, <2>2, <2>3
<1>7. CASE Usable(r) /\ st.cb # None
  <2>1. Mid2(r) \in Price  BY <1>7, IngestIs
  <2>2. <<Mid2(r)>> \in Seq(Price) /\ <<Mid2(r)>> # <<>>  BY <2>1
  <2>3. PICK p \in Nat : st.cb = Bar * p  BY <1>2, <1>7
  <2>4. CASE Slot(r.t) < p  BY <1>7, <2>3, <2>4, IngestIs
  <2>5. CASE Slot(r.t) = p
    <3>1. Ingest(st, r) = [cb |-> Bar * p, mids |-> Append(st.mids, Mid2(r)), bars |-> st.bars]
      BY <1>7, <2>3, <2>5, IngestIs
    <3>2. Append(st.mids, Mid2(r)) \in Seq(Price) /\ Append(st.mids, Mid2(r)) # <<>>  BY <1>2, <2>1
    <3> QED  BY <1>2, <1>4, <3>1, <3>2
  <2>6. CASE p < Slot(r.t)
    <3> DEFINE done == Flush(Bar * p, st.mids)
               gap == FillGap(Bar * p, Bar * Slot(r.t), done.c)
    <3>1. Ingest(st, r) = [cb |-> Bar * Slot(r.t), mids |-> <<Mid2(r)>>, bars |-> Append(st.bars, done) \o gap]
      BY <1>7, <2>3, <2>6, IngestIs
    <3>2. done \in BarRow /\ done.c \in Price
      <4>1. Bar * p \in Nat  BY GridIs
      <4>2. done \in BarRow  BY <1>2, <1>7, <4>1, FlushIs
      <4> QED  BY <4>2 DEF BarRow
    <3>3. gap \in Seq(BarRow)  BY <1>1, <2>6, <3>2, FillGapIs
    <3> HIDE DEF done, gap
    <3>4. Append(st.bars, done) \in Seq(BarRow)  BY <1>2, <3>2
    <3>5. Append(st.bars, done) \o gap \in Seq(BarRow)  BY <3>3, <3>4
    <3> QED  BY <1>1, <1>4, <2>2, <3>1, <3>5
  <2> QED  BY <1>1, <2>4, <2>5, <2>6
<1> QED  BY <1>5, <1>6, <1>7
-----------------------------------------------------------------------------
\* The fold keeps the grid.

LEMMA PicksNone ==
  ASSUME NEW s, NEW I, NEW n, I \cap (1..n) = {}
  PROVE  Picks([k \in {} |-> 0], <<>>, s, I, n)
  BY DEF Picks

LEMMA FlushedBar ==
  ASSUME NEW rows \in Seq(IndexRow), NEW q \in Nat, NEW m \in Seq(Price), m # <<>>, NEW n \in 0..Len(rows), NEW g,
         Picks(g, m, Prices(rows), InSlot(rows, q), n), InSlot(rows, q) \subseteq 1..n
  PROVE  IsBar(Flush(Bar * q, m), rows, q)
<1> DEFINE I == InSlot(rows, q)
           z == Len(m)
           b == Flush(Bar * q, m)
<1>1. z \in Nat /\ z # 0 /\ z \in 1..z /\ DOMAIN m = 1..z /\ Len(rows) \in Nat  BY LenProperties
<1>2. I \cap (1..n) = I  OBVIOUS
<1>3. /\ g \in [1..z -> I] /\ \A j, k \in 1..z : j < k => g[j] < g[k]
      /\ \A i \in I : \E k \in 1..z : g[k] = i
      /\ \A k \in 1..z : m[k] = Prices(rows)[g[k]]
  BY <1>2 DEF Picks
<1>4. \A i \in I : i \in 1..n /\ i \in 1..Len(rows) /\ i \in OnTime(rows) /\ Slot(rows[i].t) = q
  <2>1. 1..n \subseteq 1..Len(rows)  BY <1>1
  <2> QED  BY <2>1 DEF InSlot
<1>5. Bar * q \in Nat  BY GridIs
<1> HIDE DEF I
<1>6. /\ b \in BarRow /\ b.t0 = Bar * q /\ b.t1 = Bar * q + Bar - 1 /\ b.c = m[z] /\ b.n = z
      /\ b.o \in ToSet(m) /\ b.c \in ToSet(m)
      /\ b.h \in ToSet(m) /\ \A v \in ToSet(m) : v <= b.h
      /\ b.l \in ToSet(m) /\ \A v \in ToSet(m) : b.l <= v
  BY <1>5, FlushIs
<1> HIDE DEF b, z
<1>7. \A k \in 1..z : g[k] \in I /\ m[k] = Mid2(rows[g[k]])
  <2> TAKE k \in 1..z
  <2>1. g[k] \in I  BY <1>3
  <2>2. g[k] \in 1..Len(rows)  BY <1>4, <2>1
  <2> QED  BY <1>3, <2>1, <2>2, PricesAre
<1>8. \A v \in ToSet(m) : \E i \in I : v = Mid2(rows[i])
  <2> TAKE v \in ToSet(m)
  <2>1. PICK k \in 1..z : v = m[k]  BY <1>1 DEF ToSet
  <2> QED  BY <1>7, <2>1
<1>9. \A i \in I : Mid2(rows[i]) \in ToSet(m)
  <2> TAKE i \in I
  <2>1. PICK k \in 1..z : g[k] = i  BY <1>3
  <2>2. m[k] = Mid2(rows[i])  BY <1>7, <2>1
  <2> QED  BY <1>1, <2>2 DEF ToSet
<1>10. Cardinality(I) = z
  <2>1. \A j, k \in 1..z : g[j] = g[k] => j = k
    <3> TAKE j, k \in 1..z
    <3> HAVE g[j] = g[k]
    <3>1. g[j] \in 1..n /\ ~ g[j] < g[j]  BY <1>4, <1>7
    <3>2. ~ j < k /\ ~ k < j  BY <1>3, <3>1
    <3> QED  BY <3>2
  <2>2. g \in Bijection(1..z, I)  BY <1>3, <2>1 DEF Bijection, Injection, Surjection, IsInjective
  <2>3. ExistsBijection(1..z, I)  BY <2>2 DEF ExistsBijection
  <2> QED  BY <1>1, <2>3, FS_CountingElements
<1>11. \E last \in ToSlot(rows, q) : (\A i \in ToSlot(rows, q) : i <= last) /\ b.c = Mid2(rows[last])
  <2> DEFINE last == g[z]
  <2>1. last \in I /\ m[z] = Mid2(rows[last])  BY <1>1, <1>7
  <2>2. last \in OnTime(rows) /\ last \in Int /\ Slot(rows[last].t) = q /\ last \in ToSlot(rows, q)
    BY <1>4, <2>1 DEF ToSlot
  <2> HIDE DEF last
  <2>3. ASSUME NEW i \in ToSlot(rows, q), ~ i <= last  PROVE FALSE
    <3>1. i \in OnTime(rows) /\ Slot(rows[i].t) <= q  BY DEF ToSlot
    <3>2. i \in 1..Len(rows) /\ Slot(rows[i].t) \in Nat  BY <3>1, OnTimeIs, RowFields
    <3>3. last <= i  BY <2>2, <2>3, <3>2
    <3>4. Slot(rows[last].t) <= Slot(rows[i].t)  BY <2>2, <3>1, <3>3, OnTimeOrder
    <3>5. i \in I  BY <2>2, <3>1, <3>2, <3>4 DEF I, InSlot
    <3>6. PICK k \in 1..z : g[k] = i  BY <1>3, <3>5
    <3>7. k = z \/ k < z  BY <1>1
    <3>8. g[k] <= last  BY <1>1, <1>3, <1>4, <2>2, <3>5, <3>6, <3>7 DEF last
    <3> QED  BY <2>3, <3>6, <3>8
  <2> QED  BY <1>6, <2>1, <2>2, <2>3
<1>12. \E i \in I : b.h = Mid2(rows[i])  BY <1>6, <1>8
<1>13. I # {} /\ \A i \in I : Mid2(rows[i]) <= b.h  BY <1>6, <1>9, <1>12
<1>14. b.l <= b.o /\ b.o <= b.h /\ b.l <= b.c /\ b.c <= b.h  BY <1>6
<1>15. IsBar(b, rows, q)  BY <1>6, <1>10, <1>11, <1>12, <1>13, <1>14 DEF IsBar, I
<1> QED  BY <1>15 DEF b

LEMMA FlatBar ==
  ASSUME NEW rows \in Seq(IndexRow), NEW x \in Nat, InSlot(rows, x) = {},
         NEW last \in ToSlot(rows, x), \A i \in ToSlot(rows, x) : i <= last, NEW c, c = Mid2(rows[last])
  PROVE  IsBar(KlineBar(Bar * x, c, c, c, c, 0), rows, x)
<1> DEFINE b == KlineBar(Bar * x, c, c, c, c, 0)
<1>1. last \in 1..Len(rows) /\ Usable(rows[last])  BY OnTimeIs DEF ToSlot
<1>2. c \in Price /\ c \in Nat  BY <1>1, RowFields DEF Price
<1>3. Bar * x \in Nat /\ Bar * x + Bar - 1 \in Int  BY GridIs, BarIs
<1>4. b = [kind |-> "kline", t0 |-> Bar * x, t1 |-> Bar * x + Bar - 1, o |-> c, h |-> c, l |-> c, c |-> c, n |-> 0]
  BY DEF KlineBar
<1>5. b \in BarRow  BY <1>2, <1>3, <1>4 DEF BarRow
<1>6. b.t0 = Bar * x /\ b.t1 = Bar * x + Bar - 1 /\ b.o = c /\ b.h = c /\ b.l = c /\ b.c = c /\ b.n = 0  BY <1>4
<1>7. Cardinality(InSlot(rows, x)) = 0  BY FS_EmptySet
<1>8. c <= c  BY <1>2
<1> HIDE DEF b
<1>9. IsBar(b, rows, x)  BY <1>5, <1>6, <1>7, <1>8 DEF IsBar
<1> QED  BY <1>9 DEF b
LEMMA GridFirst ==
  ASSUME NEW rows \in Seq(IndexRow), NEW n \in 0..(Len(rows) - 1), NEW st \in BarState, GridInv(st, rows, n),
         st.cb = None, Usable(rows[n + 1])
  PROVE  GridInv(Ingest(st, rows[n + 1]), rows, n + 1)
<1> DEFINE r == rows[n + 1]
           s == Slot(r.t)
           new == Ingest(st, r)
<1>1. n \in Nat /\ n + 1 \in 1..Len(rows) /\ n + 1 \in Nat  OBVIOUS
<1>2. r \in IndexRow /\ s \in Nat /\ Mid2(r) \in Price  BY <1>1, RowFields
<1>3. st.bars = <<>> /\ \A i \in 1..n : ~Usable(rows[i])  BY DEF GridInv
<1>4. Usable(r)  OBVIOUS
<1>5. r = rows[n + 1] /\ s = Slot(r.t)  OBVIOUS
<1> HIDE DEF r
<1>6. new = [cb |-> Bar * s, mids |-> <<Mid2(r)>>, bars |-> <<>>]
  <2>1. Ingest(st, r) = [cb |-> Bar * Slot(r.t), mids |-> <<Mid2(r)>>, bars |-> st.bars]  BY <1>2, <1>4, IngestIs
  <2> QED  BY <1>3, <2>1
<1>7. new \in BarState  BY <1>2, IngestType
<1> HIDE DEF new
<1>8. n + 1 \in OnTime(rows)
  <2>1. \A j \in 1..((n + 1) - 1) : j \in 1..n  BY <1>1
  <2> QED  BY <1>1, <1>3, <1>4, <1>5, <2>1, OnTimeIs
<1>9. \A i \in OnTime(rows) : n + 1 <= i
  <2> TAKE i \in OnTime(rows)
  <2>1. i \in 1..Len(rows) /\ Usable(rows[i])  BY OnTimeIs
  <2>2. i \notin 1..n  BY <1>3, <2>1
  <2> QED  BY <1>1, <2>1, <2>2
<1>10. \A i \in OnTime(rows) : s <= Slot(rows[i].t)  BY <1>5, <1>8, <1>9, OnTimeOrder
<1>11. \E g : Picks(g, <<Mid2(r)>>, Prices(rows), InSlot(rows, s), n + 1)
  <2>1. InSlot(rows, s) \cap (1..n) = {}
    <3>1. \A i \in InSlot(rows, s) : n + 1 <= i  BY <1>9 DEF InSlot
    <3>2. \A i \in 1..n : ~ n + 1 <= i  BY <1>1
    <3> QED  BY <3>1, <3>2
  <2>2. Picks([k \in {} |-> 0], <<>>, Prices(rows), InSlot(rows, s), n)  BY <2>1, PicksNone
  <2>3. n + 1 \in InSlot(rows, s)  BY <1>5, <1>8 DEF InSlot
  <2>4. Prices(rows)[n + 1] = Mid2(r) /\ Prices(rows) \in Seq(Int) /\ n + 1 \in 1..Len(Prices(rows))
    BY <1>1, <1>5, PricesAre
  <2>5. <<>> \in Seq(Int)  OBVIOUS
  <2>6. \E h : Picks(h, IF n + 1 \in InSlot(rows, s) THEN Append(<<>>, Prices(rows)[n + 1]) ELSE <<>>,
                     Prices(rows), InSlot(rows, s), n + 1)
    BY <1>1, <2>2, <2>4, <2>5, PicksNext
  <2>7. Append(<<>>, Mid2(r)) = <<Mid2(r)>>  OBVIOUS
  <2> QED  BY <2>3, <2>4, <2>6, <2>7
<1>12. PICK g : Picks(g, <<Mid2(r)>>, Prices(rows), InSlot(rows, s), n + 1)  BY <1>11
<1>13. \A i \in 1..(n + 1) : Usable(rows[i]) => Slot(rows[i].t) <= s
  <2> TAKE i \in 1..(n + 1)
  <2>1. i \in 1..n \/ i = n + 1  BY <1>1
  <2>2. s <= s  BY <1>2
  <2> QED  BY <1>3, <1>5, <2>1, <2>2
<1>14. GridAt(new, rows, n + 1, s, s, g)
  <2>1. s \in Nat /\ s <= s /\ s - s = 0 /\ 1..(s - s) = {}  BY <1>2
  <2>2. new.cb = Bar * s /\ new.mids = <<Mid2(r)>> /\ new.bars = <<>> /\ Len(<<>>) = 0  BY <1>6
  <2>3. \E i \in OnTime(rows) : Slot(rows[i].t) = s  BY <1>5, <1>8
  <2> HIDE DEF s
  <2> QED  BY <1>10, <1>12, <1>13, <2>1, <2>2, <2>3 DEF GridAt
<1>15. new.cb # None
  <2>1. Bar * s \in Nat  BY <1>2, GridIs
  <2>2. None \notin Nat  BY S10Assumption
  <2> QED  BY <1>6, <2>1, <2>2
<1>16. GridInv(new, rows, n + 1)  BY <1>7, <1>14, <1>15 DEF GridInv
<1> QED  BY <1>16 DEF new, r

\* A row that does not move the grid on.
LEMMA GridStays ==
  ASSUME NEW rows \in Seq(IndexRow), NEW n \in 0..(Len(rows) - 1), NEW st \in BarState,
         NEW f, NEW q, NEW g, GridAt(st, rows, n, f, q, g),
         ~Usable(rows[n + 1]) \/ Slot(rows[n + 1].t) <= q
  PROVE  \E h : GridAt(Ingest(st, rows[n + 1]), rows, n + 1, f, q, h)
<1> DEFINE r == rows[n + 1]
           I == InSlot(rows, q)
           new == Ingest(st, r)
<1>1. n \in Nat /\ n + 1 \in 1..Len(rows) /\ n + 1 \in Nat  OBVIOUS
<1>2. r \in IndexRow /\ Slot(r.t) \in Nat /\ Mid2(r) \in Int  BY <1>1, RowFields
<1>3. q \in Nat /\ st.cb = Bar * q /\ Picks(g, st.mids, Prices(rows), I, n)  BY DEF GridAt
<1>4. st.mids \in Seq(Price) /\ st.mids # <<>>
  <2>1. Bar * q \in Nat /\ None \notin Nat  BY <1>3, GridIs, S10Assumption
  <2> QED  BY <1>3, <2>1 DEF BarState
<1>5. r = rows[n + 1] /\ (~Usable(r) \/ Slot(r.t) <= q)  OBVIOUS
<1>6. n + 1 \in I <=> Usable(r) /\ Slot(r.t) = q
  <2>1. ASSUME Usable(r), Slot(r.t) = q  PROVE n + 1 \in I
    <3>1. \A j \in 1..((n + 1) - 1) : Usable(rows[j]) => Slot(rows[j].t) <= q
      <4>1. (n + 1) - 1 = n  BY <1>1
      <4> QED  BY <4>1 DEF GridAt
    <3>2. n + 1 \in OnTime(rows)  BY <1>1, <2>1, <3>1, OnTimeIs
    <3> QED  BY <2>1, <3>2 DEF InSlot
  <2>2. n + 1 \in I => Usable(r) /\ Slot(r.t) = q  BY OnTimeIs DEF InSlot
  <2> QED  BY <2>1, <2>2
<1>7. \A i \in 1..(n + 1) : Usable(rows[i]) => Slot(rows[i].t) <= q
  <2> TAKE i \in 1..(n + 1)
  <2>1. i \in 1..n \/ i = n + 1  BY <1>1
  <2>2. \A j \in 1..n : Usable(rows[j]) => Slot(rows[j].t) <= q  BY DEF GridAt
  <2> QED  BY <1>5, <2>1, <2>2
<1>8. new.cb = Bar * q /\ new.bars = st.bars
      /\ new.mids = IF n + 1 \in I THEN Append(st.mids, Mid2(r)) ELSE st.mids
  <2> HIDE DEF r, I
  <2>1. CASE ~Usable(r)
    <3>1. new = st  BY <1>2, <2>1, IngestIs
    <3> QED  BY <1>3, <1>6, <2>1, <3>1
  <2>2. CASE Usable(r) /\ Slot(r.t) = q
    <3>1. new = [cb |-> Bar * q, mids |-> Append(st.mids, Mid2(r)), bars |-> st.bars]
      BY <1>2, <1>3, <2>2, IngestIs
    <3> QED  BY <1>6, <2>2, <3>1
  <2>3. CASE Usable(r) /\ Slot(r.t) # q
    <3>1. Slot(r.t) < q  BY <1>2, <1>3, <1>5, <2>3
    <3>2. new = st  BY <1>2, <1>3, <2>3, <3>1, IngestIs
    <3> QED  BY <1>3, <1>6, <2>3, <3>2
  <2> QED  BY <2>1, <2>2, <2>3
<1>9. PICK h : Picks(h, new.mids, Prices(rows), I, n + 1)
  <2>1. st.mids \in Seq(Int)  BY <1>4, PricesInt
  <2>2. Prices(rows)[n + 1] = Mid2(r) /\ Prices(rows) \in Seq(Int) /\ n + 1 \in 1..Len(Prices(rows))
    BY <1>1, PricesAre
  <2> HIDE DEF new, I, r
  <2>3. \E h : Picks(h, IF n + 1 \in I THEN Append(st.mids, Prices(rows)[n + 1]) ELSE st.mids, Prices(rows), I, n + 1)
    BY <1>1, <1>3, <2>1, <2>2, PicksNext
  <2> QED  BY <1>8, <2>2, <2>3
<1>10. /\ f \in Nat /\ q \in Nat /\ f <= q /\ Len(st.bars) = q - f
       /\ \A i \in OnTime(rows) : f <= Slot(rows[i].t)
       /\ \E i \in OnTime(rows) : Slot(rows[i].t) = f
       /\ \A k \in 1..(q - f) : IsBar(st.bars[k], rows, f + k - 1)
  BY DEF GridAt
<1> HIDE DEF new
<1>11. GridAt(new, rows, n + 1, f, q, h)  BY <1>7, <1>8, <1>9, <1>10 DEF GridAt
<1> QED  BY <1>11 DEF new

\* A row that does: the bar is flushed and the slots up to its own are filled.
LEMMA GridMoves ==
  ASSUME NEW rows \in Seq(IndexRow), NEW n \in 0..(Len(rows) - 1), NEW st \in BarState,
         NEW f, NEW q, NEW g, GridAt(st, rows, n, f, q, g),
         Usable(rows[n + 1]), q < Slot(rows[n + 1].t)
  PROVE  \E h : GridAt(Ingest(st, rows[n + 1]), rows, n + 1, f, Slot(rows[n + 1].t), h)
<1> DEFINE r == rows[n + 1]
           s == Slot(r.t)
           I == InSlot(rows, q)
           new == Ingest(st, r)
           done == Flush(Bar * q, st.mids)
           gap == FillGap(Bar * q, Bar * s, done.c)
           bs == Append(st.bars, done) \o gap
<1>1. n \in Nat /\ n + 1 \in 1..Len(rows) /\ n + 1 \in Nat /\ n \in 0..Len(rows)  OBVIOUS
<1>2. r \in IndexRow /\ s \in Nat /\ Mid2(r) \in Price  BY <1>1, RowFields
<1>3. q \in Nat /\ st.cb = Bar * q /\ Picks(g, st.mids, Prices(rows), I, n)  BY DEF GridAt
<1>4. st.mids \in Seq(Price) /\ st.mids # <<>> /\ st.bars \in Seq(BarRow)
  <2>1. Bar * q \in Nat /\ None \notin Nat  BY <1>3, GridIs, S10Assumption
  <2> QED  BY <1>3, <2>1 DEF BarState
<1>5. r = rows[n + 1] /\ Usable(r) /\ q < s  OBVIOUS
<1>6. /\ f \in Nat /\ f <= q /\ Len(st.bars) = q - f
      /\ \A i \in OnTime(rows) : f <= Slot(rows[i].t)
      /\ \E i \in OnTime(rows) : Slot(rows[i].t) = f
      /\ \A k \in 1..(q - f) : IsBar(st.bars[k], rows, f + k - 1)
      /\ \A j \in 1..n : Usable(rows[j]) => Slot(rows[j].t) <= q
  BY DEF GridAt
<1> HIDE DEF r
<1>7. new = [cb |-> Bar * s, mids |-> <<Mid2(r)>>, bars |-> bs]  BY <1>2, <1>3, <1>5, IngestIs
<1> HIDE DEF new, s
<1>8. s = Slot(rows[n + 1].t)  BY <1>5 DEF s
<1>9. n + 1 \in OnTime(rows)
  <2>1. \A j \in 1..((n + 1) - 1) : Usable(rows[j]) => Slot(rows[j].t) <= s
    <3> TAKE j \in 1..((n + 1) - 1)
    <3>1. j \in 1..n /\ j \in 1..Len(rows)  BY <1>1
    <3>2. Slot(rows[j].t) \in Nat  BY <3>1, RowFields
    <3>3. Usable(rows[j]) => Slot(rows[j].t) <= q  BY <1>6, <3>1
    <3> QED  BY <1>2, <1>3, <1>5, <3>2, <3>3
  <2> QED  BY <1>1, <1>5, <1>8, <2>1, OnTimeIs
\* Whatever is on time is in a slot up to q, or after n and in one from s on.
<1>10. \A i \in OnTime(rows) : i \in 1..Len(rows) /\ (i \in 1..n => Slot(rows[i].t) <= q) /\ (i \notin 1..n => s <= Slot(rows[i].t))
  <2> TAKE i \in OnTime(rows)
  <2>1. i \in 1..Len(rows) /\ Usable(rows[i])  BY OnTimeIs
  <2>2. i \notin 1..n => n + 1 <= i  BY <1>1, <2>1
  <2>3. i \notin 1..n => s <= Slot(rows[i].t)  BY <1>8, <1>9, <2>2, OnTimeOrder
  <2> QED  BY <1>6, <2>1, <2>3
<1>11. I \subseteq 1..n
  <2>1. \A i \in I : i \in OnTime(rows) /\ Slot(rows[i].t) = q  BY DEF InSlot
  <2> QED  BY <1>2, <1>3, <1>5, <1>10, <2>1
<1>12. IsBar(done, rows, q)  BY <1>1, <1>3, <1>4, <1>11, FlushedBar
<1> HIDE DEF done, I
<1>13. done \in BarRow /\ done.c \in Price  BY <1>12 DEF IsBar, BarRow
<1>14. /\ gap \in Seq(BarRow) /\ Len(gap) = s - q - 1
       /\ \A k \in 1..(s - q - 1) : gap[k] = KlineBar(Bar * (q + k), done.c, done.c, done.c, done.c, 0)
  BY <1>2, <1>3, <1>5, <1>13, FillGapIs
<1> HIDE DEF gap
<1>15. PICK last \in ToSlot(rows, q) : (\A i \in ToSlot(rows, q) : i <= last) /\ done.c = Mid2(rows[last])
  BY <1>12 DEF IsBar
<1>16. ASSUME NEW x \in (q + 1)..(s - 1)  PROVE IsBar(KlineBar(Bar * x, done.c, done.c, done.c, done.c, 0), rows, x)
  <2>1. x \in Nat /\ q < x /\ x < s  BY <1>2, <1>3
  <2>2. \A i \in OnTime(rows) : Slot(rows[i].t) \in Nat  BY <1>10, RowFields
  <2>3. InSlot(rows, x) = {}
    <3>1. \A i \in OnTime(rows) : Slot(rows[i].t) # x  BY <1>2, <1>3, <1>10, <2>1, <2>2
    <3> QED  BY <3>1 DEF InSlot
  <2>4. ToSlot(rows, x) = ToSlot(rows, q)
    <3>1. \A i \in OnTime(rows) : Slot(rows[i].t) <= x <=> Slot(rows[i].t) <= q
      BY <1>2, <1>3, <1>10, <2>1, <2>2
    <3> QED  BY <3>1 DEF ToSlot
  <2>5. last \in ToSlot(rows, x) /\ \A i \in ToSlot(rows, x) : i <= last  BY <1>15, <2>4
  <2> QED  BY <1>15, <2>1, <2>3, <2>5, FlatBar
<1>17. Len(Append(st.bars, done)) = (q - f) + 1 /\ Append(st.bars, done) \in Seq(BarRow)
       /\ \A k \in 1..((q - f) + 1) : Append(st.bars, done)[k] = IF k = (q - f) + 1 THEN done ELSE st.bars[k]
  BY <1>4, <1>6, <1>13
<1>18. bs \in Seq(BarRow) /\ Len(bs) = s - f
       /\ \A k \in 1..(s - f) : bs[k] = IF k <= (q - f) + 1 THEN Append(st.bars, done)[k] ELSE gap[k - ((q - f) + 1)]
  <2> DEFINE a == Append(st.bars, done)
  <2>1. a \in Seq(BarRow) /\ Len(a) = (q - f) + 1  BY <1>17
  <2> HIDE DEF a
  <2>2. a \o gap \in Seq(BarRow) /\ Len(a \o gap) = Len(a) + Len(gap)
        /\ \A k \in 1..(Len(a) + Len(gap)) : (a \o gap)[k] = IF k <= Len(a) THEN a[k] ELSE gap[k - Len(a)]
    BY <1>14, <2>1, ConcatProperties
  <2>3. Len(a) + Len(gap) = s - f  BY <1>2, <1>3, <1>6, <1>14, <2>1
  <2> QED  BY <2>1, <2>2, <2>3 DEF a
<1> HIDE DEF bs
<1>19. ASSUME NEW k \in 1..(s - f)  PROVE IsBar(bs[k], rows, f + k - 1)
  <2>1. s - f \in Nat /\ k \in Nat /\ q - f \in Nat  BY <1>2, <1>3, <1>5, <1>6
  <2>2. CASE k <= q - f
    <3>1. k \in 1..(q - f) /\ k \in 1..((q - f) + 1) /\ k <= (q - f) + 1 /\ k # (q - f) + 1  BY <2>1, <2>2
    <3>2. bs[k] = st.bars[k]  BY <1>17, <1>18, <3>1
    <3> QED  BY <1>6, <3>1, <3>2
  <2>3. CASE k = (q - f) + 1
    <3>1. k \in 1..((q - f) + 1) /\ k <= (q - f) + 1  BY <2>1, <2>3
    <3>2. bs[k] = done  BY <1>17, <1>18, <2>3, <3>1
    <3>3. f + k - 1 = q  BY <1>3, <1>6, <2>3
    <3> QED  BY <1>12, <3>2, <3>3
  <2>4. CASE (q - f) + 1 < k
    <3> DEFINE j == k - ((q - f) + 1)
    <3>1. j \in 1..(s - q - 1) /\ q + j = f + k - 1 /\ q + j \in (q + 1)..(s - 1) /\ ~ k <= (q - f) + 1
      <4>1. s \in Nat /\ q \in Nat /\ f \in Nat /\ f <= q /\ q < s  BY <1>2, <1>3, <1>5, <1>6
      <4>2. k \in Nat /\ k <= s - f  BY <2>1
      <4> QED  BY <2>4, <4>1, <4>2
    <3>2. bs[k] = gap[j]  BY <1>18, <3>1
    <3> HIDE DEF j
    <3>3. gap[j] = KlineBar(Bar * (q + j), done.c, done.c, done.c, done.c, 0)  BY <1>14, <3>1
    <3>4. IsBar(gap[j], rows, q + j)  BY <1>16, <3>1, <3>3
    <3> QED  BY <3>1, <3>2, <3>4
  <2> QED  BY <2>1, <2>2, <2>3, <2>4
<1>20. \E h : Picks(h, <<Mid2(r)>>, Prices(rows), InSlot(rows, s), n + 1)
  <2>1. InSlot(rows, s) \cap (1..n) = {}
    <3>1. \A i \in InSlot(rows, s) : i \in OnTime(rows) /\ Slot(rows[i].t) = s  BY DEF InSlot
    <3> QED  BY <1>2, <1>3, <1>5, <1>10, <3>1
  <2>2. Picks([k \in {} |-> 0], <<>>, Prices(rows), InSlot(rows, s), n)  BY <2>1, PicksNone
  <2>3. n + 1 \in InSlot(rows, s)  BY <1>8, <1>9 DEF InSlot
  <2>4. Prices(rows)[n + 1] = Mid2(r) /\ Prices(rows) \in Seq(Int) /\ n + 1 \in 1..Len(Prices(rows))
    BY <1>1, <1>5, PricesAre
  <2>5. <<>> \in Seq(Int)  OBVIOUS
  <2>6. \E h : Picks(h, IF n + 1 \in InSlot(rows, s) THEN Append(<<>>, Prices(rows)[n + 1]) ELSE <<>>,
                     Prices(rows), InSlot(rows, s), n + 1)
    BY <1>1, <2>2, <2>4, <2>5, PicksNext
  <2>7. Append(<<>>, Mid2(r)) = <<Mid2(r)>>  OBVIOUS
  <2> QED  BY <2>3, <2>4, <2>6, <2>7
<1>21. PICK h : Picks(h, <<Mid2(r)>>, Prices(rows), InSlot(rows, s), n + 1)  BY <1>20
<1>22. \A i \in 1..(n + 1) : Usable(rows[i]) => Slot(rows[i].t) <= s
  <2> TAKE i \in 1..(n + 1)
  <2>1. i \in 1..n \/ i = n + 1  BY <1>1
  <2>2. i \in 1..Len(rows)  BY <1>1
  <2>3. Slot(rows[i].t) \in Nat  BY <2>2, RowFields
  <2>4. CASE i = n + 1  BY <1>2, <1>8, <2>4
  <2>5. CASE i \in 1..n
    <3>1. Usable(rows[i]) => Slot(rows[i].t) <= q  BY <1>6, <2>5
    <3>2. q \in Nat /\ s \in Nat /\ q < s  BY <1>2, <1>3, <1>5, <1>6
    <3> QED  BY <2>3, <3>1, <3>2
  <2> QED  BY <2>1, <2>4, <2>5
<1>23. new.cb = Bar * s /\ new.mids = <<Mid2(r)>> /\ new.bars = bs  BY <1>7
<1>24. f <= s  BY <1>2, <1>3, <1>5, <1>6
<1>25. GridAt(new, rows, n + 1, f, s, h)
  BY <1>2, <1>6, <1>18, <1>19, <1>21, <1>22, <1>23, <1>24 DEF GridAt
<1> QED  BY <1>8, <1>25 DEF new, r
-----------------------------------------------------------------------------
\* The bars of all rows.

LEMMA IngestedRuns ==
  ASSUME NEW rows \in Seq(IndexRow)
  PROVE  \E g : /\ g[0] = NoBar /\ Ingested(rows) = g[Len(rows)]
                /\ \A i \in 0..Len(rows) : g[i] \in BarState
                /\ \A i \in 1..Len(rows) : g[i] = Ingest(g[i - 1], rows[i])
<1> DEFINE N == Len(rows)
           F == [i \in 1..N |-> [s \in BarState |-> Ingest(s, rows[i])]]
           E(g) == g = [i \in 0..N |-> IF i = 0 THEN NoBar ELSE Ingest(g[i - 1], rows[i])]
           c == CHOOSE g : E(g)
<1>1. N \in Nat /\ \A i \in 1..N : rows[i] \in IndexRow  BY LenProperties
<1>2. \A i \in 1..N : \A s \in BarState : F[i][s] = Ingest(s, rows[i]) /\ F[i][s] \in BarState
  BY <1>1, IngestType
<1>3. NoBar \in BarState  BY NoBarIs
<1>4. PICK g : Folded(g, N, BarState, NoBar, F)
  <2> HIDE DEF F, N
  <2> QED  BY <1>1, <1>2, <1>3, FoldIs
<1>5. 0 \in 0..N /\ \A i \in 0..N : i # 0 => i \in 1..N /\ i - 1 \in 0..N  BY <1>1
<1>6. E(g)
  <2>1. \A i \in 0..N : g[i] = IF i = 0 THEN NoBar ELSE F[i][g[i - 1]]  BY <1>4 DEF Folded
  <2>2. g = [i \in 0..N |-> g[i]]  BY <1>4 DEF Folded
  <2>3. \A i \in 0..N : i # 0 => g[i - 1] \in BarState  BY <1>4, <1>5 DEF Folded
  <2> HIDE DEF F, N
  <2>4. \A i \in 0..N : g[i] = IF i = 0 THEN NoBar ELSE Ingest(g[i - 1], rows[i])
    BY <1>2, <1>5, <2>1, <2>3
  <2> QED  BY <2>2, <2>4
<1>7. E(c)  BY <1>6
<1>8. Ingested(rows) = c[N]  BY DEF Ingested
<1> HIDE DEF c, F, N
<1>9. \A i \in 0..N : c[i] = IF i = 0 THEN NoBar ELSE Ingest(c[i - 1], rows[i])  BY <1>7
<1>10. \A i \in 1..N : i \in 0..N /\ i # 0  BY <1>1
<1>11. c[0] = NoBar /\ \A i \in 1..N : c[i] = Ingest(c[i - 1], rows[i])  BY <1>5, <1>9, <1>10
<1>12. \A i \in 0..N : c[i] \in BarState
  <2> DEFINE T == {i \in 0..N : c[i] \in BarState}
  <2>1. 0 \in T  BY <1>3, <1>5, <1>11
  <2>2. ASSUME NEW n \in 0..(N - 1), n \in T  PROVE n + 1 \in T
    <3>1. n + 1 \in 1..N /\ n + 1 \in 0..N /\ (n + 1) - 1 = n  BY <1>1
    <3>2. c[n] \in BarState /\ c[n + 1] = Ingest(c[n], rows[n + 1])  BY <1>11, <2>2, <3>1
    <3>3. c[n + 1] \in BarState  BY <1>1, <3>1, <3>2, IngestType
    <3> QED  BY <3>1, <3>3
  <2> HIDE DEF T
  <2>3. 0..N \subseteq T  BY <1>1, <2>1, <2>2, Upwards
  <2> QED  BY <2>3 DEF T
<1> QED  BY <1>8, <1>11, <1>12 DEF N

LEMMA GridNext ==
  ASSUME NEW rows \in Seq(IndexRow), NEW n \in 0..(Len(rows) - 1), NEW st \in BarState, GridInv(st, rows, n)
  PROVE  GridInv(Ingest(st, rows[n + 1]), rows, n + 1)
<1> DEFINE new == Ingest(st, rows[n + 1])
<1>1. n + 1 \in 1..Len(rows) /\ n \in Nat  OBVIOUS
<1>2. rows[n + 1] \in IndexRow /\ Slot(rows[n + 1].t) \in Nat  BY <1>1, RowFields
<1>3. new \in BarState  BY <1>2, IngestType
<1>4. CASE st.cb = None /\ Usable(rows[n + 1])  BY <1>4, GridFirst
<1>5. CASE st.cb = None /\ ~Usable(rows[n + 1])
  <2>1. new = st  BY <1>2, <1>5, IngestIs
  <2>2. \A i \in 1..(n + 1) : i \in 1..n \/ i = n + 1  BY <1>1
  <2> HIDE DEF new
  <2>3. GridInv(new, rows, n + 1)  BY <1>3, <1>5, <2>1, <2>2 DEF GridInv
  <2> QED  BY <2>3 DEF new
<1>6. CASE st.cb # None
  <2>1. PICK f, q, g : GridAt(st, rows, n, f, q, g)  BY <1>6 DEF GridInv
  <2>2. q \in Nat  BY <2>1 DEF GridAt
  <2>3. \E p, h : GridAt(new, rows, n + 1, f, p, h)
    <3>1. CASE ~Usable(rows[n + 1]) \/ Slot(rows[n + 1].t) <= q
      BY <2>1, <3>1, GridStays
    <3>2. CASE Usable(rows[n + 1]) /\ q < Slot(rows[n + 1].t)
      BY <2>1, <3>2, GridMoves
    <3> QED  BY <1>2, <2>2, <3>1, <3>2
  <2> HIDE DEF new
  <2>4. PICK p, h : GridAt(new, rows, n + 1, f, p, h)  BY <2>3
  <2>5. new.cb # None
    <3>1. p \in Nat /\ new.cb = Bar * p  BY <2>4 DEF GridAt
    <3>2. Bar * p \in Nat /\ None \notin Nat  BY <3>1, GridIs, S10Assumption
    <3> QED  BY <3>1, <3>2
  <2>6. GridInv(new, rows, n + 1)  BY <1>3, <2>4, <2>5 DEF GridInv
  <2> QED  BY <2>6 DEF new
<1> QED  BY <1>4, <1>5, <1>6

\* The bars of rows are those of the slots from f to z, the first and the last that has a row.
Grid(bars, rows, f, z) ==
  /\ f \in Nat /\ z \in Nat /\ f <= z /\ Len(bars) = (z - f) + 1
  /\ \A k \in 1..((z - f) + 1) : IsBar(bars[k], rows, f + k - 1)
  /\ \A i \in OnTime(rows) : f <= Slot(rows[i].t) /\ Slot(rows[i].t) <= z
  /\ \E i \in OnTime(rows) : Slot(rows[i].t) = f
  /\ \E i \in OnTime(rows) : Slot(rows[i].t) = z

LEMMA BarsAre ==
  ASSUME NEW rows \in Seq(IndexRow)
  PROVE  /\ BarsOf(rows) \in Seq(BarRow)
         /\ BarsOf(rows) = <<>> => OnTime(rows) = {}
         /\ BarsOf(rows) # <<>> => \E f, z : Grid(BarsOf(rows), rows, f, z)
<1> DEFINE N == Len(rows)
           st == Ingested(rows)
<1>1. PICK g : /\ g[0] = NoBar /\ st = g[N]
               /\ \A i \in 0..N : g[i] \in BarState
               /\ \A i \in 1..N : g[i] = Ingest(g[i - 1], rows[i])
  BY IngestedRuns
<1>2. N \in Nat /\ 0 \in 0..N /\ N \in 0..N  OBVIOUS
<1>3. GridInv(st, rows, N)
  <2> DEFINE T == {n \in 0..N : GridInv(g[n], rows, n)}
  <2>1. 0 \in T
    <3>1. GridInv(NoBar, rows, 0)  BY NoBarIs DEF GridInv
    <3> QED  BY <1>1, <1>2, <3>1
  <2>2. ASSUME NEW n \in 0..(N - 1), n \in T  PROVE n + 1 \in T
    <3>1. n + 1 \in 1..N /\ n + 1 \in 0..N /\ (n + 1) - 1 = n /\ n \in 0..N  BY <1>2
    <3>2. g[n] \in BarState /\ g[n + 1] = Ingest(g[n], rows[n + 1])  BY <1>1, <3>1
    <3>3. GridInv(g[n + 1], rows, n + 1)  BY <2>2, <3>2, GridNext
    <3> QED  BY <3>1, <3>3
  <2> HIDE DEF T, N
  <2>3. 0..N \subseteq T  BY <1>2, <2>1, <2>2, Upwards
  <2>4. N \in T  BY <1>2, <2>3
  <2> QED  BY <1>1, <2>4 DEF T
<1>4. st \in BarState  BY <1>1, <1>2
<1>5. BarsOf(rows) = IF st.cb = None THEN <<>> ELSE Append(st.bars, Flush(st.cb, st.mids))  BY DEF BarsOf
<1> HIDE DEF st
<1>6. CASE st.cb = None
  <2>1. OnTime(rows) = {}
    <3>1. \A i \in 1..N : ~Usable(rows[i])  BY <1>3, <1>6 DEF GridInv
    <3> QED  BY <3>1, OnTimeIs
  <2> QED  BY <1>5, <1>6, <2>1
<1>7. CASE st.cb # None
  <2>1. PICK f, q, h : GridAt(st, rows, N, f, q, h)  BY <1>3, <1>7 DEF GridInv
  <2> DEFINE done == Flush(Bar * q, st.mids)
             bars == Append(st.bars, done)
  <2>2. q \in Nat /\ f \in Nat /\ f <= q /\ st.cb = Bar * q /\ Len(st.bars) = q - f
        /\ Picks(h, st.mids, Prices(rows), InSlot(rows, q), N)
    BY <2>1 DEF GridAt
  <2>3. st.mids \in Seq(Price) /\ st.mids # <<>> /\ st.bars \in Seq(BarRow)  BY <1>4, <1>7 DEF BarState
  <2>4. InSlot(rows, q) \subseteq 1..N  BY OnTimeIs DEF InSlot
  <2>5. IsBar(done, rows, q)  BY <1>2, <2>2, <2>3, <2>4, FlushedBar
  <2>6. BarsOf(rows) = bars  BY <1>5, <1>7, <2>2
  <2> HIDE DEF done
  <2>7. done \in BarRow  BY <2>5 DEF IsBar
  <2>8. bars \in Seq(BarRow) /\ Len(bars) = (q - f) + 1
        /\ \A k \in 1..((q - f) + 1) : bars[k] = IF k = (q - f) + 1 THEN done ELSE st.bars[k]
    BY <2>2, <2>3, <2>7
  <2> HIDE DEF bars
  <2>9. ASSUME NEW k \in 1..((q - f) + 1)  PROVE IsBar(bars[k], rows, f + k - 1)
    <3>1. CASE k = (q - f) + 1
      <4>1. f + k - 1 = q  BY <2>2, <3>1
      <4> QED  BY <2>5, <2>8, <3>1, <4>1
    <3>2. CASE k # (q - f) + 1
      <4>1. k \in 1..(q - f)  BY <2>2, <3>2
      <4>2. IsBar(st.bars[k], rows, f + k - 1)  BY <2>1, <4>1 DEF GridAt
      <4> QED  BY <2>8, <3>2, <4>2
    <3> QED  BY <3>1, <3>2
  <2>10. \A i \in OnTime(rows) : f <= Slot(rows[i].t) /\ Slot(rows[i].t) <= q
    <3> TAKE i \in OnTime(rows)
    <3>1. i \in 1..N /\ Usable(rows[i])  BY OnTimeIs
    <3> QED  BY <2>1, <3>1 DEF GridAt
  <2>11. \E i \in OnTime(rows) : Slot(rows[i].t) = f  BY <2>1 DEF GridAt
  <2>12. \E i \in OnTime(rows) : Slot(rows[i].t) = q
    <3>1. InSlot(rows, q) # {}
      <4>1. Len(st.mids) \in Nat /\ Len(st.mids) # 0 /\ 1 \in 1..Len(st.mids)  BY <2>3
      <4>2. h[1] \in InSlot(rows, q)  BY <2>2, <4>1 DEF Picks
      <4> QED  BY <4>2
    <3> QED  BY <3>1 DEF InSlot
  <2>13. Grid(bars, rows, f, q)  BY <2>2, <2>8, <2>9, <2>10, <2>11, <2>12 DEF Grid
  <2>14. bars # <<>>
    <3>1. (q - f) + 1 # 0  BY <2>2
    <3> QED  BY <2>8, <3>1
  <2> QED  BY <2>6, <2>8, <2>13, <2>14
<1> QED  BY <1>6, <1>7
-----------------------------------------------------------------------------
\* The shards of the bars.

LEMMA MaxIs ==
  ASSUME NEW S, S \subseteq Int, NEW m \in S, \A s \in S : s <= m
  PROVE  Max(S) = m
<1>1. m \in Int  OBVIOUS
<1>2. Max(S) \in S /\ \A s \in S : s <= Max(S)  BY <1>1, MaxBounded
<1>3. Max(S) \in Int /\ Max(S) <= m /\ m <= Max(S)  BY <1>2
<1> QED  BY <1>1, <1>3

LEMMA MinIs ==
  ASSUME NEW S, S \subseteq Nat, NEW m \in S, \A s \in S : m <= s
  PROVE  Min(S) = m
<1>1. Min(S) \in S /\ \A s \in S : Min(S) <= s  BY MinBounded
<1>2. Min(S) \in Nat /\ m \in Nat /\ Min(S) <= m /\ m <= Min(S)  BY <1>1
<1> QED  BY <1>2

GoodBar(b) ==
  /\ b \in BarRow
  /\ b.l <= b.o /\ b.o <= b.h /\ b.l <= b.c /\ b.c <= b.h
  /\ \E x \in Nat : b.t0 = Bar * x /\ b.t1 = Bar * x + Bar - 1

BarShard(s, d) ==
  /\ s \in Seq(BarRow)
  /\ \A k \in 1..Len(s) : GoodBar(s[k]) /\ Day(s[k].t0) = d
  /\ \A j, k \in 1..Len(s) : j < k => s[j].t0 < s[k].t0

DaysOf(bars) == {Day(b.t0) : b \in ToSet(bars)}
BarsOfDay(bars, d) == {i \in DOMAIN bars : Day(bars[i].t0) = d}

LEMMA ByDateIs ==
  ASSUME NEW bars
  PROVE  /\ DOMAIN ByDate(bars) = DaysOf(bars)
         /\ \A d \in DaysOf(bars) : ByDate(bars)[d] = Only(bars, BarsOfDay(bars, d))
  BY DEF ByDate, DaysOf, BarsOfDay

LEMMA GridBars ==
  ASSUME NEW rows \in Seq(IndexRow), NEW bars \in Seq(BarRow), NEW f, NEW z, Grid(bars, rows, f, z)
  PROVE  /\ \A k \in 1..Len(bars) : GoodBar(bars[k]) /\ bars[k].t0 = Bar * (f + k - 1) /\ f + k - 1 \in Nat
         /\ \A j, k \in 1..Len(bars) : j < k => bars[j].t0 < bars[k].t0
<1>1. f \in Nat /\ z \in Nat /\ Len(bars) = (z - f) + 1 /\ Len(bars) \in Nat  BY DEF Grid
<1>2. \A k \in 1..Len(bars) : GoodBar(bars[k]) /\ bars[k].t0 = Bar * (f + k - 1) /\ f + k - 1 \in Nat
  <2> TAKE k \in 1..Len(bars)
  <2>1. IsBar(bars[k], rows, f + k - 1)  BY <1>1 DEF Grid
  <2>2. f + k - 1 \in Nat  BY <1>1
  <2> QED  BY <2>1, <2>2 DEF IsBar, GoodBar
<1>3. ASSUME NEW j \in 1..Len(bars), NEW k \in 1..Len(bars), j < k  PROVE bars[j].t0 < bars[k].t0
  <2> DEFINE x == f + j - 1
             y == f + k - 1
  <2>1. x \in Nat /\ y \in Nat /\ x < y  BY <1>1, <1>3
  <2>2. bars[j].t0 = Bar * x /\ bars[k].t0 = Bar * y  BY <1>2
  <2> HIDE DEF x, y
  <2>3. Bar * x + Bar <= Bar * y /\ Bar * x \in Nat /\ Bar * y \in Nat /\ Bar \in Nat \ {0}
    BY <2>1, GridOrder, GridIs, BarIs
  <2> QED  BY <2>2, <2>3
<1> QED  BY <1>2, <1>3

LEMMA ShardsOfBars ==
  ASSUME NEW rows \in Seq(IndexRow), NEW d \in DOMAIN ByDate(BarsOf(rows))
  PROVE  BarShard(ByDate(BarsOf(rows))[d], d)
<1> DEFINE bars == BarsOf(rows)
           s == ByDate(bars)[d]
           I == BarsOfDay(bars, d)
<1>1. bars \in Seq(BarRow)  BY BarsAre
<1>2. d \in DaysOf(bars)  BY ByDateIs
<1>3. s = Only(bars, I)  BY <1>2, ByDateIs
<1>4. bars # <<>>
  <2>1. ToSet(<<>>) = {}  BY DEF ToSet
  <2> QED  BY <1>2, <2>1 DEF DaysOf
<1>5. PICK f, z : Grid(bars, rows, f, z)  BY <1>4, BarsAre
<1> HIDE DEF bars
<1>6. /\ \A k \in 1..Len(bars) : GoodBar(bars[k])
      /\ \A j, k \in 1..Len(bars) : j < k => bars[j].t0 < bars[k].t0
  BY <1>1, <1>5, GridBars
<1> HIDE DEF s
<1>7. s \in Seq(BarRow)  BY <1>1, <1>3, OnlyIs
<1>8. PICK p : Picks(p, s, bars, I, Len(bars))  BY <1>1, <1>3, OnlyIs
<1>9. \A k \in 1..Len(s) : p[k] \in 1..Len(bars) /\ s[k] = bars[p[k]] /\ Day(bars[p[k]].t0) = d
  <2> TAKE k \in 1..Len(s)
  <2>1. p[k] \in I /\ s[k] = bars[p[k]]  BY <1>8 DEF Picks
  <2>2. DOMAIN bars = 1..Len(bars)  BY <1>1
  <2> QED  BY <2>1, <2>2 DEF BarsOfDay
<1>10. \A j, k \in 1..Len(s) : j < k => p[j] < p[k]  BY <1>8 DEF Picks
<1>11. \A j, k \in 1..Len(s) : j < k => s[j].t0 < s[k].t0  BY <1>6, <1>9, <1>10
<1>12. BarShard(s, d)  BY <1>6, <1>7, <1>9, <1>11 DEF BarShard
<1> QED  BY <1>12 DEF s, bars
-----------------------------------------------------------------------------
\* The grid in the shards.

GridIn(rows, shards) ==
  LET on   == OnTime(rows)
      at(b) == {i \in on : Bucket(rows[i].t) = b}
      px(i) == Mid2(rows[i])
      bs   == {Bucket(rows[i].t) : i \in on}
  IN on # {} => \A b \in {x \in Min(bs)..Max(bs) : x % Bar = 0} :
       LET bars == shards[Day(b)]
           last == Max({i \in on : Bucket(rows[i].t) <= b})
       IN /\ Day(b) \in DOMAIN shards
          /\ \E k \in DOMAIN bars :
               /\ \A m \in DOMAIN bars : bars[m].t0 = b <=> m = k
               /\ bars[k].n = Cardinality(at(b)) /\ bars[k].c = px(last)
               /\ bars[k].h = Max({px(i) : i \in at(b)} \cup IF at(b) = {} THEN {px(last)} ELSE {})

LEMMA GridReached ==
  ASSUME NEW rows \in Seq(IndexRow), NEW shards,
         \A d \in DOMAIN ByDate(BarsOf(rows)) : d \in DOMAIN shards /\ shards[d] = ByDate(BarsOf(rows))[d]
  PROVE  GridIn(rows, shards)
<1> DEFINE on   == OnTime(rows)
           at(b) == {i \in on : Bucket(rows[i].t) = b}
           px(i) == Mid2(rows[i])
           bs   == {Bucket(rows[i].t) : i \in on}
           lo(b) == {i \in on : Bucket(rows[i].t) <= b}
           hs(b) == {px(i) : i \in at(b)} \cup IF at(b) = {} THEN {px(Max(lo(b)))} ELSE {}
           all  == BarsOf(rows)
<1> SUFFICES ASSUME on # {}, NEW b \in {x \in Min(bs)..Max(bs) : x % Bar = 0}
             PROVE  /\ Day(b) \in DOMAIN shards
                    /\ \E k \in DOMAIN shards[Day(b)] :
                         /\ \A m \in DOMAIN shards[Day(b)] : shards[Day(b)][m].t0 = b <=> m = k
                         /\ shards[Day(b)][k].n = Cardinality(at(b)) /\ shards[Day(b)][k].c = px(Max(lo(b)))
                         /\ shards[Day(b)][k].h = Max(hs(b))
  BY DEF GridIn
<1>1. all \in Seq(BarRow) /\ all # <<>>  BY BarsAre
<1>2. PICK f, z : Grid(all, rows, f, z)  BY <1>1, BarsAre
<1>3. f \in Nat /\ z \in Nat /\ f <= z /\ Len(all) = (z - f) + 1
      /\ \A i \in on : f <= Slot(rows[i].t) /\ Slot(rows[i].t) <= z
  BY <1>2 DEF Grid
<1>4. \A i \in on : i \in 1..Len(rows) /\ Slot(rows[i].t) \in Nat /\ Bucket(rows[i].t) = Bar * Slot(rows[i].t)
                    /\ Mid2(rows[i]) \in Int
  <2> TAKE i \in on
  <2>1. i \in 1..Len(rows)  BY OnTimeIs
  <2> QED  BY <2>1, RowFields
<1>5. Min(bs) = Bar * f
  <2>1. PICK i \in on : Slot(rows[i].t) = f  BY <1>2 DEF Grid
  <2>2. Bar * f \in bs  BY <1>4, <2>1
  <2>3. \A v \in bs : v \in Nat /\ Bar * f <= v
    <3> TAKE v \in bs
    <3>1. PICK j \in on : v = Bucket(rows[j].t)  OBVIOUS
    <3>2. Slot(rows[j].t) \in Nat /\ v = Bar * Slot(rows[j].t) /\ f <= Slot(rows[j].t)  BY <1>3, <1>4, <3>1
    <3> QED  BY <1>3, <3>2, GridIs, GridOrder
  <2> HIDE DEF bs
  <2>4. bs \subseteq Nat  BY <2>3
  <2> QED  BY <2>2, <2>3, <2>4, MinIs
<1>6. Max(bs) = Bar * z
  <2>1. PICK i \in on : Slot(rows[i].t) = z  BY <1>2 DEF Grid
  <2>2. Bar * z \in bs  BY <1>4, <2>1
  <2>3. \A v \in bs : v \in Int /\ v <= Bar * z
    <3> TAKE v \in bs
    <3>1. PICK j \in on : v = Bucket(rows[j].t)  OBVIOUS
    <3>2. Slot(rows[j].t) \in Nat /\ v = Bar * Slot(rows[j].t) /\ Slot(rows[j].t) <= z  BY <1>3, <1>4, <3>1
    <3>3. v \in Nat /\ v <= Bar * z  BY <1>3, <3>2, GridIs, GridOrder
    <3> QED  BY <3>3
  <2> HIDE DEF bs
  <2>4. bs \subseteq Int  BY <2>3
  <2> QED  BY <2>2, <2>3, <2>4, MaxIs
<1>7. b \in Nat /\ b % Bar = 0 /\ Bar * f <= b /\ b <= Bar * z
  <2>1. Bar * f \in Nat /\ Bar * z \in Nat  BY <1>3, GridIs
  <2>2. b \in (Bar * f)..(Bar * z) /\ b % Bar = 0  BY <1>5, <1>6
  <2> QED  BY <2>1, <2>2
<1> HIDE DEF bs
<1>8. PICK x \in Nat : x = Slot(b) /\ b = Bar * x  BY <1>7, OnGridIs
<1>9. f <= x /\ x <= z  BY <1>3, <1>7, <1>8, GridOrder
<1>10. PICK k \in 1..Len(all) : x = f + k - 1
  <2>1. (x - f) + 1 \in 1..Len(all) /\ x = f + ((x - f) + 1) - 1  BY <1>3, <1>8, <1>9
  <2> QED  BY <2>1
<1>11. IsBar(all[k], rows, x)
  <2>1. k \in 1..((z - f) + 1)  BY <1>3
  <2>2. IsBar(all[k], rows, f + k - 1)  BY <1>2, <2>1 DEF Grid
  <2> QED  BY <1>10, <2>2
<1>12. at(b) = InSlot(rows, x)
  <2>1. \A i \in on : Bucket(rows[i].t) = b <=> Slot(rows[i].t) = x  BY <1>4, <1>8, GridOrder
  <2> QED  BY <2>1 DEF InSlot
<1>13. lo(b) = ToSlot(rows, x)
  <2>1. \A i \in on : Bucket(rows[i].t) <= b <=> Slot(rows[i].t) <= x  BY <1>4, <1>8, GridOrder
  <2> QED  BY <2>1 DEF ToSlot
<1>14. all[k].c = px(Max(lo(b)))
  <2>1. PICK last \in ToSlot(rows, x) : (\A i \in ToSlot(rows, x) : i <= last) /\ all[k].c = Mid2(rows[last])
    BY <1>11 DEF IsBar
  <2>2. ToSlot(rows, x) \subseteq Int
    <3>1. \A i \in ToSlot(rows, x) : i \in on  BY DEF ToSlot
    <3> QED  BY <1>4, <3>1
  <2>3. Max(ToSlot(rows, x)) = last  BY <2>1, <2>2, MaxIs
  <2> QED  BY <1>13, <2>1, <2>3
<1>15. all[k].h = Max(hs(b))
  <2>1. all[k].h \in hs(b) /\ \A v \in hs(b) : v \in Int /\ v <= all[k].h
    <3>1. all[k].h \in Int /\ all[k].c \in Int /\ all[k].h <= all[k].h  BY <1>11 DEF IsBar, BarRow, Price
    <3> DEFINE H == hs(b)
    <3>2. CASE at(b) = {}
      <4>1. all[k].h = all[k].c  BY <1>11, <1>12, <3>2 DEF IsBar
      <4>2. H = {all[k].c}  BY <1>14, <3>2
      <4> HIDE DEF H, all
      <4>3. all[k].h \in H /\ \A v \in H : v \in Int /\ v <= all[k].h  BY <3>1, <4>1, <4>2
      <4> QED  BY <4>3 DEF H
    <3>3. CASE at(b) # {}
      <4>1. H = {px(i) : i \in InSlot(rows, x)}  BY <1>12, <3>3
      <4>2. \A i \in InSlot(rows, x) : i \in on /\ px(i) \in Int  BY <1>4 DEF InSlot
      <4>3. \E i \in InSlot(rows, x) : all[k].h = px(i)  BY <1>11, <1>12, <3>3 DEF IsBar
      <4>4. \A i \in InSlot(rows, x) : px(i) <= all[k].h  BY <1>11 DEF IsBar
      <4> HIDE DEF H, all
      <4>5. all[k].h \in H /\ \A v \in H : v \in Int /\ v <= all[k].h  BY <4>1, <4>2, <4>3, <4>4
      <4> QED  BY <4>5 DEF H
    <3> QED  BY <3>2, <3>3
  <2> HIDE DEF hs
  <2>2. hs(b) \subseteq Int  BY <2>1
  <2> QED  BY <2>1, <2>2, MaxIs
<1>16. all[k].t0 = b /\ all[k].n = Cardinality(at(b))  BY <1>8, <1>11, <1>12 DEF IsBar
<1> HIDE DEF on, at, lo, hs, px
<1> DEFINE d == Day(b)
           s == shards[d]
           I == BarsOfDay(all, d)
<1>17. d \in DaysOf(all) /\ k \in I
  <2>1. DOMAIN all = 1..Len(all) /\ all[k] \in ToSet(all)  BY <1>1 DEF ToSet
  <2> QED  BY <1>16, <2>1 DEF DaysOf, BarsOfDay
<1>18. d \in DOMAIN shards /\ s = Only(all, I)  BY <1>17, ByDateIs
<1>19. \A j \in 1..Len(all) : all[j].t0 = b <=> j = k
  <2>1. \A i, j \in 1..Len(all) : i < j => all[i].t0 < all[j].t0  BY <1>1, <1>2, GridBars
  <2> TAKE j \in 1..Len(all)
  <2>2. all[j].t0 \in Nat
    <3>1. all[j] \in BarRow  BY <1>1
    <3> HIDE DEF all
    <3> QED  BY <3>1 DEF BarRow
  <2>3. j < k \/ j = k \/ k < j  OBVIOUS
  <2> QED  BY <1>7, <1>16, <2>1, <2>2, <2>3
<1> HIDE DEF all, s, I, d
<1>20. s \in Seq(BarRow)  BY <1>1, <1>18, OnlyIs
<1>21. PICK p : Picks(p, s, all, I, Len(all))  BY <1>1, <1>18, OnlyIs
<1>22. \A m \in 1..Len(s) : p[m] \in 1..Len(all) /\ s[m] = all[p[m]]  BY <1>21 DEF Picks
<1>23. PICK m \in 1..Len(s) : p[m] = k
  <2>1. k \in I \cap (1..Len(all))  BY <1>17
  <2> QED  BY <1>21, <2>1 DEF Picks
<1>24. s[m] = all[k]  BY <1>22, <1>23
<1>25. \A j \in 1..Len(s) : s[j].t0 = b <=> j = m
  <2> TAKE j \in 1..Len(s)
  <2>1. s[j].t0 = b <=> p[j] = k  BY <1>19, <1>22
  <2>2. p[j] = k => j = m
    <3>1. p[j] = k => ~ p[j] < p[m] /\ ~ p[m] < p[j]  BY <1>22, <1>23
    <3>2. j < m => p[j] < p[m]  BY <1>21 DEF Picks
    <3>3. m < j => p[m] < p[j]  BY <1>21 DEF Picks
    <3> QED  BY <3>1, <3>2, <3>3
  <2> QED  BY <1>23, <2>1, <2>2
<1>26. m \in DOMAIN s /\ DOMAIN s = 1..Len(s)  BY <1>20
<1> QED  BY <1>14, <1>15, <1>16, <1>18, <1>24, <1>25, <1>26 DEF s, d
-----------------------------------------------------------------------------
\* Such bars raise no error.

WellBarred(shards) ==
  /\ \E m \in Nat : DOMAIN shards \subseteq 0..m
  /\ \A d \in DOMAIN shards : BarShard(shards[d], d)

LEMMA GoodBarIs ==
  ASSUME NEW b, GoodBar(b)
  PROVE  /\ b.kind = "kline" /\ b.t0 \in Nat /\ b.t1 \in Int /\ b.t1 = b.t0 + Bar - 1 /\ b.t0 <= b.t1 /\ b.t0 % Bar = 0
         /\ b.o \in Price /\ b.h \in Price /\ b.l \in Price /\ b.c \in Price /\ b.n \in Nat
         /\ b.l <= b.o /\ b.o <= b.h /\ b.l <= b.c /\ b.c <= b.h /\ b.l <= b.h
         /\ AllFinite(b)
<1>1. b \in BarRow  BY DEF GoodBar
<1>2. b.kind = "kline" /\ b.t0 \in Nat /\ b.t1 \in Int /\ b.o \in Price /\ b.h \in Price /\ b.l \in Price /\ b.c \in Price
      /\ b.n \in Nat
  BY <1>1 DEF BarRow
<1>3. PICK x \in Nat : b.t0 = Bar * x /\ b.t1 = Bar * x + Bar - 1  BY DEF GoodBar
<1>4. b.t0 % Bar = 0  BY <1>3, GridIs
<1>5. b.l <= b.o /\ b.o <= b.h /\ b.l <= b.c /\ b.c <= b.h  BY DEF GoodBar
<1>6. b.l <= b.h /\ b.t1 = b.t0 + Bar - 1 /\ b.t0 <= b.t1  BY <1>2, <1>3, <1>5, BarIs DEF Price
<1>7. AllFinite(b)  BY <1>2, S10Assumption DEF AllFinite, Finite, Price
<1> QED  BY <1>2, <1>4, <1>5, <1>6, <1>7

LEMMA OhlcOfGood ==
  ASSUME NEW b, GoodBar(b), NEW i, NEW level
  PROVE  Found(i, level, Ohlc(b)) = {}
<1> DEFINE fl == Ohlc(b)
<1>1. /\ b.t0 \in Int /\ b.t1 \in Int /\ b.t0 <= b.t1 /\ AllFinite(b)
      /\ b.o \in Nat /\ b.h \in Nat /\ b.l \in Nat /\ b.c \in Nat
      /\ b.l <= b.o /\ b.o <= b.h /\ b.l <= b.c /\ b.c <= b.h /\ b.l <= b.h
  BY GoodBarIs DEF Price
<1>2. ~ b.h < Max({b.o, b.c, b.l})
  <2> DEFINE S == {b.o, b.c, b.l}
  <2>1. S \subseteq Int /\ S # {} /\ b.h \in Int /\ \A s \in S : s <= b.h  BY <1>1
  <2> HIDE DEF S
  <2>2. Max(S) \in S  BY <2>1, MaxBounded
  <2>3. Max(S) \in Int /\ Max(S) <= b.h  BY <2>1, <2>2
  <2> QED  BY <1>1, <2>3 DEF S
<1>3. ~ b.l > Min({b.o, b.c, b.h})
  <2> DEFINE S == {b.o, b.c, b.h}
  <2>1. S \subseteq Nat /\ S \subseteq Int /\ S # {} /\ \A s \in S : b.l <= s  BY <1>1
  <2> HIDE DEF S
  <2>2. Min(S) \in S  BY <2>1, MinBounded
  <2>3. Min(S) \in Int /\ b.l <= Min(S)  BY <2>1, <2>2
  <2> QED  BY <1>1, <2>3 DEF S
<1>4. ~ b.t0 > b.t1  BY <1>1
<1>5. fl = [times |-> FALSE, nonFinite |-> FALSE, high |-> FALSE, low |-> FALSE]
  <2>1. (b.t0 > b.t1) = FALSE  BY <1>4
  <2>2. (~\A x \in {b.o, b.h, b.l, b.c} : Finite(x)) = FALSE  BY <1>1 DEF AllFinite
  <2>3. ((\A x \in {b.o, b.h, b.l, b.c} : Finite(x)) /\ b.h < Max({b.o, b.c, b.l})) = FALSE  BY <1>2
  <2>4. ((\A x \in {b.o, b.h, b.l, b.c} : Finite(x)) /\ b.l > Min({b.o, b.c, b.h})) = FALSE  BY <1>3
  <2> QED  BY <2>1, <2>2, <2>3, <2>4, Zenon DEF Ohlc
<1> HIDE DEF fl
<1>6. {v \in DOMAIN fl : fl[v]} = {}  BY <1>5
<1>7. Found(i, level, fl) = {}  BY <1>6 DEF Found
<1> QED  BY <1>7 DEF fl

\* Two bars, the one before the other.
LEMMA TwoBars ==
  ASSUME NEW a, GoodBar(a), NEW b, GoodBar(b), a.t0 < b.t0
  PROVE  /\ b.t1 - a.t1 = b.t0 - a.t0 /\ b.t0 - a.t0 \in Nat /\ b.t0 - a.t0 > 0 /\ (b.t0 - a.t0) % Bar = 0
         /\ a.t1 < b.t0
<1>1. PICK x \in Nat : a.t0 = Bar * x /\ a.t1 = Bar * x + Bar - 1  BY DEF GoodBar
<1>2. PICK y \in Nat : b.t0 = Bar * y /\ b.t1 = Bar * y + Bar - 1  BY DEF GoodBar
<1>3. Bar * x \in Nat /\ Bar * y \in Nat /\ Bar \in Nat \ {0}  BY GridIs, BarIs
<1>4. x < y
  <2>1. ~ Bar * y <= Bar * x  BY <1>1, <1>2, <1>3
  <2> QED  BY <2>1, GridOrder
<1>5. Bar * x + Bar <= Bar * y  BY <1>4, GridOrder
<1>6. y - x \in Nat /\ Bar * (y - x) = Bar * y - Bar * x  BY <1>3, <1>4
<1>7. (Bar * (y - x)) % Bar = 0  BY <1>6, GridIs
<1>8. b.t0 - a.t0 = Bar * (y - x)  BY <1>1, <1>2, <1>6
<1>9. (b.t0 - a.t0) % Bar = 0  BY <1>7, <1>8
<1> QED  BY <1>1, <1>2, <1>3, <1>5, <1>9

\* What a bar may follow.
Preceded(prev, b) == prev = <<>> \/ \E a : prev = <<a>> /\ GoodBar(a) /\ a.t0 < b.t0

LEMMA HardOfGood ==
  ASSUME NEW b, GoodBar(b), NEW prev, Preceded(prev, b), NEW i, NEW level
  PROVE  Found(i, level, S10Hard(prev, b)) = {}
<1> DEFINE fl == S10Hard(prev, b)
<1>1. b.kind = "kline" /\ b.t0 % Bar = 0  BY GoodBarIs
<1>2. ~ (prev # <<>> /\ (Spacing(prev[1], b) <= 0 \/ Spacing(prev[1], b) % Bar # 0))
  <2> SUFFICES ASSUME prev # <<>>
               PROVE  ~ (Spacing(prev[1], b) <= 0 \/ Spacing(prev[1], b) % Bar # 0)
    OBVIOUS
  <2>1. PICK a : prev = <<a>> /\ GoodBar(a) /\ a.t0 < b.t0  BY DEF Preceded
  <2>2. prev[1] = a  BY <2>1
  <2> DEFINE w == b.t1 - a.t1
  <2>3. w = b.t0 - a.t0 /\ w \in Nat /\ w > 0 /\ w % Bar = 0  BY <2>1, TwoBars
  <2>4. Spacing(prev[1], b) = w  BY <2>2 DEF Spacing
  <2> HIDE DEF w
  <2>5. ~ w <= 0  BY <2>3
  <2> QED  BY <2>3, <2>4, <2>5
<1>3. fl = [notKline |-> FALSE, offGrid |-> FALSE, spacing |-> FALSE]
  <2>1. (b.kind # "kline") = FALSE  BY <1>1
  <2>2. (b.t0 % Bar # 0) = FALSE  BY <1>1
  <2>3. (AllFinite(b) /\ prev # <<>> /\ (Spacing(prev[1], b) <= 0 \/ Spacing(prev[1], b) % Bar # 0)) = FALSE  BY <1>2
  <2> QED  BY <2>1, <2>2, <2>3, Zenon DEF S10Hard
<1> HIDE DEF fl
<1>4. {v \in DOMAIN fl : fl[v]} = {}  BY <1>3
<1>5. Found(i, level, fl) = {}  BY <1>4 DEF Found
<1> QED  BY <1>5 DEF fl

LEMMA PrecededIn ==
  ASSUME NEW s, NEW d, BarShard(s, d), NEW i \in DOMAIN s
  PROVE  GoodBar(s[i]) /\ Preceded(Before(s, i), s[i])
<1>1. DOMAIN s = 1..Len(s) /\ Len(s) \in Nat  BY DEF BarShard
<1>2. GoodBar(s[i])  BY <1>1 DEF BarShard
<1>3. CASE i = 1  BY <1>2, <1>3 DEF Before, Preceded
<1>4. CASE i # 1
  <2>1. i - 1 \in 1..Len(s) /\ i - 1 < i  BY <1>1, <1>4
  <2>2. GoodBar(s[i - 1]) /\ s[i - 1].t0 < s[i].t0  BY <1>1, <2>1 DEF BarShard
  <2>3. Before(s, i) = <<s[i - 1]>>  BY <1>4 DEF Before
  <2> QED  BY <1>2, <2>2, <2>3 DEF Preceded
<1> QED  BY <1>3, <1>4

LEMMA ShardPasses ==
  ASSUME NEW s, NEW d, BarShard(s, d)
  PROVE  At("error", CheckS10(s, FALSE)) = {}
<1> DEFINE W(i) == Found(i, "error", Ohlc(s[i])) \cup Found(i, "error", S10Hard(Before(s, i), s[i]))
                     \cup Found(i, "warning", [gap |-> S10Gap(Before(s, i), s[i])])
           Z == Found(0, "error", [sparse |-> FALSE /\ Sparse(s)])
<1>1. CheckS10(s, FALSE) = UNION {W(i) : i \in DOMAIN s} \cup Z  BY Zenon DEF CheckS10
<1>2. \A i \in DOMAIN s : \A f \in W(i) : f.level = "warning"
  <2> TAKE i \in DOMAIN s
  <2>1. Found(i, "error", Ohlc(s[i])) = {}  BY PrecededIn, OhlcOfGood
  <2>2. Found(i, "error", S10Hard(Before(s, i), s[i])) = {}  BY PrecededIn, HardOfGood
  <2>3. \A f \in Found(i, "warning", [gap |-> S10Gap(Before(s, i), s[i])]) : f.level = "warning"  BY DEF Found
  <2> QED  BY <2>1, <2>2, <2>3
<1>3. Z = {}
  <2> DEFINE fl == [sparse |-> FALSE /\ Sparse(s)]
  <2>1. DOMAIN fl = {"sparse"} /\ ~ fl["sparse"]  OBVIOUS
  <2> HIDE DEF fl
  <2>2. {v \in DOMAIN fl : fl[v]} = {}  BY <2>1
  <2>3. Found(0, "error", fl) = {}  BY <2>2 DEF Found
  <2> QED  BY <2>3 DEF fl
<1> HIDE DEF W, Z
<1>4. \A f \in CheckS10(s, FALSE) : f.level = "warning"  BY <1>1, <1>2, <1>3
<1>5. \A f \in CheckS10(s, FALSE) : f.level # "error"  BY <1>4
<1> QED  BY <1>5 DEF At

LEMMA RowsOfWell ==
  ASSUME NEW shards, WellBarred(shards)
  PROVE  /\ Dated(shards, BarRow) /\ RowsOf(shards) \in Seq(BarRow)
         /\ \A i \in 1..Len(RowsOf(shards)) :
              GoodBar(RowsOf(shards)[i]) /\ Preceded(Before(RowsOf(shards), i), RowsOf(shards)[i])
<1> DEFINE rows == RowsOf(shards)
<1>1. Dated(shards, BarRow)  BY DEF WellBarred, Dated, BarShard
<1>2. rows \in Seq(BarRow) /\ \A i \in 1..Len(rows) : \E d, p : From(rows, shards, i, d, p)  BY <1>1, RowsAre
<1> HIDE DEF rows
<1>3. ASSUME NEW i \in 1..Len(rows)  PROVE GoodBar(rows[i]) /\ Preceded(Before(rows, i), rows[i])
  <2>1. PICK d, p : From(rows, shards, i, d, p)  BY <1>2
  <2>2. d \in DOMAIN shards /\ p \in 1..Len(shards[d]) /\ rows[i] = shards[d][p]  BY <2>1 DEF From
  <2>3. BarShard(shards[d], d)  BY <2>2 DEF WellBarred
  <2>4. shards[d] \in Seq(BarRow) /\ Len(shards[d]) \in Nat  BY <2>3 DEF BarShard
  <2>5. GoodBar(rows[i]) /\ Day(rows[i].t0) = d  BY <2>2, <2>3 DEF BarShard
  <2>6. i > 1 => Before(rows, i) = <<rows[i - 1]>>  BY DEF Before
  <2>7. CASE i = 1  BY <2>5, <2>7 DEF Before, Preceded
  <2>8. CASE i > 1 /\ p > 1
    <3>1. rows[i - 1] = shards[d][p - 1] /\ p - 1 \in 1..Len(shards[d]) /\ p - 1 < p  BY <2>1, <2>2, <2>4, <2>8 DEF From
    <3>2. GoodBar(rows[i - 1]) /\ rows[i - 1].t0 < rows[i].t0  BY <2>2, <2>3, <3>1 DEF BarShard
    <3> QED  BY <2>5, <2>6, <2>8, <3>2 DEF Preceded
  <2>9. CASE i > 1 /\ p = 1
    <3>1. PICK e \in DOMAIN shards : e < d /\ shards[e] # <<>> /\ rows[i - 1] = shards[e][Len(shards[e])]
      BY <2>1, <2>9 DEF From
    <3>2. BarShard(shards[e], e)  BY DEF WellBarred
    <3>3. Len(shards[e]) \in 1..Len(shards[e])
      <4>1. shards[e] \in Seq(BarRow)  BY <3>2 DEF BarShard
      <4>2. Len(shards[e]) \in Nat /\ Len(shards[e]) # 0  BY <3>1, <4>1
      <4> QED  BY <4>2
    <3>4. GoodBar(rows[i - 1]) /\ Day(rows[i - 1].t0) = e  BY <3>1, <3>2, <3>3 DEF BarShard
    <3>5. rows[i - 1].t0 < rows[i].t0
      <4>1. rows[i - 1].t0 \in Nat /\ rows[i].t0 \in Nat  BY <2>5, <3>4, GoodBarIs
      <4>2. rows[i].t0 <= rows[i - 1].t0 => d <= e  BY <2>5, <3>4, <4>1, DayIs
      <4>3. d \in Nat /\ e \in Nat  BY <2>5, <3>4, <4>1, DayIs
      <4> QED  BY <3>1, <4>1, <4>2, <4>3
    <3> QED  BY <2>5, <2>6, <2>9, <3>4, <3>5 DEF Preceded
  <2>10. i \in Nat /\ i >= 1 /\ p \in Nat /\ p >= 1  BY <2>2
  <2> QED  BY <2>7, <2>8, <2>9, <2>10
<1> QED  BY <1>1, <1>2, <1>3 DEF rows

LEMMA WellPasses ==
  ASSUME NEW shards, WellBarred(shards)
  PROVE  /\ \A d \in DOMAIN shards : At("error", CheckS10(shards[d], FALSE)) = {}
         /\ LET rows == RowsOf(shards)
            IN \A i \in DOMAIN rows : ~BadBar(Before(rows, i), rows[i]) /\ ~OffGrid(Before(rows, i), rows[i])
         /\ \A j \in Joints(shards) : ~SeamBreak(j)
<1>1. \A d \in DOMAIN shards : At("error", CheckS10(shards[d], FALSE)) = {}  BY ShardPasses DEF WellBarred
<1> DEFINE rows == RowsOf(shards)
<1>2. ASSUME NEW i \in DOMAIN rows
      PROVE  ~BadBar(Before(rows, i), rows[i]) /\ ~OffGrid(Before(rows, i), rows[i])
  <2> DEFINE b == rows[i]
             prev == Before(rows, i)
  <2>1. GoodBar(b) /\ Preceded(prev, b)
    <3>1. i \in 1..Len(rows)
      <4>1. rows \in Seq(BarRow)  BY RowsOfWell
      <4> QED  BY <4>1
    <3> QED  BY <3>1, RowsOfWell
  <2> HIDE DEF b, prev, rows
  <2>2. /\ AllFinite(b) /\ b.l <= b.h /\ b.l <= b.o /\ b.o <= b.h /\ b.l <= b.c /\ b.c <= b.h /\ b.t0 <= b.t1
        /\ b.o \in Int /\ b.h \in Int /\ b.l \in Int /\ b.c \in Int /\ b.t0 \in Int /\ b.t1 \in Int
    BY <2>1, GoodBarIs DEF Price
  <2>3. prev # <<>> => b.t0 >= prev[1].t1 /\ ~ b.t0 < prev[1].t1 /\ (b.t0 - prev[1].t0) % Bar = 0
    <3> SUFFICES ASSUME prev # <<>>
                 PROVE  b.t0 >= prev[1].t1 /\ ~ b.t0 < prev[1].t1 /\ (b.t0 - prev[1].t0) % Bar = 0
      OBVIOUS
    <3>1. PICK a : prev = <<a>> /\ GoodBar(a) /\ a.t0 < b.t0  BY <2>1 DEF Preceded
    <3>2. prev[1] = a  BY <3>1
    <3>3. a.t1 < b.t0 /\ (b.t0 - a.t0) % Bar = 0  BY <2>1, <3>1, TwoBars
    <3>4. a.t1 \in Int  BY <3>1, GoodBarIs
    <3> QED  BY <2>2, <3>2, <3>3, <3>4
  <2>4. ~BadBar(prev, b)
    <3>1. ~ b.l > b.h /\ ~ b.o < b.l /\ ~ b.o > b.h /\ ~ b.c < b.l /\ ~ b.c > b.h /\ ~ b.t0 > b.t1  BY <2>2
    <3> QED  BY <2>2, <2>3, <3>1 DEF BadBar
  <2>5. ~OffGrid(prev, b)  BY <2>3 DEF OffGrid
  <2> QED  BY <2>4, <2>5 DEF b, prev
<1>3. ASSUME NEW j \in Joints(shards)  PROVE ~SeamBreak(j)
  <2>1. PICK d \in DOMAIN shards, e \in DOMAIN shards :
          shards[d] # <<>> /\ shards[e] # <<>> /\ j = <<Last(shards[d]), Head(shards[e])>>
    BY DEF Joints
  <2>2. BarShard(shards[d], d) /\ BarShard(shards[e], e)  BY DEF WellBarred
  <2>3. Len(shards[d]) \in 1..Len(shards[d]) /\ 1 \in 1..Len(shards[e])
    <3>1. shards[d] \in Seq(BarRow) /\ shards[e] \in Seq(BarRow)  BY <2>2 DEF BarShard
    <3>2. Len(shards[d]) \in Nat /\ Len(shards[d]) # 0 /\ Len(shards[e]) \in Nat /\ Len(shards[e]) # 0  BY <2>1, <3>1
    <3> QED  BY <3>2
  <2>4. j[1] = shards[d][Len(shards[d])] /\ j[2] = shards[e][1]
    <3>1. shards[e] \in Seq(BarRow)  BY <2>2 DEF BarShard
    <3> QED  BY <2>1, <3>1 DEF Last
  <2>5. GoodBar(j[1]) /\ GoodBar(j[2])  BY <2>2, <2>3, <2>4 DEF BarShard
  <2>6. j[1].t0 \in Int /\ j[1].t1 = j[1].t0 + Bar - 1 /\ j[2].t0 \in Int /\ j[2].t1 = j[2].t0 + Bar - 1
    BY <2>5, GoodBarIs
  <2>7. j[2].t0 - j[1].t0 = Bar => j[2].t1 - j[1].t1 = Bar  BY <2>6, BarIs
  <2> QED  BY <2>7 DEF SeamBreak, S10Violated
<1> QED  BY <1>1, <1>2, <1>3
-----------------------------------------------------------------------------
\* The bricks.

Time     == {t \in Nat : Day(t) <= CurrentDay}
BrickRow == [kind : {"renko"}, t0 : Time, t1 : Time, o : Int, h : Int, l : Int, c : Int, n : {1}]
BrickState == [close : Int, t : Time, trips : Int, bricks : Seq(BrickRow)]

\* A row of a day that is not to come.
TimedRow == {r \in IndexRow : r.t \in Time}

LEMMA ZeroTime == 0 \in Time
<1>1. 0 \div DayLen = 0
  <2>1. DayLen * 0 <= 0 /\ 0 < DayLen * 0 + DayLen  BY BarIs
  <2> QED  BY <2>1, BarIs, QuotientUnique
<1> QED  BY <1>1, QualityAssumption DEF Time, Day

LEMMA BrickIs ==
  ASSUME NEW t0 \in Time, NEW t1 \in Time, NEW o \in Int, NEW c \in Int
  PROVE  Brick(t0, t1, o, c) \in BrickRow
<1> DEFINE hi == Max({o, c})
           lo == Min({o, c})
<1>1. hi \in Int /\ lo \in Int  BY TwoNumbers
<1>2. Brick(t0, t1, o, c) = [kind |-> "renko", t0 |-> t0, t1 |-> t1, o |-> o, h |-> hi, l |-> lo, c |-> c, n |-> 1]
  BY DEF Brick
<1> HIDE DEF hi, lo
<1> QED  BY <1>1, <1>2 DEF BrickRow

LEMMA FeedType ==
  ASSUME NEW st \in BrickState, NEW k \in Nat \ {0}, NEW t \in Time, NEW mid \in Int
  PROVE  Feed(st, k, t, mid) \in BrickState
<1>1. st.close \in Int /\ st.t \in Time /\ st.trips \in Int /\ st.bricks \in Seq(BrickRow)  BY DEF BrickState
<1>2. CASE st.close = 0
  <2>1. Feed(st, k, t, mid) = [st EXCEPT !.close = mid, !.t = t]  BY <1>2 DEF Feed
  <2> QED  BY <2>1 DEF BrickState
<1>3. CASE st.close # 0
  <2> DEFINE n    == Distance(mid, st.close) \div k
             step == IF mid < st.close THEN -k ELSE k
             new  == [i \in 1..n |-> Brick(IF i = 1 THEN st.t ELSE t, t, st.close + (i - 1) * step, st.close + i * step)]
             u    == IF n = 0 THEN st.t ELSE t
             c    == st.close + n * step
             bs   == st.bricks \o new
  <2>1. Distance(mid, st.close) \in Nat  BY <1>1 DEF Distance
  <2>2. n \in Nat  BY <2>1, Quotient
  <2>3. step \in Int  OBVIOUS
  <2>4. Feed(st, k, t, mid) = [st EXCEPT !.close = c, !.t = u, !.bricks = bs]  BY <1>3 DEF Feed
  <2> HIDE DEF n, step
  <2>5. \A i \in 1..n : Brick(IF i = 1 THEN st.t ELSE t, t, st.close + (i - 1) * step, st.close + i * step) \in BrickRow
    <3> TAKE i \in 1..n
    <3>1. i \in Int  BY <2>2
    <3>2. st.close + (i - 1) * step \in Int /\ st.close + i * step \in Int  BY <1>1, <2>3, <3>1
    <3>3. (IF i = 1 THEN st.t ELSE t) \in Time  BY <1>1
    <3> QED  BY <3>2, <3>3, BrickIs
  <2>6. new \in Seq(BrickRow)  BY <2>2, <2>5
  <2>7. c \in Int  BY <1>1, <2>2, <2>3
  <2>8. u \in Time  BY <1>1
  <2> HIDE DEF new, u, c
  <2>9. bs \in Seq(BrickRow)  BY <1>1, <2>6
  <2> HIDE DEF bs
  <2> QED  BY <2>4, <2>7, <2>8, <2>9 DEF BrickState
<1> QED  BY <1>2, <1>3

LEMMA FeedRowType ==
  ASSUME NEW st \in BrickState, NEW k \in Nat \ {0}, NEW from, NEW r \in TimedRow
  PROVE  FeedRow(st, k, from, r) \in BrickState
<1> DEFINE mid == Mid2(r)
           base == [st EXCEPT !.trips = 0]
           fed == Feed(base, k, r.t, mid)
           back == [fed EXCEPT !.bricks = st.bricks]
           reseeded == [st EXCEPT !.trips = 0, !.close = mid]
           tripped == [st EXCEPT !.trips = @ + 1]
<1>1. r.t \in Time /\ mid \in Int
  <2>1. r.t \in Time /\ r.bid \in Int /\ r.ask \in Int  BY DEF TimedRow, IndexRow
  <2> QED  BY <2>1 DEF Mid2
<1>2. st.bricks \in Seq(BrickRow) /\ st.trips \in Int  BY DEF BrickState
<1>3. base \in BrickState  BY DEF BrickState
<1> HIDE DEF base, mid
<1>4. fed \in BrickState  BY <1>1, <1>3, FeedType
<1> HIDE DEF fed
<1>5. back \in BrickState  BY <1>2, <1>4 DEF BrickState
<1>6. reseeded \in BrickState
  <2>1. ASSUME NEW m \in Int  PROVE [st EXCEPT !.trips = 0, !.close = m] \in BrickState
    <3>1. [st EXCEPT !.trips = 0, !.close = m] = [[st EXCEPT !.trips = 0] EXCEPT !.close = m]  BY DEF BrickState
    <3>2. [st EXCEPT !.trips = 0] \in BrickState  BY DEF BrickState
    <3> QED  BY <3>1, <3>2 DEF BrickState
  <2> QED  BY <1>1, <2>1
<1>7. tripped \in BrickState  BY <1>2 DEF BrickState
<1>8. FeedRow(st, k, from, r) \in {st, reseeded, tripped, back, fed}  BY DEF FeedRow, fed, base, mid
<1> QED  BY <1>4, <1>5, <1>6, <1>7, <1>8

LEMMA BricksAre ==
  ASSUME NEW rows \in Seq(TimedRow), NEW k \in Nat \ {0}
  PROVE  BricksOf(rows, k) \in Seq(BrickRow)
<1> DEFINE N == Len(rows)
           from == BootstrapEnd(rows)
           F == [i \in 1..N |-> [s \in BrickState |-> FeedRow(s, k, from, rows[i])]]
           E(g) == g = [i \in 0..N |-> IF i = 0 THEN NoBrick ELSE FeedRow(g[i - 1], k, from, rows[i])]
           c == CHOOSE g : E(g)
<1>1. N \in Nat /\ \A i \in 1..N : rows[i] \in TimedRow  BY LenProperties
<1> HIDE DEF from
<1>2. \A i \in 1..N : \A s \in BrickState : F[i][s] = FeedRow(s, k, from, rows[i]) /\ F[i][s] \in BrickState
  BY <1>1, FeedRowType
<1>3. NoBrick \in BrickState
  <2>1. <<>> \in Seq(BrickRow)  OBVIOUS
  <2> QED  BY <2>1, ZeroTime DEF NoBrick, BrickState
<1>4. PICK g : Folded(g, N, BrickState, NoBrick, F)
  <2> HIDE DEF F, N
  <2> QED  BY <1>1, <1>2, <1>3, FoldIs
<1>5. 0 \in 0..N /\ \A i \in 0..N : i # 0 => i \in 1..N /\ i - 1 \in 0..N  BY <1>1
<1>6. E(g)
  <2>1. \A i \in 0..N : g[i] = IF i = 0 THEN NoBrick ELSE F[i][g[i - 1]]  BY <1>4 DEF Folded
  <2>2. g = [i \in 0..N |-> g[i]]  BY <1>4 DEF Folded
  <2>3. \A i \in 0..N : i # 0 => g[i - 1] \in BrickState  BY <1>4, <1>5 DEF Folded
  <2> HIDE DEF F, N
  <2>4. \A i \in 0..N : g[i] = IF i = 0 THEN NoBrick ELSE FeedRow(g[i - 1], k, from, rows[i])
    BY <1>2, <1>5, <2>1, <2>3
  <2> QED  BY <2>2, <2>4
<1>7. E(c)  BY <1>6
<1>8. BricksOf(rows, k) = c[N].bricks  BY DEF BricksOf, from
<1> HIDE DEF c, F, N
<1>9. \A i \in 0..N : c[i] = IF i = 0 THEN NoBrick ELSE FeedRow(c[i - 1], k, from, rows[i])  BY <1>7
<1> DEFINE T == {i \in 0..N : c[i] \in BrickState}
<1>10. 0 \in T  BY <1>3, <1>5, <1>9
<1>11. ASSUME NEW n \in 0..(N - 1), n \in T  PROVE n + 1 \in T
  <2>1. n + 1 \in 1..N /\ n + 1 \in 0..N /\ (n + 1) - 1 = n /\ n + 1 # 0  BY <1>1
  <2>2. c[n] \in BrickState /\ c[n + 1] = FeedRow(c[n], k, from, rows[n + 1])  BY <1>9, <1>11, <2>1
  <2>3. c[n + 1] \in BrickState  BY <1>1, <2>1, <2>2, FeedRowType
  <2> QED  BY <2>1, <2>3
<1> HIDE DEF T
<1>12. 0..N \subseteq T  BY <1>1, <1>10, <1>11, Upwards
<1>13. N \in T  BY <1>1, <1>12
<1>14. c[N] \in BrickState  BY <1>13 DEF T
<1>15. c[N].bricks \in Seq(BrickRow)  BY <1>14 DEF BrickState
<1> QED  BY <1>8, <1>15

WellBricked(shards) ==
  /\ DOMAIN shards \subseteq 0..CurrentDay
  /\ \A d \in DOMAIN shards : shards[d] \in Seq(BrickRow)

LEMMA ShardsOfBricks ==
  ASSUME NEW bricks \in Seq(BrickRow)
  PROVE  WellBricked(ByDate(bricks))
<1>1. ASSUME NEW d \in DaysOf(bricks)  PROVE d \in 0..CurrentDay
  <2>1. PICK b \in ToSet(bricks) : d = Day(b.t0)  BY DEF DaysOf
  <2>2. b \in BrickRow
    <3>1. DOMAIN bricks = 1..Len(bricks)  OBVIOUS
    <3> QED  BY <2>1, <3>1 DEF ToSet
  <2>3. b.t0 \in Time  BY <2>2 DEF BrickRow
  <2>4. b.t0 \in Nat /\ Day(b.t0) <= CurrentDay  BY <2>3 DEF Time
  <2> QED  BY <2>1, <2>4, DayIs, QualityAssumption
<1>2. \A d \in DaysOf(bricks) : ByDate(bricks)[d] \in Seq(BrickRow)  BY ByDateIs, OnlyIs
<1> QED  BY <1>1, <1>2, ByDateIs DEF WellBricked
-----------------------------------------------------------------------------
\* The invariant.

Dirs(i) ==
  /\ i = [d \in DOMAIN i |-> i[d]] /\ DOMAIN i \subseteq 0..CurrentDay
  /\ \A d \in DOMAIN i : IsShard(i[d], d)

IdxInv ==
  /\ world \in Worlds /\ Dirs(idx)
  /\ world.late \ DOMAIN idx # {} => DOMAIN idx = DOMAIN world.idx \ world.late

PairInv ==
  /\ clock \in Nat /\ mtime \in [idx : Nat, bak : Nat] /\ mtime.idx <= clock /\ mtime.bak <= clock
  /\ backup # None => CurrentDay \in DOMAIN idx /\ IsShard(backup, CurrentDay)
  /\ writer = "bak" => backup # None
  /\ backup # None /\ (writer = "bak" \/ mtime.bak > mtime.idx) => ToSet(idx[CurrentDay]) \subseteq ToSet(backup)

\* The scan: what it knows of the times, and what a promotion would put back.
IsCheck == check = [pc |-> check.pc, heal |-> check.heal, files |-> check.files, bak |-> check.bak,
                    orphan |-> check.orphan, code |-> check.code]

\* What was newer than the shard when it was looked at still is, or the shard has changed since.
Compared(b) == b \in Nat /\ b <= clock /\ (mtime.bak >= b \/ mtime.idx > b)

ScanInv ==
  /\ IsCheck
  /\ check.pc \in {"compare", "promote"} => backup # None
  /\ check.pc = "compare" => Compared(check.bak)
  /\ check.pc = "promote" => ToSet(idx[CurrentDay]) \subseteq ToSet(backup) \cup unseen

SeriesInv == WellBarred(s10) /\ WellBricked(renko) /\ params \in 0..Len(world.ks)

Plan == ByDate(BarsOf(job.rows))

JobInv ==
  /\ job = [pc |-> job.pc, out |-> job.out, rows |-> job.rows, k |-> job.k]
  /\ job.pc \in {"idle", "s10", "renko"}
  /\ job.pc = "s10" =>
       /\ job.rows \in Seq(IndexRow) /\ DOMAIN job.out \subseteq DOMAIN Plan
       /\ \A d \in DOMAIN job.out : job.out[d] = Plan[d]
       /\ \A d \in DOMAIN Plan \ DOMAIN job.out : d \in DOMAIN s10 /\ s10[d] = Plan[d]
  /\ job.pc = "renko" => WellBricked(job.out)

CertInv ==
  /\ cert.pc = "read" => Dirs(cert.in)
  /\ cert.verdict = "PASS" =>
       /\ cert.in.from = 0 /\ cert.in.to = CurrentDay /\ Verdict(cert.in) = "PASS"
       /\ Dirs(cert.in.idx) /\ WellBricked(cert.in.renko)

QualityInv == IdxInv /\ PairInv /\ ScanInv /\ SeriesInv /\ JobInv /\ CertInv

LEMMA WorldIs ==
  ASSUME NEW w \in Worlds
  PROVE  /\ DOMAIN w.idx \subseteq 0..CurrentDay /\ w.late \subseteq DOMAIN w.idx
         /\ \A d \in DOMAIN w.idx : IsShard(w.idx[d], d)
         /\ w.ks \in Seq(Nat \ {0}) /\ Len(w.ks) \in Nat
<1>1. w.ks \in Seq(Nat \ {0})  BY QualityAssumption
<1> QED  BY <1>1, QualityAssumption

LEMMA EmptyDirs == DOMAIN <<>> = {}
  OBVIOUS

LEMMA QualityStarts == QualityInit => QualityInv
<1> SUFFICES ASSUME QualityInit PROVE QualityInv
  OBVIOUS
<1>1. world \in Worlds /\ idx = [d \in DOMAIN world.idx \ world.late |-> world.idx[d]]  BY DEF QualityInit
<1>2. IdxInv
  <2>1. DOMAIN idx = DOMAIN world.idx \ world.late /\ \A d \in DOMAIN idx : idx[d] = world.idx[d]  BY <1>1
  <2>2. idx = [d \in DOMAIN idx |-> idx[d]]  BY <1>1
  <2> QED  BY <1>1, <2>1, <2>2, WorldIs DEF IdxInv, Dirs
<1>3. PairInv
  <2>1. clock = 0 /\ mtime = [idx |-> 0, bak |-> 0] /\ writer = "idx" /\ backup = None  BY DEF QualityInit
  <2> QED  BY <2>1 DEF PairInv
<1>7. ScanInv  BY DEF QualityInit, NoCheck, ScanInv, IsCheck
<1>4. SeriesInv
  <2>1. s10 = <<>> /\ renko = <<>> /\ params = 0  BY DEF QualityInit
  <2>2. 0 \in Nat /\ DOMAIN <<>> \subseteq 0..0 /\ DOMAIN <<>> \subseteq 0..CurrentDay  BY EmptyDirs
  <2>3. params \in 0..Len(world.ks)  BY <1>1, <2>1, WorldIs
  <2> QED  BY <2>1, <2>2, <2>3, EmptyDirs DEF SeriesInv, WellBarred, WellBricked
<1>5. JobInv  BY DEF QualityInit, Idle, JobInv
<1>6. CertInv  BY QualityAssumption DEF QualityInit, NoCert, CertInv
<1> QED  BY <1>2, <1>7, <1>3, <1>4, <1>5, <1>6 DEF QualityInv

LEMMA DirsDated ==
  ASSUME NEW i, Dirs(i), NEW to
  PROVE  /\ Dated(i, TimedRow) /\ RowsOf(i) \in Seq(TimedRow) /\ RowsOf(i) \in Seq(IndexRow)
         /\ RowsOf(UpTo(i, to)) \in Seq(IndexRow)
         /\ UpTo(i, CurrentDay) = i
<1>1. CurrentDay \in Nat  BY QualityAssumption
<1>2. ASSUME NEW d \in DOMAIN i  PROVE i[d] \in Seq(TimedRow) /\ i[d] \in Seq(IndexRow)
  <2>1. i[d] \in Seq(IndexRow) /\ \A p \in DOMAIN i[d] : Day(i[d][p].t) = d  BY DEF Dirs, IsShard
  <2>2. \A p \in 1..Len(i[d]) : i[d][p] \in TimedRow
    <3> TAKE p \in 1..Len(i[d])
    <3>1. i[d][p] \in IndexRow /\ p \in DOMAIN i[d]  BY <2>1
    <3>2. i[d][p].t \in Nat  BY <3>1 DEF IndexRow
    <3>3. Day(i[d][p].t) <= CurrentDay  BY <1>1, <2>1, <3>1 DEF Dirs
    <3> QED  BY <3>1, <3>2, <3>3 DEF TimedRow, Time
  <2>3. i[d] = [p \in 1..Len(i[d]) |-> i[d][p]] /\ Len(i[d]) \in Nat  BY <2>1
  <2>4. i[d] \in Seq(TimedRow)  BY <2>2, <2>3
  <2> QED  BY <2>1, <2>4
<1>3. Dated(i, TimedRow) /\ Dated(i, IndexRow)  BY <1>1, <1>2 DEF Dated, Dirs
<1>4. Dated(UpTo(i, to), IndexRow)
  <2>1. \A d \in DOMAIN UpTo(i, to) : d \in DOMAIN i /\ UpTo(i, to)[d] = i[d]  BY DEF UpTo
  <2> QED  BY <1>1, <1>2, <2>1 DEF Dated, Dirs
<1>5. UpTo(i, CurrentDay) = i
  <2>1. {e \in DOMAIN i : e <= CurrentDay} = DOMAIN i  BY <1>1 DEF Dirs
  <2> QED  BY <2>1 DEF UpTo, Dirs
<1> QED  BY <1>3, <1>4, <1>5, RowsAre

LEMMA PutIs ==
  ASSUME NEW shards, NEW d, NEW rows
  PROVE  LET p == WithShard(shards, d, rows)
         IN /\ DOMAIN p = {d} \cup DOMAIN shards /\ p[d] = rows
            /\ \A e \in DOMAIN shards : e # d => p[e] = shards[e]
            /\ p = [e \in DOMAIN p |-> p[e]]
  BY DEF WithShard

LEMMA OnlyElements ==
  ASSUME NEW A, NEW s \in Seq(A), NEW I
  PROVE  ToSet(Only(s, I)) \subseteq ToSet(s) /\ Only(s, I) \in Seq(A)
<1> DEFINE o == Only(s, I)
<1>1. o \in Seq(A) /\ \E f : Picks(f, o, s, I, Len(s))  BY OnlyIs
<1> HIDE DEF o
<1>2. PICK f : Picks(f, o, s, I, Len(s))  BY <1>1
<1>3. \A k \in 1..Len(o) : f[k] \in 1..Len(s) /\ o[k] = s[f[k]]  BY <1>2 DEF Picks
<1>4. DOMAIN o = 1..Len(o) /\ DOMAIN s = 1..Len(s)  BY <1>1
<1>5. ToSet(o) \subseteq ToSet(s)  BY <1>3, <1>4 DEF ToSet
<1> QED  BY <1>1, <1>5 DEF o

LEMMA ThinIs ==
  ASSUME NEW rows, NEW d, IsShard(rows, d)
  PROVE  IsShard(Thin(rows), d) /\ ToSet(Thin(rows)) \subseteq ToSet(rows)
<1>1. rows \in Seq(IndexRow)  BY DEF IsShard
<1> DEFINE I == {i \in DOMAIN rows : \A r \in ToSet(rows) : Bucket(r.t) = Bucket(rows[i].t) => r.t <= rows[i].t}
           o == Only(rows, I)
<1>2. Thin(rows) = o  BY DEF Thin
<1> HIDE DEF I
<1>3. ToSet(o) \subseteq ToSet(rows) /\ o \in Seq(IndexRow)  BY <1>1, OnlyElements
<1> HIDE DEF o
<1>4. \A r \in ToSet(rows) : Day(r.t) = d  BY DEF IsShard, ToSet
<1>5. \A k \in DOMAIN o : o[k] \in ToSet(o)  BY DEF ToSet
<1> QED  BY <1>2, <1>3, <1>4, <1>5 DEF IsShard

LEMMA TimesOfDay ==
  ASSUME NEW rows, IsShard(rows, CurrentDay), NEW r \in ToSet(rows)
  PROVE  r.t \in Nat /\ r.t <= DayLen * CurrentDay + DayLen
<1>1. CurrentDay \in Nat /\ DayLen \in Nat \ {0}  BY QualityAssumption, BarIs
<1>2. rows \in Seq(IndexRow) /\ \A i \in DOMAIN rows : Day(rows[i].t) = CurrentDay  BY DEF IsShard
<1>3. r \in IndexRow /\ Day(r.t) = CurrentDay
  <2>1. PICK i \in DOMAIN rows : r = rows[i]  BY DEF ToSet
  <2> QED  BY <1>2, <2>1
<1>4. r.t \in Nat  BY <1>3 DEF IndexRow
<1>5. r.t < DayLen * Day(r.t) + DayLen  BY <1>4, BarIs, Quotient DEF Day
<1>6. DayLen * CurrentDay \in Nat  BY <1>1
<1> QED  BY <1>1, <1>3, <1>4, <1>5, <1>6

LEMMA NextRowIs ==
  ASSUME IsShard(idx[CurrentDay], CurrentDay), backup # None => IsShard(backup, CurrentDay)
  PROVE  NextRow \in IndexRow
<1> DEFINE S == {CurrentDay * DayLen - 1} \cup {r.t : r \in TodayRows}
           b == DayLen * CurrentDay + DayLen
<1>1. CurrentDay \in Nat /\ DayLen \in Nat \ {0} /\ LiveRow \in IndexRow  BY QualityAssumption, BarIs
<1>2. CurrentDay * DayLen \in Nat /\ CurrentDay * DayLen = DayLen * CurrentDay  BY <1>1
<1>3. \A r \in TodayRows : r.t \in Nat /\ r.t <= b
  <2>1. \A r \in ToSet(idx[CurrentDay]) : r.t \in Nat /\ r.t <= b  BY TimesOfDay
  <2>2. backup # None => \A r \in ToSet(backup) : r.t \in Nat /\ r.t <= b  BY TimesOfDay
  <2> QED  BY <2>1, <2>2 DEF TodayRows
<1>4. b \in Int /\ CurrentDay * DayLen - 1 <= b /\ CurrentDay * DayLen - 1 \in Int  BY <1>1, <1>2
<1> HIDE DEF b
<1>5. S \subseteq Int /\ S # {} /\ \A s \in S : s <= b  BY <1>3, <1>4
<1>6. Max(S) \in S /\ \A s \in S : s <= Max(S)  BY <1>4, <1>5, MaxBounded
<1>7. CurrentDay * DayLen - 1 \in S  OBVIOUS
<1>8. NextRow = [LiveRow EXCEPT !.t = Max(S) + 1]  BY DEF NextRow
<1> HIDE DEF S
<1>9. Max(S) \in Int /\ CurrentDay * DayLen - 1 <= Max(S)  BY <1>5, <1>6, <1>7
<1>10. Max(S) + 1 \in Nat  BY <1>2, <1>9
<1> QED  BY <1>1, <1>8, <1>10 DEF IndexRow

LEMMA AppendedShard ==
  ASSUME NEW rows, IsShard(rows, CurrentDay), NEW r \in IndexRow, Day(r.t) = CurrentDay
  PROVE  /\ IsShard(Append(rows, r), CurrentDay)
         /\ ToSet(rows) \subseteq ToSet(Append(rows, r))
         /\ ToSet(Append(rows, r)) \subseteq ToSet(rows) \cup {r}
<1> DEFINE a == Append(rows, r)
<1>1. rows \in Seq(IndexRow) /\ \A i \in DOMAIN rows : Day(rows[i].t) = CurrentDay  BY DEF IsShard
<1>2. a \in Seq(IndexRow) /\ Len(a) = Len(rows) + 1 /\ a[Len(rows) + 1] = r
      /\ \A i \in 1..Len(rows) : a[i] = rows[i]
  BY <1>1
<1>3. DOMAIN a = 1..(Len(rows) + 1) /\ DOMAIN rows = 1..Len(rows) /\ Len(rows) \in Nat  BY <1>1, <1>2
<1> HIDE DEF a
<1>4. \A i \in DOMAIN a : (i \in DOMAIN rows /\ a[i] = rows[i]) \/ a[i] = r
  <2> TAKE i \in DOMAIN a
  <2>1. i \in 1..Len(rows) \/ i = Len(rows) + 1  BY <1>3
  <2> QED  BY <1>2, <1>3, <2>1
<1>5. ToSet(rows) \subseteq ToSet(a)
  <2>1. \A i \in 1..Len(rows) : i \in DOMAIN a  BY <1>3
  <2> QED  BY <1>2, <1>3, <2>1 DEF ToSet
<1>6. ToSet(a) \subseteq ToSet(rows) \cup {r}  BY <1>4 DEF ToSet
<1> QED  BY <1>1, <1>2, <1>4, <1>5, <1>6 DEF IsShard, a

LEMMA ShardNotNone ==
  ASSUME NEW rows, NEW d, IsShard(rows, d)
  PROVE  rows # None
  BY QualityAssumption DEF IsShard
-----------------------------------------------------------------------------
\* One step.

LEMMA IdxKept == IdxInv /\ UNCHANGED <<world, idx>> => IdxInv'
  BY DEF IdxInv, Dirs, IsShard
LEMMA PairKept == PairInv /\ UNCHANGED <<idx, pair>> => PairInv'
  BY DEF PairInv, pair
LEMMA ComparedKept ==
  ASSUME NEW b, Compared(b), clock \in Nat, clock' = clock + 1, mtime.bak \in Nat, mtime.idx \in Nat,
         \/ UNCHANGED mtime
         \/ mtime'.idx = clock'
         \/ mtime'.bak = clock' /\ mtime'.idx = mtime.idx
  PROVE  Compared(b)'
<1>1. b \in Nat /\ b <= clock' /\ clock' > b  BY DEF Compared
<1>2. CASE UNCHANGED mtime  BY <1>1, <1>2 DEF Compared
<1>3. CASE mtime'.idx = clock'  BY <1>1, <1>3 DEF Compared
<1>4. CASE mtime'.bak = clock' /\ mtime'.idx = mtime.idx  BY <1>1, <1>4 DEF Compared
<1> QED  BY <1>2, <1>3, <1>4

LEMMA ScanKept == ScanInv /\ UNCHANGED <<idx, pair, check>> => ScanInv'
  BY DEF ScanInv, IsCheck, Compared, pair
LEMMA SeriesKept == SeriesInv /\ UNCHANGED <<world, s10, renko, params>> => SeriesInv'
  BY DEF SeriesInv
LEMMA JobKept == JobInv /\ UNCHANGED <<job, s10>> => JobInv'
  BY DEF JobInv, Plan
LEMMA CertKept == CertInv /\ UNCHANGED cert => CertInv'
  BY DEF CertInv

\* A directory that keeps its days.
LEMMA IdxReplaced ==
  ASSUME IdxInv, UNCHANGED world, DOMAIN idx' = DOMAIN idx, idx' = [d \in DOMAIN idx' |-> idx'[d]],
         CurrentDay \in DOMAIN idx, IsShard(idx'[CurrentDay], CurrentDay),
         \A d \in DOMAIN idx : d # CurrentDay => idx'[d] = idx[d]
  PROVE  IdxInv'
<1>1. \A d \in DOMAIN idx' : IsShard(idx'[d], d)
  <2> TAKE d \in DOMAIN idx'
  <2>1. CASE d = CurrentDay  BY <2>1
  <2>2. CASE d # CurrentDay  BY <2>2 DEF IdxInv, Dirs
  <2> QED  BY <2>1, <2>2
<1>2. Dirs(idx')  BY <1>1 DEF IdxInv, Dirs
<1> QED  BY <1>2 DEF IdxInv

LEMMA ArriveStep ==
  ASSUME QualityInv, Arrive  PROVE QualityInv'
<1>1. /\ world.late \ DOMAIN idx # {}
      /\ idx' = [d \in world.late \cup DOMAIN idx |-> IF d \in world.late THEN world.idx[d] ELSE idx[d]]
      /\ UNCHANGED <<world, series, params, pair, job, check, cert>>
  BY DEF Arrive
<1>2. IdxInv /\ PairInv /\ ScanInv /\ SeriesInv /\ JobInv /\ CertInv  BY DEF QualityInv
<1>3. world \in Worlds /\ Dirs(idx) /\ DOMAIN idx = DOMAIN world.idx \ world.late  BY <1>1, <1>2 DEF IdxInv
<1>4. IdxInv'
  <2>1. DOMAIN idx' = world.late \cup DOMAIN idx /\ idx' = [d \in DOMAIN idx' |-> idx'[d]]  BY <1>1
  <2>2. DOMAIN idx' \subseteq 0..CurrentDay  BY <1>3, <2>1, WorldIs DEF Dirs
  <2>3. \A d \in DOMAIN idx' : IsShard(idx'[d], d)
    <3> TAKE d \in DOMAIN idx'
    <3>1. CASE d \in world.late  BY <1>1, <1>3, <3>1, WorldIs
    <3>2. CASE d \notin world.late
      <4>1. d \in DOMAIN idx /\ idx'[d] = idx[d]  BY <1>1, <2>1, <3>2
      <4> QED  BY <1>3, <4>1 DEF Dirs
    <3> QED  BY <3>1, <3>2
  <2>4. Dirs(idx')  BY <2>1, <2>2, <2>3 DEF Dirs
  <2> QED  BY <1>1, <1>3, <2>1, <2>4 DEF IdxInv
<1>5. PairInv'
  <2>1. CurrentDay \in DOMAIN idx => CurrentDay \in DOMAIN idx' /\ idx'[CurrentDay] = idx[CurrentDay]  BY <1>1, <1>3
  <2>2. UNCHANGED <<backup, mtime, writer, clock>>  BY <1>1 DEF pair
  <2> QED  BY <1>2, <2>1, <2>2 DEF PairInv
<1>9. ScanInv'
  <2>1. check.pc = "promote" => CurrentDay \in DOMAIN idx  BY <1>2 DEF ScanInv, PairInv
  <2>2. CurrentDay \in DOMAIN idx => idx'[CurrentDay] = idx[CurrentDay]  BY <1>1, <1>3
  <2> QED  BY <1>1, <1>2, <2>1, <2>2 DEF ScanInv, IsCheck, Compared, pair
<1>6. SeriesInv'  BY <1>1, <1>2, SeriesKept DEF series
<1>7. JobInv'  BY <1>1, <1>2, JobKept DEF series
<1>8. CertInv'  BY <1>1, <1>2, CertKept
<1> QED  BY <1>4, <1>5, <1>6, <1>7, <1>8, <1>9 DEF QualityInv

LEMMA CalibrateStep ==
  ASSUME QualityInv, Calibrate  PROVE QualityInv'
<1>1. params < Len(world.ks) /\ params' = params + 1 /\ UNCHANGED <<world, idx, series, pair, job, check, cert>>
  BY DEF Calibrate
<1>2. IdxInv /\ PairInv /\ ScanInv /\ SeriesInv /\ JobInv /\ CertInv  BY DEF QualityInv
<1>3. SeriesInv'
  <2>1. Len(world.ks) \in Nat  BY <1>2, WorldIs DEF IdxInv
  <2>2. UNCHANGED <<world, s10, renko>>  BY <1>1 DEF series
  <2>3. params' \in 0..Len(world.ks)  BY <1>1, <1>2, <2>1 DEF SeriesInv
  <2> QED  BY <1>2, <2>2, <2>3 DEF SeriesInv
<1> QED  BY <1>1, <1>2, <1>3, IdxKept, PairKept, ScanKept, JobKept, CertKept DEF QualityInv, series

LEMMA S10StartStep ==
  ASSUME QualityInv, NEW to, S10Start(to)  PROVE QualityInv'
<1>1. /\ job' = [pc |-> "s10", out |-> S10Shards(idx, to), rows |-> RowsOf(UpTo(idx, to)), k |-> None]
      /\ UNCHANGED <<world, idx, series, params, pair, check, cert>>
  BY DEF S10Start
<1>2. IdxInv /\ PairInv /\ ScanInv /\ SeriesInv /\ JobInv /\ CertInv  BY DEF QualityInv
<1> DEFINE rows == RowsOf(UpTo(idx, to))
           out == ByDate(BarsOf(rows))
<1>3. rows \in Seq(IndexRow)  BY <1>2, DirsDated DEF IdxInv
<1>4. job' = [pc |-> "s10", out |-> out, rows |-> rows, k |-> None]  BY <1>1 DEF S10Shards
<1> HIDE DEF rows
<1>5. Plan' = out  BY <1>4 DEF Plan
<1> HIDE DEF out
<1>6. JobInv'  BY <1>3, <1>4, <1>5 DEF JobInv
<1> QED  BY <1>1, <1>2, <1>6, IdxKept, PairKept, ScanKept, SeriesKept, CertKept DEF QualityInv, series

LEMMA RenkoStartStep ==
  ASSUME QualityInv, RenkoStart  PROVE QualityInv'
<1>1. /\ K # None
      /\ job' = [pc |-> "renko", out |-> RenkoShards(idx, K), rows |-> RowsOf(idx), k |-> K]
      /\ UNCHANGED <<world, idx, series, params, pair, check, cert>>
  BY DEF RenkoStart
<1>2. IdxInv /\ PairInv /\ ScanInv /\ SeriesInv /\ JobInv /\ CertInv  BY DEF QualityInv
<1>3. K \in Nat \ {0}
  <2>1. world.ks \in Seq(Nat \ {0}) /\ Len(world.ks) \in Nat  BY <1>2, WorldIs DEF IdxInv
  <2>2. params # 0 /\ params \in 0..Len(world.ks)  BY <1>1, <1>2 DEF K, SeriesInv
  <2>3. params \in 1..Len(world.ks)  BY <2>1, <2>2
  <2> QED  BY <2>1, <2>2, <2>3 DEF K
<1>4. WellBricked(RenkoShards(idx, K))
  <2>1. RowsOf(idx) \in Seq(TimedRow)  BY <1>2, DirsDated DEF IdxInv
  <2> QED  BY <1>3, <2>1, BricksAre, ShardsOfBricks DEF RenkoShards
<1> DEFINE out == RenkoShards(idx, K)
           rows == RowsOf(idx)
           k == K
<1>5. job' = [pc |-> "renko", out |-> out, rows |-> rows, k |-> k]  BY <1>1
<1>6. WellBricked(out)  BY <1>4
<1> HIDE DEF out, rows, k
<1>7. JobInv'  BY <1>5, <1>6 DEF JobInv
<1> QED  BY <1>1, <1>2, <1>7, IdxKept, PairKept, ScanKept, SeriesKept, CertKept DEF QualityInv, series

LEMMA WriteShardStep ==
  ASSUME QualityInv, WriteShard  PROVE QualityInv'
<1> DEFINE d == Min(DOMAIN job.out)
<1>1. /\ job.pc # "idle" /\ DOMAIN job.out # {}
      /\ job' = [job EXCEPT !.out = [e \in DOMAIN @ \ {d} |-> @[e]]]
      /\ s10' = IF job.pc = "s10" THEN WithShard(s10, d, job.out[d]) ELSE s10
      /\ renko' = IF job.pc = "renko" THEN WithShard(renko, d, job.out[d]) ELSE renko
      /\ UNCHANGED <<world, idx, stamp, params, pair, check, cert>>
  BY DEF WriteShard, Written
<1>2. IdxInv /\ PairInv /\ ScanInv /\ SeriesInv /\ JobInv /\ CertInv  BY DEF QualityInv
<1>3. DOMAIN job.out \subseteq Nat
  <2>1. CASE job.pc = "s10"
    <3>1. job.rows \in Seq(IndexRow) /\ DOMAIN job.out \subseteq DOMAIN Plan  BY <1>2, <2>1 DEF JobInv
    <3>2. BarsOf(job.rows) \in Seq(BarRow)  BY <3>1, BarsAre
    <3>3. \A e \in DOMAIN Plan : e \in Nat
      <4> DEFINE bars == BarsOf(job.rows)
      <4> HIDE DEF bars
      <4>1. DOMAIN Plan = DaysOf(bars)  BY ByDateIs DEF Plan, bars
      <4>2. \A b \in ToSet(bars) : b \in BarRow
        <5>1. DOMAIN bars = 1..Len(bars)  BY <3>2 DEF bars
        <5> QED  BY <3>2, <5>1 DEF ToSet, bars
      <4>3. \A b \in ToSet(bars) : b.t0 \in Nat  BY <4>2 DEF BarRow
      <4> QED  BY <4>1, <4>3, DayIs DEF DaysOf
    <3> QED  BY <3>1, <3>3
  <2>2. CASE job.pc = "renko"  BY <1>2, <2>2, QualityAssumption DEF JobInv, WellBricked
  <2> QED  BY <1>1, <1>2, <2>1, <2>2 DEF JobInv
<1>4. d \in DOMAIN job.out /\ d \in Nat  BY <1>1, <1>3, MinBounded
<1> HIDE DEF d
<1> DEFINE left == [e \in DOMAIN job.out \ {d} |-> job.out[e]]
<1>5. job' = [pc |-> job.pc, out |-> left, rows |-> job.rows, k |-> job.k]
  <2>1. job = [pc |-> job.pc, out |-> job.out, rows |-> job.rows, k |-> job.k]  BY <1>2 DEF JobInv
  <2>2. job' = [job EXCEPT !.out = left]  BY <1>1
  <2> HIDE DEF left
  <2> QED  BY <2>1, <2>2
<1>6. DOMAIN left = DOMAIN job.out \ {d} /\ \A e \in DOMAIN left : left[e] = job.out[e]  OBVIOUS
<1> HIDE DEF left
<1>7. job'.pc = job.pc /\ job'.out = left /\ job'.rows = job.rows /\ job'.k = job.k  BY <1>5
<1>8. CASE job.pc = "s10"
  <2>1. s10' = WithShard(s10, d, job.out[d]) /\ renko' = renko  BY <1>1, <1>8
  <2>2. /\ job.rows \in Seq(IndexRow) /\ DOMAIN job.out \subseteq DOMAIN Plan
        /\ \A e \in DOMAIN job.out : job.out[e] = Plan[e]
        /\ \A e \in DOMAIN Plan \ DOMAIN job.out : e \in DOMAIN s10 /\ s10[e] = Plan[e]
    BY <1>2, <1>8 DEF JobInv
  <2>3. Plan' = Plan  BY <1>7 DEF Plan
  <2>4. /\ DOMAIN s10' = {d} \cup DOMAIN s10 /\ s10'[d] = job.out[d]
        /\ \A e \in DOMAIN s10 : e # d => s10'[e] = s10[e]
    BY <2>1 DEF WithShard
  <2>5. JobInv'
    <3>1. \A e \in DOMAIN Plan \ DOMAIN left : e \in DOMAIN s10' /\ s10'[e] = Plan[e]
      <4> TAKE e \in DOMAIN Plan \ DOMAIN left
      <4>1. CASE e = d  BY <1>4, <2>2, <2>4, <4>1
      <4>2. CASE e # d
        <5>1. e \in DOMAIN Plan \ DOMAIN job.out  BY <1>6, <4>2
        <5> QED  BY <2>2, <2>4, <4>2, <5>1
      <4> QED  BY <4>1, <4>2
    <3>2. DOMAIN left \subseteq DOMAIN Plan /\ \A e \in DOMAIN left : left[e] = Plan[e]  BY <1>6, <2>2
    <3>3. job' = [pc |-> job'.pc, out |-> job'.out, rows |-> job'.rows, k |-> job'.k]  BY <1>5, <1>7
    <3> QED  BY <1>7, <1>8, <2>2, <2>3, <3>1, <3>2, <3>3 DEF JobInv
  <2>6. WellBarred(s10')
    <3>1. BarShard(job.out[d], d)
      <4>1. d \in DOMAIN ByDate(BarsOf(job.rows)) /\ job.out[d] = ByDate(BarsOf(job.rows))[d]  BY <1>4, <2>2 DEF Plan
      <4> QED  BY <2>2, <4>1, ShardsOfBars
    <3>2. \A e \in DOMAIN s10' : BarShard(s10'[e], e)
      <4> TAKE e \in DOMAIN s10'
      <4>1. CASE e = d  BY <2>4, <3>1, <4>1
      <4>2. CASE e # d  BY <1>2, <2>4, <4>2 DEF SeriesInv, WellBarred
      <4> QED  BY <4>1, <4>2
    <3>3. PICK m \in Nat : DOMAIN s10 \subseteq 0..m  BY <1>2 DEF SeriesInv, WellBarred
    <3>4. DOMAIN s10' \subseteq 0..(m + d) /\ m + d \in Nat
      <4>1. \A e \in 0..m : e \in 0..(m + d)  BY <1>4
      <4>2. d \in 0..(m + d)  BY <1>4
      <4> QED  BY <1>4, <2>4, <3>3, <4>1, <4>2
    <3> QED  BY <3>2, <3>4 DEF WellBarred
  <2>7. SeriesInv'  BY <1>1, <1>2, <2>1, <2>6 DEF SeriesInv
  <2> QED  BY <1>1, <1>2, <2>5, <2>7, IdxKept, PairKept, ScanKept, CertKept DEF QualityInv
<1>9. CASE job.pc = "renko"
  <2>1. s10' = s10 /\ renko' = WithShard(renko, d, job.out[d])  BY <1>1, <1>9
  <2>2. WellBricked(job.out) /\ WellBricked(renko)  BY <1>2, <1>9 DEF JobInv, SeriesInv
  <2>3. JobInv'
    <3>1. WellBricked(left)  BY <1>6, <2>2 DEF WellBricked
    <3>2. job' = [pc |-> job'.pc, out |-> job'.out, rows |-> job'.rows, k |-> job'.k]  BY <1>5, <1>7
    <3> QED  BY <1>7, <1>9, <3>1, <3>2 DEF JobInv
  <2>4. /\ DOMAIN renko' = {d} \cup DOMAIN renko /\ renko'[d] = job.out[d]
        /\ \A e \in DOMAIN renko : e # d => renko'[e] = renko[e]
    BY <2>1 DEF WithShard
  <2>5. WellBricked(renko')  BY <1>4, <2>2, <2>4 DEF WellBricked
  <2>6. SeriesInv'  BY <1>1, <1>2, <2>1, <2>5 DEF SeriesInv
  <2> QED  BY <1>1, <1>2, <2>3, <2>6, IdxKept, PairKept, ScanKept, CertKept DEF QualityInv
<1> QED  BY <1>1, <1>2, <1>8, <1>9 DEF JobInv
LEMMA JobEnds ==
  ASSUME QualityInv, WriteManifest \/ Kill  PROVE QualityInv'
<1>1. job' = Idle /\ UNCHANGED <<world, idx, s10, renko, params, pair, check, cert>>
  BY DEF WriteManifest, Kill, series
<1>2. IdxInv /\ PairInv /\ ScanInv /\ SeriesInv /\ JobInv /\ CertInv  BY DEF QualityInv
<1>3. JobInv'  BY <1>1 DEF Idle, JobInv
<1> QED  BY <1>1, <1>2, <1>3, IdxKept, PairKept, ScanKept, SeriesKept, CertKept DEF QualityInv

LEMMA TouchedIs ==
  ASSUME PairInv, Touched
  PROVE  /\ CurrentDay \in DOMAIN idx /\ clock' = clock + 1 /\ clock' \in Nat
         /\ mtime.idx \in Nat /\ mtime.bak \in Nat /\ clock' > mtime.idx /\ clock' > mtime.bak
<1>1. clock \in Nat /\ mtime.idx \in Nat /\ mtime.bak \in Nat /\ mtime.idx <= clock /\ mtime.bak <= clock
  BY DEF PairInv
<1>2. CurrentDay \in DOMAIN idx /\ clock' = clock + 1  BY DEF Touched
<1> QED  BY <1>1, <1>2

LEMMA SwapStep ==
  ASSUME QualityInv, SwapToday  PROVE QualityInv'
<1>1. /\ Touched /\ backup' = idx[CurrentDay] /\ idx' = [idx EXCEPT ![CurrentDay] = Thin(@)]
      /\ mtime' = [idx |-> clock', bak |-> mtime.idx]
      /\ writer' = IF writer = "idx" THEN "bak" ELSE "gone"
      /\ UNCHANGED <<world, series, params, unseen, job, check, cert>>
  BY DEF SwapToday
<1>2. IdxInv /\ PairInv /\ ScanInv /\ SeriesInv /\ JobInv /\ CertInv  BY DEF QualityInv
<1>3. /\ CurrentDay \in DOMAIN idx /\ clock' = clock + 1 /\ clock' \in Nat
      /\ mtime.idx \in Nat /\ clock' > mtime.idx
  BY <1>1, <1>2, TouchedIs
<1>4. IsShard(idx[CurrentDay], CurrentDay)  BY <1>2, <1>3 DEF IdxInv, Dirs
<1>5. IsShard(Thin(idx[CurrentDay]), CurrentDay) /\ ToSet(Thin(idx[CurrentDay])) \subseteq ToSet(idx[CurrentDay])
  BY <1>4, ThinIs
<1>6. /\ DOMAIN idx' = DOMAIN idx /\ idx' = [d \in DOMAIN idx' |-> idx'[d]]
      /\ idx'[CurrentDay] = Thin(idx[CurrentDay])
      /\ \A d \in DOMAIN idx : d # CurrentDay => idx'[d] = idx[d]
  BY <1>1, <1>3
<1>7. IdxInv'  BY <1>1, <1>2, <1>3, <1>5, <1>6, IdxReplaced
<1>8. PairInv'
  <2>1. mtime' \in [idx : Nat, bak : Nat] /\ mtime'.idx <= clock' /\ mtime'.bak <= clock'  BY <1>1, <1>3
  <2>2. CurrentDay \in DOMAIN idx' /\ IsShard(backup', CurrentDay) /\ backup' # None  BY <1>1, <1>3, <1>4, <1>6, ShardNotNone
  <2>3. ToSet(idx'[CurrentDay]) \subseteq ToSet(backup')  BY <1>1, <1>5, <1>6
  <2> QED  BY <1>3, <2>1, <2>2, <2>3 DEF PairInv
<1>9. ScanInv'
  <2>1. backup' # None /\ ToSet(idx'[CurrentDay]) \subseteq ToSet(backup')
    BY <1>1, <1>4, <1>5, <1>6, ShardNotNone
  <2>2. clock \in Nat /\ mtime'.idx = clock + 1  BY <1>1, <1>2, <1>3 DEF PairInv
  <2>3. \A b : Compared(b) => Compared(b)'  BY <1>1, <1>2, <1>3, <2>2, ComparedKept DEF PairInv
  <2> QED  BY <1>1, <1>2, <2>1, <2>3 DEF ScanInv, IsCheck
<1> QED  BY <1>1, <1>2, <1>7, <1>8, <1>9, SeriesKept, JobKept, CertKept DEF QualityInv, series

LEMMA LiveWriteStep ==
  ASSUME QualityInv, LiveWrite  PROVE QualityInv'
<1>1. Touched /\ Day(NextRow.t) = CurrentDay /\ UNCHANGED <<world, series, params, writer, job, check, cert>>
  BY DEF LiveWrite
<1>2. IdxInv /\ PairInv /\ ScanInv /\ SeriesInv /\ JobInv /\ CertInv  BY DEF QualityInv
<1>3. /\ CurrentDay \in DOMAIN idx /\ clock' = clock + 1 /\ clock' \in Nat /\ clock \in Nat
      /\ mtime.idx \in Nat /\ mtime.bak \in Nat /\ clock' > mtime.idx /\ clock' > mtime.bak
  BY <1>1, <1>2, TouchedIs DEF PairInv
<1>4. IsShard(idx[CurrentDay], CurrentDay) /\ mtime \in [idx : Nat, bak : Nat]  BY <1>2, <1>3 DEF IdxInv, Dirs, PairInv
<1>5. NextRow \in IndexRow  BY <1>2, <1>4, NextRowIs DEF PairInv
<1>6. IdxInv' /\ PairInv' /\ ScanInv'
  <2>1. CASE /\ writer = "idx"
             /\ idx' = [idx EXCEPT ![CurrentDay] = Append(@, NextRow)]
             /\ mtime' = [mtime EXCEPT !.idx = clock']
             /\ unseen' = IF check.pc = "promote" THEN unseen \cup {NextRow} ELSE unseen
             /\ UNCHANGED backup
    <3> DEFINE a == Append(idx[CurrentDay], NextRow)
    <3>1. IsShard(a, CurrentDay) /\ ToSet(a) \subseteq ToSet(idx[CurrentDay]) \cup {NextRow}
      BY <1>1, <1>4, <1>5, AppendedShard
    <3>2. /\ DOMAIN idx' = DOMAIN idx /\ idx' = [d \in DOMAIN idx' |-> idx'[d]]
          /\ idx'[CurrentDay] = a
          /\ \A d \in DOMAIN idx : d # CurrentDay => idx'[d] = idx[d]
      BY <1>3, <2>1
    <3> HIDE DEF a
    <3>3. IdxInv'  BY <1>1, <1>2, <1>3, <3>1, <3>2, IdxReplaced
    <3>4. mtime' \in [idx : Nat, bak : Nat] /\ mtime'.idx = clock' /\ mtime'.bak = mtime.bak  BY <1>3, <1>4, <2>1
    <3>5. mtime'.idx <= clock' /\ mtime'.bak <= clock' /\ ~ mtime'.bak > mtime'.idx  BY <1>3, <3>4
    <3>6. writer' = "idx" /\ backup' = backup  BY <1>1, <2>1
    <3>7. backup' # None => CurrentDay \in DOMAIN idx' /\ IsShard(backup', CurrentDay)
      BY <1>2, <1>3, <3>2, <3>6 DEF PairInv
    <3>8. PairInv'  BY <1>3, <3>4, <3>5, <3>6, <3>7 DEF PairInv
    <3>9. \A b : Compared(b) => Compared(b)'  BY <1>3, <3>4, ComparedKept
    <3>10. check.pc = "promote" => ToSet(idx'[CurrentDay]) \subseteq ToSet(backup') \cup unseen'
      BY <1>2, <2>1, <3>1, <3>2 DEF ScanInv
    <3>11. ScanInv'  BY <1>1, <1>2, <3>6, <3>9, <3>10 DEF ScanInv, IsCheck
    <3> QED  BY <3>3, <3>8, <3>11
  <2>2. CASE /\ writer = "bak"
             /\ backup' = Append(backup, NextRow)
             /\ mtime' = [mtime EXCEPT !.bak = clock']
             /\ UNCHANGED <<idx, unseen>>
    <3>1. backup # None /\ IsShard(backup, CurrentDay) /\ ToSet(idx[CurrentDay]) \subseteq ToSet(backup)
      BY <1>2, <2>2 DEF PairInv
    <3>2. IsShard(backup', CurrentDay) /\ ToSet(backup) \subseteq ToSet(backup')
      BY <1>1, <1>5, <2>2, <3>1, AppendedShard
    <3>3. IdxInv'  BY <1>1, <1>2, <2>2, IdxKept
    <3>4. mtime' \in [idx : Nat, bak : Nat] /\ mtime'.bak = clock' /\ mtime'.idx = mtime.idx  BY <1>3, <1>4, <2>2
    <3>5. mtime'.idx <= clock' /\ mtime'.bak <= clock'  BY <1>3, <3>4
    <3>6. ToSet(idx'[CurrentDay]) \subseteq ToSet(backup') /\ CurrentDay \in DOMAIN idx' /\ backup' # None
      BY <1>3, <2>2, <3>1, <3>2, ShardNotNone
    <3>7. PairInv'  BY <1>3, <3>2, <3>4, <3>5, <3>6 DEF PairInv
    <3>8. \A b : Compared(b) => Compared(b)'  BY <1>3, <3>4, ComparedKept
    <3>9. ScanInv'  BY <1>1, <1>2, <3>6, <3>8 DEF ScanInv, IsCheck
    <3> QED  BY <3>3, <3>7, <3>9
  <2>3. CASE writer = "gone" /\ UNCHANGED <<idx, backup, mtime, unseen>>
    <3>1. IdxInv'  BY <1>1, <1>2, <2>3, IdxKept
    <3>2. mtime'.idx <= clock' /\ mtime'.bak <= clock'  BY <1>3, <2>3
    <3>3. PairInv'  BY <1>1, <1>2, <1>3, <2>3, <3>2 DEF PairInv
    <3>4. \A b : Compared(b) => Compared(b)'  BY <1>3, <2>3, ComparedKept
    <3>5. ScanInv'  BY <1>1, <1>2, <2>3, <3>4 DEF ScanInv, IsCheck
    <3> QED  BY <3>1, <3>3, <3>5
  <2> QED  BY <2>1, <2>2, <2>3 DEF LiveWrite
<1> QED  BY <1>1, <1>2, <1>6, SeriesKept, JobKept, CertKept DEF QualityInv, series

LEMMA LiveRestartStep ==
  ASSUME QualityInv, LiveRestart  PROVE QualityInv'
<1>1. /\ Touched /\ writer' = "idx"
      /\ UNCHANGED <<world, idx, series, params, backup, mtime, unseen, job, check, cert>>
  BY DEF LiveRestart
<1>2. IdxInv /\ PairInv /\ ScanInv /\ SeriesInv /\ JobInv /\ CertInv  BY DEF QualityInv
<1>3. /\ clock' = clock + 1 /\ clock \in Nat /\ clock' \in Nat /\ clock' > mtime.idx /\ clock' > mtime.bak
      /\ mtime.idx \in Nat /\ mtime.bak \in Nat
  BY <1>1, <1>2, TouchedIs DEF PairInv
<1>4. mtime'.idx <= clock' /\ mtime'.bak <= clock'  BY <1>1, <1>3
<1>5. PairInv'  BY <1>1, <1>2, <1>3, <1>4 DEF PairInv
<1>6. \A b : Compared(b) => Compared(b)'  BY <1>1, <1>3, ComparedKept
<1>7. ScanInv'  BY <1>1, <1>2, <1>6 DEF ScanInv, IsCheck
<1> QED  BY <1>1, <1>2, <1>5, <1>7, IdxKept, SeriesKept, JobKept, CertKept DEF QualityInv, series

\* The times are read: what is newer than the shard holds all the shard does.
LEMMA ScanStep ==
  ASSUME QualityInv, ScanBackup \/ ScanShard  PROVE QualityInv'
<1>1. UNCHANGED <<world, idx, series, params, pair, job, cert>>  BY DEF ScanBackup, ScanShard
<1>2. IdxInv /\ PairInv /\ ScanInv /\ SeriesInv /\ JobInv /\ CertInv  BY DEF QualityInv
<1>3. UNCHANGED <<backup, mtime, clock, unseen>>  BY <1>1 DEF pair
<1>4. clock \in Nat /\ mtime.bak \in Nat /\ mtime.idx \in Nat /\ mtime.bak <= clock  BY <1>2 DEF PairInv
<1>5. ScanInv'
  <2>1. CASE ScanBackup
    <3>1. CASE backup = None
      <4>1. check' = [check EXCEPT !.pc = "scanned"]  BY <2>1, <3>1 DEF ScanBackup
      <4>2. check'.pc = "scanned" /\ IsCheck'  BY <1>2, <4>1 DEF ScanInv, IsCheck
      <4> QED  BY <4>2 DEF ScanInv
    <3>2. CASE backup # None
      <4>1. check' = [check EXCEPT !.pc = "compare", !.bak = mtime.bak]  BY <2>1, <3>2 DEF ScanBackup
      <4>2. check'.pc = "compare" /\ check'.bak = mtime.bak /\ IsCheck'  BY <1>2, <4>1 DEF ScanInv, IsCheck
      <4>3. Compared(mtime.bak)'  BY <1>3, <1>4 DEF Compared
      <4> QED  BY <1>3, <3>2, <4>2, <4>3 DEF ScanInv
    <3> QED  BY <3>1, <3>2
  <2>2. CASE ScanShard
    <3>1. check.pc = "compare" /\ backup # None /\ CurrentDay \in DOMAIN idx  BY <1>2, <2>2 DEF ScanShard, ScanInv, PairInv
    <3>2. CASE Orphaned /\ check.heal
      <4>1. check' = [check EXCEPT !.pc = "promote"]  BY <2>2, <3>2 DEF ScanShard
      <4>2. check'.pc = "promote" /\ IsCheck'  BY <1>2, <4>1 DEF ScanInv, IsCheck
      <4>3. PICK b : b = check.bak  OBVIOUS
      <4>6. b > mtime.idx /\ Compared(b)  BY <1>2, <3>1, <3>2, <4>3 DEF Orphaned, ScanInv
      <4>4. mtime.bak > mtime.idx  BY <1>4, <4>6 DEF Compared
      <4>5. ToSet(idx[CurrentDay]) \subseteq ToSet(backup)  BY <1>2, <3>1, <4>4 DEF PairInv
      <4> QED  BY <1>1, <1>3, <3>1, <4>2, <4>5 DEF ScanInv
    <3>3. CASE ~(Orphaned /\ check.heal)
      <4>1. check' = [check EXCEPT !.pc = "scanned", !.orphan = Orphaned]  BY <2>2, <3>3 DEF ScanShard
      <4>2. check'.pc = "scanned" /\ IsCheck'  BY <1>2, <4>1 DEF ScanInv, IsCheck
      <4> QED  BY <4>2 DEF ScanInv
    <3> QED  BY <3>2, <3>3
  <2> QED  BY <2>1, <2>2
<1> QED  BY <1>1, <1>2, <1>5, IdxKept, PairKept, SeriesKept, JobKept, CertKept DEF QualityInv, series

LEMMA PromoteStep ==
  ASSUME QualityInv, Promote \/ PromoteFails  PROVE QualityInv'
<1>1. UNCHANGED <<world, series, params, clock, job, cert>>  BY DEF Promote, PromoteFails
<1>2. IdxInv /\ PairInv /\ ScanInv /\ SeriesInv /\ JobInv /\ CertInv  BY DEF QualityInv
<1>3. ScanInv'
  <2>1. check' = [check EXCEPT !.pc = "scanned"] \/ check' = [check EXCEPT !.pc = "scanned", !.orphan = TRUE]
    BY DEF Promote, PromoteFails
  <2>2. check'.pc = "scanned" /\ IsCheck'  BY <1>2, <2>1 DEF ScanInv, IsCheck
  <2> QED  BY <2>2 DEF ScanInv
<1>4. IdxInv' /\ PairInv'
  <2>1. CASE Promote
    <3>1. /\ idx' = WithShard(idx, CurrentDay, backup) /\ backup' = None
          /\ mtime' = [mtime EXCEPT !.idx = mtime.bak] /\ writer' # "bak"
      BY <2>1 DEF Promote
    <3>2. backup # None  BY <1>2, <2>1 DEF Promote, ScanInv
    <3>3. CurrentDay \in DOMAIN idx /\ IsShard(backup, CurrentDay) /\ mtime \in [idx : Nat, bak : Nat]
          /\ mtime.bak <= clock /\ clock \in Nat
      BY <1>2, <3>2 DEF PairInv
    <3>4. /\ DOMAIN idx' = DOMAIN idx /\ idx' = [d \in DOMAIN idx' |-> idx'[d]] /\ idx'[CurrentDay] = backup
          /\ \A d \in DOMAIN idx : d # CurrentDay => idx'[d] = idx[d]
      BY <3>1, <3>3 DEF WithShard
    <3>5. IdxInv'  BY <1>1, <1>2, <3>3, <3>4, IdxReplaced
    <3>6. mtime' \in [idx : Nat, bak : Nat] /\ mtime'.idx = mtime.bak /\ mtime'.bak = mtime.bak  BY <3>1, <3>3
    <3>7. PairInv'  BY <1>1, <3>1, <3>3, <3>6 DEF PairInv
    <3> QED  BY <3>5, <3>7
  <2>2. CASE PromoteFails
    <3>1. UNCHANGED <<idx, backup, mtime, writer, clock, world>>  BY <2>2 DEF PromoteFails
    <3> QED  BY <1>2, <3>1, IdxKept DEF PairInv
  <2> QED  BY <2>1, <2>2
<1> QED  BY <1>1, <1>2, <1>3, <1>4, SeriesKept, JobKept, CertKept DEF QualityInv, series

LEMMA CheckStep ==
  ASSUME QualityInv, (\E heal \in BOOLEAN : CheckList(heal)) \/ CheckRead  PROVE QualityInv'
<1>1. UNCHANGED <<world, idx, series, params, pair, job, cert>>  BY DEF CheckList, CheckRead
<1>2. ScanInv'
  <2>1. CASE \E heal \in BOOLEAN : CheckList(heal)
    <3>1. PICK heal \in BOOLEAN : CheckList(heal)  BY <2>1
    <3>2. check'.pc = "listed" /\ IsCheck'  BY <3>1 DEF CheckList, NoCheck, IsCheck
    <3> QED  BY <3>2 DEF ScanInv
  <2>2. CASE CheckRead
    <3>1. PICK code : check' = [NoCheck EXCEPT !.code = code]  BY <2>2 DEF CheckRead
    <3>2. check'.pc = "idle" /\ IsCheck'  BY <3>1 DEF NoCheck, IsCheck
    <3> QED  BY <3>2 DEF ScanInv
  <2> QED  BY <2>1, <2>2
<1> QED  BY <1>1, <1>2, IdxKept, PairKept, SeriesKept, JobKept, CertKept DEF QualityInv, series

LEMMA AuditStep ==
  ASSUME QualityInv, AuditRead \/ AuditJudge  PROVE QualityInv'
<1>1. UNCHANGED <<world, idx, series, params, pair, job, check>>  BY DEF AuditRead, AuditJudge
<1>2. IdxInv /\ PairInv /\ ScanInv /\ SeriesInv /\ JobInv /\ CertInv  BY DEF QualityInv
<1>3. CASE AuditRead
  <2>1. cert' = [NoCert EXCEPT !.pc = "read", !.in = idx]  BY <1>3 DEF AuditRead
  <2>2. cert'.in = idx /\ cert'.verdict = None  BY <2>1 DEF NoCert
  <2>3. CertInv'  BY <1>2, <2>2, QualityAssumption DEF CertInv, IdxInv
  <2> QED  BY <1>1, <1>2, <2>3, IdxKept, PairKept, ScanKept, SeriesKept, JobKept DEF QualityInv, series
<1>4. CASE AuditJudge
  <2> DEFINE a == Audited
  <2>1. cert.pc = "read" /\ cert' = [pc |-> "judged", in |-> a, verdict |-> Verdict(a)]  BY <1>4 DEF AuditJudge
  <2>2. a.from = 0 /\ a.to = CurrentDay /\ a.idx = cert.in /\ a.renko = renko  BY DEF Audited
  <2>3. Dirs(a.idx) /\ WellBricked(a.renko)  BY <1>2, <2>1, <2>2 DEF CertInv, SeriesInv
  <2> HIDE DEF a
  <2>4. cert'.in = a /\ cert'.verdict = Verdict(a) /\ cert'.pc = "judged"  BY <2>1
  <2>5. CertInv'  BY <2>2, <2>3, <2>4 DEF CertInv
  <2> QED  BY <1>1, <1>2, <2>5, IdxKept, PairKept, ScanKept, SeriesKept, JobKept DEF QualityInv, series
<1> QED  BY <1>3, <1>4

LEMMA QualityStep ==
  ASSUME QualityInv, [QualityNext]_qualityVars  PROVE QualityInv'
<1>1. CASE Arrive  BY <1>1, ArriveStep
<1>2. CASE Calibrate  BY <1>2, CalibrateStep
<1>3. CASE \E to \in {CurrentDay - 1, CurrentDay} : S10Start(to)  BY <1>3, S10StartStep
<1>4. CASE RenkoStart  BY <1>4, RenkoStartStep
<1>5. CASE WriteShard  BY <1>5, WriteShardStep
<1>6. CASE WriteManifest \/ Kill  BY <1>6, JobEnds
<1>7. CASE SwapToday  BY <1>7, SwapStep
<1>8. CASE LiveWrite  BY <1>8, LiveWriteStep
<1>9. CASE LiveRestart  BY <1>9, LiveRestartStep
<1>10. CASE ScanBackup \/ ScanShard  BY <1>10, ScanStep
<1>14. CASE Promote \/ PromoteFails  BY <1>14, PromoteStep
<1>11. CASE (\E heal \in BOOLEAN : CheckList(heal)) \/ CheckRead  BY <1>11, CheckStep
<1>12. CASE AuditRead \/ AuditJudge  BY <1>12, AuditStep
<1>13. CASE UNCHANGED qualityVars
  BY <1>13, IdxKept, PairKept, ScanKept, SeriesKept, JobKept, CertKept DEF QualityInv, qualityVars, series
<1> QED  BY <1>1, <1>2, <1>3, <1>4, <1>5, <1>6, <1>7, <1>8, <1>9, <1>10, <1>11, <1>12, <1>13, <1>14 DEF QualityNext

\* Every shard holds the rows of its own day, in an index today or put back; every shard of bars is of a
\* grid and every shard of bricks of one build; the job's shards are those of the rows it read, without
\* the ones it has written; what the audit judged it read from such directories.
THEOREM QualityInductive == QualitySpec => []QualityInv
<1>1. QualityInit => QualityInv  BY QualityStarts
<1>2. QualityInv /\ [QualityNext]_qualityVars => QualityInv'  BY QualityStep
<1> QED  BY <1>1, <1>2, PTL DEF QualitySpec
-----------------------------------------------------------------------------
\* What it gives.

\* Once s10-from-idx has written its last shard, each bucket from the first to the last that has a row
\* on time has exactly one bar, in the shard of its day, over the rows of that bucket.
THEOREM QualityGrid == QualitySpec => []BarsAreTheGrid
<1>1. QualityInv => BarsAreTheGrid
  <2> SUFFICES ASSUME QualityInv, job.pc = "s10", Written  PROVE GridIn(job.rows, s10)
    BY DEF BarsAreTheGrid, GridIn
  <2>1. job.rows \in Seq(IndexRow) /\ \A d \in DOMAIN Plan : d \in DOMAIN s10 /\ s10[d] = Plan[d]
    BY DEF QualityInv, JobInv, Written
  <2> QED  BY <2>1, GridReached DEF Plan
<1> QED  BY <1>1, QualityInductive, PTL

\* The bars on disk, of whatever builds they are left, raise no error in integrity-check and no OHLC, K1
\* or K2 reason in the audit.
THEOREM QualityBars == QualitySpec => []BarsPassTheChecks
<1>1. QualityInv => BarsPassTheChecks
  <2> SUFFICES ASSUME QualityInv  PROVE BarsPassTheChecks
    OBVIOUS
  <2>1. WellBarred(s10)  BY DEF QualityInv, SeriesInv
  <2> QED  BY <2>1, WellPasses DEF BarsPassTheChecks
<1> QED  BY <1>1, QualityInductive, PTL

\* integrity-check puts an orphaned backup back only where the readers lose no record by it but those a
\* restarted live writer added to today's shard after the scan had read its time: for any writers,
\* swaps and restarts between the two reads and the rename.
THEOREM QualityPromotes == QualitySpec => PromotionLosesOnlyUnseen
<1> DEFINE Promotes == backup # None /\ backup' = None
           Kept == ToSet(idx[CurrentDay]) \subseteq ToSet(idx'[CurrentDay]) \cup unseen
<1>1. QualityInv /\ [QualityNext]_qualityVars => [Promotes => Kept]_qualityVars
  <2> SUFFICES ASSUME QualityInv, QualityNext, Promotes  PROVE Kept
    OBVIOUS
  <2>1. PairInv /\ ScanInv /\ IdxInv  BY DEF QualityInv
  <2>2. CASE Promote
    <3>1. check.pc = "promote" /\ idx' = WithShard(idx, CurrentDay, backup)  BY <2>2 DEF Promote
    <3>2. ToSet(idx[CurrentDay]) \subseteq ToSet(backup) \cup unseen  BY <2>1, <3>1 DEF ScanInv
    <3>3. idx'[CurrentDay] = backup  BY <3>1 DEF WithShard
    <3> QED  BY <3>2, <3>3
  <2>3. CASE SwapToday
    <3>1. backup' = idx[CurrentDay] /\ CurrentDay \in DOMAIN idx  BY <2>3 DEF SwapToday, Touched
    <3>2. backup' # None  BY <2>1, <3>1, ShardNotNone DEF IdxInv, Dirs
    <3> QED  BY <3>2
  <2>4. CASE LiveWrite
    <3>1. Day(NextRow.t) = CurrentDay /\ (backup' = backup \/ backup' = Append(backup, NextRow))
      BY <2>4 DEF LiveWrite
    <3>2. IsShard(backup, CurrentDay) /\ IsShard(idx[CurrentDay], CurrentDay)
      BY <2>1 DEF PairInv, IdxInv, Dirs
    <3>3. NextRow \in IndexRow  BY <3>2, NextRowIs
    <3>4. backup' # None  BY <3>1, <3>2, <3>3, AppendedShard, ShardNotNone
    <3> QED  BY <3>4
  <2>5. CASE UNCHANGED backup  BY <2>5
  <2> QED
    BY <2>2, <2>3, <2>4, <2>5
    DEF QualityNext, Arrive, Calibrate, S10Start, RenkoStart, WriteShard, WriteManifest, Kill, LiveRestart,
        CheckList, ScanBackup, ScanShard, PromoteFails, CheckRead, AuditRead, AuditJudge, pair
<1> QED  BY <1>1, QualityInductive, PTL DEF QualitySpec, PromotionLosesOnlyUnseen
-----------------------------------------------------------------------------
\* Bricks that passed both checkers.

LEMMA FlaggedIsFound ==
  ASSUME NEW i, NEW level, NEW fl, NEW v \in DOMAIN fl, fl[v]
  PROVE  Found(i, level, fl) # {}
<1>1. v \in {x \in DOMAIN fl : fl[x]}  OBVIOUS
<1> QED  BY <1>1 DEF Found

LEMMA CheckedBricks ==
  ASSUME NEW rows \in Seq(BrickRow), CheckBars(rows) = {}, NEW i \in 2..Len(rows)
  PROVE  rows[i].o = rows[i - 1].c
<1> DEFINE a == rows[i - 1]
           b == rows[i]
           E(j) == Found(j, "error", Ohlc(rows[j])) \cup Found(j, "error", Joined(Before(rows, j), rows[j]))
           fo == Ohlc(b)
           fj == Joined(<<a>>, b)
<1>1. i \in DOMAIN rows /\ i # 1 /\ a \in BrickRow /\ b \in BrickRow
  <2>1. Len(rows) \in Nat /\ i \in 1..Len(rows) /\ i - 1 \in 1..Len(rows)  OBVIOUS
  <2> QED  BY <2>1
<1>2. CheckBars(rows) = UNION {E(j) : j \in DOMAIN rows}  BY Zenon DEF CheckBars
<1> HIDE DEF E
<1>3. E(i) = {}  BY <1>1, <1>2
<1>4. Found(i, "error", fo) = {} /\ Found(i, "error", Joined(Before(rows, i), b)) = {}  BY <1>3 DEF E
<1>5. Found(i, "error", fj) = {}  BY <1>1, <1>4 DEF Before
<1> HIDE DEF a, b
<1>6. AllFinite(b)
  <2>1. "nonFinite" \in DOMAIN fo /\ fo["nonFinite"] = ~AllFinite(b)  BY DEF Ohlc, AllFinite
  <2> HIDE DEF fo
  <2> QED  BY <1>4, <2>1, FlaggedIsFound
<1>7. b.kind = "renko" /\ a.kind = "renko"  BY <1>1 DEF BrickRow
<1>8. a.c = b.o
  <2>1. "broken" \in DOMAIN fj
        /\ fj["broken"] = (AllFinite(b) /\ <<a>> # <<>> /\ b.kind = "renko" /\ <<a>>[1].kind = "renko" /\ <<a>>[1].c # b.o)
    BY DEF Joined
  <2>2. <<a>> # <<>> /\ <<a>>[1] = a  OBVIOUS
  <2> HIDE DEF fj
  <2>3. a.c # b.o => fj["broken"]  BY <1>6, <1>7, <2>1, <2>2
  <2> QED  BY <1>5, <2>1, <2>3, FlaggedIsFound
<1> QED  BY <1>8 DEF a, b

LEMMA PassedHasNone ==
  ASSUME NEW a, Verdict(a) = "PASS"
  PROVE  Reasons(a) = {} /\ RenkoReasons(a) = {} /\ S10Reasons(a) = {} /\ WindowRecords(a) # <<>>
<1>1. Reasons(a) = {} /\ WindowRecords(a) # <<>>  BY DEF Verdict
<1>2. RenkoReasons(a) \subseteq Reasons(a) /\ S10Reasons(a) \subseteq Reasons(a)  BY DEF Reasons
<1> QED  BY <1>1, <1>2

LEMMA PassedJoints ==
  ASSUME NEW a, Verdict(a) = "PASS", NEW j \in Joints(InWindow(a, a.renko))
  PROVE  j[2].o = j[1].c
<1> DEFINE w == InWindow(a, a.renko)
           broken == \E x \in Joints(w) : RenkoViolated(x[1], x[2])
<1>1. DOMAIN w # {}  BY DEF Joints
<1>2. broken => "R1" \in RenkoReasons(a)
  <2> HIDE DEF broken
  <2> QED  BY <1>1 DEF RenkoReasons, broken
<1>3. ~ broken  BY <1>2, PassedHasNone
<1> QED  BY <1>3 DEF RenkoViolated

LEMMA SeamlessBricks ==
  ASSUME NEW a, a.from = 0, a.to = CurrentDay, WellBricked(a.renko), Verdict(a) = "PASS",
         \A d \in DOMAIN a.renko : CheckBars(a.renko[d]) = {},
         NEW i \in 2..Len(RowsOf(a.renko))
  PROVE  RowsOf(a.renko)[i].o = RowsOf(a.renko)[i - 1].c
<1> DEFINE s == a.renko
           rows == RowsOf(s)
           w == InWindow(a, s)
<1>1. DOMAIN s \subseteq 0..CurrentDay /\ CurrentDay \in Nat /\ \A d \in DOMAIN s : s[d] \in Seq(BrickRow)
  BY QualityAssumption DEF WellBricked
<1>2. DOMAIN w = DOMAIN s /\ \A d \in DOMAIN s : w[d] = s[d]
  <2>1. {e \in DOMAIN s : a.from <= e /\ e <= a.to} = DOMAIN s  BY <1>1
  <2> QED  BY <2>1 DEF InWindow
<1>3. \A j \in Joints(w) : j[2].o = j[1].c  BY PassedJoints
<1>4. \A d \in DOMAIN s : CheckBars(s[d]) = {}  OBVIOUS
<1>5. i \in 2..Len(rows)  OBVIOUS
<1> HIDE DEF s, w
<1>6. Dated(s, BrickRow)  BY <1>1 DEF Dated
<1>7. rows \in Seq(BrickRow) /\ \A x \in 1..Len(rows) : \E d, p : From(rows, s, x, d, p)  BY <1>6, RowsAre
<1> HIDE DEF rows
<1>8. i \in 1..Len(rows) /\ i > 1  BY <1>5, <1>7
<1>9. PICK d, p : From(rows, s, i, d, p)  BY <1>7, <1>8
<1>10. d \in DOMAIN s /\ p \in 1..Len(s[d]) /\ rows[i] = s[d][p] /\ s[d] \in Seq(BrickRow)  BY <1>1, <1>9 DEF From
<1>11. CASE p > 1
  <2>1. rows[i - 1] = s[d][p - 1]  BY <1>9, <1>11 DEF From
  <2>2. p \in 2..Len(s[d])  BY <1>10, <1>11
  <2>3. s[d][p].o = s[d][p - 1].c  BY <1>4, <1>10, <2>2, CheckedBricks
  <2> QED  BY <1>10, <2>1, <2>3 DEF rows, s
<1>12. CASE p = 1
  <2>1. PICK e \in DOMAIN s : /\ e < d /\ s[e] # <<>> /\ rows[i - 1] = s[e][Len(s[e])]
                              /\ \A x \in DOMAIN s : s[x] # <<>> => x <= e \/ d <= x
    BY <1>8, <1>9, <1>12 DEF From
  <2>2. s[d] # <<>>  BY <1>10, <1>12
  <2> DEFINE full == {x \in DOMAIN w : w[x] # <<>>}
             next == {q \in full \X full : q[1] < q[2] /\ \A x \in full : x <= q[1] \/ q[2] <= x}
  <2>3. <<e, d>> \in next  BY <1>2, <1>10, <2>1, <2>2
  <2>4. <<Last(w[e]), Head(w[d])>> \in Joints(w)  BY <2>3 DEF Joints
  <2>5. Head(w[d]).o = Last(w[e]).c  BY <1>3, <2>4
  <2>6. Head(w[d]) = s[d][1] /\ Last(w[e]) = s[e][Len(s[e])]  BY <1>2, <1>10, <2>1, <2>2 DEF Last
  <2> QED  BY <1>10, <1>12, <2>1, <2>5, <2>6 DEF rows, s
<1> QED  BY <1>10, <1>11, <1>12

\* What both checkers pass has no broken joint: every brick opens where the one before it closed, within
\* a shard and across shards that are empty, missing or of another build.
THEOREM QualitySeamless == QualitySpec => []PassedIsSeamless
<1>1. QualityInv => PassedIsSeamless
  <2> SUFFICES ASSUME QualityInv, cert.verdict = "PASS", \A d \in DOMAIN cert.in.renko : CheckBars(cert.in.renko[d]) = {},
                      NEW i \in 2..Len(RowsOf(cert.in.renko))
               PROVE  RowsOf(cert.in.renko)[i].o = RowsOf(cert.in.renko)[i - 1].c
    BY DEF PassedIsSeamless
  <2>1. cert.in.from = 0 /\ cert.in.to = CurrentDay /\ Verdict(cert.in) = "PASS" /\ WellBricked(cert.in.renko)
    BY DEF QualityInv, CertInv
  <2> QED  BY <2>1, SeamlessBricks
<1> QED  BY <1>1, QualityInductive, PTL
-----------------------------------------------------------------------------
\* A run of flat bars.

FlatState == [run : Nat, longest : Nat]

FlatStep(s, b) ==
  IF b.n # 0 THEN [s EXCEPT !.run = 0]
  ELSE [run |-> s.run + 1, longest |-> Max({s.longest, s.run + 1})]

LEMMA FlatStepIs ==
  ASSUME NEW s \in FlatState, NEW b
  PROVE  /\ FlatStep(s, b) \in FlatState /\ s.longest <= FlatStep(s, b).longest
         /\ b.n = 0 => FlatStep(s, b).run = s.run + 1 /\ s.run + 1 <= FlatStep(s, b).longest
<1>1. s.run \in Nat /\ s.longest \in Nat  BY DEF FlatState
<1> DEFINE m == Max({s.longest, s.run + 1})
<1>2. m = IF s.longest >= s.run + 1 THEN s.longest ELSE s.run + 1  BY <1>1, TwoNumbers
<1> HIDE DEF m
<1>3. m \in Nat /\ s.longest <= m /\ s.run + 1 <= m  BY <1>1, <1>2
<1>4. CASE b.n # 0
  <2>1. FlatStep(s, b) = [s EXCEPT !.run = 0]  BY <1>4 DEF FlatStep
  <2> QED  BY <1>1, <1>4, <2>1 DEF FlatState
<1>5. CASE b.n = 0
  <2>1. FlatStep(s, b) = [run |-> s.run + 1, longest |-> m]  BY <1>5 DEF FlatStep, m
  <2> QED  BY <1>1, <1>3, <2>1 DEF FlatState
<1> QED  BY <1>4, <1>5

LEMMA FlatRuns ==
  ASSUME NEW A, NEW bars \in Seq(A)
  PROVE  \E g : /\ LongestFlat(bars) = g[Len(bars)].longest
                /\ \A i \in 0..Len(bars) : g[i] \in FlatState
                /\ \A i \in 1..Len(bars) : g[i] = FlatStep(g[i - 1], bars[i])
<1> DEFINE N == Len(bars)
           b0 == [run |-> 0, longest |-> 0]
           F == [i \in 1..N |-> [s \in FlatState |-> FlatStep(s, bars[i])]]
           E(g) == g = [i \in 0..N |->
                          IF i = 0 THEN [run |-> 0, longest |-> 0]
                          ELSE IF bars[i].n # 0 THEN [g[i - 1] EXCEPT !.run = 0]
                          ELSE [run |-> g[i - 1].run + 1, longest |-> Max({g[i - 1].longest, g[i - 1].run + 1})]]
           c == CHOOSE g : E(g)
<1>1. N \in Nat  BY LenProperties
<1>2. \A i \in 1..N : \A s \in FlatState : F[i][s] = FlatStep(s, bars[i]) /\ F[i][s] \in FlatState
  BY FlatStepIs
<1>3. b0 \in FlatState  BY DEF FlatState
<1>4. PICK g : Folded(g, N, FlatState, b0, F)
  <2> HIDE DEF F, N, b0
  <2> QED  BY <1>1, <1>2, <1>3, FoldIs
<1>5. 0 \in 0..N /\ \A i \in 0..N : i # 0 => i \in 1..N /\ i - 1 \in 0..N  BY <1>1
<1>6. E(g)
  <2>1. \A i \in 0..N : g[i] = IF i = 0 THEN b0 ELSE F[i][g[i - 1]]  BY <1>4 DEF Folded
  <2>2. g = [i \in 0..N |-> g[i]]  BY <1>4 DEF Folded
  <2>3. \A i \in 0..N : i # 0 => g[i - 1] \in FlatState  BY <1>4, <1>5 DEF Folded
  <2> HIDE DEF F, N
  <2>4. \A i \in 0..N : g[i] = IF i = 0 THEN b0 ELSE FlatStep(g[i - 1], bars[i])
    BY <1>2, <1>5, <2>1, <2>3
  <2> QED  BY <2>2, <2>4, Zenon DEF FlatStep
<1>7. E(c)  BY <1>6
<1>8. LongestFlat(bars) = c[N].longest  BY DEF LongestFlat
<1> HIDE DEF c, F, N
<1>9. \A i \in 0..N : c[i] = IF i = 0 THEN b0 ELSE FlatStep(c[i - 1], bars[i])  BY <1>7, Zenon DEF FlatStep
<1> HIDE DEF b0
<1> DEFINE T == {i \in 0..N : c[i] \in FlatState}
<1>10. 0 \in T  BY <1>3, <1>5, <1>9
<1>11. ASSUME NEW n \in 0..(N - 1), n \in T  PROVE n + 1 \in T
  <2>1. n + 1 \in 0..N /\ (n + 1) - 1 = n /\ n + 1 # 0  BY <1>1
  <2>2. c[n] \in FlatState /\ c[n + 1] = FlatStep(c[n], bars[n + 1])  BY <1>9, <1>11, <2>1
  <2>3. c[n + 1] \in FlatState  BY <2>2, FlatStepIs
  <2> QED  BY <2>1, <2>3
<1> HIDE DEF T
<1>12. 0..N \subseteq T  BY <1>1, <1>10, <1>11, Upwards
<1>13. \A i \in 1..N : i \in 0..N /\ i # 0  BY <1>1
<1>14. \A i \in 0..N : c[i] \in FlatState  BY <1>12 DEF T
<1>15. \A i \in 1..N : c[i] = FlatStep(c[i - 1], bars[i])  BY <1>9, <1>13
<1> QED  BY <1>8, <1>14, <1>15 DEF N

\* m flat bars in a row are seen.
LEMMA FlatRunSeen ==
  ASSUME NEW A, NEW bars \in Seq(A), NEW k \in Nat \ {0}, NEW m \in Nat, k + m - 1 <= Len(bars),
         \A i \in 0..(m - 1) : bars[k + i].n = 0
  PROVE  LongestFlat(bars) \in Nat /\ m <= LongestFlat(bars)
<1> DEFINE N == Len(bars)
<1>1. N \in Nat  BY LenProperties
<1>2. PICK g : /\ LongestFlat(bars) = g[N].longest
               /\ \A i \in 0..N : g[i] \in FlatState
               /\ \A i \in 1..N : g[i] = FlatStep(g[i - 1], bars[i])
  BY FlatRuns
<1>3. \A i \in 0..N : g[i].run \in Nat /\ g[i].longest \in Nat  BY <1>2 DEF FlatState
<1>4. k - 1 \in Nat /\ k + m - 1 <= N  OBVIOUS
<1> HIDE DEF N
<1> DEFINE T == {i \in 0..m : i <= g[k - 1 + i].run /\ i <= g[k - 1 + i].longest}
<1>5. 0 \in T
  <2>1. k - 1 + 0 \in 0..N /\ 0 \in 0..m  BY <1>1, <1>4
  <2>2. g[k - 1 + 0].run \in Nat /\ g[k - 1 + 0].longest \in Nat  BY <1>3, <2>1
  <2> QED  BY <2>1, <2>2
<1>6. ASSUME NEW i \in 0..(m - 1), i \in T  PROVE i + 1 \in T
  <2> DEFINE a == k - 1 + i
  <2>1. a \in 0..N /\ a + 1 \in 1..N /\ a + 1 \in 0..N /\ (a + 1) - 1 = a /\ a + 1 = k + i /\ i + 1 \in 0..m
        /\ k - 1 + (i + 1) = a + 1 /\ i \in Nat
    BY <1>1, <1>4
  <2>2. i <= g[a].run  BY <1>6
  <2> HIDE DEF a, T
  <2>3. g[a + 1] = FlatStep(g[a], bars[a + 1]) /\ bars[a + 1].n = 0 /\ g[a] \in FlatState  BY <1>2, <2>1
  <2>4. g[a + 1].run = g[a].run + 1 /\ g[a].run + 1 <= g[a + 1].longest  BY <2>3, FlatStepIs
  <2>5. g[a].run \in Nat /\ g[a + 1].longest \in Nat  BY <1>3, <2>1
  <2>6. i + 1 <= g[a + 1].run /\ i + 1 <= g[a + 1].longest  BY <2>1, <2>2, <2>4, <2>5
  <2> QED  BY <2>1, <2>6 DEF T
<1> HIDE DEF T
<1>7. 0..m \subseteq T  BY <1>5, <1>6, Upwards
<1>8. m \in T  BY <1>7
<1>9. m <= g[k - 1 + m].longest  BY <1>8 DEF T
<1> DEFINE e == k - 1 + m
           U == {j \in 0..(N - e) : m <= g[e + j].longest}
<1>10. e \in 0..N /\ N - e \in Nat /\ e + 0 = e /\ e + (N - e) = N /\ N \in 0..N  BY <1>1, <1>4
<1>11. m <= g[e].longest  BY <1>9
<1> HIDE DEF e
<1>12. 0 \in U  BY <1>10, <1>11
<1>13. ASSUME NEW j \in 0..((N - e) - 1), j \in U  PROVE j + 1 \in U
  <2> DEFINE a == e + j
  <2>1. a \in 0..N /\ a + 1 \in 1..N /\ a + 1 \in 0..N /\ (a + 1) - 1 = a /\ e + (j + 1) = a + 1 /\ j + 1 \in 0..(N - e)
    BY <1>1, <1>10
  <2>2. m <= g[a].longest  BY <1>13
  <2> HIDE DEF a, U
  <2>3. g[a + 1] = FlatStep(g[a], bars[a + 1]) /\ g[a] \in FlatState  BY <1>2, <2>1
  <2>4. g[a].longest <= g[a + 1].longest  BY <2>3, FlatStepIs
  <2>5. g[a].longest \in Nat /\ g[a + 1].longest \in Nat  BY <1>3, <2>1
  <2>6. m <= g[a + 1].longest  BY <2>2, <2>4, <2>5
  <2> QED  BY <2>1, <2>6 DEF U
<1> HIDE DEF U
<1>14. 0..(N - e) \subseteq U  BY <1>10, <1>12, <1>13, Upwards
<1>15. N - e \in U  BY <1>10, <1>14
<1>16. m <= g[N].longest  BY <1>10, <1>15 DEF U
<1> QED  BY <1>2, <1>3, <1>10, <1>16
-----------------------------------------------------------------------------
\* A silence that passed the audit.

LEMMA WellIncreases ==
  ASSUME NEW shards, WellBarred(shards), NEW j \in 1..Len(RowsOf(shards)), NEW k \in 1..Len(RowsOf(shards)), j < k
  PROVE  RowsOf(shards)[j].t0 < RowsOf(shards)[k].t0
<1> DEFINE rows == RowsOf(shards)
           N == Len(rows)
           T == {n \in 0..N : \A x, y \in 1..n : x < y => rows[x].t0 < rows[y].t0}
<1>1. rows \in Seq(BarRow) /\ \A i \in 1..N : GoodBar(rows[i]) /\ Preceded(Before(rows, i), rows[i])  BY RowsOfWell
<1>2. N \in Nat /\ j \in 1..N /\ k \in 1..N  BY <1>1
<1> HIDE DEF rows
<1>3. \A i \in 1..N : rows[i].t0 \in Nat  BY <1>1, GoodBarIs
<1>4. \A i \in 1..N : i # 1 => rows[i - 1].t0 < rows[i].t0
  <2> TAKE i \in 1..N
  <2> HAVE i # 1
  <2>1. Before(rows, i) = <<rows[i - 1]>>  BY DEF Before
  <2>2. Preceded(<<rows[i - 1]>>, rows[i])  BY <1>1, <2>1
  <2>3. PICK a : <<rows[i - 1]>> = <<a>> /\ a.t0 < rows[i].t0  BY <2>2 DEF Preceded
  <2>4. a = rows[i - 1]  BY <2>3
  <2> QED  BY <2>3, <2>4
<1> HIDE DEF N
<1>5. 0 \in T  BY <1>2
<1>6. ASSUME NEW n \in 0..(N - 1), n \in T  PROVE n + 1 \in T
  <2>1. n \in Nat /\ n + 1 \in 1..N /\ n + 1 \in 0..N /\ (n + 1) - 1 = n  BY <1>2
  <2>2. \A x, y \in 1..n : x < y => rows[x].t0 < rows[y].t0  BY <1>6
  <2>3. ASSUME NEW x \in 1..(n + 1), NEW y \in 1..(n + 1), x < y  PROVE rows[x].t0 < rows[y].t0
    <3>1. x \in 1..n  BY <2>1, <2>3
    <3>2. CASE y # n + 1
      <4>1. y \in 1..n  BY <2>1, <3>2
      <4> QED  BY <2>2, <2>3, <3>1, <4>1
    <3>3. CASE y = n + 1
      <4>1. n + 1 # 1 /\ n \in 1..n /\ n \in 1..N /\ x \in 1..N
        <5>1. x \in Nat /\ 1 <= x /\ x <= n /\ n + 1 <= N  BY <1>2, <2>1, <3>1
        <5> QED  BY <1>2, <2>1, <5>1
      <4>2. rows[n].t0 < rows[n + 1].t0  BY <1>4, <2>1, <4>1
      <4>3. x < n => rows[x].t0 < rows[n].t0  BY <2>2, <3>1, <4>1
      <4>4. x < n \/ x = n  BY <2>1, <3>1
      <4>5. rows[x].t0 \in Nat /\ rows[n].t0 \in Nat /\ rows[n + 1].t0 \in Nat  BY <1>3, <2>1, <4>1
      <4> QED  BY <3>3, <4>2, <4>3, <4>4, <4>5
    <3> QED  BY <3>2, <3>3
  <2> QED  BY <2>1, <2>3
<1> HIDE DEF T
<1>7. 0..N \subseteq T  BY <1>2, <1>5, <1>6, Upwards
<1>8. N \in T  BY <1>2, <1>7
<1>9. \A x, y \in 1..N : x < y => rows[x].t0 < rows[y].t0  BY <1>8 DEF T
<1> QED  BY <1>2, <1>9 DEF rows

LEMMA ShardHasBars ==
  ASSUME NEW A, NEW bars \in Seq(A), NEW d \in DaysOf(bars)
  PROVE  /\ ByDate(bars)[d] \in Seq(A)
         /\ \A p \in 1..Len(ByDate(bars)[d]) : \E j \in 1..Len(bars) : ByDate(bars)[d][p] = bars[j]
<1> DEFINE I == BarsOfDay(bars, d)
           s == Only(bars, I)
<1>1. ByDate(bars)[d] = s  BY ByDateIs
<1> HIDE DEF I
<1>2. s \in Seq(A) /\ \E f : Picks(f, s, bars, I, Len(bars))  BY OnlyIs
<1> HIDE DEF s
<1>3. PICK f : Picks(f, s, bars, I, Len(bars))  BY <1>2
<1>4. \A p \in 1..Len(s) : f[p] \in 1..Len(bars) /\ s[p] = bars[f[p]]  BY <1>3 DEF Picks
<1> QED  BY <1>1, <1>2, <1>4

LEMMA BarHasShard ==
  ASSUME NEW A, NEW bars \in Seq(A), NEW j \in 1..Len(bars)
  PROVE  \E d \in DaysOf(bars) : \E p \in 1..Len(ByDate(bars)[d]) : ByDate(bars)[d][p] = bars[j]
<1> DEFINE d == Day(bars[j].t0)
           I == BarsOfDay(bars, d)
           s == Only(bars, I)
<1>1. DOMAIN bars = 1..Len(bars) /\ bars[j] \in ToSet(bars)  BY DEF ToSet
<1>2. d \in DaysOf(bars) /\ j \in I \cap (1..Len(bars))  BY <1>1 DEF DaysOf, BarsOfDay
<1>3. ByDate(bars)[d] = s  BY <1>2, ByDateIs
<1> HIDE DEF I, d
<1>4. \E f : Picks(f, s, bars, I, Len(bars))  BY OnlyIs
<1> HIDE DEF s
<1>5. PICK f : Picks(f, s, bars, I, Len(bars))  BY <1>4
<1>6. PICK p \in 1..Len(s) : f[p] = j  BY <1>2, <1>5 DEF Picks
<1>7. s[p] = bars[j]  BY <1>5, <1>6 DEF Picks
<1> QED  BY <1>2, <1>3, <1>7

\* The bars of a directory written from rows: all of the grid's, and no others.
LEMMA SlotsOnDisk ==
  ASSUME NEW rows \in Seq(IndexRow), rows \in Seq(TimedRow), NEW f, NEW z, Grid(BarsOf(rows), rows, f, z)
  PROVE  LET shards == ByDate(BarsOf(rows))
             bars   == RowsOf(shards)
         IN /\ WellBarred(shards) /\ DOMAIN shards \subseteq 0..CurrentDay /\ bars \in Seq(BarRow)
            /\ \A x \in f..z : \E k \in 1..Len(bars) : bars[k].t0 = Bar * x
            /\ \A k \in 1..Len(bars) : \E x \in f..z : IsBar(bars[k], rows, x)
<1> DEFINE all == BarsOf(rows)
           shards == ByDate(all)
           bars == RowsOf(shards)
<1>1. all \in Seq(BarRow)  BY BarsAre
<1>2. Grid(all, rows, f, z)  OBVIOUS
<1>3. \A d \in DOMAIN shards : BarShard(shards[d], d)  BY ShardsOfBars
<1> HIDE DEF all
<1>4. f \in Nat /\ z \in Nat /\ f <= z /\ Len(all) = (z - f) + 1  BY <1>2 DEF Grid
<1>5. \A j \in 1..Len(all) : f + j - 1 \in f..z /\ IsBar(all[j], rows, f + j - 1)
  <2> TAKE j \in 1..Len(all)
  <2>1. f + j - 1 \in f..z /\ j \in 1..((z - f) + 1)  BY <1>4
  <2> QED  BY <1>2, <2>1 DEF Grid
<1>6. CurrentDay \in Nat  BY QualityAssumption
<1>7. Bar * z \in Nat /\ Day(Bar * z) <= CurrentDay
  <2>1. PICK i \in OnTime(rows) : Slot(rows[i].t) = z  BY <1>2 DEF Grid
  <2>2. i \in 1..Len(rows)  BY OnTimeIs
  <2>3. rows[i] \in TimedRow  BY <2>2
  <2>4. rows[i].t \in Nat /\ Day(rows[i].t) <= CurrentDay  BY <2>3 DEF TimedRow, Time
  <2>5. Bar * z <= rows[i].t /\ Bar * z \in Nat  BY <1>4, <2>1, <2>4, SlotIs, GridIs
  <2>6. Day(Bar * z) <= Day(rows[i].t) /\ Day(Bar * z) \in Nat /\ Day(rows[i].t) \in Nat  BY <2>4, <2>5, DayIs
  <2> QED  BY <1>6, <2>4, <2>5, <2>6
<1>8. DOMAIN shards = DaysOf(all)  BY ByDateIs
<1>9. DOMAIN shards \subseteq 0..CurrentDay
  <2>1. ASSUME NEW d \in DaysOf(all)  PROVE d \in 0..CurrentDay
    <3>1. PICK j \in 1..Len(all) : d = Day(all[j].t0)
      <4>1. DOMAIN all = 1..Len(all)  BY <1>1
      <4> QED  BY <4>1 DEF DaysOf, ToSet
    <3>2. f + j - 1 \in Nat /\ f + j - 1 <= z  BY <1>4, <1>5
    <3> DEFINE x == f + j - 1
    <3>3. all[j].t0 = Bar * x  BY <1>5 DEF IsBar
    <3>4. x \in Nat /\ x <= z  BY <3>2
    <3> HIDE DEF x
    <3>5. Bar * x \in Nat /\ Bar * x <= Bar * z  BY <1>4, <3>4, GridIs, GridOrder
    <3>6. d \in Nat /\ d <= Day(Bar * z) /\ Day(Bar * z) \in Nat  BY <1>7, <3>1, <3>3, <3>5, DayIs
    <3> QED  BY <1>6, <1>7, <3>6
  <2> QED  BY <1>8, <2>1
<1>10. WellBarred(shards)  BY <1>3, <1>6, <1>9 DEF WellBarred
<1>11. \A d \in DOMAIN shards : \A p \in 1..Len(shards[d]) : \E j \in 1..Len(all) : shards[d][p] = all[j]
  BY <1>1, <1>8, ShardHasBars
<1>12. \A j \in 1..Len(all) : \E d \in DOMAIN shards : \E p \in 1..Len(shards[d]) : shards[d][p] = all[j]
  BY <1>1, <1>8, BarHasShard
<1> HIDE DEF shards
<1>13. Dated(shards, BarRow) /\ bars \in Seq(BarRow)  BY <1>10, RowsOfWell
<1>14. /\ \A k \in 1..Len(bars) : \E d, p : From(bars, shards, k, d, p)
       /\ \A d \in DOMAIN shards : \A p \in 1..Len(shards[d]) : \E k \in 1..Len(bars) : bars[k] = shards[d][p]
  BY <1>13, RowsAre
<1> HIDE DEF bars
<1>15. ASSUME NEW x \in f..z  PROVE \E k \in 1..Len(bars) : bars[k].t0 = Bar * x
  <2>1. (x - f) + 1 \in 1..Len(all) /\ f + ((x - f) + 1) - 1 = x  BY <1>4
  <2>2. IsBar(all[(x - f) + 1], rows, x)
    <3>1. IsBar(all[(x - f) + 1], rows, f + ((x - f) + 1) - 1)  BY <1>5, <2>1
    <3> QED  BY <2>1, <3>1
  <2>3. PICK d \in DOMAIN shards : \E p \in 1..Len(shards[d]) : shards[d][p] = all[(x - f) + 1]  BY <1>12, <2>1
  <2>4. PICK p \in 1..Len(shards[d]) : shards[d][p] = all[(x - f) + 1]  BY <2>3
  <2>5. PICK k \in 1..Len(bars) : bars[k] = shards[d][p]  BY <1>14
  <2> QED  BY <2>2, <2>4, <2>5 DEF IsBar
<1>16. ASSUME NEW k \in 1..Len(bars)  PROVE \E x \in f..z : IsBar(bars[k], rows, x)
  <2>1. PICK d, p : From(bars, shards, k, d, p)  BY <1>14
  <2>2. d \in DOMAIN shards /\ p \in 1..Len(shards[d]) /\ bars[k] = shards[d][p]  BY <2>1 DEF From
  <2>3. PICK j \in 1..Len(all) : shards[d][p] = all[j]  BY <1>11, <2>2
  <2> QED  BY <1>5, <2>2, <2>3
<1> QED  BY <1>9, <1>10, <1>13, <1>15, <1>16 DEF bars, shards, all

\* Slots without a row, side by side, are flat bars side by side.
LEMMA EmptySlotsSeen ==
  ASSUME NEW rows \in Seq(IndexRow), rows \in Seq(TimedRow), NEW f, NEW z, Grid(BarsOf(rows), rows, f, z),
         NEW s \in Nat, NEW m \in Nat \ {0}, f <= s, s + m - 1 <= z,
         \A x \in s..(s + m - 1) : InSlot(rows, x) = {}
  PROVE  LongestFlat(RowsOf(ByDate(BarsOf(rows)))) \in Nat /\ m <= LongestFlat(RowsOf(ByDate(BarsOf(rows))))
<1> DEFINE shards == ByDate(BarsOf(rows))
           bars == RowsOf(shards)
<1>1. /\ WellBarred(shards) /\ bars \in Seq(BarRow)
      /\ \A x \in f..z : \E k \in 1..Len(bars) : bars[k].t0 = Bar * x
      /\ \A k \in 1..Len(bars) : \E x \in f..z : IsBar(bars[k], rows, x)
  BY SlotsOnDisk
<1>2. f \in Nat /\ z \in Nat  BY DEF Grid
<1> HIDE DEF shards
<1>3. \A j, k \in 1..Len(bars) : j < k => bars[j].t0 < bars[k].t0  BY <1>1, WellIncreases
<1> HIDE DEF bars
<1>4. \A k \in 1..Len(bars) : \E x \in f..z : bars[k].t0 = Bar * x /\ bars[k].n = Cardinality(InSlot(rows, x))
  BY <1>1 DEF IsBar
<1>5. \A k \in 1..Len(bars) : bars[k].t0 \in Nat
  <2>1. \A x \in f..z : Bar * x \in Nat
    <3>1. \A x \in f..z : x \in Nat  BY <1>2
    <3> QED  BY <3>1, GridIs
  <2> QED  BY <1>4, <2>1
<1>6. Len(bars) \in Nat  BY <1>1
\* The bar after that of a slot is that of the next slot.
<1>7. ASSUME NEW x \in Nat, f <= x, x + 1 <= z, NEW k \in 1..Len(bars), bars[k].t0 = Bar * x
      PROVE  k + 1 \in 1..Len(bars) /\ bars[k + 1].t0 = Bar * (x + 1)
  <2>1. x + 1 \in f..z /\ x + 1 \in Nat  BY <1>2, <1>7
  <2>2. PICK j \in 1..Len(bars) : bars[j].t0 = Bar * (x + 1)  BY <1>1, <2>1
  <2>3. Bar * x \in Nat /\ Bar * (x + 1) = Bar * x + Bar /\ Bar \in Nat \ {0}  BY <1>7, GridIs, BarIs
  <2>4. k < j
    <3>1. j = k => bars[j].t0 = bars[k].t0  OBVIOUS
    <3>2. j < k => bars[j].t0 < bars[k].t0  BY <1>3
    <3>3. ~ bars[j].t0 < bars[k].t0 /\ bars[j].t0 # bars[k].t0  BY <1>7, <2>2, <2>3
    <3> QED  BY <3>1, <3>2, <3>3
  <2>5. k + 1 \in 1..Len(bars) /\ k < k + 1 /\ (k + 1 < j \/ k + 1 = j)  BY <1>6, <2>4
  <2>6. PICK y \in f..z : bars[k + 1].t0 = Bar * y  BY <1>4, <2>5
  <2>7. y \in Nat  BY <1>2
  <2>8. bars[k].t0 < bars[k + 1].t0  BY <1>3, <2>5
  <2>9. ~ y <= x
    <3>1. y <= x <=> Bar * y <= Bar * x  BY <1>7, <2>7, GridOrder
    <3>2. Bar * y \in Nat  BY <2>7, GridIs
    <3> QED  BY <1>7, <2>3, <2>6, <2>8, <3>1, <3>2
  <2>10. y <= x + 1
    <3>1. bars[k + 1].t0 <= bars[j].t0
      <4>1. k + 1 < j => bars[k + 1].t0 < bars[j].t0  BY <1>3, <2>5
      <4>2. bars[k + 1].t0 \in Nat /\ bars[j].t0 \in Nat  BY <1>5, <2>5
      <4> QED  BY <2>5, <4>1, <4>2
    <3>2. Bar * y <= Bar * (x + 1)  BY <2>2, <2>6, <3>1
    <3> QED  BY <2>1, <2>7, <3>2, GridOrder
  <2>11. y = x + 1  BY <1>7, <2>7, <2>9, <2>10
  <2> QED  BY <2>5, <2>6, <2>11
<1>8. PICK k \in 1..Len(bars) : bars[k].t0 = Bar * s
  <2>1. s \in f..z  BY <1>2
  <2> QED  BY <1>1, <2>1
<1> DEFINE T == {i \in 0..(m - 1) : k + i \in 1..Len(bars) /\ bars[k + i].t0 = Bar * (s + i)}
<1>9. 0 \in T
  <2>1. k + 0 = k /\ s + 0 = s /\ 0 \in 0..(m - 1)  BY <1>6
  <2> QED  BY <1>8, <2>1
<1>10. ASSUME NEW i \in 0..((m - 1) - 1), i \in T  PROVE i + 1 \in T
  <2>1. k + i \in 1..Len(bars) /\ bars[k + i].t0 = Bar * (s + i)  BY <1>10
  <2>2. s + i \in Nat /\ f <= s + i /\ (s + i) + 1 <= z /\ i + 1 \in 0..(m - 1) /\ (k + i) + 1 = k + (i + 1)
        /\ (s + i) + 1 = s + (i + 1)
    BY <1>2, <1>6
  <2>3. (k + i) + 1 \in 1..Len(bars) /\ bars[(k + i) + 1].t0 = Bar * ((s + i) + 1)  BY <1>7, <2>1, <2>2
  <2> QED  BY <2>2, <2>3
<1> HIDE DEF T
<1>11. m - 1 \in Nat /\ 0..(m - 1) \subseteq T
  <2>1. m - 1 \in Nat  OBVIOUS
  <2> QED  BY <1>9, <1>10, <2>1, Upwards
<1>12. \A i \in 0..(m - 1) : bars[k + i].n = 0
  <2> TAKE i \in 0..(m - 1)
  <2>1. k + i \in 1..Len(bars) /\ bars[k + i].t0 = Bar * (s + i)  BY <1>11 DEF T
  <2>2. PICK x \in f..z : bars[k + i].t0 = Bar * x /\ bars[k + i].n = Cardinality(InSlot(rows, x))  BY <1>4, <2>1
  <2>3. x \in Nat /\ s + i \in Nat /\ s + i \in s..(s + m - 1)  BY <1>2
  <2>4. x = s + i  BY <2>1, <2>2, <2>3, GridOrder
  <2>5. InSlot(rows, x) = {}  BY <2>3, <2>4
  <2> QED  BY <2>2, <2>5, FS_EmptySet
<1>13. k + m - 1 <= Len(bars)
  <2>1. m - 1 \in T  BY <1>11
  <2>2. k + (m - 1) \in 1..Len(bars)  BY <2>1 DEF T
  <2> QED  BY <1>6, <2>2
<1>14. k \in Nat \ {0}  BY <1>6
<1>15. LongestFlat(bars) \in Nat /\ m <= LongestFlat(bars)  BY <1>1, <1>12, <1>13, <1>14, FlatRunSeen
<1> QED  BY <1>15 DEF bars, shards
-----------------------------------------------------------------------------
\* The longest run is below the limit, so no silence reaches it.

LEMMA PassedRuns ==
  ASSUME NEW a, Verdict(a) = "PASS"
  PROVE  ~ LongestFlat(Bars(a)) >= ZeroRun
<1> DEFINE flat == LongestFlat(Bars(a)) >= ZeroRun
<1>1. flat => "K4" \in S10Reasons(a)
  <2> HIDE DEF flat
  <2> QED  BY DEF S10Reasons, flat
<1> QED  BY <1>1, PassedHasNone

LEMMA SilenceSeen ==
  ASSUME NEW a, a.from = 0, a.to = CurrentDay, Dirs(a.idx), Verdict(a) = "PASS",
         a.s10 = S10Shards(a.idx, CurrentDay),
         NEW i \in OnTime(RowsOf(a.idx)), \E j \in OnTime(RowsOf(a.idx)) : j > i
  PROVE  RowsOf(a.idx)[Min({j \in OnTime(RowsOf(a.idx)) : j > i})].t - RowsOf(a.idx)[i].t < (ZeroRun + 1) * Bar
<1> DEFINE rows == RowsOf(a.idx)
           shards == ByDate(BarsOf(rows))
           later == {j \in OnTime(rows) : j > i}
           n == Min(later)
<1>1. rows \in Seq(TimedRow) /\ rows \in Seq(IndexRow) /\ UpTo(a.idx, CurrentDay) = a.idx  BY DirsDated
<1>2. a.s10 = shards  BY <1>1 DEF S10Shards
<1>3. i \in OnTime(rows) /\ later # {}  OBVIOUS
<1> HIDE DEF rows
<1>4. BarsOf(rows) \in Seq(BarRow) /\ BarsOf(rows) # <<>>  BY <1>1, <1>3, BarsAre
<1>5. PICK f, z : Grid(BarsOf(rows), rows, f, z)  BY <1>1, <1>4, BarsAre
<1>6. DOMAIN shards \subseteq 0..CurrentDay  BY <1>1, <1>5, SlotsOnDisk
<1>7. shards = [d \in DOMAIN shards |-> shards[d]]  BY DEF ByDate
<1> HIDE DEF shards
<1>8. InWindow(a, a.s10) = shards
  <2>1. CurrentDay \in Nat  BY QualityAssumption
  <2>2. {e \in DOMAIN shards : a.from <= e /\ e <= a.to} = DOMAIN shards  BY <1>6, <2>1
  <2>3. InWindow(a, shards) = [d \in DOMAIN shards |-> shards[d]]  BY <2>2 DEF InWindow
  <2> QED  BY <1>2, <1>7, <2>3
<1>9. ~ LongestFlat(RowsOf(shards)) >= ZeroRun  BY <1>8, PassedRuns DEF Bars
<1>10. \A j \in OnTime(rows) : j \in Nat /\ j \in 1..Len(rows)
  <2>1. \A j \in 1..Len(rows) : j \in Nat  OBVIOUS
  <2> QED  BY <1>1, <2>1, OnTimeIs
<1>11. n \in later /\ \A j \in later : n <= j
  <2>1. later \subseteq Nat  BY <1>10
  <2> HIDE DEF later
  <2> QED  BY <1>3, <2>1, MinBounded
<1>12. n \in OnTime(rows) /\ n > i /\ \A j \in OnTime(rows) : j <= i \/ n <= j  BY <1>3, <1>10, <1>11
<1> HIDE DEF n, later
<1> DEFINE s == Slot(rows[i].t)
           u == Slot(rows[n].t)
           t == rows[i].t
           v == rows[n].t
<1>13. s \in Nat /\ u \in Nat /\ t \in Nat /\ v \in Nat /\ Bar * s <= t /\ v < Bar * u + Bar
  <2>1. t \in Nat /\ v \in Nat  BY <1>1, <1>3, <1>10, <1>12, RowFields
  <2> QED  BY <2>1, SlotIs
<1>14. ZeroRun \in Nat \ {0} /\ Bar \in Nat \ {0}  BY AuditAssumption, BarIs
<1>15. f <= s /\ u <= z /\ f \in Nat /\ z \in Nat  BY <1>3, <1>5, <1>12 DEF Grid
<1>16. \A j \in OnTime(rows) : Slot(rows[j].t) <= s \/ u <= Slot(rows[j].t)
  <2> TAKE j \in OnTime(rows)
  <2>1. CASE j <= i  BY <1>1, <1>3, <2>1, OnTimeOrder
  <2>2. CASE n <= j  BY <1>1, <1>12, <2>2, OnTimeOrder
  <2> QED  BY <1>12, <2>1, <2>2
<1> SUFFICES ASSUME ~ v - t < (ZeroRun + 1) * Bar  PROVE FALSE
  BY DEF rows, n, later
<1> HIDE DEF s, u, t, v
<1>17. s + ZeroRun + 1 <= u
  <2> DEFINE x == s + ZeroRun + 1
  <2>1. x \in Nat /\ u + 1 \in Nat  BY <1>13, <1>14
  <2>2. Bar * x = Bar * s + (ZeroRun + 1) * Bar
    <3>1. \A b \in Nat : \A y, m \in Nat : b * (y + m + 1) = b * y + (m + 1) * b  OBVIOUS
    <3> QED  BY <1>13, <1>14, <3>1
  <2>3. (ZeroRun + 1) * Bar \in Nat /\ Bar * s \in Nat /\ Bar * u \in Nat /\ Bar * (u + 1) = Bar * u + Bar
    BY <1>13, <1>14, GridIs
  <2>4. Bar * x < Bar * (u + 1)  BY <1>13, <1>14, <2>2, <2>3
  <2> HIDE DEF x
  <2>5. ~ u + 1 <= x
    <3>1. u + 1 <= x <=> Bar * (u + 1) <= Bar * x  BY <2>1, GridOrder
    <3>2. Bar * x \in Nat /\ Bar * (u + 1) \in Nat  BY <2>1, GridIs
    <3> QED  BY <2>4, <3>1, <3>2
  <2> QED  BY <1>13, <2>1, <2>5 DEF x
<1> DEFINE y == s + 1
<1>18. y \in Nat /\ f <= y /\ y + ZeroRun - 1 <= z  BY <1>13, <1>14, <1>15, <1>17
<1>19. \A x \in y..(y + ZeroRun - 1) : InSlot(rows, x) = {}
  <2> TAKE x \in y..(y + ZeroRun - 1)
  <2>1. ~ x <= s /\ ~ u <= x  BY <1>13, <1>14, <1>17
  <2>2. \A j \in OnTime(rows) : Slot(rows[j].t) # x  BY <1>16, <2>1
  <2> QED  BY <2>2 DEF InSlot
<1> HIDE DEF y
<1>20. LongestFlat(RowsOf(shards)) \in Nat /\ ZeroRun <= LongestFlat(RowsOf(shards))
  BY <1>1, <1>5, <1>14, <1>18, <1>19, EmptySlotsSeen DEF shards
<1> QED  BY <1>9, <1>14, <1>20

\* If the bars were built from the records the audit read, no silence of more than ZeroRun whole bars
\* between two usable records passes, across midnight or not.
THEOREM QualitySilence == QualitySpec => []SilenceFails
<1>1. QualityInv => SilenceFails
  <2> SUFFICES ASSUME QualityInv, cert.verdict = "PASS", cert.in.s10 = S10Shards(cert.in.idx, CurrentDay),
                      NEW i \in OnTime(RowsOf(cert.in.idx)), \E j \in OnTime(RowsOf(cert.in.idx)) : j > i
               PROVE  RowsOf(cert.in.idx)[Min({j \in OnTime(RowsOf(cert.in.idx)) : j > i})].t
                        - RowsOf(cert.in.idx)[i].t < (ZeroRun + 1) * Bar
    BY Zenon DEF SilenceFails
  <2>1. cert.in.from = 0 /\ cert.in.to = CurrentDay /\ Verdict(cert.in) = "PASS" /\ Dirs(cert.in.idx)
    BY DEF QualityInv, CertInv
  <2> QED  BY <2>1, SilenceSeen
<1> QED  BY <1>1, QualityInductive, PTL
-----------------------------------------------------------------------------
\* The pass over an index file.

Names   == {"epoch", "backwards", "floor", "crossed", "accepted", "depth", "invalid", "spread", "gap", "oneSided",
            "rejected", "ci", "jump", "stale"}
Levels  == {"error", "warning"}
Finding == [row : Nat, what : Names, level : Levels]

PassState == [n : Nat, t : Int \cup {None}, mid : Int \cup {None}, run : Nat, longest : Nat,
              mids : SUBSET Int, real : Nat, found : SUBSET Finding]

\* A real and sound quote.
Quote(r) == Derived(r) /\ ~r.sentinel

Has(found, i, w) == \E f \in found : f.row = i /\ f.what = w

LEMMA FoundHas ==
  ASSUME NEW row, NEW level, NEW fl, NEW i, NEW w
  PROVE  Has(Found(row, level, fl), i, w) <=> i = row /\ w \in DOMAIN fl /\ fl[w]
<1>1. ASSUME Has(Found(row, level, fl), i, w)  PROVE i = row /\ w \in DOMAIN fl /\ fl[w]
  <2>1. PICK f \in Found(row, level, fl) : f.row = i /\ f.what = w  BY <1>1 DEF Has
  <2>2. PICK v \in {x \in DOMAIN fl : fl[x]} : f = [row |-> row, what |-> v, level |-> level]  BY <2>1 DEF Found
  <2>3. f.row = row /\ f.what = v  BY <2>2
  <2> QED  BY <2>1, <2>2, <2>3
<1>2. ASSUME i = row, w \in DOMAIN fl, fl[w]  PROVE Has(Found(row, level, fl), i, w)
  <2> DEFINE f == [row |-> row, what |-> w, level |-> level]
  <2>1. w \in {x \in DOMAIN fl : fl[x]}  BY <1>2
  <2>2. f \in Found(row, level, fl)  BY <2>1 DEF Found
  <2>3. f.row = row /\ f.what = w  OBVIOUS
  <2> QED  BY <1>2, <2>2, <2>3 DEF Has
<1> QED  BY <1>1, <1>2

LEMMA HasUnion ==
  ASSUME NEW A, NEW B, NEW i, NEW w
  PROVE  Has(A \cup B, i, w) <=> Has(A, i, w) \/ Has(B, i, w)
  BY DEF Has

LEMMA FoundType ==
  ASSUME NEW row \in Nat, NEW level \in Levels, NEW fl, DOMAIN fl \subseteq Names
  PROVE  Found(row, level, fl) \in SUBSET Finding
  BY DEF Found, Finding

\* What a row adds, and what it leaves the next one.
Added(st, r, clk) ==
  Found(st.n + 1, "error", IdxHard(st.t, r, clk)) \cup Found(st.n + 1, "warning", IdxWarned(st.t, r))
    \cup IF Derived(r) THEN Found(st.n + 1, "warning", IdxHeuristic(st, r)) ELSE {}

RunAfter(st, r) == IF st.mid = Mid2(r) THEN st.run + 1 ELSE 1

LEMMA FlagNames ==
  ASSUME NEW prev, NEW r, NEW clk, NEW st
  PROVE  /\ DOMAIN IdxHard(prev, r, clk) = {"epoch", "backwards", "floor", "crossed", "accepted", "depth", "invalid", "spread"}
         /\ DOMAIN IdxWarned(prev, r) = {"gap", "oneSided", "rejected"}
         /\ DOMAIN IdxHeuristic(st, r) = {"ci", "jump", "stale"}
<1>1. DOMAIN IdxHard(prev, r, clk) = {"epoch", "backwards", "floor", "crossed", "accepted", "depth", "invalid", "spread"}
  BY Zenon DEF IdxHard
<1>2. DOMAIN IdxWarned(prev, r) = {"gap", "oneSided", "rejected"}  BY Zenon DEF IdxWarned
<1>3. DOMAIN IdxHeuristic(st, r) = {"ci", "jump", "stale"}  BY Zenon DEF IdxHeuristic
<1> QED  BY <1>1, <1>2, <1>3

LEMMA AddedType ==
  ASSUME NEW st \in PassState, NEW r, NEW clk
  PROVE  Added(st, r, clk) \in SUBSET Finding
<1>1. st.n + 1 \in Nat /\ "error" \in Levels /\ "warning" \in Levels  BY DEF PassState, Levels
<1> DEFINE h == IdxHard(st.t, r, clk)
           w == IdxWarned(st.t, r)
           x == IdxHeuristic(st, r)
<1>2. DOMAIN h \subseteq Names /\ DOMAIN w \subseteq Names /\ DOMAIN x \subseteq Names  BY FlagNames DEF Names
<1>3. Added(st, r, clk) = Found(st.n + 1, "error", h) \cup Found(st.n + 1, "warning", w)
                            \cup IF Derived(r) THEN Found(st.n + 1, "warning", x) ELSE {}
  BY DEF Added
<1> HIDE DEF h, w, x
<1>4. Found(st.n + 1, "error", h) \in SUBSET Finding  BY <1>1, <1>2, FoundType
<1>5. Found(st.n + 1, "warning", w) \in SUBSET Finding  BY <1>1, <1>2, FoundType
<1>6. Found(st.n + 1, "warning", x) \in SUBSET Finding  BY <1>1, <1>2, FoundType
<1> QED  BY <1>3, <1>4, <1>5, <1>6

LEMMA SeenType ==
  ASSUME NEW st \in PassState, NEW n \in Nat, NEW t \in Int, NEW fs \in SUBSET Finding
  PROVE  [st EXCEPT !.n = n, !.t = t, !.found = fs] \in PassState
<1>1. [st EXCEPT !.n = n] \in PassState  BY DEF PassState
<1> DEFINE a == [st EXCEPT !.n = n]
           b == [a EXCEPT !.t = t]
<1>2. [st EXCEPT !.n = n, !.t = t, !.found = fs] = [b EXCEPT !.found = fs]  BY DEF PassState
<1>3. a \in PassState  BY <1>1
<1> HIDE DEF a
<1>4. b \in PassState  BY <1>3 DEF PassState
<1> HIDE DEF b
<1>5. [b EXCEPT !.found = fs] \in PassState  BY <1>4 DEF PassState
<1> QED  BY <1>2, <1>5

LEMMA TrackType ==
  ASSUME NEW st \in PassState, NEW r, Mid2(r) \in Int
  PROVE  /\ Track(st, r) \in PassState
         /\ LET v == Track(st, r)
            IN /\ v.n = st.n /\ v.t = st.t /\ v.found = st.found /\ v.mid = Mid2(r)
               /\ v.run = RunAfter(st, r) /\ v.longest = Max({st.longest, RunAfter(st, r)})
<1> DEFINE m == Mid2(r)
           run == RunAfter(st, r)
           l == Max({st.longest, run})
           ms == st.mids \cup {m}
           x == st.real + 1
           a == [st EXCEPT !.mid = m]
           b == [a EXCEPT !.run = run]
           c == [b EXCEPT !.longest = l]
           d == [c EXCEPT !.mids = ms]
           v == Track(st, r)
<1>1. run \in Nat /\ st.longest \in Nat /\ x \in Nat /\ ms \in SUBSET Int /\ m \in Int  BY DEF RunAfter, PassState
<1>2. l \in Nat  BY <1>1, TwoNumbers
<1>3. v = [st EXCEPT !.mid = m, !.run = run, !.longest = l, !.mids = ms, !.real = x]  BY DEF Track, RunAfter
<1> HIDE DEF m, run, l, ms, x, v
<1>4. v = [d EXCEPT !.real = x]  BY <1>3 DEF PassState
<1>5. a \in PassState  BY <1>1 DEF PassState
<1> HIDE DEF a
<1>6. b \in PassState  BY <1>1, <1>5 DEF PassState
<1> HIDE DEF b
<1>7. c \in PassState  BY <1>2, <1>6 DEF PassState
<1> HIDE DEF c
<1>8. d \in PassState  BY <1>1, <1>7 DEF PassState
<1> HIDE DEF d
<1>9. v \in PassState  BY <1>1, <1>4, <1>8 DEF PassState
<1>10. v.n = st.n /\ v.t = st.t /\ v.found = st.found /\ v.mid = m /\ v.run = run /\ v.longest = l
  BY <1>3 DEF PassState
<1> QED  BY <1>9, <1>10 DEF v, m, run, l

\* v is what the pass remembers after a row.
RowMoves(st, r, clk, v) ==
  /\ v.n = st.n + 1 /\ v.t = r.t /\ v.found = st.found \cup Added(st, r, clk)
  /\ Quote(r) => v.mid = Mid2(r) /\ v.run = RunAfter(st, r) /\ v.longest = Max({st.longest, RunAfter(st, r)})
  /\ ~Quote(r) => v.mid = st.mid /\ v.run = st.run /\ v.longest = st.longest

LEMMA IdxRowIs ==
  ASSUME NEW st \in PassState, NEW r \in IndexRow, NEW clk
  PROVE  IdxRow(st, r, clk, FALSE) \in PassState /\ RowMoves(st, r, clk, IdxRow(st, r, clk, FALSE))
<1> DEFINE v == IdxRow(st, r, clk, FALSE)
           fh == Found(st.n + 1, "error", IdxHard(st.t, r, clk)) \cup Found(st.n + 1, "warning", IdxWarned(st.t, r))
           fx == Found(st.n + 1, "warning", IdxHeuristic(st, r))
           seen == [st EXCEPT !.n = st.n + 1, !.t = r.t, !.found = (st.found \cup fh)]
           judged == [seen EXCEPT !.found = (seen.found \cup fx)]
           n == st.n + 1
           t == r.t
           m == Mid2(r)
<1>1. n \in Nat /\ t \in Int /\ m \in Int /\ st.found \in SUBSET Finding
  <2>1. r.t \in Nat /\ r.bid \in Int /\ r.ask \in Int  BY DEF IndexRow
  <2>2. st.n \in Nat /\ st.found \in SUBSET Finding  BY DEF PassState
  <2> QED  BY <2>1, <2>2 DEF Mid2
<1>2. Heuristic(FALSE) = "warning"  BY DEF Heuristic
<1>3. st.found \cup Found(st.n + 1, "error", IdxHard(st.t, r, clk)) \cup Found(st.n + 1, "warning", IdxWarned(st.t, r))
        = st.found \cup fh
  OBVIOUS
<1>4. v = IF ~Derived(r) THEN seen ELSE IF r.sentinel THEN judged ELSE Track(judged, r)
  <2> DEFINE seen0 == [st EXCEPT !.n = st.n + 1, !.t = r.t,
                                 !.found = st.found \cup Found(st.n + 1, "error", IdxHard(st.t, r, clk))
                                                    \cup Found(st.n + 1, "warning", IdxWarned(st.t, r))]
             judged0 == [seen0 EXCEPT !.found = seen0.found \cup Found(st.n + 1, Heuristic(FALSE), IdxHeuristic(st, r))]
  <2>1. v = IF ~Derived(r) THEN seen0 ELSE IF r.sentinel THEN judged0 ELSE Track(judged0, r)  BY Zenon DEF IdxRow
  <2>2. seen0 = seen  BY <1>3, Zenon
  <2>3. judged0 = [seen EXCEPT !.found = seen.found \cup Found(st.n + 1, Heuristic(FALSE), IdxHeuristic(st, r))]
    BY <2>2, Zenon
  <2>4. judged0 = judged  BY <1>2, <2>3, Zenon
  <2> HIDE DEF v, seen, seen0, judged, judged0
  <2> QED  BY <2>1, <2>2, <2>4
<1>5. Added(st, r, clk) = IF Derived(r) THEN fh \cup fx ELSE fh  BY DEF Added
<1>6. Added(st, r, clk) \in SUBSET Finding  BY AddedType
<1>7. fh \in SUBSET Finding /\ (Derived(r) => fx \in SUBSET Finding)  BY <1>5, <1>6
<1> DEFINE fs == st.found \cup fh
<1>8. fs \in SUBSET Finding  BY <1>1, <1>7
<1>9. seen = [st EXCEPT !.n = n, !.t = t, !.found = fs]  OBVIOUS
<1> HIDE DEF v, fx, fh, fs, n, t, seen, judged
<1>10. seen \in PassState  BY <1>1, <1>8, <1>9, SeenType
<1>11. seen.n = n /\ seen.t = t /\ seen.found = fs /\ seen.mid = st.mid /\ seen.run = st.run /\ seen.longest = st.longest
  BY <1>9 DEF PassState
<1>12. ASSUME Derived(r)
       PROVE  /\ judged \in PassState /\ judged.found = fs \cup fx
              /\ judged.n = n /\ judged.t = t /\ judged.mid = st.mid /\ judged.run = st.run /\ judged.longest = st.longest
  <2> DEFINE gs == seen.found \cup fx
  <2>1. gs \in SUBSET Finding  BY <1>7, <1>8, <1>11, <1>12
  <2>2. judged = [seen EXCEPT !.found = gs]  BY DEF judged
  <2> HIDE DEF gs
  <2>3. judged \in PassState  BY <1>10, <2>1, <2>2 DEF PassState
  <2>4. judged.found = gs /\ judged.n = seen.n /\ judged.t = seen.t /\ judged.mid = seen.mid /\ judged.run = seen.run
        /\ judged.longest = seen.longest
    BY <1>10, <2>2 DEF PassState
  <2> QED  BY <1>11, <2>3, <2>4 DEF gs
<1>13. CASE ~Derived(r)
  <2>1. v = seen  BY <1>4, <1>13
  <2>2. v.found = st.found \cup Added(st, r, clk)  BY <1>5, <1>11, <1>13, <2>1 DEF fs
  <2> QED  BY <1>10, <1>11, <1>13, <2>1, <2>2 DEF Quote, RowMoves, v, n, t
<1>14. CASE Derived(r) /\ r.sentinel
  <2>1. v = judged  BY <1>4, <1>14
  <2>2. v.found = st.found \cup Added(st, r, clk)  BY <1>5, <1>12, <1>14, <2>1 DEF fs
  <2> QED  BY <1>12, <1>14, <2>1, <2>2 DEF Quote, RowMoves, v, n, t
<1>15. CASE Derived(r) /\ ~r.sentinel
  <2>1. v = Track(judged, r)  BY <1>4, <1>15
  <2>2. judged \in PassState /\ Mid2(r) \in Int  BY <1>1, <1>12, <1>15
  <2>3. RunAfter(judged, r) = RunAfter(st, r)  BY <1>12, <1>15 DEF RunAfter
  <2>4. /\ v \in PassState /\ v.n = judged.n /\ v.t = judged.t /\ v.found = judged.found /\ v.mid = Mid2(r)
        /\ v.run = RunAfter(st, r) /\ v.longest = Max({judged.longest, RunAfter(st, r)})
    BY <2>1, <2>2, <2>3, TrackType
  <2>5. v.found = st.found \cup Added(st, r, clk)  BY <1>5, <1>12, <1>15, <2>4 DEF fs
  <2> QED  BY <1>12, <1>15, <2>4, <2>5 DEF Quote, RowMoves, v, n, t
<1> QED  BY <1>13, <1>14, <1>15 DEF v
-----------------------------------------------------------------------------
\* The states of the pass: st[i] is the one after i rows.

PassStates(st, rows, clk) ==
  /\ st[0] = IdxStart
  /\ \A i \in 0..Len(rows) : st[i] \in PassState
  /\ \A i \in 1..Len(rows) : st[i] = IdxRow(st[i - 1], rows[i], clk, FALSE)

LEMMA StartIs ==
  /\ IdxStart \in PassState /\ IdxStart.n = 0 /\ IdxStart.t = None /\ IdxStart.mid = None
  /\ IdxStart.run = 0 /\ IdxStart.longest = 0 /\ IdxStart.found = {}
  BY DEF IdxStart, PassState

LEMMA PassRuns ==
  ASSUME NEW rows \in Seq(IndexRow), NEW clk
  PROVE  \E st : PassStates(st, rows, clk) /\ IdxPass(rows, clk, FALSE) = st[Len(rows)]
<1> DEFINE N == Len(rows)
           F == [i \in 1..N |-> [s \in PassState |-> IdxRow(s, rows[i], clk, FALSE)]]
           E(g) == g = [i \in 0..N |-> IF i = 0 THEN IdxStart ELSE IdxRow(g[i - 1], rows[i], clk, FALSE)]
           c == CHOOSE g : E(g)
<1>1. N \in Nat /\ \A i \in 1..N : rows[i] \in IndexRow  BY LenProperties
<1>2. \A i \in 1..N : \A s \in PassState : F[i][s] = IdxRow(s, rows[i], clk, FALSE) /\ F[i][s] \in PassState
  <2> TAKE i \in 1..N
  <2> TAKE s \in PassState
  <2>1. rows[i] \in IndexRow  BY <1>1
  <2>2. IdxRow(s, rows[i], clk, FALSE) \in PassState  BY <2>1, IdxRowIs
  <2>3. F[i][s] = IdxRow(s, rows[i], clk, FALSE)  OBVIOUS
  <2> QED  BY <2>2, <2>3
<1>3. IdxStart \in PassState  BY StartIs
<1>4. PICK g : Folded(g, N, PassState, IdxStart, F)
  <2> HIDE DEF F, N
  <2> QED  BY <1>1, <1>2, <1>3, FoldIs
<1>5. 0 \in 0..N /\ \A i \in 0..N : i # 0 => i \in 1..N /\ i - 1 \in 0..N  BY <1>1
<1>6. E(g)
  <2>1. \A i \in 0..N : g[i] = IF i = 0 THEN IdxStart ELSE F[i][g[i - 1]]  BY <1>4 DEF Folded
  <2>2. g = [i \in 0..N |-> g[i]]  BY <1>4 DEF Folded
  <2>3. \A i \in 0..N : i # 0 => g[i - 1] \in PassState  BY <1>4, <1>5 DEF Folded
  <2> HIDE DEF F, N
  <2>4. \A i \in 0..N : g[i] = IF i = 0 THEN IdxStart ELSE IdxRow(g[i - 1], rows[i], clk, FALSE)
    BY <1>2, <1>5, <2>1, <2>3
  <2> QED  BY <2>2, <2>4
<1>7. E(c)  BY <1>6
<1>8. IdxPass(rows, clk, FALSE) = c[N]  BY DEF IdxPass
<1> HIDE DEF c, F, N
<1>9. \A i \in 0..N : c[i] = IF i = 0 THEN IdxStart ELSE IdxRow(c[i - 1], rows[i], clk, FALSE)  BY <1>7
<1> DEFINE T == {i \in 0..N : c[i] \in PassState}
<1>10. 0 \in T  BY <1>3, <1>5, <1>9
<1>11. ASSUME NEW n \in 0..(N - 1), n \in T  PROVE n + 1 \in T
  <2>1. n + 1 \in 0..N /\ n + 1 \in 1..N /\ (n + 1) - 1 = n /\ n + 1 # 0  BY <1>1
  <2>2. c[n] \in PassState /\ c[n + 1] = IdxRow(c[n], rows[n + 1], clk, FALSE)  BY <1>9, <1>11, <2>1
  <2>3. rows[n + 1] \in IndexRow  BY <1>1, <2>1
  <2>4. c[n + 1] \in PassState  BY <2>2, <2>3, IdxRowIs
  <2> QED  BY <2>1, <2>4
<1> HIDE DEF T
<1>12. 0..N \subseteq T  BY <1>1, <1>10, <1>11, Upwards
<1>13. \A i \in 1..N : i \in 0..N /\ i # 0  BY <1>1
<1>14. \A i \in 0..N : c[i] \in PassState  BY <1>12 DEF T
<1>15. \A i \in 1..N : c[i] = IdxRow(c[i - 1], rows[i], clk, FALSE)  BY <1>9, <1>13
<1>16. c[0] = IdxStart  BY <1>5, <1>9
<1> QED  BY <1>8, <1>14, <1>15, <1>16 DEF N, PassStates

\* One row.
LEMMA PassStep ==
  ASSUME NEW rows \in Seq(IndexRow), NEW clk, NEW st, PassStates(st, rows, clk), NEW n \in 0..(Len(rows) - 1)
  PROVE  st[n] \in PassState /\ st[n + 1] \in PassState /\ RowMoves(st[n], rows[n + 1], clk, st[n + 1])
<1>1. Len(rows) \in Nat  OBVIOUS
<1>2. n + 1 \in 1..Len(rows) /\ n \in 0..Len(rows) /\ (n + 1) - 1 = n /\ rows[n + 1] \in IndexRow  BY <1>1
<1>3. st[n] \in PassState /\ st[n + 1] = IdxRow(st[n], rows[n + 1], clk, FALSE)  BY <1>2 DEF PassStates
<1> QED  BY <1>2, <1>3, IdxRowIs

\* The pass knows how many rows it has seen, and when the last was.
LEMMA PassCounts ==
  ASSUME NEW rows \in Seq(IndexRow), NEW clk, NEW st, PassStates(st, rows, clk), NEW i \in 0..Len(rows)
  PROVE  st[i].n = i /\ st[i].t = IF i = 0 THEN None ELSE rows[i].t
<1> DEFINE N == Len(rows)
           T == {n \in 0..N : st[n].n = n /\ st[n].t = IF n = 0 THEN None ELSE rows[n].t}
<1>1. N \in Nat  OBVIOUS
<1>2. 0 \in T  BY <1>1, StartIs DEF PassStates
<1>3. ASSUME NEW n \in 0..(N - 1), n \in T  PROVE n + 1 \in T
  <2>1. n + 1 \in 1..N /\ n + 1 \in 0..N /\ (n + 1) - 1 = n /\ n + 1 # 0  BY <1>1
  <2>0. RowMoves(st[n], rows[n + 1], clk, st[n + 1])  BY PassStep
  <2>2. st[n + 1].n = st[n].n + 1 /\ st[n + 1].t = rows[n + 1].t  BY <2>1, <2>0 DEF RowMoves
  <2>3. st[n].n = n  BY <1>3
  <2> QED  BY <2>1, <2>2, <2>3
<1> HIDE DEF T
<1>4. 0..N \subseteq T  BY <1>1, <1>2, <1>3, Upwards
<1> QED  BY <1>4 DEF T, N

\* The mid it goes by is that of the last quote.
Base(rows, i) == {j \in 1..i : Quote(rows[j])}

LEMMA PassMid ==
  ASSUME NEW rows \in Seq(IndexRow), NEW clk, NEW st, PassStates(st, rows, clk), NEW i \in 0..Len(rows)
  PROVE  st[i].mid = IF Base(rows, i) = {} THEN None ELSE Mid2(rows[Max(Base(rows, i))])
<1> DEFINE N == Len(rows)
           T == {n \in 0..N : st[n].mid = IF Base(rows, n) = {} THEN None ELSE Mid2(rows[Max(Base(rows, n))])}
<1>1. N \in Nat  OBVIOUS
<1>2. 0 \in T
  <2>1. Base(rows, 0) = {}  BY DEF Base
  <2> QED  BY <1>1, <2>1, StartIs DEF PassStates
<1>3. ASSUME NEW n \in 0..(N - 1), n \in T  PROVE n + 1 \in T
  <2>1. n + 1 \in 1..N /\ n + 1 \in 0..N /\ (n + 1) - 1 = n /\ n \in Nat  BY <1>1
  <2>0. RowMoves(st[n], rows[n + 1], clk, st[n + 1])  BY PassStep
  <2>2. st[n].mid = IF Base(rows, n) = {} THEN None ELSE Mid2(rows[Max(Base(rows, n))])  BY <1>3
  <2> HIDE DEF T
  <2>3. CASE ~Quote(rows[n + 1])
    <3>1. st[n + 1].mid = st[n].mid  BY <2>1, <2>3, <2>0 DEF RowMoves
    <3>2. Base(rows, n + 1) = Base(rows, n)
      <4>1. \A j \in Nat : (j \in 1..(n + 1) /\ j # n + 1) <=> j \in 1..n  BY <2>1
      <4>2. \A j : j \in 1..(n + 1) \/ j \in 1..n => j \in Nat  OBVIOUS
      <4> QED  BY <2>3, <4>1, <4>2 DEF Base
    <3> QED  BY <2>1, <2>2, <3>1, <3>2 DEF T
  <2>4. CASE Quote(rows[n + 1])
    <3>1. st[n + 1].mid = Mid2(rows[n + 1])  BY <2>1, <2>4, <2>0 DEF RowMoves
    <3> DEFINE B == Base(rows, n + 1)
    <3>2. n + 1 \in B /\ B \subseteq Int /\ \A j \in B : j <= n + 1  BY <2>1, <2>4 DEF Base
    <3> HIDE DEF B
    <3>3. Max(B) \in B /\ \A j \in B : j <= Max(B)  BY <2>1, <3>2, MaxBounded
    <3>4. Max(B) = n + 1
      <4>1. Max(B) \in Int /\ Max(B) <= n + 1 /\ n + 1 <= Max(B)  BY <3>2, <3>3
      <4> QED  BY <2>1, <4>1
    <3> QED  BY <2>1, <3>1, <3>2, <3>4 DEF T, B
  <2> QED  BY <2>3, <2>4
<1> HIDE DEF T
<1>4. 0..N \subseteq T  BY <1>1, <1>2, <1>3, Upwards
<1> QED  BY <1>4 DEF T, N

\* What it found is about the rows it has seen, and what a row added is about that row.
LEMMA AddedRow ==
  ASSUME NEW s, NEW r, NEW clk, NEW j, NEW w, Has(Added(s, r, clk), j, w)
  PROVE  j = s.n + 1
<1> DEFINE h == IdxHard(s.t, r, clk)
           a == IdxWarned(s.t, r)
           x == IdxHeuristic(s, r)
<1>1. Added(s, r, clk) = (Found(s.n + 1, "error", h) \cup Found(s.n + 1, "warning", a))
                           \cup IF Derived(r) THEN Found(s.n + 1, "warning", x) ELSE {}
  BY DEF Added
<1> HIDE DEF h, a, x
<1>2. PICK f \in Added(s, r, clk) : f.row = j /\ f.what = w  BY DEF Has
<1>3. f \in Found(s.n + 1, "error", h) \/ f \in Found(s.n + 1, "warning", a) \/ f \in Found(s.n + 1, "warning", x)
  BY <1>1, <1>2
<1>4. \/ Has(Found(s.n + 1, "error", h), j, w) \/ Has(Found(s.n + 1, "warning", a), j, w)
      \/ Has(Found(s.n + 1, "warning", x), j, w)
  BY <1>2, <1>3 DEF Has
<1> QED  BY <1>4, FoundHas

LEMMA PassFound ==
  ASSUME NEW rows \in Seq(IndexRow), NEW clk, NEW st, PassStates(st, rows, clk), NEW i \in 0..Len(rows)
  PROVE  \A j, w : Has(st[i].found, j, w) <=> j \in 1..i /\ Has(Added(st[j - 1], rows[j], clk), j, w)
<1> DEFINE N == Len(rows)
           T == {n \in 0..N : \A j, w : Has(st[n].found, j, w) <=> j \in 1..n /\ Has(Added(st[j - 1], rows[j], clk), j, w)}
<1>1. N \in Nat  OBVIOUS
<1>2. 0 \in T
  <2>1. st[0].found = {}  BY StartIs DEF PassStates
  <2>2. \A j, w : ~Has(st[0].found, j, w)  BY <2>1 DEF Has
  <2>3. \A j : j \notin 1..0  OBVIOUS
  <2> QED  BY <1>1, <2>2, <2>3
<1>3. ASSUME NEW n \in 0..(N - 1), n \in T  PROVE n + 1 \in T
  <2>1. n + 1 \in 1..N /\ n + 1 \in 0..N /\ (n + 1) - 1 = n /\ n \in Nat /\ n \in 0..N  BY <1>1
  <2>0. RowMoves(st[n], rows[n + 1], clk, st[n + 1])  BY PassStep
  <2>2. \A j, w : Has(st[n].found, j, w) <=> j \in 1..n /\ Has(Added(st[j - 1], rows[j], clk), j, w)  BY <1>3
  <2> HIDE DEF T
  <2>3. st[n + 1].found = st[n].found \cup Added(st[n], rows[n + 1], clk)  BY <2>1, <2>0 DEF RowMoves
  <2>4. st[n].n = n  BY <2>1, PassCounts
  <2>5. ASSUME NEW j, NEW w
        PROVE  Has(st[n + 1].found, j, w) <=> j \in 1..(n + 1) /\ Has(Added(st[j - 1], rows[j], clk), j, w)
    <3>1. Has(st[n + 1].found, j, w) <=> Has(st[n].found, j, w) \/ Has(Added(st[n], rows[n + 1], clk), j, w)
      BY <2>3, HasUnion
    <3>2. Has(Added(st[n], rows[n + 1], clk), j, w) => j = n + 1  BY <2>4, AddedRow
    <3>3. n + 1 \in 1..(n + 1) /\ n + 1 \notin 1..n /\ (j \in 1..(n + 1) /\ j # n + 1 <=> j \in 1..n)  BY <2>1
    <3>4. CASE j = n + 1
      <4>1. ~Has(st[n].found, j, w)  BY <2>2, <3>3, <3>4
      <4>2. Added(st[j - 1], rows[j], clk) = Added(st[n], rows[n + 1], clk)  BY <2>1, <3>4
      <4> QED  BY <3>1, <3>3, <3>4, <4>1, <4>2
    <3>5. CASE j # n + 1  BY <2>2, <3>1, <3>2, <3>3, <3>5
    <3> QED  BY <3>4, <3>5
  <2> QED  BY <2>1, <2>5 DEF T
<1> HIDE DEF T
<1>4. 0..N \subseteq T  BY <1>1, <1>2, <1>3, Upwards
<1> QED  BY <1>4 DEF T, N
-----------------------------------------------------------------------------
\* What is found of a row.

LEMMA AddedHas ==
  ASSUME NEW s, NEW r, NEW clk, NEW w
  PROVE  Has(Added(s, r, clk), s.n + 1, w) <=>
           \/ w \in DOMAIN IdxHard(s.t, r, clk) /\ IdxHard(s.t, r, clk)[w]
           \/ w \in DOMAIN IdxWarned(s.t, r) /\ IdxWarned(s.t, r)[w]
           \/ Derived(r) /\ w \in DOMAIN IdxHeuristic(s, r) /\ IdxHeuristic(s, r)[w]
<1> DEFINE h == IdxHard(s.t, r, clk)
           a == IdxWarned(s.t, r)
           x == IdxHeuristic(s, r)
           m == s.n + 1
           A == Found(m, "error", h)
           B == Found(m, "warning", a)
           C == Found(m, "warning", x)
<1>1. Added(s, r, clk) = (A \cup B) \cup IF Derived(r) THEN C ELSE {}  BY DEF Added
<1>2. Has(A, m, w) <=> w \in DOMAIN h /\ h[w]
  <2> HIDE DEF h, m
  <2> QED  BY FoundHas
<1>3. Has(B, m, w) <=> w \in DOMAIN a /\ a[w]
  <2> HIDE DEF a, m
  <2> QED  BY FoundHas
<1>4. Has(C, m, w) <=> w \in DOMAIN x /\ x[w]
  <2> HIDE DEF x, m
  <2> QED  BY FoundHas
<1> HIDE DEF A, B, C, m, h, a, x
<1>5. ~Has({}, m, w)  BY DEF Has
<1>6. Has(A \cup B, m, w) <=> Has(A, m, w) \/ Has(B, m, w)  BY HasUnion
<1>7. CASE Derived(r)
  <2>1. Added(s, r, clk) = (A \cup B) \cup C  BY <1>1, <1>7
  <2>2. Has((A \cup B) \cup C, m, w) <=> Has(A \cup B, m, w) \/ Has(C, m, w)  BY HasUnion
  <2>3. Has(Added(s, r, clk), m, w) <=>
          \/ w \in DOMAIN h /\ h[w]
          \/ w \in DOMAIN a /\ a[w]
          \/ Derived(r) /\ w \in DOMAIN x /\ x[w]
    BY <1>2, <1>3, <1>4, <1>6, <1>7, <2>1, <2>2
  <2> QED  BY <2>3 DEF m, h, a, x
<1>8. CASE ~Derived(r)
  <2>1. Added(s, r, clk) = (A \cup B) \cup {}  BY <1>1, <1>8
  <2>2. Has((A \cup B) \cup {}, m, w) <=> Has(A \cup B, m, w) \/ Has({}, m, w)  BY HasUnion
  <2>3. Has(Added(s, r, clk), m, w) <=>
          \/ w \in DOMAIN h /\ h[w]
          \/ w \in DOMAIN a /\ a[w]
          \/ Derived(r) /\ w \in DOMAIN x /\ x[w]
    BY <1>2, <1>3, <1>5, <1>6, <1>8, <2>1, <2>2
  <2> QED  BY <2>3 DEF m, h, a, x
<1> QED  BY <1>7, <1>8

\* A row that is said to go backwards, and one that is said to jump.
LEMMA AddedFlags ==
  ASSUME NEW s, NEW r, NEW clk
  PROVE  /\ Has(Added(s, r, clk), s.n + 1, "backwards") <=> s.t # None /\ r.t < s.t
         /\ Has(Added(s, r, clk), s.n + 1, "jump") <=>
              /\ Quote(r) /\ s.mid # None
              /\ (s.t # None /\ r.t >= s.t) => r.t - s.t <= IdxMaxGap
              /\ Distance(Mid2(r), s.mid) * JumpIn > s.mid
<1> DEFINE hard == IdxHard(s.t, r, clk)
           warned == IdxWarned(s.t, r)
           heur == IdxHeuristic(s, r)
<1>1. hard["backwards"] = (s.t # None /\ r.t < s.t)  BY Zenon DEF IdxHard
<1>2. heur["jump"] = (/\ ~r.sentinel /\ s.mid # None
                      /\ (s.t # None /\ r.t >= s.t) => r.t - s.t <= IdxMaxGap
                      /\ (IF Mid2(r) < s.mid THEN s.mid - Mid2(r) ELSE Mid2(r) - s.mid) * JumpIn > s.mid)
  BY Zenon DEF IdxHeuristic
<1>3. DOMAIN hard = {"epoch", "backwards", "floor", "crossed", "accepted", "depth", "invalid", "spread"}
      /\ DOMAIN warned = {"gap", "oneSided", "rejected"} /\ DOMAIN heur = {"ci", "jump", "stale"}
  BY FlagNames
<1>4. \A w : Has(Added(s, r, clk), s.n + 1, w) <=>
               \/ w \in DOMAIN hard /\ hard[w]
               \/ w \in DOMAIN warned /\ warned[w]
               \/ Derived(r) /\ w \in DOMAIN heur /\ heur[w]
  BY AddedHas
<1> HIDE DEF hard, warned, heur
<1>5. Has(Added(s, r, clk), s.n + 1, "backwards") <=> hard["backwards"]
  <2>1. "backwards" \in DOMAIN hard /\ "backwards" \notin DOMAIN warned /\ "backwards" \notin DOMAIN heur  BY <1>3
  <2> QED  BY <1>4, <2>1
<1>6. Has(Added(s, r, clk), s.n + 1, "jump") <=> Derived(r) /\ heur["jump"]
  <2>1. "jump" \notin DOMAIN hard /\ "jump" \notin DOMAIN warned /\ "jump" \in DOMAIN heur  BY <1>3
  <2> QED  BY <1>4, <2>1
<1> QED  BY <1>1, <1>2, <1>5, <1>6 DEF Quote, Distance

LEMMA RowFound ==
  ASSUME NEW rows \in Seq(IndexRow), NEW clk, NEW st, PassStates(st, rows, clk), NEW i \in 1..Len(rows)
  PROVE  /\ Has(st[Len(rows)].found, i, "backwards") <=> i > 1 /\ rows[i].t < rows[i - 1].t
         /\ Has(st[Len(rows)].found, i, "jump") <=>
              /\ Quote(rows[i]) /\ Base(rows, i - 1) # {}
              /\ rows[i].t - rows[i - 1].t <= IdxMaxGap
              /\ Distance(Mid2(rows[i]), Mid2(rows[Max(Base(rows, i - 1))])) * JumpIn > Mid2(rows[Max(Base(rows, i - 1))])
<1> DEFINE N == Len(rows)
           s == st[i - 1]
           r == rows[i]
           B == Base(rows, i - 1)
           p == Mid2(rows[Max(B)])
<1>1. N \in Nat /\ i \in 1..N /\ i - 1 \in 0..N /\ N \in 0..N /\ (i > 1 => i - 1 \in 1..N)  OBVIOUS
<1>2. s.n = i - 1 /\ s.t = IF i - 1 = 0 THEN None ELSE rows[i - 1].t  BY <1>1, PassCounts
<1>3. s.mid = IF B = {} THEN None ELSE p  BY <1>1, PassMid
<1>4. \A w : Has(st[N].found, i, w) <=> Has(Added(s, r, clk), i, w)
  <2>1. \A j, w : Has(st[N].found, j, w) <=> j \in 1..N /\ Has(Added(st[j - 1], rows[j], clk), j, w)
    BY <1>1, PassFound
  <2> QED  BY <1>1, <2>1
<1>5. r.t \in Int /\ (i > 1 => rows[i - 1].t \in Int)
  <2>1. \A j \in 1..N : rows[j].t \in Nat  BY RowFields
  <2> QED  BY <1>1, <2>1
<1>6. ASSUME B # {}  PROVE p \in Int /\ i > 1
  <2> DEFINE b == i - 1
  <2>1. b \in Int /\ B \subseteq 1..b /\ B \subseteq Int /\ \A j \in B : j <= b  BY <1>1 DEF Base
  <2>2. B # {}  BY <1>6
  <2> HIDE DEF B, b
  <2>3. Max(B) \in B  BY <2>1, <2>2, MaxBounded
  <2>4. Max(B) \in 1..b  BY <2>1, <2>3
  <2>5. Max(B) \in 1..N /\ i > 1  BY <1>1, <2>4 DEF b
  <2>6. Mid2(rows[Max(B)]) \in Int  BY <2>5, RowFields
  <2> QED  BY <2>5, <2>6
<1>7. None \notin Int /\ IdxMaxGap \in Nat  BY S10Assumption, IntegrityAssumption
<1> DEFINE prev == rows[i - 1].t
           far(x, y) == Distance(x, y) * JumpIn > y
<1>8. s.n + 1 = i  BY <1>1, <1>2
<1>9. /\ Has(Added(s, r, clk), s.n + 1, "backwards") <=> s.t # None /\ r.t < s.t
      /\ Has(Added(s, r, clk), s.n + 1, "jump") <=>
           /\ Quote(r) /\ s.mid # None
           /\ (s.t # None /\ r.t >= s.t) => r.t - s.t <= IdxMaxGap
           /\ far(Mid2(r), s.mid)
  BY AddedFlags
<1>10. i > 1 => s.t = prev /\ s.t # None
  <2> HAVE i > 1
  <2>1. i - 1 # 0  BY <1>1
  <2> QED  BY <1>2, <1>5, <1>7, <2>1
<1>11. ~ i > 1 => s.t = None
  <2> HAVE ~ i > 1
  <2>1. i - 1 = 0  BY <1>1
  <2> QED  BY <1>2, <2>1
<1> HIDE DEF s, r, B, p, prev, far, N
<1>12. Has(st[N].found, i, "backwards") <=> i > 1 /\ r.t < prev  BY <1>4, <1>8, <1>9, <1>10, <1>11
<1>13. Has(st[N].found, i, "jump") <=> Quote(r) /\ B # {} /\ r.t - prev <= IdxMaxGap /\ far(Mid2(r), p)
  <2>1. CASE B = {}  BY <1>3, <1>4, <1>8, <1>9, <2>1
  <2>2. CASE B # {}
    <3>1. s.mid = p /\ s.mid # None /\ s.t = prev /\ s.t # None  BY <1>3, <1>6, <1>7, <1>10, <2>2
    <3>2. r.t \in Int /\ prev \in Int  BY <1>5, <1>6, <2>2 DEF prev, r
    <3>3. (r.t >= prev => r.t - prev <= IdxMaxGap) <=> r.t - prev <= IdxMaxGap  BY <1>7, <3>2
    <3> QED  BY <1>4, <1>8, <1>9, <2>2, <3>1, <3>3
  <2> QED  BY <2>1, <2>2
<1> QED  BY <1>12, <1>13 DEF N, s, r, B, p, prev, far
-----------------------------------------------------------------------------
\* Runs of equal mids.

\* m rows of o from the k-th on have one mid.
EqualRun(o, k, m) ==
  /\ k \in 1..Len(o) /\ m \in Nat \ {0} /\ k + m - 1 <= Len(o)
  /\ \A j \in k..(k + m - 1) : Mid2(o[j]) = Mid2(o[k])

\* run is the length of the run of equal mids o ends with, longest that of the longest in it.
RunsOf(o, mid, run, longest) ==
  /\ run \in Nat /\ longest \in Nat
  /\ \A k, m : EqualRun(o, k, m) => m <= longest /\ (k + m - 1 = Len(o) => m <= run)
  /\ longest # 0 => \E k : EqualRun(o, k, longest)
  /\ IF o = <<>> THEN mid = None /\ run = 0
     ELSE mid = Mid2(o[Len(o)]) /\ EqualRun(o, Len(o) - run + 1, run)

LEMMA RunsOfNone == RunsOf(<<>>, None, 0, 0)
<1>1. \A k, m : ~EqualRun(<<>>, k, m)  BY DEF EqualRun
<1> QED  BY <1>1 DEF RunsOf

LEMMA EqualRunKept ==
  ASSUME NEW A, NEW o \in Seq(A), NEW x \in A, NEW k, NEW m, k + m - 1 <= Len(o), k \in Int, m \in Int
  PROVE  EqualRun(Append(o, x), k, m) <=> EqualRun(o, k, m)
<1> DEFINE p == Append(o, x)
           L == Len(o)
<1>1. L \in Nat /\ Len(p) = L + 1 /\ \A j \in 1..L : p[j] = o[j]  BY LenProperties
<1> HIDE DEF p, L
<1>2. ASSUME m \in Nat \ {0}, k \in Nat \ {0}
      PROVE  (\A j \in k..(k + m - 1) : Mid2(p[j]) = Mid2(p[k])) <=> \A j \in k..(k + m - 1) : Mid2(o[j]) = Mid2(o[k])
  <2>1. k \in 1..L /\ \A j \in k..(k + m - 1) : j \in 1..L  BY <1>1, <1>2 DEF L
  <2> QED  BY <1>1, <2>1
<1>3. m \in Nat \ {0} /\ k \in Nat \ {0} => (k \in 1..L <=> k \in 1..(L + 1))  BY <1>1 DEF L
<1>4. k + m - 1 <= L /\ k + m - 1 <= L + 1  BY <1>1 DEF L
<1>5. \A n : n \in 1..L \/ n \in 1..(L + 1) => n \in Nat \ {0}  BY <1>1
<1> HIDE DEF EqualRun
<1>6. EqualRun(p, k, m) <=> k \in 1..(L + 1) /\ m \in Nat \ {0} /\ k + m - 1 <= L + 1
                              /\ \A j \in k..(k + m - 1) : Mid2(p[j]) = Mid2(p[k])
  BY <1>1 DEF EqualRun
<1>7. EqualRun(o, k, m) <=> k \in 1..L /\ m \in Nat \ {0} /\ k + m - 1 <= L
                              /\ \A j \in k..(k + m - 1) : Mid2(o[j]) = Mid2(o[k])
  BY DEF EqualRun, L
<1> QED  BY <1>2, <1>3, <1>4, <1>5, <1>6, <1>7 DEF p

LEMMA RunsOfNext ==
  ASSUME NEW A, NEW o \in Seq(A), NEW x \in A, Mid2(x) \in Int, NEW mid, NEW run, NEW longest,
         RunsOf(o, mid, run, longest)
  PROVE  LET r == IF mid = Mid2(x) THEN run + 1 ELSE 1
         IN RunsOf(Append(o, x), Mid2(x), r, Max({longest, r}))
<1> DEFINE p == Append(o, x)
           L == Len(o)
           r == IF mid = Mid2(x) THEN run + 1 ELSE 1
           l == Max({longest, r})
<1>1. L \in Nat /\ Len(p) = L + 1 /\ p[L + 1] = x /\ \A j \in 1..L : p[j] = o[j]  BY LenProperties
<1>2. p # <<>> /\ (o = <<>> <=> L = 0)  BY LenProperties
<1>3. run \in Nat /\ longest \in Nat  BY DEF RunsOf
<1>4. r \in Nat \ {0}  BY <1>3
<1>5. l = IF longest >= r THEN longest ELSE r  BY <1>3, <1>4, TwoNumbers
<1> HIDE DEF l
<1>6. l \in Nat \ {0} /\ longest <= l /\ r <= l /\ (l = longest \/ l = r)  BY <1>3, <1>4, <1>5
<1>7. \A k, m : EqualRun(o, k, m) => m <= longest /\ (k + m - 1 = L => m <= run)  BY DEF RunsOf
<1>8. L # 0 => mid = Mid2(o[L]) /\ EqualRun(o, L - run + 1, run)  BY <1>2 DEF RunsOf
<1>9. L = 0 => mid = None /\ run = 0  BY <1>2 DEF RunsOf
<1>10. longest # 0 => \E k : EqualRun(o, k, longest)  BY DEF RunsOf
<1>11. None \notin Int  BY S10Assumption
<1>12. \A k, m \in Int : k + m - 1 <= L => (EqualRun(p, k, m) <=> EqualRun(o, k, m))  BY EqualRunKept
<1> HIDE DEF p, L
<1>13. \A k, m : EqualRun(p, k, m) => k \in 1..(L + 1) /\ m \in Nat \ {0} /\ k + m - 1 <= L + 1
                                       /\ \A j \in k..(k + m - 1) : Mid2(p[j]) = Mid2(p[k])
  BY <1>1 DEF EqualRun
<1>14. \A k, m : EqualRun(o, k, m) => k \in 1..L /\ m \in Nat \ {0} /\ k + m - 1 <= L
                                       /\ \A j \in k..(k + m - 1) : Mid2(o[j]) = Mid2(o[k])
  BY DEF EqualRun, L
<1>15. ASSUME NEW k, NEW m, EqualRun(p, k, m), k + m - 1 = L + 1  PROVE m <= r
  <2>1. k \in 1..(L + 1) /\ m \in Nat \ {0} /\ \A j \in k..(k + m - 1) : Mid2(p[j]) = Mid2(p[k])  BY <1>13, <1>15
  <2>2. CASE m = 1  BY <1>4, <2>2
  <2>3. CASE m # 1
    <3>1. k \in 1..L /\ m - 1 \in Nat \ {0} /\ L # 0 /\ L \in 1..L /\ k + (m - 1) - 1 = L
          /\ L \in k..(k + m - 1) /\ L + 1 \in k..(k + m - 1) /\ k + m - 1 = L + 1
          /\ \A j \in k..L : j \in k..(k + m - 1)
      BY <1>1, <1>15, <2>1, <2>3
    <3>2. EqualRun(p, k, m - 1)  BY <1>1, <2>1, <3>1 DEF EqualRun
    <3>3. k + (m - 1) - 1 <= L /\ k \in Int /\ m - 1 \in Int  BY <1>1, <3>1
    <3>4. EqualRun(o, k, m - 1)  BY <1>12, <3>2, <3>3
    <3>5. m - 1 <= run  BY <1>7, <3>1, <3>4
    <3>6. Mid2(p[L + 1]) = Mid2(p[k]) /\ Mid2(p[L]) = Mid2(p[k])  BY <2>1, <3>1
    <3>7. mid = Mid2(x)  BY <1>1, <1>8, <3>1, <3>6
    <3>8. r = run + 1  BY <3>7
    <3> QED  BY <1>3, <2>1, <3>5, <3>8
  <2> QED  BY <2>2, <2>3
<1>16. EqualRun(p, (L + 1) - r + 1, r)
  <2>1. CASE mid = Mid2(x)
    <3>1. L # 0 /\ r = run + 1  BY <1>9, <1>11, <2>1
    <3>2. EqualRun(o, L - run + 1, run) /\ mid = Mid2(o[L])  BY <1>8, <3>1
    <3> DEFINE k == L - run + 1
    <3>3. k \in 1..L /\ run \in Nat \ {0} /\ k + run - 1 <= L /\ \A j \in k..(k + run - 1) : Mid2(o[j]) = Mid2(o[k])
      BY <1>14, <3>2
    <3>4. (L + 1) - r + 1 = k /\ k + r - 1 = L + 1 /\ k + run - 1 = L /\ L \in k..(k + run - 1) /\ k \in 1..(L + 1)
          /\ L \in 1..L
      BY <1>1, <1>3, <3>1, <3>3
    <3> HIDE DEF k, r
    <3>5. ASSUME NEW j \in k..(L + 1)  PROVE Mid2(p[j]) = Mid2(p[k])
      <4>1. p[k] = o[k] /\ Mid2(o[L]) = Mid2(o[k])  BY <1>1, <3>3, <3>4
      <4>2. CASE j = L + 1  BY <1>1, <2>1, <3>2, <4>1, <4>2
      <4>3. CASE j # L + 1
        <5>1. j \in k..(k + run - 1) /\ j \in 1..L  BY <1>1, <3>3, <3>4, <4>3
        <5> QED  BY <1>1, <3>3, <4>1, <5>1
      <4> QED  BY <4>2, <4>3
    <3>6. EqualRun(p, k, r)  BY <1>1, <1>4, <3>4, <3>5 DEF EqualRun
    <3> QED  BY <3>4, <3>6
  <2>2. CASE mid # Mid2(x)
    <3>1. r = 1 /\ (L + 1) - r + 1 = L + 1 /\ L + 1 \in 1..(L + 1) /\ (L + 1) + 1 - 1 = L + 1 /\ 1 \in Nat \ {0}
      BY <1>1, <2>2
    <3>2. \A j \in (L + 1)..(L + 1) : j = L + 1  BY <1>1
    <3> HIDE DEF r
    <3>3. EqualRun(p, L + 1, 1)  BY <1>1, <3>1, <3>2 DEF EqualRun
    <3> QED  BY <3>1, <3>3
  <2> QED  BY <2>1, <2>2
<1> HIDE DEF r
<1>17. ASSUME NEW k, NEW m, EqualRun(p, k, m)  PROVE m <= l /\ (k + m - 1 = Len(p) => m <= r)
  <2>1. k \in Int /\ m \in Int /\ k + m - 1 <= L + 1  BY <1>1, <1>13, <1>17
  <2>2. CASE k + m - 1 = L + 1
    <3>1. m <= r  BY <1>15, <1>17, <2>2
    <3> QED  BY <1>4, <1>6, <2>1, <3>1
  <2>3. CASE k + m - 1 # L + 1
    <3>1. k + m - 1 <= L  BY <1>1, <2>1, <2>3
    <3>2. EqualRun(o, k, m)  BY <1>12, <1>17, <2>1, <3>1
    <3>3. m <= longest  BY <1>7, <3>2
    <3>4. m <= l  BY <1>3, <1>6, <2>1, <3>3
    <3> QED  BY <1>1, <2>3, <3>4
  <2> QED  BY <2>2, <2>3
<1>18. \E k : EqualRun(p, k, l)
  <2>1. CASE l = r  BY <1>16, <2>1
  <2>2. CASE l = longest
    <3>1. PICK k : EqualRun(o, k, longest)  BY <1>6, <1>10, <2>2
    <3>2. k \in Int /\ longest \in Int /\ k + longest - 1 <= L  BY <1>3, <1>14, <3>1
    <3>3. EqualRun(p, k, longest)  BY <1>12, <3>1, <3>2
    <3> QED  BY <2>2, <3>3
  <2> QED  BY <1>6, <2>1, <2>2
<1>19. Mid2(x) = Mid2(p[Len(p)]) /\ EqualRun(p, Len(p) - r + 1, r)  BY <1>1, <1>16
<1>20. RunsOf(p, Mid2(x), r, l)  BY <1>2, <1>4, <1>6, <1>17, <1>18, <1>19 DEF RunsOf
<1> QED  BY <1>20 DEF p, r, l

\* A run of m is there if and only if the longest has m.
LEMMA LongestRun ==
  ASSUME NEW A, NEW o \in Seq(A), NEW mid, NEW run, NEW longest, RunsOf(o, mid, run, longest), NEW m \in Nat \ {0}
  PROVE  longest >= m <=> \E k \in DOMAIN o : k + m - 1 <= Len(o) /\ \A j \in k..(k + m - 1) : Mid2(o[j]) = Mid2(o[k])
<1>1. longest \in Nat /\ Len(o) \in Nat /\ DOMAIN o = 1..Len(o)  BY DEF RunsOf
<1>2. ASSUME longest >= m
      PROVE \E k \in DOMAIN o : k + m - 1 <= Len(o) /\ \A j \in k..(k + m - 1) : Mid2(o[j]) = Mid2(o[k])
  <2>1. longest # 0  BY <1>1, <1>2
  <2>2. PICK k : EqualRun(o, k, longest)  BY <2>1 DEF RunsOf
  <2>3. k \in 1..Len(o) /\ k + longest - 1 <= Len(o) /\ \A j \in k..(k + longest - 1) : Mid2(o[j]) = Mid2(o[k])
    BY <2>2 DEF EqualRun
  <2>4. k + m - 1 <= Len(o) /\ \A j \in k..(k + m - 1) : j \in k..(k + longest - 1)  BY <1>1, <1>2, <2>3
  <2> QED  BY <1>1, <2>3, <2>4
<1>3. ASSUME NEW k \in DOMAIN o, k + m - 1 <= Len(o), \A j \in k..(k + m - 1) : Mid2(o[j]) = Mid2(o[k])
      PROVE longest >= m
  <2>1. EqualRun(o, k, m)  BY <1>1, <1>3 DEF EqualRun
  <2>2. m <= longest  BY <2>1 DEF RunsOf
  <2> QED  BY <1>1, <2>2
<1> QED  BY <1>2, <1>3
-----------------------------------------------------------------------------
\* What the pass finds is what looking back finds.

\* The runs the pass counts are those of the real and sound quotes.
LEMMA PassLongest ==
  ASSUME NEW rows \in Seq(IndexRow), NEW clk, NEW st, PassStates(st, rows, clk), NEW I,
         \A i \in 1..Len(rows) : i \in I <=> Quote(rows[i])
  PROVE  \E mid, run : RunsOf(Only(rows, I), mid, run, st[Len(rows)].longest)
<1>1. PICK o : /\ o[0] = <<>> /\ Only(rows, I) = o[Len(rows)]
               /\ \A i \in 0..Len(rows) : o[i] \in Seq(IndexRow)
               /\ \A i \in 1..Len(rows) : OnlyStep(o, rows, I, i)
  BY OnlyRuns
<1> DEFINE N == Len(rows)
           T == {n \in 0..N : RunsOf(o[n], st[n].mid, st[n].run, st[n].longest)}
<1>2. N \in Nat  OBVIOUS
<1>3. 0 \in T
  <2>1. st[0].mid = None /\ st[0].run = 0 /\ st[0].longest = 0  BY StartIs DEF PassStates
  <2> QED  BY <1>1, <1>2, <2>1, RunsOfNone
<1>4. ASSUME NEW n \in 0..(N - 1), n \in T  PROVE n + 1 \in T
  <2> DEFINE x == rows[n + 1]
             s == st[n]
             v == st[n + 1]
  <2>1. n + 1 \in 1..N /\ n + 1 \in 0..N /\ (n + 1) - 1 = n /\ n \in 0..N  BY <1>2
  <2>2. RowMoves(s, x, clk, v)  BY PassStep
  <2>3. RunsOf(o[n], s.mid, s.run, s.longest) /\ o[n] \in Seq(IndexRow)  BY <1>1, <1>4, <2>1
  <2>4. o[n + 1] = IF n + 1 \in I THEN Append(o[n], x) ELSE o[n]  BY <1>1, <2>1 DEF OnlyStep
  <2>5. x \in IndexRow /\ Mid2(x) \in Int  BY <2>1, RowFields
  <2>6. n + 1 \in I <=> Quote(x)  BY <2>1
  <2> HIDE DEF x, s, v, T
  <2>7. RunsOf(o[n + 1], v.mid, v.run, v.longest)
    <3>1. CASE Quote(x)
      <4> DEFINE r == IF s.mid = Mid2(x) THEN s.run + 1 ELSE 1
      <4>1. v.mid = Mid2(x) /\ v.run = r /\ v.longest = Max({s.longest, r})  BY <2>2, <3>1 DEF RowMoves, RunAfter
      <4>2. RunsOf(Append(o[n], x), Mid2(x), r, Max({s.longest, r}))  BY <2>3, <2>5, RunsOfNext
      <4>3. o[n + 1] = Append(o[n], x)  BY <2>4, <2>6, <3>1
      <4> HIDE DEF r
      <4> QED  BY <4>1, <4>2, <4>3
    <3>2. CASE ~Quote(x)
      <4>1. v.mid = s.mid /\ v.run = s.run /\ v.longest = s.longest /\ o[n + 1] = o[n]
        BY <2>2, <2>4, <2>6, <3>2 DEF RowMoves
      <4> QED  BY <2>3, <4>1
    <3> QED  BY <3>1, <3>2
  <2> QED  BY <2>1, <2>7 DEF T, v
<1> HIDE DEF T
<1>5. 0..N \subseteq T  BY <1>2, <1>3, <1>4, Upwards
<1>6. N \in T  BY <1>2, <1>5
<1>7. RunsOf(o[N], st[N].mid, st[N].run, st[N].longest)  BY <1>6 DEF T
<1> QED  BY <1>1, <1>7

LEMMA FileHas ==
  ASSUME NEW s
  PROVE  /\ Has(IdxFile(s, FALSE), 0, "stuck") <=> s.longest >= StuckRun
         /\ \A i, w : Has(IdxFile(s, FALSE), i, w) => i = 0
<1> DEFINE fl == [ stuck |-> s.longest >= StuckRun,
                   distinct |-> s.real >= StuckSample /\ Cardinality(s.mids) * StuckShare < s.real ]
<1>1. IdxFile(s, FALSE) = Found(0, Heuristic(FALSE), fl)  BY DEF IdxFile
<1>2. "stuck" \in DOMAIN fl /\ fl["stuck"] = (s.longest >= StuckRun)
  <2>1. DOMAIN fl = {"stuck", "distinct"}  BY Zenon
  <2>2. fl["stuck"] = (s.longest >= StuckRun)  BY Zenon
  <2> QED  BY <2>1, <2>2
<1> HIDE DEF fl
<1>3. \A i, w : Has(IdxFile(s, FALSE), i, w) <=> i = 0 /\ w \in DOMAIN fl /\ fl[w]  
  <2> TAKE i, w
  <2> DEFINE z == 0
             level == Heuristic(FALSE)
  <2>1. IdxFile(s, FALSE) = Found(z, level, fl)  BY <1>1
  <2> HIDE DEF z, level
  <2>2. Has(Found(z, level, fl), i, w) <=> i = z /\ w \in DOMAIN fl /\ fl[w]  BY FoundHas
  <2>3. Has(IdxFile(s, FALSE), i, w) <=> i = z /\ w \in DOMAIN fl /\ fl[w]  BY <2>1, <2>2
  <2> QED  BY <2>3 DEF z
<1> QED  BY <1>2, <1>3

LEMMA CheckedRows ==
  ASSUME NEW rows \in Seq(IndexRow), NEW I, \A i \in 1..Len(rows) : i \in I <=> Quote(rows[i])
  PROVE  /\ \A i \in 1..Len(rows) :
              /\ Has(CheckIdx(rows, Now, FALSE), i, "backwards") <=> i > 1 /\ rows[i].t < rows[i - 1].t
              /\ Has(CheckIdx(rows, Now, FALSE), i, "jump") <=>
                   /\ Quote(rows[i]) /\ Base(rows, i - 1) # {}
                   /\ rows[i].t - rows[i - 1].t <= IdxMaxGap
                   /\ Distance(Mid2(rows[i]), Mid2(rows[Max(Base(rows, i - 1))])) * JumpIn
                        > Mid2(rows[Max(Base(rows, i - 1))])
         /\ Has(CheckIdx(rows, Now, FALSE), 0, "stuck") <=>
              \E k \in DOMAIN Only(rows, I) :
                 /\ k + StuckRun - 1 <= Len(Only(rows, I))
                 /\ \A j \in k..(k + StuckRun - 1) : Mid2(Only(rows, I)[j]) = Mid2(Only(rows, I)[k])
<1>1. PICK st : PassStates(st, rows, Now) /\ IdxPass(rows, Now, FALSE) = st[Len(rows)]  BY PassRuns
<1> DEFINE N == Len(rows)
           s == st[N]
           found == CheckIdx(rows, Now, FALSE)
           o == Only(rows, I)
<1>2. N \in Nat /\ N \in 0..N /\ 0 \notin 1..N  OBVIOUS
<1>3. found = s.found \cup IdxFile(s, FALSE)  BY <1>1 DEF CheckIdx
<1>4. \A i, w : Has(found, i, w) <=> Has(s.found, i, w) \/ Has(IdxFile(s, FALSE), i, w)  BY <1>3, HasUnion
<1>5. \A i, w : Has(s.found, i, w) => i \in 1..N  BY <1>1, <1>2, PassFound
<1>6. Has(found, 0, "stuck") <=> s.longest >= StuckRun  BY <1>2, <1>4, <1>5, FileHas
<1>7. PICK mid, run : RunsOf(o, mid, run, s.longest)  BY <1>1, PassLongest
<1>8. o \in Seq(IndexRow)  BY OnlyIs
<1>9. \A i \in 1..N : \A w : Has(found, i, w) <=> Has(s.found, i, w)  BY <1>2, <1>4, FileHas
<1> HIDE DEF found, o
<1>10. s.longest >= StuckRun <=>
         \E k \in DOMAIN o : k + StuckRun - 1 <= Len(o) /\ \A j \in k..(k + StuckRun - 1) : Mid2(o[j]) = Mid2(o[k])
  <2>1. StuckRun \in Nat \ {0}  BY IntegrityAssumption
  <2> QED  BY <1>7, <1>8, <2>1, LongestRun
<1>11. ASSUME NEW i \in 1..N
       PROVE  /\ Has(found, i, "backwards") <=> i > 1 /\ rows[i].t < rows[i - 1].t
              /\ Has(found, i, "jump") <=>
                   /\ Quote(rows[i]) /\ Base(rows, i - 1) # {}
                   /\ rows[i].t - rows[i - 1].t <= IdxMaxGap
                   /\ Distance(Mid2(rows[i]), Mid2(rows[Max(Base(rows, i - 1))])) * JumpIn
                        > Mid2(rows[Max(Base(rows, i - 1))])
  BY <1>1, <1>9, RowFound
<1> QED  BY <1>6, <1>10, <1>11 DEF found, o

\* The pass over an index file carries the right row along: a time goes backwards, a mid jumps and a feed is
\* stuck if and only if looking back from the row, or over the quotes, says so.
THEOREM QualityLooksBack == QualitySpec => []ChecksLookBack
<1>1. QualityInv => ChecksLookBack
  <2> SUFFICES ASSUME QualityInv, NEW d \in DOMAIN idx
               PROVE  LET rows  == idx[d]
                          real  == Only(rows, {i \in DOMAIN rows : Derived(rows[i]) /\ ~rows[i].sentinel})
                          found == CheckIdx(rows, Now, FALSE)
                          base(i) == {j \in 1..(i - 1) : Derived(rows[j]) /\ ~rows[j].sentinel}
                          has(i, w) == \E f \in found : f.row = i /\ f.what = w
                      IN /\ \A i \in DOMAIN rows :
                              /\ has(i, "backwards") <=> i > 1 /\ rows[i].t < rows[i - 1].t
                              /\ has(i, "jump") <=>
                                   /\ Derived(rows[i]) /\ ~rows[i].sentinel /\ base(i) # {}
                                   /\ rows[i].t - rows[i - 1].t <= IdxMaxGap
                                   /\ LET p == Mid2(rows[Max(base(i))])
                                      IN Distance(Mid2(rows[i]), p) * JumpIn > p
                         /\ has(0, "stuck") <=>
                              \E i \in DOMAIN real : i + StuckRun - 1 <= Len(real)
                                                     /\ \A j \in i..(i + StuckRun - 1) : Mid2(real[j]) = Mid2(real[i])
    BY DEF ChecksLookBack
  <2> DEFINE rows == idx[d]
             I == {i \in DOMAIN rows : Derived(rows[i]) /\ ~rows[i].sentinel}
             real == Only(rows, I)
             found == CheckIdx(rows, Now, FALSE)
  <2>1. rows \in Seq(IndexRow)  BY DEF QualityInv, IdxInv, Dirs, IsShard
  <2>2. DOMAIN rows = 1..Len(rows)  BY <2>1
  <2>3. \A i \in 1..Len(rows) : i \in I <=> Quote(rows[i])  BY <2>2 DEF Quote
  <2> HIDE DEF rows, I
  <2>4. /\ \A i \in 1..Len(rows) :
             /\ Has(found, i, "backwards") <=> i > 1 /\ rows[i].t < rows[i - 1].t
             /\ Has(found, i, "jump") <=>
                  /\ Quote(rows[i]) /\ Base(rows, i - 1) # {}
                  /\ rows[i].t - rows[i - 1].t <= IdxMaxGap
                  /\ Distance(Mid2(rows[i]), Mid2(rows[Max(Base(rows, i - 1))])) * JumpIn
                       > Mid2(rows[Max(Base(rows, i - 1))])
        /\ Has(found, 0, "stuck") <=>
             \E k \in DOMAIN real : k + StuckRun - 1 <= Len(real)
                                    /\ \A j \in k..(k + StuckRun - 1) : Mid2(real[j]) = Mid2(real[k])
    BY <2>1, <2>3, CheckedRows
  <2>5. real = Only(rows, {i \in DOMAIN rows : Derived(rows[i]) /\ ~rows[i].sentinel})  BY DEF I, rows
  <2> HIDE DEF found, real
  <2> QED  BY <2>2, <2>4, <2>5, Zenon DEF Has, Base, Quote, found, rows
<1> QED  BY <1>1, QualityInductive, PTL
=============================================================================
