------------------------------ MODULE Migrate ------------------------------
(***************************************************************************)
(* migrate-phantom-ids and migrate-quote-basis: the shards filed under one *)
(* ticker id are renamed into the directory of another, beside a live      *)
(* writer that goes on under the old id until the new core is deployed.    *)
(*                                                                         *)
(* Both walk their tickers and, of each, its trees, with the same steps: a *)
(* shard at a time, then the two manifests, then the journal.  They differ *)
(* on a date the destination has: the first parks the source's file, the   *)
(* second decides per ticker, up front, and gives the tree up otherwise.   *)
(*                                                                         *)
(* A shard is its tree, the directory it is in, its day and the directory  *)
(* it was written in.  The dateless .vol file, moved by nxr_sdk's          *)
(* rename_vol, is left out; a dry run changes nothing.                     *)
(***************************************************************************)
EXTENDS Integers, Sequences, FiniteSets

CONSTANTS
  Worlds,   \* [tool, dest, order, shards]: which tool, where each ticker goes, in which order, what there is
  Ids,      \* the ticker ids, which name the directories
  Trees,    \* the trees of a ticker, in order: sequence
  LiveTrees, \* those the live writer keeps
  FirstDay, \* the day of the first run
  LastDay,  \* bound: the clock stops here
  MaxRuns   \* bound on the runs of the tool

TreeNames == {Trees[i] : i \in DOMAIN Trees}
Shard     == [tree : TreeNames, id : Ids, day : Nat, by : Ids]

ASSUME MigrateAssumption ==
  /\ FirstDay \in Nat /\ LastDay \in Nat /\ MaxRuns \in Nat
  /\ Trees \in Seq(TreeNames) /\ Trees # <<>> /\ LiveTrees \subseteq TreeNames /\ "PARKED" \notin TreeNames

\* No ticker is the destination of another, or its own; the order has them all;
\* each shard was written where it is, no later than today, and is the only one
\* there of its day.
ASSUME WorldsAssumption ==
  \A w \in Worlds :
    /\ w.tool \in {"phantom", "quote"}
    /\ w.dest \in [DOMAIN w.dest -> Ids \ DOMAIN w.dest] /\ DOMAIN w.dest \subseteq Ids
    /\ w.order \in Seq(DOMAIN w.dest) /\ w.order # <<>>
    /\ \A id \in DOMAIN w.dest : \E i \in DOMAIN w.order : w.order[i] = id
    /\ w.shards \subseteq Shard
    /\ \A x \in w.shards : x.by = x.id /\ x.day <= FirstDay
    /\ \A x, y \in w.shards : x.tree = y.tree /\ x.id = y.id /\ x.day = y.day => x = y

VARIABLES
  world,    \* the element of Worlds at hand
  shards,   \* the shards in their directories
  parked,   \* those under migrations/superseded
  manifest, \* the days each <<tree, ticker>> manifest lists, none when it is retired
  journal,  \* <<ticker, tree>> -> "done" | "partial"; <<ticker, "PARKED">> -> "parked"
  shown,    \* history: the shards any run's listing of a tree has had
  today, deployed,
  pc,
  run,      \* [n, day, keep, failed]: its number, the day it began, --on-collision, failures > 0
  plan,     \* candidates: ticker -> "clean" | "collides"
  at, tree, \* the cursors
  movable, held \* what the tree's listing found: the days to move; a live shard

disk == <<shards, parked, manifest>>
log  == <<journal, shown>>
job  == <<plan, at, tree, movable, held>>
vars == <<world, disk, log, today, deployed, pc, run, job>>

-----------------------------------------------------------------------------
Tickers == DOMAIN world.dest
Here    == world.order[at]
There   == world.dest[Here]
ThisTree == Trees[tree]

In(t, id)   == {x \in shards : x.tree = t /\ x.id = id}
DaysIn(t, id) == {x.day : x \in In(t, id)}
Owned(id)   == {x \in shards : x.id = id}

Set(f, k, v) == [j \in DOMAIN f \cup {k} |-> IF j = k THEN v ELSE f[j]]
Unset(f, k)  == [j \in DOMAIN f \ {k} |-> f[j]]
Journaled(k, state) == k \in DOMAIN journal /\ journal[k] = state

\* Mutant: only the first tree of the destination is looked at.
CollidesFirstTree(id) == In(Trees[1], id) # {}

\* The twin has bytes in any tree.
Collides(id) == Owned(id) # {}

NextTicker ==
  /\ at' = at + 1 /\ tree' = 1 /\ movable' = {} /\ held' = FALSE
  /\ pc' = IF at < Len(world.order) THEN "ticker" ELSE "done"

NextTree ==
  IF tree < Len(Trees)
  THEN tree' = tree + 1 /\ movable' = {} /\ held' = FALSE /\ pc' = "tree" /\ UNCHANGED at
  ELSE NextTicker

Fail == run' = [run EXCEPT !.failed = TRUE]

-----------------------------------------------------------------------------
\* Candidates are taken once, before the first move: quote-basis from what is on
\* disk, with the collisions as they stand; phantom-ids from the configuration.
\* A file is enough, and a retired manifest is one.
HasFiles(id) == Owned(id) # {} \/ \E t \in TreeNames : <<t, id>> \in DOMAIN manifest

Start(keep) ==
  /\ pc \in {"idle", "done"} /\ run.n < MaxRuns
  /\ run' = [n |-> run.n + 1, day |-> today, keep |-> keep, failed |-> FALSE]
  /\ plan' = [id \in {i \in Tickers : world.tool = "phantom" \/ HasFiles(i)} |->
                IF world.tool = "quote" /\ Collides(world.dest[id]) THEN "collides" ELSE "clean"]
  /\ at' = 1 /\ tree' = 1 /\ movable' = {} /\ held' = FALSE
  /\ pc' = "ticker"
  /\ UNCHANGED <<world, disk, log, today, deployed>>

\* Not a candidate, or parked by an earlier run.
PassOver ==
  /\ pc = "ticker"
  /\ Here \notin DOMAIN plan \/ Journaled(<<Here, "PARKED">>, "parked")
  /\ NextTicker
  /\ UNCHANGED <<world, disk, log, today, deployed, run, plan>>

Candidate ==
  /\ pc = "ticker"
  /\ Here \in DOMAIN plan /\ ~Journaled(<<Here, "PARKED">>, "parked")

\* The tree was written less than five minutes ago, by whomever.
Refuse ==
  /\ Candidate /\ world.tool = "quote"
  /\ Fail /\ NextTicker
  /\ UNCHANGED <<world, disk, log, today, deployed, plan>>

\* The default: its USD twin exists, and it stays as it is.
Skipped(id) == id \in DOMAIN plan /\ plan[id] = "collides" /\ ~run.keep

SkipColliding ==
  /\ Candidate /\ Skipped(Here)
  /\ NextTicker
  /\ UNCHANGED <<world, disk, log, today, deployed, run, plan>>

ParkColliding ==
  /\ Candidate /\ plan[Here] = "collides" /\ run.keep
  /\ pc' = "park"
  /\ UNCHANGED <<world, disk, log, today, deployed, run, job>>

BeginTicker ==
  /\ Candidate /\ plan[Here] = "clean"
  /\ pc' = "tree"
  /\ UNCHANGED <<world, disk, log, today, deployed, run, job>>

\* One rename per directory, with everything in it; the journal at the end.
ParkTree ==
  /\ pc = "park" /\ tree <= Len(Trees)
  /\ parked' = parked \cup In(ThisTree, Here)
  /\ shards' = shards \ In(ThisTree, Here)
  /\ manifest' = Unset(manifest, <<ThisTree, Here>>)
  /\ tree' = tree + 1
  /\ UNCHANGED <<world, log, today, deployed, pc, run, plan, at, movable, held>>

ParkDone ==
  /\ pc = "park" /\ tree > Len(Trees)
  /\ journal' = Set(journal, <<Here, "PARKED">>, "parked")
  /\ NextTicker
  /\ UNCHANGED <<world, disk, shown, today, deployed, run, plan>>

ParkFails ==
  /\ pc = "park" /\ tree <= Len(Trees)
  /\ Fail /\ NextTicker
  /\ UNCHANGED <<world, disk, log, today, deployed, plan>>

-----------------------------------------------------------------------------
\* migrate_tree.

TreeDone ==
  /\ pc = "tree"
  /\ Journaled(<<Here, ThisTree>>, "done") \/ In(ThisTree, Here) = {}
  /\ NextTree
  /\ UNCHANGED <<world, disk, log, today, deployed, run, plan>>

Listed == pc = "tree" /\ ~Journaled(<<Here, ThisTree>>, "done") /\ In(ThisTree, Here) # {}

\* Only a live shard: the whole tree is put off.
DeferTree ==
  /\ Listed /\ \A d \in DaysIn(ThisTree, Here) : d >= today
  /\ journal' = Set(journal, <<Here, ThisTree>>, "partial")
  /\ shown' = shown \cup In(ThisTree, Here)
  /\ NextTree
  /\ UNCHANGED <<world, disk, today, deployed, run, plan>>

\* Mutant: the tree is journaled before its shards are moved.
BeginTreeJournaled ==
  /\ Listed /\ \E d \in DaysIn(ThisTree, Here) : d < today
  /\ movable' = {d \in DaysIn(ThisTree, Here) : d < today}
  /\ held' = \E d \in DaysIn(ThisTree, Here) : d >= today
  /\ journal' = Set(journal, <<Here, ThisTree>>, IF held' THEN "partial" ELSE "done")
  /\ shown' = shown \cup In(ThisTree, Here)
  /\ pc' = "move"
  /\ UNCHANGED <<world, disk, today, deployed, run, plan, at, tree>>

BeginTree ==
  /\ Listed /\ \E d \in DaysIn(ThisTree, Here) : d < today
  /\ movable' = {d \in DaysIn(ThisTree, Here) : d < today}
  /\ held' = \E d \in DaysIn(ThisTree, Here) : d >= today
  /\ shown' = shown \cup In(ThisTree, Here)
  /\ pc' = "move"
  /\ UNCHANGED <<world, disk, journal, today, deployed, run, plan, at, tree>>

\* The next shard to move, oldest first.
NextShards == {x \in In(ThisTree, Here) : x.day \in movable /\ \A d \in movable : x.day <= d}

Taken(x) == x.day \in DaysIn(ThisTree, There)

Move ==
  /\ pc = "move"
  /\ \E x \in NextShards :
       /\ ~Taken(x)
       /\ shards' = (shards \ {x}) \cup {[x EXCEPT !.id = There]}
       /\ movable' = movable \ {x.day}
  /\ UNCHANGED <<world, parked, manifest, log, today, deployed, pc, run, plan, at, tree, held>>

\* Mutant: the rename replaces the destination's file.
MoveTakenReplaces ==
  /\ pc = "move" /\ world.tool = "phantom"
  /\ \E x \in NextShards :
       /\ Taken(x)
       /\ shards' = {y \in shards : y # x /\ ~(y.tree = ThisTree /\ y.id = There /\ y.day = x.day)}
                    \cup {[x EXCEPT !.id = There]}
       /\ movable' = movable \ {x.day}
  /\ UNCHANGED <<world, parked, manifest, log, today, deployed, pc, run, plan, at, tree, held>>

\* phantom-ids: the destination's shard is kept, the source's is parked.
MoveTaken ==
  /\ pc = "move" /\ world.tool = "phantom"
  /\ \E x \in NextShards :
       /\ Taken(x)
       /\ shards' = shards \ {x}
       /\ parked' = parked \cup {x}
       /\ movable' = movable \ {x.day}
  /\ UNCHANGED <<world, manifest, log, today, deployed, pc, run, plan, at, tree, held>>

\* quote-basis: a contradiction, which ends the tree; and any I/O error.
TreeFails ==
  /\ pc \in {"tree", "move", "source"} /\ In(ThisTree, Here) # {}
  /\ Fail /\ NextTree
  /\ UNCHANGED <<world, disk, log, today, deployed, plan>>

\* Verified, then the destination's manifest rewritten from a scan.
WriteManifest ==
  /\ pc = "move" /\ movable = {}
  /\ manifest' = Set(manifest, <<ThisTree, There>>, DaysIn(ThisTree, There))
  /\ pc' = "source"
  /\ UNCHANGED <<world, shards, parked, log, today, deployed, run, job>>

\* The source's is renamed with its last shard, which lists no day from then on,
\* or rewritten; then the journal.
FinishTree ==
  /\ pc = "source"
  /\ manifest' = [k \in DOMAIN manifest |->
                    IF k = <<ThisTree, Here>> /\ manifest[k] # {} THEN DaysIn(ThisTree, Here) ELSE manifest[k]]
  /\ pc' = "journal"
  /\ UNCHANGED <<world, shards, parked, log, today, deployed, run, job>>

JournalTree ==
  /\ pc = "journal"
  /\ journal' = Set(journal, <<Here, ThisTree>>, IF held THEN "partial" ELSE "done")
  /\ NextTree
  /\ UNCHANGED <<world, disk, shown, today, deployed, run, plan>>

-----------------------------------------------------------------------------
Kill ==
  /\ pc \notin {"idle", "done"}
  /\ pc' = "idle"
  /\ at' = 1 /\ tree' = 1 /\ movable' = {} /\ held' = FALSE
  /\ UNCHANGED <<world, disk, log, today, deployed, run, plan>>

Rotate ==
  /\ today < LastDay
  /\ today' = today + 1
  /\ UNCHANGED <<world, disk, log, deployed, pc, run, job>>

\* The core that resolves to the new ids takes over: after phantom-ids, before
\* quote-basis.
Deploy ==
  /\ ~deployed
  /\ deployed' = TRUE
  /\ UNCHANGED <<world, disk, log, today, pc, run, job>>

\* The live writer starts today's shard of a tree it keeps.
Live(id, t) ==
  LET dir == IF deployed THEN world.dest[id] ELSE id IN
  /\ today \notin DaysIn(t, dir)
  /\ shards' = shards \cup {[tree |-> t, id |-> dir, day |-> today, by |-> dir]}
  /\ UNCHANGED <<world, parked, manifest, log, today, deployed, pc, run, job>>

Init ==
  /\ world \in Worlds
  /\ shards = world.shards /\ parked = {}
  /\ manifest = [k \in {<<x.tree, x.id>> : x \in shards} |-> DaysIn(k[1], k[2])]
  /\ journal = [k \in {} |-> "done"] /\ shown = {}
  /\ today = FirstDay /\ deployed = (world.tool = "quote")
  /\ pc = "idle" /\ run = [n |-> 0, day |-> FirstDay, keep |-> FALSE, failed |-> FALSE]
  /\ plan = [k \in {} |-> "clean"] /\ at = 1 /\ tree = 1 /\ movable = {} /\ held = FALSE

Next ==
  \/ \E keep \in BOOLEAN : Start(keep)
  \/ PassOver \/ Refuse \/ SkipColliding \/ ParkColliding \/ BeginTicker
  \/ ParkTree \/ ParkDone \/ ParkFails
  \/ TreeDone \/ DeferTree \/ BeginTree \/ Move \/ MoveTaken \/ TreeFails
  \/ WriteManifest \/ FinishTree \/ JournalTree
  \/ Kill \/ Rotate \/ Deploy
  \/ \E id \in Tickers, t \in LiveTrees : Live(id, t)

Spec == Init /\ [][Next]_vars

-----------------------------------------------------------------------------
\* "Never destroys" (migrate_phantom_ids.rs:51, migrate_quote_basis.rs:46): a
\* shard that was there is, after any runs, kills and rotations, in exactly one
\* place, a directory or the park.
NothingDestroyed ==
  \A x \in world.shards :
    Cardinality({y \in shards \cup parked : y.tree = x.tree /\ y.day = x.day /\ y.by = x.by}) = 1

\* Of what was closed when it began, a run that ends without a failure leaves
\* under the old ids only this, whatever earlier runs were killed or failed half
\* way: the tickers it skips because the destination has files, be they the half
\* an earlier run had moved there (migrate_quote_basis.rs:253-259, :341); and shards
\* that live started in a tree after it was listed for the run that journaled it
\* done, since nothing looks there again (migrate_phantom_ids.rs:272-276, :310-312).
\* That "the next run" finishes those is what the headers say, and not so.
LeavesOnlySkippedOrLate ==
  pc = "done" /\ ~run.failed =>
    \A x \in shards : x.id \in Tickers /\ x.day < run.day =>
      \/ Skipped(x.id)
      \/ Journaled(<<x.id, x.tree>>, "done") /\ x \notin shown

\* "KEEP USD, DISCARD USDC" (migrate_quote_basis.rs:24-26): where the destination
\* had a series of its own, in any tree, no shard of a stablecoin ticker joins it.
TwinNeverMixed ==
  world.tool = "quote" =>
    \A id \in Tickers :
      (\E x \in world.shards : x.id = world.dest[id]) =>
        \A y \in shards : y.id = world.dest[id] => y.by \notin Tickers
=============================================================================
