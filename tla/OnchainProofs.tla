--------------------------- MODULE OnchainProofs ---------------------------
(***************************************************************************)
(* What the writer lock and the three prechecks of onchain-backfill are    *)
(* worth, for any number of runs and any ranges: no shard is replaced or   *)
(* removed without --force, and a run that has succeeded left its days     *)
(* whole.  Then what it writes: the binary search for a block, the pages   *)
(* of a leg, the replay of its events and the grid make of any chain the   *)
(* records its swaps justify, and all of them.  The mean is opaque.        *)
(***************************************************************************)
EXTENDS Onchain, FiniteSetTheorems, WellFoundedInduction, TLAPS

States == {"idle", "failed", "fetch", "compute", "write", "locked", "staged", "commit", "prune", "done"}

\* A run is a record, whatever its records and logs are.
Shape(s) ==
  s \in [pc : States, args : {s.args}, leg : {s.leg}, cur : {s.cur}, tries : {s.tries},
         logs : {s.logs}, recs : {s.recs}, todo : {s.todo}]

Inside(r)  == run[r].pc \in {"locked", "staged", "commit", "prune"}
Mine(r, d) == d \in DOMAIN shard /\ shard[d] = [by |-> r, rows |-> RowsOf(run[r].recs, d)]

\* What is renamed and what is left of it, for a run inside its commit.
Committing(r) ==
  /\ run[r].todo \subseteq Full(run[r])
  /\ \A d \in Full(run[r]) \ run[r].todo : Mine(r, d)
  /\ ~run[r].args.force => DOMAIN shard \cap Range2(run[r].args) \subseteq Full(run[r]) \ run[r].todo

Pruning(r) ==
  /\ run[r].todo \subseteq Empty(run[r])
  /\ run[r].todo # {} => run[r].args.prune
  /\ run[r].args.prune => DOMAIN shard \cap Empty(run[r]) \subseteq run[r].todo
  /\ \A d \in Full(run[r]) : Mine(r, d)
  /\ ~run[r].args.force => DOMAIN shard \cap Empty(run[r]) = {}
  /\ sidecar = TRUE

Settled(r) ==
  /\ manifest = DOMAIN shard /\ sidecar
  /\ \A d \in Full(run[r]) : Mine(r, d)
  /\ run[r].args.prune => DOMAIN shard \cap Empty(run[r]) = {}

Kept(r) ==
  /\ Inside(r) => lock = {r} /\ last = r
  /\ run[r].pc = "commit" => Committing(r)
  /\ run[r].pc = "prune" => Pruning(r)
  /\ run[r].pc = "done" /\ last = r => Settled(r)

\* The inductive invariant.
IInv ==
  /\ run = [r \in Runs |-> run[r]] /\ \A r \in Runs : Shape(run[r])
  /\ lock \subseteq {last}
  /\ \A r \in lock : r \in Runs /\ Inside(r)
  /\ \A r \in Runs : Kept(r)

-----------------------------------------------------------------------------
\* Runs that do not take the step.

\* After a step of r, r's record is the new one and the others are untouched.
LEMMA OneRun ==
  ASSUME IInv, NEW r \in Runs, NEW s, Go(r, s), Shape(s)
  PROVE  /\ run'[r] = s
         /\ \A q \in Runs : q # r => run'[q] = run[q]
         /\ run' = [q \in Runs |-> run'[q]]
         /\ \A q \in Runs : Shape(run'[q])
  BY DEF IInv, Go

\* What r does outside the lock, inside it, or by taking it disturbs no other run.
LEMMA Others ==
  ASSUME IInv, NEW r \in Runs, NEW q \in Runs, q # r, run'[q] = run[q],
         \/ UNCHANGED <<disk, lock, last>>
         \/ Inside(r) /\ last' = last
         \/ lock = {} /\ UNCHANGED disk /\ last' = r
  PROVE  Kept(q)'
<1>1. CASE UNCHANGED <<disk, lock, last>>
  <2>1. Kept(q)  BY DEF IInv
  <2> QED  BY <1>1, <2>1 DEF Kept, Inside, Committing, Pruning, Settled, Mine, Full, Empty, disk
<1>2. CASE Inside(r) /\ last' = last
  <2>1. lock = {r} /\ last = r  BY <1>2 DEF IInv, Kept
  <2>2. ~Inside(q)  BY <2>1 DEF IInv, Kept
  <2> QED  BY <1>2, <2>1, <2>2 DEF Kept, Inside
<1>3. CASE lock = {} /\ UNCHANGED disk /\ last' = r
  <2>1. ~Inside(q)  BY <1>3 DEF IInv, Kept
  <2> QED  BY <1>3, <2>1 DEF Kept, Inside
<1> QED  BY <1>1, <1>2, <1>3

-----------------------------------------------------------------------------
\* Steps before the lock, and refusals there.

LEMMA Quiet ==
  ASSUME IInv, NEW r \in Runs, NEW s, Go(r, s), Shape(s), ~Inside(r),
         UNCHANGED <<disk, lock, last>>,
         s.pc \in {"failed", "fetch", "compute", "write"}
  PROVE  IInv'
<1>1. /\ run'[r] = s
      /\ \A q \in Runs : q # r => run'[q] = run[q]
      /\ run' = [q \in Runs |-> run'[q]]
      /\ \A q \in Runs : Shape(run'[q])
  BY OneRun
<1>2. Kept(r)'  BY <1>1 DEF Kept, Inside
<1>3. \A q \in Runs : q # r => Kept(q)'  BY <1>1, Others
<1>4. \A q \in lock' : q \in Runs /\ Inside(q)'  BY <1>1 DEF IInv, Inside
<1>5. lock' \subseteq {last'}  BY DEF IInv
<1> QED  BY <1>1, <1>2, <1>3, <1>4, <1>5 DEF IInv

\* Steps that leave the critical section, or the wait for it, without a result.
LEMMA Leaves ==
  ASSUME IInv, NEW r \in Runs, Inside(r), Quit(r), Release(r), UNCHANGED <<disk, last>>
  PROVE  IInv'
<1> DEFINE s == [New EXCEPT !.pc = "failed", !.args = run[r].args]
<1>1. Shape(s) /\ s.pc = "failed"  BY DEF New, Shape, States
<1>2. Go(r, s)  BY DEF Quit, Go
<1> HIDE DEF s
<1>3. /\ run'[r] = s
      /\ \A q \in Runs : q # r => run'[q] = run[q]
      /\ run' = [q \in Runs |-> run'[q]]
      /\ \A q \in Runs : Shape(run'[q])
  BY <1>1, <1>2, OneRun
<1>4. Kept(r)'  BY <1>1, <1>3 DEF Kept, Inside
<1>5. \A q \in Runs : q # r => Kept(q)'  BY <1>3, Others
<1>6. lock' = {}  BY DEF IInv, Kept, Release
<1> QED  BY <1>3, <1>4, <1>5, <1>6 DEF IInv

\* The run stays inside the critical section: nobody else is in it.
LEMMA Stays ==
  ASSUME IInv, NEW r \in Runs, NEW s, Go(r, s), Shape(s), Inside(r),
         s.pc \in {"staged", "commit", "prune"},
         UNCHANGED <<lock, last>>,
         s.pc = "commit" => Committing(r)',
         s.pc = "prune" => Pruning(r)'
  PROVE  IInv'
<1>1. /\ run'[r] = s
      /\ \A q \in Runs : q # r => run'[q] = run[q]
      /\ run' = [q \in Runs |-> run'[q]]
      /\ \A q \in Runs : Shape(run'[q])
  BY OneRun
<1>2. lock = {r} /\ last = r  BY DEF IInv, Kept
<1>3. Kept(r)'  BY <1>1, <1>2 DEF Kept, Inside
<1>4. \A q \in Runs : q # r => Kept(q)'  BY <1>1, Others
<1>5. Inside(r)'  BY <1>1 DEF Inside
<1> QED  BY <1>1, <1>2, <1>3, <1>4, <1>5 DEF IInv

-----------------------------------------------------------------------------
\* Every step, one by one.

LEMMA BeginKeeps == ASSUME IInv, NEW r \in Runs, NEW a \in Args, Begin(r, a)  PROVE IInv'
<1>1. ~Inside(r) /\ UNCHANGED <<disk, lock, last>>  BY DEF Begin, At, Inside
<1>2. CASE Refused(a) \/ Truncated(a)
  <2> DEFINE s == [New EXCEPT !.pc = "failed", !.args = a]
  <2>1. Go(r, s)  BY <1>2 DEF Begin
  <2>2. Shape(s) /\ s.pc = "failed"  BY DEF New, Shape, States
  <2> HIDE DEF s
  <2> QED  BY <1>1, <2>1, <2>2, Quiet
<1>3. CASE ~(Refused(a) \/ Truncated(a))
  <2> DEFINE s == [New EXCEPT !.pc = "fetch", !.args = a, !.leg = 1, !.cur = Min(Blocks(a) \cup {End(a)})]
  <2>1. Go(r, s)  BY <1>3 DEF Begin
  <2>2. Shape(s) /\ s.pc = "fetch"  BY DEF New, Shape, States
  <2> HIDE DEF s
  <2> QED  BY <1>1, <2>1, <2>2, Quiet
<1> QED  BY <1>2, <1>3

\* A run that gives up before it has the lock.
LEMMA QuitKeeps ==
  ASSUME IInv, NEW r \in Runs, ~Inside(r), Quit(r), UNCHANGED <<disk, lock, last>>
  PROVE  IInv'
<1> DEFINE s == [New EXCEPT !.pc = "failed", !.args = run[r].args]
<1>1. Go(r, s)  BY DEF Quit, Go
<1>2. Shape(s) /\ s.pc = "failed"  BY DEF New, Shape, States
<1> HIDE DEF s
<1> QED  BY <1>1, <1>2, Quiet

LEMMA PageKeeps == ASSUME IInv, NEW r \in Runs, Page(r)  PROVE IInv'
<1>1. ~Inside(r) /\ UNCHANGED <<disk, lock, last>>  BY DEF Page, At, Inside
<1>2. PICK n \in PageSizes :
        LET next == Min({run[r].cur + n, End(run[r].args)})
            new  == {x \in world.logs : x.leg = LegOrder[run[r].leg] /\ x.block >= run[r].cur /\ x.block < next}
        IN Go(r, [run[r] EXCEPT !.cur = next, !.tries = 0, !.logs = @ \cup new])
  BY DEF Page
<1> DEFINE next == Min({run[r].cur + n, End(run[r].args)})
           new  == {x \in world.logs : x.leg = LegOrder[run[r].leg] /\ x.block >= run[r].cur /\ x.block < next}
           s    == [run[r] EXCEPT !.cur = next, !.tries = 0, !.logs = @ \cup new]
<1>3. Go(r, s)  BY <1>2
<1> HIDE DEF next, new
<1>4. Shape(run[r]) /\ run[r].pc = "fetch"  BY DEF IInv, Page, At
<1>5. Shape(s) /\ s.pc = "fetch"  BY <1>4 DEF Shape
<1> HIDE DEF s
<1> QED  BY <1>1, <1>3, <1>5, Quiet

LEMMA PageRetryKeeps == ASSUME IInv, NEW r \in Runs, PageRetry(r)  PROVE IInv'
<1>1. ~Inside(r) /\ UNCHANGED <<disk, lock, last>>  BY DEF PageRetry, At, Inside
<1>2. CASE Quit(r)  BY <1>1, <1>2, QuitKeeps
<1>3. CASE Go(r, [run[r] EXCEPT !.tries = @ + 1])
  <2> DEFINE s == [run[r] EXCEPT !.tries = @ + 1]
  <2>1. Shape(run[r]) /\ run[r].pc = "fetch"  BY DEF IInv, PageRetry, At
  <2>2. Shape(s) /\ s.pc = "fetch"  BY <2>1 DEF Shape
  <2>3. Go(r, s)  BY <1>3
  <2> HIDE DEF s
  <2> QED  BY <1>1, <2>2, <2>3, Quiet
<1> QED  BY <1>2, <1>3 DEF PageRetry

LEMMA LegDoneKeeps == ASSUME IInv, NEW r \in Runs, LegDone(r)  PROVE IInv'
<1>1. ~Inside(r) /\ UNCHANGED <<disk, lock, last>>  BY DEF LegDone, At, Inside
<1>2. Shape(run[r]) /\ run[r].pc = "fetch"  BY DEF IInv, LegDone, At
<1> DEFINE c == Min(Blocks(run[r].args) \cup {End(run[r].args)})
           s == [run[r] EXCEPT !.leg = @ + 1, !.cur = c]
           u == [run[r] EXCEPT !.pc = "compute"]
<1>3. Quit(r) \/ Go(r, s) \/ Go(r, u)  BY DEF LegDone
<1> HIDE DEF c
<1>4. Shape(s) /\ s.pc = "fetch"  BY <1>2 DEF Shape
<1>5. Shape(u) /\ u.pc = "compute"  BY <1>2 DEF Shape, States
<1> HIDE DEF s, u
<1>6. CASE Quit(r)  BY <1>1, <1>6, QuitKeeps
<1>7. CASE Go(r, s)  BY <1>1, <1>4, <1>7, Quiet
<1>8. CASE Go(r, u)  BY <1>1, <1>5, <1>8, Quiet
<1> QED  BY <1>3, <1>6, <1>7, <1>8

LEMMA ComputeKeeps == ASSUME IInv, NEW r \in Runs, Compute(r)  PROVE IInv'
<1>1. ~Inside(r) /\ UNCHANGED <<disk, lock, last>>  BY DEF Compute, At, Inside
<1>2. Shape(run[r])  BY DEF IInv
<1> DEFINE g == Grid(run[r].logs, run[r].args)
           s == [run[r] EXCEPT !.pc = "write", !.recs = g.out, !.logs = {}, !.leg = 0, !.cur = 0]
<1>3. Quit(r) \/ Go(r, s)  BY DEF Compute
<1> HIDE DEF g
<1>4. Shape(s) /\ s.pc = "write"  BY <1>2 DEF Shape, States
<1> HIDE DEF s
<1>5. CASE Quit(r)  BY <1>1, <1>5, QuitKeeps
<1>6. CASE Go(r, s)  BY <1>1, <1>4, <1>6, Quiet
<1> QED  BY <1>3, <1>5, <1>6

LEMMA AcquireKeeps == ASSUME IInv, NEW r \in Runs, Acquire(r)  PROVE IInv'
<1>1. ~Inside(r) /\ UNCHANGED disk  BY DEF Acquire, At, Inside
<1>2. Shape(run[r])  BY DEF IInv
<1>3. CASE Quit(r) /\ UNCHANGED <<lock, last>>  BY <1>1, <1>3, QuitKeeps
<1>4. CASE lock = {} /\ Go(r, [run[r] EXCEPT !.pc = "locked"]) /\ lock' = {r} /\ last' = r
  <2> DEFINE s == [run[r] EXCEPT !.pc = "locked"]
  <2>1. Shape(s) /\ s.pc = "locked"  BY <1>2 DEF Shape, States
  <2>2. Go(r, s)  BY <1>4
  <2> HIDE DEF s
  <2>3. /\ run'[r] = s
        /\ \A q \in Runs : q # r => run'[q] = run[q]
        /\ run' = [q \in Runs |-> run'[q]]
        /\ \A q \in Runs : Shape(run'[q])
    BY <2>1, <2>2, OneRun
  <2>4. Kept(r)' /\ Inside(r)'  BY <1>4, <2>1, <2>3 DEF Kept, Inside
  <2>5. \A q \in Runs : q # r => Kept(q)'  BY <1>1, <1>4, <2>3, Others
  <2> QED  BY <1>4, <2>3, <2>4, <2>5 DEF IInv
<1> QED  BY <1>3, <1>4 DEF Acquire

LEMMA StageKeeps == ASSUME IInv, NEW r \in Runs, Stage(r)  PROVE IInv'
<1>1. Inside(r) /\ UNCHANGED <<disk, last>>  BY DEF Stage, At, Inside
<1>2. Shape(run[r])  BY DEF IInv
<1>3. CASE Quit(r) /\ Release(r)  BY <1>1, <1>3, Leaves
<1>4. CASE Go(r, [run[r] EXCEPT !.pc = "staged"]) /\ UNCHANGED lock
  <2> DEFINE s == [run[r] EXCEPT !.pc = "staged"]
  <2>1. Shape(s) /\ s.pc = "staged"  BY <1>2 DEF Shape, States
  <2>2. Go(r, s)  BY <1>4
  <2> HIDE DEF s
  <2> QED  BY <1>1, <1>4, <2>1, <2>2, Stays
<1> QED  BY <1>3, <1>4 DEF Stage

\* The last precheck, under the lock: what an unforced run will write is not there.
LEMMA RecheckKeeps == ASSUME IInv, NEW r \in Runs, Recheck(r)  PROVE IInv'
<1>1. Inside(r) /\ UNCHANGED <<disk, last>>  BY DEF Recheck, At, Inside
<1>2. Shape(run[r])  BY DEF IInv
<1>3. CASE Quit(r) /\ Release(r)  BY <1>1, <1>3, Leaves
<1>4. CASE /\ ~Refused(run[r].args)
           /\ Go(r, [run[r] EXCEPT !.pc = "commit", !.todo = Full(run[r])]) /\ UNCHANGED lock
  <2> DEFINE full == Full(run[r])
             s    == [run[r] EXCEPT !.pc = "commit", !.todo = full]
  <2>2. Go(r, s)  BY <1>4
  <2> HIDE DEF full
  <2>1. /\ Shape(s) /\ s.pc = "commit" /\ s.todo = full
        /\ s.args = run[r].args /\ s.recs = run[r].recs
    BY <1>2 DEF Shape, States
  <2> HIDE DEF s
  <2>3. run'[r] = s  BY <2>1, <2>2, OneRun
  <2>4. Full(s) = full  BY <2>1 DEF full, Full
  <2>5. ~run[r].args.force => DOMAIN shard \cap Range2(run[r].args) = {}  BY <1>4 DEF Refused
  <2>6. Committing(r)'  BY <1>1, <2>1, <2>3, <2>4, <2>5 DEF Committing, disk
  <2> QED  BY <1>1, <1>4, <2>1, <2>2, <2>6, Stays
<1> QED  BY <1>3, <1>4 DEF Recheck

\* A shard of the run's own, in a day it has rows for.
LEMMA CommitKeeps == ASSUME IInv, NEW r \in Runs, Commit(r)  PROVE IInv'
<1>1. Inside(r) /\ run[r].pc = "commit" /\ UNCHANGED <<sidecar, manifest, lock, last>>
  BY DEF Commit, At, Inside
<1>2. Shape(run[r]) /\ Committing(r)  BY <1>1 DEF IInv, Kept
<1>3. PICK d \in run[r].todo :
        /\ shard' = Put(shard, d, [by |-> r, rows |-> RowsOf(run[r].recs, d)])
        /\ Go(r, [run[r] EXCEPT !.todo = @ \ {d}])
  BY DEF Commit
<1> DEFINE s == [run[r] EXCEPT !.todo = @ \ {d}]
<1>4. /\ Shape(s) /\ s.pc = "commit" /\ s.todo = run[r].todo \ {d}
      /\ s.args = run[r].args /\ s.recs = run[r].recs
  BY <1>1, <1>2 DEF Shape, States
<1>5. Go(r, s)  BY <1>3
<1> HIDE DEF s
<1>6. run'[r] = s  BY <1>4, <1>5, OneRun
<1>7. Full(s) = Full(run[r])  BY <1>4 DEF Full
<1>8. d \in Full(run[r])  BY <1>2 DEF Committing
<1>9. /\ DOMAIN shard' = DOMAIN shard \cup {d}
      /\ shard'[d] = [by |-> r, rows |-> RowsOf(run[r].recs, d)]
      /\ \A e \in DOMAIN shard : e # d => shard'[e] = shard[e]
  BY <1>3 DEF Put
<1>10. \A e \in Full(run[r]) \ s.todo : Mine(r, e)'
  BY <1>2, <1>4, <1>6, <1>9 DEF Committing, Mine
<1>11. ~s.args.force => DOMAIN shard' \cap Range2(s.args) \subseteq Full(s) \ s.todo
  BY <1>2, <1>4, <1>7, <1>8, <1>9 DEF Committing
<1>12. Committing(r)'
  BY <1>2, <1>4, <1>6, <1>7, <1>10, <1>11 DEF Committing
<1> QED  BY <1>1, <1>4, <1>5, <1>12, Stays

LEMMA CommitSidecarKeeps == ASSUME IInv, NEW r \in Runs, CommitSidecar(r)  PROVE IInv'
<1>1. /\ Inside(r) /\ run[r].pc = "commit" /\ run[r].todo = {}
      /\ sidecar' = TRUE /\ UNCHANGED <<shard, lock, last>>
  BY DEF CommitSidecar, At, Inside
<1>2. Shape(run[r]) /\ Committing(r)  BY <1>1 DEF IInv, Kept
<1> DEFINE rest == IF run[r].args.prune THEN Empty(run[r]) ELSE {}
           s    == [run[r] EXCEPT !.pc = "prune", !.todo = rest]
<1>3. Go(r, s)  BY DEF CommitSidecar
<1>4. /\ rest \subseteq Empty(run[r]) /\ (rest # {} => run[r].args.prune)
      /\ (run[r].args.prune => rest = Empty(run[r]))
  OBVIOUS
<1> HIDE DEF rest
<1>5. /\ Shape(s) /\ s.pc = "prune" /\ s.todo = rest
      /\ s.args = run[r].args /\ s.recs = run[r].recs
  BY <1>2 DEF Shape, States
<1> HIDE DEF s
<1>6. run'[r] = s  BY <1>3, <1>5, OneRun
<1>7. Full(s) = Full(run[r]) /\ Empty(s) = Empty(run[r])  BY <1>5 DEF Full, Empty
<1>8. \A d \in Full(run[r]) : Mine(r, d)'
  BY <1>1, <1>2, <1>5, <1>6 DEF Committing, Mine
<1>9. ~run[r].args.force => DOMAIN shard \cap Empty(run[r]) = {}
  BY <1>1, <1>2 DEF Committing, Empty
<1>10. Pruning(r)'  BY <1>1, <1>4, <1>5, <1>6, <1>7, <1>8, <1>9 DEF Pruning
<1> QED  BY <1>1, <1>3, <1>5, <1>10, Stays

LEMMA PruneKeeps == ASSUME IInv, NEW r \in Runs, Prune(r)  PROVE IInv'
<1>1. Inside(r) /\ run[r].pc = "prune" /\ UNCHANGED <<sidecar, manifest, lock, last>>
  BY DEF Prune, At, Inside
<1>2. Shape(run[r]) /\ Pruning(r)  BY <1>1 DEF IInv, Kept
<1>3. PICK d \in run[r].todo :
        /\ shard' = Restrict(shard, DOMAIN shard \ {d})
        /\ Go(r, [run[r] EXCEPT !.todo = @ \ {d}])
  BY DEF Prune
<1> DEFINE s == [run[r] EXCEPT !.todo = @ \ {d}]
<1>4. /\ Shape(s) /\ s.pc = "prune" /\ s.todo = run[r].todo \ {d}
      /\ s.args = run[r].args /\ s.recs = run[r].recs
  BY <1>1, <1>2 DEF Shape, States
<1>5. Go(r, s)  BY <1>3
<1> HIDE DEF s
<1>6. run'[r] = s  BY <1>4, <1>5, OneRun
<1>7. Full(s) = Full(run[r]) /\ Empty(s) = Empty(run[r])  BY <1>4 DEF Full, Empty
<1>8. d \in Empty(run[r]) /\ d \notin Full(run[r])  BY <1>2 DEF Pruning, Empty
<1>9. DOMAIN shard' = DOMAIN shard \ {d} /\ \A e \in DOMAIN shard' : shard'[e] = shard[e]
  BY <1>3 DEF Restrict
<1>10. \A e \in Full(run[r]) : Mine(r, e)'  BY <1>2, <1>4, <1>6, <1>8, <1>9 DEF Pruning, Mine
<1>11. s.args.prune => DOMAIN shard' \cap Empty(s) \subseteq s.todo
  BY <1>2, <1>4, <1>7, <1>9 DEF Pruning
<1>12. ~s.args.force => DOMAIN shard' \cap Empty(s) = {}
  BY <1>2, <1>4, <1>7, <1>9 DEF Pruning
<1>13. s.todo \subseteq Empty(s) /\ (s.todo # {} => s.args.prune) /\ sidecar' = TRUE
  BY <1>1, <1>2, <1>4, <1>7 DEF Pruning
<1>14. Pruning(r)'  BY <1>6, <1>7, <1>10, <1>11, <1>12, <1>13 DEF Pruning
<1> QED  BY <1>1, <1>4, <1>5, <1>14, Stays

LEMMA FinishKeeps == ASSUME IInv, NEW r \in Runs, Finish(r)  PROVE IInv'
<1>1. /\ Inside(r) /\ run[r].pc = "prune" /\ run[r].todo = {} /\ manifest' = DOMAIN shard
      /\ Release(r) /\ UNCHANGED <<shard, sidecar, last>>
  BY DEF Finish, At, Inside
<1>2. Shape(run[r]) /\ Pruning(r) /\ lock = {r} /\ last = r  BY <1>1 DEF IInv, Kept
<1> DEFINE s == [run[r] EXCEPT !.pc = "done"]
<1>3. Shape(s) /\ s.pc = "done" /\ s.args = run[r].args /\ s.recs = run[r].recs
  BY <1>2 DEF Shape, States
<1>4. Go(r, s)  BY DEF Finish
<1> HIDE DEF s
<1>5. /\ run'[r] = s
      /\ \A q \in Runs : q # r => run'[q] = run[q]
      /\ run' = [q \in Runs |-> run'[q]]
      /\ \A q \in Runs : Shape(run'[q])
  BY <1>3, <1>4, OneRun
<1>6. Full(s) = Full(run[r]) /\ Empty(s) = Empty(run[r])  BY <1>3 DEF Full, Empty
<1>7. Settled(r)'
  BY <1>1, <1>2, <1>3, <1>5, <1>6 DEF Settled, Pruning, Mine
<1>8. Kept(r)'  BY <1>3, <1>5, <1>7 DEF Kept, Inside
<1>9. \A q \in Runs : q # r => Kept(q)'  BY <1>1, <1>5, Others
<1>10. lock' = {}  BY <1>1, <1>2 DEF Release
<1> QED  BY <1>5, <1>8, <1>9, <1>10 DEF IInv

LEMMA StopKeeps == ASSUME IInv, NEW r \in Runs, Stop(r)  PROVE IInv'
  BY Leaves DEF Stop, Inside

LEMMA StepKeeps == ASSUME IInv, NEW r \in Runs, Step(r)  PROVE IInv'
<1>1. ASSUME NEW a \in Args, Begin(r, a)  PROVE IInv'  BY <1>1, BeginKeeps
<1>2. CASE Page(r)  BY <1>2, PageKeeps
<1>3. CASE PageRetry(r)  BY <1>3, PageRetryKeeps
<1>4. CASE Stuck(r)
  <2>1. ~Inside(r)  BY <1>4 DEF Stuck, At, Inside
  <2> QED  BY <1>4, <2>1, QuitKeeps DEF Stuck
<1>5. CASE LegDone(r)  BY <1>5, LegDoneKeeps
<1>6. CASE Compute(r)  BY <1>6, ComputeKeeps
<1>7. CASE Acquire(r)  BY <1>7, AcquireKeeps
<1>8. CASE Stage(r)  BY <1>8, StageKeeps
<1>9. CASE Recheck(r)  BY <1>9, RecheckKeeps
<1>10. CASE Commit(r)  BY <1>10, CommitKeeps
<1>11. CASE CommitSidecar(r)  BY <1>11, CommitSidecarKeeps
<1>12. CASE Prune(r)  BY <1>12, PruneKeeps
<1>13. CASE Finish(r)  BY <1>13, FinishKeeps
<1>14. CASE Stop(r)  BY <1>14, StopKeeps
<1> QED
  BY <1>1, <1>2, <1>3, <1>4, <1>5, <1>6, <1>7, <1>8, <1>9, <1>10, <1>11, <1>12, <1>13, <1>14 DEF Step

-----------------------------------------------------------------------------
\* The theorems.

LEMMA InitHolds == Init => IInv
<1> SUFFICES ASSUME Init PROVE IInv  OBVIOUS
<1>1. Shape(New) /\ New.pc = "idle"  BY DEF Shape, New, States
<1> QED  BY <1>1 DEF Init, IInv, Kept, Inside

LEMMA NextKeeps == IInv /\ [Next]_vars => IInv'
<1> SUFFICES ASSUME IInv, [Next]_vars PROVE IInv'  OBVIOUS
<1>1. CASE Next  BY <1>1, StepKeeps DEF Next
<1>2. CASE UNCHANGED vars
  <2>1. shard' = shard /\ sidecar' = sidecar /\ manifest' = manifest /\ lock' = lock /\ last' = last /\ run' = run
    BY <1>2 DEF vars, disk
  <2>2. ASSUME NEW r \in Runs  PROVE Kept(r)'
    <3>1. Kept(r)  BY DEF IInv
    <3>2. Full(run[r])' = Full(run[r]) /\ Empty(run[r])' = Empty(run[r])  BY <2>1 DEF Full, Empty
    <3>3. \A d : Mine(r, d)' <=> Mine(r, d)  BY <2>1 DEF Mine
    <3>4. Committing(r)' <=> Committing(r)  BY <2>1, <3>2, <3>3 DEF Committing
    <3>5. Pruning(r)' <=> Pruning(r)  BY <2>1, <3>2, <3>3 DEF Pruning
    <3>6. Settled(r)' <=> Settled(r)  BY <2>1, <3>2, <3>3 DEF Settled
    <3> QED  BY <2>1, <3>1, <3>4, <3>5, <3>6 DEF Kept, Inside
  <2>3. (\A r \in Runs : Shape(run[r]))'  BY <2>1 DEF IInv, Shape
  <2>4. (run = [r \in Runs |-> run[r]])'  BY <2>1 DEF IInv
  <2>5. (lock \subseteq {last} /\ \A r \in lock : r \in Runs /\ Inside(r))'  BY <2>1 DEF IInv, Inside
  <2> QED  BY <2>2, <2>3, <2>4, <2>5 DEF IInv
<1> QED  BY <1>1, <1>2

\* In every state at most one run is inside the writer lock, its shards so far
\* are its own, and an unforced one has found its range empty
\* (onchain_backfill.rs:565-640).
THEOREM OnchainInductive == Spec => []IInv
  BY InitHolds, NextKeeps, PTL DEF Spec

\* A run that has succeeded, and after which nobody took the lock, left its days
\* whole, the empty ones as --prune says, and the manifest true.
THEOREM OnchainSuccess == Spec => []SuccessIsWhole
<1>1. IInv => SuccessIsWhole
  <2> SUFFICES ASSUME IInv, NEW r \in Runs, At(r, "done"), last = r
               PROVE LET a == run[r].args IN
                     /\ manifest = DOMAIN shard /\ sidecar
                     /\ \A d \in Range2(a) : IF d \in Full(run[r])
                          THEN d \in DOMAIN shard /\ shard[d] = [by |-> r, rows |-> RowsOf(run[r].recs, d)]
                          ELSE a.prune => d \notin DOMAIN shard
    BY DEF SuccessIsWhole
  <2>1. Settled(r)  BY DEF IInv, Kept, At
  <2> QED  BY <2>1 DEF Settled, Mine, Empty
<1> QED  BY <1>1, OnchainInductive, PTL

\* No step of any run replaces or removes a shard unless the run holds the lock
\* and was forced, and removes one only if it was told to prune.
THEOREM OnchainForce == Spec => OnlyForceReplaces
<1> DEFINE Replaces(d) == d \notin DOMAIN shard' \/ shard'[d] # shard[d]
           Allowed(d) == /\ last \in lock /\ lock = {last}
                         /\ run[last].args.force /\ d \in Range2(run[last].args)
                         /\ d \notin DOMAIN shard' => run[last].args.prune
<1>1. ASSUME IInv, [Next]_vars, NEW d \in DOMAIN shard, Replaces(d)  PROVE Allowed(d)
  <2>1. CASE UNCHANGED shard  BY <1>1, <2>1
  <2>2. ASSUME NEW r \in Runs, Commit(r)  PROVE Allowed(d)
    <3>1. run[r].pc = "commit" /\ Inside(r)  BY <2>2 DEF Commit, At, Inside
    <3>2. Committing(r) /\ lock = {r} /\ last = r  BY <1>1, <3>1 DEF IInv, Kept
    <3>3. PICK e \in run[r].todo : shard' = Put(shard, e, [by |-> r, rows |-> RowsOf(run[r].recs, e)])
      BY <2>2 DEF Commit
    <3>4. d = e /\ d \in DOMAIN shard'  BY <1>1, <3>3 DEF Put
    <3> QED  BY <3>2, <3>4 DEF Committing, Full
  <2>3. ASSUME NEW r \in Runs, Prune(r)  PROVE Allowed(d)
    <3>1. run[r].pc = "prune" /\ Inside(r)  BY <2>3 DEF Prune, At, Inside
    <3>2. Pruning(r) /\ lock = {r} /\ last = r  BY <1>1, <3>1 DEF IInv, Kept
    <3>3. PICK e \in run[r].todo : shard' = Restrict(shard, DOMAIN shard \ {e})
      BY <2>3 DEF Prune
    <3>4. d = e  BY <1>1, <3>3 DEF Restrict
    <3> QED  BY <3>2, <3>4 DEF Pruning, Empty
  <2>4. CASE Next
    <3>1. PICK r \in Runs : Step(r)  BY <2>4 DEF Next
    <3>2. UNCHANGED shard \/ Commit(r) \/ Prune(r)
      BY <3>1 DEF Step, Begin, Page, PageRetry, Stuck, LegDone, Compute, Acquire, Stage,
                  Recheck, CommitSidecar, Finish, Stop, disk
    <3> QED  BY <2>1, <2>2, <2>3, <3>2
  <2> QED  BY <1>1, <2>1, <2>4 DEF vars, disk
<1>2. IInv /\ [Next]_vars => [\A d \in DOMAIN shard : Replaces(d) => Allowed(d)]_vars
  BY <1>1
<1>3. IInv /\ [Next]_vars =>
        [\A d \in DOMAIN shard :
           d \notin DOMAIN shard' \/ shard'[d] # shard[d] =>
             /\ last \in lock /\ lock = {last}
             /\ run[last].args.force /\ d \in Range2(run[last].args)
             /\ d \notin DOMAIN shard' => run[last].args.prune]_vars
  BY <1>2
<1> QED  BY <1>3, OnchainInductive, PTL DEF Spec, OnlyForceReplaces

-----------------------------------------------------------------------------
\* Numbers.

\* What is true at 0, and at a number when it is true before, is true up to N.
Lt == {ss \in Nat \X Nat : ss[1] < ss[2]}

LEMMA Upwards ==
  ASSUME NEW N \in Nat, NEW T, 0 \in T, \A n \in 0..(N - 1) : n \in T => n + 1 \in T
  PROVE  0..N \subseteq T
<1> DEFINE U == (0..N) \ T
<1> SUFFICES ASSUME U # {} PROVE FALSE
  OBVIOUS
<1>1. IsWellFoundedOn(Lt, Nat)  BY NatLessThanWellFounded DEF OpToRel, Lt
<1>2. U \subseteq Nat  OBVIOUS
<1>3. PICK n \in U : \A m \in U : ~ (<<m, n>> \in Lt)  BY <1>1, <1>2, WFMin
<1>4. n \in Nat /\ n # 0 /\ n <= N  OBVIOUS
<1>5. n - 1 \in 0..(N - 1) /\ n - 1 \in Nat /\ (n - 1) + 1 = n  BY <1>4
<1>6. n - 1 \notin T  BY <1>5
<1>7. n - 1 \in U /\ <<n - 1, n>> \in Lt  BY <1>4, <1>5, <1>6 DEF Lt
<1> QED  BY <1>3, <1>7

LEMMA LeastNat ==
  ASSUME NEW T, T \subseteq Nat, T # {}
  PROVE  \E n \in T : \A m \in T : n <= m
<1>1. IsWellFoundedOn(Lt, Nat)  BY NatLessThanWellFounded DEF OpToRel, Lt
<1>2. PICK n \in T : \A m \in T : ~ (<<m, n>> \in Lt)  BY <1>1, WFMin
<1>3. \A m \in T : n <= m
  <2> TAKE m \in T
  <2>1. m \in Nat /\ n \in Nat  OBVIOUS
  <2>2. m < n => <<m, n>> \in Lt  BY <2>1 DEF Lt
  <2> QED  BY <1>2, <2>1, <2>2
<1> QED  BY <1>3

LEMMA MaxBounded ==
  ASSUME NEW S, S \subseteq Int, S # {}, NEW b \in Int, \A s \in S : s <= b
  PROVE  Max(S) \in S /\ \A s \in S : s <= Max(S)
<1> DEFINE T == {b - s : s \in S}
<1>1. T \subseteq Nat /\ T # {}
  <2>1. \A s \in S : b - s \in Nat  OBVIOUS
  <2> QED  BY <2>1
<1>2. PICK n \in T : \A m \in T : n <= m  BY <1>1, LeastNat
<1>3. PICK s \in S : n = b - s  BY <1>2
<1>4. \A r \in S : r <= s
  <2> TAKE r \in S
  <2>1. b - s <= b - r  BY <1>2, <1>3
  <2> QED  BY <2>1
<1>5. \E x \in S : \A y \in S : x >= y  BY <1>4
<1> QED  BY <1>5 DEF Max

LEMMA TwoNumbers ==
  ASSUME NEW m \in Int, NEW n \in Int
  PROVE  /\ Max({m, n}) = IF m >= n THEN m ELSE n
         /\ Min({m, n}) = IF m <= n THEN m ELSE n
<1>1. \E x \in {m, n} : \A y \in {m, n} : x >= y  OBVIOUS
<1>2. \E x \in {m, n} : \A y \in {m, n} : x =< y  OBVIOUS
<1>3. Max({m, n}) \in {m, n} /\ \A y \in {m, n} : Max({m, n}) >= y  BY <1>1 DEF Max
<1>4. Min({m, n}) \in {m, n} /\ \A y \in {m, n} : Min({m, n}) =< y  BY <1>2 DEF Min
<1> QED  BY <1>3, <1>4

-----------------------------------------------------------------------------
\* Blocks.

LEMMA WorldIs ==
  ASSUME world \in Worlds
  PROVE  /\ Height \in Nat /\ world.time \in [0..Height -> Nat]
         /\ \A b, c \in 0..Height : b <= c => world.time[b] <= world.time[c]
         /\ IsFiniteSet(world.logs)
         /\ \A x \in world.logs : x.block \in 0..Height /\ x.idx \in Nat
         /\ \A x, y \in world.logs : x.leg = y.leg /\ x.block = y.block /\ x.idx = y.idx => x = y
  BY WorldAssumption DEF Height

\* The blocks before b are before the second, and no others.
Splits(b, sec) == b \in 0..(Height + 1) /\ \A c \in 0..Height : c < b <=> world.time[c] < sec

LEMMA SplitExists == ASSUME world \in Worlds, NEW sec \in Int  PROVE \E b : Splits(b, sec)
<1> DEFINE T == {c \in 0..(Height + 1) : c = Height + 1 \/ world.time[c] >= sec}
<1>1. Height \in Nat  BY WorldIs
<1>2. T \subseteq Nat /\ Height + 1 \in T  BY <1>1
<1>3. PICK b \in T : \A c \in T : b <= c  BY <1>2, LeastNat
<1>4. ASSUME NEW c \in 0..Height  PROVE c < b <=> world.time[c] < sec
  <2>1. world.time[c] \in Nat  BY <1>4, WorldIs
  <2>2. c < b => c \notin T  BY <1>3, <1>1
  <2>3. c >= b => b \in 0..Height /\ world.time[b] >= sec  BY <1>1, <1>3
  <2>4. c >= b => world.time[b] <= world.time[c] /\ world.time[b] \in Nat  BY <2>3, WorldIs
  <2> QED  BY <1>1, <1>3, <2>1, <2>2, <2>3, <2>4
<1> QED  BY <1>3, <1>4 DEF Splits

\* The equation of the binary search.
Halved(f, time, sec, lo, hi) ==
  LET mid == (lo + hi) \div 2 IN
  IF lo >= hi THEN lo
  ELSE IF time[mid] < sec THEN f[mid + 1][hi] ELSE f[lo][mid]
Searches(f, h, time, sec) ==
  f = [lo \in 0..(h + 1) |-> [hi \in 0..(h + 1) |-> Halved(f, time, sec, lo, hi)]]

Clamp(b, lo, hi) == IF lo >= hi \/ b < lo THEN lo ELSE IF b > hi THEN hi ELSE b

\* The binary search finds the place where the blocks split.
LEMMA FirstBlockIs ==
  ASSUME world \in Worlds, NEW sec \in Int
  PROVE  Splits(FirstBlockAt(sec), sec)
<1>1. PICK h, time : h = Height /\ time = world.time  OBVIOUS
<1>2. PICK b : Splits(b, sec)  BY SplitExists
<1>3. h \in Nat /\ b \in 0..(h + 1) /\ \A c \in 0..h : c < b <=> time[c] < sec
  BY <1>1, <1>2, WorldIs DEF Splits
<1> DEFINE D == 0..(h + 1)
           w == [lo \in D |-> [hi \in D |-> Clamp(b, lo, hi)]]
<1>4. ASSUME NEW lo \in D, NEW hi \in D, NEW mid \in Int, lo <= mid, mid < hi
      PROVE  /\ mid \in D /\ mid + 1 \in D
             /\ Clamp(b, lo, hi) = IF time[mid] < sec THEN Clamp(b, mid + 1, hi) ELSE Clamp(b, lo, mid)
  <2>1. mid \in 0..h  BY <1>3, <1>4
  <2>2. mid < b <=> time[mid] < sec  BY <1>3, <2>1
  <2> QED  BY <1>3, <1>4, <2>1, <2>2 DEF Clamp
<1>5. Searches(w, h, time, sec)
  <2>1. \A lo, hi \in D : w[lo][hi] = Clamp(b, lo, hi)  OBVIOUS
  <2>2. w = [lo \in D |-> [hi \in D |-> Clamp(b, lo, hi)]]  OBVIOUS
  <2> HIDE DEF w
  <2>3. ASSUME NEW lo \in D, NEW hi \in D  PROVE Clamp(b, lo, hi) = Halved(w, time, sec, lo, hi)
    <3>1. PICK mid : mid = (lo + hi) \div 2  OBVIOUS
    <3>2. CASE lo >= hi  BY <3>2 DEF Clamp, Halved
    <3>3. CASE lo < hi
      <4>0. mid \in Int /\ lo <= mid /\ mid < hi  BY <1>3, <3>1, <3>3
      <4>1. mid \in D /\ mid + 1 \in D
            /\ Clamp(b, lo, hi) = IF time[mid] < sec THEN Clamp(b, mid + 1, hi) ELSE Clamp(b, lo, mid)
        BY <1>4, <4>0
      <4>2. w[mid + 1][hi] = Clamp(b, mid + 1, hi) /\ w[lo][mid] = Clamp(b, lo, mid)
        BY <2>1, <4>1
      <4>3. Halved(w, time, sec, lo, hi) = IF time[mid] < sec THEN w[mid + 1][hi] ELSE w[lo][mid]
        BY <1>3, <3>1, <3>3 DEF Halved
      <4> QED  BY <4>1, <4>2, <4>3
    <3> QED  BY <1>3, <3>2, <3>3
  <2>4. [lo \in D |-> [hi \in D |-> Clamp(b, lo, hi)]]
          = [lo \in D |-> [hi \in D |-> Halved(w, time, sec, lo, hi)]]
    BY <2>3
  <2> QED  BY <2>2, <2>4 DEF Searches
<1> DEFINE f == CHOOSE g : Searches(g, h, time, sec)
<1>6. Searches(f, h, time, sec)  BY <1>5
<1>7. FirstBlockAt(sec) = f[0][h + 1]  BY <1>1 DEF FirstBlockAt, Searches, Halved
<1> HIDE DEF f, w
<1>8. ASSUME NEW lo \in D, NEW hi \in D  PROVE f[lo][hi] = Halved(f, time, sec, lo, hi)
  <2>1. f[lo] = [x \in D |-> Halved(f, time, sec, lo, x)]  BY <1>6 DEF Searches
  <2> QED  BY <2>1
<1> DEFINE T == {n \in Nat : \A lo, hi \in D : hi - lo <= n => f[lo][hi] = Clamp(b, lo, hi)}
<1>9. 0 \in T
  <2>1. ASSUME NEW lo \in D, NEW hi \in D, hi - lo <= 0  PROVE f[lo][hi] = Clamp(b, lo, hi)
    <3>1. lo >= hi  BY <1>3, <2>1
    <3> QED  BY <1>8, <3>1 DEF Clamp, Halved
  <2> QED  BY <2>1
<1>10. ASSUME NEW n \in 0..((h + 1) - 1), n \in T  PROVE n + 1 \in T
  <2>1. ASSUME NEW lo \in D, NEW hi \in D, hi - lo <= n + 1  PROVE f[lo][hi] = Clamp(b, lo, hi)
    <3>1. PICK mid : mid = (lo + hi) \div 2  OBVIOUS
    <3>2. CASE lo >= hi  BY <1>8, <3>2 DEF Clamp, Halved
    <3>3. CASE lo < hi
      <4>0. mid \in Int /\ lo <= mid /\ mid < hi  BY <1>3, <3>1, <3>3
      <4>1. mid \in D /\ mid + 1 \in D  BY <1>4, <4>0
      <4>2. hi - (mid + 1) <= n /\ mid - lo <= n  BY <1>3, <2>1, <3>3, <4>0
      <4>3. f[mid + 1][hi] = Clamp(b, mid + 1, hi) /\ f[lo][mid] = Clamp(b, lo, mid)
        BY <1>10, <4>1, <4>2
      <4>4. f[lo][hi] = IF time[mid] < sec THEN f[mid + 1][hi] ELSE f[lo][mid]
        BY <1>3, <1>8, <3>1, <3>3 DEF Halved
      <4>5. Clamp(b, lo, hi) = IF time[mid] < sec THEN Clamp(b, mid + 1, hi) ELSE Clamp(b, lo, mid)
        BY <1>4, <4>0
      <4> QED  BY <4>3, <4>4, <4>5
    <3> QED  BY <1>3, <3>2, <3>3
  <2> QED  BY <2>1
<1>11. 0..(h + 1) \subseteq T
  <2> HIDE DEF T
  <2> QED  BY <1>3, <1>9, <1>10, Upwards
<1>12. f[0][h + 1] = Clamp(b, 0, h + 1)
  <2>1. h + 1 \in T /\ 0 \in D /\ h + 1 \in D /\ (h + 1) - 0 <= h + 1  BY <1>3, <1>11
  <2> QED  BY <2>1
<1>13. Clamp(b, 0, h + 1) = b  BY <1>3 DEF Clamp
<1> QED  BY <1>2, <1>7, <1>12, <1>13

\* A run's blocks are those of its seconds.
LEMMA BlocksAre ==
  ASSUME world \in Worlds, NEW a \in Args
  PROVE  /\ FirstBlockAt(FromSec(a) - Lookback) \in Nat /\ End(a) \in Nat
         /\ FirstBlockAt(FromSec(a) - Lookback) <= End(a)
         /\ \A c \in 0..Height :
              c \in Blocks(a) <=> /\ world.time[c] >= FromSec(a) - Lookback
                                  /\ world.time[c] < EndSec(a)
<1>1. /\ DayLen \in Nat \ {0} /\ Lookback \in Nat /\ a.from \in Nat /\ a.to \in Nat /\ a.from <= a.to
  BY OnchainAssumption
<1>2. FromSec(a) \in Int /\ EndSec(a) \in Int /\ FromSec(a) - Lookback \in Int
      /\ FromSec(a) - Lookback <= EndSec(a)
  <2>1. a.from * DayLen <= (a.to + 1) * DayLen  BY <1>1
  <2> QED  BY <1>1, <2>1 DEF FromSec, EndSec
<1>3. PICK lo, hi : lo = FirstBlockAt(FromSec(a) - Lookback) /\ hi = FirstBlockAt(EndSec(a))  OBVIOUS
<1>4. Splits(lo, FromSec(a) - Lookback) /\ Splits(hi, EndSec(a))  BY <1>2, <1>3, FirstBlockIs
<1>5. Height \in Nat /\ \A c \in 0..Height : world.time[c] \in Nat  BY WorldIs
<1>6. lo \in Nat /\ hi \in Nat /\ lo <= Height + 1 /\ hi <= Height + 1
      /\ \A c \in 0..Height : /\ c < lo <=> world.time[c] < FromSec(a) - Lookback
                              /\ c < hi <=> world.time[c] < EndSec(a)
  BY <1>4, <1>5 DEF Splits
<1>7. lo <= hi
  <2> SUFFICES ASSUME hi < lo PROVE FALSE  BY <1>6
  <2>1. hi \in 0..Height /\ world.time[hi] \in Nat  BY <1>5, <1>6
  <2> QED  BY <1>2, <1>6, <2>1
<1>8. Blocks(a) = lo..(hi - 1) /\ End(a) = hi  BY <1>3 DEF Blocks, End
<1>9. ASSUME NEW c \in 0..Height
      PROVE c \in Blocks(a) <=> world.time[c] >= FromSec(a) - Lookback /\ world.time[c] < EndSec(a)
  <2>1. c \in lo..(hi - 1) <=> ~ (c < lo) /\ c < hi  BY <1>5, <1>6
  <2> QED  BY <1>2, <1>5, <1>6, <1>8, <2>1
<1> QED  BY <1>3, <1>6, <1>7, <1>8, <1>9

-----------------------------------------------------------------------------
\* Logs in order.

\* Logs with places of their own.
Placed(S) ==
  /\ IsFiniteSet(S)
  /\ \A x \in S : x.block \in Nat /\ x.idx \in Nat
  /\ \A x, y \in S : x.block = y.block /\ x.idx = y.idx => x = y

Sorted(s, S) ==
  /\ s \in [1..Cardinality(S) -> S]
  /\ \A i, j \in 1..Cardinality(S) : i < j => Before(s[i], s[j])

LEMMA LastOf ==
  ASSUME NEW L, Placed(L), L # {}
  PROVE  \E m \in L : \A x \in L : x # m => Before(x, m)
<1> DEFINE T == {n \in Nat : \A S \in SUBSET L : Cardinality(S) = n /\ S # {} =>
                              \E m \in S : \A x \in S : x # m => Before(x, m)}
<1>1. IsFiniteSet(L) /\ Cardinality(L) \in Nat  BY FS_CardinalityType DEF Placed
<1>2. 0 \in T
  <2>1. \A S \in SUBSET L : Cardinality(S) = 0 => S = {}  BY <1>1, FS_Subset, FS_EmptySet
  <2> QED  BY <2>1
<1>3. ASSUME NEW n \in 0..(Cardinality(L) - 1), n \in T  PROVE n + 1 \in T
  <2>1. ASSUME NEW S \in SUBSET L, Cardinality(S) = n + 1, S # {}
        PROVE \E m \in S : \A x \in S : x # m => Before(x, m)
    <3>1. PICK z : z \in S  BY <2>1
    <3> DEFINE R == S \ {z}
    <3>2. R \in SUBSET L /\ Cardinality(R) = n
      <4>1. IsFiniteSet(S)  BY <1>1, FS_Subset
      <4>2. Cardinality(R) = Cardinality(S) - 1  BY <3>1, <4>1, FS_RemoveElement
      <4> QED  BY <1>3, <2>1, <4>2
    <3>3. CASE R = {}  BY <3>1, <3>3
    <3>4. CASE R # {}
      <4>1. PICK m \in R : \A x \in R : x # m => Before(x, m)  BY <1>3, <3>2, <3>4
      <4>2. m.block \in Nat /\ m.idx \in Nat /\ z.block \in Nat /\ z.idx \in Nat /\ m # z
            /\ ~ (m.block = z.block /\ m.idx = z.idx)
        BY <3>1, <4>1 DEF Placed
      <4>3. CASE Before(z, m)  BY <4>1, <4>3
      <4>4. CASE ~ Before(z, m)
        <5>1. Before(m, z)  BY <4>2, <4>4 DEF Before
        <5>2. ASSUME NEW x \in R, x # m  PROVE Before(x, z)
          <6>1. Before(x, m) /\ x.block \in Nat /\ x.idx \in Nat  BY <4>1, <5>2 DEF Placed
          <6> QED  BY <4>2, <5>1, <6>1 DEF Before
        <5> QED  BY <3>1, <5>1, <5>2
      <4> QED  BY <4>3, <4>4
    <3> QED  BY <3>3, <3>4
  <2> QED  BY <2>1
<1>4. Cardinality(L) \in T
  <2> HIDE DEF T
  <2> QED  BY <1>1, <1>2, <1>3, Upwards
<1> QED  BY <1>4

LEMMA SortExists == ASSUME NEW L, Placed(L)  PROVE \E s : Sorted(s, L)
<1> DEFINE T == {n \in Nat : \A S \in SUBSET L : Cardinality(S) = n => \E s : Sorted(s, S)}
<1>1. IsFiniteSet(L) /\ Cardinality(L) \in Nat  BY FS_CardinalityType DEF Placed
<1>2. 0 \in T
  <2>1. ASSUME NEW S \in SUBSET L, Cardinality(S) = 0  PROVE \E s : Sorted(s, S)
    <3>1. Sorted([i \in 1..0 |-> i], S)  BY <2>1 DEF Sorted
    <3> QED  BY <3>1
  <2> QED  BY <2>1
<1>3. ASSUME NEW n \in 0..(Cardinality(L) - 1), n \in T  PROVE n + 1 \in T
  <2>1. ASSUME NEW S \in SUBSET L, Cardinality(S) = n + 1  PROVE \E s : Sorted(s, S)
    <3>1. IsFiniteSet(S) /\ S # {}  BY <1>1, <1>3, <2>1, FS_Subset, FS_EmptySet
    <3>2. Placed(S)  BY <3>1 DEF Placed
    <3>3. PICK m \in S : \A x \in S : x # m => Before(x, m)  BY <3>1, <3>2, LastOf
    <3> DEFINE R == S \ {m}
    <3>4. R \in SUBSET L /\ Cardinality(R) = n
      <4>1. Cardinality(R) = Cardinality(S) - 1  BY <3>1, FS_RemoveElement
      <4> QED  BY <1>3, <2>1, <4>1
    <3>5. PICK s : Sorted(s, R)  BY <1>3, <3>4
    <3> DEFINE u == [i \in 1..(n + 1) |-> IF i <= n THEN s[i] ELSE m]
    <3>6. \A i \in 1..n : s[i] \in R  BY <3>4, <3>5 DEF Sorted
    <3>7. \A i, j \in 1..n : i < j => Before(s[i], s[j])  BY <3>4, <3>5 DEF Sorted
    <3>8. u \in [1..(n + 1) -> S]  BY <3>6
    <3>9. ASSUME NEW i \in 1..(n + 1), NEW j \in 1..(n + 1), i < j  PROVE Before(u[i], u[j])
      <4>1. i \in 1..n /\ u[i] = s[i] /\ (j <= n => j \in 1..n)  BY <1>3, <3>9
      <4>2. CASE j <= n  BY <3>7, <3>9, <4>1, <4>2
      <4>3. CASE ~ (j <= n)  BY <3>3, <3>6, <4>1, <4>3
      <4> QED  BY <4>2, <4>3
    <3> HIDE DEF u
    <3>10. Sorted(u, S)  BY <2>1, <3>8, <3>9 DEF Sorted
    <3> QED  BY <3>10
  <2> QED  BY <2>1
<1>4. Cardinality(L) \in T
  <2> HIDE DEF T
  <2> QED  BY <1>1, <1>2, <1>3, Upwards
<1> QED  BY <1>4

\* InOrder has every log once, in order.
LEMMA InOrderIs ==
  ASSUME NEW L, Placed(L)
  PROVE  /\ Cardinality(L) \in Nat /\ Sorted(InOrder(L), L)
         /\ \A x \in L : \E i \in 1..Cardinality(L) : InOrder(L)[i] = x
<1>1. IsFiniteSet(L) /\ Cardinality(L) \in Nat  BY FS_CardinalityType DEF Placed
<1>2. PICK n : n = Cardinality(L)  OBVIOUS
<1>3. PICK u : Sorted(u, L)  BY SortExists
<1>4. u \in [1..n -> L] /\ \A i, j \in DOMAIN u : i < j => Before(u[i], u[j])
  <2>1. u \in [1..n -> L] /\ \A i, j \in 1..n : i < j => Before(u[i], u[j])  BY <1>2, <1>3 DEF Sorted
  <2>2. DOMAIN u = 1..n  BY <2>1
  <2> QED  BY <2>1, <2>2
<1>5. PICK s : s = InOrder(L)  OBVIOUS
<1>6. s \in [1..n -> L] /\ \A i, j \in DOMAIN s : i < j => Before(s[i], s[j])
  BY <1>2, <1>4, <1>5 DEF InOrder
<1>7. DOMAIN s = 1..n  BY <1>6
<1>8. Sorted(s, L)  BY <1>2, <1>6, <1>7 DEF Sorted
<1>9. s \in Injection(1..n, L)
  <2>1. ASSUME NEW i \in 1..n, NEW j \in 1..n, s[i] = s[j]  PROVE i = j
    <3>1. s[i].block \in Nat /\ s[i].idx \in Nat  BY <1>6 DEF Placed
    <3>2. ~ Before(s[i], s[j]) /\ ~ Before(s[j], s[i])  BY <2>1, <3>1 DEF Before
    <3> QED  BY <1>1, <1>2, <1>6, <1>7, <3>2
  <2> QED  BY <1>6, <2>1 DEF Injection, IsInjective
<1>10. Cardinality(1..n) = n  BY <1>1, <1>2, FS_Interval
<1>11. s \in Surjection(1..n, L)  BY <1>1, <1>2, <1>9, <1>10, FS_Injection
<1>12. \A x \in L : \E i \in 1..n : s[i] = x  BY <1>11 DEF Surjection
<1> QED  BY <1>1, <1>2, <1>5, <1>8, <1>12

-----------------------------------------------------------------------------
\* The replay of a leg's events.

\* All a run over a range has to fetch.
AllLogs(a) == {x \in world.logs : x.leg \in DOMAIN Legs /\ x.block \in Blocks(a)}

\* The price a leg holds at a second is that of its latest swap on the chain.
LEMMA ReplayIs ==
  ASSUME world \in Worlds, NEW a \in Args, NEW l \in DOMAIN Legs, NEW t \in Int, t < EndSec(a)
  PROVE  /\ Last2(Events(AllLogs(a), l), t) # 0 <=> Swaps(l, a, t) # {}
         /\ Swaps(l, a, t) # {} =>
              Events(AllLogs(a), l)[Last2(Events(AllLogs(a), l), t)]
                = [sec |-> world.time[Latest(Swaps(l, a, t)).block], px |-> Latest(Swaps(l, a, t)).px]
<1> DEFINE U == Usable(OfLeg(AllLogs(a), l))
           S == Swaps(l, a, t)
<1>1. U = {x \in world.logs : x.leg = l /\ x.kind = "swap" /\ x.block \in Blocks(a)}
  BY DEF Usable, OfLeg, AllLogs
<1>2. /\ \A x \in world.logs : x.block \in 0..Height /\ x.idx \in Nat
      /\ \A c \in 0..Height : world.time[c] \in Nat
      /\ \A b, c \in 0..Height : b <= c => world.time[b] <= world.time[c]
      /\ Height \in Nat
  BY WorldIs
<1>3. Placed(U)
  <2>1. IsFiniteSet(U)  BY <1>1, WorldIs, FS_Subset
  <2> QED  BY <1>1, <1>2, <2>1, WorldIs DEF Placed
<1>4. FromSec(a) \in Int /\ EndSec(a) \in Int /\ Lookback \in Nat
  BY OnchainAssumption DEF FromSec, EndSec
<1>5. S = {x \in U : world.time[x.block] <= t}
  <2>1. ASSUME NEW x \in world.logs, world.time[x.block] <= t
        PROVE x.block \in Blocks(a) <=> world.time[x.block] >= FromSec(a) - Lookback
    <3>1. x.block \in 0..Height /\ world.time[x.block] \in Nat  BY <1>2
    <3>2. x.block \in Blocks(a) <=> /\ world.time[x.block] >= FromSec(a) - Lookback
                                    /\ world.time[x.block] < EndSec(a)
      BY <3>1, BlocksAre
    <3> QED  BY <1>4, <2>1, <3>1, <3>2
  <2> QED  BY <1>1, <2>1 DEF Swaps
<1>6. PICK n, s, ev : n = Cardinality(U) /\ s = InOrder(U) /\ ev = Events(AllLogs(a), l)  OBVIOUS
<1> HIDE DEF U, S
<1>7. /\ n \in Nat /\ s \in [1..n -> U]
      /\ \A i, j \in 1..n : i < j => Before(s[i], s[j])
      /\ \A x \in U : \E i \in 1..n : s[i] = x
  BY <1>3, <1>6, InOrderIs DEF Sorted
<1>8. DOMAIN s = 1..n /\ ev = [i \in 1..n |-> [sec |-> world.time[s[i].block], px |-> s[i].px]]
  <2>1. DOMAIN s = 1..n  BY <1>7
  <2> QED  BY <1>6, <2>1 DEF Events, U
<1>9. \A x \in U : x.block \in 0..Height /\ x.idx \in Nat /\ world.time[x.block] \in Nat
  BY <1>1, <1>2
<1>10. DOMAIN ev = 1..n /\ \A i \in 1..n : ev[i].sec = world.time[s[i].block] /\ s[i] \in U
  BY <1>7, <1>8
<1> DEFINE I == {i \in DOMAIN ev : ev[i].sec <= t}
           k == Last2(ev, t)
<1>11. k \in I \cup {0} /\ \A i \in I \cup {0} : i <= k
  <2>1. I \cup {0} \subseteq Int /\ \A i \in I \cup {0} : i <= n  BY <1>7, <1>10
  <2>2. Max(I \cup {0}) \in I \cup {0} /\ \A i \in I \cup {0} : i <= Max(I \cup {0})
    <3> DEFINE J == I \cup {0}
    <3>1. J \subseteq Int /\ J # {} /\ n \in Int /\ \A i \in J : i <= n  BY <1>7, <2>1
    <3> HIDE DEF J
    <3>2. Max(J) \in J /\ \A i \in J : i <= Max(J)  BY <3>1, MaxBounded
    <3> QED  BY <3>2 DEF J
  <2> QED  BY <2>2 DEF Last2
<1> HIDE DEF k
<1>12. \A i \in 1..n : i \in I <=> s[i] \in S  BY <1>5, <1>10
<1>13. I \subseteq 1..n  BY <1>10
<1> HIDE DEF I
<1>14. S \subseteq U  BY <1>5
<1>15. ASSUME k # 0  PROVE k \in 1..n /\ s[k] \in S  BY <1>11, <1>12, <1>13, <1>15
<1>16. ASSUME NEW y \in S  PROVE \E j \in 1..n : s[j] = y /\ j <= k /\ j \in I
  <2>1. PICK j \in 1..n : s[j] = y  BY <1>7, <1>14
  <2>2. j \in I  BY <1>12, <2>1
  <2> QED  BY <1>11, <2>1, <2>2
<1>17. k # 0 <=> S # {}
  <2>1. S # {} => k # 0  BY <1>7, <1>13, <1>16
  <2> QED  BY <1>15, <2>1
<1>18. ASSUME S # {}  PROVE Latest(S) = s[k]
  <2> DEFINE Q(x) == \A y \in S : x.block > y.block \/ (x.block = y.block /\ x.idx >= y.idx)
  <2>1. k \in 1..n /\ s[k] \in S  BY <1>15, <1>17, <1>18
  <2>2. s[k].block \in Nat /\ s[k].idx \in Nat  BY <1>2, <1>9, <1>14, <2>1
  <2>3. ASSUME NEW y \in S  PROVE y = s[k] \/ Before(y, s[k])
    <3>1. PICK j \in 1..n : s[j] = y /\ j <= k  BY <1>16
    <3>2. CASE j = k  BY <3>1, <3>2
    <3>3. CASE j # k
      <4>1. j < k  BY <1>7, <2>1, <3>1, <3>3
      <4> QED  BY <1>7, <2>1, <3>1, <4>1
    <3> QED  BY <3>2, <3>3
  <2>4. Q(s[k])
    <3>1. ASSUME NEW y \in S
          PROVE s[k].block > y.block \/ (s[k].block = y.block /\ s[k].idx >= y.idx)
      <4>1. y.block \in Nat /\ y.idx \in Nat  BY <1>2, <1>9, <1>14
      <4> QED  BY <2>2, <2>3, <4>1 DEF Before
    <3> QED  BY <3>1
  <2>5. ASSUME NEW x \in S, Q(x)  PROVE x = s[k]
    <3>1. x.block > s[k].block \/ (x.block = s[k].block /\ x.idx >= s[k].idx)  BY <2>1, <2>5
    <3>2. x.block \in Nat /\ x.idx \in Nat  BY <1>2, <1>9, <1>14
    <3> QED  BY <2>2, <2>3, <3>1, <3>2 DEF Before
  <2>6. Latest(S) = CHOOSE x \in S : Q(x)  BY DEF Latest
  <2> HIDE DEF Q
  <2>7. Latest(S) \in S /\ Q(Latest(S))  BY <2>1, <2>4, <2>6
  <2> QED  BY <2>5, <2>7
<1>19. S # {} => ev[k] = [sec |-> world.time[Latest(S).block], px |-> Latest(S).px]
  BY <1>8, <1>15, <1>17, <1>18
<1> QED  BY <1>6, <1>17, <1>19 DEF k, S

-----------------------------------------------------------------------------
\* The grid.

LEMMA SecondsAre ==
  ASSUME NEW a \in Args
  PROVE  /\ FromSec(a) \in Nat /\ EndSec(a) \in Nat /\ GridStart(a) \in Nat
         /\ GridStart(a) + Warmup <= FromSec(a) /\ FromSec(a) < EndSec(a)
         /\ Warmup \in Nat /\ Twap \in Nat /\ Heartbeat \in Nat \ {0}
<1>1. /\ DayLen \in Nat \ {0} /\ Warmup \in Nat /\ Twap \in Nat /\ Heartbeat \in Nat \ {0}
      /\ a.from \in Nat /\ a.to \in Nat /\ a.from <= a.to
      /\ a.from * DayLen >= Warmup + Twap
  BY OnchainAssumption
<1>2. a.from * DayLen \in Nat /\ (a.to + 1) * DayLen \in Nat /\ a.from * DayLen < (a.to + 1) * DayLen
  BY <1>1
<1> QED  BY <1>1, <1>2 DEF FromSec, EndSec, GridStart

LiveAt(a, t) == {l \in DOMAIN Legs : Alive(l, a, t)}
Sampled(a, l, t) == [u \in {v \in GridStart(a)..t : Alive(l, a, v)} |-> Latest(Swaps(l, a, u)).px]

LEMMA LiveIs ==
  ASSUME world \in Worlds, NEW a \in Args, NEW l \in DOMAIN Legs, NEW t \in Int, t < EndSec(a),
         NEW ev, ev = Events(AllLogs(a), l)
  PROVE  /\ Holds(ev, t) <=> Alive(l, a, t)
         /\ Alive(l, a, t) => Last2(ev, t) # 0 /\ Held(ev, t) = Latest(Swaps(l, a, t)).px
<1>1. /\ Last2(ev, t) # 0 <=> Swaps(l, a, t) # {}
      /\ Swaps(l, a, t) # {} =>
           ev[Last2(ev, t)] = [sec |-> world.time[Latest(Swaps(l, a, t)).block],
                               px |-> Latest(Swaps(l, a, t)).px]
  BY ReplayIs
<1> QED  BY <1>1 DEF Holds, Alive, Held

\* The samples after a second, and the average over the window they hold.
LEMMA SampleIs ==
  ASSUME world \in Worlds, NEW a \in Args, NEW l \in DOMAIN Legs, NEW t \in GridStart(a)..(EndSec(a) - 1),
         NEW px, Alive(l, a, t) => px = Latest(Swaps(l, a, t)).px
  PROVE  Sampled(a, l, t) = IF Alive(l, a, t) THEN Put(Sampled(a, l, t - 1), t, px) ELSE Sampled(a, l, t - 1)
<1>1. GridStart(a) \in Nat /\ t \in Int /\ GridStart(a) <= t  BY SecondsAre
<1>2. CASE Alive(l, a, t)
  <2> DEFINE f == Put(Sampled(a, l, t - 1), t, px)
  <2>1. {v \in GridStart(a)..t : Alive(l, a, v)} = {v \in GridStart(a)..(t - 1) : Alive(l, a, v)} \cup {t}
    BY <1>1, <1>2
  <2>2. DOMAIN Sampled(a, l, t - 1) = {v \in GridStart(a)..(t - 1) : Alive(l, a, v)}  BY DEF Sampled
  <2>3. \A v \in GridStart(a)..(t - 1) : v # t  BY <1>1
  <2>4. \A u \in {v \in GridStart(a)..(t - 1) : Alive(l, a, v)} \cup {t} :
          (IF u = t THEN px ELSE Sampled(a, l, t - 1)[u]) = Latest(Swaps(l, a, u)).px
    BY <1>2 DEF Sampled
  <2>5. f = [u \in {v \in GridStart(a)..(t - 1) : Alive(l, a, v)} \cup {t} |-> Latest(Swaps(l, a, u)).px]
    BY <2>2, <2>4 DEF Put
  <2> QED  BY <1>2, <2>1, <2>5 DEF Sampled
<1>3. CASE ~ Alive(l, a, t)
  <2>1. {v \in GridStart(a)..t : Alive(l, a, v)} = {v \in GridStart(a)..(t - 1) : Alive(l, a, v)}
    BY <1>1, <1>3
  <2> QED  BY <1>3, <2>1 DEF Sampled
<1> QED  BY <1>2, <1>3

LEMMA ViewIs ==
  ASSUME NEW a \in Args, NEW l \in DOMAIN Legs, NEW t \in GridStart(a)..(EndSec(a) - 1)
  PROVE  View(Sampled(a, l, t), t) = Average(l, a, t)
<1>1. GridStart(a) \in Nat /\ t \in Int /\ GridStart(a) <= t /\ Twap \in Nat  BY SecondsAre
<1> DEFINE S == {v \in GridStart(a)..t : Alive(l, a, v)}
           W == {u \in S : u >= t - Twap /\ u <= t}
           A == {u \in Max({GridStart(a), t - Twap})..t : Alive(l, a, u)}
<1>2. W = A  BY <1>1, TwoNumbers
<1>3. DOMAIN Sampled(a, l, t) = S  BY DEF Sampled
<1>4. W \subseteq S /\ \A u \in S : Sampled(a, l, t)[u] = Latest(Swaps(l, a, u)).px  BY DEF Sampled
<1> HIDE DEF S
<1>5. Restrict(Sampled(a, l, t), W) = [u \in W |-> Latest(Swaps(l, a, u)).px]
  BY <1>4 DEF Restrict
<1>6. View(Sampled(a, l, t), t) = Mean(Restrict(Sampled(a, l, t), W))  BY <1>3 DEF View
<1>7. Average(l, a, t) = Mean([u \in A |-> Latest(Swaps(l, a, u)).px])  BY DEF Average
<1> HIDE DEF W, A
<1> QED  BY <1>2, <1>5, <1>6, <1>7

\* What one second makes of a grid whose samples are right.
Greened(a, t, green) == IF ~ Gate(Views(a, t)) THEN -1 ELSE IF green = -1 THEN t ELSE green
Due(a, t, green, mid, emit) ==
  /\ green # -1 /\ t >= FromSec(a) /\ t - green >= Warmup
  /\ Mean(Views(a, t)) # mid \/ t - emit >= Heartbeat

LEMMA SecondIs ==
  ASSUME world \in Worlds, NEW a \in Args, NEW t \in GridStart(a)..(EndSec(a) - 1),
         NEW ev, ev = [l \in DOMAIN Legs |-> Events(AllLogs(a), l)],
         NEW g, \A l \in DOMAIN Legs : g.samples[l] = Sampled(a, l, t - 1),
         NEW h, h = Second(ev, a, g, t)
  PROVE  /\ \A l \in DOMAIN Legs : h.samples[l] = Sampled(a, l, t)
         /\ h.green = Greened(a, t, g.green)
         /\ IF Due(a, t, h.green, g.mid, g.emit)
            THEN /\ h.mid = Mean(Views(a, t)) /\ h.emit = t
                 /\ h.out = Append(g.out, [sec |-> t, mid |-> Mean(Views(a, t))])
            ELSE h.mid = g.mid /\ h.emit = g.emit /\ h.out = g.out
<1>1. t \in Int /\ t < EndSec(a)  BY SecondsAre
<1> DEFINE known   == {l \in DOMAIN Legs : Last2(ev[l], t) # 0}
           live    == {l \in known : Holds(ev[l], t)}
           samples == [l \in DOMAIN Legs |-> IF l \in live
                         THEN Put(g.samples[l], t, Held(ev[l], t)) ELSE g.samples[l]]
           views   == [l \in live |-> View(samples[l], t)]
           green   == IF ~Gate(views) THEN -1 ELSE IF g.green = -1 THEN t ELSE g.green
           due     == /\ green # -1 /\ t >= FromSec(a) /\ t - green >= Warmup
                      /\ Mean(views) # g.mid \/ t - g.emit >= Heartbeat
<1>2. /\ h.samples = samples /\ h.green = green
      /\ h.mid = (IF due THEN Mean(views) ELSE g.mid)
      /\ h.emit = (IF due THEN t ELSE g.emit)
      /\ h.out = (IF due THEN Append(g.out, [sec |-> t, mid |-> Mean(views)]) ELSE g.out)
  BY DEF Second
<1>3. ASSUME NEW l \in DOMAIN Legs
      PROVE  /\ l \in live <=> Alive(l, a, t)
             /\ Alive(l, a, t) => Held(ev[l], t) = Latest(Swaps(l, a, t)).px
  <2>1. ev[l] = Events(AllLogs(a), l)  OBVIOUS
  <2>2. /\ Holds(ev[l], t) <=> Alive(l, a, t)
        /\ Alive(l, a, t) => Last2(ev[l], t) # 0 /\ Held(ev[l], t) = Latest(Swaps(l, a, t)).px
    BY <1>1, <2>1, LiveIs
  <2> QED  BY <2>2
<1> HIDE DEF known
<1>4. live = LiveAt(a, t)
  <2>1. live \subseteq DOMAIN Legs  BY DEF known
  <2> QED  BY <1>3, <2>1 DEF LiveAt
<1> HIDE DEF live
<1>5. ASSUME NEW l \in DOMAIN Legs  PROVE samples[l] = Sampled(a, l, t)
  <2>1. PICK px : px = Held(ev[l], t)  OBVIOUS
  <2>2. Sampled(a, l, t) = IF Alive(l, a, t) THEN Put(Sampled(a, l, t - 1), t, px) ELSE Sampled(a, l, t - 1)
    BY <1>3, <2>1, SampleIs
  <2>3. samples[l] = IF l \in live THEN Put(Sampled(a, l, t - 1), t, px) ELSE Sampled(a, l, t - 1)
    BY <2>1
  <2> QED  BY <1>3, <2>2, <2>3
<1> HIDE DEF samples
<1>6. views = Views(a, t)
  <2>1. \A l \in LiveAt(a, t) : View(samples[l], t) = Average(l, a, t)  BY <1>5, ViewIs DEF LiveAt
  <2>2. views = [l \in LiveAt(a, t) |-> Average(l, a, t)]  BY <1>4, <2>1
  <2> QED  BY <2>2 DEF Views, LiveAt
<1> HIDE DEF views
<1>7. green = Greened(a, t, g.green)  BY <1>6 DEF Greened
<1> HIDE DEF green
<1>8. due <=> Due(a, t, h.green, g.mid, g.emit)  BY <1>2, <1>6 DEF Due
<1> HIDE DEF due
<1> QED  BY <1>2, <1>5, <1>6, <1>7, <1>8

-----------------------------------------------------------------------------
\* What the grid emits.

\* The records a run over a range may emit up to a second, and what it owes there.
WarmRecords(a, T) == {[sec |-> u, mid |-> Mean(Views(a, u))] : u \in {v \in FromSec(a)..T : Warm(a, v)}}
Recorded(s, a, t) ==
  \E i \in DOMAIN s :
    /\ s[i].sec <= t /\ \A j \in DOMAIN s : j > i => s[j].sec > t
    /\ t - s[i].sec < Heartbeat /\ s[i].mid = Mean(Views(a, t))

GreenOk(a, T, green) ==
  /\ green # -1 =>
       /\ green \in GridStart(a)..T /\ \A u \in green..T : Gate(Views(a, u))
       /\ green = GridStart(a) \/ ~ Gate(Views(a, green - 1))
  /\ green = -1 => T < GridStart(a) \/ ~ Gate(Views(a, T))

OutOk(a, T, out, mid, emit) ==
  /\ out \in Seq(WarmRecords(a, T))
  /\ IF out = <<>> THEN mid = -1 ELSE out[Len(out)] = [sec |-> emit, mid |-> mid]
  /\ \A t \in FromSec(a)..T : Warm(a, t) => Recorded(out, a, t)

GridOk(a, T, g) ==
  /\ \A l \in DOMAIN Legs : g.samples[l] = Sampled(a, l, T)
  /\ GreenOk(a, T, g.green)
  /\ OutOk(a, T, g.out, g.mid, g.emit)

\* The gate has been green for the whole warm-up when it has been since then.
LEMMA GreenStep ==
  ASSUME NEW a \in Args, NEW t \in GridStart(a)..(EndSec(a) - 1), NEW green, GreenOk(a, t - 1, green)
  PROVE  /\ GreenOk(a, t, Greened(a, t, green))
         /\ t >= FromSec(a) =>
              (Warm(a, t) <=> Greened(a, t, green) # -1 /\ t - Greened(a, t, green) >= Warmup)
<1>1. /\ GridStart(a) \in Nat /\ FromSec(a) \in Nat /\ EndSec(a) \in Nat /\ Warmup \in Nat
      /\ GridStart(a) + Warmup <= FromSec(a) /\ t \in Int /\ GridStart(a) <= t
  BY SecondsAre
<1>2. CASE ~ Gate(Views(a, t))
  <2>1. Greened(a, t, green) = -1  BY <1>2 DEF Greened
  <2>2. ~ Warm(a, t)
    <3>1. t \in (t - Warmup)..t  BY <1>1
    <3> QED  BY <1>2, <3>1 DEF Warm
  <2> QED  BY <1>2, <2>1, <2>2 DEF GreenOk
<1>3. CASE Gate(Views(a, t))
  <2>1. PICK n : n = Greened(a, t, green)  OBVIOUS
  <2>2. n = IF green = -1 THEN t ELSE green  BY <1>3, <2>1 DEF Greened
  <2>3. /\ n \in GridStart(a)..t
        /\ \A u \in n..t : Gate(Views(a, u))
        /\ n = GridStart(a) \/ ~ Gate(Views(a, n - 1))
    <3>1. CASE green = -1
      <4>1. n = t /\ (t - 1 < GridStart(a) \/ ~ Gate(Views(a, t - 1)))  BY <2>2, <3>1 DEF GreenOk
      <4>2. \A u \in n..t : u = t  BY <1>1, <4>1
      <4> QED  BY <1>1, <1>3, <4>1, <4>2
    <3>2. CASE green # -1
      <4>1. /\ n = green /\ n \in GridStart(a)..(t - 1)
            /\ \A u \in n..(t - 1) : Gate(Views(a, u))
            /\ n = GridStart(a) \/ ~ Gate(Views(a, n - 1))
        BY <2>2, <3>2 DEF GreenOk
      <4>2. \A u \in n..t : u = t \/ u \in n..(t - 1)  BY <1>1, <4>1
      <4> QED  BY <1>1, <1>3, <4>1, <4>2
    <3> QED  BY <3>1, <3>2
  <2>4. n \in Nat /\ n # -1  BY <1>1, <2>3
  <2>5. GreenOk(a, t, n)  BY <2>3, <2>4 DEF GreenOk
  <2>6. ASSUME t >= FromSec(a)  PROVE Warm(a, t) <=> t - n >= Warmup
    <3>1. ASSUME t - n >= Warmup  PROVE Warm(a, t)
      <4>1. \A u \in (t - Warmup)..t : u \in n..t  BY <1>1, <2>4, <3>1
      <4> QED  BY <2>3, <4>1 DEF Warm
    <3>2. ASSUME Warm(a, t), ~ (t - n >= Warmup)  PROVE FALSE
      <4>1. n - 1 \in (t - Warmup)..t /\ n # GridStart(a)  BY <1>1, <2>3, <2>4, <2>6, <3>2
      <4> QED  BY <2>3, <3>2, <4>1 DEF Warm
    <3> QED  BY <3>1, <3>2
  <2> QED  BY <2>1, <2>4, <2>5, <2>6
<1> QED  BY <1>2, <1>3

LEMMA SeqWider ==
  ASSUME NEW A, NEW B, A \subseteq B, NEW s \in Seq(A)
  PROVE  s \in Seq(B)
  OBVIOUS

LEMMA AppendIs ==
  ASSUME NEW S, NEW s \in Seq(S), NEW x \in S
  PROVE  /\ Append(s, x) \in Seq(S) /\ Len(Append(s, x)) = Len(s) + 1
         /\ Append(s, x)[Len(s) + 1] = x
         /\ \A i \in 1..Len(s) : Append(s, x)[i] = s[i]
  OBVIOUS

\* The records after a second, whether it is due or not.
LEMMA OutStep ==
  ASSUME NEW a \in Args, NEW t \in GridStart(a)..(EndSec(a) - 1),
         NEW out, NEW mid, NEW emit, OutOk(a, t - 1, out, mid, emit),
         NEW green, green = -1 \/ green \in Int,
         t >= FromSec(a) => (Warm(a, t) <=> green # -1 /\ t - green >= Warmup),
         green # -1 => Gate(Views(a, t)),
         NEW out2, NEW mid2, NEW emit2,
         IF Due(a, t, green, mid, emit)
         THEN /\ mid2 = Mean(Views(a, t)) /\ emit2 = t
              /\ out2 = Append(out, [sec |-> t, mid |-> Mean(Views(a, t))])
         ELSE mid2 = mid /\ emit2 = emit /\ out2 = out
  PROVE  OutOk(a, t, out2, mid2, emit2)
<1>1. /\ FromSec(a) \in Nat /\ EndSec(a) \in Nat /\ GridStart(a) \in Nat
      /\ Heartbeat \in Nat \ {0} /\ t \in Nat
  BY SecondsAre
<1>2. PICK v : v = Mean(Views(a, t))  OBVIOUS
<1> DEFINE R == WarmRecords(a, t - 1)
           R2 == WarmRecords(a, t)
           x == [sec |-> t, mid |-> v]
<1>3. /\ out \in Seq(R)
      /\ IF out = <<>> THEN mid = -1 ELSE out[Len(out)] = [sec |-> emit, mid |-> mid]
      /\ \A u \in FromSec(a)..(t - 1) : Warm(a, u) => Recorded(out, a, u)
  BY DEF OutOk
<1>4. R \subseteq R2
  <2>1. \A u \in FromSec(a)..(t - 1) : u \in FromSec(a)..t  BY <1>1
  <2> QED  BY <2>1 DEF WarmRecords
<1>5. \A y \in R : y.sec \in FromSec(a)..(t - 1)  BY DEF WarmRecords
<1> HIDE DEF R, R2
<1>6. out \in Seq(R2) /\ Len(out) \in Nat /\ DOMAIN out = 1..Len(out)
      /\ \A i \in 1..Len(out) : out[i] \in R
  BY <1>3, <1>4, SeqWider
<1>7. CASE Due(a, t, green, mid, emit)
  <2>1. mid2 = v /\ emit2 = t /\ out2 = Append(out, x)  BY <1>2, <1>7
  <2>2. green # -1 /\ t >= FromSec(a) /\ t - green >= Warmup  BY <1>7 DEF Due
  <2>3. Warm(a, t)  BY <2>2
  <2>4. x \in R2
    <3>1. t \in FromSec(a)..t  BY <1>1, <2>2
    <3> QED  BY <1>2, <2>3, <3>1 DEF R2, WarmRecords
  <2> HIDE DEF x
  <2>5. /\ out2 \in Seq(R2) /\ Len(out2) = Len(out) + 1 /\ DOMAIN out2 = 1..(Len(out) + 1)
        /\ out2[Len(out) + 1] = x /\ \A i \in 1..Len(out) : out2[i] = out[i]
        /\ out2 # <<>>
    <3>1. /\ out2 \in Seq(R2) /\ Len(out2) = Len(out) + 1 /\ out2[Len(out) + 1] = x
          /\ \A i \in 1..Len(out) : out2[i] = out[i]
      <4>1. out \in Seq(R2) /\ out2 = Append(out, x)  BY <1>6, <2>1
      <4> QED  BY <2>4, <4>1, AppendIs
    <3>2. DOMAIN out2 = 1..(Len(out) + 1)  BY <1>6, <3>1
    <3>3. out2 # <<>>  BY <1>6, <3>1
    <3> QED  BY <3>1, <3>2, <3>3
  <2>6. out2[Len(out2)] = [sec |-> emit2, mid |-> mid2]  BY <2>1, <2>5 DEF x
  <2>7. ASSUME NEW u \in FromSec(a)..t, Warm(a, u)  PROVE Recorded(out2, a, u)
    <3>1. CASE u = t
      <4> DEFINE k == Len(out) + 1
      <4>1. k \in DOMAIN out2 /\ out2[k].sec = t /\ out2[k].mid = v /\ \A j \in DOMAIN out2 : ~ (j > k)
        BY <1>6, <2>5 DEF x
      <4>2. t <= t /\ t - t < Heartbeat  BY <1>1
      <4> HIDE DEF k
      <4> QED  BY <1>2, <3>1, <4>1, <4>2 DEF Recorded
    <3>2. CASE u # t
      <4>1. u \in FromSec(a)..(t - 1) /\ u < t  BY <1>1, <3>2
      <4>2. PICK i \in DOMAIN out :
              /\ out[i].sec <= u /\ \A j \in DOMAIN out : j > i => out[j].sec > u
              /\ u - out[i].sec < Heartbeat /\ out[i].mid = Mean(Views(a, u))
        BY <1>3, <2>7, <4>1 DEF Recorded
      <4>3. i \in 1..Len(out) /\ i \in DOMAIN out2 /\ out2[i] = out[i]  BY <1>6, <2>5
      <4>4. ASSUME NEW j \in DOMAIN out2, j > i  PROVE out2[j].sec > u
        <5>1. CASE j = Len(out) + 1
          <6>1. out2[j].sec = t  BY <2>5, <5>1 DEF x
          <6> QED  BY <1>1, <4>1, <6>1
        <5>2. CASE j # Len(out) + 1
          <6>1. j \in 1..Len(out)  BY <1>6, <2>5, <5>2
          <6> QED  BY <1>6, <2>5, <4>2, <4>4, <6>1
        <5> QED  BY <5>1, <5>2
      <4> QED  BY <4>2, <4>3, <4>4 DEF Recorded
    <3> QED  BY <3>1, <3>2
  <2> QED  BY <2>5, <2>6, <2>7 DEF OutOk, R2
<1>8. CASE ~ Due(a, t, green, mid, emit)
  <2>1. mid2 = mid /\ emit2 = emit /\ out2 = out  BY <1>8
  <2>2. ASSUME t >= FromSec(a), Warm(a, t)  PROVE Recorded(out, a, t)
    <3>1. green # -1 /\ t - green >= Warmup  BY <2>2
    <3>2. v = mid /\ ~ (t - emit >= Heartbeat)  BY <1>2, <1>8, <2>2, <3>1 DEF Due
    <3>3. v # -1
      <4>1. v \in Band /\ Band \subseteq Nat  BY <1>2, <3>1, OnchainAssumption DEF Gate
      <4> QED  BY <4>1
    <3>4. out # <<>> /\ out[Len(out)] = [sec |-> emit, mid |-> mid]  BY <1>3, <3>2, <3>3
    <3>5. PICK k : k = Len(out)  OBVIOUS
    <3>6. k \in DOMAIN out /\ \A j \in DOMAIN out : ~ (j > k)  BY <1>6, <3>4, <3>5
    <3>7. out[k].sec = emit /\ out[k].mid = v /\ out[k] \in R  BY <1>6, <3>2, <3>4, <3>5, <3>6
    <3>8. emit \in FromSec(a)..(t - 1)  BY <1>5, <3>7
    <3>9. out[k].sec <= t /\ t - out[k].sec < Heartbeat  BY <1>1, <3>2, <3>7, <3>8
    <3> QED  BY <1>2, <3>6, <3>7, <3>9 DEF Recorded
  <2>3. \A u \in FromSec(a)..t : u = t \/ u \in FromSec(a)..(t - 1)  BY <1>1
  <2>4. \A u \in FromSec(a)..t : Warm(a, u) => Recorded(out, a, u)  BY <1>1, <1>3, <2>2, <2>3
  <2> QED  BY <1>3, <1>6, <2>1, <2>4 DEF OutOk, R2
<1> QED  BY <1>7, <1>8

LEMMA GridStep ==
  ASSUME world \in Worlds, NEW a \in Args, NEW t \in GridStart(a)..(EndSec(a) - 1),
         NEW ev, ev = [l \in DOMAIN Legs |-> Events(AllLogs(a), l)],
         NEW g, GridOk(a, t - 1, g), NEW h, h = Second(ev, a, g, t)
  PROVE  GridOk(a, t, h)
<1>1. \A l \in DOMAIN Legs : g.samples[l] = Sampled(a, l, t - 1)  BY DEF GridOk
<1>2. GreenOk(a, t - 1, g.green) /\ OutOk(a, t - 1, g.out, g.mid, g.emit)  BY DEF GridOk
<1>3. /\ \A l \in DOMAIN Legs : h.samples[l] = Sampled(a, l, t)
      /\ h.green = Greened(a, t, g.green)
      /\ IF Due(a, t, h.green, g.mid, g.emit)
         THEN /\ h.mid = Mean(Views(a, t)) /\ h.emit = t
              /\ h.out = Append(g.out, [sec |-> t, mid |-> Mean(Views(a, t))])
         ELSE h.mid = g.mid /\ h.emit = g.emit /\ h.out = g.out
  BY <1>1, SecondIs
<1>4. PICK green : green = g.green  OBVIOUS
<1>5. /\ GreenOk(a, t, h.green)
      /\ t >= FromSec(a) => (Warm(a, t) <=> h.green # -1 /\ t - h.green >= Warmup)
  BY <1>2, <1>3, <1>4, GreenStep
<1>6. PICK out, mid, emit, out2, mid2, emit2, green2 :
        /\ out = g.out /\ mid = g.mid /\ emit = g.emit
        /\ out2 = h.out /\ mid2 = h.mid /\ emit2 = h.emit /\ green2 = h.green
  OBVIOUS
<1>7. (green2 = -1 \/ green2 \in Int) /\ (green2 # -1 => Gate(Views(a, t)))
  <2>1. GridStart(a) \in Nat /\ t \in Int  BY SecondsAre
  <2>2. green2 # -1 => green2 \in GridStart(a)..t /\ t \in green2..t
    BY <1>5, <1>6, <2>1 DEF GreenOk
  <2> QED  BY <1>5, <1>6, <2>1, <2>2 DEF GreenOk
<1>8. /\ OutOk(a, t - 1, out, mid, emit)
      /\ t >= FromSec(a) => (Warm(a, t) <=> green2 # -1 /\ t - green2 >= Warmup)
  BY <1>2, <1>5, <1>6
<1>9. IF Due(a, t, green2, mid, emit)
      THEN /\ mid2 = Mean(Views(a, t)) /\ emit2 = t
           /\ out2 = Append(out, [sec |-> t, mid |-> Mean(Views(a, t))])
      ELSE mid2 = mid /\ emit2 = emit /\ out2 = out
  BY <1>3, <1>6
<1>10. OutOk(a, t, out2, mid2, emit2)  BY <1>7, <1>8, <1>9, OutStep
<1> QED  BY <1>3, <1>5, <1>6, <1>10 DEF GridOk

\* g[i] is the grid after i seconds.
Played(g, ev, a, N) ==
  /\ g = [i \in 0..N |-> g[i]]
  /\ g[0] = NoGrid /\ \A i \in 1..N : g[i] = Second(ev, a, g[i - 1], GridStart(a) + i - 1)

LEMMA GridExists ==
  ASSUME NEW ev, NEW a, NEW N \in Nat
  PROVE  \E g : Played(g, ev, a, N)
<1> DEFINE T == {n \in 0..N : \E g : Played(g, ev, a, n)}
<1>1. 0 \in T
  <2>1. Played([n \in 0..0 |-> NoGrid], ev, a, 0)  BY DEF Played
  <2> QED  BY <2>1
<1>2. ASSUME NEW n \in 0..(N - 1), n \in T PROVE n + 1 \in T
  <2>1. PICK g : Played(g, ev, a, n)  BY <1>2
  <2> DEFINE b == Second(ev, a, g[n], GridStart(a) + (n + 1) - 1)
             h == [k \in 0..(n + 1) |-> IF k = n + 1 THEN b ELSE g[k]]
  <2>2. n \in Nat /\ n + 1 \in 0..N /\ n + 1 \in 0..(n + 1) /\ n + 1 # 0 /\ (n + 1) - 1 = n
        /\ \A k \in 0..n : k \in 0..(n + 1) /\ k # n + 1
    OBVIOUS
  <2> HIDE DEF b
  <2>3. h[0] = NoGrid  BY <2>1, <2>2 DEF Played
  <2>4. ASSUME NEW k \in 1..(n + 1) PROVE h[k] = Second(ev, a, h[k - 1], GridStart(a) + k - 1)
    <3>1. CASE k = n + 1
      <4>1. h[k] = b /\ h[k - 1] = g[n]  BY <3>1, <2>2
      <4> QED  BY <3>1, <4>1 DEF b
    <3>2. CASE k # n + 1
      <4>1. k \in 1..n /\ k - 1 \in 0..n /\ k \in 0..n  BY <3>2, <2>2
      <4>2. h[k] = g[k] /\ h[k - 1] = g[k - 1]  BY <2>2, <4>1
      <4>3. g[k] = Second(ev, a, g[k - 1], GridStart(a) + k - 1)  BY <4>1, <2>1 DEF Played
      <4> QED  BY <4>2, <4>3
    <3> QED  BY <3>1, <3>2
  <2>5. h = [k \in 0..(n + 1) |-> h[k]]  OBVIOUS
  <2> HIDE DEF h
  <2>6. Played(h, ev, a, n + 1)  BY <2>3, <2>4, <2>5 DEF Played
  <2> QED  BY <2>2, <2>6
<1> HIDE DEF T
<1>3. 0..N \subseteq T  BY <1>1, <1>2, Upwards
<1>4. N \in T  BY <1>3
<1> QED  BY <1>4 DEF T

LEMMA GridRuns ==
  ASSUME NEW logs, NEW a, NEW N \in Nat, N = EndSec(a) - GridStart(a),
         NEW ev, ev = [l \in DOMAIN Legs |-> Events(logs, l)]
  PROVE  \E g : Played(g, ev, a, N) /\ Grid(logs, a) = g[N]
<1> DEFINE E(g) == g = [i \in 0..N |-> IF i = 0 THEN NoGrid
                                       ELSE Second(ev, a, g[i - 1], GridStart(a) + i - 1)]
           c == CHOOSE g : E(g)
<1>1. Grid(logs, a) = c[N]  BY DEF Grid
<1>2. PICK g : Played(g, ev, a, N)  BY GridExists
<1>3. N \in Nat /\ 0 \in 0..N /\ \A n \in 0..N : n # 0 => n \in 1..N  OBVIOUS
<1>4. E(g)
  <2>1. \A n \in 0..N : g[n] = IF n = 0 THEN NoGrid ELSE Second(ev, a, g[n - 1], GridStart(a) + n - 1)
    BY <1>2, <1>3 DEF Played
  <2>2. g = [n \in 0..N |-> g[n]]  BY <1>2 DEF Played
  <2> QED  BY <2>1, <2>2
<1>5. E(c)  BY <1>4
<1> HIDE DEF c
<1>6. \A n \in 0..N : c[n] = IF n = 0 THEN NoGrid ELSE Second(ev, a, c[n - 1], GridStart(a) + n - 1)
  BY <1>5
<1>7. \A n \in 1..N : n \in 0..N /\ n # 0  BY <1>3
<1>8. c = [n \in 0..N |-> c[n]]  BY <1>5
<1>9. Played(c, ev, a, N)  BY <1>3, <1>6, <1>7, <1>8 DEF Played
<1> QED  BY <1>1, <1>9

\* What a run over a range writes when it has all its logs.
Honest(recs, a) ==
  /\ recs \in Seq(WarmRecords(a, EndSec(a) - 1))
  /\ \A t \in FromSec(a)..(EndSec(a) - 1) : Warm(a, t) => Recorded(recs, a, t)

LEMMA GridIsHonest ==
  ASSUME world \in Worlds, NEW a \in Args
  PROVE  Honest(Grid(AllLogs(a), a).out, a)
<1> DEFINE ev == [l \in DOMAIN Legs |-> Events(AllLogs(a), l)]
           N == EndSec(a) - GridStart(a)
<1>1. /\ GridStart(a) \in Nat /\ EndSec(a) \in Nat /\ FromSec(a) \in Nat /\ Warmup \in Nat
      /\ GridStart(a) + Warmup <= FromSec(a) /\ FromSec(a) < EndSec(a)
  BY SecondsAre
<1>2. N \in Nat  BY <1>1
<1>3. PICK e : e = ev  OBVIOUS
<1>4. PICK n : n = N /\ n \in Nat /\ GridStart(a) + n - 1 = EndSec(a) - 1  BY <1>1, <1>2
<1>5. PICK g : Played(g, e, a, n) /\ Grid(AllLogs(a), a) = g[n]  BY <1>3, <1>4, GridRuns
<1> DEFINE T == {i \in Nat : GridOk(a, GridStart(a) + i - 1, g[i])}
<1>6. 0 \in T
  <2>1. PICK z : z = GridStart(a) + 0 - 1  OBVIOUS
  <2>2. z \in Int /\ z < GridStart(a) /\ z < FromSec(a)  BY <1>1, <2>1
  <2>3. g[0] = NoGrid  BY <1>5 DEF Played
  <2>4. ASSUME NEW l \in DOMAIN Legs  PROVE NoGrid.samples[l] = Sampled(a, l, z)
    <3>1. {v \in GridStart(a)..z : Alive(l, a, v)} = {}  BY <1>1, <2>2
    <3>2. NoGrid.samples[l] = <<>>  BY DEF NoGrid
    <3> QED  BY <3>1, <3>2 DEF Sampled
  <2>5. GreenOk(a, z, NoGrid.green)  BY <2>2 DEF GreenOk, NoGrid
  <2>6. OutOk(a, z, NoGrid.out, NoGrid.mid, NoGrid.emit)
    <3>1. NoGrid.out = <<>> /\ NoGrid.mid = -1  BY DEF NoGrid
    <3>2. \A t \in FromSec(a)..z : FALSE  BY <1>1, <2>2
    <3> QED  BY <3>1, <3>2 DEF OutOk
  <2> QED  BY <2>1, <2>3, <2>4, <2>5, <2>6 DEF GridOk
<1>7. ASSUME NEW i \in 0..(n - 1), i \in T  PROVE i + 1 \in T
  <2>1. PICK t : t = GridStart(a) + i  OBVIOUS
  <2>2. /\ t \in GridStart(a)..(EndSec(a) - 1) /\ GridStart(a) + i - 1 = t - 1
        /\ GridStart(a) + (i + 1) - 1 = t /\ i + 1 \in 1..n /\ (i + 1) - 1 = i /\ i + 1 \in Nat
    BY <1>1, <1>4, <2>1
  <2>3. g[i + 1] = Second(e, a, g[i], t)  BY <1>5, <2>2 DEF Played
  <2>4. GridOk(a, t - 1, g[i])  BY <1>7, <2>2
  <2>5. GridOk(a, t, g[i + 1])  BY <1>3, <2>2, <2>3, <2>4, GridStep
  <2> QED  BY <2>2, <2>5
<1> HIDE DEF T
<1>8. n \in T  BY <1>4, <1>6, <1>7, Upwards
<1>9. GridOk(a, EndSec(a) - 1, g[n])  BY <1>4, <1>8 DEF T
<1> QED  BY <1>5, <1>9 DEF GridOk, OutOk, Honest

-----------------------------------------------------------------------------
\* What a run has fetched.

ComputedPcs == {"write", "locked", "staged", "commit", "prune", "done"}

\* The logs of the legs before leg i, and those of leg i up to a block.
LogsUpTo(a, i, block) ==
  {x \in world.logs : /\ x.block \in Blocks(a)
                      /\ \/ \E j \in 1..(i - 1) : x.leg = LegOrder[j]
                         \/ x.leg = LegOrder[i] /\ x.block < block}

Fetched(s) ==
  /\ s.pc = "fetch" =>
       /\ s.args \in Args /\ s.leg \in 1..Len(LegOrder)
       /\ s.cur \in FirstBlockAt(FromSec(s.args) - Lookback)..End(s.args)
       /\ s.logs = LogsUpTo(s.args, s.leg, s.cur)
  /\ s.pc = "compute" => s.args \in Args /\ s.logs = AllLogs(s.args)
  /\ s.pc \in ComputedPcs => s.args \in Args /\ Honest(s.recs, s.args)

FInv == world \in Worlds /\ \A r \in Runs : Fetched(run[r])

LEMMA LegsAre ==
  /\ Len(LegOrder) \in Nat /\ Len(LegOrder) >= 1
  /\ \A i \in 1..Len(LegOrder) : LegOrder[i] \in DOMAIN Legs
  /\ \A l \in DOMAIN Legs : \E i \in 1..Len(LegOrder) : LegOrder[i] = l
<1>1. LegOrder # <<>> /\ LegOrder \in Seq(DOMAIN Legs) /\ Range(LegOrder) = DOMAIN Legs
  BY OnchainAssumption
<1>2. Len(LegOrder) \in Nat /\ DOMAIN LegOrder = 1..Len(LegOrder) /\ Len(LegOrder) # 0  BY <1>1
<1> QED  BY <1>1, <1>2 DEF Range

\* The chain does not change, nor what is read off it.
LEMMA SameChain ==
  ASSUME UNCHANGED world
  PROVE  \A s : Fetched(s)' <=> Fetched(s)
<1>1. Height' = Height  BY DEF Height
<1>2. \A sec : FirstBlockAt(sec)' = FirstBlockAt(sec)  BY DEF FirstBlockAt, Height
<1>3. \A a : Blocks(a)' = Blocks(a) /\ End(a)' = End(a)  BY <1>2 DEF Blocks, End
<1>4. \A a : AllLogs(a)' = AllLogs(a)  BY <1>3 DEF AllLogs
<1>5. \A a, i, b : LogsUpTo(a, i, b)' = LogsUpTo(a, i, b)  BY <1>3 DEF LogsUpTo
<1>6. \A l, a, t : Swaps(l, a, t)' = Swaps(l, a, t)  BY DEF Swaps
<1>7. \A l, a, t : Alive(l, a, t)' <=> Alive(l, a, t)  BY <1>6 DEF Alive
<1>8. \A l, a, t : Average(l, a, t)' = Average(l, a, t)  BY <1>6, <1>7 DEF Average
<1>9. \A a, t : Views(a, t)' = Views(a, t)  BY <1>7, <1>8 DEF Views
<1>10. \A a, t : Warm(a, t)' <=> Warm(a, t)  BY <1>9 DEF Warm
<1>11. \A a, T : WarmRecords(a, T)' = WarmRecords(a, T)  BY <1>9, <1>10 DEF WarmRecords
<1>12. \A s, a, t : Recorded(s, a, t)' <=> Recorded(s, a, t)  BY <1>9 DEF Recorded
<1>13. \A s, a : Honest(s, a)' <=> Honest(s, a)  BY <1>10, <1>11, <1>12 DEF Honest
<1> QED  BY <1>2, <1>3, <1>4, <1>5, <1>13 DEF Fetched

LEMMA Turn ==
  ASSUME IInv, FInv, NEW r \in Runs, NEW s, Go(r, s), Fetched(s), UNCHANGED world
  PROVE  FInv'
<1>1. run'[r] = s /\ \A q \in Runs : q # r => run'[q] = run[q]  BY DEF IInv, Go
<1> QED  BY <1>1, SameChain DEF FInv

LEMMA QuitTurn ==
  ASSUME IInv, FInv, NEW r \in Runs, Quit(r), UNCHANGED world
  PROVE  FInv'
<1> DEFINE s == [New EXCEPT !.pc = "failed", !.args = run[r].args]
<1>1. Go(r, s)  BY DEF Quit, Go
<1>2. s.pc = "failed"  BY DEF New
<1> HIDE DEF s
<1>3. Fetched(s)  BY <1>2 DEF Fetched, ComputedPcs
<1> QED  BY <1>1, <1>3, Turn

\* A run past the grid keeps its range and its records.
LEMMA LaterTurn ==
  ASSUME IInv, FInv, NEW r \in Runs, run[r].pc \in ComputedPcs,
         NEW s, Go(r, s), s.pc \in ComputedPcs, s.args = run[r].args, s.recs = run[r].recs,
         UNCHANGED world
  PROVE  FInv'
<1>1. Fetched(run[r])  BY DEF FInv
<1>2. Fetched(s)  BY <1>1 DEF Fetched, ComputedPcs
<1> QED  BY <1>2, Turn

LEMMA FirstOf ==
  ASSUME world \in Worlds, NEW a \in Args
  PROVE  Min(Blocks(a) \cup {End(a)}) = FirstBlockAt(FromSec(a) - Lookback)
<1>1. PICK lo, hi : lo = FirstBlockAt(FromSec(a) - Lookback) /\ hi = End(a)  OBVIOUS
<1>2. lo \in Nat /\ hi \in Nat /\ lo <= hi  BY <1>1, BlocksAre
<1> DEFINE S == (lo..(hi - 1)) \cup {hi}
<1>3. Blocks(a) \cup {End(a)} = S  BY <1>1 DEF Blocks, End
<1>4. lo \in S /\ \A x \in S : lo <= x /\ x \in Nat  BY <1>2
<1> HIDE DEF S
<1>5. Min(S) \in S /\ \A x \in S : Min(S) =< x  BY <1>4 DEF Min
<1>6. Min(S) = lo
  <2>1. PICK m : m = Min(S)  OBVIOUS
  <2>2. m \in Nat /\ lo <= m /\ m <= lo  BY <1>4, <1>5, <2>1
  <2> QED  BY <1>2, <2>1, <2>2
<1> QED  BY <1>1, <1>3, <1>6

LEMMA BeginTurn == ASSUME IInv, FInv, NEW r \in Runs, NEW a \in Args, Begin(r, a)  PROVE FInv'
<1>1. UNCHANGED world /\ world \in Worlds  BY DEF Begin, FInv
<1>2. CASE Refused(a) \/ Truncated(a)
  <2> DEFINE s == [New EXCEPT !.pc = "failed", !.args = a]
  <2>1. Go(r, s)  BY <1>2 DEF Begin
  <2>2. s.pc = "failed"  BY DEF New
  <2> HIDE DEF s
  <2>3. Fetched(s)  BY <2>2 DEF Fetched, ComputedPcs
  <2> QED  BY <1>1, <2>1, <2>3, Turn
<1>3. CASE ~(Refused(a) \/ Truncated(a))
  <2> DEFINE c == Min(Blocks(a) \cup {End(a)})
             s == [New EXCEPT !.pc = "fetch", !.args = a, !.leg = 1, !.cur = c]
  <2>1. Go(r, s)  BY <1>3 DEF Begin
  <2>2. c = FirstBlockAt(FromSec(a) - Lookback)  BY <1>1, FirstOf
  <2> HIDE DEF c
  <2>3. s.pc = "fetch" /\ s.args = a /\ s.leg = 1 /\ s.cur = c /\ s.logs = {}  BY DEF New
  <2> HIDE DEF s
  <2>4. c \in Nat /\ End(a) \in Nat /\ c <= End(a)  BY <1>1, <2>2, BlocksAre
  <2>5. \A b \in Blocks(a) : ~ (b < c)  BY <2>2, <2>4 DEF Blocks
  <2>6. LogsUpTo(a, 1, c) = {}  BY <2>5 DEF LogsUpTo
  <2>7. Fetched(s)  BY <2>2, <2>3, <2>4, <2>6, LegsAre DEF Fetched, ComputedPcs
  <2> QED  BY <1>1, <2>1, <2>7, Turn
<1> QED  BY <1>2, <1>3

\* A page ends where the next one starts, whatever its size.
LEMMA PageTurn == ASSUME IInv, FInv, NEW r \in Runs, Page(r)  PROVE FInv'
<1>1. UNCHANGED world /\ world \in Worlds /\ run[r].pc = "fetch"  BY DEF Page, At, FInv
<1>2. Shape(run[r]) /\ Fetched(run[r])  BY DEF IInv, FInv
<1>3. PICK n \in PageSizes :
        LET next == Min({run[r].cur + n, End(run[r].args)})
            new  == {x \in world.logs :
                       x.leg = LegOrder[run[r].leg] /\ x.block >= run[r].cur /\ x.block < next}
        IN Go(r, [run[r] EXCEPT !.cur = next, !.tries = 0, !.logs = @ \cup new])
  BY DEF Page
<1>4. PICK a, i, cur : a = run[r].args /\ i = run[r].leg /\ cur = run[r].cur  OBVIOUS
<1>5. PICK lo, hi : lo = FirstBlockAt(FromSec(a) - Lookback) /\ hi = End(a)  OBVIOUS
<1>6. /\ a \in Args /\ i \in 1..Len(LegOrder) /\ cur \in lo..hi /\ cur < hi
      /\ run[r].logs = LogsUpTo(a, i, cur)
  BY <1>1, <1>2, <1>4, <1>5 DEF Fetched, Page
<1>7. lo \in Nat /\ hi \in Nat /\ n \in Nat  BY <1>1, <1>5, <1>6, BlocksAre, OnchainAssumption
<1> DEFINE next == Min({cur + n, hi})
           new  == {x \in world.logs : x.leg = LegOrder[i] /\ x.block >= cur /\ x.block < next}
           s    == [run[r] EXCEPT !.cur = next, !.tries = 0, !.logs = @ \cup new]
<1>8. Go(r, s)  BY <1>3, <1>4, <1>5
<1>9. next \in cur..hi
  <2>1. cur \in Int /\ cur + n \in Int /\ hi \in Int /\ cur <= cur + n  BY <1>6, <1>7
  <2>2. next = IF cur + n <= hi THEN cur + n ELSE hi  BY <2>1, TwoNumbers
  <2> HIDE DEF next
  <2> QED  BY <1>6, <1>7, <2>1, <2>2
<1> HIDE DEF next
<1>10. LogsUpTo(a, i, cur) \cup new = LogsUpTo(a, i, next)
  <2>1. \A x \in world.logs : x.block \in Nat  BY <1>1, WorldIs
  <2>2. Blocks(a) = lo..(hi - 1)  BY <1>5 DEF Blocks, End
  <2>3. ASSUME NEW x \in world.logs
        PROVE x \in LogsUpTo(a, i, cur) \cup new <=> x \in LogsUpTo(a, i, next)
    <3>1. x.block >= cur /\ x.block < next => x.block \in Blocks(a)  BY <1>6, <1>7, <1>9, <2>1, <2>2
    <3>2. x.block < next <=> x.block < cur \/ (x.block >= cur /\ x.block < next)
      BY <1>6, <1>7, <1>9, <2>1
    <3> QED  BY <3>1, <3>2 DEF LogsUpTo
  <2>4. LogsUpTo(a, i, cur) \cup new \subseteq world.logs /\ LogsUpTo(a, i, next) \subseteq world.logs
    BY DEF LogsUpTo
  <2> HIDE DEF new
  <2> QED  BY <2>3, <2>4
<1> HIDE DEF new
<1>11. s.pc = "fetch" /\ s.args = a /\ s.leg = i /\ s.cur = next /\ s.logs = LogsUpTo(a, i, cur) \cup new
  BY <1>1, <1>2, <1>4, <1>6 DEF Shape
<1> HIDE DEF s
<1>12. next \in lo..hi  BY <1>6, <1>7, <1>9
<1>13. Fetched(s)  BY <1>5, <1>6, <1>10, <1>11, <1>12 DEF Fetched, ComputedPcs
<1> QED  BY <1>1, <1>8, <1>13, Turn

LEMMA PageRetryTurn == ASSUME IInv, FInv, NEW r \in Runs, PageRetry(r)  PROVE FInv'
<1>1. UNCHANGED world /\ run[r].pc = "fetch"  BY DEF PageRetry, At
<1>2. CASE Quit(r)  BY <1>1, <1>2, QuitTurn
<1>3. CASE Go(r, [run[r] EXCEPT !.tries = @ + 1])
  <2> DEFINE s == [run[r] EXCEPT !.tries = @ + 1]
  <2>1. Shape(run[r]) /\ Fetched(run[r])  BY DEF IInv, FInv
  <2>2. /\ s.pc = "fetch" /\ s.args = run[r].args /\ s.leg = run[r].leg /\ s.cur = run[r].cur
        /\ s.logs = run[r].logs
    BY <1>1, <2>1 DEF Shape
  <2>3. Go(r, s)  BY <1>3
  <2> HIDE DEF s
  <2>4. Fetched(s)  BY <1>1, <2>1, <2>2 DEF Fetched, ComputedPcs
  <2> QED  BY <1>1, <2>3, <2>4, Turn
<1> QED  BY <1>2, <1>3 DEF PageRetry

\* A leg is done when its pages have come to the end: all its logs are there.
LEMMA LegDoneTurn == ASSUME IInv, FInv, NEW r \in Runs, LegDone(r)  PROVE FInv'
<1>1. UNCHANGED world /\ world \in Worlds /\ run[r].pc = "fetch"  BY DEF LegDone, At, FInv
<1>2. Shape(run[r]) /\ Fetched(run[r])  BY DEF IInv, FInv
<1>3. PICK a, i, cur : a = run[r].args /\ i = run[r].leg /\ cur = run[r].cur  OBVIOUS
<1>4. PICK lo, hi : lo = FirstBlockAt(FromSec(a) - Lookback) /\ hi = End(a)  OBVIOUS
<1>5. /\ a \in Args /\ i \in 1..Len(LegOrder) /\ cur \in lo..hi /\ cur >= hi
      /\ run[r].logs = LogsUpTo(a, i, cur)
  BY <1>1, <1>2, <1>3, <1>4 DEF Fetched, LegDone
<1>6. lo \in Nat /\ hi \in Nat /\ lo <= hi /\ Len(LegOrder) \in Nat  BY <1>1, <1>4, <1>5, BlocksAre, LegsAre
<1>7. Blocks(a) = lo..(hi - 1)  BY <1>4 DEF Blocks, End
<1>8. run[r].logs = {x \in world.logs : x.block \in Blocks(a) /\ \E j \in 1..i : x.leg = LegOrder[j]}
  <2>1. \A b \in Blocks(a) : b < cur  BY <1>5, <1>6, <1>7
  <2>2. \A x : (\E j \in 1..i : x.leg = LegOrder[j])
               <=> (\E j \in 1..(i - 1) : x.leg = LegOrder[j]) \/ x.leg = LegOrder[i]
    <3>1. \A j \in 1..i : j = i \/ j \in 1..(i - 1)  BY <1>5, <1>6
    <3>2. i \in 1..i /\ \A j \in 1..(i - 1) : j \in 1..i  BY <1>5, <1>6
    <3> QED  BY <3>1, <3>2
  <2> QED  BY <1>5, <2>1, <2>2 DEF LogsUpTo
<1> DEFINE c == Min(Blocks(run[r].args) \cup {End(run[r].args)})
           s == [run[r] EXCEPT !.leg = @ + 1, !.cur = c]
           u == [run[r] EXCEPT !.pc = "compute"]
<1>9. Quit(r) \/ (i < Len(LegOrder) /\ Go(r, s)) \/ (~ (i < Len(LegOrder)) /\ Go(r, u))
  BY <1>3 DEF LegDone
<1>10. c = lo  BY <1>1, <1>3, <1>4, <1>5, FirstOf
<1> HIDE DEF c
<1>11. CASE Quit(r)  BY <1>1, <1>11, QuitTurn
<1>12. CASE i < Len(LegOrder) /\ Go(r, s)
  <2>1. s.pc = "fetch" /\ s.args = a /\ s.leg = i + 1 /\ s.cur = lo /\ s.logs = run[r].logs
    BY <1>1, <1>2, <1>3, <1>10 DEF Shape
  <2> HIDE DEF s
  <2>2. LogsUpTo(a, i + 1, lo) = run[r].logs
    <3>1. \A b \in Blocks(a) : ~ (b < lo)  BY <1>6, <1>7
    <3>2. (i + 1) - 1 = i  BY <1>5, <1>6
    <3> QED  BY <1>8, <3>1, <3>2 DEF LogsUpTo
  <2>3. i + 1 \in 1..Len(LegOrder) /\ lo \in lo..hi  BY <1>5, <1>6, <1>12
  <2>4. Fetched(s)  BY <1>4, <1>5, <2>1, <2>2, <2>3 DEF Fetched, ComputedPcs
  <2> QED  BY <1>1, <1>12, <2>4, Turn
<1>13. CASE ~ (i < Len(LegOrder)) /\ Go(r, u)
  <2>1. u.pc = "compute" /\ u.args = a /\ u.logs = run[r].logs  BY <1>2, <1>3 DEF Shape
  <2> HIDE DEF u
  <2>2. i = Len(LegOrder)  BY <1>5, <1>6, <1>13
  <2>3. \A x : (\E j \in 1..i : x.leg = LegOrder[j]) <=> x.leg \in DOMAIN Legs  BY <2>2, LegsAre
  <2>4. run[r].logs = AllLogs(a)  BY <1>8, <2>3 DEF AllLogs
  <2>5. Fetched(u)  BY <1>5, <2>1, <2>4 DEF Fetched, ComputedPcs
  <2> QED  BY <1>1, <1>13, <2>5, Turn
<1> QED  BY <1>9, <1>11, <1>12, <1>13

LEMMA ComputeTurn == ASSUME IInv, FInv, NEW r \in Runs, Compute(r)  PROVE FInv'
<1>1. UNCHANGED world /\ world \in Worlds /\ run[r].pc = "compute"  BY DEF Compute, At, FInv
<1>2. Shape(run[r]) /\ Fetched(run[r])  BY DEF IInv, FInv
<1>3. PICK a : a = run[r].args  OBVIOUS
<1>4. a \in Args /\ run[r].logs = AllLogs(a)  BY <1>1, <1>2, <1>3 DEF Fetched
<1> DEFINE g == Grid(run[r].logs, run[r].args)
           s == [run[r] EXCEPT !.pc = "write", !.recs = g.out, !.logs = {}, !.leg = 0, !.cur = 0]
<1>5. Quit(r) \/ Go(r, s)  BY DEF Compute
<1>6. Honest(g.out, a)  BY <1>1, <1>3, <1>4, GridIsHonest
<1> HIDE DEF g
<1>7. s.pc = "write" /\ s.args = a /\ s.recs = g.out  BY <1>2, <1>3 DEF Shape
<1> HIDE DEF s
<1>8. Fetched(s)  BY <1>4, <1>6, <1>7 DEF Fetched, ComputedPcs
<1> QED  BY <1>1, <1>5, <1>8, Turn, QuitTurn

\* Behind the grid a step keeps the range and the records, or gives up.
LEMMA LaterKeeps ==
  ASSUME IInv, FInv, NEW r \in Runs,
         \/ Acquire(r) \/ Stage(r) \/ Recheck(r) \/ Commit(r) \/ CommitSidecar(r) \/ Prune(r)
         \/ Finish(r) \/ Stop(r)
  PROVE  FInv'
<1>1. Shape(run[r])  BY DEF IInv
<1>2. UNCHANGED world
  BY DEF Acquire, Stage, Recheck, Commit, CommitSidecar, Prune, Finish, Stop
<1>3. \/ Quit(r)
      \/ /\ run[r].pc \in ComputedPcs
         /\ \E p \in ComputedPcs : \E todo : Go(r, [run[r] EXCEPT !.pc = p, !.todo = todo])
  <2>1. CASE Acquire(r) \/ Stage(r) \/ Stop(r)
    <3>1. \A p : [run[r] EXCEPT !.pc = p] = [run[r] EXCEPT !.pc = p, !.todo = run[r].todo]
      BY <1>1 DEF Shape
    <3>2. Quit(r) \/ (run[r].pc \in ComputedPcs /\ \E p \in ComputedPcs : Go(r, [run[r] EXCEPT !.pc = p]))
      BY <2>1 DEF Acquire, Stage, Stop, At, ComputedPcs
    <3> QED  BY <3>1, <3>2
  <2>2. CASE Recheck(r) \/ CommitSidecar(r)
    BY <2>2 DEF Recheck, CommitSidecar, At, ComputedPcs
  <2>3. CASE Commit(r) \/ Prune(r)
    <3>1. run[r].pc \in ComputedPcs  BY <2>3 DEF Commit, Prune, At, ComputedPcs
    <3>2. PICK d : Go(r, [run[r] EXCEPT !.todo = @ \ {d}])  BY <2>3 DEF Commit, Prune
    <3>3. [run[r] EXCEPT !.todo = @ \ {d}] = [run[r] EXCEPT !.pc = run[r].pc, !.todo = run[r].todo \ {d}]
      BY <1>1 DEF Shape
    <3> QED  BY <3>1, <3>2, <3>3
  <2>4. CASE Finish(r)
    <3>1. [run[r] EXCEPT !.pc = "done"] = [run[r] EXCEPT !.pc = "done", !.todo = run[r].todo]
      BY <1>1 DEF Shape
    <3> QED  BY <2>4, <3>1 DEF Finish, At, ComputedPcs
  <2> QED  BY <2>1, <2>2, <2>3, <2>4
<1>4. CASE Quit(r)  BY <1>2, <1>4, QuitTurn
<1>5. ASSUME run[r].pc \in ComputedPcs, NEW p \in ComputedPcs, NEW todo,
             Go(r, [run[r] EXCEPT !.pc = p, !.todo = todo])
      PROVE FInv'
  <2> DEFINE s == [run[r] EXCEPT !.pc = p, !.todo = todo]
  <2>1. s.pc = p /\ s.args = run[r].args /\ s.recs = run[r].recs  BY <1>1 DEF Shape
  <2>2. Go(r, s)  BY <1>5
  <2> HIDE DEF s
  <2> QED  BY <1>2, <1>5, <2>1, <2>2, LaterTurn
<1> QED  BY <1>3, <1>4, <1>5

LEMMA FStep == ASSUME IInv, FInv, NEW r \in Runs, Step(r)  PROVE FInv'
<1>1. ASSUME NEW a \in Args, Begin(r, a)  PROVE FInv'  BY <1>1, BeginTurn
<1>2. CASE Page(r)  BY <1>2, PageTurn
<1>3. CASE PageRetry(r)  BY <1>3, PageRetryTurn
<1>4. CASE Stuck(r)  BY <1>4, QuitTurn DEF Stuck
<1>5. CASE LegDone(r)  BY <1>5, LegDoneTurn
<1>6. CASE Compute(r)  BY <1>6, ComputeTurn
<1>7. CASE \/ Acquire(r) \/ Stage(r) \/ Recheck(r) \/ Commit(r) \/ CommitSidecar(r) \/ Prune(r)
           \/ Finish(r) \/ Stop(r)
  BY <1>7, LaterKeeps
<1> QED  BY <1>1, <1>2, <1>3, <1>4, <1>5, <1>6, <1>7 DEF Step

\* A run's logs are, up to the page it has come to, all that the chain has of its
\* range, and its records are those the chain justifies
\* (onchain_backfill.rs:328-441, 735-819).
THEOREM OnchainFetches == Spec => []FInv
<1>1. Init => FInv
  <2> SUFFICES ASSUME Init PROVE FInv  OBVIOUS
  <2>1. New.pc = "idle"  BY DEF New
  <2>2. Fetched(New)  BY <2>1 DEF Fetched, ComputedPcs
  <2> QED  BY <2>2 DEF Init, FInv
<1>2. IInv /\ FInv /\ [Next]_vars => FInv'
  <2> SUFFICES ASSUME IInv, FInv, [Next]_vars PROVE FInv'  OBVIOUS
  <2>1. CASE Next  BY <2>1, FStep DEF Next
  <2>2. CASE UNCHANGED vars
    <3>1. UNCHANGED world /\ run' = run  BY <2>2 DEF vars
    <3> QED  BY <3>1, SameChain DEF FInv
  <2> QED  BY <2>1, <2>2
<1> QED  BY <1>1, <1>2, OnchainInductive, PTL DEF Spec

\* No record is of a second the pools' swaps had not kept green for the whole
\* warm-up, or shows another mid than theirs, whatever pages they came in.
THEOREM OnchainWarm == Spec => []RecordsAreWarm
<1>1. FInv => RecordsAreWarm
  <2> SUFFICES ASSUME FInv, NEW r \in Runs, Computed(r), NEW i \in DOMAIN run[r].recs
               PROVE LET x == run[r].recs[i] a == run[r].args IN
                     /\ x.sec \in FromSec(a)..(EndSec(a) - 1)
                     /\ Warm(a, x.sec) /\ x.mid = Mean(Views(a, x.sec))
    BY DEF RecordsAreWarm
  <2>1. PICK a, s : a = run[r].args /\ s = run[r].recs  OBVIOUS
  <2>2. Honest(s, a)  BY <2>1 DEF FInv, Fetched, Computed, ComputedPcs
  <2>3. s[i] \in WarmRecords(a, EndSec(a) - 1)  BY <2>1, <2>2 DEF Honest
  <2> QED  BY <2>1, <2>3 DEF WarmRecords
<1> QED  BY <1>1, OnchainFetches, PTL

\* At every warm second the latest record is less than a heartbeat old and shows
\* the mid.
THEOREM OnchainRecorded == Spec => []WarmIsRecorded
<1>1. FInv => WarmIsRecorded
  <2> SUFFICES ASSUME FInv, NEW r \in Runs, Computed(r),
                      NEW t \in FromSec(run[r].args)..(EndSec(run[r].args) - 1), Warm(run[r].args, t)
               PROVE Recorded(run[r].recs, run[r].args, t)
    BY DEF WarmIsRecorded, Recorded
  <2> QED  BY DEF FInv, Fetched, Computed, ComputedPcs, Honest
<1> QED  BY <1>1, OnchainFetches, PTL
=============================================================================
