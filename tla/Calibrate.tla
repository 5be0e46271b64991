----------------------------- MODULE Calibrate ------------------------------
(***************************************************************************)
(* nxr-calibrate: one night's run after the other fits a k per ticker and  *)
(* publishes the set in ticker-params.json, a file it shares with          *)
(* nxr-weights.  A run may be killed anywhere, or fail to write, and the   *)
(* next one takes up what it staged.                                       *)
(*                                                                         *)
(* A ticker's files on a day are given (see Fit for their shape); a read   *)
(* may fail or a fit panic.  A k remembers the day and the window it was   *)
(* fitted with, and the ids it was fitted on.  Left out of the file:       *)
(* timestamps, reasons, and with them the write of the pre-filtered        *)
(* crosses, which changes nothing else.  A --canary run has a file of its  *)
(* own.  Runs do not overlap: the job's schedule sees to that.             *)
(***************************************************************************)
EXTENDS Fit, FiniteSetsExt, Functions

CONSTANTS
  Roster,      \* ids that are no crosses and have .idx
  Configured,  \* those of them the configuration declares
  SynthWork,   \* the crosses in the order of their pass: sequence
  Legs,        \* cross -> its two legs
  UsdcLegs,    \* xxx/USDC -> xxx/USDT, USDC/USDT
  Forced,      \* id -> the k the configuration forces
  Files,       \* [id -> [day -> its files]]
  Volumes,     \* what nxr-weights may list: sets of ids
  Windows,     \* rolling_window_days the configuration may come to have
  MaxResume,   \* MAX_RESUME_DAYS
  LastNight, MaxFaults, MaxWeights,   \* bounds
  None

Crosses   == Range(SynthWork)
TickerIds == Roster \cup Crosses
Days      == 0..LastNight

ASSUME CalibrateAssumption ==
  /\ IsFiniteSet(Roster) /\ Roster \cap Crosses = {} /\ Configured \subseteq Roster
  /\ DOMAIN Legs = Crosses /\ Range(Legs) \cup Range(UsdcLegs) \subseteq Roster \X Roster
  /\ Volumes \subseteq SUBSET TickerIds /\ Windows \subseteq Nat \ {0}
  /\ DOMAIN Forced \subseteq TickerIds /\ Range(Forced) \subseteq KFloor..KMax /\ DOMAIN UsdcLegs \subseteq Roster
  /\ \A i \in TickerIds, d \in Days : Files[i][d].days \in Seq([travel : Nat, sigma : Nat])
  /\ {MaxResume, LastNight, MaxFaults, MaxWeights} \subseteq Nat
  /\ None \notin [day : Nat, win : Nat]

VARIABLES
  day, win,  \* today; the configured window
  file,      \* ticker-params.json
  phase,     \* what the run is at
  upd,       \* the write under way, which holds the lock: [job, copy]
  queue,     \* outcomes not yet written
  mem,       \* what else the run remembers
  faults     \* kills, failed reads and failed writes so far

calVars == <<day, win, file, phase, upd, queue, mem, faults>>

-----------------------------------------------------------------------------
\* The file.

NoRun == [run |-> None, total |-> 0, attempted |-> 0, succeeded |-> 0, done |-> FALSE]
NoFile == [live |-> <<>>, staged |-> <<>>, run |-> None, last |-> NoRun,
            fails |-> [i \in TickerIds |-> 0], listed |-> {}, gen |-> 0]

Put(f, i, k) == [j \in DOMAIN f \cup {i} |-> IF j = i THEN k ELSE f[j]]

\* The coverage of the base pass.
Counted(last, s) ==
  [last EXCEPT !.attempted = IF s.counted THEN @ + 1 ELSE @,
               !.succeeded = IF s.counted /\ s.out = "ok" THEN @ + 1 ELSE @]

\* Staged::apply
Applied(f, s) ==
  [f EXCEPT !.staged = IF s.out = "ok" THEN Put(@, s.id, s.k) ELSE @,
            !.last = Counted(@, s),
            !.fails[s.id] = CASE s.out = "ok" -> 0 [] s.out = "skip" -> @ [] OTHER -> @ + 1]

\* The queue is applied in its order.
Drained(f, q) ==
  LET g[n \in 0..Len(q)] == IF n = 0 THEN f ELSE Applied(g[n - 1], q[n])
  IN g[Len(q)]

\* Mutant: however long ago.
RunIdAnyAge(f, d, w) == IF f.run # None /\ f.run.win = w THEN f.run ELSE [day |-> d, win |-> w]

\* A run keeps the id of the staged set if the window is the same and it began
\* not too long ago.
RunId(f, d, w) ==
  IF f.run # None /\ f.run.win = w /\ d - f.run.day \in 0..MaxResume
  THEN f.run ELSE [day |-> d, win |-> w]

Resumed(f, m) == Restrict(f.staged, DOMAIN f.staged \cap (m.roster \cup Crosses))

\* Mutant: the crosses are counted too.
CountedAll(ks, m) == Cardinality(DOMAIN ks)

CountedOf(ks, m) == Cardinality(DOMAIN ks \cap m.roster)

\* What each write does to the file after the queue is drained.
Arm(f, m) ==
  LET same == f.run = m.run
      ks   == IF same THEN Resumed(f, m) ELSE <<>>
  IN [f EXCEPT !.staged = IF same THEN @ ELSE <<>>, !.run = m.run,
               !.last = [run |-> m.run, total |-> Cardinality(m.roster), done |-> FALSE,
                         attempted |-> CountedOf(ks, m), succeeded |-> CountedOf(ks, m)]]

Promote(f, m) == [f EXCEPT !.live = m.ks]

\* Mutant: the set is not retired.
FinishKeepsRun(f, m) == [f EXCEPT !.live = m.ks, !.staged = <<>>, !.last.done = TRUE]

Finish(f, m) == [f EXCEPT !.live = m.ks, !.staged = <<>>, !.run = None, !.last.done = TRUE]

\* Mutant: the file is written as it was read when the run began.
WrittenAsSeen(f, job) ==
  LET g == CASE job = "arm"     -> Arm(f, mem)
             [] job = "promote" -> Promote(f, mem)
             [] job = "final"   -> Finish(f, mem)
             [] OTHER           -> f
  IN [g EXCEPT !.listed = mem.seen.listed, !.gen = mem.seen.gen]

Written(f, job) ==
  CASE job = "arm"     -> Arm(f, mem)
    [] job = "promote" -> Promote(f, mem)
    [] job = "final"   -> Finish(f, mem)
    [] OTHER           -> f

-----------------------------------------------------------------------------

NoMem == [run |-> None, day |-> 0, win |-> 0, roster |-> {},
          seen |-> [live |-> <<>>, listed |-> {}, gen |-> 0], ks |-> <<>>, work |-> {}, todo |-> {}]

CalInit ==
  /\ day = 0 /\ win \in Windows
  /\ \E v \in Volumes : file = [NoFile EXCEPT !.listed = v]
  /\ phase = "idle" /\ upd = None /\ queue = <<>> /\ mem = NoMem
  /\ faults = 0

\* The startup read: the roster and the prior ks come from it, nothing else.
StartRun ==
  /\ phase = "idle"
  /\ phase' = "arm"
  /\ mem' = [NoMem EXCEPT !.run = RunId(file, day, win), !.day = day, !.win = win,
                          !.roster = (file.listed \cup Configured) \ Crosses,
                          !.seen = [live |-> file.live, listed |-> file.listed, gen |-> file.gen]]
  /\ UNCHANGED <<day, win, file, upd, queue, faults>>

-----------------------------------------------------------------------------
\* Writing: the lock is taken and the file read again, then the queue and the
\* change are applied to what was read, and the result renamed into place.

Lock ==
  /\ phase \in {"arm", "promote", "final", "drop"} /\ upd = None
  /\ upd' = [job |-> phase, copy |-> file]
  /\ UNCHANGED <<day, win, file, phase, queue, mem, faults>>

\* Where the run is after a write.
After(job) ==
  CASE job = "arm"     -> "base"
    [] job = "promote" -> "crosses"
    [] job = "flush"   -> phase
    [] OTHER           -> "idle"

\* The crosses without .s10 are left out before the pass, those with a forced k are not.
Runnable == {c \in Crosses : c \in DOMAIN Forced \/ Files[c][day].s10}

Commit ==
  /\ upd # None
  /\ file' = Written(Drained(upd.copy, queue), upd.job)
  /\ queue' = <<>> /\ upd' = None /\ phase' = After(upd.job)
  /\ mem' = CASE upd.job = "arm" ->
                   LET ks   == IF upd.copy.run = mem.run THEN Resumed(upd.copy, mem) ELSE <<>>
                       work == mem.roster \ DOMAIN ks
                   IN [mem EXCEPT !.ks = ks, !.work = work, !.todo = work]
              [] upd.job = "promote" -> [mem EXCEPT !.todo = Runnable \ DOMAIN mem.ks]
              [] upd.job = "flush"   -> mem
              [] OTHER               -> NoMem
  /\ UNCHANGED <<day, win, faults>>

\* Lock, read, parse or write failed.  The queue is kept; a flush is only warned
\* about, anything else ends the run, which drains its queue on the way out if
\* there is one.
CommitFails ==
  /\ upd # None /\ faults < MaxFaults
  /\ faults' = faults + 1 /\ upd' = None
  /\ phase' = IF upd.job = "flush" THEN phase
              ELSE IF upd.job = "drop" \/ queue = <<>> THEN "idle" ELSE "drop"
  /\ queue' = IF upd.job = "drop" THEN <<>> ELSE queue
  /\ mem' = IF phase' = "idle" THEN NoMem ELSE mem
  /\ UNCHANGED <<day, win, file>>

-----------------------------------------------------------------------------
\* Fitting.

\* On its own ticks, and on its legs: what comes out for every prior k (0: none).
Alone ==
  [i \in Roster |-> [d \in Days |-> [w \in Windows |-> [p \in 0..KMax |-> CalibrateOne(Files[i][d], w, p)]]]]
LegsOf(i) == IF i \in Crosses THEN Legs[i] ELSE UsdcLegs[i]
OnLegs ==
  [i \in Crosses \cup DOMAIN UsdcLegs |-> [d \in Days |-> [w \in Windows |-> [p \in 0..KMax |->
     CalibrateOneSynth(Files[i][d], Files[LegsOf(i)[1]][d], Files[LegsOf(i)[2]][d], w, p)]]]]

Prior(i) == IF i \in DOMAIN mem.seen.live THEN mem.seen.live[i].k ELSE 0

OfPass(i) ==
  IF i \in DOMAIN Forced /\ phase # "usdc" THEN Ok(Forced[i])
  ELSE LET on == IF phase = "base" THEN Alone ELSE OnLegs
       IN on[i][day][mem.win][Prior(i)]
Basis(i) ==
  CASE phase = "usdc" -> UsdcLegs[i]
    [] phase # "usdc" /\ i \in DOMAIN Forced -> <<>>
    [] phase = "crosses" /\ i \notin DOMAIN Forced -> Legs[i]
    [] phase = "base" /\ i \notin DOMAIN Forced -> <<i>>

\* stage_outcome, and the write if the last one is long enough ago.
Stage(i, o, flush) ==
  LET k == [day |-> day, win |-> mem.win, k |-> o.k, basis |-> Basis(i)] IN
  /\ flush => upd = None
  /\ queue' = Append(queue, [id |-> i, out |-> o.out, k |-> k, counted |-> phase = "base"])
  /\ upd' = IF flush THEN [job |-> "flush", copy |-> file] ELSE upd
  /\ mem' = [mem EXCEPT !.todo = @ \ {i},
                        !.ks = IF o.out = "ok" THEN Put(@, i, k) ELSE @]

\* The base pass has workers beside the one that writes; the other passes wait
\* for the write, and the crosses have their order.
Turn(i) ==
  /\ phase \in {"base", "crosses", "usdc"} /\ i \in mem.todo
  /\ phase = "base" \/ upd = None
  /\ phase = "crosses" => i = SynthWork[SelectInSeq(SynthWork, LAMBDA j : j \in mem.todo)]

FitOne(i, flush) ==
  /\ Turn(i)
  /\ Stage(i, OfPass(i), flush)
  /\ UNCHANGED <<day, win, file, phase, faults>>

\* A shard that cannot be read, or a panic.
FitFails(i, flush) ==
  /\ Turn(i) /\ (phase = "usdc" \/ i \notin DOMAIN Forced)
  /\ faults < MaxFaults /\ faults' = faults + 1
  /\ Stage(i, Failed, flush)
  /\ UNCHANGED <<day, win, file, phase>>

\* The xxx/USDC pairs that have no k of their own while their USDT leg has one.
Inferred == {i \in mem.work \cap DOMAIN UsdcLegs :
               i \notin DOMAIN mem.ks /\ UsdcLegs[i][1] \in DOMAIN mem.ks}

PassEnds ==
  /\ phase \in {"base", "crosses", "usdc"} /\ mem.todo = {} /\ upd = None
  /\ phase' = CASE phase = "base" -> "promote" [] phase = "crosses" -> "usdc" [] phase = "usdc" -> "final"
  /\ mem' = IF phase = "crosses" THEN [mem EXCEPT !.todo = Inferred] ELSE mem
  /\ UNCHANGED <<day, win, file, upd, queue, faults>>

-----------------------------------------------------------------------------
\* The rest of the world.

\* The deadline, or the kernel: no destructor runs, the lock goes with the process.
KillRun ==
  /\ phase # "idle" /\ faults < MaxFaults
  /\ faults' = faults + 1
  /\ phase' = "idle" /\ upd' = None /\ queue' = <<>> /\ mem' = NoMem
  /\ UNCHANGED <<day, win, file>>

\* nxr-weights writes its own fields, under the same lock.
Weights ==
  /\ upd = None /\ file.gen < MaxWeights
  /\ \E v \in Volumes : file' = [file EXCEPT !.listed = v, !.gen = @ + 1]
  /\ UNCHANGED <<day, win, phase, upd, queue, mem, faults>>

\* The configuration is read at the start of a run only.  The deadline of a night's
\* job is an hour and a half: the day turns between runs.
Tomorrow ==
  /\ phase = "idle" /\ day < LastNight
  /\ day' = day + 1 /\ win' \in Windows
  /\ UNCHANGED <<file, phase, upd, queue, mem, faults>>

CalNext ==
  \/ StartRun \/ Lock \/ Commit \/ CommitFails \/ PassEnds \/ KillRun \/ Weights \/ Tomorrow
  \/ \E i \in mem.todo, flush \in BOOLEAN : FitOne(i, flush) \/ FitFails(i, flush)

\* The job is started again until a run ends well, and its steps are taken.
Steps == StartRun \/ Lock \/ Commit \/ PassEnds \/ \E i \in mem.todo : FitOne(i, FALSE)
CalSpec == CalInit /\ [][CalNext]_calVars /\ WF_calVars(Steps)

-----------------------------------------------------------------------------
\* Properties.

\* What is published is exactly what this run has fitted, the nights before it was
\* killed included, of the ids it still knows: nothing staged is lost, nothing of
\* another run, of another window or older than a set may get is carried along
\* (nxr_calibrate.rs:1258-1263, 1501-1517 and the promotion at 1590).
PromotedIsThisRun ==
  [][file'.live # file.live =>
       LET staged == Drained(upd.copy, queue).staged IN
       /\ file'.live = Restrict(staged, DOMAIN staged \cap (mem.roster \cup Crosses))
       /\ \A i \in DOMAIN file'.live :
            /\ file'.live[i].win = mem.win
            /\ file'.live[i].day >= mem.run.day
            /\ mem.day - file'.live[i].day <= MaxResume]_calVars

\* What nxr-weights wrote is never reverted (ParamsStore, nxr_calibrate.rs:116-131).
WeightsKept ==
  [][file'.gen >= file.gen /\ (file'.listed # file.listed => file'.gen > file.gen)]_calVars

\* The coverage the alerts read: over the nights of a run no ticker counts twice,
\* and a completed run has attempted every one (nxr_calibrate.rs:1160-1166, 1354).
CoverageHonest ==
  /\ file.last.succeeded <= file.last.attempted
  /\ file.last.attempted <= file.last.total
  /\ file.last.done => file.last.attempted = file.last.total

\* Where a larger k never means more bricks, a published k is within tolerance or
\* no k is nearer the target (scale_to_target_k, calibrate.rs:289-318).
Steady(days) == \A k \in KFloor..(KMax - 1) : Bpd(days, k + 1) <= Bpd(days, k)
Best(days, k) == Close(days, k) \/ \A j \in KFloor..KMax : ~Beats(days, j, k)
Bases == {<<i>> : i \in Roster} \cup Range(Legs) \cup Range(UsdcLegs)
FittedOn(b, d, w) ==
  LET of(j) == Files[b[j]][d].days
  IN TrailingWindow(IF Len(b) = 1 THEN of(1) ELSE Merged(of(1), of(2)), w)
Worse ==
  UNION {LET days == FittedOn(x[1], x[2], x[3])
         IN {<<x[1], x[2], x[3], k>> : k \in {j \in KFloor..KMax : Steady(days) /\ ~Best(days, j)}} :
         x \in Bases \X Days \X Windows}
PublishedIsBest == \A k \in Range(file.live) : <<k.basis, k.day, k.win, k.k>> \notin Worse

\* A run that has begun ends with its set retired, however often it was killed
\* before, once it is no longer killed (nxr_calibrate.rs:1258-1263).
RunCompletes == (file.run # None) ~> (file.run = None)

=============================================================================
