------------------------------ MODULE HeavyGate ------------------------------
(***************************************************************************)
(* HeavySemaphore of backfill_all: the process-wide gate in front of every *)
(* subprocess that may map gigabytes. A counting semaphore made of a mutex *)
(* and a condition variable, shared by the workers of the outer ticker     *)
(* pool and of the inner per-exchange par_iter.                            *)
(*                                                                         *)
(* A critical section of the mutex is one step; cv.wait releases the mutex *)
(* and parks in the same step. What is left to go wrong is the condition   *)
(* variable: a worker that never parked may take the permit a woken one    *)
(* was woken for, a wakeup may be spurious, notify_one wakes one worker.   *)
(***************************************************************************)
EXTENDS Integers, FiniteSets

CONSTANTS
  Threads,   \* pool workers
  Cap,       \* min(available_parallelism, HEAVY_WORK_RAM_CAP), at least 1
  MaxSteps   \* bound: heavy steps one worker runs

ASSUME ThreadsAssumption == IsFiniteSet(Threads)
ASSUME CapAssumption == Cap \in Nat \ {0}
ASSUME MaxStepsAssumption == MaxSteps \in Nat

VARIABLES
  permits,  \* *sem.permits
  where,    \* [Threads -> PCs]
  left      \* [Threads -> 0..MaxSteps]: heavy steps still to run

gateVars == <<permits, where, left>>

\* "out": not in run_step; "locking": wants the mutex inside acquire, for the
\* first time or after a wakeup; "parked": in cv.wait; "child": holds a permit
\* while its subprocess runs.
PCs == {"out", "locking", "parked", "child"}

At(p) == {t \in Threads : where[t] = p}

GateInit ==
  /\ permits = Cap
  /\ where = [t \in Threads |-> "out"]
  /\ left = [t \in Threads |-> MaxSteps]

\* run_step: the call of acquire.
Enter(t) ==
  /\ where[t] = "out"
  /\ left[t] > 0
  /\ left' = [left EXCEPT ![t] = @ - 1]
  /\ where' = [where EXCEPT ![t] = "locking"]
  /\ UNCHANGED permits

\* acquire: the loop condition is false, the permit is taken, the child spawned.
Take(t) ==
  /\ where[t] = "locking"
  /\ permits # 0
  /\ permits' = permits - 1
  /\ where' = [where EXCEPT ![t] = "child"]
  /\ UNCHANGED left

\* acquire: no permit, the worker waits on the condition variable.
Park(t) ==
  /\ where[t] = "locking"
  /\ permits = 0
  /\ where' = [where EXCEPT ![t] = "parked"]
  /\ UNCHANGED <<permits, left>>

\* Mutant of Finish: nobody is notified.
FinishSilent(t) ==
  /\ where[t] = "child"
  /\ permits' = permits + 1
  /\ where' = [where EXCEPT ![t] = "out"]
  /\ UNCHANGED left

\* The child has ended, well or not: drop puts the permit back and wakes one
\* parked worker, whichever it is.
Finish(t) ==
  /\ where[t] = "child"
  /\ permits' = permits + 1
  /\ \/ /\ At("parked") = {}
        /\ where' = [where EXCEPT ![t] = "out"]
     \/ \E u \in At("parked") : where' = [where EXCEPT ![t] = "out", ![u] = "locking"]
  /\ UNCHANGED left

\* A condition variable may wake a waiter for no reason.
SpuriousWakeup(t) ==
  /\ where[t] = "parked"
  /\ where' = [where EXCEPT ![t] = "locking"]
  /\ UNCHANGED <<permits, left>>

\* Every worker has run its steps: the pool returns.
Finished ==
  /\ \A t \in Threads : where[t] = "out" /\ left[t] = 0
  /\ UNCHANGED gateVars

GateNext ==
  \/ \E t \in Threads :
       Enter(t) \/ Take(t) \/ Park(t) \/ Finish(t) \/ SpuriousWakeup(t)
  \/ Finished

\* The operating system schedules every worker that can run, and every
\* subprocess ends (a hung child is outside the code's reach). Nothing forces
\* a spurious wakeup.
GateFairness ==
  \A t \in Threads : WF_gateVars(Enter(t) \/ Take(t) \/ Park(t) \/ Finish(t))

GateSpec == GateInit /\ [][GateNext]_gateVars

GateFairSpec == GateSpec /\ GateFairness
-----------------------------------------------------------------------------
(* Properties. *)

GateTypeOK ==
  /\ permits \in 0..Cap
  /\ where \in [Threads -> PCs]
  /\ left \in [Threads -> 0..MaxSteps]

\* Permits are neither lost nor made: with the permit a guard drops on every
\* path out of run_step, the number of heavy subprocesses in flight and the
\* free permits always add up to the cap, so the cap is never exceeded
\* (backfill_all.rs:239-244, the OOM bound).
PermitsConserved == permits + Cardinality(At("child")) = Cap

\* No wakeup is lost: while somebody is parked, every free permit has a
\* worker on its way to the mutex. notify_one is enough, although a worker
\* that never parked may win the race for the permit.
NoLostWakeup == At("parked") # {} => permits <= Cardinality(At("locking"))

\* Every heavy step that is asked for runs in the end.
EveryStepRuns == \A t \in Threads : where[t] = "locking" ~> where[t] = "child"
=============================================================================
