-------------------------------- MODULE Fit ---------------------------------
(***************************************************************************)
(* The fit of one ticker: bar_construction/calibrate.rs finds the brick    *)
(* multiplier k whose median of bricks per day meets a target, and         *)
(* nxr-calibrate turns a ticker's files into the days it fits on.          *)
(*                                                                         *)
(* A day of ticks is how far the price travels and its volatility, both    *)
(* integers; the bricks of a day are the travel over the size of a brick   *)
(* (the generator is nxr_sdk's).  k counts rungs of the snap grid: what    *)
(* the code does in steps of log k is done in rungs, so the bracket's      *)
(* width ends at one rung and the probe moves by one.  The drift gate only *)
(* writes a log line and is left out.                                      *)
(***************************************************************************)
EXTENDS Integers, Sequences, FiniteSets, SequencesExt

CONSTANTS
  Target, Tol,        \* target_bpd; accept_tol, in percent
  KFloor, KMax,       \* K_FLOOR = mult_bounds[0]; K_MAX_SAFETY
  KSeed, KCold,       \* mult_bounds[1]; the start without a prior k
  MinPct,             \* the smallest brick
  Iters               \* bracket_max_iters

\* The widest a bracket can be once it was halved n times.
Width[n \in 0..Iters] == IF n = 0 THEN KMax - KFloor ELSE (Width[n - 1] + 1) \div 2

\* The iterations suffice, as the code's do from K_FLOOR to K_MAX_SAFETY.
ASSUME FitAssumption ==
  /\ {Target, KFloor, KMax, KSeed, KCold, MinPct} \subseteq Nat \ {0}
  /\ {Tol, Iters} \subseteq Nat
  /\ KFloor < KMax
  /\ Width[Iters] <= 1

Least(a, b) == IF a < b THEN a ELSE b
Most(a, b) == IF a < b THEN b ELSE a
Clamp(k) == Least(Most(k, KFloor), KMax)
Diff(a, b) == IF a < b THEN b - a ELSE a - b

-----------------------------------------------------------------------------
\* Counting.  Medians are doubled to stay whole; a dead window has median zero.

Brick(sigma, k) == Most(k * sigma, MinPct)
Bricks(days, k) == [i \in DOMAIN days |-> days[i].travel \div Brick(days[i].sigma, k)]

\* Days without a brick are gaps and do not count.
CleanDays(counts) == {i \in DOMAIN counts : counts[i] > 0}
MinClean(n) == Least(Most(3, n \div 2), n)
UpTo(counts, I, b) == Cardinality({i \in I : counts[i] <= b})
Nth(counts, I, n) == Min({counts[i] : i \in {j \in I : UpTo(counts, I, counts[j]) >= n}})
Median2(counts, I) ==
  Nth(counts, I, (Cardinality(I) + 1) \div 2) + Nth(counts, I, Cardinality(I) \div 2 + 1)

BpdOf(counts) ==
  LET clean == CleanDays(counts)
  IN IF clean = {} \/ Cardinality(clean) < MinClean(Len(counts)) THEN 0 ELSE Median2(counts, clean)

\* For every k.
Counter(days) == [k \in KFloor..KMax |-> BpdOf(Bricks(days, k))]
Bpd(days, k) == Counter(days)[k]

Dead(days, k) == Bpd(days, k) = 0
Error(days, k) == Diff(Bpd(days, k), 2 * Target)
Close(days, k) == ~Dead(days, k) /\ Error(days, k) * 100 <= Tol * 2 * Target
Over(days, k) == Bpd(days, k) > 2 * Target

\* A k on which the window is dead is infinitely far off.
Beats(days, a, b) == ~Dead(days, a) /\ (Dead(days, b) \/ Error(days, a) < Error(days, b))
Nearer(days, a, b) == IF Beats(days, b, a) THEN b ELSE a

-----------------------------------------------------------------------------
\* The search: 0 is no fit.

Scaled(days, k) == Clamp((k * Bpd(days, k)) \div (2 * Target))

\* The scale steps that are tried: the second only if the first one misses on a
\* live window, so that only the last one may hit.
Warm(days, k0) ==
  LET k1 == Scaled(days, k0) IN
  IF Dead(days, k0) THEN <<>>
  ELSE IF Close(days, k1) \/ Dead(days, k1) THEN <<k1>>
  ELSE <<k1, Scaled(days, k1)>>

\* The upper side doubles until it undershoots.
Wider(days) ==
  [h \in KFloor..KMax |-> IF Bpd(days, h) >= 2 * Target /\ h < KMax THEN Least(2 * h, KMax) ELSE h]
Upper(days, seed) ==
  LET widen[n \in 0..KMax] == IF n = 0 THEN seed ELSE Wider(days)[widen[n - 1]]
  IN widen[KMax]

\* The half of a bracket that keeps the crossing.
Narrow(days) ==
  [b \in (KFloor..KMax) \X (KFloor..KMax) |->
     LET mid == (b[1] + b[2]) \div 2
     IN IF b[2] - b[1] <= 1 THEN b ELSE IF Over(days, mid) THEN <<mid, b[2]>> ELSE <<b[1], mid>>]
Bisect(days, hi) ==
  LET half[n \in 0..Iters] == IF n = 0 THEN <<KFloor, hi>> ELSE Narrow(days)[half[n - 1]]
      last == half[Iters]
  IN Nearer(days, last[1], last[2])

Bracket(days, warm) ==
  LET seed == Least(KMax, Most(Max({KSeed} \cup Range(warm)), 2 * KFloor))
      hi   == Upper(days, seed)
  IN IF ~Over(days, KFloor) \/ Bpd(days, hi) >= 2 * Target THEN 0 ELSE Bisect(days, hi)

\* One rung up or down, whichever is strictly better.
Probe(days, k) ==
  LET up == Least(k + 1, KMax)
      dn == Most(k - 1, KFloor)
  IN IF Beats(days, up, k) /\ ~Beats(days, dn, up) THEN up
     ELSE IF Beats(days, dn, k) THEN dn ELSE k

\* More than half of the window on the smallest brick: k would say nothing.
Clamped(days, k) ==
  2 * Cardinality({i \in DOMAIN days : k * days[i].sigma <= MinPct}) > Len(days)

\* Mutant: the last scale step is taken for the answer.
SolveByScaling(days, prior) ==
  LET warm == Warm(days, Clamp(IF prior = 0 THEN KCold ELSE prior))
      k    == IF warm # <<>> THEN Last(warm) ELSE Bracket(days, warm)
      star == IF k = 0 THEN 0 ELSE Probe(days, k)
  IN IF days = <<>> \/ star = 0 THEN 0
     ELSE IF Dead(days, star) \/ star = KFloor \/ Clamped(days, star) THEN 0 ELSE star

\* scale_to_target_k; prior is 0 when there is none.
Solve(days, prior) ==
  LET warm == Warm(days, Clamp(IF prior = 0 THEN KCold ELSE prior))
      hit  == warm # <<>> /\ Close(days, Last(warm))
      k    == IF hit THEN Last(warm) ELSE Bracket(days, warm)
      star == IF k = 0 THEN 0 ELSE Probe(days, k)
  IN IF days = <<>> \/ star = 0 THEN 0
     ELSE IF Dead(days, star) \/ star = KFloor \/ Clamped(days, star) THEN 0 ELSE star

-----------------------------------------------------------------------------
\* A ticker's files: [idx: "none" | "bad" | "ok", s10: is there a shard, days].
\* A day without a usable tick travels nowhere; the window ends with the last tick.

Quiet(d) == d.travel = 0
Priced(days) == {i \in DOMAIN days : ~Quiet(days[i])}
Silent(days) == Priced(days) = {}
Span(days) == IF Silent(days) THEN <<>> ELSE SubSeq(days, Min(Priced(days)), Max(Priced(days)))
TrailingWindow(days, n) == LET s == Span(days) IN SubSeq(s, Most(1, Len(s) - n + 1), Len(s))

Ok(k) == [out |-> "ok", k |-> k]
Skip   == [out |-> "skip", k |-> 0]
Failed == [out |-> "fail", k |-> 0]
Fitted(days, n, prior) ==
  LET k == Solve(TrailingWindow(days, n), prior) IN IF k > 0 THEN Ok(k) ELSE Skip

CalibrateOne(f, n, prior) ==
  IF f.idx = "bad" THEN Failed
  ELSE IF f.idx = "none" \/ Silent(f.days) \/ ~f.s10 THEN Skip
  ELSE Fitted(f.days, n, prior)

\* A cross is replayed from the ticks of its legs: there is one where both have
\* a live price.
Merged(a, b) ==
  [i \in 1..Least(Len(a), Len(b)) |->
     IF Quiet(a[i]) \/ Quiet(b[i]) THEN [travel |-> 0, sigma |-> 0]
     ELSE [travel |-> a[i].travel + b[i].travel, sigma |-> Most(a[i].sigma, b[i].sigma)]]

CalibrateOneSynth(f, a, b, n, prior) ==
  IF ~f.s10 THEN Skip
  ELSE IF {"none", "bad"} \cap {a.idx, b.idx} # {} THEN Failed
  ELSE IF \E days \in {a.days, b.days, Merged(a.days, b.days)} : Silent(days) THEN Skip
  ELSE Fitted(Merged(a.days, b.days), n, prior)

=============================================================================
