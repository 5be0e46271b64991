--------------------------- MODULE MigrateProofs ---------------------------
(***************************************************************************)
(* The jobs that take up what a killed run left.                           *)
(*                                                                         *)
(* Calibrate: a run publishes what it has fitted and nothing else, counts  *)
(* every ticker once, and reverts nothing of nxr-weights', for any roster, *)
(* fits, windows, number of nights, kills and failed writes.               *)
(* What it publishes is the best there is on a steady window: halving the  *)
(* bracket ends at neighbouring rungs with the crossing between them, and  *)
(* the probe only moves to what is nearer.                                 *)
(*                                                                         *)
(* Migrate: neither migration destroys or duplicates a shard, a run that   *)
(* does not fail leaves behind, of what was closed when it began, only the *)
(* tickers it skips and what live added to a tree journaled done, and      *)
(* quote-basis never joins two series, for any tickers, trees, shards,     *)
(* order and number of runs, and wherever they are killed.                 *)
(***************************************************************************)
EXTENDS Calibrate, Migrate, FiniteSetTheorems, SequenceTheorems, WellFoundedInduction, TLAPS

\* What is true at 0, and at a number when it is true before, is true up to N.
Lt == {ss \in Nat \X Nat : ss[1] < ss[2]}

LEMMA Upwards ==
  ASSUME NEW N \in Nat, NEW T, 0 \in T, \A n \in 0..(N - 1) : n \in T => n + 1 \in T
  PROVE  0..N \subseteq T
<1> DEFINE U == (0..N) \ T
<1> SUFFICES ASSUME U # {} PROVE FALSE
  OBVIOUS
<1>1. IsWellFoundedOn(Lt, Nat)  BY NatLessThanWellFounded DEF OpToRel, Lt
<1>2. U \subseteq Nat  OBVIOUS
<1>3. PICK n \in U : \A m \in U : ~ (<<m, n>> \in Lt)  BY <1>1, <1>2, WFMin
<1>4. n \in Nat /\ n # 0 /\ n <= N  OBVIOUS
<1>5. n - 1 \in 0..(N - 1) /\ n - 1 \in Nat /\ (n - 1) + 1 = n  BY <1>4
<1>6. n - 1 \notin T  BY <1>5
<1>7. n - 1 \in U /\ <<n - 1, n>> \in Lt  BY <1>4, <1>5, <1>6 DEF Lt
<1>8. QED  BY <1>3, <1>7

LEMMA LeastNat ==
  ASSUME NEW T, T \subseteq Nat, T # {}
  PROVE  \E n \in T : \A m \in T : n <= m
<1>1. IsWellFoundedOn(Lt, Nat)  BY NatLessThanWellFounded DEF OpToRel, Lt
<1>2. PICK n \in T : \A m \in T : ~ (<<m, n>> \in Lt)  BY <1>1, WFMin
<1>3. \A m \in T : n <= m
  <2> TAKE m \in T
  <2>1. m \in Nat /\ n \in Nat  OBVIOUS
  <2>2. m < n => <<m, n>> \in Lt  BY <2>1 DEF Lt
  <2> QED  BY <1>2, <2>1, <2>2
<1> QED  BY <1>3

LEMMA MaxBounded ==
  ASSUME NEW S, S \subseteq Int, S # {}, NEW b \in Int, \A s \in S : s <= b
  PROVE  Max(S) \in S /\ \A s \in S : s <= Max(S)
<1> DEFINE T == {b - s : s \in S}
<1>1. T \subseteq Nat /\ T # {}
  <2>1. \A s \in S : b - s \in Nat  OBVIOUS
  <2> QED  BY <2>1
<1>2. PICK n \in T : \A m \in T : n <= m  BY <1>1, LeastNat
<1>3. PICK s \in S : n = b - s  BY <1>2
<1>4. \A r \in S : r <= s
  <2> TAKE r \in S
  <2>1. b - s <= b - r  BY <1>2, <1>3
  <2> QED  BY <2>1
<1>5. \E x \in S : \A y \in S : x >= y  BY <1>4
<1> QED  BY <1>5 DEF Max

LEMMA MinBounded ==
  ASSUME NEW S, S \subseteq Nat, S # {}
  PROVE  Min(S) \in S /\ \A s \in S : Min(S) <= s
<1>1. \E x \in S : \A y \in S : x =< y  BY LeastNat
<1> QED  BY <1>1 DEF Min

\* A fold whose steps stay in S: the function it recurs on is there.
Folded(g, N, S, b, F) ==
  /\ g = [i \in 0..N |-> IF i = 0 THEN b ELSE F[i][g[i - 1]]]
  /\ \A i \in 0..N : g[i] \in S

LEMMA FoldIs ==
  ASSUME NEW N \in Nat, NEW S, NEW b \in S, NEW F, \A i \in 1..N : \A s \in S : F[i][s] \in S
  PROVE  \E g : Folded(g, N, S, b, F)
<1> DEFINE T == {n \in 0..N : \E g : Folded(g, n, S, b, F)}
<1>1. 0 \in T
  <2>1. Folded([i \in 0..0 |-> b], 0, S, b, F)  BY DEF Folded
  <2> QED  BY <2>1
<1>2. ASSUME NEW n \in 0..(N - 1), n \in T PROVE n + 1 \in T
  <2>1. PICK g : Folded(g, n, S, b, F)  BY <1>2
  <2> DEFINE h == [k \in 0..(n + 1) |-> IF k = n + 1 THEN F[n + 1][g[n]] ELSE g[k]]
  <2>2. n \in Nat /\ n + 1 \in 0..N /\ n + 1 \in 1..N /\ (n + 1) - 1 = n /\ n \in 0..n  OBVIOUS
  <2>3. ASSUME NEW k \in 0..(n + 1)
        PROVE  h[k] = (IF k = 0 THEN b ELSE F[k][h[k - 1]]) /\ h[k] \in S
    <3>1. CASE k = n + 1
      <4>1. h[k] = F[n + 1][g[n]]  BY <3>1
      <4>2. k # 0 /\ k - 1 = n /\ n \in 0..(n + 1) /\ n # n + 1  BY <3>1, <2>2
      <4>3. h[k - 1] = g[n]  BY <4>2
      <4>4. g[n] \in S  BY <2>1, <2>2 DEF Folded
      <4> QED  BY <3>1, <4>1, <4>2, <4>3, <4>4, <2>2
    <3>2. CASE k # n + 1
      <4>1. k \in 0..n /\ (k # 0 => k - 1 \in 0..n /\ k - 1 \in 0..(n + 1) /\ k - 1 # n + 1)  BY <3>2, <2>2
      <4>2. h[k] = g[k] /\ (k # 0 => h[k - 1] = g[k - 1])  BY <3>2, <4>1
      <4>3. g[k] = (IF k = 0 THEN b ELSE F[k][g[k - 1]]) /\ g[k] \in S  BY <2>1, <4>1 DEF Folded
      <4> QED  BY <4>2, <4>3
    <3> QED  BY <3>1, <3>2
  <2>4. h = [k \in 0..(n + 1) |-> h[k]]  OBVIOUS
  <2> HIDE DEF h
  <2>5. Folded(h, n + 1, S, b, F)  BY <2>3, <2>4 DEF Folded
  <2> QED  BY <2>2, <2>5
<1> HIDE DEF T
<1>3. 0..N \subseteq T  BY <1>1, <1>2, Upwards
<1>4. N \in T  BY <1>3
<1> QED  BY <1>4 DEF T

IsQueue(q) == \E S : q \in Seq(S)

LEMMA QueueAppend ==
  ASSUME NEW q, IsQueue(q), NEW s
  PROVE  /\ IsQueue(Append(q, s)) /\ Len(q) \in Nat /\ Len(Append(q, s)) = Len(q) + 1
         /\ \A n \in 1..Len(q) : Append(q, s)[n] = q[n]
         /\ Append(q, s)[Len(q) + 1] = s
<1>1. PICK S : q \in Seq(S)  BY DEF IsQueue
<1> DEFINE R == S \cup {s}
<1>2. q \in Seq(R) /\ s \in R
  <2>1. Len(q) \in Nat /\ q = [n \in 1..Len(q) |-> q[n]] /\ \A n \in 1..Len(q) : q[n] \in S  BY <1>1
  <2>2. QED  BY <2>1, <1>1
<1> HIDE DEF R
<1>3. Append(q, s) \in Seq(R)  BY <1>2
<1>4. QED  BY <1>2, <1>3 DEF IsQueue

\* g[n] is the file with the first n outcomes applied.
Drains(g, f, q, N) ==
  /\ g = [n \in 0..N |-> g[n]]
  /\ g[0] = f /\ \A n \in 1..N : g[n] = Applied(g[n - 1], q[n])

LEMMA DrainsTo ==
  ASSUME NEW f, NEW q, NEW N \in Nat
  PROVE  \E g : Drains(g, f, q, N)
<1> DEFINE T == {n \in 0..N : \E g : Drains(g, f, q, n)}
<1>1. 0 \in T
  <2>1. Drains([n \in 0..0 |-> f], f, q, 0)  BY DEF Drains
  <2>2. QED  BY <2>1
<1>2. ASSUME NEW n \in 0..(N - 1), n \in T PROVE n + 1 \in T
  <2>1. PICK g : Drains(g, f, q, n)  BY <1>2
  <2> DEFINE b == Applied(g[n], q[n + 1])
             h == [k \in 0..(n + 1) |-> IF k = n + 1 THEN b ELSE g[k]]
  <2>2. n \in Nat /\ n + 1 \in 0..N /\ n + 1 \in 0..(n + 1) /\ n + 1 # 0 /\ (n + 1) - 1 = n
        /\ \A k \in 0..n : k \in 0..(n + 1) /\ k # n + 1
    OBVIOUS
  <2>3. h[0] = f  BY <2>1, <2>2 DEF Drains
  <2>4. ASSUME NEW k \in 1..(n + 1) PROVE h[k] = Applied(h[k - 1], q[k])
    <3>1. CASE k = n + 1
      <4>1. h[k] = b /\ h[k - 1] = g[n]  BY <3>1, <2>2
      <4>2. QED  BY <3>1, <4>1
    <3>2. CASE k # n + 1
      <4>1. k \in 1..n /\ k - 1 \in 0..n /\ k \in 0..n  BY <3>2, <2>2
      <4>2. h[k] = g[k] /\ h[k - 1] = g[k - 1]  BY <2>2, <4>1
      <4>3. g[k] = Applied(g[k - 1], q[k])  BY <4>1, <2>1 DEF Drains
      <4>4. QED  BY <4>2, <4>3
    <3>3. QED  BY <3>1, <3>2
  <2>5. h = [k \in 0..(n + 1) |-> h[k]]  OBVIOUS
  <2> HIDE DEF h
  <2>6. Drains(h, f, q, n + 1)  BY <2>3, <2>4, <2>5 DEF Drains
  <2>7. QED  BY <2>2, <2>6
<1> HIDE DEF T
<1>3. 0..N \subseteq T  BY <1>1, <1>2, Upwards
<1>4. N \in T  BY <1>3
<1>5. QED  BY <1>4 DEF T

LEMMA DrainSteps ==
  ASSUME NEW f, NEW q, Len(q) \in Nat
  PROVE  \E g : Drains(g, f, q, Len(q)) /\ Drained(f, q) = g[Len(q)]
<1>1. PICK N : N = Len(q)  OBVIOUS
<1> DEFINE E(g) == g = [n \in 0..N |-> IF n = 0 THEN f ELSE Applied(g[n - 1], q[n])]
           c == CHOOSE g : E(g)
<1>2. Drained(f, q) = c[N]  BY <1>1 DEF Drained
<1>3. PICK g : Drains(g, f, q, N)  BY <1>1, DrainsTo
<1>4. N \in Nat /\ 0 \in 0..N /\ \A n \in 0..N : n # 0 => n \in 1..N  BY <1>1
<1>5. E(g)
  <2>1. \A n \in 0..N : g[n] = IF n = 0 THEN f ELSE Applied(g[n - 1], q[n])
    BY <1>3, <1>4 DEF Drains
  <2>2. g = [n \in 0..N |-> g[n]]  BY <1>3 DEF Drains
  <2>3. QED  BY <2>1, <2>2
<1>6. E(c)  BY <1>5
<1> HIDE DEF c
<1>7. \A n \in 0..N : c[n] = IF n = 0 THEN f ELSE Applied(c[n - 1], q[n])  BY <1>6
<1>8. \A n \in 1..N : n \in 0..N /\ n # 0  BY <1>4
<1>9. c = [n \in 0..N |-> c[n]]  BY <1>6
<1>10. Drains(c, f, q, N)  BY <1>4, <1>7, <1>8, <1>9 DEF Drains
<1>11. QED  BY <1>1, <1>2, <1>10

LEMMA DrainEmpty ==
  ASSUME NEW f
  PROVE  Drained(f, <<>>) = f
<1>1. Len(<<>>) = 0  OBVIOUS
<1>2. PICK g : Drains(g, f, <<>>, 0) /\ Drained(f, <<>>) = g[0]  BY <1>1, DrainSteps
<1>3. QED  BY <1>2 DEF Drains

LEMMA DrainAppend ==
  ASSUME NEW f, NEW q, IsQueue(q), NEW s
  PROVE  Drained(f, Append(q, s)) = Applied(Drained(f, q), s)
<1> DEFINE u == Append(q, s)
<1>1. PICK N : N = Len(q)  OBVIOUS
<1>2. N \in Nat /\ Len(u) = N + 1 /\ (\A n \in 1..N : u[n] = q[n]) /\ u[N + 1] = s
  BY <1>1, QueueAppend
<1> HIDE DEF u
<1>3. PICK g : Drains(g, f, q, N) /\ Drained(f, q) = g[N]  BY <1>1, <1>2, DrainSteps
<1>4. N + 1 \in Nat  BY <1>2
<1>5. PICK h : Drains(h, f, u, N + 1) /\ Drained(f, u) = h[N + 1]  BY <1>2, <1>4, DrainSteps
<1> DEFINE T == {n \in 0..N : h[n] = g[n]}
<1>6. 0 \in T  BY <1>2, <1>3, <1>5 DEF Drains
<1>7. ASSUME NEW n \in 0..(N - 1), n \in T PROVE n + 1 \in T
  <2>1. n + 1 \in 1..N /\ n + 1 \in 1..(N + 1) /\ (n + 1) - 1 = n /\ n + 1 \in 0..N  BY <1>2
  <2>2. g[n + 1] = Applied(g[n], q[n + 1])  BY <2>1, <1>3 DEF Drains
  <2>3. h[n + 1] = Applied(h[n], u[n + 1])  BY <2>1, <1>5 DEF Drains
  <2>4. QED  BY <2>1, <2>2, <2>3, <1>2, <1>7
<1> HIDE DEF T
<1>8. 0..N \subseteq T  BY <1>2, <1>6, <1>7, Upwards
<1>9. h[N] = g[N]  BY <1>2, <1>8 DEF T
<1>10. h[N + 1] = Applied(h[N], u[N + 1])
  <2>1. N + 1 \in 1..(N + 1) /\ (N + 1) - 1 = N  BY <1>2
  <2>2. QED  BY <2>1, <1>5 DEF Drains
<1>11. QED  BY <1>2, <1>3, <1>5, <1>9, <1>10 DEF u

-----------------------------------------------------------------------------
\* The fields of the file.
FileShape(f) ==
  /\ f = [live |-> f.live, staged |-> f.staged, run |-> f.run, last |-> f.last,
          fails |-> f.fails, listed |-> f.listed, gen |-> f.gen]
  /\ f.last = [run |-> f.last.run, total |-> f.last.total, attempted |-> f.last.attempted,
               succeeded |-> f.last.succeeded, done |-> f.last.done]
  /\ f.staged = [i \in DOMAIN f.staged |-> f.staged[i]]
  /\ f.last.total \in Nat /\ f.last.attempted \in Nat /\ f.last.succeeded \in Nat
  /\ f.last.done \in BOOLEAN /\ f.gen \in Nat /\ f.listed \subseteq TickerIds

Honest(last) ==
  /\ last.succeeded <= last.attempted
  /\ last.attempted <= last.total
  /\ last.done => last.attempted = last.total

\* What is staged was fitted by the run it is staged for.
OfRun(f) ==
  /\ f.run # None => f.run \in [day : Nat, win : Windows] /\ f.run.day <= day
  /\ \A i \in DOMAIN f.staged :
       /\ f.run # None
       /\ f.staged[i].win = f.run.win
       /\ f.staged[i].day \in f.run.day..day

\* A run that has armed the file, and not yet retired its set.
Working == phase \in {"base", "promote", "crosses", "usdc", "final", "drop"}

\* A run knows its night and its id; the id is not too old.
Run ==
  /\ mem.day = day /\ mem.win \in Windows
  /\ mem.run \in [day : Nat, win : Windows] /\ mem.run.win = mem.win
  /\ mem.run.day \in (day - MaxResume)..day
  /\ mem.roster \subseteq Roster

\* What the queue will have made of the file.
Due == Drained(file, queue)

\* The tickers of the base pass it has not tried.
Untried == IF phase = "base" THEN mem.todo ELSE {}

\* Together the file and the queue say what the run has done.
Progress ==
  /\ file.run = mem.run /\ ~file.last.done
  /\ file.last.total = Cardinality(mem.roster)
  /\ Due.last.attempted + Cardinality(Untried) = Cardinality(mem.roster)
  /\ Untried \subseteq mem.roster /\ mem.work \subseteq mem.roster
  /\ mem.todo \subseteq mem.roster \cup Crosses
  /\ mem.ks = Resumed(Due, mem)

\* What waits was fitted tonight.
Queued ==
  \A n \in 1..Len(queue) : queue[n].k.win = mem.win /\ queue[n].k.day = day

\* The fields of what the run remembers.
MemShape ==
  mem = [run |-> mem.run, day |-> mem.day, win |-> mem.win, roster |-> mem.roster,
         seen |-> mem.seen, ks |-> mem.ks, work |-> mem.work, todo |-> mem.todo]

\* A write holds the lock on the file as it is.
Writing ==
  /\ upd.copy = file
  /\ \/ upd.job = phase /\ phase \in {"arm", "promote", "final", "drop"}
     \/ upd.job = "flush" /\ phase \in {"base", "crosses", "usdc"}

\* The file holds what one run after the other has made of it.
Stored ==
  /\ day \in Nat /\ win \in Windows
  /\ FileShape(file) /\ Honest(file.last) /\ OfRun(file)

CalIInv ==
  /\ Stored /\ MemShape /\ IsQueue(queue)
  /\ phase # "idle" => Run
  /\ Working => Progress /\ Queued
  /\ ~Working => queue = <<>> /\ phase \in {"idle", "arm"}
  /\ upd # None => Writing
-----------------------------------------------------------------------------
LEMMA PutIs ==
  \A f, i, k :
    /\ DOMAIN Put(f, i, k) = DOMAIN f \cup {i}
    /\ Put(f, i, k)[i] = k
    /\ \A j \in DOMAIN f : j # i => Put(f, i, k)[j] = f[j]
  BY DEF Put

\* What one outcome changes.
LEMMA CountsOf ==
  ASSUME NEW r, NEW t, NEW a, NEW u, NEW d, NEW s
  PROVE  Counted([run |-> r, total |-> t, attempted |-> a, succeeded |-> u, done |-> d], s) =
         [run |-> r, total |-> t, attempted |-> IF s.counted THEN a + 1 ELSE a,
          succeeded |-> IF s.counted /\ s.out = "ok" THEN u + 1 ELSE u, done |-> d]
<1> DEFINE l == [run |-> r, total |-> t, attempted |-> a, succeeded |-> u, done |-> d]
           b == IF s.counted THEN a + 1 ELSE a
           w == IF s.counted /\ s.out = "ok" THEN u + 1 ELSE u
<1>1. l.attempted = a /\ l.succeeded = u  OBVIOUS
<1>2. Counted(l, s) = [l EXCEPT !.attempted = b, !.succeeded = w]  BY <1>1 DEF Counted
<1> HIDE DEF b, w
<1>3. Counted(l, s) = [run |-> r, total |-> t, attempted |-> b, succeeded |-> w, done |-> d]  BY <1>2
<1>4. QED  BY <1>3 DEF b, w

LEMMA CountsShape ==
  ASSUME NEW f, FileShape(f), NEW s, NEW l, l = Counted(f.last, s)
  PROVE  /\ l = [run |-> l.run, total |-> l.total, attempted |-> l.attempted,
                 succeeded |-> l.succeeded, done |-> l.done]
         /\ l.run = f.last.run /\ l.total = f.last.total /\ l.done = f.last.done
         /\ l.attempted = IF s.counted THEN f.last.attempted + 1 ELSE f.last.attempted
         /\ l.succeeded = IF s.counted /\ s.out = "ok" THEN f.last.succeeded + 1 ELSE f.last.succeeded
         /\ l.total \in Nat /\ l.done \in BOOLEAN /\ l.attempted \in Nat /\ l.succeeded \in Nat
<1>1. PICK r, t, a, u, d : /\ r = f.last.run /\ t = f.last.total /\ a = f.last.attempted
                           /\ u = f.last.succeeded /\ d = f.last.done
  OBVIOUS
<1>2. f.last = [run |-> r, total |-> t, attempted |-> a, succeeded |-> u, done |-> d]
  BY <1>1 DEF FileShape
<1>3. l = [run |-> r, total |-> t, attempted |-> IF s.counted THEN a + 1 ELSE a,
           succeeded |-> IF s.counted /\ s.out = "ok" THEN u + 1 ELSE u, done |-> d]
  BY <1>2, CountsOf
<1>4. /\ l.run = r /\ l.total = t /\ l.done = d
      /\ l.attempted = IF s.counted THEN a + 1 ELSE a
      /\ l.succeeded = IF s.counted /\ s.out = "ok" THEN u + 1 ELSE u
  BY <1>3
<1>5. l = [run |-> l.run, total |-> l.total, attempted |-> l.attempted,
           succeeded |-> l.succeeded, done |-> l.done]
  BY <1>3, <1>4
<1>6. t \in Nat /\ a \in Nat /\ u \in Nat /\ d \in BOOLEAN  BY <1>1 DEF FileShape
<1>7. QED  BY <1>1, <1>4, <1>5, <1>6

LEMMA AppliedOf ==
  ASSUME NEW v, NEW g, NEW r, NEW l, NEW x, NEW h, NEW e, NEW s,
         NEW f, f = [live |-> v, staged |-> g, run |-> r, last |-> l, fails |-> x, listed |-> h, gen |-> e]
  PROVE  \E y : Applied(f, s) =
           [live |-> v, staged |-> IF s.out = "ok" THEN Put(g, s.id, s.k) ELSE g, run |-> r,
            last |-> Counted(l, s), fails |-> y, listed |-> h, gen |-> e]
<1> DEFINE y == [x EXCEPT ![s.id] = CASE s.out = "ok" -> 0 [] s.out = "skip" -> @ [] OTHER -> @ + 1]
           p == IF s.out = "ok" THEN Put(g, s.id, s.k) ELSE g
           c == Counted(l, s)
<1>1. f.staged = g /\ f.last = l /\ f.fails = x  OBVIOUS
<1>2. Applied(f, s) = [f EXCEPT !.staged = p, !.last = c, !.fails = y]  BY <1>1 DEF Applied
<1> HIDE DEF p, y, c
<1>3. Applied(f, s) = [live |-> v, staged |-> p, run |-> r, last |-> c, fails |-> y, listed |-> h, gen |-> e]
  BY <1>2
<1>4. QED  BY <1>3 DEF p, c

LEMMA AppliedIs ==
  ASSUME NEW f, FileShape(f), NEW s
  PROVE  /\ FileShape(Applied(f, s))
         /\ Applied(f, s).live = f.live /\ Applied(f, s).run = f.run
         /\ Applied(f, s).listed = f.listed /\ Applied(f, s).gen = f.gen
         /\ Applied(f, s).staged = IF s.out = "ok" THEN Put(f.staged, s.id, s.k) ELSE f.staged
         /\ Applied(f, s).last = Counted(f.last, s)
<1>0. PICK a : a = Applied(f, s)  OBVIOUS
<1> DEFINE staged == IF s.out = "ok" THEN Put(f.staged, s.id, s.k) ELSE f.staged
<1>1. PICK y : a = [live |-> f.live, staged |-> staged, run |-> f.run, last |-> Counted(f.last, s),
                    fails |-> y, listed |-> f.listed, gen |-> f.gen]
  BY <1>0, AppliedOf DEF FileShape
<1>2. staged = [i \in DOMAIN staged |-> staged[i]]
  <2>1. CASE s.out = "ok"
    <3>1. staged = Put(f.staged, s.id, s.k)  BY <2>1
    <3> HIDE DEF staged
    <3>2. QED  BY <3>1 DEF Put
  <2>2. CASE s.out # "ok"
    <3>1. staged = f.staged  BY <2>2
    <3>2. QED  BY <3>1 DEF FileShape
  <2>3. QED  BY <2>1, <2>2
<1>3. f.gen \in Nat /\ f.listed \subseteq TickerIds  BY DEF FileShape
<1> HIDE DEF staged
<1>4. /\ a.live = f.live /\ a.run = f.run /\ a.listed = f.listed /\ a.gen = f.gen
      /\ a.staged = staged /\ a.last = Counted(f.last, s) /\ a.fails = y
  BY <1>1
<1>5. /\ a = [live |-> a.live, staged |-> a.staged, run |-> a.run, last |-> a.last,
              fails |-> a.fails, listed |-> a.listed, gen |-> a.gen]
      /\ a.staged = [i \in DOMAIN a.staged |-> a.staged[i]]
  BY <1>1, <1>2, <1>4
<1>6. /\ a.last = [run |-> a.last.run, total |-> a.last.total, attempted |-> a.last.attempted,
                   succeeded |-> a.last.succeeded, done |-> a.last.done]
      /\ a.last.total \in Nat /\ a.last.attempted \in Nat /\ a.last.succeeded \in Nat /\ a.last.done \in BOOLEAN
  <2>1. PICK l : l = a.last  OBVIOUS
  <2>2. l = Counted(f.last, s)  BY <1>4, <2>1
  <2>3. /\ l = [run |-> l.run, total |-> l.total, attempted |-> l.attempted,
                succeeded |-> l.succeeded, done |-> l.done]
        /\ l.total \in Nat /\ l.done \in BOOLEAN /\ l.attempted \in Nat /\ l.succeeded \in Nat
    BY <2>2, CountsShape
  <2>4. QED  BY <2>1, <2>3
<1>7. FileShape(a)  BY <1>3, <1>4, <1>5, <1>6 DEF FileShape
<1>8. QED  BY <1>0, <1>4, <1>7 DEF staged

\* What draining a queue keeps, and what it can only raise.
LEMMA DrainIs ==
  ASSUME NEW f, FileShape(f), NEW q, IsQueue(q), NEW dd, dd = Drained(f, q)
  PROVE  /\ FileShape(dd)
         /\ dd.live = f.live /\ dd.run = f.run /\ dd.listed = f.listed /\ dd.gen = f.gen
         /\ dd.last.total = f.last.total /\ dd.last.done = f.last.done
         /\ f.last.attempted <= dd.last.attempted
         /\ f.last.succeeded <= f.last.attempted => dd.last.succeeded <= dd.last.attempted
<1>1. PICK N : N = Len(q)  OBVIOUS
<1>2. N \in Nat  BY <1>1, QueueAppend
<1>3. PICK g : Drains(g, f, q, N) /\ Drained(f, q) = g[N]  BY <1>1, <1>2, DrainSteps
<1> DEFINE P(d) ==
             /\ FileShape(d)
             /\ d.live = f.live /\ d.run = f.run /\ d.listed = f.listed /\ d.gen = f.gen
             /\ d.last.total = f.last.total /\ d.last.done = f.last.done
             /\ f.last.attempted <= d.last.attempted
             /\ f.last.succeeded <= f.last.attempted => d.last.succeeded <= d.last.attempted
           T == {n \in 0..N : P(g[n])}
<1>4. P(f)  BY DEF FileShape
<1>5. ASSUME NEW d, P(d), NEW s PROVE P(Applied(d, s))
  <2>1. PICK a : a = Applied(d, s)  OBVIOUS
  <2>2. FileShape(d)  BY <1>5
  <2>3. /\ FileShape(a) /\ a.live = d.live /\ a.run = d.run /\ a.listed = d.listed /\ a.gen = d.gen
        /\ a.last = Counted(d.last, s)
    BY <2>1, <2>2, AppliedIs
  <2>4. /\ a.last.total = d.last.total /\ a.last.done = d.last.done
        /\ a.last.attempted = IF s.counted THEN d.last.attempted + 1 ELSE d.last.attempted
        /\ a.last.succeeded = IF s.counted /\ s.out = "ok" THEN d.last.succeeded + 1 ELSE d.last.succeeded
    <3>1. PICK l : l = a.last  OBVIOUS
    <3>2. l = Counted(d.last, s)  BY <2>3, <3>1
    <3>3. /\ l.total = d.last.total /\ l.done = d.last.done
          /\ l.attempted = IF s.counted THEN d.last.attempted + 1 ELSE d.last.attempted
          /\ l.succeeded = IF s.counted /\ s.out = "ok" THEN d.last.succeeded + 1 ELSE d.last.succeeded
      BY <2>2, <3>2, CountsShape
    <3>4. QED  BY <3>1, <3>3
  <2>5. d.last.attempted \in Nat /\ d.last.succeeded \in Nat /\ f.last.attempted \in Nat
    BY <2>2 DEF FileShape
  <2>6. /\ d.last.attempted <= a.last.attempted
        /\ d.last.succeeded <= d.last.attempted => a.last.succeeded <= a.last.attempted
        /\ a.last.attempted \in Nat
    BY <2>4, <2>5
  <2>7. f.last.attempted <= a.last.attempted  BY <1>5, <2>5, <2>6
  <2>8. P(a)  BY <1>5, <2>3, <2>4, <2>6, <2>7
  <2> HIDE DEF P
  <2>9. QED  BY <2>1, <2>8
<1> HIDE DEF P
<1>6. 0 \in T  BY <1>2, <1>3, <1>4 DEF Drains
<1>7. ASSUME NEW n \in 0..(N - 1), n \in T PROVE n + 1 \in T
  <2>1. n + 1 \in 1..N /\ n + 1 \in 0..N /\ (n + 1) - 1 = n  BY <1>2
  <2>2. g[n + 1] = Applied(g[n], q[n + 1])  BY <2>1, <1>3 DEF Drains
  <2>3. QED  BY <2>1, <2>2, <1>5, <1>7
<1> HIDE DEF T
<1>8. 0..N \subseteq T  BY <1>2, <1>6, <1>7, Upwards
<1>9. P(g[N])  BY <1>2, <1>8 DEF T
<1>10. QED  BY <1>3, <1>9 DEF P

\* What draining makes of the fields it changes depends on those alone.
LEMMA DrainSame ==
  ASSUME NEW f, FileShape(f), NEW h, FileShape(h), f.staged = h.staged, f.last = h.last,
         NEW q, IsQueue(q)
  PROVE  Drained(f, q).staged = Drained(h, q).staged /\ Drained(f, q).last = Drained(h, q).last
<1>1. PICK N : N = Len(q)  OBVIOUS
<1>2. N \in Nat  BY <1>1, QueueAppend
<1>3. PICK g : Drains(g, f, q, N) /\ Drained(f, q) = g[N]  BY <1>1, <1>2, DrainSteps
<1>4. PICK e : Drains(e, h, q, N) /\ Drained(h, q) = e[N]  BY <1>1, <1>2, DrainSteps
<1> DEFINE P(a, b) == FileShape(a) /\ FileShape(b) /\ a.staged = b.staged /\ a.last = b.last
           T == {n \in 0..N : P(g[n], e[n])}
<1>5. ASSUME NEW a, NEW b, P(a, b), NEW s PROVE P(Applied(a, s), Applied(b, s))
  <2>1. PICK x, y : x = Applied(a, s) /\ y = Applied(b, s)  OBVIOUS
  <2>2. FileShape(a) /\ FileShape(b) /\ a.staged = b.staged /\ a.last = b.last  BY <1>5
  <2>3. /\ FileShape(x) /\ x.last = Counted(a.last, s)
        /\ x.staged = IF s.out = "ok" THEN Put(a.staged, s.id, s.k) ELSE a.staged
    BY <2>1, <2>2, AppliedIs
  <2>4. /\ FileShape(y) /\ y.last = Counted(b.last, s)
        /\ y.staged = IF s.out = "ok" THEN Put(b.staged, s.id, s.k) ELSE b.staged
    BY <2>1, <2>2, AppliedIs
  <2>5. P(x, y)  BY <2>2, <2>3, <2>4
  <2> HIDE DEF P
  <2>6. QED  BY <2>1, <2>5
<1>6. P(f, h)  OBVIOUS
<1> HIDE DEF P
<1>7. 0 \in T  BY <1>2, <1>3, <1>4, <1>6 DEF Drains
<1>8. ASSUME NEW n \in 0..(N - 1), n \in T PROVE n + 1 \in T
  <2>1. n + 1 \in 1..N /\ n + 1 \in 0..N /\ (n + 1) - 1 = n  BY <1>2
  <2>2. g[n + 1] = Applied(g[n], q[n + 1])  BY <2>1, <1>3 DEF Drains
  <2>3. e[n + 1] = Applied(e[n], q[n + 1])  BY <2>1, <1>4 DEF Drains
  <2>4. QED  BY <2>1, <2>2, <2>3, <1>5, <1>8
<1> HIDE DEF T
<1>9. 0..N \subseteq T  BY <1>2, <1>7, <1>8, Upwards
<1>10. P(g[N], e[N])  BY <1>2, <1>9 DEF T
<1>11. QED  BY <1>3, <1>4, <1>10 DEF P

\* Every k staged by then was staged before or waits in the queue.
LEMMA DrainStaged ==
  ASSUME NEW f, FileShape(f), NEW q, IsQueue(q)
  PROVE  \A i \in DOMAIN Drained(f, q).staged :
           \/ i \in DOMAIN f.staged /\ Drained(f, q).staged[i] = f.staged[i]
           \/ \E n \in 1..Len(q) : q[n].out = "ok" /\ Drained(f, q).staged[i] = q[n].k
<1>1. PICK N : N = Len(q)  OBVIOUS
<1>2. N \in Nat  BY <1>1, QueueAppend
<1>3. PICK g : Drains(g, f, q, N) /\ Drained(f, q) = g[N]  BY <1>1, <1>2, DrainSteps
<1> DEFINE From(k, i) == (i \in DOMAIN f.staged /\ k = f.staged[i]) \/ \E n \in 1..N : q[n].out = "ok" /\ k = q[n].k
           P(d) == FileShape(d) /\ \A i \in DOMAIN d.staged : From(d.staged[i], i)
           T == {n \in 0..N : P(g[n])}
<1>4. P(f)  OBVIOUS
<1>5. ASSUME NEW d, P(d), NEW n \in 1..N PROVE P(Applied(d, q[n]))
  <2>1. PICK s, a : s = q[n] /\ a = Applied(d, s)  OBVIOUS
  <2>2. FileShape(d) /\ \A i \in DOMAIN d.staged : From(d.staged[i], i)  BY <1>5
  <2>3. FileShape(a) /\ a.staged = IF s.out = "ok" THEN Put(d.staged, s.id, s.k) ELSE d.staged
    <3>1. FileShape(d) /\ a = Applied(d, s)  BY <2>1, <2>2
    <3> HIDE DEF From
    <3>2. QED  BY <3>1, AppliedIs
  <2>4. s.out = "ok" => From(s.k, s.id)  BY <2>1
  <2> HIDE DEF From
  <2>5. ASSUME NEW i \in DOMAIN a.staged PROVE From(a.staged[i], i)
    <3>1. CASE s.out = "ok"
      <4>1. PICK p : p = Put(d.staged, s.id, s.k)  OBVIOUS
      <4>2. a.staged = p  BY <2>3, <3>1, <4>1
      <4>3. /\ DOMAIN p = DOMAIN d.staged \cup {s.id} /\ p[s.id] = s.k
            /\ \A j \in DOMAIN d.staged : j # s.id => p[j] = d.staged[j]
        BY <4>1 DEF Put
      <4>4. QED  BY <2>2, <2>4, <2>5, <3>1, <4>2, <4>3
    <3>2. CASE s.out # "ok"
      <4>1. a.staged = d.staged  BY <2>3, <3>2
      <4>2. QED  BY <4>1, <2>2, <2>5
    <3>3. QED  BY <3>1, <3>2
  <2>6. P(a)  BY <2>3, <2>5
  <2> HIDE DEF P
  <2>7. QED  BY <2>1, <2>6
<1> HIDE DEF P
<1>6. 0 \in T  BY <1>2, <1>3, <1>4 DEF Drains
<1>7. ASSUME NEW n \in 0..(N - 1), n \in T PROVE n + 1 \in T
  <2>1. n + 1 \in 1..N /\ n + 1 \in 0..N /\ (n + 1) - 1 = n  BY <1>2
  <2>2. g[n + 1] = Applied(g[n], q[n + 1])  BY <2>1, <1>3 DEF Drains
  <2>3. QED  BY <2>1, <2>2, <1>5, <1>7
<1> HIDE DEF T
<1>8. 0..N \subseteq T  BY <1>2, <1>6, <1>7, Upwards
<1>9. P(g[N])  BY <1>2, <1>8 DEF T
<1>10. QED  BY <1>1, <1>3, <1>9 DEF P

-----------------------------------------------------------------------------
\* What a run knows of the file.

LEMMA RestrictPut ==
  \A g, S, i, k : i \in S =>
    Restrict(Put(g, i, k), DOMAIN Put(g, i, k) \cap S) = Put(Restrict(g, DOMAIN g \cap S), i, k)
  BY DEF Put, Restrict

LEMMA SplitRoster ==
  ASSUME NEW R, IsFiniteSet(R), NEW D
  PROVE  /\ Cardinality(D \cap R) \in Nat /\ Cardinality(R \ D) \in Nat /\ Cardinality(R) \in Nat
         /\ Cardinality(D \cap R) + Cardinality(R \ D) = Cardinality(R)
<1> DEFINE A == D \cap R
           B == R \ D
<1>1. A \in SUBSET R /\ B \in SUBSET R /\ A \cup B = R /\ A \cap B = {}  OBVIOUS
<1> HIDE DEF A, B
<1>2. IsFiniteSet(A) /\ IsFiniteSet(B)  BY <1>1, FS_Subset
<1>3. Cardinality(A) \in Nat /\ Cardinality(B) \in Nat /\ Cardinality(R) \in Nat
  BY <1>2, FS_CardinalityType
<1>4. Cardinality(A \cup B) = Cardinality(A) + Cardinality(B) - Cardinality(A \cap B)
  BY <1>2, FS_Union
<1>5. Cardinality(A \cap B) = 0  BY <1>1, FS_EmptySet
<1>6. Cardinality(A \cup B) = Cardinality(R)  BY <1>1
<1>7. Cardinality(A) + Cardinality(B) = Cardinality(R)  BY <1>3, <1>4, <1>5, <1>6
<1>8. QED  BY <1>3, <1>7 DEF A, B

LEMMA RunIsSome ==
  ASSUME Run, day \in Nat
  PROVE  /\ mem.run # None /\ mem.run.win = mem.win
         /\ mem.run.day \in Nat /\ mem.run.day <= day /\ day - mem.run.day <= MaxResume
<1>1. Windows \subseteq Nat /\ None \notin [day : Nat, win : Nat] /\ MaxResume \in Nat
  BY CalibrateAssumption
<1>2. mem.run \in [day : Nat, win : Nat]  BY <1>1 DEF Run
<1>3. mem.run \in [day : Nat, win : Windows] /\ mem.run.day \in (day - MaxResume)..day /\ mem.run.win = mem.win
      /\ mem.day = day
  BY DEF Run
<1>4. mem.run.day \in Nat  BY <1>3
<1>5. mem.run.day <= day /\ day - mem.run.day <= MaxResume  BY <1>1, <1>3, <1>4
<1>6. QED  BY <1>1, <1>2, <1>3, <1>4, <1>5

\* What the queue will have made of the file is as sound as the file.
LEMMA DueFacts ==
  ASSUME CalIInv, Working
  PROVE  /\ FileShape(Due) /\ OfRun(Due)
         /\ Due.live = file.live /\ Due.run = file.run /\ Due.listed = file.listed /\ Due.gen = file.gen
         /\ Due.last.total = file.last.total /\ Due.last.done = file.last.done
         /\ Due.last.succeeded <= Due.last.attempted
         /\ \A i \in DOMAIN Due.staged :
              /\ Due.staged[i].win = mem.win
              /\ Due.staged[i].day \in mem.run.day..day
<1>1. PICK dd : dd = Drained(file, queue)  OBVIOUS
<1>2. FileShape(file) /\ IsQueue(queue) /\ file.last.succeeded <= file.last.attempted
  BY DEF CalIInv, Stored, Honest
<1>3. /\ FileShape(dd)
      /\ dd.live = file.live /\ dd.run = file.run /\ dd.listed = file.listed /\ dd.gen = file.gen
      /\ dd.last.total = file.last.total /\ dd.last.done = file.last.done
      /\ dd.last.succeeded <= dd.last.attempted
  BY <1>1, <1>2, DrainIs
<1>4. \A i \in DOMAIN dd.staged :
        \/ i \in DOMAIN file.staged /\ dd.staged[i] = file.staged[i]
        \/ \E n \in 1..Len(queue) : queue[n].out = "ok" /\ dd.staged[i] = queue[n].k
  BY <1>1, <1>2, DrainStaged
<1>5. Run /\ file.run = mem.run /\ Queued /\ day \in Nat /\ OfRun(file)
  BY DEF CalIInv, Stored, Working, Progress
<1>6. /\ mem.run # None /\ mem.run.win = mem.win
      /\ mem.run.day \in Nat /\ mem.run.day <= day
  BY <1>5, RunIsSome
<1>7. ASSUME NEW i \in DOMAIN dd.staged
      PROVE  dd.staged[i].win = mem.win /\ dd.staged[i].day \in mem.run.day..day
  <2>1. CASE i \in DOMAIN file.staged /\ dd.staged[i] = file.staged[i]
    BY <2>1, <1>5, <1>6 DEF OfRun
  <2>2. CASE \E n \in 1..Len(queue) : queue[n].out = "ok" /\ dd.staged[i] = queue[n].k
    <3>1. PICK n \in 1..Len(queue) : dd.staged[i] = queue[n].k  BY <2>2
    <3>2. queue[n].k.win = mem.win /\ queue[n].k.day = day  BY <1>5 DEF Queued
    <3>3. day \in mem.run.day..day  BY <1>5, <1>6
    <3>4. QED  BY <3>1, <3>2, <3>3
  <2>3. QED  BY <1>4, <2>1, <2>2
<1>8. OfRun(dd)
  <2>1. dd.run # None => dd.run \in [day : Nat, win : Windows] /\ dd.run.day <= day
    BY <1>3, <1>5 DEF OfRun
  <2>2. dd.run = mem.run  BY <1>3, <1>5
  <2>3. QED  BY <2>1, <2>2, <1>6, <1>7 DEF OfRun
<1>9. QED  BY <1>1, <1>3, <1>7, <1>8 DEF Due

-----------------------------------------------------------------------------
\* Each step keeps it.

LEMMA CalInitHolds ==
  ASSUME CalInit
  PROVE  CalIInv
<1>1. Windows \subseteq Nat  BY CalibrateAssumption
<1>2. PICK v \in Volumes : file = [NoFile EXCEPT !.listed = v]  BY DEF CalInit
<1>3. v \subseteq TickerIds  BY CalibrateAssumption
<1>4. file = [live |-> <<>>, staged |-> <<>>, run |-> None, last |-> NoRun,
              fails |-> [i \in TickerIds |-> 0], listed |-> v, gen |-> 0]
  BY <1>2 DEF NoFile
<1>5. NoRun = [run |-> None, total |-> 0, attempted |-> 0, succeeded |-> 0, done |-> FALSE]
  BY DEF NoRun
<1>6. FileShape(file) /\ Honest(file.last)
  <2>1. PICK x, l : x = [i \in TickerIds |-> 0] /\ l = NoRun  OBVIOUS
  <2>2. file = [live |-> <<>>, staged |-> <<>>, run |-> None, last |-> l,
                fails |-> x, listed |-> v, gen |-> 0]
    BY <1>4, <2>1
  <2>3. /\ file.live = <<>> /\ file.staged = <<>> /\ file.run = None /\ file.last = l
        /\ file.fails = x /\ file.listed = v /\ file.gen = 0
    BY <2>2
  <2>4. /\ l.run = None /\ l.total = 0 /\ l.attempted = 0 /\ l.succeeded = 0 /\ l.done = FALSE
        /\ l = [run |-> None, total |-> 0, attempted |-> 0, succeeded |-> 0, done |-> FALSE]
    BY <2>1, <1>5
  <2>5. <<>> = [i \in DOMAIN <<>> |-> <<>>[i]]  OBVIOUS
  <2>6. /\ file = [live |-> file.live, staged |-> file.staged, run |-> file.run, last |-> file.last,
                   fails |-> file.fails, listed |-> file.listed, gen |-> file.gen]
        /\ file.staged = [i \in DOMAIN file.staged |-> file.staged[i]]
        /\ file.gen \in Nat /\ file.listed \subseteq TickerIds
    BY <2>2, <2>3, <2>5, <1>3
  <2>7. /\ l = [run |-> l.run, total |-> l.total, attempted |-> l.attempted,
                succeeded |-> l.succeeded, done |-> l.done]
        /\ l.total \in Nat /\ l.attempted \in Nat /\ l.succeeded \in Nat /\ l.done \in BOOLEAN
        /\ Honest(l)
    BY <2>4 DEF Honest
  <2>8. QED  BY <2>3, <2>6, <2>7 DEF FileShape
<1>7. OfRun(file)  BY <1>4 DEF OfRun
<1>8. day \in Nat /\ win \in Windows /\ phase = "idle" /\ upd = None /\ queue = <<>> /\ mem = NoMem
  BY DEF CalInit
<1>9. Stored  BY <1>6, <1>7, <1>8 DEF Stored
<1>10. MemShape  BY <1>8 DEF NoMem, MemShape
<1>11. IsQueue(queue)  BY <1>8 DEF IsQueue
<1>12. QED  BY <1>8, <1>9, <1>10, <1>11 DEF CalIInv, Working

LEMMA SameStored ==
  ASSUME Stored, UNCHANGED <<day, win, file>>
  PROVE  Stored'
  BY DEF Stored, FileShape, Honest, OfRun

LEMMA StartRunKeeps ==
  ASSUME CalIInv, StartRun
  PROVE  CalIInv'
<1>1. phase = "idle" /\ phase' = "arm" /\ UNCHANGED <<day, win, file, upd, queue>>
  BY DEF StartRun
<1>2. queue = <<>> /\ upd = None  BY <1>1 DEF CalIInv, Working, Writing
<1>3. Stored /\ Stored'  BY <1>1, SameStored DEF CalIInv
<1>4. /\ day \in Nat /\ win \in Windows /\ file.listed \subseteq TickerIds
      /\ file.run # None => file.run \in [day : Nat, win : Windows] /\ file.run.day <= day
  BY <1>3 DEF Stored, FileShape, OfRun
<1>5. PICK r : r = RunId(file, day, win)  OBVIOUS
<1>6. r \in [day : Nat, win : Windows] /\ r.win = win /\ r.day \in (day - MaxResume)..day
  <2>1. MaxResume \in Nat  BY CalibrateAssumption
  <2>2. CASE file.run # None /\ file.run.win = win /\ day - file.run.day \in 0..MaxResume
    <3>1. r = file.run  BY <1>5, <2>2 DEF RunId
    <3>2. file.run.day \in Nat  BY <1>4, <2>2
    <3>3. QED  BY <3>1, <3>2, <1>4, <2>1, <2>2
  <2>3. CASE ~(file.run # None /\ file.run.win = win /\ day - file.run.day \in 0..MaxResume)
    <3>1. r = [day |-> day, win |-> win]  BY <1>5, <2>3 DEF RunId
    <3>2. QED  BY <3>1, <1>4, <2>1
  <2>4. QED  BY <2>2, <2>3
<1> DEFINE roster == (file.listed \cup Configured) \ Crosses
           seen == [live |-> file.live, listed |-> file.listed, gen |-> file.gen]
<1>7. roster \subseteq Roster
  BY <1>4, CalibrateAssumption DEF TickerIds
<1>8. mem' = [NoMem EXCEPT !.run = r, !.day = day, !.win = win, !.roster = roster, !.seen = seen]
  BY <1>5 DEF StartRun
<1> HIDE DEF roster, seen
<1>9. mem' = [run |-> r, day |-> day, win |-> win, roster |-> roster,
              seen |-> seen, ks |-> <<>>, work |-> {}, todo |-> {}]
  BY <1>8 DEF NoMem
<1>10. MemShape' /\ Run'  BY <1>1, <1>4, <1>6, <1>7, <1>9 DEF MemShape, Run
<1>11. IsQueue(queue)'  BY <1>1 DEF CalIInv
<1>12. QED  BY <1>1, <1>2, <1>3, <1>10, <1>11 DEF CalIInv, Working

LEMMA LockKeeps ==
  ASSUME CalIInv, Lock
  PROVE  CalIInv'
<1>1. /\ phase \in {"arm", "promote", "final", "drop"} /\ upd' = [job |-> phase, copy |-> file]
      /\ UNCHANGED <<day, win, file, phase, queue, mem>>
  BY DEF Lock
<1>2. Stored'  BY <1>1, SameStored DEF CalIInv
<1>3. Writing'  BY <1>1 DEF Writing
<1>4. MemShape' /\ IsQueue(queue)' /\ (phase # "idle" => Run)'
  BY <1>1 DEF CalIInv, MemShape, Run
<1>5. (Working => Progress /\ Queued)'
  BY <1>1 DEF CalIInv, Working, Progress, Queued, Due, Untried
<1>6. (~Working => queue = <<>> /\ phase \in {"idle", "arm"})'
  BY <1>1 DEF CalIInv, Working
<1>7. QED  BY <1>2, <1>3, <1>4, <1>5, <1>6 DEF CalIInv

LEMMA KillRunKeeps ==
  ASSUME CalIInv, KillRun
  PROVE  CalIInv'
<1>1. phase' = "idle" /\ upd' = None /\ queue' = <<>> /\ mem' = NoMem /\ UNCHANGED <<day, win, file>>
  BY DEF KillRun
<1>2. Stored'  BY <1>1, SameStored DEF CalIInv
<1>3. MemShape'  BY <1>1 DEF NoMem, MemShape
<1>4. IsQueue(queue)'  BY <1>1 DEF IsQueue
<1>5. QED  BY <1>1, <1>2, <1>3, <1>4 DEF CalIInv, Working

LEMMA TomorrowKeeps ==
  ASSUME CalIInv, Tomorrow
  PROVE  CalIInv'
<1>1. phase = "idle" /\ day' = day + 1 /\ win' \in Windows
      /\ UNCHANGED <<file, phase, upd, queue, mem>>
  BY DEF Tomorrow
<1>2. day \in Nat /\ FileShape(file) /\ Honest(file.last) /\ OfRun(file)  BY DEF CalIInv, Stored
<1>3. day' \in Nat /\ FileShape(file)' /\ Honest(file.last)'
  BY <1>1, <1>2 DEF FileShape, Honest
<1>4. OfRun(file)'
  <2>1. file.run # None => file.run \in [day : Nat, win : Windows] /\ file.run.day <= day'
    BY <1>1, <1>2 DEF OfRun
  <2>2. ASSUME NEW i \in DOMAIN file.staged
        PROVE  file.run # None /\ file.staged[i].win = file.run.win /\ file.staged[i].day \in file.run.day..day'
    <3>1. file.run # None /\ file.staged[i].win = file.run.win /\ file.staged[i].day \in file.run.day..day
      BY <1>2 DEF OfRun
    <3>2. file.run.day \in Nat  BY <3>1, <1>2 DEF OfRun
    <3>3. QED  BY <3>1, <3>2, <1>1, <1>2
  <2>3. QED  BY <2>1, <2>2, <1>1 DEF OfRun
<1>5. upd = None /\ queue = <<>>  BY <1>1 DEF CalIInv, Working, Writing
<1>6. MemShape' /\ IsQueue(queue)'  BY <1>1 DEF CalIInv, MemShape
<1>7. QED  BY <1>1, <1>3, <1>4, <1>5, <1>6 DEF CalIInv, Stored, Working

LEMMA WeightsHolds ==
  ASSUME CalIInv, Weights
  PROVE  CalIInv' /\ file'.gen > file.gen
<1>1. upd = None /\ UNCHANGED <<day, win, phase, upd, queue, mem>>  BY DEF Weights
<1>2. PICK v \in Volumes : file' = [file EXCEPT !.listed = v, !.gen = @ + 1]  BY DEF Weights
<1>3. v \subseteq TickerIds  BY CalibrateAssumption
<1>4. day \in Nat /\ win \in Windows /\ FileShape(file) /\ Honest(file.last) /\ OfRun(file)
  BY DEF CalIInv, Stored
<1>5. PICK h : h = file'  OBVIOUS
<1>6. /\ h.live = file.live /\ h.staged = file.staged /\ h.run = file.run /\ h.last = file.last
      /\ h.fails = file.fails /\ h.listed = v /\ h.gen = file.gen + 1
      /\ h = [live |-> h.live, staged |-> h.staged, run |-> h.run, last |-> h.last,
              fails |-> h.fails, listed |-> h.listed, gen |-> h.gen]
  <2>1. PICK a, b, c, d, e, l, g : file = [live |-> a, staged |-> b, run |-> c, last |-> d,
                                           fails |-> e, listed |-> l, gen |-> g]
    BY <1>4 DEF FileShape
  <2>2. h = [live |-> a, staged |-> b, run |-> c, last |-> d, fails |-> e, listed |-> v, gen |-> g + 1]
    BY <2>1, <1>2, <1>5
  <2>3. QED  BY <2>1, <2>2
<1>7. FileShape(h) /\ Honest(h.last) /\ h.gen > file.gen
  BY <1>3, <1>4, <1>6 DEF FileShape, Honest
<1>8. OfRun(h)  BY <1>4, <1>6 DEF OfRun
<1>9. Stored'  BY <1>1, <1>4, <1>5, <1>7, <1>8 DEF Stored, FileShape, Honest, OfRun
<1>10. MemShape' /\ IsQueue(queue)' /\ (phase # "idle" => Run)'
  BY <1>1 DEF CalIInv, MemShape, Run
<1>11. (~Working => queue = <<>> /\ phase \in {"idle", "arm"})'
  BY <1>1 DEF CalIInv, Working
<1>12. (Working => Progress /\ Queued)'
  <2> SUFFICES ASSUME Working PROVE Progress' /\ Queued'
    BY <1>1 DEF Working
  <2>1. Progress /\ Queued /\ IsQueue(queue)  BY DEF CalIInv
  <2>2. Queued'  BY <2>1, <1>1 DEF Queued
  <2>3. Drained(h, queue).staged = Drained(file, queue).staged
        /\ Drained(h, queue).last = Drained(file, queue).last
    BY <2>1, <1>4, <1>6, <1>7, DrainSame
  <2>4. Due'.staged = Due.staged /\ Due'.last = Due.last
    BY <2>3, <1>1, <1>5 DEF Due
  <2>5. Resumed(Due', mem') = Resumed(Due, mem)  BY <2>4, <1>1 DEF Resumed
  <2>6. Untried' = Untried  BY <1>1 DEF Untried
  <2>7. QED  BY <2>1, <2>2, <2>4, <2>5, <2>6, <1>1, <1>5, <1>6 DEF Progress
<1>13. QED  BY <1>1, <1>5, <1>7, <1>9, <1>10, <1>11, <1>12 DEF CalIInv

LEMMA PassEndsKeeps ==
  ASSUME CalIInv, PassEnds
  PROVE  CalIInv'
<1>1. /\ phase \in {"base", "crosses", "usdc"} /\ mem.todo = {} /\ upd = None
      /\ UNCHANGED <<day, win, file, upd, queue>>
  BY DEF PassEnds
<1>2. /\ phase' \in {"promote", "usdc", "final"}
      /\ phase' = "usdc" => phase = "crosses"
  BY <1>1 DEF PassEnds
<1>3. mem' = IF phase = "crosses" THEN [mem EXCEPT !.todo = Inferred] ELSE mem  BY DEF PassEnds
<1>4. Stored'  BY <1>1, SameStored DEF CalIInv
<1>5. Working /\ Progress /\ Queued /\ Run /\ MemShape /\ IsQueue(queue)
  BY <1>1 DEF CalIInv, Working
<1>6. \E t : /\ t \subseteq mem.roster
             /\ mem' = [run |-> mem.run, day |-> mem.day, win |-> mem.win, roster |-> mem.roster,
                        seen |-> mem.seen, ks |-> mem.ks, work |-> mem.work, todo |-> t]
  <2>1. CASE phase = "crosses"
    <3>1. Inferred \subseteq mem.roster  BY <1>5 DEF Inferred, Progress
    <3>2. mem' = [mem EXCEPT !.todo = Inferred]  BY <1>3, <2>1
    <3>3. PICK t : t = Inferred  OBVIOUS
    <3>4. mem' = [run |-> mem.run, day |-> mem.day, win |-> mem.win, roster |-> mem.roster,
                  seen |-> mem.seen, ks |-> mem.ks, work |-> mem.work, todo |-> t]
      BY <3>2, <3>3, <1>5 DEF MemShape
    <3>5. QED  BY <3>1, <3>3, <3>4
  <2>2. CASE phase # "crosses"
    BY <2>2, <1>1, <1>3, <1>5 DEF MemShape
  <2>3. QED  BY <2>1, <2>2
<1>7. PICK t : /\ t \subseteq mem.roster
               /\ mem' = [run |-> mem.run, day |-> mem.day, win |-> mem.win, roster |-> mem.roster,
                          seen |-> mem.seen, ks |-> mem.ks, work |-> mem.work, todo |-> t]
  BY <1>6
<1>8. /\ mem'.run = mem.run /\ mem'.day = mem.day /\ mem'.win = mem.win /\ mem'.roster = mem.roster
      /\ mem'.ks = mem.ks /\ mem'.work = mem.work /\ mem'.todo \subseteq mem.roster
  BY <1>7
<1>9. MemShape'  BY <1>7 DEF MemShape
<1>10. Run'  BY <1>1, <1>5, <1>8 DEF Run
<1>11. Queued'  BY <1>1, <1>5, <1>8 DEF Queued
<1>12. Untried = {} /\ Untried' = {}  BY <1>1, <1>2 DEF Untried
<1>13. Due' = Due  BY <1>1 DEF Due
<1>14. Resumed(Due', mem') = Resumed(Due, mem)  BY <1>8, <1>13 DEF Resumed
<1>15. Progress'  BY <1>1, <1>5, <1>8, <1>12, <1>13, <1>14 DEF Progress
<1>16. QED  BY <1>1, <1>2, <1>4, <1>5, <1>9, <1>10, <1>11, <1>15 DEF CalIInv, Working

LEMMA CommitFailsKeeps ==
  ASSUME CalIInv, CommitFails
  PROVE  CalIInv'
<1>1. /\ upd # None /\ upd' = None /\ UNCHANGED <<day, win, file>>
      /\ queue' = IF upd.job = "drop" THEN <<>> ELSE queue
      /\ mem' = IF phase' = "idle" THEN NoMem ELSE mem
  BY DEF CommitFails
<1>2. phase' = IF upd.job = "flush" THEN phase
               ELSE IF upd.job = "drop" \/ queue = <<>> THEN "idle" ELSE "drop"
  BY DEF CommitFails
<1>3. Writing /\ Stored /\ MemShape /\ IsQueue(queue)  BY <1>1 DEF CalIInv
<1>4. Stored'  BY <1>1, <1>3, SameStored
<1>5. CASE upd.job = "flush"
  <2>1. phase \in {"base", "crosses", "usdc"}  BY <1>3, <1>5 DEF Writing
  <2>a. phase' = phase  BY <1>2, <1>5
  <2>b. queue' = queue  BY <1>1, <1>5
  <2>c. mem' = mem  BY <1>1, <2>1, <2>a
  <2>2. UNCHANGED <<day, win, file, phase, queue, mem>>  BY <1>1, <2>a, <2>b, <2>c
  <2>3. MemShape' /\ IsQueue(queue)' /\ (phase # "idle" => Run)'
    BY <1>3, <2>2 DEF CalIInv, MemShape, Run
  <2>4. (Working => Progress /\ Queued)' /\ Working'
    BY <2>1, <2>2 DEF CalIInv, Working, Progress, Queued, Due, Untried
  <2>5. QED  BY <1>1, <1>4, <2>3, <2>4 DEF CalIInv
<1>6. CASE upd.job # "flush" /\ (upd.job = "drop" \/ queue = <<>>)
  <2>1. phase' = "idle" /\ mem' = NoMem  BY <1>1, <1>2, <1>6
  <2>2. queue' = <<>>  BY <1>1, <1>6
  <2>3. MemShape'  BY <2>1 DEF NoMem, MemShape
  <2>4. IsQueue(queue)'  BY <2>2 DEF IsQueue
  <2>5. QED  BY <1>1, <1>4, <2>1, <2>2, <2>3, <2>4 DEF CalIInv, Working
<1>7. CASE upd.job # "flush" /\ upd.job # "drop" /\ queue # <<>>
  <2>1. phase \in {"arm", "promote", "final"}  BY <1>3, <1>7 DEF Writing
  <2>2. phase # "arm"  BY <1>7, <2>1 DEF CalIInv, Working
  <2>3. phase' = "drop"  BY <1>2, <1>7
  <2>4. UNCHANGED <<day, win, file, queue, mem>>  BY <1>1, <1>7, <2>3
  <2>5. Working /\ Run /\ Progress /\ Queued  BY <2>1, <2>2 DEF CalIInv, Working
  <2>6. MemShape' /\ IsQueue(queue)' /\ Run' /\ Queued'
    BY <1>3, <2>4, <2>5 DEF MemShape, Run, Queued
  <2>7. Untried = {} /\ Untried' = {} /\ Due' = Due  BY <2>1, <2>3, <2>4 DEF Untried, Due
  <2>8. Progress'  BY <2>4, <2>5, <2>7 DEF Progress
  <2>9. QED  BY <1>1, <1>4, <2>3, <2>6, <2>8 DEF CalIInv, Working
<1>8. QED  BY <1>5, <1>6, <1>7

LEMMA ArmIs ==
  ASSUME NEW f, FileShape(f), NEW n \in Nat, Cardinality(mem.roster) \in Nat,
         n = CountedOf(IF f.run = mem.run THEN Resumed(f, mem) ELSE <<>>, mem),
         NEW h, h = Arm(f, mem)
  PROVE  /\ FileShape(h)
         /\ h.live = f.live /\ h.run = mem.run /\ h.listed = f.listed /\ h.gen = f.gen
         /\ h.staged = IF f.run = mem.run THEN f.staged ELSE <<>>
         /\ h.last.total = Cardinality(mem.roster) /\ ~h.last.done
         /\ h.last.attempted = n /\ h.last.succeeded = n
<1> DEFINE g == IF f.run = mem.run THEN f.staged ELSE <<>>
           r == mem.run
<1>1. PICK t : t = Cardinality(mem.roster)  OBVIOUS
<1>2. PICK l : l = [run |-> r, total |-> t, done |-> FALSE, attempted |-> n, succeeded |-> n]  OBVIOUS
<1>3. h = [f EXCEPT !.staged = g, !.run = r, !.last = l]
  BY <1>1, <1>2 DEF Arm
<1>4. g = [i \in DOMAIN g |-> g[i]]
  <2>1. CASE f.run = mem.run
    <3>1. g = f.staged  BY <2>1
    <3>2. QED  BY <3>1 DEF FileShape
  <2>2. CASE f.run # mem.run
    <3>1. g = <<>>  BY <2>2
    <3>2. QED  BY <3>1
  <2>3. QED  BY <2>1, <2>2
<1> HIDE DEF g, r
<1>5. h = [live |-> f.live, staged |-> g, run |-> r, last |-> l, fails |-> f.fails,
           listed |-> f.listed, gen |-> f.gen]
  BY <1>3 DEF FileShape
<1>6. /\ h.live = f.live /\ h.staged = g /\ h.run = r /\ h.last = l /\ h.fails = f.fails
      /\ h.listed = f.listed /\ h.gen = f.gen
  BY <1>5
<1>7. /\ h = [live |-> h.live, staged |-> h.staged, run |-> h.run, last |-> h.last,
              fails |-> h.fails, listed |-> h.listed, gen |-> h.gen]
      /\ h.staged = [i \in DOMAIN h.staged |-> h.staged[i]]
      /\ h.gen \in Nat /\ h.listed \subseteq TickerIds
  <2>1. f.gen \in Nat /\ f.listed \subseteq TickerIds  BY DEF FileShape
  <2>2. QED  BY <2>1, <1>4, <1>5, <1>6
<1>8. /\ l = [run |-> l.run, total |-> l.total, attempted |-> l.attempted,
              succeeded |-> l.succeeded, done |-> l.done]
      /\ l.total = t /\ l.attempted = n /\ l.succeeded = n /\ l.done = FALSE
  BY <1>2
<1>9. FileShape(h)  BY <1>1, <1>6, <1>7, <1>8 DEF FileShape
<1>10. QED  BY <1>1, <1>6, <1>8, <1>9 DEF g, r

LEMMA PromoteIs ==
  ASSUME NEW f, FileShape(f), NEW h, h = Promote(f, mem)
  PROVE  /\ FileShape(h) /\ h.live = mem.ks
         /\ h.staged = f.staged /\ h.run = f.run /\ h.last = f.last
         /\ h.listed = f.listed /\ h.gen = f.gen
<1>1. PICK v : v = mem.ks  OBVIOUS
<1>2. h = [live |-> v, staged |-> f.staged, run |-> f.run, last |-> f.last, fails |-> f.fails,
           listed |-> f.listed, gen |-> f.gen]
  BY <1>1 DEF Promote, FileShape
<1>3. /\ h.live = v /\ h.staged = f.staged /\ h.run = f.run /\ h.last = f.last /\ h.fails = f.fails
      /\ h.listed = f.listed /\ h.gen = f.gen
      /\ h = [live |-> h.live, staged |-> h.staged, run |-> h.run, last |-> h.last,
              fails |-> h.fails, listed |-> h.listed, gen |-> h.gen]
  BY <1>2
<1>4. QED  BY <1>1, <1>3 DEF FileShape

LEMMA FinishIs ==
  ASSUME NEW f, FileShape(f), NEW h, h = Finish(f, mem)
  PROVE  /\ FileShape(h) /\ h.live = mem.ks
         /\ h.staged = <<>> /\ h.run = None /\ h.listed = f.listed /\ h.gen = f.gen
         /\ h.last.total = f.last.total /\ h.last.attempted = f.last.attempted
         /\ h.last.succeeded = f.last.succeeded /\ h.last.done
<1>1. PICK v : v = mem.ks  OBVIOUS
<1>2. PICK l : l = [f.last EXCEPT !.done = TRUE]  OBVIOUS
<1>3. h = [f EXCEPT !.live = v, !.staged = <<>>, !.run = None, !.last = l]
  BY <1>1, <1>2 DEF Finish
<1>4. h = [live |-> v, staged |-> <<>>, run |-> None, last |-> l, fails |-> f.fails,
           listed |-> f.listed, gen |-> f.gen]
  BY <1>3 DEF FileShape
<1>5. /\ h.live = v /\ h.staged = <<>> /\ h.run = None /\ h.last = l /\ h.fails = f.fails
      /\ h.listed = f.listed /\ h.gen = f.gen
      /\ h = [live |-> h.live, staged |-> h.staged, run |-> h.run, last |-> h.last,
              fails |-> h.fails, listed |-> h.listed, gen |-> h.gen]
  BY <1>4
<1>6. /\ l = [run |-> l.run, total |-> l.total, attempted |-> l.attempted,
              succeeded |-> l.succeeded, done |-> l.done]
      /\ l.total = f.last.total /\ l.attempted = f.last.attempted /\ l.succeeded = f.last.succeeded
      /\ l.done = TRUE
  <2>1. PICK r, t, a, u, d : f.last = [run |-> r, total |-> t, attempted |-> a, succeeded |-> u, done |-> d]
    BY DEF FileShape
  <2> DEFINE x == [run |-> r, total |-> t, attempted |-> a, succeeded |-> u, done |-> d]
  <2>2. l = [x EXCEPT !.done = TRUE]  BY <2>1, <1>2
  <2>3. l = [run |-> r, total |-> t, attempted |-> a, succeeded |-> u, done |-> TRUE]
    BY <2>2
  <2>4. QED  BY <2>1, <2>3
<1>7. <<>> = [i \in DOMAIN <<>> |-> <<>>[i]]  OBVIOUS
<1>8. /\ f.last.total \in Nat /\ f.last.attempted \in Nat /\ f.last.succeeded \in Nat
      /\ f.gen \in Nat /\ f.listed \subseteq TickerIds
  BY DEF FileShape
<1>9. FileShape(h)  BY <1>5, <1>6, <1>7, <1>8 DEF FileShape
<1>10. QED  BY <1>1, <1>5, <1>6, <1>9

LEMMA StageKeeps ==
  ASSUME CalIInv, NEW i, NEW o, NEW flush \in BOOLEAN, Turn(i), Stage(i, o, flush),
         UNCHANGED <<day, win, file, phase>>
  PROVE  CalIInv'
<1>1. /\ phase \in {"base", "crosses", "usdc"} /\ i \in mem.todo
  BY DEF Turn
<1>2. /\ Working /\ Run /\ Progress /\ Queued /\ Stored /\ MemShape /\ IsQueue(queue)
      /\ upd # None => Writing
  BY <1>1 DEF CalIInv, Working
<1>3. PICK k : k = [day |-> day, win |-> mem.win, k |-> o.k, basis |-> Basis(i)]  OBVIOUS
<1>4. PICK s : s = [id |-> i, out |-> o.out, k |-> k, counted |-> phase = "base"]  OBVIOUS
<1>5. /\ flush => upd = None
      /\ queue' = Append(queue, s)
      /\ upd' = IF flush THEN [job |-> "flush", copy |-> file] ELSE upd
  BY <1>3, <1>4 DEF Stage
<1> DEFINE ks == IF o.out = "ok" THEN Put(mem.ks, i, k) ELSE mem.ks
<1>6. mem' = [run |-> mem.run, day |-> mem.day, win |-> mem.win, roster |-> mem.roster,
              seen |-> mem.seen, ks |-> ks, work |-> mem.work, todo |-> mem.todo \ {i}]
  <2>1. mem' = [mem EXCEPT !.todo = mem.todo \ {i}, !.ks = ks]  BY <1>3 DEF Stage
  <2> HIDE DEF ks
  <2>2. QED  BY <2>1, <1>2 DEF MemShape
<1> HIDE DEF ks
<1>7. /\ mem'.run = mem.run /\ mem'.day = mem.day /\ mem'.win = mem.win /\ mem'.roster = mem.roster
      /\ mem'.ks = ks /\ mem'.work = mem.work /\ mem'.todo = mem.todo \ {i}
  BY <1>6
<1>8. MemShape'  BY <1>6 DEF MemShape
<1>9. Run'  BY <1>2, <1>7 DEF Run
<1>10. Stored'  BY <1>2, SameStored
<1>11. IsQueue(queue)' /\ Queued'
  <2>1. /\ IsQueue(Append(queue, s)) /\ Len(queue) \in Nat /\ Len(Append(queue, s)) = Len(queue) + 1
        /\ \A n \in 1..Len(queue) : Append(queue, s)[n] = queue[n]
        /\ Append(queue, s)[Len(queue) + 1] = s
    BY <1>2, QueueAppend
  <2>2. s.k.win = mem.win /\ s.k.day = day  BY <1>3, <1>4
  <2>3. \A n \in 1..Len(queue) : queue[n].k.win = mem.win /\ queue[n].k.day = day
    BY <1>2 DEF Queued
  <2>4. PICK q : q = Append(queue, s)  OBVIOUS
  <2>5. PICK m : m = Len(queue)  OBVIOUS
  <2>6. \A n \in 1..Len(q) : n \in 1..m \/ n = m + 1
    BY <2>1, <2>4, <2>5
  <2>7. \A n \in 1..Len(q) : q[n].k.win = mem.win /\ q[n].k.day = day
    BY <2>1, <2>2, <2>3, <2>4, <2>5, <2>6
  <2>8. QED  BY <2>1, <2>4, <2>7, <1>5, <1>7 DEF Queued
<1>12. PICK d : d = Due  OBVIOUS
<1>13. FileShape(d)  BY <1>2, <1>12, DueFacts
<1>14. PICK e : e = Due'  OBVIOUS
<1>15. e = Applied(d, s)
  BY <1>2, <1>5, <1>12, <1>14, DrainAppend DEF Due
<1>16. /\ e.staged = IF s.out = "ok" THEN Put(d.staged, s.id, s.k) ELSE d.staged
       /\ e.last = Counted(d.last, s)
  BY <1>13, <1>15, AppliedIs
<1>17. e.last.attempted = IF s.counted THEN d.last.attempted + 1 ELSE d.last.attempted
  <2>1. PICK l : l = e.last  OBVIOUS
  <2>2. l = Counted(d.last, s)  BY <2>1, <1>16
  <2>3. l.attempted = IF s.counted THEN d.last.attempted + 1 ELSE d.last.attempted
    BY <2>2, <1>13, CountsShape
  <2>4. QED  BY <2>1, <2>3
<1>18. s.id = i /\ s.out = o.out /\ s.k = k /\ (s.counted <=> phase = "base")  BY <1>4
<1>19. mem.ks = Resumed(d, mem) /\ mem.todo \subseteq mem.roster \cup Crosses
  BY <1>2, <1>12 DEF Progress
<1>20. mem'.ks = Resumed(e, mem')
  <2>1. i \in mem.roster \cup Crosses  BY <1>1, <1>19
  <2> DEFINE S == mem.roster \cup Crosses
  <2>2. Resumed(e, mem') = Restrict(e.staged, DOMAIN e.staged \cap S)  BY <1>7 DEF Resumed
  <2>3. Resumed(d, mem) = Restrict(d.staged, DOMAIN d.staged \cap S)  BY DEF Resumed
  <2> HIDE DEF S
  <2>4. CASE o.out = "ok"
    <3>1. e.staged = Put(d.staged, i, k)  BY <1>16, <1>18, <2>4
    <3>2. ks = Put(mem.ks, i, k)  BY <2>4 DEF ks
    <3>3. i \in S  BY <2>1 DEF S
    <3>4. Restrict(Put(d.staged, i, k), DOMAIN Put(d.staged, i, k) \cap S)
            = Put(Restrict(d.staged, DOMAIN d.staged \cap S), i, k)
      BY <3>3, RestrictPut
    <3>5. QED  BY <3>1, <3>2, <3>4, <2>2, <2>3, <1>7, <1>19
  <2>5. CASE o.out # "ok"
    <3>1. e.staged = d.staged  BY <1>16, <1>18, <2>5
    <3>2. ks = mem.ks  BY <2>5 DEF ks
    <3>3. QED  BY <3>1, <3>2, <2>2, <2>3, <1>7, <1>19
  <2>6. QED  BY <2>4, <2>5
<1>21. e.last.attempted + Cardinality(Untried') = Cardinality(mem.roster) /\ Untried' \subseteq mem.roster
  <2>1. d.last.attempted + Cardinality(Untried) = Cardinality(mem.roster) /\ Untried \subseteq mem.roster
    BY <1>2, <1>12 DEF Progress
  <2>2. d.last.attempted \in Nat  BY <1>13 DEF FileShape
  <2>3. CASE phase = "base"
    <3>1. Untried = mem.todo /\ Untried' = mem.todo \ {i}  BY <2>3, <1>7 DEF Untried
    <3>2. IsFiniteSet(mem.todo)
      <4>1. IsFiniteSet(Roster)  BY CalibrateAssumption
      <4>2. mem.todo \in SUBSET Roster  BY <2>1, <3>1, <1>2 DEF Run
      <4>3. QED  BY <4>1, <4>2, FS_Subset
    <3>3. Cardinality(mem.todo) \in Nat /\ Cardinality(mem.todo \ {i}) = Cardinality(mem.todo) - 1
      BY <3>2, <1>1, FS_RemoveElement, FS_CardinalityType
    <3>4. e.last.attempted = d.last.attempted + 1  BY <2>3, <1>17, <1>18
    <3>5. QED  BY <2>1, <2>2, <3>1, <3>3, <3>4
  <2>4. CASE phase # "base"
    <3>1. Untried = {} /\ Untried' = {}  BY <2>4 DEF Untried
    <3>2. e.last.attempted = d.last.attempted  BY <2>4, <1>17, <1>18
    <3>3. QED  BY <2>1, <3>1, <3>2
  <2>5. QED  BY <2>3, <2>4
<1>22. Progress'
  <2>1. /\ file.run = mem.run /\ ~file.last.done /\ file.last.total = Cardinality(mem.roster)
        /\ mem.work \subseteq mem.roster
    BY <1>2 DEF Progress
  <2>2. mem'.todo \subseteq mem.roster \cup Crosses  BY <1>7, <1>19
  <2>3. QED  BY <2>1, <2>2, <1>7, <1>14, <1>20, <1>21 DEF Progress
<1>23. (upd # None => Writing)'
  <2>1. CASE flush
    <3>1. upd' = [job |-> "flush", copy |-> file]  BY <2>1, <1>5
    <3>2. QED  BY <3>1, <1>1 DEF Writing
  <2>2. CASE ~flush
    <3>1. upd' = upd  BY <2>2, <1>5
    <3>2. QED  BY <3>1, <1>2 DEF Writing
  <2>3. QED  BY <2>1, <2>2
<1>24. QED  BY <1>1, <1>8, <1>9, <1>10, <1>11, <1>22, <1>23 DEF CalIInv, Working

LEMMA FitOneKeeps ==
  ASSUME CalIInv, NEW i, NEW flush \in BOOLEAN, FitOne(i, flush) \/ FitFails(i, flush)
  PROVE  CalIInv' /\ file' = file
<1>1. CASE FitOne(i, flush)
  <2>1. Turn(i) /\ Stage(i, OfPass(i), flush) /\ UNCHANGED <<day, win, file, phase>>
    BY <1>1 DEF FitOne
  <2>2. QED  BY <2>1, StageKeeps
<1>2. CASE FitFails(i, flush)
  <2>1. Turn(i) /\ Stage(i, Failed, flush) /\ UNCHANGED <<day, win, file, phase>>
    BY <1>2 DEF FitFails
  <2>2. QED  BY <2>1, StageKeeps
<1>3. QED  BY <1>1, <1>2

Published == file'.live # file.live => Working /\ file'.live = mem.ks

LEMMA CommitArm ==
  ASSUME CalIInv, Commit, upd.job = "arm"
  PROVE  CalIInv' /\ file'.gen = file.gen /\ file'.listed = file.listed /\ Published
<1>1. /\ upd # None /\ queue' = <<>> /\ upd' = None /\ phase' = After(upd.job)
      /\ file' = Written(Drained(upd.copy, queue), upd.job) /\ UNCHANGED <<day, win>>
  BY DEF Commit
<1>2. Writing /\ Stored /\ MemShape  BY <1>1 DEF CalIInv
<1>3. upd.copy = file /\ phase = "arm"  BY <1>2 DEF Writing
<1>4. queue = <<>> /\ Run  BY <1>3 DEF CalIInv, Working
<1>5. phase' = "base"  BY <1>1 DEF After
<1>6. PICK h : h = file'  OBVIOUS
<1>7. h = Arm(file, mem)
  BY <1>1, <1>3, <1>4, <1>6, DrainEmpty DEF Written
<1>8. PICK ks : ks = IF file.run = mem.run THEN Resumed(file, mem) ELSE <<>>  OBVIOUS
<1>9. PICK work : work = mem.roster \ DOMAIN ks  OBVIOUS
<1>10. mem' = [mem EXCEPT !.ks = ks, !.work = work, !.todo = work]
  BY <1>3, <1>8, <1>9 DEF Commit
<1>11. mem' = [run |-> mem.run, day |-> mem.day, win |-> mem.win, roster |-> mem.roster,
               seen |-> mem.seen, ks |-> ks, work |-> work, todo |-> work]
  BY <1>10, <1>2 DEF MemShape
<1>12. /\ mem'.run = mem.run /\ mem'.day = mem.day /\ mem'.win = mem.win /\ mem'.roster = mem.roster
       /\ mem'.ks = ks /\ mem'.work = work /\ mem'.todo = work
  BY <1>11
<1>13. MemShape'  BY <1>11 DEF MemShape
<1>14. IsFiniteSet(mem.roster)
  BY <1>4, CalibrateAssumption, FS_Subset DEF Run
<1>15. PICK n : n = CountedOf(ks, mem)  OBVIOUS
<1>16. /\ n \in Nat /\ Cardinality(work) \in Nat /\ Cardinality(mem.roster) \in Nat
       /\ n + Cardinality(work) = Cardinality(mem.roster)
  BY <1>9, <1>14, <1>15, SplitRoster DEF CountedOf
<1>17. /\ FileShape(h)
       /\ h.live = file.live /\ h.run = mem.run /\ h.listed = file.listed /\ h.gen = file.gen
       /\ h.staged = IF file.run = mem.run THEN file.staged ELSE <<>>
       /\ h.last.total = Cardinality(mem.roster) /\ ~h.last.done
       /\ h.last.attempted = n /\ h.last.succeeded = n
  <2>1. FileShape(file)  BY <1>2 DEF Stored
  <2>2. n \in Nat /\ Cardinality(mem.roster) \in Nat  BY <1>16
  <2>3. n = CountedOf(IF file.run = mem.run THEN Resumed(file, mem) ELSE <<>>, mem)
    BY <1>8, <1>15
  <2>4. PICK f : f = file  OBVIOUS
  <2>5. /\ FileShape(f) /\ h = Arm(f, mem)
        /\ n = CountedOf(IF f.run = mem.run THEN Resumed(f, mem) ELSE <<>>, mem)
    BY <2>1, <2>3, <2>4, <1>7
  <2>6. QED  BY <2>2, <2>4, <2>5, ArmIs
<1>18. Honest(h.last)  BY <1>16, <1>17 DEF Honest
<1>19. OfRun(h)
  <2>1. /\ mem.run # None /\ mem.run.day <= day /\ mem.run \in [day : Nat, win : Windows]
    BY <1>2, <1>4, RunIsSome DEF Stored, Run
  <2>2. OfRun(file)  BY <1>2 DEF Stored
  <2>3. CASE file.run = mem.run
    <3>1. h.staged = file.staged  BY <1>17, <2>3
    <3>2. QED  BY <3>1, <1>17, <2>1, <2>2, <2>3 DEF OfRun
  <2>4. CASE file.run # mem.run
    <3>1. h.staged = <<>>  BY <1>17, <2>4
    <3>2. QED  BY <3>1, <1>17, <2>1 DEF OfRun
  <2>5. QED  BY <2>3, <2>4
<1>20. Stored'
  <2>1. OfRun(file)'  BY <1>1, <1>6, <1>19 DEF OfRun
  <2>2. FileShape(file)' /\ Honest(file.last)'  BY <1>6, <1>17, <1>18 DEF FileShape, Honest
  <2>3. QED  BY <2>1, <2>2, <1>1, <1>2 DEF Stored
<1>21. Run'  BY <1>1, <1>4, <1>12 DEF Run
<1>22. Due' = h  BY <1>1, <1>6, DrainEmpty DEF Due
<1>23. ks = Resumed(h, mem')
  <2>1. Resumed(h, mem') = Restrict(h.staged, DOMAIN h.staged \cap (mem.roster \cup Crosses))
    BY <1>12 DEF Resumed
  <2>2. CASE file.run = mem.run
    <3>1. h.staged = file.staged /\ ks = Resumed(file, mem)  BY <1>8, <1>17, <2>2
    <3>2. QED  BY <3>1, <2>1 DEF Resumed
  <2>3. CASE file.run # mem.run
    <3>1. h.staged = <<>> /\ ks = <<>>  BY <1>8, <1>17, <2>3
    <3>2. DOMAIN <<>> = {}  OBVIOUS
    <3>3. Restrict(<<>>, DOMAIN <<>> \cap (mem.roster \cup Crosses)) = <<>>
      BY <3>2 DEF Restrict
    <3>4. QED  BY <3>1, <3>3, <2>1
  <2>4. QED  BY <2>2, <2>3
<1>24. Progress'
  <2>1. Untried' = work  BY <1>5, <1>12 DEF Untried
  <2>2. work \subseteq mem.roster  BY <1>9
  <2>3. QED  BY <2>1, <2>2, <1>6, <1>12, <1>16, <1>17, <1>22, <1>23 DEF Progress
<1>25. Len(<<>>) = 0 /\ IsQueue(<<>>)  BY DEF IsQueue
<1>26. Queued' /\ IsQueue(queue)'  BY <1>1, <1>25 DEF Queued, IsQueue
<1>27. QED
  BY <1>1, <1>5, <1>6, <1>13, <1>17, <1>20, <1>21, <1>24, <1>26 DEF CalIInv, Working, Published

LEMMA CommitOther ==
  ASSUME CalIInv, Commit, upd.job # "arm"
  PROVE  CalIInv' /\ file'.gen = file.gen /\ file'.listed = file.listed /\ Published
<1>1. /\ upd # None /\ queue' = <<>> /\ upd' = None /\ phase' = After(upd.job)
      /\ file' = Written(Drained(upd.copy, queue), upd.job) /\ UNCHANGED <<day, win>>
  BY DEF Commit
<1>2. Writing /\ Stored /\ MemShape  BY <1>1 DEF CalIInv
<1>3. /\ upd.copy = file /\ phase \in {"base", "promote", "crosses", "usdc", "final", "drop"}
      /\ upd.job \in {"promote", "flush", "final", "drop"}
      /\ upd.job = "flush" => phase \in {"base", "crosses", "usdc"}
      /\ upd.job # "flush" => phase = upd.job
  BY <1>2 DEF Writing
<1>4. Working /\ Run /\ Progress /\ Queued /\ day \in Nat  BY <1>2, <1>3 DEF CalIInv, Working, Stored
<1>5. PICK d : d = Due  OBVIOUS
<1>6. /\ FileShape(d) /\ OfRun(d)
      /\ d.live = file.live /\ d.run = file.run /\ d.listed = file.listed /\ d.gen = file.gen
      /\ d.last.total = file.last.total /\ d.last.done = file.last.done
      /\ d.last.succeeded <= d.last.attempted
  BY <1>4, <1>5, DueFacts
<1>7. /\ file.run = mem.run /\ ~file.last.done
      /\ file.last.total = Cardinality(mem.roster)
      /\ d.last.attempted + Cardinality(Untried) = Cardinality(mem.roster)
      /\ Untried \subseteq mem.roster /\ mem.work \subseteq mem.roster
      /\ mem.todo \subseteq mem.roster \cup Crosses
      /\ mem.ks = Resumed(d, mem)
  BY <1>4, <1>5 DEF Progress
<1>8. /\ Cardinality(Untried) \in Nat
      /\ Untried = {} => Cardinality(Untried) = 0
  <2>1. IsFiniteSet(Untried)
    BY <1>4, <1>7, CalibrateAssumption, FS_Subset DEF Run
  <2>2. QED  BY <2>1, FS_CardinalityType, FS_EmptySet
<1>9. /\ d.last.attempted \in Nat /\ d.last.total \in Nat /\ d.last.succeeded \in Nat
  BY <1>6 DEF FileShape
<1>10. d.last.attempted <= d.last.total  BY <1>6, <1>7, <1>8, <1>9
<1>11. Honest(d.last)  BY <1>6, <1>7, <1>10 DEF Honest
<1>12. PICK h : h = file'  OBVIOUS
<1>13. h = Written(d, upd.job)  BY <1>1, <1>3, <1>5, <1>12 DEF Due
<1>14. Due' = h  BY <1>1, <1>12, DrainEmpty DEF Due
<1>15. IsQueue(<<>>) /\ Len(<<>>) = 0  BY DEF IsQueue
<1>16. IsQueue(queue)' /\ Queued'  BY <1>1, <1>15 DEF IsQueue, Queued
<1>17. ASSUME FileShape(h), Honest(h.last), OfRun(h) PROVE Stored'
  <2>1. OfRun(file)'  BY <1>1, <1>12, <1>17 DEF OfRun
  <2>2. FileShape(file)' /\ Honest(file.last)'  BY <1>12, <1>17 DEF FileShape, Honest
  <2>3. QED  BY <2>1, <2>2, <1>1, <1>2 DEF Stored
<1>18. CASE upd.job = "promote"
  <2>1. phase = "promote" /\ phase' = "crosses"  BY <1>1, <1>3, <1>18 DEF After
  <2>2. h = Promote(d, mem)  BY <1>13, <1>18 DEF Written
  <2>3. /\ FileShape(h) /\ h.live = mem.ks
        /\ h.staged = d.staged /\ h.run = d.run /\ h.last = d.last
        /\ h.listed = d.listed /\ h.gen = d.gen
    BY <1>6, <2>2, PromoteIs
  <2>4. Honest(h.last) /\ OfRun(h)  BY <1>6, <1>11, <2>3 DEF OfRun
  <2>5. Stored'  BY <1>17, <2>3, <2>4
  <2>6. PICK t : t = Runnable \ DOMAIN mem.ks  OBVIOUS
  <2>7. t \subseteq Crosses  BY <2>6 DEF Runnable
  <2>8. mem' = [mem EXCEPT !.todo = t]  BY <1>18, <2>6 DEF Commit
  <2>9. mem' = [run |-> mem.run, day |-> mem.day, win |-> mem.win, roster |-> mem.roster,
                seen |-> mem.seen, ks |-> mem.ks, work |-> mem.work, todo |-> t]
    BY <2>8, <1>2 DEF MemShape
  <2>10. /\ mem'.run = mem.run /\ mem'.day = mem.day /\ mem'.win = mem.win /\ mem'.roster = mem.roster
         /\ mem'.ks = mem.ks /\ mem'.work = mem.work /\ mem'.todo = t
    BY <2>9
  <2>11. MemShape' /\ Run'  BY <1>1, <1>4, <2>9, <2>10 DEF MemShape, Run
  <2>12. Untried = {} /\ Untried' = {}  BY <2>1 DEF Untried
  <2>13. Resumed(h, mem') = Resumed(d, mem)  BY <2>3, <2>10 DEF Resumed
  <2>14. h.last.attempted + Cardinality(Untried') = Cardinality(mem.roster)
    BY <1>7, <2>3, <2>12
  <2>15. Progress'
    BY <1>6, <1>7, <1>12, <1>14, <2>3, <2>7, <2>10, <2>12, <2>13, <2>14 DEF Progress
  <2>16. QED
    BY <1>1, <1>4, <1>6, <1>12, <1>16, <2>1, <2>3, <2>5, <2>11, <2>15 DEF CalIInv, Working, Published
<1>19. CASE upd.job = "flush"
  <2>1. phase' = phase /\ phase \in {"base", "crosses", "usdc"}  BY <1>1, <1>3, <1>19 DEF After
  <2>2. h = d  BY <1>13, <1>19 DEF Written
  <2>3. mem' = mem  BY <1>19 DEF Commit
  <2>4. Stored'  BY <1>6, <1>11, <1>17, <2>2
  <2>5. MemShape' /\ Run'  BY <1>1, <1>2, <1>4, <2>3 DEF MemShape, Run
  <2>6. Untried' = Untried  BY <2>1, <2>3 DEF Untried
  <2>7. Progress'  BY <1>6, <1>7, <1>12, <1>14, <2>2, <2>3, <2>6 DEF Progress
  <2>8. QED
    BY <1>1, <1>6, <1>12, <1>16, <2>1, <2>2, <2>4, <2>5, <2>7 DEF CalIInv, Working, Published
<1>20. CASE upd.job = "final" \/ upd.job = "drop"
  <2>1. phase' = "idle" /\ Untried = {}  BY <1>1, <1>3, <1>20 DEF After, Untried
  <2>2. mem' = NoMem  BY <1>20 DEF Commit
  <2>3. MemShape'  BY <2>2 DEF NoMem, MemShape
  <2>4. /\ FileShape(h) /\ Honest(h.last) /\ OfRun(h) /\ h.gen = d.gen /\ h.listed = d.listed
        /\ h.live = mem.ks \/ h.live = d.live
    <3>1. CASE upd.job = "final"
      <4>1. h = Finish(d, mem)  BY <1>13, <3>1 DEF Written
      <4>2. /\ FileShape(h) /\ h.live = mem.ks
            /\ h.staged = <<>> /\ h.run = None /\ h.listed = d.listed /\ h.gen = d.gen
            /\ h.last.total = d.last.total /\ h.last.attempted = d.last.attempted
            /\ h.last.succeeded = d.last.succeeded /\ h.last.done
        BY <1>6, <4>1, FinishIs
      <4>3. OfRun(h)  BY <4>2 DEF OfRun
      <4>4. d.last.attempted = d.last.total  BY <1>6, <1>7, <1>8, <1>9, <2>1
      <4>5. Honest(h.last)  BY <1>11, <4>2, <4>4 DEF Honest
      <4>6. QED  BY <4>2, <4>3, <4>5
    <3>2. CASE upd.job = "drop"
      <4>1. h = d  BY <1>13, <3>2 DEF Written
      <4>2. QED  BY <4>1, <1>6, <1>11
    <3>3. QED  BY <3>1, <3>2, <1>20
  <2>5. Stored'  BY <1>17, <2>4
  <2>6. QED
    BY <1>1, <1>4, <1>6, <1>12, <1>16, <2>1, <2>3, <2>4, <2>5 DEF CalIInv, Working, Published
<1>21. QED  BY <1>3, <1>18, <1>19, <1>20

-----------------------------------------------------------------------------
\* The steps together.
LEMMA CalStep ==
  ASSUME CalIInv, [CalNext]_calVars
  PROVE  /\ CalIInv'
         /\ file'.gen >= file.gen /\ (file'.listed # file.listed => file'.gen > file.gen)
         /\ file'.live # file.live => Commit /\ Published
<1>1. file.gen \in Nat  BY DEF CalIInv, Stored, FileShape
<1>2. CASE StartRun
  BY <1>1, <1>2, StartRunKeeps DEF StartRun
<1>3. CASE Lock
  BY <1>1, <1>3, LockKeeps DEF Lock
<1>4. CASE Commit
  <2>1. CalIInv' /\ file'.gen = file.gen /\ file'.listed = file.listed /\ Published
    BY <1>4, CommitArm, CommitOther
  <2>2. QED  BY <1>1, <1>4, <2>1
<1>5. CASE CommitFails
  BY <1>1, <1>5, CommitFailsKeeps DEF CommitFails
<1>6. CASE PassEnds
  BY <1>1, <1>6, PassEndsKeeps DEF PassEnds
<1>7. CASE KillRun
  BY <1>1, <1>7, KillRunKeeps DEF KillRun
<1>8. CASE Weights
  <2>1. CalIInv' /\ file'.gen > file.gen  BY <1>8, WeightsHolds
  <2>2. file'.gen \in Nat  BY <2>1 DEF CalIInv, Stored, FileShape
  <2>3. file'.live = file.live
    <3>1. PICK v \in Volumes : file' = [file EXCEPT !.listed = v, !.gen = @ + 1]  BY <1>8 DEF Weights
    <3>2. FileShape(file)  BY DEF CalIInv, Stored
    <3>3. QED  BY <3>1, <3>2 DEF FileShape
  <2>4. QED  BY <1>1, <2>1, <2>2, <2>3
<1>9. CASE Tomorrow
  BY <1>1, <1>9, TomorrowKeeps DEF Tomorrow
<1>10. CASE \E i \in mem.todo, flush \in BOOLEAN : FitOne(i, flush) \/ FitFails(i, flush)
  <2>1. PICK i \in mem.todo, flush \in BOOLEAN : FitOne(i, flush) \/ FitFails(i, flush)
    BY <1>10
  <2>2. CalIInv' /\ file' = file  BY <2>1, FitOneKeeps
  <2>3. QED  BY <1>1, <2>2
<1>11. CASE UNCHANGED calVars
  <2>1. UNCHANGED <<day, win, file, phase, upd, queue, mem>>  BY <1>11 DEF calVars
  <2>2. Stored' /\ MemShape' /\ IsQueue(queue)' /\ (phase # "idle" => Run)'
    BY <2>1, SameStored DEF CalIInv, MemShape, Run
  <2>3. (Working => Progress /\ Queued)' /\ (~Working => queue = <<>> /\ phase \in {"idle", "arm"})'
    BY <2>1 DEF CalIInv, Working, Progress, Queued, Due, Untried
  <2>4. (upd # None => Writing)'  BY <2>1 DEF CalIInv, Writing
  <2>5. QED  BY <1>1, <2>1, <2>2, <2>3, <2>4 DEF CalIInv
<1>12. QED
  BY <1>2, <1>3, <1>4, <1>5, <1>6, <1>7, <1>8, <1>9, <1>10, <1>11 DEF CalNext

\* What the file says of the runs is sound whenever they are killed or fail to
\* write: what is staged was fitted by the run it is staged for, and with what
\* waits it is what the run under way has fitted and will publish.
THEOREM CalInductive == CalSpec => []CalIInv
<1>1. CalInit => CalIInv  BY CalInitHolds
<1>2. CalIInv /\ [CalNext]_calVars => CalIInv'  BY CalStep
<1>3. QED  BY <1>1, <1>2, PTL DEF CalSpec

\* The coverage the alerts read is right for any rosters, weights, windows and
\* number of nights: no ticker of a run is counted twice, and a completed run has
\* attempted every one (Staged::apply and the run's summary in nxr_calibrate.rs).
THEOREM CoverageIsHonest == CalSpec => []CoverageHonest
<1>1. CalIInv => CoverageHonest  BY DEF CalIInv, Stored, Honest, CoverageHonest
<1>2. QED  BY <1>1, CalInductive, PTL

\* No step of a run reverts what nxr-weights wrote to the file they share
\* (ParamsStore's read under the lock).
THEOREM WeightsAreKept == CalSpec => WeightsKept
<1>1. CalIInv /\ [CalNext]_calVars
        => [file'.gen >= file.gen /\ (file'.listed # file.listed => file'.gen > file.gen)]_calVars
  BY CalStep
<1>2. QED  BY <1>1, CalInductive, PTL DEF CalSpec, WeightsKept

\* A run publishes exactly what it has fitted, the nights before it was killed
\* included, and nothing of another window or older than a set may get (the
\* promotions of nxr_calibrate.rs).
THEOREM PublishesItsOwn == CalSpec => PromotedIsThisRun
<1> DEFINE staged == Drained(upd.copy, queue).staged
           P == file'.live # file.live =>
                  /\ file'.live = Restrict(staged, DOMAIN staged \cap (mem.roster \cup Crosses))
                  /\ \A i \in DOMAIN file'.live :
                       /\ file'.live[i].win = mem.win
                       /\ file'.live[i].day >= mem.run.day
                       /\ mem.day - file'.live[i].day <= MaxResume
<1>1. ASSUME CalIInv, [CalNext]_calVars, file'.live # file.live
      PROVE  /\ file'.live = Restrict(staged, DOMAIN staged \cap (mem.roster \cup Crosses))
             /\ \A i \in DOMAIN file'.live :
                  /\ file'.live[i].win = mem.win
                  /\ file'.live[i].day >= mem.run.day
                  /\ mem.day - file'.live[i].day <= MaxResume
  <2>1. Commit /\ Working /\ file'.live = mem.ks  BY <1>1, CalStep DEF Published
  <2>2. upd.copy = file  BY <1>1, <2>1 DEF Commit, CalIInv, Writing
  <2>3. mem.ks = Resumed(Due, mem) /\ Run /\ day \in Nat  BY <1>1, <2>1 DEF CalIInv, Progress, Working, Stored
  <2>4. PICK d : d = Due  OBVIOUS
  <2>5. \A i \in DOMAIN d.staged : d.staged[i].win = mem.win /\ d.staged[i].day \in mem.run.day..day
    BY <1>1, <2>1, <2>4, DueFacts
  <2>6. staged = d.staged  BY <2>2, <2>4 DEF Due
  <2> HIDE DEF staged
  <2>7. file'.live = Restrict(d.staged, DOMAIN d.staged \cap (mem.roster \cup Crosses))
    BY <2>1, <2>3, <2>4 DEF Resumed
  <2>8. /\ mem.run.day \in Nat /\ day - mem.run.day <= MaxResume /\ mem.day = day /\ MaxResume \in Nat
    BY <2>3, RunIsSome, CalibrateAssumption DEF Run
  <2>9. ASSUME NEW i \in DOMAIN file'.live
        PROVE  /\ file'.live[i].win = mem.win
               /\ file'.live[i].day >= mem.run.day
               /\ mem.day - file'.live[i].day <= MaxResume
    <3>1. i \in DOMAIN d.staged /\ file'.live[i] = d.staged[i]  BY <2>7, <2>9 DEF Restrict
    <3>2. PICK x : x = d.staged[i].day  OBVIOUS
    <3>3. x \in mem.run.day..day  BY <3>1, <3>2, <2>5
    <3>4. x >= mem.run.day /\ day - x <= MaxResume  BY <3>3, <2>3, <2>8
    <3>5. QED  BY <3>1, <3>2, <3>4, <2>5, <2>8
  <2>10. QED  BY <2>6, <2>7, <2>9
<1>2. CalIInv /\ [CalNext]_calVars => P  BY <1>1
<1> HIDE DEF P
<1>3. CalIInv /\ [CalNext]_calVars => [P]_calVars  BY <1>2
<1>4. [][P]_calVars <=> PromotedIsThisRun  BY DEF P, PromotedIsThisRun
<1>5. QED  BY <1>3, <1>4, CalInductive, PTL DEF CalSpec

-----------------------------------------------------------------------------
\* Calibrate: the fit.

Rungs == KFloor..KMax
Tick == [travel : Nat, sigma : Nat]

LEMMA RungsAre ==
  /\ Rungs \subseteq Nat \ {0} /\ KFloor \in Rungs /\ KMax \in Rungs
  /\ KFloor \in Nat /\ KMax \in Nat /\ KFloor >= 1 /\ KFloor < KMax
  /\ Target \in Nat /\ Target >= 1 /\ Tol \in Nat /\ Iters \in Nat
  /\ KSeed \in Nat /\ KCold \in Nat /\ MinPct \in Nat /\ MinPct >= 1
<1>1. /\ KFloor \in Nat \ {0} /\ KMax \in Nat \ {0} /\ KFloor < KMax /\ Target \in Nat \ {0}
      /\ Tol \in Nat /\ Iters \in Nat /\ KSeed \in Nat \ {0} /\ KCold \in Nat \ {0} /\ MinPct \in Nat \ {0}
  BY FitAssumption
<1> QED  BY <1>1 DEF Rungs

\* Finitely many counts are bounded.
LEMMA CountsBounded ==
  ASSUME NEW N \in Nat, NEW counts, \A i \in 1..N : counts[i] \in Nat
  PROVE  \E b \in Nat : \A i \in 1..N : counts[i] <= b
<1> DEFINE T == {n \in 0..N : \E b \in Nat : \A i \in 1..n : counts[i] <= b}
<1>1. 0 \in T
  <2>1. 0 \in Nat /\ \A i \in 1..0 : counts[i] <= 0  OBVIOUS
  <2> QED  BY <2>1
<1>2. ASSUME NEW n \in 0..(N - 1), n \in T PROVE n + 1 \in T
  <2>1. PICK b \in Nat : \A i \in 1..n : counts[i] <= b  BY <1>2
  <2>2. n + 1 \in 1..N /\ n + 1 \in 0..N  OBVIOUS
  <2>3. PICK c \in Nat : c = counts[n + 1]  BY <2>2
  <2>4. \A i \in 1..(n + 1) : i \in 1..n \/ i = n + 1  OBVIOUS
  <2>5. \A i \in 1..(n + 1) : counts[i] \in Nat  BY <2>2
  <2>6. \A i \in 1..(n + 1) : counts[i] <= b + c
    <3> TAKE i \in 1..(n + 1)
    <3>1. counts[i] <= b \/ counts[i] = c  BY <2>1, <2>3, <2>4
    <3>2. counts[i] \in Nat  BY <2>5
    <3> QED  BY <3>1, <3>2
  <2>7. b + c \in Nat  OBVIOUS
  <2> QED  BY <2>2, <2>6, <2>7
<1> HIDE DEF T
<1>3. 0..N \subseteq T  BY <1>1, <1>2, Upwards
<1>4. N \in T  BY <1>3
<1> QED  BY <1>4 DEF T

\* The n-th smallest of some counts is one of them.
LEMMA NthIs ==
  ASSUME NEW N \in Nat, NEW counts, \A i \in 1..N : counts[i] \in Nat,
         NEW I \in SUBSET (1..N), I # {}, NEW n \in Nat, n <= Cardinality(I)
  PROVE  Nth(counts, I, n) \in Nat
<1> DEFINE V == {counts[i] : i \in I}
           J == {j \in I : UpTo(counts, I, counts[j]) >= n}
           W == {counts[i] : i \in J}
<1>1. V \subseteq Int /\ V # {}
  <2>1. \A i \in I : counts[i] \in Int  OBVIOUS
  <2> QED  BY <2>1
<1>2. PICK top \in I : \A i \in I : counts[i] <= counts[top]
  <2>1. PICK b \in Nat : \A i \in 1..N : counts[i] <= b  BY CountsBounded
  <2>2. b \in Int /\ \A v \in V : v <= b  BY <2>1
  <2>3. Max(V) \in V /\ \A v \in V : v <= Max(V)
    <3> HIDE DEF V
    <3> QED  BY <1>1, <2>2, MaxBounded
  <2> QED  BY <2>3
<1>3. {i \in I : counts[i] <= counts[top]} = I  BY <1>2
<1>4. UpTo(counts, I, counts[top]) = Cardinality(I)  BY <1>3 DEF UpTo
<1>5. Cardinality(I) \in Nat
  <2>1. IsFiniteSet(1..N)  BY FS_Interval
  <2> QED  BY <2>1, FS_Subset, FS_CardinalityType
<1>6. top \in J  BY <1>4, <1>5
<1>7. W \subseteq Nat /\ W # {}
  <2>1. \A i \in J : counts[i] \in Nat  OBVIOUS
  <2> HIDE DEF J
  <2> QED  BY <1>6, <2>1
<1>8. Nth(counts, I, n) = Min(W)  BY DEF Nth
<1> HIDE DEF W
<1> QED  BY <1>7, <1>8, MinBounded

LEMMA MedianIs ==
  ASSUME NEW N \in Nat, NEW counts, \A i \in 1..N : counts[i] \in Nat, NEW I \in SUBSET (1..N), I # {}
  PROVE  Median2(counts, I) \in Nat
<1>1. PICK c : c = Cardinality(I)  OBVIOUS
<1>2. c \in Nat /\ c # 0
  <2>1. IsFiniteSet(1..N)  BY FS_Interval
  <2>2. IsFiniteSet(I)  BY <2>1, FS_Subset
  <2> QED  BY <1>1, <2>2, FS_CardinalityType, FS_EmptySet
<1>3. /\ (c + 1) \div 2 \in Nat /\ (c + 1) \div 2 <= c
      /\ c \div 2 + 1 \in Nat /\ c \div 2 + 1 <= c
  BY <1>2
<1>4. PICK m, n : m = (c + 1) \div 2 /\ n = c \div 2 + 1  OBVIOUS
<1>5. Nth(counts, I, m) \in Nat /\ Nth(counts, I, n) \in Nat
  BY <1>1, <1>3, <1>4, NthIs
<1>6. Median2(counts, I) = Nth(counts, I, m) + Nth(counts, I, n)
  BY <1>1, <1>4 DEF Median2
<1> QED  BY <1>5, <1>6

LEMMA BpdIs ==
  ASSUME NEW days \in Seq(Tick), NEW k \in Rungs
  PROVE  Bpd(days, k) \in Nat
<1>1. PICK counts : counts = Bricks(days, k)  OBVIOUS
<1>2. k \in Nat /\ MinPct \in Nat /\ MinPct >= 1  BY RungsAre
<1>3. PICK N \in Nat : N = Len(days) /\ DOMAIN days = 1..N /\ \A i \in 1..N : days[i] \in Tick
  BY LenProperties
<1>4. ASSUME NEW i \in 1..N  PROVE days[i].travel \div Brick(days[i].sigma, k) \in Nat
  <2>1. PICK d : d = days[i]  OBVIOUS
  <2>2. d \in [travel : Nat, sigma : Nat]  BY <1>3, <2>1 DEF Tick
  <2>3. d.travel \in Nat /\ d.sigma \in Nat  BY <2>2
  <2>4. PICK t, s : t = d.travel /\ s = d.sigma  OBVIOUS
  <2>5. t \in Nat /\ s \in Nat  BY <2>3, <2>4
  <2>6. k * s \in Nat  BY <1>2, <2>5
  <2>7. Brick(s, k) \in Nat /\ Brick(s, k) >= 1  BY <1>2, <2>6 DEF Brick, Most
  <2>8. PICK b : b = Brick(s, k)  OBVIOUS
  <2>9. t \div b \in Nat  BY <2>5, <2>7, <2>8
  <2> QED  BY <2>1, <2>4, <2>8, <2>9
<1>5. DOMAIN counts = 1..N /\ \A i \in 1..N : counts[i] \in Nat
  BY <1>1, <1>3, <1>4 DEF Bricks
<1>6. PICK clean : clean = CleanDays(counts)  OBVIOUS
<1>7. clean \in SUBSET (1..N)  BY <1>5, <1>6 DEF CleanDays
<1>8. clean # {} => Median2(counts, clean) \in Nat  BY <1>5, <1>7, MedianIs
<1>9. BpdOf(counts) \in Nat  BY <1>6, <1>8 DEF BpdOf
<1> QED  BY <1>1, <1>9 DEF Bpd, Counter, Rungs

\* The scale steps stay on the rungs.
LEMMA ScaledIs ==
  ASSUME NEW days \in Seq(Tick), NEW k \in Rungs
  PROVE  Scaled(days, k) \in Rungs
<1>1. PICK b : b = Bpd(days, k)  OBVIOUS
<1>2. b \in Nat  BY <1>1, BpdIs
<1>3. k \in Nat /\ Target \in Nat /\ Target >= 1 /\ KFloor \in Nat /\ KMax \in Nat /\ KFloor < KMax
  BY RungsAre
<1>4. PICK m : m = k * b  OBVIOUS
<1>5. m \in Nat  BY <1>2, <1>3, <1>4
<1>6. PICK t : t = 2 * Target  OBVIOUS
<1>7. t \in Nat /\ t >= 1  BY <1>3, <1>6
<1>8. PICK x : x = m \div t  OBVIOUS
<1>9. x \in Nat  BY <1>5, <1>7, <1>8
<1>10. Scaled(days, k) = Clamp(x)  BY <1>1, <1>4, <1>6, <1>8 DEF Scaled
<1>11. Clamp(x) \in KFloor..KMax  BY <1>3, <1>9 DEF Clamp, Least, Most
<1> QED  BY <1>10, <1>11 DEF Rungs

LEMMA WarmIs ==
  ASSUME NEW days \in Seq(Tick), NEW k \in Rungs
  PROVE  Warm(days, k) \in Seq(Rungs)
<1>1. PICK a : a = Scaled(days, k)  OBVIOUS
<1>2. a \in Rungs  BY <1>1, ScaledIs
<1>3. PICK b : b = Scaled(days, a)  OBVIOUS
<1>4. b \in Rungs  BY <1>2, <1>3, ScaledIs
<1>5. <<>> \in Seq(Rungs) /\ <<a>> \in Seq(Rungs) /\ <<a, b>> \in Seq(Rungs)  BY <1>2, <1>4
<1>6. Warm(days, k) \in {<<>>, <<a>>, <<a, b>>}  BY <1>1, <1>3 DEF Warm
<1> QED  BY <1>5, <1>6

LEMMA SeedIs ==
  ASSUME NEW warm \in Seq(Rungs)
  PROVE  Least(KMax, Most(Max({KSeed} \cup Range(warm)), 2 * KFloor)) \in Rungs
<1> DEFINE S == {KSeed} \cup Range(warm)
<1>1. Range(warm) \subseteq Rungs
  <2>1. \A i \in DOMAIN warm : warm[i] \in Rungs  BY LenProperties
  <2> QED  BY <2>1 DEF Range
<1>2. KSeed \in Nat /\ KMax \in Nat /\ KFloor \in Nat /\ KFloor < KMax /\ KFloor >= 1  BY RungsAre
<1>3. \A r \in Rungs : r \in Nat /\ r <= KMax  BY <1>2 DEF Rungs
<1>4. S \subseteq Int /\ S # {} /\ \A r \in S : r <= KSeed + KMax
  <2>1. \A r \in Range(warm) : r \in Nat /\ r <= KMax  BY <1>1, <1>3
  <2>2. \A r \in S : r = KSeed \/ r \in Range(warm)  OBVIOUS
  <2>3. \A r \in S : r \in Int /\ r <= KSeed + KMax  BY <2>1, <2>2, <1>2
  <2> QED  BY <2>3
<1>5. KSeed + KMax \in Int  BY <1>2
<1>6. Max(S) \in S
  <2> HIDE DEF S
  <2> QED  BY <1>4, <1>5, MaxBounded
<1>7. Max(S) \in Int  BY <1>4, <1>6
<1> HIDE DEF S
<1>8. Least(KMax, Most(Max(S), 2 * KFloor)) \in KFloor..KMax  BY <1>2, <1>7 DEF Least, Most
<1> QED  BY <1>8 DEF S, Rungs

\* The upper side stays on the rungs.
LEMMA UpperIs ==
  ASSUME NEW days \in Seq(Tick), NEW seed \in Rungs
  PROVE  Upper(days, seed) \in Rungs
<1> DEFINE F == [i \in 1..KMax |-> Wider(days)]
           E(g) == g = [n \in 0..KMax |-> IF n = 0 THEN seed ELSE Wider(days)[g[n - 1]]]
           c == CHOOSE g : E(g)
<1>1. KMax \in Nat /\ KFloor \in Nat /\ KFloor < KMax /\ KFloor >= 1  BY RungsAre
<1>2. \A h \in Rungs : Wider(days)[h] \in Rungs
  <2> TAKE h \in Rungs
  <2>1. Wider(days)[h] \in {h, Least(2 * h, KMax)}  BY DEF Wider, Rungs
  <2>2. h \in KFloor..KMax  BY DEF Rungs
  <2>3. Least(2 * h, KMax) \in KFloor..KMax  BY <1>1, <2>2 DEF Least
  <2> QED  BY <2>1, <2>3 DEF Rungs
<1>3. \A i \in 1..KMax : \A h \in Rungs : F[i][h] \in Rungs  BY <1>2
<1>4. PICK g : Folded(g, KMax, Rungs, seed, F)
  <2> HIDE DEF F
  <2> QED  BY <1>1, <1>3, FoldIs
<1>5. E(g)
  <2>1. g = [n \in 0..KMax |-> IF n = 0 THEN seed ELSE F[n][g[n - 1]]]  BY <1>4 DEF Folded
  <2>2. \A n \in 0..KMax : n # 0 => F[n] = Wider(days)  BY <1>1
  <2> HIDE DEF F
  <2> QED  BY <2>1, <2>2
<1>6. E(c)  BY <1>5
<1>7. Upper(days, seed) = c[KMax]  BY DEF Upper
<1> DEFINE T == {n \in 0..KMax : c[n] \in Rungs}
<1> HIDE DEF c
<1>8. c[0] = seed /\ \A n \in 1..KMax : c[n] = Wider(days)[c[n - 1]]
  BY <1>1, <1>6
<1> HIDE DEF E
<1>9. 0 \in T  BY <1>1, <1>8
<1>10. ASSUME NEW n \in 0..(KMax - 1), n \in T PROVE n + 1 \in T
  <2>1. n + 1 \in 1..KMax /\ n + 1 \in 0..KMax /\ (n + 1) - 1 = n  BY <1>1
  <2>2. c[n + 1] = Wider(days)[c[n]]  BY <1>8, <2>1
  <2> QED  BY <1>2, <1>10, <2>1, <2>2
<1> HIDE DEF T
<1>11. 0..KMax \subseteq T  BY <1>1, <1>9, <1>10, Upwards
<1>12. KMax \in T  BY <1>1, <1>11
<1> QED  BY <1>7, <1>12 DEF T

LEMMA WidthIs ==
  /\ Width[0] = KMax - KFloor
  /\ \A n \in 1..Iters : Width[n] = (Width[n - 1] + 1) \div 2
  /\ \A n \in 0..Iters : Width[n] \in Nat
<1> DEFINE w == KMax - KFloor
           F == [i \in 1..Iters |-> [x \in Nat |-> (x + 1) \div 2]]
           E(g) == g = [n \in 0..Iters |-> IF n = 0 THEN w ELSE (g[n - 1] + 1) \div 2]
           c == CHOOSE g : E(g)
<1>1. Iters \in Nat /\ w \in Nat  BY RungsAre
<1>2. \A i \in 1..Iters : \A x \in Nat : F[i][x] = (x + 1) \div 2 /\ F[i][x] \in Nat  OBVIOUS
<1>3. PICK g : Folded(g, Iters, Nat, w, F)
  <2> HIDE DEF F, w
  <2> QED  BY <1>1, <1>2, FoldIs
<1>4. E(g)
  <2>1. g = [n \in 0..Iters |-> IF n = 0 THEN w ELSE F[n][g[n - 1]]] /\ \A n \in 0..Iters : g[n] \in Nat
    BY <1>3 DEF Folded
  <2>2. \A n \in 0..Iters : n # 0 => n \in 1..Iters /\ n - 1 \in 0..Iters  BY <1>1
  <2>3. \A n \in 0..Iters : n # 0 => F[n][g[n - 1]] = (g[n - 1] + 1) \div 2  BY <1>2, <2>1, <2>2
  <2> HIDE DEF F, w
  <2> QED  BY <2>1, <2>3
<1>5. E(c)  BY <1>4
<1>6. Width = c  BY DEF Width
<1> DEFINE T == {n \in 0..Iters : Width[n] \in Nat}
<1> HIDE DEF c, w
<1>7. Width[0] = w /\ \A n \in 1..Iters : Width[n] = (Width[n - 1] + 1) \div 2
  BY <1>1, <1>5, <1>6
<1> HIDE DEF E
<1>8. 0 \in T  BY <1>1, <1>7
<1>9. ASSUME NEW n \in 0..(Iters - 1), n \in T PROVE n + 1 \in T
  <2>1. n + 1 \in 1..Iters /\ n + 1 \in 0..Iters /\ (n + 1) - 1 = n  BY <1>1
  <2>2. PICK x \in Nat : x = Width[n]  BY <1>9
  <2>3. Width[n + 1] = (x + 1) \div 2  BY <1>7, <2>1, <2>2
  <2>4. (x + 1) \div 2 \in Nat  OBVIOUS
  <2> QED  BY <2>1, <2>3, <2>4
<1> HIDE DEF T
<1>10. 0..Iters \subseteq T  BY <1>1, <1>8, <1>9, Upwards
<1> QED  BY <1>7, <1>10 DEF T, w

\* What holds the crossing: too many bricks below, not too many above.
Brackets(days) == {b \in Rungs \X Rungs : b[1] < b[2] /\ Over(days, b[1]) /\ ~Over(days, b[2])}

LEMMA NarrowIs ==
  ASSUME NEW days, NEW b \in Brackets(days), NEW w \in Nat, b[2] - b[1] <= w,
         NEW e, e = Narrow(days)[b]
  PROVE  e \in Brackets(days) /\ e[2] - e[1] <= (w + 1) \div 2
<1>1. PICK lo, hi : lo = b[1] /\ hi = b[2]  OBVIOUS
<1>2. b \in Rungs \X Rungs /\ b = <<lo, hi>> /\ lo < hi /\ Over(days, lo) /\ ~Over(days, hi)
      /\ lo \in Rungs /\ hi \in Rungs
  BY <1>1 DEF Brackets
<1>3. KFloor \in Nat /\ KMax \in Nat  BY RungsAre
<1>4. lo \in KFloor..KMax /\ hi \in KFloor..KMax  BY <1>2 DEF Rungs
<1>5. PICK mid : mid = (lo + hi) \div 2  OBVIOUS
<1>6. e = IF hi - lo <= 1 THEN b ELSE IF Over(days, mid) THEN <<mid, hi>> ELSE <<lo, mid>>
  BY <1>1, <1>2, <1>5 DEF Narrow, Rungs
<1>7. CASE hi - lo <= 1
  <2>1. e = b  BY <1>6, <1>7
  <2>2. hi - lo <= w /\ hi - lo >= 1  BY <1>1, <1>2, <1>3, <1>4
  <2>3. hi - lo <= (w + 1) \div 2  BY <1>3, <1>4, <1>7, <2>2
  <2> QED  BY <1>1, <2>1, <2>3
<1>8. CASE ~(hi - lo <= 1)
  <2>1. /\ mid \in KFloor..KMax /\ lo < mid /\ mid < hi
        /\ hi - mid <= ((hi - lo) + 1) \div 2 /\ mid - lo <= ((hi - lo) + 1) \div 2
    BY <1>3, <1>4, <1>5, <1>8
  <2>2. PICK x : x = hi - lo  OBVIOUS
  <2>3. x \in Int /\ x <= w  BY <1>1, <1>3, <1>4, <2>2
  <2>4. (x + 1) \div 2 <= (w + 1) \div 2  BY <2>3
  <2>5. mid \in Int /\ lo \in Int /\ hi \in Int  BY <1>3, <1>4, <2>1
  <2>6. hi - mid <= (w + 1) \div 2 /\ mid - lo <= (w + 1) \div 2
    <3>1. PICK y, z : y = (x + 1) \div 2 /\ z = (w + 1) \div 2  OBVIOUS
    <3>2. y \in Int /\ z \in Int  BY <2>3, <3>1
    <3>3. hi - mid <= y /\ mid - lo <= y /\ y <= z  BY <2>1, <2>2, <2>4, <3>1
    <3> QED  BY <2>5, <3>1, <3>2, <3>3
  <2>7. mid \in Rungs  BY <2>1 DEF Rungs
  <2>8. CASE Over(days, mid)
    <3>1. e = <<mid, hi>>  BY <1>6, <1>8, <2>8
    <3> QED  BY <1>2, <2>1, <2>6, <2>7, <2>8, <3>1 DEF Brackets
  <2>9. CASE ~Over(days, mid)
    <3>1. e = <<lo, mid>>  BY <1>6, <1>8, <2>9
    <3> QED  BY <1>2, <2>1, <2>6, <2>7, <2>9, <3>1 DEF Brackets
  <2> QED  BY <2>8, <2>9
<1> QED  BY <1>7, <1>8

\* Halving ends at neighbouring rungs with the crossing between them.
LEMMA BisectIs ==
  ASSUME NEW days, NEW hi \in Rungs, KFloor < hi, Over(days, KFloor), ~Over(days, hi)
  PROVE  \E b \in Brackets(days) : b[2] = b[1] + 1 /\ Bisect(days, hi) = Nearer(days, b[1], b[2])
<1> DEFINE s == <<KFloor, hi>>
           S == Brackets(days)
           F == [i \in 1..Iters |-> Narrow(days)]
           E(g) == g = [n \in 0..Iters |-> IF n = 0 THEN s ELSE Narrow(days)[g[n - 1]]]
           c == CHOOSE g : E(g)
<1>1. /\ KMax \in Nat /\ KFloor \in Nat /\ Iters \in Nat /\ KFloor \in Rungs
      /\ \A r \in Rungs : r \in Nat /\ r <= KMax
  BY RungsAre DEF Rungs
<1>2. s \in S /\ s[1] = KFloor /\ s[2] = hi  BY <1>1 DEF Brackets
<1>3. \A b \in S : b[1] \in Nat /\ b[2] \in Nat /\ b[1] < b[2]  BY <1>1 DEF Brackets
<1>4. \A b \in S : Narrow(days)[b] \in S
  <2> TAKE b \in S
  <2>1. PICK w \in Nat : w = b[2] - b[1]  BY <1>3
  <2>2. b[2] - b[1] <= w  BY <2>1
  <2> QED  BY <2>2, NarrowIs
<1>5. \A i \in 1..Iters : \A b \in S : F[i][b] \in S  BY <1>4
<1>6. PICK g : Folded(g, Iters, S, s, F)
  <2> HIDE DEF F, S, s
  <2> QED  BY <1>1, <1>2, <1>5, FoldIs
<1>7. E(g)
  <2>1. g = [n \in 0..Iters |-> IF n = 0 THEN s ELSE F[n][g[n - 1]]]  BY <1>6 DEF Folded
  <2>2. \A n \in 0..Iters : n # 0 => F[n] = Narrow(days)  BY <1>1
  <2> HIDE DEF F, s
  <2> QED  BY <2>1, <2>2
<1>8. E(c)  BY <1>7
<1>9. Bisect(days, hi) = Nearer(days, c[Iters][1], c[Iters][2])  BY DEF Bisect
<1> HIDE DEF c, s
<1>10. c[0] = s /\ \A n \in 1..Iters : c[n] = Narrow(days)[c[n - 1]]
  BY <1>1, <1>8
<1> DEFINE T == {n \in 0..Iters : c[n] \in S /\ c[n][2] - c[n][1] <= Width[n]}
<1> HIDE DEF E
<1>11. 0 \in T
  <2>1. hi - KFloor <= KMax - KFloor  BY <1>1
  <2> QED  BY <1>1, <1>2, <1>10, <2>1, WidthIs
<1>12. ASSUME NEW n \in 0..(Iters - 1), n \in T PROVE n + 1 \in T
  <2>1. n + 1 \in 1..Iters /\ n + 1 \in 0..Iters /\ (n + 1) - 1 = n  BY <1>1
  <2>2. PICK w \in Nat : w = Width[n] /\ Width[n + 1] = (w + 1) \div 2
    <3>1. n \in 0..Iters  BY <1>1
    <3>2. Width[n] \in Nat  BY <3>1, WidthIs
    <3>3. Width[n + 1] = (Width[(n + 1) - 1] + 1) \div 2  BY <2>1, WidthIs
    <3> QED  BY <2>1, <3>2, <3>3
  <2>3. PICK b, e : b = c[n] /\ e = c[n + 1]  OBVIOUS
  <2>4. b \in S /\ b[2] - b[1] <= w /\ e = Narrow(days)[b]  BY <1>10, <1>12, <2>1, <2>2, <2>3
  <2>5. e \in S /\ e[2] - e[1] <= (w + 1) \div 2  BY <2>4, NarrowIs
  <2> QED  BY <2>1, <2>2, <2>3, <2>5
<1> HIDE DEF T
<1>13. 0..Iters \subseteq T  BY <1>1, <1>11, <1>12, Upwards
<1>14. Iters \in T  BY <1>1, <1>13
<1>15. PICK b : b = c[Iters]  OBVIOUS
<1>16. b \in S /\ b[2] - b[1] <= Width[Iters]  BY <1>14, <1>15 DEF T
<1>17. Width[Iters] <= 1 /\ Width[Iters] \in Nat  BY <1>1, FitAssumption, WidthIs
<1>18. b[1] \in Nat /\ b[2] \in Nat /\ b[1] < b[2]  BY <1>3, <1>16
<1>19. b[2] = b[1] + 1  BY <1>16, <1>17, <1>18
<1> QED  BY <1>9, <1>15, <1>16, <1>19

\* Along the rungs of a steady window the bricks only get fewer.
LEMMA SteadyIs ==
  ASSUME NEW days \in Seq(Tick), Steady(days), NEW a \in Rungs, NEW b \in Rungs, a <= b
  PROVE  Bpd(days, b) <= Bpd(days, a)
<1>1. /\ KFloor \in Nat /\ KMax \in Nat /\ \A r \in Rungs : r \in Nat /\ r >= KFloor /\ r <= KMax
  BY RungsAre DEF Rungs
<1>2. \A r \in Rungs : Bpd(days, r) \in Nat  BY BpdIs
<1>3. PICK N \in Nat : N = b - a  BY <1>1
<1> DEFINE T == {n \in 0..N : Bpd(days, a + n) <= Bpd(days, a)}
<1>4. \A n \in 0..N : a + n \in Rungs  BY <1>1, <1>3 DEF Rungs
<1>5. 0 \in T
  <2>1. a + 0 = a /\ 0 \in 0..N  BY <1>1
  <2> QED  BY <1>2, <2>1
<1>6. ASSUME NEW n \in 0..(N - 1), n \in T PROVE n + 1 \in T
  <2>1. n \in 0..N /\ n + 1 \in 0..N  OBVIOUS
  <2>2. PICK r : r = a + n  OBVIOUS
  <2>3. r \in Rungs /\ r + 1 \in Rungs /\ r + 1 = a + (n + 1)  BY <1>1, <1>4, <2>1, <2>2
  <2>4. r \in KFloor..(KMax - 1)  BY <1>1, <2>3
  <2>5. Bpd(days, r + 1) <= Bpd(days, r)  BY <2>4 DEF Steady
  <2>6. Bpd(days, r) <= Bpd(days, a)  BY <1>6, <2>2
  <2>7. Bpd(days, r + 1) <= Bpd(days, a)  BY <1>2, <2>3, <2>5, <2>6
  <2> QED  BY <2>1, <2>3, <2>7
<1> HIDE DEF T
<1>7. 0..N \subseteq T  BY <1>5, <1>6, Upwards
<1>8. N \in T  BY <1>7
<1>9. a + N = b  BY <1>1, <1>3
<1> QED  BY <1>8, <1>9 DEF T

\* Of two neighbours about the crossing of a steady window, nothing beats the nearer.
LEMMA NeighboursAreBest ==
  ASSUME NEW days \in Seq(Tick), Steady(days), NEW lo \in Rungs, NEW hi \in Rungs, hi = lo + 1,
         Over(days, lo), ~Over(days, hi), NEW j \in Rungs
  PROVE  ~Beats(days, j, Nearer(days, lo, hi))
<1>1. PICK p, q, x, t : p = Bpd(days, lo) /\ q = Bpd(days, hi) /\ x = Bpd(days, j) /\ t = 2 * Target
  OBVIOUS
<1>2. p \in Nat /\ q \in Nat /\ x \in Nat /\ t \in Nat  BY <1>1, BpdIs, RungsAre
<1>3. p > t /\ q <= t  BY <1>1, <1>2 DEF Over
<1>4. lo \in Nat /\ hi \in Nat /\ j \in Nat  BY RungsAre
<1>5. j <= lo => x >= p  BY <1>1, <1>2, SteadyIs
<1>6. j >= hi => x <= q
  <2>1. ASSUME j >= hi PROVE x <= q
    <3>1. hi <= j  BY <1>4, <2>1
    <3> QED  BY <1>1, <3>1, SteadyIs
  <2> QED  BY <2>1
<1>7. x >= p \/ x <= q  BY <1>4, <1>5, <1>6
<1>8. /\ Error(days, lo) = p - t /\ Error(days, hi) = t - q
      /\ Error(days, j) = IF x < t THEN t - x ELSE x - t
  BY <1>1, <1>2, <1>3 DEF Error, Diff
<1>9. ~Dead(days, lo) /\ (Dead(days, hi) <=> q = 0) /\ (Dead(days, j) <=> x = 0)
  BY <1>1, <1>2, <1>3 DEF Dead
<1>10. Beats(days, hi, lo) <=> q # 0 /\ t - q < p - t  BY <1>8, <1>9 DEF Beats
<1>11. CASE Beats(days, hi, lo)
  <2>1. Nearer(days, lo, hi) = hi  BY <1>11 DEF Nearer
  <2>2. q # 0 /\ t - q < p - t  BY <1>10, <1>11
  <2>3. ~(Error(days, j) < Error(days, hi))  BY <1>2, <1>3, <1>7, <1>8, <2>2
  <2>4. ~Beats(days, j, hi)  BY <1>9, <2>2, <2>3 DEF Beats
  <2> QED  BY <2>1, <2>4
<1>12. CASE ~Beats(days, hi, lo)
  <2>1. Nearer(days, lo, hi) = lo  BY <1>12 DEF Nearer
  <2>2. q = 0 \/ ~(t - q < p - t)  BY <1>10, <1>12
  <2>3. x = 0 \/ ~(Error(days, j) < Error(days, lo))  BY <1>2, <1>3, <1>7, <1>8, <2>2
  <2>4. ~Beats(days, j, lo)  BY <1>9, <2>3 DEF Beats
  <2> QED  BY <2>1, <2>4
<1> QED  BY <1>11, <1>12

\* The probe only moves to what is strictly better.
LEMMA ProbeIs ==
  ASSUME NEW days, NEW k \in Rungs
  PROVE  /\ Probe(days, k) \in Rungs
         /\ Probe(days, k) # k => Beats(days, Probe(days, k), k)
<1>1. KFloor \in Nat /\ KMax \in Nat /\ KFloor < KMax /\ k \in KFloor..KMax  BY RungsAre DEF Rungs
<1>2. PICK up, dn : up = Least(k + 1, KMax) /\ dn = Most(k - 1, KFloor)  OBVIOUS
<1>3. up \in KFloor..KMax /\ dn \in KFloor..KMax  BY <1>1, <1>2 DEF Least, Most
<1>4. Probe(days, k) = IF Beats(days, up, k) /\ ~Beats(days, dn, up) THEN up
                       ELSE IF Beats(days, dn, k) THEN dn ELSE k
  BY <1>2 DEF Probe
<1> QED  BY <1>3, <1>4 DEF Rungs

LEMMA ProbeKeepsClose ==
  ASSUME NEW days \in Seq(Tick), NEW k \in Rungs, Close(days, k)
  PROVE  Close(days, Probe(days, k))
<1>1. PICK x : x = Probe(days, k)  OBVIOUS
<1>2. x \in Rungs /\ (x # k => Beats(days, x, k))  BY <1>1, ProbeIs
<1>3. CASE x = k
  BY <1>1, <1>3
<1>4. CASE x # k
  <2>1. ~Dead(days, k) /\ Error(days, k) * 100 <= Tol * 2 * Target  BY DEF Close
  <2>2. ~Dead(days, x) /\ Error(days, x) < Error(days, k)  BY <1>2, <1>4, <2>1 DEF Beats
  <2>3. PICK e, f, t : e = Error(days, k) /\ f = Error(days, x) /\ t = Tol * 2 * Target  OBVIOUS
  <2>4. e \in Int /\ f \in Int /\ t \in Int
    <3>1. Bpd(days, k) \in Nat /\ Bpd(days, x) \in Nat /\ 2 * Target \in Nat  BY <1>2, BpdIs, RungsAre
    <3>2. e \in Int /\ f \in Int  BY <2>3, <3>1 DEF Error, Diff
    <3>3. Tol \in Nat /\ Target \in Nat  BY RungsAre
    <3>4. (Tol * 2) * Target \in Int  BY <3>3
    <3> QED  BY <2>3, <3>2, <3>4
  <2>5. f * 100 <= t  BY <2>1, <2>2, <2>3, <2>4
  <2> QED  BY <1>1, <2>2, <2>3, <2>5 DEF Close
<1> QED  BY <1>3, <1>4

\* What a search of a steady window for the crossing finds is not beaten.
LEMMA BracketIs ==
  ASSUME NEW days \in Seq(Tick), NEW warm \in Seq(Rungs), NEW k, k = Bracket(days, warm)
  PROVE  \/ k = 0
         \/ k \in Rungs /\ (Steady(days) => \A j \in Rungs : ~Beats(days, j, k))
<1>1. PICK seed : seed = Least(KMax, Most(Max({KSeed} \cup Range(warm)), 2 * KFloor))  OBVIOUS
<1>2. seed \in Rungs  BY <1>1, SeedIs
<1>3. PICK hi : hi = Upper(days, seed)  OBVIOUS
<1>4. hi \in Rungs  BY <1>2, <1>3, UpperIs
<1>5. k = IF ~Over(days, KFloor) \/ Bpd(days, hi) >= 2 * Target THEN 0 ELSE Bisect(days, hi)
  BY <1>1, <1>3 DEF Bracket
<1>6. ASSUME Over(days, KFloor), ~(Bpd(days, hi) >= 2 * Target)
      PROVE  k \in Rungs /\ (Steady(days) => \A j \in Rungs : ~Beats(days, j, k))
  <2>1. k = Bisect(days, hi)  BY <1>5, <1>6
  <2>2. Bpd(days, hi) \in Nat /\ Target \in Nat /\ KFloor \in Nat  BY <1>4, BpdIs, RungsAre
  <2>3. ~Over(days, hi)  BY <1>6, <2>2 DEF Over
  <2>4. KFloor < hi
    <3>1. KFloor # hi  BY <1>6, <2>3
    <3>2. hi \in KFloor..KMax /\ KMax \in Nat  BY <1>4, RungsAre DEF Rungs
    <3> QED  BY <2>2, <3>1, <3>2
  <2>5. PICK b \in Brackets(days) : b[2] = b[1] + 1 /\ Bisect(days, hi) = Nearer(days, b[1], b[2])
    BY <1>4, <1>6, <2>3, <2>4, BisectIs
  <2>6. PICK lo, up : lo = b[1] /\ up = b[2]  OBVIOUS
  <2>7. lo \in Rungs /\ up \in Rungs /\ up = lo + 1 /\ Over(days, lo) /\ ~Over(days, up)
    BY <2>5, <2>6 DEF Brackets
  <2>8. k = Nearer(days, lo, up)  BY <2>1, <2>5, <2>6
  <2>9. k \in Rungs  BY <2>7, <2>8 DEF Nearer
  <2>10. Steady(days) => \A j \in Rungs : ~Beats(days, j, k)  BY <2>7, <2>8, NeighboursAreBest
  <2> QED  BY <2>9, <2>10
<1> QED  BY <1>5, <1>6

\* scale_to_target_k finds nothing, or on a steady window the best there is.
LEMMA SolveIs ==
  ASSUME NEW days \in Seq(Tick), NEW prior \in 0..KMax, NEW s, s = Solve(days, prior)
  PROVE  s = 0 \/ (s \in Rungs /\ (Steady(days) => Best(days, s)))
<1>1. PICK k0 : k0 = Clamp(IF prior = 0 THEN KCold ELSE prior)  OBVIOUS
<1>2. k0 \in Rungs
  <2>1. KFloor \in Nat /\ KMax \in Nat /\ KFloor < KMax /\ KCold \in Nat  BY RungsAre
  <2>2. k0 \in KFloor..KMax  BY <1>1, <2>1 DEF Clamp, Least, Most
  <2> QED  BY <2>2 DEF Rungs
<1>3. PICK warm : warm = Warm(days, k0)  OBVIOUS
<1>4. warm \in Seq(Rungs)  BY <1>2, <1>3, WarmIs
<1>5. PICK hit : hit = (warm # <<>> /\ Close(days, Last(warm)))  OBVIOUS
<1>6. PICK k : k = IF hit THEN Last(warm) ELSE Bracket(days, warm)  OBVIOUS
<1>7. PICK star : star = IF k = 0 THEN 0 ELSE Probe(days, k)  OBVIOUS
<1>8. s \in {0, star}
  BY <1>1, <1>3, <1>5, <1>6, <1>7 DEF Solve
<1>9. 0 \notin Rungs  BY RungsAre
<1>10. CASE hit
  <2>1. warm # <<>> /\ Close(days, Last(warm)) /\ k = Last(warm)  BY <1>5, <1>6, <1>10
  <2>2. Last(warm) \in Rungs  BY <1>4, <2>1, LenProperties DEF Last
  <2>3. star = Probe(days, k) /\ k \in Rungs  BY <1>7, <1>9, <2>1, <2>2
  <2>4. star \in Rungs /\ Close(days, star)  BY <2>1, <2>3, ProbeIs, ProbeKeepsClose
  <2> QED  BY <1>8, <2>4 DEF Best
<1>11. CASE ~hit
  <2>1. k = Bracket(days, warm)  BY <1>6, <1>11
  <2>2. CASE k = 0
    BY <1>7, <1>8, <2>2
  <2>3. CASE k # 0
    <3>1. k \in Rungs /\ (Steady(days) => \A j \in Rungs : ~Beats(days, j, k))
      BY <1>4, <2>1, <2>3, BracketIs
    <3>2. star = Probe(days, k)  BY <1>7, <2>3
    <3>3. star \in Rungs /\ (star # k => Beats(days, star, k))  BY <3>1, <3>2, ProbeIs
    <3>4. ASSUME Steady(days) PROVE Best(days, star)
      <4>1. star = k  BY <3>1, <3>3, <3>4
      <4> QED  BY <3>1, <3>4, <4>1 DEF Best, Rungs
    <3> QED  BY <1>8, <3>3, <3>4
  <2> QED  BY <2>2, <2>3
<1> QED  BY <1>10, <1>11

LEMMA PricedIs ==
  ASSUME NEW days \in Seq(Tick), ~Silent(days)
  PROVE  Min(Priced(days)) \in 1..Len(days) /\ Max(Priced(days)) \in 1..Len(days)
<1> DEFINE S == Priced(days)
<1>1. Len(days) \in Nat /\ DOMAIN days = 1..Len(days)  BY LenProperties
<1>2. S \subseteq 1..Len(days) /\ S # {}  BY <1>1 DEF Priced, Silent
<1>3. S \subseteq Nat /\ S \subseteq Int /\ Len(days) \in Int /\ \A i \in S : i <= Len(days)  BY <1>1, <1>2
<1> HIDE DEF S
<1>4. Min(S) \in S  BY <1>2, <1>3, MinBounded
<1>5. Max(S) \in S  BY <1>2, <1>3, MaxBounded
<1> QED  BY <1>2, <1>4, <1>5 DEF S

LEMMA TrailingWindowIs ==
  ASSUME NEW days \in Seq(Tick), NEW n \in Nat
  PROVE  TrailingWindow(days, n) \in Seq(Tick)
<1>1. PICK s : s = Span(days)  OBVIOUS
<1>2. s \in Seq(Tick)
  <2>1. CASE Silent(days)
    BY <1>1, <2>1 DEF Span
  <2>2. CASE ~Silent(days)
    <3>1. PICK a, b : a = Min(Priced(days)) /\ b = Max(Priced(days))  OBVIOUS
    <3>2. a \in 1..Len(days) /\ b \in 1..Len(days)  BY <2>2, <3>1, PricedIs
    <3>3. Len(days) \in Nat /\ \A i \in 1..Len(days) : days[i] \in Tick  BY LenProperties
    <3>4. a \in Int /\ b \in Int /\ \A i \in a..b : i \in 1..Len(days)  BY <3>2, <3>3
    <3>5. \A i \in a..b : days[i] \in Tick  BY <3>3, <3>4
    <3>6. SubSeq(days, a, b) \in Seq(Tick)  BY <3>4, <3>5, SubSeqProperties
    <3> QED  BY <1>1, <2>2, <3>1, <3>6 DEF Span
  <2> QED  BY <2>1, <2>2
<1>3. Len(s) \in Nat /\ \A i \in 1..Len(s) : s[i] \in Tick  BY <1>2, LenProperties
<1>4. PICK a, b : a = Most(1, Len(s) - n + 1) /\ b = Len(s)  OBVIOUS
<1>5. a \in Int /\ b \in Int /\ a >= 1  BY <1>3, <1>4 DEF Most
<1>6. \A i \in a..b : i \in 1..Len(s)  BY <1>3, <1>4, <1>5
<1>7. \A i \in a..b : s[i] \in Tick  BY <1>3, <1>6
<1>8. SubSeq(s, a, b) \in Seq(Tick)  BY <1>5, <1>7, SubSeqProperties
<1> QED  BY <1>1, <1>4, <1>8 DEF TrailingWindow

LEMMA MergedIs ==
  ASSUME NEW a \in Seq(Tick), NEW b \in Seq(Tick)
  PROVE  Merged(a, b) \in Seq(Tick)
<1>1. PICK n : n = Least(Len(a), Len(b))  OBVIOUS
<1>2. Len(a) \in Nat /\ Len(b) \in Nat  BY LenProperties
<1>3. n \in Nat /\ n <= Len(a) /\ n <= Len(b)  BY <1>1, <1>2 DEF Least
<1> DEFINE e(i) == IF Quiet(a[i]) \/ Quiet(b[i]) THEN [travel |-> 0, sigma |-> 0]
                   ELSE [travel |-> a[i].travel + b[i].travel, sigma |-> Most(a[i].sigma, b[i].sigma)]
<1>4. ASSUME NEW i \in 1..n PROVE e(i) \in Tick
  <2>1. i \in 1..Len(a) /\ i \in 1..Len(b)  BY <1>2, <1>3
  <2>2. PICK x, y : x = a[i] /\ y = b[i]  OBVIOUS
  <2>3. x \in [travel : Nat, sigma : Nat] /\ y \in [travel : Nat, sigma : Nat]
    BY <2>1, <2>2, LenProperties DEF Tick
  <2>4. PICK t, u, v, w : t = x.travel /\ u = y.travel /\ v = x.sigma /\ w = y.sigma  OBVIOUS
  <2>5. t \in Nat /\ u \in Nat /\ v \in Nat /\ w \in Nat  BY <2>3, <2>4
  <2>6. t + u \in Nat /\ Most(v, w) \in Nat  BY <2>5 DEF Most
  <2>7. e(i) \in {[travel |-> 0, sigma |-> 0], [travel |-> t + u, sigma |-> Most(v, w)]}  BY <2>2, <2>4
  <2> HIDE DEF e
  <2>8. [travel |-> 0, sigma |-> 0] \in Tick  BY DEF Tick
  <2>9. [travel |-> t + u, sigma |-> Most(v, w)] \in Tick  BY <2>6 DEF Tick
  <2> QED  BY <2>7, <2>8, <2>9
<1>5. Merged(a, b) = [i \in 1..n |-> e(i)]  BY <1>1 DEF Merged
<1> HIDE DEF e
<1>6. [i \in 1..n |-> e(i)] \in [1..n -> Tick]  BY <1>4
<1>7. [1..n -> Tick] \subseteq Seq(Tick)  BY <1>3, SeqDef
<1> QED  BY <1>5, <1>6, <1>7

\* What a fit of some days over a window says.
LEMMA FittedIs ==
  ASSUME NEW days \in Seq(Tick), NEW n \in Nat, NEW prior \in 0..KMax, NEW o, o = Fitted(days, n, prior)
  PROVE  o.out = "ok" =>
           o.k \in Rungs /\ (Steady(TrailingWindow(days, n)) => Best(TrailingWindow(days, n), o.k))
<1>1. PICK t : t = TrailingWindow(days, n)  OBVIOUS
<1>2. t \in Seq(Tick)  BY <1>1, TrailingWindowIs
<1>3. PICK s : s = Solve(t, prior)  OBVIOUS
<1>4. s = 0 \/ (s \in Rungs /\ (Steady(t) => Best(t, s)))  BY <1>2, <1>3, SolveIs
<1>5. o = IF s > 0 THEN Ok(s) ELSE Skip  BY <1>1, <1>3 DEF Fitted
<1>6. Skip.out # "ok" /\ Ok(s).k = s  BY DEF Skip, Ok
<1>7. CASE o = Ok(s) /\ s > 0
  <2>1. s # 0  BY <1>7
  <2> QED  BY <1>1, <1>4, <1>6, <1>7, <2>1
<1>8. CASE o = Skip
  BY <1>6, <1>8
<1> QED  BY <1>5, <1>7, <1>8

-----------------------------------------------------------------------------
\* Calibrate: what is published is the best there is.

\* A k as it is staged, that is not worse than another one.
Good(k) == k.k \in Rungs /\ <<k.basis, k.day, k.win, k.k>> \notin Worse

AllGood(ks) == \A i \in DOMAIN ks : Good(ks[i])
QueueGood == \A n \in 1..Len(queue) : queue[n].out = "ok" => Good(queue[n].k)

\* Every pass has tickers of its kind.
Tasks ==
  /\ phase = "crosses" => mem.todo \subseteq Crosses
  /\ phase = "usdc" => mem.todo \subseteq DOMAIN UsdcLegs

FitInv ==
  /\ day \in Days
  /\ AllGood(file.live) /\ AllGood(file.staged) /\ AllGood(mem.seen.live)
  /\ QueueGood /\ Tasks

LEMMA WorseIs ==
  ASSUME NEW b, NEW d, NEW w, NEW k, <<b, d, w, k>> \in Worse
  PROVE  b \in Bases /\ Steady(FittedOn(b, d, w)) /\ ~Best(FittedOn(b, d, w), k)
<1> DEFINE W(x) == LET days == FittedOn(x[1], x[2], x[3])
                   IN {<<x[1], x[2], x[3], j>> : j \in {i \in KFloor..KMax : Steady(days) /\ ~Best(days, i)}}
<1>1. Worse = UNION {W(x) : x \in Bases \X Days \X Windows}  BY DEF Worse
<1>2. PICK x \in Bases \X Days \X Windows : <<b, d, w, k>> \in W(x)
  <2> HIDE DEF W
  <2> QED  BY <1>1
<1>3. PICK j : /\ <<b, d, w, k>> = <<x[1], x[2], x[3], j>>
               /\ Steady(FittedOn(x[1], x[2], x[3])) /\ ~Best(FittedOn(x[1], x[2], x[3]), j)
  BY <1>2
<1>4. b = x[1] /\ d = x[2] /\ w = x[3] /\ k = j /\ b \in Bases  BY <1>2, <1>3
<1> QED  BY <1>3, <1>4

\* What was fitted on a basis by the solver is good.
LEMMA FittedIsGood ==
  ASSUME NEW b, NEW d, NEW w, NEW x \in Rungs,
         Steady(FittedOn(b, d, w)) => Best(FittedOn(b, d, w), x),
         NEW k, k = [day |-> d, win |-> w, k |-> x, basis |-> b]
  PROVE  Good(k)
<1>1. k.basis = b /\ k.day = d /\ k.win = w /\ k.k = x  OBVIOUS
<1>2. <<b, d, w, x>> \notin Worse  BY WorseIs
<1> QED  BY <1>1, <1>2 DEF Good

LEMMA ForcedIsGood ==
  ASSUME NEW d, NEW w, NEW i \in DOMAIN Forced,
         NEW k, k = [day |-> d, win |-> w, k |-> Forced[i], basis |-> <<>>]
  PROVE  Good(k)
<1>1. Forced[i] \in Rungs  BY CalibrateAssumption DEF Range, Rungs
<1>2. Range(Legs) \cup Range(UsdcLegs) \subseteq Roster \X Roster  BY CalibrateAssumption
<1>3. <<>> \notin Bases
  <2> SUFFICES ASSUME <<>> \in Bases PROVE FALSE
    OBVIOUS
  <2>1. CASE <<>> \in {<<j>> : j \in Roster}
    <3>1. PICK j \in Roster : <<>> = <<j>>  BY <2>1
    <3>2. Len(<<>>) = 0 /\ Len(<<j>>) = 1  OBVIOUS
    <3> QED  BY <3>1, <3>2
  <2>2. CASE <<>> \in Roster \X Roster
    <3>1. PICK p, q : <<>> = <<p, q>>  BY <2>2
    <3>2. Len(<<>>) = 0 /\ Len(<<p, q>>) = 2  OBVIOUS
    <3> QED  BY <3>1, <3>2
  <2> QED  BY <1>2, <2>1, <2>2 DEF Bases
<1>4. <<<<>>, d, w, Forced[i]>> \notin Worse  BY <1>3, WorseIs
<1>5. k.basis = <<>> /\ k.day = d /\ k.win = w /\ k.k = Forced[i]  OBVIOUS
<1> QED  BY <1>1, <1>4, <1>5 DEF Good

LEMMA FilesAre ==
  ASSUME NEW i \in Roster, NEW d \in Days
  PROVE  Files[i][d].days \in Seq(Tick)
<1>1. i \in TickerIds  BY DEF TickerIds
<1> QED  BY <1>1, CalibrateAssumption DEF Tick

\* On its own ticks, and on its legs'.
LEMMA AloneIs ==
  ASSUME NEW i \in Roster, NEW d \in Days, NEW w \in Windows, NEW p \in 0..KMax,
         NEW o, o = Alone[i][d][w][p], o.out = "ok"
  PROVE  o.k \in Rungs /\ (Steady(FittedOn(<<i>>, d, w)) => Best(FittedOn(<<i>>, d, w), o.k))
<1>1. PICK f, days : f = Files[i][d] /\ days = f.days  OBVIOUS
<1>2. days \in Seq(Tick) /\ w \in Nat  BY <1>1, FilesAre, CalibrateAssumption
<1>3. o = CalibrateOne(f, w, p)  BY <1>1 DEF Alone
<1>4. Skip.out # "ok" /\ Failed.out # "ok"  BY DEF Skip, Failed
<1>5. o = Fitted(days, w, p)  BY <1>1, <1>3, <1>4 DEF CalibrateOne
<1>6. PICK t : t = TrailingWindow(days, w)  OBVIOUS
<1>7. o.k \in Rungs /\ (Steady(t) => Best(t, o.k))  BY <1>2, <1>5, <1>6, FittedIs
<1>8. FittedOn(<<i>>, d, w) = t
  <2>1. Len(<<i>>) = 1 /\ <<i>>[1] = i  OBVIOUS
  <2> QED  BY <1>1, <1>6, <2>1 DEF FittedOn
<1> QED  BY <1>7, <1>8

LEMMA OnLegsIs ==
  ASSUME NEW i \in Crosses \cup DOMAIN UsdcLegs, NEW d \in Days, NEW w \in Windows, NEW p \in 0..KMax,
         NEW o, o = OnLegs[i][d][w][p], o.out = "ok"
  PROVE  o.k \in Rungs /\ (Steady(FittedOn(LegsOf(i), d, w)) => Best(FittedOn(LegsOf(i), d, w), o.k))
<1>1. LegsOf(i) \in Roster \X Roster
  <2>1. Range(Legs) \cup Range(UsdcLegs) \subseteq Roster \X Roster /\ DOMAIN Legs = Crosses  BY CalibrateAssumption
  <2> QED  BY <2>1 DEF LegsOf, Range
<1>2. PICK a \in Roster, b \in Roster : LegsOf(i) = <<a, b>>  BY <1>1
<1>3. PICK s, t : s = Files[a][d].days /\ t = Files[b][d].days  OBVIOUS
<1>4. s \in Seq(Tick) /\ t \in Seq(Tick) /\ w \in Nat  BY <1>3, FilesAre, CalibrateAssumption
<1>5. PICK m : m = Merged(s, t)  OBVIOUS
<1>6. m \in Seq(Tick)  BY <1>4, <1>5, MergedIs
<1>7. o = CalibrateOneSynth(Files[i][d], Files[a][d], Files[b][d], w, p)
  <2>1. LegsOf(i)[1] = a /\ LegsOf(i)[2] = b  BY <1>2
  <2> QED  BY <2>1 DEF OnLegs
<1>8. Skip.out # "ok" /\ Failed.out # "ok"  BY DEF Skip, Failed
<1>9. o = Fitted(m, w, p)  BY <1>3, <1>5, <1>7, <1>8 DEF CalibrateOneSynth
<1>10. PICK x : x = TrailingWindow(m, w)  OBVIOUS
<1>11. o.k \in Rungs /\ (Steady(x) => Best(x, o.k))  BY <1>4, <1>6, <1>9, <1>10, FittedIs
<1>12. FittedOn(LegsOf(i), d, w) = x
  <2>1. Len(<<a, b>>) = 2 /\ <<a, b>>[1] = a /\ <<a, b>>[2] = b  OBVIOUS
  <2> QED  BY <1>2, <1>3, <1>5, <1>10, <2>1 DEF FittedOn
<1> QED  BY <1>11, <1>12

\* What a pass stages is good.
LEMMA OfPassIs ==
  ASSUME CalIInv, FitInv, NEW i, Turn(i), NEW o, o = OfPass(i), o.out = "ok",
         NEW k, k = [day |-> day, win |-> mem.win, k |-> o.k, basis |-> Basis(i)]
  PROVE  Good(k)
<1>1. phase \in {"base", "crosses", "usdc"} /\ i \in mem.todo  BY DEF Turn
<1>2. Run /\ Progress  BY <1>1 DEF CalIInv, Working
<1>3. mem.win \in Windows /\ mem.roster \subseteq Roster /\ day \in Days  BY <1>2 DEF Run, FitInv
<1>4. PICK p : p = Prior(i)  OBVIOUS
<1>5. p \in 0..KMax
  <2>1. KFloor \in Nat /\ KMax \in Nat  BY RungsAre
  <2>2. i \in DOMAIN mem.seen.live => mem.seen.live[i].k \in KFloor..KMax
    BY DEF FitInv, AllGood, Good, Rungs
  <2> QED  BY <1>4, <2>1, <2>2 DEF Prior
<1>6. CASE i \in DOMAIN Forced /\ phase # "usdc"
  <2>1. o = Ok(Forced[i])  BY <1>6 DEF OfPass
  <2>2. o.k = Forced[i]  BY <2>1 DEF Ok
  <2>3. Basis(i) = <<>>  BY <1>1, <1>6 DEF Basis
  <2> QED  BY <1>6, <2>2, <2>3, ForcedIsGood
<1>7. CASE phase = "base" /\ i \notin DOMAIN Forced
  <2>1. Untried = mem.todo  BY <1>7 DEF Untried
  <2>2. i \in Roster  BY <1>1, <1>2, <1>3, <2>1 DEF Progress
  <2>3. o = Alone[i][day][mem.win][p]  BY <1>4, <1>7 DEF OfPass
  <2>4. Basis(i) = <<i>>  BY <1>7 DEF Basis
  <2>5. o.k \in Rungs /\ (Steady(FittedOn(<<i>>, day, mem.win)) => Best(FittedOn(<<i>>, day, mem.win), o.k))
    BY <1>3, <1>5, <2>2, <2>3, AloneIs
  <2> QED  BY <2>4, <2>5, FittedIsGood
<1>8. CASE (phase = "crosses" /\ i \notin DOMAIN Forced) \/ phase = "usdc"
  <2>1. Roster \cap Crosses = {} /\ DOMAIN UsdcLegs \subseteq Roster  BY CalibrateAssumption
  <2>2. /\ phase = "crosses" => i \in Crosses
        /\ phase = "usdc" => i \in DOMAIN UsdcLegs
    BY <1>1 DEF FitInv, Tasks
  <2>3. i \in Crosses \cup DOMAIN UsdcLegs  BY <1>8, <2>2
  <2>4. Basis(i) = LegsOf(i)
    <3>1. CASE phase = "crosses" /\ i \notin DOMAIN Forced
      BY <2>2, <3>1 DEF Basis, LegsOf
    <3>2. CASE phase = "usdc"
      BY <2>1, <2>2, <3>2 DEF Basis, LegsOf
    <3> QED  BY <1>8, <3>1, <3>2
  <2>5. o = OnLegs[i][day][mem.win][p]  BY <1>4, <1>8 DEF OfPass
  <2>6. o.k \in Rungs /\ (Steady(FittedOn(LegsOf(i), day, mem.win)) => Best(FittedOn(LegsOf(i), day, mem.win), o.k))
    BY <1>3, <1>5, <2>3, <2>5, OnLegsIs
  <2> QED  BY <2>4, <2>6, FittedIsGood
<1> QED  BY <1>1, <1>6, <1>7, <1>8

\* What the queue will have made of a good file is good.
LEMMA DueIsGood ==
  ASSUME CalIInv, FitInv
  PROVE  AllGood(Due.staged)
<1>1. PICK dd : dd = Drained(file, queue)  OBVIOUS
<1>2. FileShape(file) /\ IsQueue(queue)  BY DEF CalIInv, Stored
<1>3. \A i \in DOMAIN dd.staged :
        \/ i \in DOMAIN file.staged /\ dd.staged[i] = file.staged[i]
        \/ \E n \in 1..Len(queue) : queue[n].out = "ok" /\ dd.staged[i] = queue[n].k
  BY <1>1, <1>2, DrainStaged
<1>4. \A i \in DOMAIN dd.staged : Good(dd.staged[i])
  BY <1>3 DEF FitInv, AllGood, QueueGood
<1> QED  BY <1>1, <1>4 DEF AllGood, Due

LEMMA EmptyIsGood == AllGood(<<>>)
<1>1. DOMAIN <<>> = {}  OBVIOUS
<1> QED  BY <1>1 DEF AllGood

LEMMA StageIsGood ==
  ASSUME CalIInv, FitInv, NEW i, NEW o, NEW flush \in BOOLEAN, Turn(i), Stage(i, o, flush),
         o = OfPass(i) \/ o = Failed, UNCHANGED <<day, win, file, phase>>
  PROVE  FitInv'
<1>1. MemShape /\ IsQueue(queue)  BY DEF CalIInv
<1>2. PICK k : k = [day |-> day, win |-> mem.win, k |-> o.k, basis |-> Basis(i)]  OBVIOUS
<1>3. PICK s : s = [id |-> i, out |-> o.out, k |-> k, counted |-> phase = "base"]  OBVIOUS
<1>4. queue' = Append(queue, s)  BY <1>2, <1>3 DEF Stage
<1>5. mem'.seen = mem.seen /\ mem'.todo = mem.todo \ {i}
  <2>1. PICK ks : mem' = [mem EXCEPT !.todo = mem.todo \ {i}, !.ks = ks]  BY <1>2 DEF Stage
  <2> QED  BY <2>1, <1>1 DEF MemShape
<1>6. s.out = "ok" => Good(s.k)
  <2>1. s.out = o.out /\ s.k = k  BY <1>3
  <2>2. Failed.out # "ok"  BY DEF Failed
  <2> QED  BY <1>2, <2>1, <2>2, OfPassIs
<1>7. QueueGood'
  <2>1. PICK q, m : q = Append(queue, s) /\ m = Len(queue)  OBVIOUS
  <2>2. m \in Nat /\ Len(q) = m + 1 /\ q[m + 1] = s /\ \A n \in 1..m : q[n] = queue[n]
    BY <1>1, <2>1, QueueAppend
  <2>3. \A n \in 1..Len(q) : n \in 1..m \/ n = m + 1  BY <2>2
  <2>4. \A n \in 1..m : queue[n].out = "ok" => Good(queue[n].k)  BY <2>1 DEF FitInv, QueueGood
  <2>5. \A n \in 1..Len(q) : q[n].out = "ok" => Good(q[n].k)  BY <1>6, <2>2, <2>3, <2>4
  <2> QED  BY <1>4, <2>1, <2>5 DEF QueueGood
<1>8. Tasks'  BY <1>5 DEF FitInv, Tasks
<1> QED  BY <1>5, <1>7, <1>8 DEF FitInv

LEMMA CommitIsGood ==
  ASSUME CalIInv, FitInv, Commit
  PROVE  FitInv'
<1>1. /\ upd # None /\ queue' = <<>> /\ phase' = After(upd.job)
      /\ file' = Written(Drained(upd.copy, queue), upd.job) /\ UNCHANGED day
  BY DEF Commit
<1>2. Writing /\ Stored /\ MemShape  BY <1>1 DEF CalIInv
<1>3. PICK d, h : d = Due /\ h = file'  OBVIOUS
<1>4. h = Written(d, upd.job)  BY <1>1, <1>2, <1>3 DEF Writing, Due
<1>5. FileShape(d) /\ d.live = file.live
  <2>1. FileShape(file) /\ IsQueue(queue)  BY <1>2 DEF CalIInv, Stored
  <2>2. d = Drained(file, queue)  BY <1>3 DEF Due
  <2> QED  BY <2>1, <2>2, DrainIs
<1>6. AllGood(d.staged) /\ AllGood(d.live)  BY <1>3, <1>5, DueIsGood DEF FitInv
<1>7. Working => AllGood(mem.ks)
  <2>1. Working => mem.ks = Restrict(d.staged, DOMAIN d.staged \cap (mem.roster \cup Crosses))
    BY <1>3 DEF CalIInv, Progress, Resumed
  <2>2. \A S : AllGood(Restrict(d.staged, DOMAIN d.staged \cap S))  BY <1>6 DEF AllGood, Restrict
  <2> QED  BY <2>1, <2>2
<1>8. AllGood(h.live) /\ AllGood(h.staged)
  <2>1. CASE upd.job = "arm"
    <3> DEFINE g == IF d.run = mem.run THEN d.staged ELSE <<>>
    <3>1. \E r, l : h = [d EXCEPT !.staged = g, !.run = r, !.last = l]  BY <1>4, <2>1 DEF Written, Arm
    <3> HIDE DEF g
    <3>2. h.live = d.live /\ h.staged = g  BY <3>1, <1>5 DEF FileShape
    <3>3. AllGood(g)  BY <1>6, EmptyIsGood DEF g
    <3> QED  BY <1>6, <3>2, <3>3
  <2>2. CASE upd.job = "promote"
    <3>1. phase = "promote"  BY <1>2, <2>2 DEF Writing
    <3>2. h = Promote(d, mem)  BY <1>4, <2>2 DEF Written
    <3>3. h.live = mem.ks /\ h.staged = d.staged  BY <1>5, <3>2, PromoteIs
    <3> QED  BY <1>6, <1>7, <3>1, <3>3 DEF Working
  <2>3. CASE upd.job = "final"
    <3>1. phase = "final"  BY <1>2, <2>3 DEF Writing
    <3>2. h = Finish(d, mem)  BY <1>4, <2>3 DEF Written
    <3>3. h.live = mem.ks /\ h.staged = <<>>  BY <1>5, <3>2, FinishIs
    <3> QED  BY <1>7, <3>1, <3>3, EmptyIsGood DEF Working
  <2>4. CASE upd.job \in {"flush", "drop"}
    <3>1. h = d  BY <1>4, <2>4 DEF Written
    <3> QED  BY <1>6, <3>1
  <2>5. upd.job \in {"arm", "promote", "final", "flush", "drop"}  BY <1>2 DEF Writing
  <2> QED  BY <2>1, <2>2, <2>3, <2>4, <2>5
<1>9. AllGood(mem'.seen.live) /\ Tasks'
  <2>1. CASE upd.job = "arm"
    <3>1. phase' = "base"  BY <1>1, <2>1 DEF After
    <3>2. \E ks, w : mem' = [mem EXCEPT !.ks = ks, !.work = w, !.todo = w]  BY <2>1 DEF Commit
    <3>3. mem'.seen = mem.seen  BY <1>2, <3>2 DEF MemShape
    <3> QED  BY <3>1, <3>3 DEF FitInv, Tasks
  <2>2. CASE upd.job = "promote"
    <3>1. phase' = "crosses"  BY <1>1, <2>2 DEF After
    <3>2. PICK t : t = Runnable \ DOMAIN mem.ks  OBVIOUS
    <3>3. mem' = [mem EXCEPT !.todo = t]  BY <2>2, <3>2 DEF Commit
    <3>4. mem'.seen = mem.seen /\ mem'.todo = t  BY <1>2, <3>3 DEF MemShape
    <3>5. t \subseteq Crosses  BY <3>2 DEF Runnable
    <3> QED  BY <3>1, <3>4, <3>5 DEF FitInv, Tasks
  <2>3. CASE upd.job = "flush"
    <3>1. phase' = phase /\ mem' = mem  BY <1>1, <2>3 DEF After, Commit
    <3> QED  BY <3>1 DEF FitInv, Tasks
  <2>4. CASE upd.job \in {"final", "drop"}
    <3>1. phase' = "idle"  BY <1>1, <2>4 DEF After
    <3>2. mem' = NoMem  BY <2>4 DEF Commit
    <3>3. mem'.seen.live = <<>>  BY <3>2 DEF NoMem
    <3> QED  BY <3>1, <3>3, EmptyIsGood DEF Tasks
  <2>5. upd.job \in {"arm", "promote", "final", "flush", "drop"}  BY <1>2 DEF Writing
  <2> QED  BY <2>1, <2>2, <2>3, <2>4, <2>5
<1>10. QueueGood'
  <2>1. Len(<<>>) = 0  OBVIOUS
  <2> QED  BY <1>1, <2>1 DEF QueueGood
<1> QED  BY <1>1, <1>3, <1>8, <1>9, <1>10 DEF FitInv, AllGood

\* A step that writes nothing, with what it does to the rest.
LEMMA NothingFitted ==
  ASSUME FitInv, day' \in Days, file'.live = file.live, file'.staged = file.staged,
         queue' = queue \/ queue' = <<>>,
         mem'.seen.live \in {mem.seen.live, file.live, <<>>}, Tasks'
  PROVE  FitInv'
<1>1. Len(<<>>) = 0  OBVIOUS
<1>2. QueueGood'  BY <1>1 DEF FitInv, QueueGood
<1>3. AllGood(mem'.seen.live)  BY EmptyIsGood DEF FitInv
<1> QED  BY <1>2, <1>3 DEF FitInv, AllGood

LEMMA FitStep ==
  ASSUME CalIInv, FitInv, [CalNext]_calVars
  PROVE  FitInv'
<1>1. day \in Days /\ Tasks /\ MemShape /\ FileShape(file)  BY DEF FitInv, CalIInv, Stored
<1>2. NoMem.seen.live = <<>>  BY DEF NoMem
<1>3. CASE StartRun
  <2>1. phase' = "arm" /\ UNCHANGED <<day, file, queue>>  BY <1>3 DEF StartRun
  <2>2. \E r, w, s : mem' = [NoMem EXCEPT !.run = r, !.day = day, !.win = w, !.roster = s,
                      !.seen = [live |-> file.live, listed |-> file.listed, gen |-> file.gen]]
    BY <1>3 DEF StartRun
  <2>3. mem'.seen = [live |-> file.live, listed |-> file.listed, gen |-> file.gen]
    BY <2>2 DEF NoMem
  <2>4. mem'.seen.live = file.live  BY <2>3
  <2>5. Tasks'  BY <2>1 DEF Tasks
  <2> QED  BY <1>1, <2>1, <2>4, <2>5, NothingFitted
<1>4. CASE Lock
  <2>1. UNCHANGED <<day, file, phase, queue, mem>>  BY <1>4 DEF Lock
  <2>2. Tasks'  BY <1>1, <2>1 DEF Tasks
  <2> QED  BY <1>1, <2>1, <2>2, NothingFitted
<1>5. CASE Commit
  BY <1>5, CommitIsGood
<1>6. CASE CommitFails
  <2>1. UNCHANGED <<day, file>> /\ (queue' = queue \/ queue' = <<>>)
        /\ phase' \in {phase, "idle", "drop"} /\ (mem' = mem \/ mem' = NoMem)
        /\ (phase' = phase => mem' = mem \/ phase = "idle")
    BY <1>6 DEF CommitFails
  <2>2. Tasks'  BY <1>1, <2>1 DEF Tasks
  <2> QED  BY <1>1, <1>2, <2>1, <2>2, NothingFitted
<1>7. CASE PassEnds
  <2>1. UNCHANGED <<day, file, queue>> /\ phase \in {"base", "crosses", "usdc"}  BY <1>7 DEF PassEnds
  <2>2. mem'.seen = mem.seen /\ (phase = "crosses" => mem'.todo = Inferred)
    <3>1. mem' = IF phase = "crosses" THEN [mem EXCEPT !.todo = Inferred] ELSE mem  BY <1>7 DEF PassEnds
    <3>2. PICK t : t = Inferred  OBVIOUS
    <3>3. mem' = IF phase = "crosses" THEN [mem EXCEPT !.todo = t] ELSE mem  BY <3>1, <3>2
    <3> QED  BY <1>1, <3>2, <3>3 DEF MemShape
  <2>3. phase' # "crosses" /\ (phase' = "usdc" => phase = "crosses")  BY <1>7, <2>1 DEF PassEnds
  <2>4. Inferred \subseteq DOMAIN UsdcLegs  BY DEF Inferred
  <2>5. Tasks'  BY <2>2, <2>3, <2>4 DEF Tasks
  <2> QED  BY <1>1, <2>1, <2>2, <2>5, NothingFitted
<1>8. CASE KillRun
  <2>1. UNCHANGED <<day, file>> /\ queue' = <<>> /\ phase' = "idle" /\ mem' = NoMem  BY <1>8 DEF KillRun
  <2>2. Tasks'  BY <2>1 DEF Tasks
  <2> QED  BY <1>1, <1>2, <2>1, <2>2, NothingFitted
<1>9. CASE Weights
  <2>1. UNCHANGED <<day, phase, queue, mem>>  BY <1>9 DEF Weights
  <2>2. PICK v \in Volumes : file' = [file EXCEPT !.listed = v, !.gen = @ + 1]  BY <1>9 DEF Weights
  <2>3. file'.live = file.live /\ file'.staged = file.staged  BY <1>1, <2>2 DEF FileShape
  <2>4. Tasks'  BY <1>1, <2>1 DEF Tasks
  <2> QED  BY <1>1, <2>1, <2>3, <2>4, NothingFitted
<1>10. CASE Tomorrow
  <2>1. UNCHANGED <<file, phase, queue, mem>> /\ day < LastNight /\ day' = day + 1  BY <1>10 DEF Tomorrow
  <2>2. day' \in Days
    <3>1. LastNight \in Nat  BY CalibrateAssumption
    <3> QED  BY <1>1, <2>1, <3>1 DEF Days
  <2>3. Tasks'  BY <1>1, <2>1 DEF Tasks
  <2> QED  BY <2>1, <2>2, <2>3, NothingFitted
<1>11. CASE \E i \in mem.todo, flush \in BOOLEAN : FitOne(i, flush) \/ FitFails(i, flush)
  <2>1. PICK i \in mem.todo, flush \in BOOLEAN : FitOne(i, flush) \/ FitFails(i, flush)  BY <1>11
  <2>2. /\ Turn(i) /\ UNCHANGED <<day, win, file, phase>>
        /\ Stage(i, OfPass(i), flush) \/ Stage(i, Failed, flush)
    BY <2>1 DEF FitOne, FitFails
  <2> QED  BY <2>2, StageIsGood
<1>12. CASE UNCHANGED calVars
  <2>1. UNCHANGED <<day, file, phase, queue, mem>>  BY <1>12 DEF calVars
  <2>2. Tasks'  BY <1>1, <2>1 DEF Tasks
  <2> QED  BY <1>1, <2>1, <2>2, NothingFitted
<1> QED
  BY <1>3, <1>4, <1>5, <1>6, <1>7, <1>8, <1>9, <1>10, <1>11, <1>12 DEF CalNext

LEMMA FitInit ==
  ASSUME CalInit
  PROVE  FitInv
<1>1. /\ day = 0 /\ phase = "idle" /\ queue = <<>> /\ mem = NoMem
      /\ \E v \in Volumes : file = [NoFile EXCEPT !.listed = v]
  BY DEF CalInit
<1>2. LastNight \in Nat  BY CalibrateAssumption
<1>3. day \in Days  BY <1>1, <1>2 DEF Days
<1>4. file.live = <<>> /\ file.staged = <<>>
  <2>1. PICK v \in Volumes : file = [NoFile EXCEPT !.listed = v]  BY <1>1
  <2>2. PICK x, l : x = [i \in TickerIds |-> 0] /\ l = NoRun  OBVIOUS
  <2>3. NoFile = [live |-> <<>>, staged |-> <<>>, run |-> None, last |-> l, fails |-> x, listed |-> {}, gen |-> 0]
    BY <2>2 DEF NoFile
  <2> QED  BY <2>1, <2>3
<1>5. mem.seen.live = <<>>  BY <1>1 DEF NoMem
<1>6. Len(<<>>) = 0  OBVIOUS
<1>7. QueueGood /\ Tasks  BY <1>1, <1>6 DEF QueueGood, Tasks
<1> QED  BY <1>3, <1>4, <1>5, <1>7, EmptyIsGood DEF FitInv

\* For any files, windows, legs and kills a published k is within tolerance or
\* no k is nearer the target, wherever a larger k never means more bricks
\* (scale_to_target_k, calibrate.rs:289-318).
THEOREM PublishesTheBest == CalSpec => []PublishedIsBest
<1>1. CalInit => CalIInv /\ FitInv  BY CalInitHolds, FitInit
<1>2. CalIInv /\ FitInv /\ [CalNext]_calVars => (CalIInv /\ FitInv)'  BY CalStep, FitStep
<1>3. FitInv => PublishedIsBest
  BY DEF FitInv, AllGood, Good, PublishedIsBest, Range
<1> QED  BY <1>1, <1>2, <1>3, PTL DEF CalSpec

-----------------------------------------------------------------------------
\* Migrate.

Places == shards \cup parked

\* A shard keeps its tree, its day and the directory it was written in.
Same(x, y) == x.tree = y.tree /\ x.day = y.day /\ x.by = y.by

Typed ==
  /\ world \in Worlds
  /\ today \in Nat /\ FirstDay <= today
  /\ Places \subseteq Shard
  /\ \A z \in Places : z.day <= today

Unique ==
  /\ shards \cap parked = {}
  /\ \A y, z \in Places : Same(y, z) => y = z
  /\ \A y, z \in shards : y.tree = z.tree /\ y.id = z.id /\ y.day = z.day => y = z

Kept == \A x \in world.shards : \E y \in Places : Same(y, x)

\* A shard no migration has a claim on is where it was written: those of a
\* destination, and the live ones where the writer runs on.
Home ==
  \A z \in Places :
    z.by \notin Tickers \/ (world.tool = "phantom" /\ z.day >= today) => z \in shards /\ z.id = z.by

Disk == Typed /\ Unique /\ Kept /\ Home /\ TwinNeverMixed

Twin(id) == \E x \in world.shards : x.id = world.dest[id]

\* What was decided when the run began, and where it is.
Cursors ==
  /\ world.tool = "quote" => deployed
  /\ pc \in {"idle", "done", "ticker", "park", "tree", "move", "source", "journal"}
  /\ pc \notin {"idle", "done"} => at \in DOMAIN world.order /\ tree \in Nat \ {0}
  /\ pc = "park" => world.tool = "quote"
  /\ pc \in {"tree", "move", "source", "journal"} => Here \in DOMAIN plan /\ plan[Here] = "clean"
  /\ movable \subseteq 0 .. today - 1
  /\ \A id \in DOMAIN plan : plan[id] = "collides" => world.tool = "quote"
  /\ world.tool = "quote" => \A id \in DOMAIN plan : Twin(id) => plan[id] = "collides"

\* The inductive invariant.
IInv == Disk /\ Cursors

-----------------------------------------------------------------------------
LEMMA WorldFacts ==
  ASSUME Typed
  PROVE  /\ world.tool \in {"phantom", "quote"}
         /\ \A id \in Tickers : id \in Ids /\ world.dest[id] \in Ids \ Tickers
         /\ \A i \in DOMAIN world.order : world.order[i] \in Tickers
         /\ world.order # <<>> /\ world.order \in Seq(Tickers)
  BY WorldsAssumption DEF Typed, Tickers

\* Steps that touch no shard and no clock.
LEMMA DiskKept ==
  ASSUME Disk, UNCHANGED <<world, shards, parked, today>>
  PROVE  Disk'
  BY DEF Disk, Typed, Places, Unique, Same, Kept, Home, TwinNeverMixed, Tickers

\* The fields of a shard, and of one that is moved.
LEMMA Moved ==
  ASSUME NEW x \in Shard, NEW id \in Ids
  PROVE  LET y == [x EXCEPT !.id = id] IN
         y \in Shard /\ Same(y, x) /\ y.id = id
  BY DEF Shard, Same

LEMMA InitDisk == Init => Disk
<1> SUFFICES ASSUME Init PROVE Disk
  OBVIOUS
<1>1. /\ world.shards \subseteq Shard
      /\ \A x \in world.shards : x.by = x.id /\ x.day <= FirstDay
      /\ \A x, y \in world.shards : x.tree = y.tree /\ x.id = y.id /\ x.day = y.day => x = y
  BY WorldsAssumption DEF Init
<1>2. Places = world.shards /\ shards = world.shards /\ parked = {} /\ today = FirstDay
  BY DEF Init, Places
<1>3. Typed  BY <1>1, <1>2, MigrateAssumption DEF Init, Typed
<1>4. Unique  BY <1>1, <1>2 DEF Unique, Same
<1>5. Kept  BY <1>2 DEF Kept, Same
<1>6. Home  BY <1>1, <1>2 DEF Home
<1>7. TwinNeverMixed
  <2> SUFFICES ASSUME NEW id \in Tickers, NEW y \in shards, y.id = world.dest[id]
               PROVE  y.by \notin Tickers
    BY DEF TwinNeverMixed
  <2> QED  BY <1>1, <1>2, <1>3, WorldFacts
<1> QED  BY <1>3, <1>4, <1>5, <1>6, <1>7 DEF Disk

-----------------------------------------------------------------------------
\* The steps that rename a shard, park it, or write one.

\* Of a candidate's shards, the ones that may leave its directory.
LEMMA Movable ==
  ASSUME IInv, NEW x \in NextShards, pc = "move"
  PROVE  /\ x \in shards /\ x \in Shard /\ x.id = Here /\ x.day \in 0 .. today - 1
         /\ Here \in Tickers /\ There \in Ids \ Tickers
         /\ x.by \in Tickers
         /\ x.tree = ThisTree
<1>1. x \in shards /\ x.id = Here /\ x.tree = ThisTree /\ x.day \in movable
  BY DEF NextShards, In
<1>2. x.day \in 0 .. today - 1 /\ x \in Places /\ x \in Shard
  BY <1>1 DEF IInv, Cursors, Disk, Typed, Places
<1>3. Here \in Tickers /\ There \in Ids \ Tickers
  BY WorldFacts DEF IInv, Cursors, Disk, Here, There
<1>4. x.by \in Tickers
  BY <1>1, <1>2, <1>3 DEF IInv, Disk, Home
<1> QED  BY <1>1, <1>2, <1>3, <1>4

LEMMA MoveDisk ==
  ASSUME IInv, Move
  PROVE  Disk'
<1>1. PICK x \in NextShards :
        /\ ~Taken(x)
        /\ shards' = (shards \ {x}) \cup {[x EXCEPT !.id = There]}
  BY DEF Move
<1>2. pc = "move" /\ UNCHANGED <<world, parked, today>>
  BY DEF Move
<1> DEFINE y == [x EXCEPT !.id = There]
<1>3. /\ x \in shards /\ x \in Shard /\ x.id = Here /\ x.day \in 0 .. today - 1
      /\ Here \in Tickers /\ There \in Ids \ Tickers /\ x.by \in Tickers /\ x.tree = ThisTree
  BY <1>2, Movable
<1>4. y \in Shard /\ Same(y, x) /\ y.id = There
  BY <1>3, Moved
<1>5. shards' = (shards \ {x}) \cup {y}
  BY <1>1
<1> HIDE DEF y
<1>6. y # x  BY <1>3, <1>4
<1>7. /\ Places' = (shards \ {x}) \cup {y} \cup parked
      /\ \A z \in Places' : z = y \/ (z \in Places /\ z # x)
  BY <1>2, <1>3, <1>5 DEF Places, IInv, Disk, Unique
<1>8. \A z \in Places : Same(z, y) => z = x
  BY <1>3, <1>4 DEF IInv, Disk, Unique, Same, Places
<1>9. y \notin Places
  BY <1>6, <1>8 DEF Same
<1>10. Typed'
  BY <1>2, <1>3, <1>4, <1>7 DEF IInv, Disk, Typed, Same
<1>11. Unique'
  <2>1. shards' \cap parked' = {}
    BY <1>2, <1>5, <1>9 DEF IInv, Disk, Unique, Places
  <2>2. \A a, b \in Places' : Same(a, b) => a = b
    <3> SUFFICES ASSUME NEW a \in Places', NEW b \in Places', Same(a, b) PROVE a = b
      OBVIOUS
    <3>1. Same(b, a)  BY DEF Same
    <3> QED  BY <1>7, <1>8, <3>1 DEF IInv, Disk, Unique
  <2>3. \A a, b \in shards' : a.tree = b.tree /\ a.id = b.id /\ a.day = b.day => a = b
    <3>1. \A a \in shards : a.tree = y.tree /\ a.id = y.id => a.day # y.day
      BY <1>1, <1>3, <1>4 DEF Taken, DaysIn, In, Same
    <3> QED  BY <1>5, <3>1 DEF IInv, Disk, Unique
  <2> QED  BY <2>1, <2>2, <2>3 DEF Unique
<1>12. Kept'
  <2> SUFFICES ASSUME NEW w \in world.shards PROVE \E z \in Places' : Same(z, w)
    BY <1>2 DEF Kept
  <2>1. PICK z \in Places : Same(z, w)  BY DEF IInv, Disk, Kept
  <2>2. CASE z = x  BY <1>4, <1>7, <2>1, <2>2 DEF Same
  <2>3. CASE z # x  BY <1>7, <2>1, <2>3 DEF Places
  <2> QED  BY <2>2, <2>3
<1>13. Home'
  <2> SUFFICES ASSUME NEW z \in Places',
                      z.by \notin Tickers \/ (world.tool = "phantom" /\ z.day >= today)
               PROVE  z \in shards' /\ z.id = z.by
    BY <1>2 DEF Home, Tickers
  <2>1. CASE z = y
    <3>1. z.by \in Tickers /\ z.day \in 0 .. today - 1  BY <1>3, <1>4, <2>1 DEF Same
    <3>2. today \in Nat  BY DEF IInv, Disk, Typed
    <3> QED  BY <3>1, <3>2
  <2>2. CASE z # y  BY <1>5, <1>7, <2>2 DEF IInv, Disk, Home
  <2> QED  BY <2>1, <2>2
<1>14. TwinNeverMixed'
  <2> SUFFICES ASSUME world.tool = "quote", NEW id \in Tickers,
                      Twin(id), NEW z \in shards', z.id = world.dest[id]
               PROVE  z.by \notin Tickers
    BY <1>2 DEF TwinNeverMixed, Twin, Tickers
  <2>1. CASE z = y
    <3>1. Twin(Here)  BY <1>4, <2>1 DEF Twin, There
    <3> QED  BY <1>2, <3>1 DEF IInv, Cursors
  <2>2. CASE z # y  BY <1>5, <2>2 DEF IInv, Disk, TwinNeverMixed, Twin
  <2> QED  BY <2>1, <2>2
<1> QED  BY <1>10, <1>11, <1>12, <1>13, <1>14 DEF Disk

\* Shards that go to the park, none of which is where it has to stay.
LEMMA ParkDisk ==
  ASSUME IInv, NEW gone \in SUBSET shards,
         shards' = shards \ gone, parked' = parked \cup gone, UNCHANGED <<world, today>>,
         \A x \in gone : x.by \in Tickers /\ ~(world.tool = "phantom" /\ x.day >= today)
  PROVE  Disk'
<1>1. Places' = Places /\ shards' \subseteq shards  BY DEF Places
<1>2. Typed'  BY <1>1 DEF IInv, Disk, Typed
<1>3. Unique'  BY <1>1 DEF IInv, Disk, Unique, Same
<1>4. Kept'  BY <1>1 DEF IInv, Disk, Kept, Same
<1>5. Home'
  <2> SUFFICES ASSUME NEW z \in Places,
                      z.by \notin Tickers \/ (world.tool = "phantom" /\ z.day >= today)
               PROVE  z \in shards' /\ z.id = z.by
    BY <1>1 DEF Home, Tickers
  <2> QED  BY DEF IInv, Disk, Home
<1>6. TwinNeverMixed'  BY <1>1 DEF IInv, Disk, TwinNeverMixed, Tickers
<1> QED  BY <1>2, <1>3, <1>4, <1>5, <1>6 DEF Disk

LEMMA MoveTakenDisk ==
  ASSUME IInv, MoveTaken
  PROVE  Disk'
<1>1. PICK x \in NextShards : shards' = shards \ {x} /\ parked' = parked \cup {x}
  BY DEF MoveTaken
<1>2. pc = "move" /\ UNCHANGED <<world, today>>
  BY DEF MoveTaken
<1>3. x \in shards /\ x.by \in Tickers /\ x.day \in 0 .. today - 1 /\ today \in Nat
  BY <1>2, Movable DEF IInv, Disk, Typed
<1> DEFINE gone == {x}
<1>4. \A z \in gone : z.by \in Tickers /\ ~(world.tool = "phantom" /\ z.day >= today)
  BY <1>3
<1>5. gone \in SUBSET shards /\ shards' = shards \ gone /\ parked' = parked \cup gone
  BY <1>1, <1>3
<1> HIDE DEF gone
<1> QED  BY <1>2, <1>4, <1>5, ParkDisk

LEMMA ParkTreeDisk ==
  ASSUME IInv, ParkTree
  PROVE  Disk'
<1> DEFINE gone == In(ThisTree, Here)
<1>1. gone \in SUBSET shards /\ \A x \in gone : x.id = Here
  BY DEF In
<1>2. shards' = shards \ gone /\ parked' = parked \cup gone /\ UNCHANGED <<world, today>>
  BY DEF ParkTree
<1> HIDE DEF gone
<1>3. world.tool = "quote" /\ Here \in Tickers
  BY WorldFacts DEF ParkTree, IInv, Cursors, Disk, Here
<1>4. \A x \in gone : x.by \in Tickers
  BY <1>1, <1>3 DEF IInv, Disk, Home, Places
<1> QED  BY <1>1, <1>2, <1>3, <1>4, ParkDisk

LEMMA RotateDisk ==
  ASSUME IInv, Rotate
  PROVE  Disk'
<1>1. UNCHANGED <<world, shards, parked>> /\ today' = today + 1
  BY DEF Rotate, disk
<1>2. today \in Nat /\ FirstDay \in Nat /\ \A z \in Places : z.day \in Nat
  BY MigrateAssumption DEF IInv, Disk, Typed, Shard
<1>3. Typed'  BY <1>1, <1>2 DEF IInv, Disk, Typed, Places
<1>4. Unique'  BY <1>1 DEF IInv, Disk, Unique, Same, Places
<1>5. Kept'  BY <1>1 DEF IInv, Disk, Kept, Same, Places
<1>6. Home'  BY <1>1, <1>2 DEF IInv, Disk, Home, Places, Tickers
<1>7. TwinNeverMixed'  BY <1>1 DEF IInv, Disk, TwinNeverMixed, Tickers
<1> QED  BY <1>3, <1>4, <1>5, <1>6, <1>7 DEF Disk

\* A shard live starts is of nobody else's tree, day and origin.
LEMMA LiveNew ==
  ASSUME IInv, NEW id \in Tickers, NEW t \in LiveTrees, Live(id, t)
  PROVE  \E y \in Shard :
           /\ shards' = shards \cup {y}
           /\ y.day = today /\ y.id = y.by
           /\ world.tool = "quote" => y.by \notin Tickers
           /\ \A z \in Places : ~Same(z, y)
           /\ \A z \in shards : z.tree = y.tree /\ z.id = y.id => z.day # y.day
<1> DEFINE dir == IF deployed THEN world.dest[id] ELSE id
           y   == [tree |-> t, id |-> dir, day |-> today, by |-> dir]
<1>1. today \notin DaysIn(t, dir) /\ shards' = shards \cup {y}
  BY DEF Live
<1>2. dir \in Ids /\ today \in Nat /\ (world.tool = "quote" => dir \notin Tickers)
  BY WorldFacts DEF IInv, Disk, Typed, Cursors
<1>3. world.tool = "phantom" \/ dir \notin Tickers
  BY <1>2, WorldFacts DEF IInv, Disk
<1> HIDE DEF dir
<1>4. y \in Shard /\ y.tree = t /\ y.id = dir /\ y.day = today /\ y.by = dir
  BY <1>2, MigrateAssumption DEF Shard
<1> HIDE DEF y
<1>5. \A z \in shards : z.tree = t /\ z.id = dir => z.day # today
  BY <1>1 DEF DaysIn, In
<1>6. \A z \in Places : ~Same(z, y)
  <2> SUFFICES ASSUME NEW z \in Places, Same(z, y) PROVE FALSE
    OBVIOUS
  <2>1. z.by = dir /\ z.day = today /\ z.tree = t  BY <1>4 DEF Same
  <2>2. z \in shards /\ z.id = z.by  BY <1>2, <1>3, <2>1 DEF IInv, Disk, Home
  <2> QED  BY <1>5, <2>1, <2>2
<1> QED  BY <1>1, <1>2, <1>4, <1>5, <1>6

LEMMA LiveDisk ==
  ASSUME IInv, NEW id \in Tickers, NEW t \in LiveTrees, Live(id, t)
  PROVE  Disk'
<1>1. PICK y \in Shard :
        /\ shards' = shards \cup {y}
        /\ y.day = today /\ y.id = y.by
        /\ world.tool = "quote" => y.by \notin Tickers
        /\ \A z \in Places : ~Same(z, y)
        /\ \A z \in shards : z.tree = y.tree /\ z.id = y.id => z.day # y.day
  BY LiveNew
<1>2. UNCHANGED <<world, parked, today>>  BY DEF Live
<1>3. Places' = Places \cup {y} /\ y \notin Places  BY <1>1, <1>2 DEF Places, Same
<1>4. today \in Nat  BY DEF IInv, Disk, Typed
<1>5. Typed'  BY <1>1, <1>2, <1>3, <1>4 DEF IInv, Disk, Typed
<1>6. Unique'
  <2>1. shards' \cap parked' = {}  BY <1>1, <1>2, <1>3 DEF IInv, Disk, Unique, Places
  <2>2. \A a, b \in Places' : Same(a, b) => a = b
    <3> SUFFICES ASSUME NEW a \in Places', NEW b \in Places', Same(a, b) PROVE a = b
      OBVIOUS
    <3>1. Same(b, a)  BY DEF Same
    <3> QED  BY <1>1, <1>3, <3>1 DEF IInv, Disk, Unique
  <2>3. \A a, b \in shards' : a.tree = b.tree /\ a.id = b.id /\ a.day = b.day => a = b
    BY <1>1 DEF IInv, Disk, Unique
  <2> QED  BY <2>1, <2>2, <2>3 DEF Unique
<1>7. Kept'  BY <1>2, <1>3 DEF IInv, Disk, Kept, Same
<1>8. Home'
  <2> SUFFICES ASSUME NEW z \in Places',
                      z.by \notin Tickers \/ (world.tool = "phantom" /\ z.day >= today)
               PROVE  z \in shards' /\ z.id = z.by
    BY <1>2 DEF Home, Tickers
  <2> QED  BY <1>1, <1>3 DEF IInv, Disk, Home
<1>9. TwinNeverMixed'  BY <1>1, <1>2 DEF IInv, Disk, TwinNeverMixed, Tickers
<1> QED  BY <1>5, <1>6, <1>7, <1>8, <1>9 DEF Disk

-----------------------------------------------------------------------------
\* The cursors and the plan.

LEMMA NextTickerCursors ==
  ASSUME IInv, pc \notin {"idle", "done"}, NextTicker, UNCHANGED <<world, deployed, today, plan>>
  PROVE  Cursors'
<1>1. /\ at' = at + 1 /\ tree' = 1 /\ movable' = {}
      /\ pc' = IF at < Len(world.order) THEN "ticker" ELSE "done"
  BY DEF NextTicker
<1>2. at \in DOMAIN world.order /\ world.order \in Seq(Tickers)
  BY WorldFacts DEF IInv, Disk, Cursors
<1>3. pc' \in {"ticker", "done"} /\ (pc' = "ticker" => at' \in DOMAIN world.order)
  BY <1>1, <1>2
<1> QED  BY <1>1, <1>3 DEF IInv, Cursors, Twin

LEMMA NextTreeCursors ==
  ASSUME IInv, pc \in {"tree", "move", "source", "journal"}, NextTree,
         UNCHANGED <<world, deployed, today, plan>>
  PROVE  Cursors'
<1>1. CASE tree < Len(Trees)
  <2>1. tree' = tree + 1 /\ movable' = {} /\ pc' = "tree" /\ at' = at
    BY <1>1 DEF NextTree
  <2> QED  BY <2>1 DEF IInv, Cursors, Twin, Here
<1>2. CASE ~(tree < Len(Trees))
  BY <1>2, NextTickerCursors DEF NextTree
<1> QED  BY <1>1, <1>2

\* Steps within a ticker, which leave the cursors where they are.
LEMMA SameTicker ==
  ASSUME IInv, UNCHANGED <<world, deployed, today, plan, at>>,
         tree' \in Nat \ {0}, movable' \subseteq 0 .. today - 1,
         pc \notin {"idle", "done"}, pc' \in {"park", "tree", "move", "source", "journal"},
         pc' = "park" => world.tool = "quote",
         pc' # "park" => Here \in DOMAIN plan /\ plan[Here] = "clean"
  PROVE  Cursors'
  BY DEF IInv, Cursors, Twin, Here

LEMMA StartCursors ==
  ASSUME IInv, NEW keep, Start(keep)
  PROVE  Cursors'
<1>1. /\ at' = 1 /\ tree' = 1 /\ movable' = {} /\ pc' = "ticker"
      /\ UNCHANGED <<world, deployed, today, shards>>
      /\ plan' = [id \in {i \in Tickers : world.tool = "phantom" \/ HasFiles(i)} |->
                    IF world.tool = "quote" /\ Collides(world.dest[id]) THEN "collides" ELSE "clean"]
  BY DEF Start, disk
<1>2. 1 \in DOMAIN world.order
  BY WorldFacts DEF IInv, Disk
<1>3. \A id \in DOMAIN plan' : /\ id \in Tickers
                               /\ plan'[id] = "collides" => world.tool = "quote"
  BY <1>1
<1>4. ASSUME world.tool = "quote", NEW id \in DOMAIN plan', Twin(id)
      PROVE  plan'[id] = "collides"
  <2>1. PICK x \in world.shards : x.id = world.dest[id]  BY <1>4 DEF Twin
  <2>2. id \in Tickers /\ x.by = world.dest[id] /\ world.dest[id] \notin Tickers
    BY <1>3, <2>1, WorldFacts, WorldsAssumption DEF IInv, Disk, Typed
  <2>3. PICK y \in Places : Same(y, x)  BY DEF IInv, Disk, Kept
  <2>4. y \in shards /\ y.id = world.dest[id]
    BY <2>2, <2>3 DEF Same, IInv, Disk, Home
  <2>5. Collides(world.dest[id])  BY <2>4 DEF Collides, Owned
  <2> QED  BY <1>1, <1>4, <2>5
<1> QED  BY <1>1, <1>2, <1>3, <1>4 DEF IInv, Cursors, Twin

LEMMA StepCursors ==
  ASSUME IInv, Next
  PROVE  Cursors'
<1>1. ASSUME NEW keep \in BOOLEAN, Start(keep) PROVE Cursors'
  BY <1>1, StartCursors
<1>2. CASE PassOver  BY <1>2, NextTickerCursors DEF PassOver
<1>3. CASE Refuse  BY <1>3, NextTickerCursors DEF Refuse, Candidate
<1>4. CASE SkipColliding  BY <1>4, NextTickerCursors DEF SkipColliding, Candidate
<1>5. CASE ParkColliding
  BY <1>5, SameTicker DEF ParkColliding, Candidate, job, IInv, Cursors
<1>6. CASE BeginTicker
  BY <1>6, SameTicker DEF BeginTicker, Candidate, job, IInv, Cursors
<1>7. CASE ParkTree
  <2>1. tree' \in Nat \ {0}  BY <1>7 DEF ParkTree, IInv, Cursors
  <2> QED  BY <1>7, <2>1, SameTicker DEF ParkTree, IInv, Cursors
<1>8. CASE ParkDone  BY <1>8, NextTickerCursors DEF ParkDone
<1>9. CASE ParkFails  BY <1>9, NextTickerCursors DEF ParkFails
<1>10. CASE TreeDone  BY <1>10, NextTreeCursors DEF TreeDone
<1>11. CASE DeferTree  BY <1>11, NextTreeCursors DEF DeferTree, Listed
<1>12. CASE BeginTree
  <2>1. /\ movable' = {d \in DaysIn(ThisTree, Here) : d < today} /\ pc = "tree" /\ pc' = "move"
        /\ UNCHANGED <<world, deployed, today, plan, at, tree>>
    BY <1>12 DEF BeginTree, Listed
  <2>2. \A d \in DaysIn(ThisTree, Here) : d \in Nat
    BY DEF DaysIn, In, IInv, Disk, Typed, Places, Shard
  <2>3. today \in Nat  BY DEF IInv, Disk, Typed
  <2>4. movable' \subseteq 0 .. today - 1  BY <2>1, <2>2, <2>3
  <2>5. tree' \in Nat \ {0} /\ Here \in DOMAIN plan /\ plan[Here] = "clean"
    BY <2>1 DEF IInv, Cursors
  <2> QED  BY <2>1, <2>4, <2>5, SameTicker
<1>13. CASE Move
  <2>1. movable' \subseteq movable  BY <1>13 DEF Move
  <2> QED  BY <1>13, <2>1, SameTicker DEF Move, IInv, Cursors
<1>14. CASE MoveTaken
  <2>1. movable' \subseteq movable  BY <1>14 DEF MoveTaken
  <2> QED  BY <1>14, <2>1, SameTicker DEF MoveTaken, IInv, Cursors
<1>15. CASE TreeFails  BY <1>15, NextTreeCursors DEF TreeFails
<1>16. CASE WriteManifest
  BY <1>16, SameTicker DEF WriteManifest, job, IInv, Cursors
<1>17. CASE FinishTree
  BY <1>17, SameTicker DEF FinishTree, job, IInv, Cursors
<1>18. CASE JournalTree  BY <1>18, NextTreeCursors DEF JournalTree
<1>19. CASE Kill  BY <1>19 DEF Kill, IInv, Cursors, Twin
<1>20. CASE Rotate
  <2>1. today' = today + 1 /\ today \in Nat  BY <1>20 DEF Rotate, IInv, Disk, Typed
  <2>2. UNCHANGED <<world, deployed, pc, plan, at, tree, movable>>  BY <1>20 DEF Rotate, job
  <2>3. movable' \subseteq 0 .. today' - 1
    <3>1. movable \subseteq 0 .. today - 1  BY DEF IInv, Cursors
    <3> QED  BY <2>1, <2>2, <3>1
  <2> QED  BY <2>2, <2>3 DEF IInv, Cursors, Twin, Here
<1>21. CASE Deploy  BY <1>21 DEF Deploy, job, IInv, Cursors, Twin, Here
<1>22. ASSUME NEW id \in Tickers, NEW t \in LiveTrees, Live(id, t) PROVE Cursors'
  BY <1>22 DEF Live, job, IInv, Cursors, Twin, Here
<1> QED
  BY <1>1, <1>2, <1>3, <1>4, <1>5, <1>6, <1>7, <1>8, <1>9, <1>10, <1>11, <1>12, <1>13,
     <1>14, <1>15, <1>16, <1>17, <1>18, <1>19, <1>20, <1>21, <1>22 DEF Next

LEMMA StepDisk ==
  ASSUME IInv, Next
  PROVE  Disk'
<1>1. CASE Move  BY <1>1, MoveDisk
<1>2. CASE MoveTaken  BY <1>2, MoveTakenDisk
<1>3. CASE ParkTree  BY <1>3, ParkTreeDisk
<1>4. CASE Rotate  BY <1>4, RotateDisk
<1>5. ASSUME NEW id \in Tickers, NEW t \in LiveTrees, Live(id, t) PROVE Disk'
  BY <1>5, LiveDisk
<1>6. CASE \/ \E keep \in BOOLEAN : Start(keep)
           \/ PassOver \/ Refuse \/ SkipColliding \/ ParkColliding \/ BeginTicker
           \/ ParkDone \/ ParkFails \/ TreeDone \/ DeferTree \/ BeginTree \/ TreeFails
           \/ WriteManifest \/ FinishTree \/ JournalTree \/ Kill \/ Deploy
  <2>1. UNCHANGED <<world, shards, parked, today>>
    BY <1>6 DEF Start, PassOver, Refuse, SkipColliding, ParkColliding, BeginTicker, ParkDone,
         ParkFails, TreeDone, DeferTree, BeginTree, TreeFails, WriteManifest, FinishTree,
         JournalTree, Kill, Deploy, disk
  <2> QED  BY <2>1, DiskKept DEF IInv
<1> QED  BY <1>1, <1>2, <1>3, <1>4, <1>5, <1>6 DEF Next

-----------------------------------------------------------------------------
\* What a run has left behind.

\* The shards of a ticker some listing has shown, where they were then.
Left(t, id)    == In(t, id) \cap shown
Cleared(t, id) ==
  \A x \in In(t, id) : x.day >= run.day \/ (Journaled(<<id, t>>, "done") /\ x \notin shown)
InTree         == pc \in {"tree", "move", "source", "journal"}

\* What the journal says of earlier runs: of a tree that is done, what is there
\* now came after the listing.
Journals ==
  \A id \in Tickers, t \in TreeNames :
    /\ Journaled(<<id, "PARKED">>, "parked") => world.tool = "quote" /\ In(t, id) = {}
    /\ Journaled(<<id, t>>, "done") => Left(t, id) = {}

\* What a listing showed of the current day is there until that day is over.
Known ==
  /\ shown \subseteq Shard
  /\ \A x \in shown : x.id \in Tickers /\ (world.tool = "phantom" /\ x.day >= today => x \in shards)

\* Where the run is in a ticker, and in a tree of it.
Listing ==
  /\ DOMAIN plan \subseteq Tickers
  /\ run \in [n : Nat, day : 0 .. today, keep : BOOLEAN, failed : BOOLEAN]
  /\ pc # "idle" => \A id \in Tickers : id \in DOMAIN plan \/ (world.tool = "quote" /\ Owned(id) = {})
  /\ pc = "ticker" => tree = 1
  /\ pc = "park" => \A j \in DOMAIN Trees : j < tree => In(Trees[j], Here) = {}
  /\ InTree => tree \in DOMAIN Trees
  /\ pc \in {"move", "source", "journal"} =>
       /\ ~Journaled(<<Here, ThisTree>>, "done")
       /\ \A x \in In(ThisTree, Here) : x.day \in movable \/ (x.day >= run.day /\ (held \/ x \notin shown))
  /\ pc \in {"source", "journal"} => movable = {}

\* What it has behind it, if nothing has failed.
Passed ==
  pc # "idle" /\ run.failed = FALSE =>
    /\ \A i \in DOMAIN world.order : (pc = "done" \/ i < at) /\ ~Skipped(world.order[i]) =>
         \A t \in TreeNames : Cleared(t, world.order[i])
    /\ InTree => \A j \in DOMAIN Trees : j < tree => Cleared(Trees[j], Here)

Swept == Journals /\ Known /\ Listing /\ Passed

\* The one step that adds a shard to a ticker is live's, and no listing has shown it.
LEMMA InStep ==
  ASSUME IInv, Known, Next
  PROVE  /\ world' = world /\ Tickers' = Tickers
         /\ \A id \in Tickers : \A t : \A x \in In(t, id)' :
              \/ x \in In(t, id)
              \/ x.day = today /\ x \notin shown /\ shown' = shown /\ world.tool = "phantom"
<1>0. world' = world
  BY DEF Next, Start, PassOver, Refuse, SkipColliding, ParkColliding, BeginTicker, ParkTree,
     ParkDone, ParkFails, TreeDone, DeferTree, BeginTree, Move, MoveTaken, TreeFails,
     WriteManifest, FinishTree, JournalTree, Kill, Rotate, Deploy, Live
<1>1. CASE shards' \subseteq shards  BY <1>0, <1>1 DEF In, Tickers
<1>2. CASE Move
  <2>1. PICK x \in NextShards : shards' = (shards \ {x}) \cup {[x EXCEPT !.id = There]}
    BY <1>2 DEF Move
  <2> DEFINE y == [x EXCEPT !.id = There]
  <2>2. x \in Shard /\ There \in Ids \ Tickers  BY <1>2, Movable DEF Move
  <2>3. y.id \notin Tickers  BY <2>2, Moved
  <2>4. shards' = (shards \ {x}) \cup {y}  BY <2>1
  <2> HIDE DEF y
  <2> QED  BY <1>0, <2>3, <2>4 DEF In, Tickers
<1>3. ASSUME NEW i \in Tickers, NEW u \in LiveTrees, Live(i, u)
      PROVE  \A id \in Tickers : \A t : \A x \in In(t, id)' :
               x \in In(t, id) \/ (x.day = today /\ x \notin shown /\ shown' = shown /\ world.tool = "phantom")
  <2>1. PICK y \in Shard :
          /\ shards' = shards \cup {y} /\ y.day = today /\ y.id = y.by
          /\ world.tool = "quote" => y.by \notin Tickers
          /\ \A z \in Places : ~Same(z, y)
    BY <1>3, LiveNew
  <2>2. shown' = shown  BY <1>3 DEF Live, log
  <2>3. y \notin shards  BY <2>1 DEF Places, Same
  <2>4. today \in Nat /\ world.tool \in {"phantom", "quote"}  BY WorldFacts DEF IInv, Disk, Typed
  <2>5. world.tool = "phantom" => y \notin shown  BY <2>1, <2>3, <2>4 DEF Known
  <2> SUFFICES ASSUME NEW id \in Tickers, NEW t, NEW x \in In(t, id)', x \notin In(t, id)
               PROVE  x.day = today /\ x \notin shown /\ world.tool = "phantom"
    BY <2>2
  <2>6. x = y /\ x.id = id  BY <2>1 DEF In
  <2> QED  BY <2>1, <2>4, <2>5, <2>6
<1>4. \/ shards' \subseteq shards \/ Move
      \/ \E i \in Tickers, u \in LiveTrees : Live(i, u)
  BY DEF Next, Start, PassOver, Refuse, SkipColliding, ParkColliding, BeginTicker, ParkTree,
     ParkDone, ParkFails, TreeDone, DeferTree, BeginTree, MoveTaken, TreeFails,
     WriteManifest, FinishTree, JournalTree, Kill, Rotate, Deploy, disk
<1> QED  BY <1>0, <1>1, <1>2, <1>3, <1>4 DEF Tickers

\* Only a listing adds to what was shown, and only of a tree that is not done.
LEMMA SeenStep ==
  ASSUME Next
  PROVE  /\ shown \subseteq shown'
         /\ \A x \in shown' : \/ x \in shown
                            \/ /\ pc = "tree" /\ x \in In(ThisTree, Here) /\ shards' = shards
                               /\ ~Journaled(<<Here, ThisTree>>, "done")
<1>1. CASE DeferTree  BY <1>1 DEF DeferTree, Listed, disk
<1>2. CASE BeginTree  BY <1>2 DEF BeginTree, Listed, disk
<1>3. CASE shown' = shown  BY <1>3
<1>4. DeferTree \/ BeginTree \/ shown' = shown
  BY DEF Next, Start, PassOver, Refuse, SkipColliding, ParkColliding, BeginTicker, ParkTree,
     ParkDone, ParkFails, TreeDone, Move, MoveTaken, TreeFails, WriteManifest, FinishTree,
     JournalTree, Kill, Rotate, Deploy, Live, log
<1> QED  BY <1>1, <1>2, <1>3, <1>4

LEMMA Facts ==
  ASSUME IInv, Swept
  PROVE  /\ today \in Nat /\ run.day \in Nat /\ run.day <= today
         /\ DOMAIN Trees = 1 .. Len(Trees) /\ 1 \in DOMAIN Trees /\ Len(Trees) \in Nat
         /\ pc \notin {"idle", "done"} => Here \in Tickers
         /\ InTree => ThisTree \in TreeNames
         /\ \A x \in shards : x.day \in Nat /\ x.tree \in TreeNames
  BY MigrateAssumption, WorldFacts
  DEF IInv, Disk, Typed, Places, Shard, Cursors, Swept, Listing, Here, InTree, ThisTree, TreeNames

\* The shard of the current day, in phantom-ids, is never moved.
LEMMA TodayStays ==
  ASSUME IInv, Next, NEW x \in shards, x.day >= today, world.tool = "phantom"
  PROVE  x \in shards'
<1>0. today \in Nat  BY DEF IInv, Disk, Typed
<1>1. CASE Move
  <2>1. PICK z \in NextShards : shards' = (shards \ {z}) \cup {[z EXCEPT !.id = There]}
    BY <1>1 DEF Move
  <2>2. z.day \in 0 .. today - 1  BY <1>1, Movable DEF Move
  <2>3. z # x  BY <1>0, <2>2
  <2> QED  BY <2>1, <2>3
<1>2. CASE MoveTaken
  <2>1. PICK z \in NextShards : shards' = shards \ {z}  BY <1>2 DEF MoveTaken
  <2>2. z.day \in 0 .. today - 1  BY <1>2, Movable DEF MoveTaken
  <2>3. z # x  BY <1>0, <2>2
  <2> QED  BY <2>1, <2>3
<1>3. ~ParkTree  BY DEF ParkTree, IInv, Cursors
<1>4. Move \/ MoveTaken \/ ParkTree \/ shards \subseteq shards'
  BY DEF Next, Start, PassOver, Refuse, SkipColliding, ParkColliding, BeginTicker, ParkDone,
     ParkFails, TreeDone, DeferTree, BeginTree, TreeFails, WriteManifest, FinishTree,
     JournalTree, Kill, Rotate, Deploy, Live, disk
<1> QED  BY <1>1, <1>2, <1>3, <1>4

LEMMA ClockStep ==
  ASSUME IInv, Next
  PROVE  today' \in {today, today + 1}
  BY DEF Next, Start, PassOver, Refuse, SkipColliding, ParkColliding, BeginTicker, ParkTree,
     ParkDone, ParkFails, TreeDone, DeferTree, BeginTree, Move, MoveTaken, TreeFails,
     WriteManifest, FinishTree, JournalTree, Kill, Rotate, Deploy, Live

LEMMA KnownStep ==
  ASSUME IInv, Swept, Next
  PROVE  Known'
<1>1. world' = world /\ Tickers' = Tickers  BY InStep DEF Swept
<1>2. \A x \in shards : x \in Shard  BY DEF IInv, Disk, Typed, Places
<1>3. shown' \subseteq Shard  BY <1>2, SeenStep DEF Swept, Known, In
<1>4. ASSUME NEW x \in shown' PROVE x.id \in Tickers
  <2>1. CASE x \in shown  BY <2>1 DEF Swept, Known
  <2>2. CASE pc = "tree" /\ x \in In(ThisTree, Here)  BY <2>2, Facts DEF In
  <2> QED  BY <2>1, <2>2, SeenStep
<1>5. ASSUME NEW x \in shown', world.tool = "phantom", x.day >= today' PROVE x \in shards'
  <2>1. CASE x \in shown
    <3>1. x.day \in Nat /\ today \in Nat  BY <2>1, Facts DEF Swept, Known, Shard
    <3>2. x.day >= today  BY <1>5, <3>1, ClockStep
    <3>3. x \in shards  BY <1>5, <2>1, <3>2 DEF Swept, Known
    <3> QED  BY <1>5, <3>2, <3>3, TodayStays
  <2>2. CASE x \in In(ThisTree, Here) /\ shards' = shards  BY <2>2 DEF In
  <2> QED  BY <2>1, <2>2, SeenStep
<1> QED  BY <1>1, <1>3, <1>4, <1>5 DEF Known

LEMMA JournalSet ==
  ASSUME NEW k, NEW v, journal' = Set(journal, k, v)
  PROVE  /\ \A j, w : Journaled(j, w)' => Journaled(j, w) \/ (j = k /\ w = v)
         /\ \A j, w : Journaled(j, w) /\ j # k => Journaled(j, w)'
         /\ Journaled(k, v)'
  BY DEF Set, Journaled

\* What is done stays done.
LEMMA DoneStays ==
  ASSUME IInv, Swept, Next, NEW id \in Tickers, NEW t \in TreeNames, Journaled(<<id, t>>, "done")
  PROVE  Journaled(<<id, t>>, "done")'
<1>1. CASE journal' = journal  BY <1>1 DEF Journaled
<1>2. CASE ParkDone
  <2>1. journal' = Set(journal, <<Here, "PARKED">>, "parked")  BY <1>2 DEF ParkDone
  <2>2. <<id, t>> # <<Here, "PARKED">>  BY MigrateAssumption
  <2> QED  BY <2>1, <2>2, JournalSet
<1>3. CASE DeferTree
  <2>1. journal' = Set(journal, <<Here, ThisTree>>, "partial") /\ ~Journaled(<<Here, ThisTree>>, "done")
    BY <1>3 DEF DeferTree, Listed
  <2> QED  BY <2>1, JournalSet
<1>4. CASE JournalTree
  <2>1. journal' = Set(journal, <<Here, ThisTree>>, IF held THEN "partial" ELSE "done")
        /\ ~Journaled(<<Here, ThisTree>>, "done")
    BY <1>4 DEF JournalTree, Swept, Listing
  <2> QED  BY <2>1, JournalSet
<1> QED
  BY <1>1, <1>2, <1>3, <1>4
  DEF Next, Start, PassOver, Refuse, SkipColliding, ParkColliding, BeginTicker, ParkTree,
     ParkFails, TreeDone, BeginTree, Move, MoveTaken, TreeFails, WriteManifest, FinishTree,
     Kill, Rotate, Deploy, Live, log

\* A tree that is done shows nothing of what was seen in it, and never will.
LEMMA LeftStays ==
  ASSUME IInv, Swept, Next, NEW id \in Tickers, NEW t \in TreeNames,
         Journaled(<<id, t>>, "done")
  PROVE  Left(t, id)' = {}
<1> SUFFICES ASSUME NEW x \in Left(t, id)' PROVE FALSE
  OBVIOUS
<1>1. x \in In(t, id)' /\ x \in shown'  BY DEF Left
<1>2. x \notin shown \/ x \notin In(t, id)  BY DEF Left, Swept, Journals
<1>3. x \in In(t, id)  BY <1>1, InStep DEF Swept
<1>4. pc = "tree" /\ x \in In(ThisTree, Here) /\ ~Journaled(<<Here, ThisTree>>, "done")
  BY <1>1, <1>2, <1>3, SeenStep
<1>5. t = ThisTree /\ id = Here  BY <1>3, <1>4 DEF In
<1> QED  BY <1>4, <1>5

\* An entry is true when it is made, and no less so later.
LEMMA JournalsStep ==
  ASSUME IInv, Swept, Next
  PROVE  Journals'
<1>1. world' = world /\ Tickers' = Tickers  BY InStep DEF Swept
<1>2. ASSUME NEW id \in Tickers, NEW t \in TreeNames, Journaled(<<id, "PARKED">>, "parked")'
      PROVE  world.tool = "quote" /\ In(t, id)' = {}
  <2>1. CASE Journaled(<<id, "PARKED">>, "parked")
    <3>1. world.tool = "quote" /\ In(t, id) = {}  BY <2>1 DEF Swept, Journals
    <3> QED  BY <3>1, InStep DEF Swept
  <2>2. CASE ParkDone /\ id = Here
    <3>1. PICK j \in DOMAIN Trees : t = Trees[j]  BY DEF TreeNames
    <3>2. pc = "park" /\ j < tree  BY <2>2, MigrateAssumption DEF ParkDone, IInv, Cursors
    <3>3. world.tool = "quote" /\ In(t, id) = {}
      BY <2>2, <3>1, <3>2 DEF Swept, Listing, IInv, Cursors
    <3> QED  BY <3>3, InStep DEF Swept
  <2>3. CASE ParkDone
    <3>1. journal' = Set(journal, <<Here, "PARKED">>, "parked")  BY <2>3 DEF ParkDone
    <3>2. Journaled(<<id, "PARKED">>, "parked") \/ id = Here  BY <1>2, <3>1, JournalSet
    <3> QED  BY <2>1, <2>2, <2>3, <3>2
  <2>4. CASE DeferTree \/ JournalTree
    <3>1. PICK v \in {"partial", "done"} : journal' = Set(journal, <<Here, ThisTree>>, v)
      BY <2>4 DEF DeferTree, JournalTree
    <3>2. Journaled(<<id, "PARKED">>, "parked")  BY <1>2, <3>1, JournalSet
    <3> QED  BY <2>1, <3>2
  <2>5. CASE journal' = journal  BY <1>2, <2>1, <2>5 DEF Journaled
  <2> QED
    BY <2>3, <2>4, <2>5
    DEF Next, Start, PassOver, Refuse, SkipColliding, ParkColliding, BeginTicker, ParkTree,
       ParkFails, TreeDone, BeginTree, Move, MoveTaken, TreeFails, WriteManifest, FinishTree,
       Kill, Rotate, Deploy, Live, log
<1>3. ASSUME NEW id \in Tickers, NEW t \in TreeNames, Journaled(<<id, t>>, "done")'
      PROVE  Left(t, id)' = {}
  <2>1. CASE Journaled(<<id, t>>, "done")  BY <2>1, LeftStays
  <2>2. CASE JournalTree /\ id = Here /\ t = ThisTree /\ ~held
    <3>1. pc = "journal" /\ UNCHANGED <<world, shards, shown>>  BY <2>2 DEF JournalTree, disk
    <3>2. Left(t, id) = {}  BY <2>2, <3>1 DEF Swept, Listing, Left
    <3> QED  BY <3>1, <3>2 DEF Left, In
  <2>3. CASE JournalTree
    <3>1. journal' = Set(journal, <<Here, ThisTree>>, IF held THEN "partial" ELSE "done")
      BY <2>3 DEF JournalTree
    <3>2. Journaled(<<id, t>>, "done") \/ (id = Here /\ t = ThisTree /\ ~held)
      BY <1>3, <3>1, JournalSet
    <3> QED  BY <2>1, <2>2, <2>3, <3>2
  <2>4. CASE DeferTree \/ ParkDone
    <3>1. \/ journal' = Set(journal, <<Here, ThisTree>>, "partial")
          \/ journal' = Set(journal, <<Here, "PARKED">>, "parked")
      BY <2>4 DEF DeferTree, ParkDone
    <3>2. Journaled(<<id, t>>, "done")  BY <1>3, <3>1, JournalSet
    <3> QED  BY <2>1, <3>2
  <2>5. CASE journal' = journal  BY <1>3, <2>1, <2>5 DEF Journaled
  <2> QED
    BY <2>3, <2>4, <2>5
    DEF Next, Start, PassOver, Refuse, SkipColliding, ParkColliding, BeginTicker, ParkTree,
       ParkFails, TreeDone, BeginTree, Move, MoveTaken, TreeFails, WriteManifest, FinishTree,
       Kill, Rotate, Deploy, Live, log
<1> QED  BY <1>1, <1>2, <1>3 DEF Journals

\* What is cleared stays cleared: what live starts is of today, and no listing
\* looks into a tree that is done.
LEMMA ClearedStays ==
  ASSUME IInv, Swept, Next, run' = run, NEW id \in Tickers, NEW t \in TreeNames, Cleared(t, id)
  PROVE  Cleared(t, id)'
<1> SUFFICES ASSUME NEW x \in In(t, id)'
             PROVE  x.day >= run.day \/ (Journaled(<<id, t>>, "done")' /\ x \notin shown')
  BY DEF Cleared
<1>1. CASE x \notin In(t, id)
  <2>1. x.day = today  BY <1>1, InStep DEF Swept
  <2> QED  BY <2>1, Facts
<1>2. CASE x \in In(t, id) /\ Journaled(<<id, t>>, "done") /\ x \notin shown
  <2>1. Journaled(<<id, t>>, "done")' /\ Left(t, id)' = {}  BY <1>2, DoneStays, LeftStays
  <2> QED  BY <2>1 DEF Left
<1> QED  BY <1>1, <1>2 DEF Cleared

\* A ticker that was none of a run's stays empty while it lasts.
LEMMA UnplannedStays ==
  ASSUME IInv, Swept, Next, pc # "idle", plan' = plan
  PROVE  \A id \in Tickers : id \in DOMAIN plan \/ (world.tool = "quote" /\ Owned(id)' = {})
<1> SUFFICES ASSUME NEW id \in Tickers, id \notin DOMAIN plan
             PROVE  world.tool = "quote" /\ Owned(id)' = {}
  OBVIOUS
<1>1. world.tool = "quote" /\ Owned(id) = {}  BY DEF Swept, Listing
<1>2. ASSUME NEW x \in Owned(id)' PROVE FALSE
  <2>1. x \in In(x.tree, id)'  BY <1>2 DEF Owned, In
  <2>2. x \in In(x.tree, id)  BY <1>1, <2>1, InStep DEF Swept
  <2> QED  BY <1>1, <2>2 DEF Owned, In
<1> QED  BY <1>1, <1>2

\* What is behind a run stays behind it.
LEMMA BehindStays ==
  ASSUME IInv, Swept, Next, UNCHANGED <<plan, run>>, pc # "idle", run.failed = FALSE
  PROVE  /\ \A i \in DOMAIN world.order : (pc = "done" \/ i < at) /\ ~Skipped(world.order[i])' =>
              \A t \in TreeNames : Cleared(t, world.order[i])'
         /\ InTree /\ at' = at => \A j \in DOMAIN Trees : j < tree => Cleared(Trees[j], Here)'
<1>1. world' = world  BY InStep DEF Swept
<1>2. \A i \in DOMAIN world.order : world.order[i] \in Tickers
  BY WorldFacts DEF IInv, Disk
<1>3. ASSUME NEW i \in DOMAIN world.order, pc = "done" \/ i < at, ~Skipped(world.order[i])',
             NEW t \in TreeNames
      PROVE  Cleared(t, world.order[i])'
  <2>1. ~Skipped(world.order[i])  BY <1>1, <1>3 DEF Skipped
  <2>2. Cleared(t, world.order[i])  BY <1>3, <2>1 DEF Swept, Passed
  <2>3. PICK id \in Tickers : id = world.order[i]  BY <1>2
  <2>4. Cleared(t, id)'  BY <2>2, <2>3, ClearedStays
  <2> QED  BY <1>1, <2>3, <2>4
<1>4. ASSUME InTree, at' = at, NEW j \in DOMAIN Trees, j < tree
      PROVE  Cleared(Trees[j], Here)'
  <2>0. Here' = Here  BY <1>1, <1>4 DEF Here
  <2>1. Cleared(Trees[j], Here)  BY <1>4 DEF Swept, Passed
  <2>2. Here \in Tickers /\ Trees[j] \in TreeNames
    BY <1>4, Facts DEF InTree, TreeNames
  <2>3. PICK id \in Tickers : id = Here  BY <2>2
  <2>4. Cleared(Trees[j], id)'  BY <2>1, <2>2, <2>3, ClearedStays
  <2> QED  BY <2>0, <2>3, <2>4
<1> QED  BY <1>3, <1>4

\* On to the next ticker, with this one cleared or a failure on record.
LEMMA PassTicker ==
  ASSUME IInv, Swept, Next, NextTicker, pc \notin {"idle", "done"}, UNCHANGED <<today, plan>>,
         run' \in [n : Nat, day : 0 .. today, keep : BOOLEAN, failed : BOOLEAN],
         \/ run'.failed = TRUE
         \/ /\ run' = run
            /\ ~Skipped(Here) /\ run.failed = FALSE => \A t \in TreeNames : Cleared(t, Here)
  PROVE  Listing' /\ Passed'
<1>0. world' = world /\ Tickers' = Tickers  BY InStep DEF Swept
<1>1. /\ at' = at + 1 /\ tree' = 1
      /\ pc' = IF at < Len(world.order) THEN "ticker" ELSE "done"
  BY DEF NextTicker
<1>2. at \in DOMAIN world.order /\ world.order \in Seq(Tickers)
  BY WorldFacts DEF IInv, Disk, Cursors
<1>3. \A id \in Tickers : id \in DOMAIN plan \/ (world.tool = "quote" /\ Owned(id)' = {})
  BY UnplannedStays
<1>4. Listing'  BY <1>0, <1>1, <1>3 DEF Swept, Listing, InTree
<1>5. CASE run'.failed = TRUE  BY <1>4, <1>5 DEF Passed
<1>6. CASE /\ run' = run
           /\ ~Skipped(Here) /\ run.failed = FALSE => \A t \in TreeNames : Cleared(t, Here)
  <2>1. ASSUME run.failed = FALSE, NEW i \in DOMAIN world.order, pc' = "done" \/ i < at',
               ~Skipped(world.order[i]), NEW t \in TreeNames
        PROVE  Cleared(t, world.order[i])'
    <3>1. i < at \/ i = at  BY <1>1, <1>2, <2>1
    <3>2. Cleared(t, world.order[i])
      <4>1. CASE i < at  BY <2>1, <4>1 DEF Swept, Passed
      <4>2. CASE i = at  BY <1>6, <2>1, <4>2 DEF Here
      <4> QED  BY <3>1, <4>1, <4>2
    <3>3. PICK id \in Tickers : id = world.order[i]  BY WorldFacts DEF IInv, Disk
    <3>4. Cleared(t, id)'  BY <1>6, <2>1, <3>2, <3>3, ClearedStays
    <3> QED  BY <1>0, <3>3, <3>4
  <2>2. InTree' = FALSE /\ run' = run /\ plan' = plan /\ world' = world
    BY <1>0, <1>1, <1>6 DEF InTree
  <2>3. ASSUME run'.failed = FALSE, NEW i \in DOMAIN (world'.order), pc' = "done" \/ i < at',
               ~Skipped(world.order[i])', NEW t \in TreeNames
        PROVE  Cleared(t, world.order[i])'
    <3>1. ~Skipped(world.order[i])  BY <2>2, <2>3 DEF Skipped
    <3>2. i \in DOMAIN world.order /\ run.failed = FALSE  BY <2>2, <2>3
    <3> QED  BY <2>1, <2>3, <3>1, <3>2
  <2>4. ASSUME run'.failed = FALSE
        PROVE  (\A i \in DOMAIN world.order : (pc = "done" \/ i < at) /\ ~Skipped(world.order[i]) =>
                  \A t \in TreeNames : Cleared(t, world.order[i]))'
    BY <2>3, <2>4, Zenon
  <2>5. Passed'  BY <2>2, <2>4, Zenon DEF Passed
  <2> QED  BY <1>4, <2>5
<1> QED  BY <1>4, <1>5, <1>6

\* On to the next tree, likewise.
LEMMA PassTree ==
  ASSUME IInv, Swept, Next, InTree, NextTree, UNCHANGED <<today, plan>>,
         run' \in [n : Nat, day : 0 .. today, keep : BOOLEAN, failed : BOOLEAN],
         \/ run'.failed = TRUE
         \/ run' = run /\ (run.failed = FALSE => Cleared(ThisTree, Here))
  PROVE  Listing' /\ Passed'
<1>0. tree \in DOMAIN Trees /\ DOMAIN Trees = 1 .. Len(Trees) /\ Len(Trees) \in Nat
  BY MigrateAssumption DEF Swept, Listing
<1>1. world' = world /\ Tickers' = Tickers  BY InStep DEF Swept
<1>2. pc \notin {"idle", "done"} /\ Here \in Tickers  BY Facts DEF InTree
<1>3. ASSUME run.failed = FALSE, Cleared(ThisTree, Here), NEW j \in DOMAIN Trees, j <= tree
      PROVE  Cleared(Trees[j], Here)
  <2>1. j < tree \/ j = tree  BY <1>0, <1>3
  <2>2. CASE j < tree  BY <1>3, <2>2 DEF Swept, Passed, InTree
  <2>3. CASE j = tree  BY <1>3, <2>3 DEF ThisTree
  <2> QED  BY <2>1, <2>2, <2>3
<1>4. CASE tree < Len(Trees)
  <2>1. tree' = tree + 1 /\ pc' = "tree" /\ at' = at  BY <1>4 DEF NextTree
  <2>2. Here' = Here  BY <1>1, <2>1 DEF Here
  <2>3. Listing'
    <3>1. tree' \in DOMAIN Trees  BY <1>0, <1>4, <2>1
    <3>2. \A id \in Tickers : id \in DOMAIN plan \/ (world.tool = "quote" /\ Owned(id)' = {})
      BY <1>2, UnplannedStays
    <3> QED  BY <1>1, <2>1, <3>1, <3>2 DEF Swept, Listing, InTree
  <2>4. CASE run'.failed = TRUE  BY <2>3, <2>4 DEF Passed
  <2>5. CASE run' = run /\ (run.failed = FALSE => Cleared(ThisTree, Here))
    <3> SUFFICES ASSUME run.failed = FALSE PROVE Passed'
      BY <2>3, <2>5 DEF Passed
    <3>1. \A i \in DOMAIN world.order : i < at /\ ~Skipped(world.order[i])' =>
            \A t \in TreeNames : Cleared(t, world.order[i])'
      BY <1>2, <2>5, BehindStays
    <3>2. \A j \in DOMAIN Trees : j < tree' => Cleared(Trees[j], Here)'
      <4> SUFFICES ASSUME NEW j \in DOMAIN Trees, j < tree + 1 PROVE Cleared(Trees[j], Here)'
        BY <2>1
      <4>0. j <= tree  BY <1>0
      <4>1. Cleared(Trees[j], Here)  BY <1>3, <2>5, <4>0
      <4>2. Trees[j] \in TreeNames  BY DEF TreeNames
      <4>3. PICK id \in Tickers : id = Here  BY <1>2
      <4>4. Cleared(Trees[j], id)'  BY <2>5, <4>1, <4>2, <4>3, ClearedStays
      <4> QED  BY <2>2, <4>3, <4>4
    <3>3. pc' = "tree" /\ at' = at /\ run' = run  BY <2>1, <2>5
    <3> QED  BY <1>1, <2>2, <3>1, <3>2, <3>3 DEF Passed
  <2> QED  BY <2>3, <2>4, <2>5
<1>5. CASE ~(tree < Len(Trees))
  <2>1. NextTicker  BY <1>5 DEF NextTree
  <2>2. CASE run'.failed = TRUE  BY <1>2, <2>1, <2>2, PassTicker
  <2>3. CASE run' = run /\ (run.failed = FALSE => Cleared(ThisTree, Here))
    <3>1. ASSUME run.failed = FALSE, NEW t \in TreeNames PROVE Cleared(t, Here)
      <4>1. PICK j \in DOMAIN Trees : t = Trees[j]  BY DEF TreeNames
      <4>2. j <= tree  BY <1>0, <1>5
      <4> QED  BY <1>3, <2>3, <3>1, <4>1, <4>2
    <3> QED  BY <1>2, <2>1, <2>3, <3>1, PassTicker
  <2> QED  BY <2>2, <2>3
<1> QED  BY <1>4, <1>5

\* A failure goes on record.
LEMMA FailRun ==
  ASSUME Swept, Fail
  PROVE  /\ run' \in [n : Nat, day : 0 .. today, keep : BOOLEAN, failed : BOOLEAN]
         /\ run'.failed = TRUE
  BY DEF Swept, Listing, Fail

\* The steps within a ticker.
LEMMA InTickerSteps ==
  ASSUME IInv, Swept, Next, UNCHANGED <<plan, at, run>>, today' \in {today, today + 1},
         pc \notin {"idle", "done"}, pc' \in {"park", "tree", "move", "source", "journal"},
         \/ pc = "ticker" /\ tree' = 1
         \/ pc' = "park"
         \/ InTree /\ tree' = tree,
         pc' = "park" => \A j \in DOMAIN Trees : j < tree' => In(Trees[j], Here)' = {},
         pc' \in {"move", "source", "journal"} =>
           /\ ~Journaled(<<Here, ThisTree>>, "done")'
           /\ \A x \in In(ThisTree, Here)' :
                x.day \in movable' \/ (x.day >= run.day /\ (held' \/ x \notin shown')),
         pc' \in {"source", "journal"} => movable' = {}
  PROVE  Listing' /\ Passed'
<1>1. world' = world /\ Tickers' = Tickers  BY InStep DEF Swept
<1>2. Here' = Here  BY <1>1 DEF Here
<1>3. \A id \in Tickers : id \in DOMAIN plan \/ (world.tool = "quote" /\ Owned(id)' = {})
  BY UnplannedStays
<1>4. run' \in [n : Nat, day : 0 .. today', keep : BOOLEAN, failed : BOOLEAN]
  <2>1. run.day \in 0 .. today'  BY Facts
  <2> QED  BY <2>1 DEF Swept, Listing
<1>5. InTree' => tree' \in DOMAIN Trees  BY Facts DEF Swept, Listing, InTree
<1>6. Listing'
  BY <1>1, <1>2, <1>3, <1>4, <1>5 DEF Swept, Listing
<1>7. Passed'
  <2> SUFFICES ASSUME run.failed = FALSE PROVE Passed'
    BY DEF Passed
  <2>1. \A i \in DOMAIN world.order : i < at /\ ~Skipped(world.order[i])' =>
          \A t \in TreeNames : Cleared(t, world.order[i])'
    BY BehindStays
  <2>2. ASSUME InTree', NEW j \in DOMAIN Trees, j < tree' PROVE Cleared(Trees[j], Here)'
    <3>1. CASE tree' = 1  BY <2>2, <3>1, Facts
    <3>2. CASE tree' = tree /\ InTree  BY <2>2, <3>2, BehindStays
    <3> QED  BY <2>2, <3>1, <3>2 DEF InTree
  <2> QED  BY <1>1, <1>2, <2>1, <2>2 DEF Passed
<1> QED  BY <1>6, <1>7

LEMMA SweptStep ==
  ASSUME IInv, Swept, Next
  PROVE  Listing' /\ Passed'
<1>0. world' = world /\ Tickers' = Tickers /\ today' \in {today, today + 1}
  BY InStep, ClockStep DEF Swept
<1>1. ASSUME NEW keep \in BOOLEAN, Start(keep) PROVE Listing' /\ Passed'
  <2>1. /\ run' = [n |-> run.n + 1, day |-> today, keep |-> keep, failed |-> FALSE]
        /\ plan' = [id \in {i \in Tickers : world.tool = "phantom" \/ HasFiles(i)} |->
                IF world.tool = "quote" /\ Collides(world.dest[id]) THEN "collides" ELSE "clean"]
        /\ at' = 1 /\ tree' = 1 /\ pc' = "ticker" /\ UNCHANGED <<world, shards, today>>
    BY <1>1 DEF Start, disk
  <2>2. run' \in [n : Nat, day : 0 .. today, keep : BOOLEAN, failed : BOOLEAN]
    BY <2>1, Facts DEF Swept, Listing
  <2>3. DOMAIN plan' = {i \in Tickers : world.tool = "phantom" \/ HasFiles(i)}  BY <2>1
  <2>4. \A id \in Tickers : id \in DOMAIN plan' \/ (world.tool = "quote" /\ Owned(id)' = {})
    BY <2>1, <2>3, WorldFacts DEF IInv, Disk, HasFiles, Owned
  <2>5. Listing'  BY <1>0, <2>1, <2>2, <2>3, <2>4 DEF Listing, InTree
  <2>6. \A i \in DOMAIN world.order : ~(i < 1)  BY WorldFacts DEF IInv, Disk
  <2> QED  BY <2>1, <2>5, <2>6 DEF Passed, InTree
<1>2. CASE PassOver
  <2>1. /\ pc = "ticker" /\ NextTicker /\ UNCHANGED <<today, plan, run>>
        /\ Here \notin DOMAIN plan \/ Journaled(<<Here, "PARKED">>, "parked")
    BY <1>2 DEF PassOver
  <2>2. Here \in Tickers  BY <2>1, Facts
  <2>3. ASSUME NEW t \in TreeNames PROVE Cleared(t, Here)
    <3>1. In(t, Here) = {}
      BY <2>1, <2>2 DEF Swept, Journals, Listing, Owned, In
    <3> QED  BY <3>1 DEF Cleared
  <2> QED  BY <2>1, <2>3, PassTicker DEF Swept, Listing
<1>3. CASE Refuse  BY <1>3, FailRun, PassTicker DEF Refuse, Candidate
<1>4. CASE SkipColliding
  BY <1>4, PassTicker DEF SkipColliding, Candidate, Swept, Listing
<1>5. CASE ParkColliding
  <2>1. /\ pc = "ticker" /\ pc' = "park" /\ UNCHANGED <<today, run, plan, at, tree>>
    BY <1>5 DEF ParkColliding, Candidate, job
  <2>2. \A j \in DOMAIN Trees : ~(j < tree')  BY <2>1, Facts DEF Swept, Listing
  <2> QED  BY <2>1, <2>2, InTickerSteps
<1>6. CASE BeginTicker
  <2>1. /\ pc = "ticker" /\ pc' = "tree" /\ UNCHANGED <<today, run, plan, at, tree>>
    BY <1>6 DEF BeginTicker, Candidate, job
  <2>2. tree' = 1  BY <2>1 DEF Swept, Listing
  <2> QED  BY <2>1, <2>2, InTickerSteps
<1>7. CASE ParkTree
  <2>1. /\ pc = "park" /\ pc' = "park" /\ tree' = tree + 1
        /\ shards' = shards \ In(ThisTree, Here)
        /\ UNCHANGED <<today, run, plan, at>>
    BY <1>7 DEF ParkTree
  <2>2. Here' = Here  BY <1>0, <2>1 DEF Here
  <2>3. tree \in Nat  BY <2>1 DEF IInv, Cursors
  <2>4. ASSUME NEW j \in DOMAIN Trees, j < tree + 1 PROVE In(Trees[j], Here)' = {}
    <3>1. j < tree \/ j = tree  BY <2>3, <2>4, Facts
    <3>2. CASE j < tree
      <4>1. In(Trees[j], Here) = {}  BY <2>1, <3>2 DEF Swept, Listing
      <4> QED  BY <2>1, <2>2, <4>1 DEF In
    <3>3. CASE j = tree  BY <2>1, <2>2, <3>3 DEF In, ThisTree
    <3> QED  BY <3>1, <3>2, <3>3
  <2> QED  BY <2>1, <2>4, InTickerSteps
<1>8. CASE ParkDone
  <2>1. pc = "park" /\ tree > Len(Trees) /\ NextTicker /\ UNCHANGED <<today, plan, run>>
    BY <1>8 DEF ParkDone
  <2>2. Here \in Tickers  BY <2>1, Facts
  <2>3. ASSUME NEW t \in TreeNames PROVE Cleared(t, Here)
    <3>1. PICK j \in DOMAIN Trees : t = Trees[j]  BY DEF TreeNames
    <3>2. j < tree  BY <2>1, Facts DEF IInv, Cursors
    <3> QED  BY <2>1, <3>1, <3>2 DEF Swept, Listing, Cleared
  <2> QED  BY <2>1, <2>3, PassTicker DEF Swept, Listing
<1>9. CASE ParkFails  BY <1>9, FailRun, PassTicker DEF ParkFails
<1>10. CASE TreeDone
  <2>1. pc = "tree" /\ NextTree /\ UNCHANGED <<today, plan, run>>
    BY <1>10 DEF TreeDone
  <2>2. InTree /\ Here \in Tickers /\ ThisTree \in TreeNames
    BY <2>1, Facts DEF InTree
  <2>3. Cleared(ThisTree, Here)
    <3>1. CASE Journaled(<<Here, ThisTree>>, "done")
      BY <2>2, <3>1 DEF Swept, Journals, Left, Cleared
    <3>2. CASE In(ThisTree, Here) = {}  BY <3>2 DEF Cleared
    <3> QED  BY <1>10, <3>1, <3>2 DEF TreeDone
  <2> QED  BY <2>1, <2>2, <2>3, PassTree DEF Swept, Listing
<1>11. CASE DeferTree
  <2>1. /\ pc = "tree" /\ NextTree /\ UNCHANGED <<today, plan, run>>
        /\ \A d \in DaysIn(ThisTree, Here) : d >= today
    BY <1>11 DEF DeferTree, Listed
  <2>2. \A x \in In(ThisTree, Here) : x.day >= today /\ x.day \in Nat
    BY <2>1, Facts DEF DaysIn, In
  <2>3. Cleared(ThisTree, Here)  BY <2>2, Facts DEF Cleared
  <2>4. InTree /\ Here \in Tickers /\ ThisTree \in TreeNames
    BY <2>1, Facts DEF InTree
  <2> QED  BY <2>1, <2>3, <2>4, PassTree DEF Swept, Listing
<1>12. CASE BeginTree
  <2>1. /\ pc = "tree" /\ pc' = "move" /\ UNCHANGED <<shards, today, run, plan, at, tree, journal>>
        /\ ~Journaled(<<Here, ThisTree>>, "done")
        /\ movable' = {d \in DaysIn(ThisTree, Here) : d < today}
        /\ held' = \E d \in DaysIn(ThisTree, Here) : d >= today
    BY <1>12 DEF BeginTree, Listed, disk
  <2>2. /\ In(ThisTree, Here)' = In(ThisTree, Here)
        /\ ~Journaled(<<Here, ThisTree>>, "done")'
    BY <1>0, <2>1 DEF In, ThisTree, Here, Journaled
  <2>3. \A x \in In(ThisTree, Here) : x.day \in DaysIn(ThisTree, Here) /\ x.day \in Nat
    BY Facts DEF DaysIn, In
  <2>4. ASSUME NEW x \in In(ThisTree, Here)'
        PROVE  x.day \in movable' \/ (held' /\ x.day >= run.day)
    <3>1. x.day \in DaysIn(ThisTree, Here) /\ x.day \in Nat  BY <2>2, <2>3, <2>4
    <3>2. CASE x.day < today  BY <2>1, <3>1, <3>2
    <3>3. CASE x.day >= today
      <4>1. held'  BY <2>1, <3>1, <3>3, Zenon
      <4>2. x.day >= run.day  BY <3>1, <3>3, Facts
      <4> QED  BY <4>1, <4>2
    <3> QED  BY <3>1, <3>2, <3>3, Facts
  <2>5. InTree  BY <2>1 DEF InTree
  <2> QED  BY <2>1, <2>2, <2>4, <2>5, InTickerSteps
<1>13. ASSUME NEW x \in NextShards, pc = "move", pc' = "move", movable' = movable \ {x.day},
              x \notin shards', UNCHANGED <<today, journal, shown, run, plan, at, tree, held>>
       PROVE  Listing' /\ Passed'
  <2>1. Here \in Tickers /\ Here' = Here /\ ThisTree' = ThisTree
    BY <1>0, <1>13, Facts DEF Here, ThisTree
  <2>2. x \in shards /\ x.id = Here /\ x.tree = ThisTree  BY DEF NextShards, In
  <2>3. ASSUME NEW z \in In(ThisTree, Here)'
        PROVE  z.day \in movable' \/ (z.day >= run.day /\ (held \/ z \notin shown))
    <3>1. CASE z \in In(ThisTree, Here)
      <4>1. z \in shards /\ z.id = Here /\ z.tree = ThisTree /\ z # x
        BY <1>13, <2>1, <2>3, <3>1 DEF In
      <4>2. z.day # x.day  BY <2>2, <4>1 DEF IInv, Disk, Unique
      <4>3. z.day \in movable \/ (z.day >= run.day /\ (held \/ z \notin shown))
        BY <1>13, <3>1 DEF Swept, Listing
      <4> QED  BY <1>13, <4>2, <4>3
    <3>2. CASE z \notin In(ThisTree, Here)
      <4>1. z.day = today /\ z \notin shown  BY <2>1, <2>3, <3>2, InStep DEF Swept
      <4> QED  BY <4>1, Facts
    <3> QED  BY <3>1, <3>2
  <2>4. ~Journaled(<<Here, ThisTree>>, "done")'
    BY <1>13, <2>1 DEF Swept, Listing, Journaled
  <2>5. InTree  BY <1>13 DEF InTree
  <2> QED  BY <1>13, <2>3, <2>4, <2>5, InTickerSteps
<1>14. CASE Move
  <2>1. PICK x \in NextShards : /\ shards' = (shards \ {x}) \cup {[x EXCEPT !.id = There]}
                                /\ movable' = movable \ {x.day}
    BY <1>14 DEF Move
  <2>2. pc = "move" /\ pc' = "move" /\ UNCHANGED <<today, journal, shown, run, plan, at, tree, held>>
    BY <1>14 DEF Move, log
  <2>3. x \in Shard /\ x.id = Here /\ Here \in Tickers /\ There \in Ids \ Tickers
    BY <2>2, Movable
  <2>4. [x EXCEPT !.id = There] # x  BY <2>3, Moved
  <2>5. x \notin shards'  BY <2>1, <2>4
  <2> QED  BY <1>13, <2>1, <2>2, <2>5
<1>15. CASE MoveTaken
  <2>1. PICK x \in NextShards : shards' = shards \ {x} /\ movable' = movable \ {x.day}
    BY <1>15 DEF MoveTaken
  <2>2. pc = "move" /\ pc' = "move" /\ UNCHANGED <<today, journal, shown, run, plan, at, tree, held>>
    BY <1>15 DEF MoveTaken, log
  <2> QED  BY <1>13, <2>1, <2>2
<1>16. CASE TreeFails  BY <1>16, FailRun, PassTree DEF TreeFails, InTree
<1>17. CASE WriteManifest \/ FinishTree
  <2>1. /\ pc \in {"move", "source"} /\ pc' \in {"source", "journal"} /\ movable = {}
        /\ UNCHANGED <<shards, today, journal, shown, run, plan, at, tree, movable, held>>
    BY <1>17 DEF WriteManifest, FinishTree, job, log, Swept, Listing
  <2>2. /\ In(ThisTree, Here)' = In(ThisTree, Here)
        /\ ~Journaled(<<Here, ThisTree>>, "done")'
    BY <1>0, <2>1 DEF In, ThisTree, Here, Swept, Listing, Journaled
  <2>3. \A x \in In(ThisTree, Here) : x.day \in movable \/ (x.day >= run.day /\ (held \/ x \notin shown))
    BY <2>1 DEF Swept, Listing
  <2>4. InTree  BY <2>1 DEF InTree
  <2> QED  BY <2>1, <2>2, <2>3, <2>4, InTickerSteps
<1>18. CASE JournalTree
  <2>1. pc = "journal" /\ NextTree /\ UNCHANGED <<today, plan, run>>
    BY <1>18 DEF JournalTree
  <2>2. Cleared(ThisTree, Here)  BY <2>1 DEF Cleared, Swept, Listing
  <2>3. InTree /\ Here \in Tickers /\ ThisTree \in TreeNames
    BY <2>1, Facts DEF InTree
  <2> QED  BY <2>1, <2>2, <2>3, PassTree DEF Swept, Listing
<1>19. CASE Kill
  BY <1>0, <1>19 DEF Kill, Swept, Listing, Passed, InTree
<1>20. CASE UNCHANGED <<world, job, journal, shown, pc, run>>
  <2>1. UNCHANGED <<world, plan, at, tree, movable, held, journal, shown, pc, run>>  BY <1>20 DEF job
  <2>2. Here' = Here /\ ThisTree' = ThisTree  BY <2>1 DEF Here, ThisTree
  <2>3. run' \in [n : Nat, day : 0 .. today', keep : BOOLEAN, failed : BOOLEAN]
    <3>1. run.day \in 0 .. today'  BY <1>0, Facts
    <3> QED  BY <2>1, <3>1 DEF Swept, Listing
  <2>4. ASSUME pc = "park", NEW j \in DOMAIN Trees, j < tree PROVE In(Trees[j], Here)' = {}
    <3>1. In(Trees[j], Here) = {} /\ Here \in Tickers /\ world.tool = "quote"
      BY <2>4, Facts DEF Swept, Listing, IInv, Cursors
    <3> QED  BY <2>2, <3>1, InStep DEF Swept
  <2>5. ASSUME pc \in {"move", "source", "journal"}, NEW x \in In(ThisTree, Here)'
        PROVE  x.day \in movable \/ (x.day >= run.day /\ (held \/ x \notin shown))
    <3>1. CASE x \in In(ThisTree, Here)  BY <2>5, <3>1 DEF Swept, Listing
    <3>2. CASE x \notin In(ThisTree, Here)
      <4>1. x.day = today /\ x \notin shown  BY <2>2, <2>5, <3>2, Facts, InStep DEF Swept
      <4> QED  BY <4>1, Facts
    <3> QED  BY <3>1, <3>2
  <2>6. pc # "idle" => \A id \in Tickers : id \in DOMAIN plan \/ (world.tool = "quote" /\ Owned(id)' = {})
    BY <2>1, UnplannedStays
  <2>7. Listing'
    <3>1. pc \in {"move", "source", "journal"} => ~Journaled(<<Here, ThisTree>>, "done")'
      BY <2>1, <2>2 DEF Swept, Listing, Journaled
    <3>2. InTree' = InTree  BY <2>1 DEF InTree
    <3> QED  BY <1>0, <2>1, <2>2, <2>3, <2>4, <2>5, <2>6, <3>1, <3>2 DEF Swept, Listing
  <2>8. Passed'
    <3> SUFFICES ASSUME pc # "idle", run.failed = FALSE PROVE Passed'
      BY <2>1 DEF Passed
    <3> QED  BY <2>1, BehindStays DEF Passed, InTree
  <2> QED  BY <2>7, <2>8
<1>21. Rotate \/ Deploy \/ (\E id \in Tickers, t \in LiveTrees : Live(id, t))
       => UNCHANGED <<world, job, journal, shown, pc, run>>
  BY DEF Rotate, Deploy, Live, job, log
<1> QED
  BY <1>1, <1>2, <1>3, <1>4, <1>5, <1>6, <1>7, <1>8, <1>9, <1>10, <1>11, <1>12, <1>14,
     <1>15, <1>16, <1>17, <1>18, <1>19, <1>20, <1>21 DEF Next

-----------------------------------------------------------------------------
\* The invariant holds in every reachable state: a shard is in one place, those
\* nothing has a claim on where they were written, and what was decided about a
\* ticker before the first move stays right until the run is over.
THEOREM MigrateInductive == Spec => []IInv
<1>1. Init => IInv
  <2> SUFFICES ASSUME Init PROVE IInv
    OBVIOUS
  <2>1. Disk  BY InitDisk
  <2>2. Cursors  BY DEF Init, Cursors
  <2> QED  BY <2>1, <2>2 DEF IInv
<1>2. IInv /\ [Next]_vars => IInv'
  <2> SUFFICES ASSUME IInv, [Next]_vars PROVE IInv'
    OBVIOUS
  <2>1. CASE Next  BY <2>1, StepDisk, StepCursors DEF IInv
  <2>2. CASE UNCHANGED vars
    <3>1. Disk'  BY <2>2, DiskKept DEF IInv, vars, disk
    <3>2. Cursors'  BY <2>2 DEF IInv, Cursors, Twin, Here, vars, job
    <3> QED  BY <3>1, <3>2 DEF IInv
  <2> QED  BY <2>1, <2>2
<1> QED  BY <1>1, <1>2, PTL DEF Spec

\* "Never destroys": whatever the runs did and wherever they were killed, each
\* shard there was is in one directory or in the park, and only there.
THEOREM MigrateKeeps == Spec => []NothingDestroyed
<1>1. IInv => NothingDestroyed
  <2> SUFFICES ASSUME IInv, NEW x \in world.shards
               PROVE  Cardinality({y \in shards \cup parked :
                                     y.tree = x.tree /\ y.day = x.day /\ y.by = x.by}) = 1
    BY DEF NothingDestroyed
  <2> DEFINE there == {y \in shards \cup parked : y.tree = x.tree /\ y.day = x.day /\ y.by = x.by}
  <2>1. PICK y \in Places : Same(y, x)  BY DEF IInv, Disk, Kept
  <2>2. y \in there  BY <2>1 DEF Same, Places
  <2>3. \A z \in there : z = y
    BY <2>1 DEF Same, Places, IInv, Disk, Unique
  <2>4. there = {y}  BY <2>2, <2>3
  <2> HIDE DEF there
  <2>5. Cardinality(there) = 1  BY <2>4, FS_Singleton
  <2> QED  BY <2>5 DEF there
<1> QED  BY <1>1, MigrateInductive, PTL

\* Where the USD twin had a series in any tree, no shard of a stablecoin ticker
\* is ever among its shards.
THEOREM MigrateNeverMixes == Spec => []TwinNeverMixed
<1>1. IInv => TwinNeverMixed  BY DEF IInv, Disk
<1> QED  BY <1>1, MigrateInductive, PTL

\* Of a tree the journal calls done, nothing any listing had shown is left, and in
\* the trees a run that has not failed has passed, no shard that was closed when it
\* began, but what live started in a tree that was done and that no run looks into
\* again (migrate_phantom_ids.rs:310-312).
THEOREM MigrateSweeps == Spec => []Swept
<1>1. Init => Swept
  <2> SUFFICES ASSUME Init PROVE Swept
    OBVIOUS
  <2>1. run \in [n : Nat, day : 0 .. today, keep : BOOLEAN, failed : BOOLEAN]
    <3>1. run = [n |-> 0, day |-> FirstDay, keep |-> FALSE, failed |-> FALSE] /\ today = FirstDay
      BY DEF Init
    <3> QED  BY <3>1, MigrateAssumption
  <2>2. Journals  BY DEF Init, Journals, Journaled
  <2>3. Listing  BY <2>1 DEF Init, Listing, InTree
  <2>4. Passed  BY DEF Init, Passed
  <2>5. Known  BY DEF Init, Known
  <2> QED  BY <2>2, <2>3, <2>4, <2>5 DEF Swept
<1>2. IInv /\ Swept /\ [Next]_vars => Swept'
  <2> SUFFICES ASSUME IInv, Swept, [Next]_vars PROVE Swept'
    OBVIOUS
  <2>1. CASE Next  BY <2>1, JournalsStep, KnownStep, SweptStep DEF Swept
  <2>2. CASE UNCHANGED vars
    <3>0. UNCHANGED <<world, shards, journal, shown, today, pc, run, plan, at, tree, movable, held>>
      BY <2>2 DEF vars, disk, log, job
    <3>1. Journals'
      <4>1. \A id, u : In(u, id)' = In(u, id) /\ Left(u, id)' = Left(u, id)
        BY <3>0 DEF In, Left
      <4>2. \A k, v : Journaled(k, v)' = Journaled(k, v)  BY <3>0 DEF Journaled
      <4>3. world' = world /\ Tickers' = Tickers  BY <3>0 DEF Tickers
      <4> QED  BY <4>1, <4>2, <4>3 DEF Swept, Journals
    <3>2. Listing'
      BY <3>0 DEF Swept, Listing, In, Owned, Journaled, InTree, Here, ThisTree, Tickers
    <3>3. Passed'
      BY <3>0 DEF Swept, Passed, Cleared, Skipped, In, Journaled, InTree, Here
    <3>4. Known'  BY <3>0 DEF Swept, Known, Tickers
    <3> QED  BY <3>1, <3>2, <3>3, <3>4 DEF Swept
  <2> QED  BY <2>1, <2>2
<1> QED  BY <1>1, <1>2, MigrateInductive, PTL DEF Spec

\* Whatever earlier runs were killed or failed half way, a run that ends without a
\* failure leaves under the old ids, of what was closed when it began, the tickers it
\* skips because the destination has files, and what live started in a tree after
\* it was listed for the run that journaled it done.
THEOREM MigrateLeavesOnly == Spec => []LeavesOnlySkippedOrLate
<1>1. IInv /\ Swept => LeavesOnlySkippedOrLate
  <2> SUFFICES ASSUME IInv, Swept, pc = "done", ~run.failed, NEW x \in shards,
                      x.id \in Tickers, x.day < run.day, ~Skipped(x.id)
               PROVE  Journaled(<<x.id, x.tree>>, "done") /\ x \notin shown
    BY DEF LeavesOnlySkippedOrLate
  <2>1. run.failed \in BOOLEAN  BY DEF Swept, Listing
  <2>2. run.failed = FALSE  BY <2>1
  <2>3. x.tree \in TreeNames /\ x.day \in Nat /\ run.day \in Nat  BY Facts
  <2>4. PICK i \in DOMAIN world.order : world.order[i] = x.id
    BY WorldsAssumption DEF IInv, Disk, Typed, Tickers
  <2>5. Cleared(x.tree, x.id)
    <3>1. ~Skipped(world.order[i])  BY <2>4
    <3>2. pc # "idle" /\ Passed  BY DEF Swept
    <3>3. \A t \in TreeNames : Cleared(t, world.order[i])  BY <2>2, <3>1, <3>2 DEF Passed
    <3> QED  BY <2>3, <2>4, <3>3
  <2>6. x \in In(x.tree, x.id)  BY DEF In
  <2> QED  BY <2>3, <2>5, <2>6 DEF Cleared
<1> QED  BY <1>1, MigrateInductive, MigrateSweeps, PTL

=============================================================================
